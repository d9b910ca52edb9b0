--------------------------- MODULE TransferProofs ---------------------------
(***************************************************************************)
(* Theorems about one transfer, for every manifest, every number of names  *)
(* and every number of faults.                                             *)
(***************************************************************************)
EXTENDS Transfer, FiniteSetTheorems, SequenceTheorems, TLAPS

-----------------------------------------------------------------------------
(* The type invariant *)

SenderSteps == {"idle", "accept", "serve", "ack", "completed", "confirmed"}
ReceiverSteps == {"idle", "offer", "open", "restore", "copied", "ready", "register", "barrier", "data",
                  "acked", "finish", "publish", "link", "record", "confirm"}
Names == {"free", "ours", "other", "copy"}

ReceiverFields == {"pc", "at", "plan", "verified", "committed", "intents", "dir", "dirIntent"}
SavedFields == {"state", "plan", "committed", "intents", "dir", "dirIntent"}

\* Frames of the sender, and frames of the receiver.
Requests ==
    {Frame(op, {}) : op \in {"offer", "error"}}
        \cup {Frame(op, sel) : op \in {"accepted", "finish", "confirmed"}, sel \in SUBSET Entries}
        \cup {Frame("data", c) : c \in Pairs}
Answers ==
    {Frame(op, {}) : op \in {"ready", "reject", "error", "confirmed_ack"}}
        \cup {Frame("accept", [selection |-> sel, verified |-> n]) : sel \in SUBSET Entries, n \in Nat}
        \cup {Frame("ack", [chunk |-> c, verified |-> n]) : c \in Pairs, n \in Nat}
        \cup {Frame("chunk", c) : c \in Pairs} \cup {Frame("completed", n) : n \in Nat}

\* A plan that was built: the directory, and a number for each entry.
IsPlan(p) ==
    /\ DOMAIN p = {"names", "policy"}
    /\ 0 \in Selection(p) /\ Selection(p) \subseteq Entries
    /\ \A e \in Selection(p) : p.names[e] \in Numbers

SenderTypeOK ==
    /\ snd \in [pc : SenderSteps, selected : SUBSET Entries, verified : Nat, initial : Nat, sent : Nat,
                chunk : Nat \X Nat]
    /\ sent \in [selection : {<<>>} \cup {<<sel>> : sel \in SUBSET Entries}, completed : BOOLEAN]

ReceiverTypeOK ==
    /\ DOMAIN rcv = ReceiverFields
    /\ rcv.pc \in ReceiverSteps /\ rcv.at \in Nat
    /\ rcv.verified \subseteq Pairs /\ rcv.committed \subseteq Files /\ rcv.intents \subseteq Files
    /\ rcv.dir \in BOOLEAN /\ rcv.dirIntent \in BOOLEAN
    /\ rcv.pc \notin {"idle", "offer"} => IsPlan(rcv.plan)
    /\ rcv.pc = "copied" => rcv.at \in FilesOf(rcv.plan)
    /\ rcv.pc \in {"link", "record"} => Min(Left) \in Left

DiskTypeOK ==
    /\ DOMAIN disk = {"stage", "part", "new", "same", "saved"}
    /\ disk.part \in [Files -> SUBSET Whole]
    /\ DOMAIN disk.saved = SavedFields
    /\ disk.saved.committed \subseteq Files /\ disk.saved.intents \subseteq Files
    /\ disk.saved.dir \in BOOLEAN /\ disk.saved.dirIntent \in BOOLEAN
    /\ IF Loaded THEN IsPlan(disk.saved.plan) ELSE disk.saved = NoState
    /\ target \in [Slots -> Names]

WireTypeOK ==
    /\ s2r \in Seq(Requests) /\ r2s \in Seq(Answers) /\ link \in {"none", "up", "ended"}
    /\ DOMAIN row = {"state", "plan"}
    /\ DOMAIN seen = {"linked", "acked", "confirmed"}
    /\ seen.linked \subseteq Slots /\ seen.acked \subseteq Pairs

TransferTypeOK == SenderTypeOK /\ ReceiverTypeOK /\ DiskTypeOK /\ WireTypeOK

-----------------------------------------------------------------------------
(* What the staging directory, the names and the receiver claim *)

\* The receiver has a Receiver.State, which its checkpoint follows.
Following == {"ready", "register", "barrier", "data", "acked", "finish", "publish", "link", "record", "confirm"}

\* What the receiver holds is what is saved; while it restores, it goes
\* through what is saved.
Follows ==
    LET s == disk.saved IN
    /\ rcv.pc \in Following =>
         /\ Loaded /\ s.plan = rcv.plan /\ s.committed = rcv.committed /\ s.intents = rcv.intents
         /\ s.dir = rcv.dir /\ s.dirIntent = rcv.dirIntent
    /\ rcv.pc \in {"restore", "copied"} =>
         IF Loaded
         THEN /\ s.plan = rcv.plan /\ s.dir = rcv.dir /\ s.dirIntent = rcv.dirIntent
              /\ s.committed \subseteq rcv.committed /\ rcv.committed \subseteq s.committed \cup s.intents
              /\ s.intents \subseteq rcv.intents \cup rcv.committed /\ rcv.intents \subseteq s.intents
         ELSE rcv.committed = {} /\ rcv.intents = {}
    /\ rcv.pc \in {"offer", "open"} =>
         rcv.committed = {} /\ rcv.intents = {} /\ ~rcv.dir /\ ~rcv.dirIntent /\ rcv.verified = {}

Ours(s) == target[s] = "ours"

\* A name we took is the one the saved plan gives its entry, and the
\* checkpoint has a claim to it that the next start can tell.
NamesAreClaimed ==
    LET s == disk.saved IN
    \A t \in Slots : Ours(t) =>
        /\ t \in seen.linked /\ Loaded
        /\ t[1] \in Selection(s.plan) /\ t = Slot(s.plan, t[1])
        /\ IF t[1] = 0 THEN s.dir \/ s.dirIntent
           ELSE s.dir /\ (t[1] \in s.committed \/ (t[1] \in s.intents /\ t \in disk.same))

\* What is claimed as committed was published, in a directory that is there.
ClaimsArePublished ==
    LET s == disk.saved IN
    /\ Loaded => \A f \in s.committed : f \in Selection(s.plan) /\ Slot(s.plan, f) \in seen.linked
    /\ Loaded => (s.committed \cup s.intents # {} => s.dir)
    /\ ~Loaded => s.committed = {}
    /\ \A f \in rcv.committed : f \in Selection(rcv.plan) /\ Slot(rcv.plan, f) \in seen.linked

\* What has been gone through is committed if it is ours; what is left has a
\* name that is not ours, but for the one just taken.
NothingTakenTwice ==
    /\ rcv.pc \in {"restore", "copied"} =>
         \A f \in FilesOf(rcv.plan) : f < rcv.at /\ Ours(Slot(rcv.plan, f)) => f \in rcv.committed
    /\ rcv.pc = "copied" => ~Restorable(rcv.at)
    /\ rcv.pc \in Following =>
         \A f \in FilesOf(rcv.plan) : Ours(Slot(rcv.plan, f)) =>
            f \in rcv.committed \/ (rcv.pc = "record" /\ f = Min(Left))
    /\ rcv.pc \in {"link", "record"} =>
         IF Min(Left) = 0 THEN rcv.dirIntent ELSE rcv.dir /\ Min(Left) \in rcv.intents
    /\ rcv.pc = "link" => ~Ours(Place(Min(Left)))
    /\ rcv.pc = "record" => Place(Min(Left)) \in seen.linked
    /\ rcv.pc = "record" /\ Ours(Place(Min(Left))) => Place(Min(Left)) \in disk.same

PublicationIInv == Follows /\ NamesAreClaimed /\ ClaimsArePublished /\ NothingTakenTwice

-----------------------------------------------------------------------------
(* What the two ends know of each other *)

\* The body has begun, or the commit.
Agreed == rcv.pc \in {"data", "acked", "finish", "publish", "link", "record", "confirm"}
          \/ (rcv.pc \in {"ready", "register"} /\ rcv.at # 0)

Body(p) == FilesOf(p) \X Whole

\* What is on the disk and on its way to the receiver was agreed on.
Agreement ==
    /\ Agreed => sent.selection = <<Selection(rcv.plan)>>
    /\ rcv.pc \notin {"idle", "offer"} =>
         /\ \A i \in 1 .. Len(s2r) :
              /\ s2r[i].op = "accepted" => sent.selection = <<Selection(rcv.plan)>>
              /\ s2r[i].op = "data" => s2r[i].arg \in Body(rcv.plan)
         /\ rcv.verified \subseteq Body(rcv.plan)
    /\ rcv.pc = "offer" => \A i \in 1 .. Len(s2r) : s2r[i].op = "offer"
    /\ (\E f \in Files : disk.part[f] # {}) => Loaded

Count == Cardinality(rcv.verified)
Counted(n) == /\ snd.selected = Selection(rcv.plan)
              /\ snd.verified <= Count /\ Count + n <= snd.initial + snd.sent

One(q, op) == Len(q) = 1 /\ q[1].op = op
Two(q, a, b) == Len(q) = 2 /\ q[1].op = a /\ q[2].op = b

\* The stations of an undisturbed conversation.
Station ==
    \/ snd.pc = "accept" /\ rcv.pc = "offer" /\ One(s2r, "offer") /\ r2s = <<>>
    \/ /\ snd.pc = "accept" /\ s2r = <<>> /\ r2s = <<>>
       /\ rcv.pc \in {"open", "restore", "copied"} \/ (rcv.pc \in {"ready", "register"} /\ rcv.at = 0)
    \/ /\ snd.pc = "accept" /\ rcv.pc = "barrier" /\ s2r = <<>> /\ One(r2s, "accept")
       /\ r2s[1].arg = [selection |-> Selection(rcv.plan), verified |-> Count]
    \/ snd.pc = "serve" /\ rcv.pc = "barrier" /\ One(s2r, "accepted") /\ r2s = <<>> /\ Counted(0)
    \/ /\ snd.pc = "serve" /\ rcv.pc = "data" /\ s2r = <<>> /\ One(r2s, "chunk") /\ Counted(0)
       /\ r2s[1].arg \in Body(rcv.plan)
    \/ /\ snd.pc = "ack" /\ rcv.pc = "data" /\ One(s2r, "data") /\ r2s = <<>> /\ Counted(1)
       /\ s2r[1].arg = snd.chunk
    \/ /\ snd.pc = "ack" /\ rcv.pc = "acked" /\ s2r = <<>> /\ One(r2s, "ack") /\ Counted(0)
       /\ r2s[1].arg.verified = Count
    \/ snd.pc = "serve" /\ rcv.pc = "acked" /\ s2r = <<>> /\ r2s = <<>> /\ Counted(0)
    \/ /\ snd.pc = "ack" /\ rcv.pc = "data" /\ s2r = <<>> /\ Two(r2s, "ack", "chunk") /\ Counted(0)
       /\ r2s[1].arg.verified = Count /\ r2s[2].arg \in Body(rcv.plan)
    \/ snd.pc = "ack" /\ rcv.pc = "finish" /\ s2r = <<>> /\ Two(r2s, "ack", "ready")
    \/ snd.pc = "serve" /\ rcv.pc = "finish" /\ s2r = <<>> /\ One(r2s, "ready")
    \/ snd.pc = "completed" /\ rcv.pc = "finish" /\ One(s2r, "finish") /\ r2s = <<>>
    \/ /\ snd.pc = "completed" /\ s2r = <<>> /\ r2s = <<>>
       /\ rcv.pc \in {"publish", "link", "record"} \/ (rcv.pc \in {"ready", "register"} /\ rcv.at # 0)
    \/ snd.pc = "completed" /\ rcv.pc = "confirm" /\ s2r = <<>> /\ One(r2s, "completed")
    \/ snd.pc = "confirmed" /\ rcv.pc = "confirm" /\ One(s2r, "confirmed") /\ r2s = <<>>

Conversation ==
    /\ link = "none" => s2r = <<>> /\ r2s = <<>>
    /\ link = "ended" => snd.pc = "idle" \/ rcv.pc = "idle"
    /\ snd.pc # "idle" /\ rcv.pc # "idle" /\ link = "up" => Station

\* An acknowledgement is the first frame the sender reads, it fits, and its
\* chunk is on the disk; whatever has become of the receiver.
AcksAreSound ==
    /\ \A c \in seen.acked : c[2] \in disk.part[c[1]]
    /\ snd.pc # "idle" => \A i \in 1 .. Len(r2s) : r2s[i].op = "ack" =>
         /\ i = 1 /\ snd.pc = "ack" /\ AckFits(r2s[i].arg)
         /\ r2s[i].arg.chunk[2] \in disk.part[r2s[i].arg.chunk[1]]

\* A completed transfer: what was agreed is published, and the checkpoint
\* says so.
Published ==
    /\ disk.saved.state = "Completed"
    /\ \A f \in FilesOf(disk.saved.plan) : Slot(disk.saved.plan, f) \in seen.linked
    /\ sent.selection = <<Selection(disk.saved.plan)>>

Completion ==
    /\ rcv.pc = "confirm" => Published
    /\ row.state = "completed" => rcv.pc \in {"idle", "offer"} /\ Published /\ seen.confirmed
    /\ snd.pc # "idle" => \A i \in 1 .. Len(r2s) :
         r2s[i].op = "confirmed_ack" => rcv.pc = "idle" /\ row.state = "completed"
    /\ sent.completed => rcv.pc = "idle" /\ row.state = "completed"

TransferIInv ==
    PublicationIInv /\ Agreement /\ AgreedBeforeBody /\ Conversation /\ AcksAreSound /\ Completion


-----------------------------------------------------------------------------
(* Plans *)

\* A plan q that is p but for the name of one entry.
Renaming(p, q, e, n) ==
    /\ Selection(q) = Selection(p) /\ q.names[e] = n
    /\ \A x \in Selection(p) : x # e => q.names[x] = p.names[x]

-----------------------------------------------------------------------------
(* The theorem *)

\* Whatever breaks, fails or ends in between, the inductive invariant holds, and
\* with it: no file is published under two names, the checkpoint claims only what
\* was published, no byte is written before the agreement, acknowledgements fit.
THEOREM TransferHolds == TransferSpec => [](TransferTypeOK /\ TransferIInv /\ TransferInv)
  \* A plan gives each entry a slot of its own.
  <1>SlotsOfPlans. ASSUME NEW p, IsPlan(p), NEW e \in Selection(p)
                   PROVE  Slot(p, e) \in Slots /\ Slot(p, e)[1] = e
    <2> USE <1>SlotsOfPlans
    <2>1. e \in Entries /\ p.names[e] \in Numbers /\ p.names[0] \in Numbers /\ 0 \in Numbers
      BY TransferAssumption DEF IsPlan, Numbers
    <2> QED BY <2>1 DEF Slot, Slots
  \* What has been verified can be counted, and is no more than the selection.
  <1>VerifiedCount. ASSUME NEW S \in SUBSET Entries, NEW V \in SUBSET ((S \ {0}) \X Whole)
                    PROVE  /\ IsFiniteSet(V) /\ Cardinality(V) \in Nat /\ Cardinality(V) <= Total(S)
                           /\ Total(S) \in Nat
                           /\ \A c : Cardinality(V \cup {c}) <= Cardinality(V) + 1
                                     /\ Cardinality(V) <= Cardinality(V \cup {c})
                                     /\ Cardinality(V \cup {c}) \in Nat
    <2> USE <1>VerifiedCount
    <2>1. IsFiniteSet(Entries) /\ IsFiniteSet(Whole) /\ Cardinality(Whole) = Parts
      BY TransferAssumption, FS_Interval DEF Entries, Whole
    <2>2. IsFiniteSet(S \ {0})
      BY <2>1, FS_Subset
    <2>3. /\ IsFiniteSet((S \ {0}) \X Whole)
          /\ Cardinality((S \ {0}) \X Whole) = Cardinality(S \ {0}) * Cardinality(Whole)
      BY <2>1, <2>2, FS_Product
    <2>4. Total(S) = Cardinality((S \ {0}) \X Whole) /\ Total(S) \in Nat
      BY <2>1, <2>3, FS_CardinalityType DEF Total
    <2>5. IsFiniteSet(V) /\ Cardinality(V) <= Total(S)
      BY <2>3, <2>4, FS_Subset
    <2>6. Cardinality(V) \in Nat
      BY <2>5, FS_CardinalityType
    <2>7. ASSUME NEW c
          PROVE  /\ Cardinality(V \cup {c}) \in {Cardinality(V), Cardinality(V) + 1}
      <3>1. IsFiniteSet(V \cup {c}) /\ Cardinality(V \cup {c}) = IF c \in V THEN Cardinality(V) ELSE Cardinality(V) + 1
        BY <2>5, FS_AddElement
      <3> QED BY <3>1
    <2> HIDE DEF Total
    <2> QED BY <2>4, <2>5, <2>6, <2>7
  \* What the frames that are read hold.
  <1>FramesHold.
      /\ \A x \in Requests : x.op = "data" => x.arg \in Pairs
      /\ \A x \in Answers :
           /\ x.op = "accept" => x.arg.selection \in SUBSET Entries /\ x.arg.verified \in Nat
           /\ x.op = "ack" => x.arg.verified \in Nat /\ x.arg.chunk \in Pairs
           /\ x.op = "chunk" => x.arg \in Pairs
      /\ \A S \in SUBSET Entries, m \in Nat : Frame("accept", [selection |-> S, verified |-> m]) \in Answers
    <2>1. ASSUME NEW x \in Requests, x.op = "data" PROVE x.arg \in Pairs
      BY <2>1 DEF Requests, Frame
    <2>2. ASSUME NEW x \in Answers, x.op = "accept"
          PROVE  x.arg.selection \in SUBSET Entries /\ x.arg.verified \in Nat
      BY <2>2 DEF Answers, Frame
    <2>3. ASSUME NEW x \in Answers, x.op = "ack" PROVE x.arg.verified \in Nat /\ x.arg.chunk \in Pairs
      BY <2>3 DEF Answers, Frame
    <2>4. ASSUME NEW x \in Answers, x.op = "chunk" PROVE x.arg \in Pairs
      BY <2>4 DEF Answers, Frame
    <2>5. ASSUME NEW S \in SUBSET Entries
          PROVE  \A m \in Nat : Frame("accept", [selection |-> S, verified |-> m]) \in Answers
      BY DEF Answers
    <2> QED BY <2>1, <2>2, <2>3, <2>4, <2>5
  \* A plan with another number for a name is a plan.
  <1>RenamedPlan.
      ASSUME ReceiverTypeOK, IsPlan(rcv.plan), NEW e \in Selection(rcv.plan), NEW n \in Numbers,
             NEW r, r = RenamedTo(e, n)
      PROVE  /\ DOMAIN r = ReceiverFields /\ r.pc = "ready" /\ r.at = 1
             /\ r.verified = rcv.verified /\ r.committed = rcv.committed /\ r.dir = rcv.dir
             /\ r.intents = rcv.intents \ {e} /\ r.dirIntent \in BOOLEAN /\ (r.dirIntent <=> e # 0 /\ rcv.dirIntent)
             /\ IsPlan(r.plan) /\ Renaming(rcv.plan, r.plan, e, n)
    <2> USE <1>RenamedPlan
    <2> DEFINE names == [rcv.plan.names EXCEPT ![e] = n]
               plan == [rcv.plan EXCEPT !.names = names]
    <2>1. r.plan = plan /\ plan.names = names
      BY DEF RenamedTo, ReceiverTypeOK, ReceiverFields, IsPlan
    <2>2. DOMAIN plan = {"names", "policy"}
      BY DEF IsPlan
    <2>3. DOMAIN names = Selection(rcv.plan) /\ names[e] = n
      BY DEF Selection
    <2>4. \A x \in Selection(rcv.plan) : x # e => names[x] = rcv.plan.names[x]
      BY DEF Selection
    <2>5. /\ DOMAIN r = ReceiverFields /\ r.pc = "ready" /\ r.at = 1
          /\ r.verified = rcv.verified /\ r.committed = rcv.committed /\ r.dir = rcv.dir
          /\ r.intents = rcv.intents \ {e} /\ r.dirIntent \in BOOLEAN /\ (r.dirIntent <=> e # 0 /\ rcv.dirIntent)
      BY DEF RenamedTo, ReceiverTypeOK, ReceiverFields
    <2> HIDE DEF names, plan
    <2>6. IsPlan(plan) /\ Selection(plan) = Selection(rcv.plan)
      BY <2>1, <2>2, <2>3, <2>4 DEF IsPlan, Selection
    <2>7. Renaming(rcv.plan, plan, e, n)
      BY <2>1, <2>3, <2>4, <2>6 DEF Renaming
    <2> QED BY <2>1, <2>5, <2>6, <2>7
  \* The least of some numbers is one of them.
  <1>MinIsLeast. ASSUME NEW S \in SUBSET Nat, S # {}
                 PROVE  Min(S) \in S /\ \A n \in S : Min(S) <= n
    <2> USE <1>MinIsLeast
    <2> DEFINE Less == {ss \in Nat \X Nat : ss[1] < ss[2]}
    <2>1. OpToRel(<, Nat) = Less
      BY Zenon DEF OpToRel
    <2>2. ASSUME NEW x \in Nat, NEW y \in Nat, y < x PROVE <<y, x>> \in Less
      BY <2>2
    <2>3. \E x \in S : \A y \in S : <<y, x>> \notin Less
      BY <2>1, NatLessThanWellFounded, WFMin, Zenon
    <2> HIDE DEF Less
    <2>4. PICK x \in S : \A y \in S : <<y, x>> \notin Less
      BY <2>3
    <2>5. \A y \in S : x <= y
      <3> TAKE y \in S
      <3>1. x \in Nat /\ y \in Nat
        OBVIOUS
      <3>2. ~(y < x)
        BY <2>2, <2>4, <3>1, Zenon
      <3> QED
        BY <3>1, <3>2
    <2> QED
      BY <2>4, <2>5 DEF Min
  \* The chunk that is asked for is missing.
  <1>FirstIsMissing. ASSUME Missing # {}
                     PROVE  FirstMissing \in Missing
    <2> USE <1>FirstIsMissing
    <2> DEFINE A == {c[1] : c \in Missing}
               B == {c[2] : c \in {d \in Missing : d[1] = Min(A)}}
    <2>1. \A c \in Missing : c[1] \in Nat /\ c[2] \in Nat /\ c = <<c[1], c[2]>>
      BY TransferAssumption DEF Missing, Pairs, Files, Whole
    <2>2. Min(A) \in A /\ \A n \in A : Min(A) <= n
      <3>1. A \in SUBSET Nat /\ A # {}
        BY <2>1
      <3> HIDE DEF A
      <3> QED BY <3>1, <1>MinIsLeast
    <2>3. Min(B) \in B /\ \A n \in B : Min(B) <= n
      <3>1. \E d \in Missing : d[1] = Min(A)
        BY <2>2
      <3>2. B \in SUBSET Nat /\ B # {}
        BY <2>1, <3>1
      <3> HIDE DEF B
      <3> QED BY <3>2, <1>MinIsLeast
    <2>4. PICK c \in Missing : c[1] = Min(A) /\ c[2] = Min(B)
      BY <2>3
    <2>5. \A d \in Missing : d[1] = Min(A) => d[2] \in B
      OBVIOUS
    <2>6. \A d \in Missing : d[1] \in A
      OBVIOUS
    <2>7. \A d \in Missing : c[1] < d[1] \/ (c[1] = d[1] /\ c[2] <= d[2])
      <3> TAKE d \in Missing
      <3>1. c[1] \in Nat /\ c[2] \in Nat /\ d[1] \in Nat /\ d[2] \in Nat
        BY <2>1
      <3>2. c[1] <= d[1]
        BY <2>2, <2>4, <2>6
      <3>3. d[1] = c[1] => c[2] <= d[2]
        BY <2>3, <2>4, <2>5
      <3> QED BY <3>1, <3>2, <3>3
    <2> HIDE DEF A, B
    <2> QED BY <2>7 DEF FirstMissing
  \* Every step keeps what was agreed, acknowledged and completed.
  <1>AgreementStep.
      ASSUME TransferTypeOK, TransferTypeOK', TransferIInv, PublicationIInv', [TransferNext]_trVars
      PROVE  Agreement' /\ AgreedBeforeBody' /\ AcksAreSound' /\ Completion'
    <2> USE <1>AgreementStep
    <2>1. /\ SenderTypeOK /\ ReceiverTypeOK /\ DiskTypeOK /\ WireTypeOK
          /\ SenderTypeOK' /\ ReceiverTypeOK' /\ DiskTypeOK' /\ WireTypeOK'
          /\ s2r \in Seq(Requests) /\ r2s \in Seq(Answers)
          /\ PublicationIInv /\ Follows /\ Follows' /\ ClaimsArePublished
          /\ Agreement /\ AgreedBeforeBody /\ Conversation /\ AcksAreSound /\ Completion
      BY DEF TransferTypeOK, WireTypeOK, TransferIInv, PublicationIInv
    \* A frame is read at a station, if the other end is there.
    <2>2. /\ \A op : SenderReads(op) => link # "none" /\ r2s # <<>> /\ Head(r2s).op = op /\ r2s' = Tail(r2s)
          /\ \A op : ReceiverReads(op) => link # "none" /\ s2r # <<>> /\ Head(s2r).op = op /\ s2r' = Tail(s2r)
      BY <2>1 DEF Conversation, SenderReads, ReceiverReads
    <2>3. snd.pc # "idle" /\ rcv.pc # "idle" /\ link # "none" => link = "up" /\ Station
      BY <2>1 DEF Conversation, WireTypeOK
    <2>4. /\ r2s # <<>> => Head(r2s) = r2s[1] /\ 1 \in 1 .. Len(r2s)
          /\ s2r # <<>> => Head(s2r) = s2r[1] /\ 1 \in 1 .. Len(s2r)
      BY <2>1
    \* The selection that the sender recorded stays.
    <2>5. /\ sent.selection # <<>> => sent'.selection = sent.selection
          /\ SenderAccepts => sent'.selection = <<Head(r2s).arg.selection>>
      <3>1. CASE SenderAccepts
        <4>1. PICK sel : sel = Head(r2s).arg.selection
          OBVIOUS
        <4>2. sent.selection \in {<<>>, <<sel>>} /\ sent' = [sent EXCEPT !.selection = <<sel>>]
          BY <3>1, <4>1 DEF SenderAccepts, Records
        <4>3. sent'.selection = <<sel>>
          BY <2>1, <4>2 DEF SenderTypeOK
        <4> QED BY <4>1, <4>2, <4>3
      <3>2. CASE ~SenderAccepts
        <4>1. sent' = sent \/ sent' = [sent EXCEPT !.completed = TRUE]
          <5>1. CASE SenderStep
            BY <3>2, <5>1 DEF SenderStep, SenderRefuses, SenderServes, SenderAcked, SenderFinishes,
               SenderConfirms, SenderCompletes, SenderGivesUp
          <5>2. CASE ReceiverStep
            BY <5>2 DEF ReceiverStep, ResumeOffer, RejectOffer, OpenStage, OpenRefused, AcceptOffer, SkipFile,
               RestoreCommitted, RestoreRefused, CopyPart, ReplacePart, OpenDone, PlanReady, Register, ReceiverBegins,
               WriteChunk, AskNext, ReceiverFinishes, RenameEntry, Intend, TakeName, NameTaken, CommitFails,
               UseDirectory, RecordCommit, ReceiverCompletes, ReceiverConfirmed, ReceiverGivesUp
          <5>3. CASE ~SenderStep /\ ~ReceiverStep
            BY <5>3 DEF TransferNext, Connect, SenderStops, ReceiverFails, ReceiverEnds, StreamBreaks, SourceChanges,
               CancelRow, CleanupStage, Touch, trVars
          <5> QED BY <5>1, <5>2, <5>3
        <4>2. sent'.selection = sent.selection
          BY <2>1, <4>1 DEF SenderTypeOK
        <4> QED BY <3>2, <4>2
      <3> QED BY <3>1, <3>2
    \* What the receiver does to the selection.
    <2>6. \A p : FilesOf(p) = Selection(p) \ {0} /\ Body(p) = FilesOf(p) \X Whole
      BY DEF FilesOf, Body
    <2> DEFINE Goes == /\ rcv.pc \notin {"idle", "offer"} /\ rcv'.pc \notin {"idle", "offer"}
                       /\ Selection(rcv'.plan) = Selection(rcv.plan)
                       /\ rcv'.verified \subseteq Body(rcv.plan)
                       /\ Agreed' => Agreed \/ ReceiverBegins
                       /\ rcv'.pc = "confirm" => ReceiverCompletes
               Begins == rcv.pc = "offer" /\ ReceiverReads("offer") /\ rcv'.pc = "open" /\ row'.state = "active"
    <2>7. rcv.pc \notin {"idle", "offer"} => rcv.verified \subseteq Body(rcv.plan)
      BY <2>1 DEF Agreement
    <2>8. ASSUME ReceiverStep PROVE rcv'.pc = "idle" \/ Begins \/ Goes
      <3>1. CASE ResumeOffer
        <4>1. CASE rcv' = NoReceiver
          BY <4>1 DEF NoReceiver
        <4>2. ASSUME NEW p, rcv' = [rcv EXCEPT !.pc = "open", !.plan = p], row' = [row EXCEPT !.state = "active"]
              PROVE  Begins
          BY <2>1, <3>1, <4>2 DEF ResumeOffer, ReceiverTypeOK, ReceiverFields, WireTypeOK
        <4> QED BY <3>1, <4>1, <4>2 DEF ResumeOffer, ReceiverReturns
      <3>2. ASSUME NEW requested, NEW policy, AcceptOffer(requested, policy) PROVE Begins
        BY <2>1, <3>2 DEF AcceptOffer, ReceiverTypeOK, ReceiverFields
      <3>3. ASSUME NEW f, NEW e, RejectOffer \/ OpenRefused \/ RestoreRefused(f) \/ CommitFails(e) \/ ReceiverConfirmed
                                 \/ ReceiverGivesUp
            PROVE  rcv'.pc = "idle"
        BY <3>3 DEF RejectOffer, OpenRefused, RestoreRefused, CommitFails, ReceiverConfirmed, ReceiverGivesUp,
           ReceiverRefuses, Fails, ReceiverReturns, NoReceiver
      <3>4. CASE OpenStage
        <4>1. rcv.pc = "open" /\ rcv'.pc = "restore" /\ rcv'.verified = rcv.verified
          BY <2>1, <3>4 DEF OpenStage, ReceiverTypeOK, ReceiverFields
        <4>2. Selection(rcv'.plan) = Selection(rcv.plan)
          BY <2>1, <3>4 DEF OpenStage, Mismatch, ReceiverTypeOK, ReceiverFields
        <4> QED BY <2>7, <4>1, <4>2 DEF Agreed
      <3>5. ASSUME NEW f, SkipFile(f) \/ CopyPart(f) \/ OpenDone \/ PlanReady \/ AskNext \/ ReceiverBegins
                          \/ ReceiverFinishes \/ ReceiverCompletes
            PROVE  Goes
        <4>1. rcv'.plan = rcv.plan /\ rcv'.verified = rcv.verified
          BY <2>1, <3>5 DEF SkipFile, CopyPart, OpenDone, PlanReady, AskNext, ReceiverBegins, ReceiverFinishes,
             ReceiverCompletes, Past, ReceiverTypeOK, ReceiverFields
        <4>2. /\ rcv.pc \notin {"idle", "offer"} /\ rcv'.pc \notin {"idle", "offer"}
              /\ rcv'.pc = "confirm" => ReceiverCompletes
          BY <2>1, <3>5 DEF SkipFile, CopyPart, OpenDone, PlanReady, AskNext, ReceiverBegins, ReceiverFinishes,
             ReceiverCompletes, Past, Restoring, NextStep, ReceiverTypeOK, ReceiverFields
        <4>3. Agreed' => Agreed \/ ReceiverBegins
          BY <2>1, <3>5 DEF SkipFile, CopyPart, OpenDone, PlanReady, AskNext, ReceiverFinishes,
             ReceiverCompletes, Past, Restoring, NextStep, ReceiverTypeOK, ReceiverFields, Agreed
        <4> QED BY <2>7, <4>1, <4>2, <4>3
      <3>6. ASSUME NEW f \in Files, RestoreCommitted(f) PROVE Goes
        <4>1. /\ rcv.pc = "restore" /\ rcv'.pc = "restore" /\ rcv'.plan = rcv.plan /\ f \in Selection(rcv.plan)
              /\ rcv'.verified = rcv.verified \cup Chunks(f)
          BY <2>1, <3>6 DEF RestoreCommitted, Restoring, Past, ReceiverTypeOK, ReceiverFields
        <4>2. Chunks(f) \subseteq Body(rcv.plan)
          BY <2>6, <4>1, TransferAssumption DEF Chunks, Files
        <4> QED BY <2>7, <4>1, <4>2 DEF Agreed
      <3>7. CASE ReplacePart
        <4>1. /\ rcv.pc = "copied" /\ rcv'.pc = "restore" /\ rcv'.plan = rcv.plan /\ rcv.at \in FilesOf(rcv.plan)
              /\ rcv'.verified = rcv.verified \cup ({rcv.at} \X disk.part[rcv.at])
          BY <2>1, <3>7 DEF ReplacePart, Past, ReceiverTypeOK, ReceiverFields
        <4>2. rcv.at \in Files
          BY <2>1, <4>1, TransferAssumption DEF ReceiverTypeOK, IsPlan, FilesOf, Entries, Files
        <4>3. {rcv.at} \X disk.part[rcv.at] \subseteq Body(rcv.plan)
          BY <2>1, <2>6, <4>1, <4>2 DEF DiskTypeOK
        <4> QED BY <2>7, <4>1, <4>3 DEF Agreed
      <3>8. CASE Register
        <4>1. rcv.pc = "register"
          BY <3>8 DEF Register
        <4>2. CASE rcv' = NoReceiver
          BY <4>2 DEF NoReceiver
        <4>3. CASE rcv.at = 0 /\ rcv' = [rcv EXCEPT !.pc = "barrier"]
          <5>1. rcv'.pc = "barrier" /\ rcv'.plan = rcv.plan /\ rcv'.verified = rcv.verified
            BY <2>1, <4>3 DEF ReceiverTypeOK, ReceiverFields
          <5> QED BY <2>7, <4>1, <5>1 DEF Agreed
        <4>4. CASE rcv.at # 0 /\ rcv' = [rcv EXCEPT !.pc = "publish", !.at = 0]
          <5>1. rcv'.pc = "publish" /\ rcv'.plan = rcv.plan /\ rcv'.verified = rcv.verified
            BY <2>1, <4>4 DEF ReceiverTypeOK, ReceiverFields
          <5> QED BY <2>7, <4>1, <4>4, <5>1 DEF Agreed
        <4> QED BY <3>8, <4>2, <4>3, <4>4 DEF Register, ReceiverRefuses, ReceiverReturns
      <3>9. CASE WriteChunk
        <4> DEFINE c == Head(s2r).arg
        <4>1. rcv.pc = "data" /\ ReceiverReads("data") /\ rcv' = [rcv EXCEPT !.verified = @ \cup {c}, !.pc = "acked"]
          BY <3>9 DEF WriteChunk
        <4>2. c \in Body(rcv.plan)
          BY <2>1, <2>2, <2>4, <4>1 DEF Agreement
        <4> HIDE DEF c
        <4>3. rcv'.pc = "acked" /\ rcv'.plan = rcv.plan /\ rcv'.verified = rcv.verified \cup {c}
          BY <2>1, <4>1 DEF ReceiverTypeOK, ReceiverFields
        <4> QED BY <2>7, <4>1, <4>2, <4>3 DEF Agreed
      <3>10. ASSUME NEW e \in Entries, RenameEntry(e) \/ NameTaken(e) PROVE Goes
        <4>1. /\ rcv.pc \in {"publish", "link"} /\ IsPlan(rcv.plan) /\ e \in Selection(rcv.plan) /\ Renamed(e) # {}
              /\ rcv' = RenamedTo(e, Min(Renamed(e)))
          BY <2>1, <3>10 DEF RenameEntry, NameTaken, Publishing, Taking, ReceiverTypeOK, Left
        <4>2. Min(Renamed(e)) \in Numbers
          <5>1. Renamed(e) \subseteq Numbers /\ Numbers \subseteq Nat
            BY TransferAssumption DEF Renamed, Available, Numbers
          <5> QED BY <4>1, <5>1, <1>MinIsLeast
        <4>3. PICK n, r : n \in Numbers /\ n = Min(Renamed(e)) /\ r = RenamedTo(e, n) /\ rcv' = r
          BY <4>1, <4>2
        <4>4. r.pc = "ready" /\ r.verified = rcv.verified /\ Renaming(rcv.plan, r.plan, e, n)
          BY <2>1, <4>1, <4>3, <1>RenamedPlan
        <4> QED BY <2>7, <4>1, <4>3, <4>4 DEF Renaming, Agreed
      <3>11. ASSUME NEW e, Intend(e) \/ TakeName(e) \/ UseDirectory \/ RecordCommit PROVE Goes
        <4>1. rcv.pc \in {"publish", "link", "record"} /\ rcv'.plan = rcv.plan /\ rcv'.verified = rcv.verified
              /\ rcv'.pc \in {"publish", "link", "record"}
          <5>1. CASE Intend(e)
            BY <2>1, <5>1 DEF Intend, Intends, Publishing, ReceiverTypeOK, ReceiverFields
          <5>2. CASE TakeName(e) \/ UseDirectory
            BY <2>1, <5>2 DEF TakeName, UseDirectory, Publishing, Taking, ReceiverTypeOK, ReceiverFields
          <5>3. CASE RecordCommit
            BY <2>1, <5>3 DEF RecordCommit, Recorded, ReceiverTypeOK, ReceiverFields
          <5> QED BY <3>11, <5>1, <5>2, <5>3
        <4> QED BY <2>7, <4>1 DEF Agreed
      <3> QED BY <2>8, <3>1, <3>2, <3>3, <3>4, <3>5, <3>6, <3>7, <3>8, <3>9, <3>10, <3>11 DEF ReceiverStep
    <2>9. ASSUME ~ReceiverStep PROVE rcv' = rcv \/ rcv'.pc = "idle" \/ Connect
      <3>1. CASE SenderStep
        BY <3>1 DEF SenderStep, SenderAccepts, SenderRefuses, SenderServes, SenderAcked, SenderFinishes,
           SenderConfirms, SenderCompletes, SenderGivesUp
      <3>2. CASE ReceiverFails \/ ReceiverEnds
        <4>1. rcv' = NoReceiver
          BY <3>2 DEF ReceiverFails, ReceiverEnds, Fails, ReceiverReturns
        <4> QED BY <4>1 DEF NoReceiver
      <3>3. CASE SenderStops \/ StreamBreaks \/ SourceChanges \/ CancelRow \/ CleanupStage \/ (\E s \in Slots : Touch(s))
                 \/ UNCHANGED trVars
        BY <3>3 DEF SenderStops, StreamBreaks, SourceChanges, CancelRow, CleanupStage, Touch, trVars
      <3> QED BY <2>9, <3>1, <3>2, <3>3 DEF TransferNext
    \* What a step does to the staging directory.
    <2> DEFINE Kept == disk'.saved = disk.saved /\ disk'.part = disk.part
               Marked == /\ rcv.pc \in Following \cup {"restore"} /\ rcv.pc # "confirm" /\ disk'.part = disk.part
                         /\ disk'.saved.state # "none" /\ Selection(disk'.saved.plan) = Selection(rcv.plan)
    <2>10. ASSUME NEW st, st # "none", NEW r, Saves(st, r)
           PROVE  disk'.part = disk.part /\ disk'.saved.state = st /\ disk'.saved.plan = r.plan
      <3>1. PICK c : c = Checkpoint(st, r)
        OBVIOUS
      <3>2. disk' = [disk EXCEPT !.saved = c]
        BY <2>10, <3>1 DEF Saves
      <3>3. c.state = st /\ c.plan = r.plan
        BY <3>1 DEF Checkpoint
      <3> QED BY <2>1, <3>2, <3>3 DEF DiskTypeOK
    <2>11. Kept \/ CleanupStage \/ WriteChunk \/ Marked
      <3>1. UNCHANGED disk => Kept
        OBVIOUS
      <3>2. ASSUME NEW st, st # "none", Saves(st, rcv), rcv.pc \in Following \cup {"restore"}, rcv.pc # "confirm"
            PROVE  Marked
        BY <2>10, <3>2
      <3>3. ASSUME ReceiverStep, Saves("Verifying", rcv'), rcv.pc \in Following, rcv.pc # "confirm",
                   rcv'.pc \notin {"idle", "open"}
            PROVE  Marked
        <4>1. PICK r : r = rcv'
          OBVIOUS
        <4>2. Selection(r.plan) = Selection(rcv.plan)
          BY <2>8, <3>3, <4>1
        <4>3. Saves("Verifying", r)
          BY <3>3, <4>1
        <4> QED BY <2>10, <3>3, <4>2, <4>3
      <3>4. ASSUME Fails, Opened PROVE Kept \/ Marked
        BY <3>1, <3>2, <3>4 DEF Fails, Saves, Opened, Following
      <3>5. CASE SenderStep
        BY <3>1, <3>5 DEF SenderStep, SenderAccepts, SenderRefuses, SenderServes, SenderAcked, SenderFinishes,
           SenderConfirms, SenderCompletes, SenderGivesUp
      <3>6. CASE Connect \/ SenderStops \/ ReceiverEnds \/ StreamBreaks \/ SourceChanges \/ CancelRow
                 \/ (\E s \in Slots : Touch(s)) \/ UNCHANGED trVars
        BY <3>1, <3>6 DEF Connect, SenderStops, ReceiverEnds, StreamBreaks, SourceChanges, CancelRow, Touch, trVars
      <3>7. ASSUME \E n, S : disk' = [disk EXCEPT !.new = n] \/ disk' = [disk EXCEPT !.new = n, !.same = S]
                             \/ disk' = [disk EXCEPT !.same = S] \/ disk' = [disk EXCEPT !.stage = n]
            PROVE  Kept
        BY <2>1, <3>7 DEF DiskTypeOK
      <3>8. CASE ReceiverFails
        <4>1. CASE Opened
          BY <3>4, <3>8, <4>1 DEF ReceiverFails
        <4>2. CASE ~Opened
          BY <3>7, <3>8, <4>2 DEF ReceiverFails
        <4> QED BY <4>1, <4>2
      <3>9. ASSUME ReceiverStep PROVE Kept \/ WriteChunk \/ Marked
        <4>1. ASSUME NEW f, NEW requested, NEW policy,
                     \/ ResumeOffer \/ RejectOffer \/ AcceptOffer(requested, policy) \/ OpenRefused \/ SkipFile(f)
                     \/ RestoreCommitted(f) \/ RestoreRefused(f) \/ PlanReady \/ Register \/ ReceiverBegins
                     \/ AskNext \/ ReceiverConfirmed
              PROVE  Kept
          BY <3>1, <4>1 DEF ResumeOffer, RejectOffer, AcceptOffer, OpenRefused, SkipFile, RestoreCommitted,
             RestoreRefused, PlanReady, Register, ReceiverBegins, AskNext, ReceiverConfirmed
        <4>2. ASSUME NEW f, NEW e, OpenStage \/ CopyPart(f) \/ ReplacePart \/ TakeName(e) PROVE Kept
          <5>1. CASE OpenStage \/ CopyPart(f)
            BY <2>1, <5>1 DEF OpenStage, CopyPart, DiskTypeOK
          <5>2. CASE ReplacePart
            BY <2>1, <5>2 DEF ReplacePart, ReplacedPart, DiskTypeOK
          <5>3. CASE TakeName(e)
            BY <2>1, <5>3 DEF TakeName, DiskTypeOK
          <5> QED BY <4>2, <5>1, <5>2, <5>3
        <4>3. CASE OpenDone \/ ReceiverFinishes \/ ReceiverCompletes
          <5>1. rcv.pc \in Following \cup {"restore"} /\ rcv.pc # "confirm"
            BY <4>3 DEF OpenDone, ReceiverFinishes, ReceiverCompletes, Following
          <5>2. \E st \in {"Transferring", "Verifying", "Completed"} : Saves(st, rcv)
            BY <4>3 DEF OpenDone, ReceiverFinishes, ReceiverCompletes
          <5> QED BY <3>2, <5>1, <5>2
        <4>4. ASSUME NEW e, RenameEntry(e) \/ NameTaken(e) \/ Intend(e) \/ UseDirectory \/ RecordCommit PROVE Marked
          <5>1. rcv.pc \in {"publish", "link", "record"} /\ Saves("Verifying", rcv')
            BY <4>4 DEF RenameEntry, NameTaken, Intend, UseDirectory, RecordCommit, Publishing, Taking
          <5>2. rcv'.pc \notin {"idle", "open"}
            BY <2>1, <4>4, <5>1 DEF RenameEntry, NameTaken, Intend, UseDirectory, RecordCommit, RenamedTo, Intends,
               Recorded, Publishing, ReceiverTypeOK, ReceiverFields
          <5> QED BY <3>3, <3>9, <5>1, <5>2 DEF Following
        <4>5. ASSUME NEW e, CommitFails(e) PROVE Kept \/ Marked
          BY <3>4, <4>5 DEF CommitFails, Publishing, Taking, Opened
        <4>6. CASE ReceiverGivesUp
          <5>1. CASE rcv.pc \in {"offer", "confirm"}
            BY <3>1, <4>6, <5>1 DEF ReceiverGivesUp
          <5>2. CASE rcv.pc \notin {"offer", "confirm"}
            BY <3>4, <4>6, <5>2 DEF ReceiverGivesUp, Waiting, Opened
          <5> QED BY <5>1, <5>2
        <4> QED BY <3>9, <4>1, <4>2, <4>3, <4>4, <4>5, <4>6 DEF ReceiverStep
      <3> QED BY <3>5, <3>6, <3>8, <3>9 DEF TransferNext
    <2> HIDE DEF Goes, Begins, Kept, Marked
    <2>12. ASSUME WriteChunk
           PROVE  /\ rcv.pc = "data" /\ Loaded' /\ Loaded /\ disk'.saved.plan = disk.saved.plan
                  /\ Head(s2r).arg \in Pairs
                  /\ \A f \in Files : disk.part[f] \subseteq disk'.part[f]
                  /\ Head(s2r).arg[2] \in disk'.part[Head(s2r).arg[1]]
      <3>1. rcv.pc = "data" /\ ReceiverReads("data")
        BY <2>12 DEF WriteChunk
      <3>2. Loaded /\ disk.saved.plan = rcv.plan
        BY <2>1, <3>1 DEF Follows, Following
      <3>3. Head(s2r) \in Requests /\ Head(s2r).op = "data"
        BY <2>1, <2>2, <3>1
      <3>4. PICK c \in Pairs : c = Head(s2r).arg
        BY <3>3, <1>FramesHold
      <3>5. PICK d : d = [disk EXCEPT !.part[c[1]] = @ \cup {c[2]}]
        OBVIOUS
      <3>6. disk' = d \/ disk' = [d EXCEPT !.saved = Checkpoint("Transferring", rcv)]
        BY <2>12, <3>4, <3>5 DEF WriteChunk
      <3>7. /\ DOMAIN d = DOMAIN disk /\ d.saved = disk.saved /\ c[2] \in d.part[c[1]]
            /\ \A f \in Files : disk.part[f] \subseteq d.part[f]
        BY <2>1, <3>4, <3>5 DEF DiskTypeOK, Pairs
      <3>8. PICK k : k = Checkpoint("Transferring", rcv)
        OBVIOUS
      <3>9. k.state = "Transferring" /\ k.plan = rcv.plan
        BY <3>8 DEF Checkpoint
      <3>10. disk'.part = d.part /\ (disk'.saved = d.saved \/ disk'.saved = k)
        BY <2>1, <3>6, <3>7, <3>8 DEF DiskTypeOK
      <3> QED BY <3>1, <3>2, <3>4, <3>7, <3>9, <3>10 DEF Loaded
    <2>13. Loaded /\ ~CleanupStage => Loaded' /\ Selection(disk'.saved.plan) = Selection(disk.saved.plan)
      <3>1. Kept => (Loaded => Loaded' /\ Selection(disk'.saved.plan) = Selection(disk.saved.plan))
        BY DEF Kept, Loaded
      <3>2. Marked /\ Loaded => disk.saved.plan = rcv.plan
        BY <2>1 DEF Marked, Follows
      <3> QED BY <2>11, <2>12, <3>1, <3>2 DEF Marked, Loaded
    <2>14. ~CleanupStage => \A f \in Files : disk.part[f] \subseteq disk'.part[f]
      BY <2>11, <2>12 DEF Kept, Marked
    <2>15. (\E f \in Files : disk'.part[f] # {}) => (\E f \in Files : disk.part[f] # {}) \/ WriteChunk
      BY <2>11 DEF Kept, Marked, CleanupStage
    <2>16. ASSUME CleanupStage
           PROVE  /\ rcv.pc = "idle" /\ snd.pc = "idle" /\ seen.linked = {} /\ row.state = "cancelled"
                  /\ UNCHANGED <<rcv, snd, sent, row, s2r, r2s>> /\ \A f \in Files : disk'.part[f] = {}
                  /\ seen'.acked = {}
      BY <2>1, <2>16 DEF CleanupStage, wire, WireTypeOK
    \* The history.
    <2>17. /\ seen.linked \subseteq seen'.linked /\ (seen.confirmed => seen'.confirmed)
           /\ ReceiverConfirmed => seen'.confirmed
           /\ SenderAcked /\ seen' # seen => AckFits(Head(r2s).arg) /\ seen'.acked = seen.acked \cup {snd.chunk}
           /\ ~SenderAcked => seen'.acked \subseteq seen.acked
      <3>1. UNCHANGED seen \/ SenderAcked \/ (\E e \in Entries : TakeName(e)) \/ ReceiverConfirmed \/ CleanupStage
        <4>1. CASE SenderStep
          BY <4>1 DEF SenderStep, SenderAccepts, SenderRefuses, SenderServes, SenderFinishes, SenderConfirms,
             SenderCompletes, SenderGivesUp
        <4>2. CASE ReceiverStep
          BY <4>2 DEF ReceiverStep, ResumeOffer, RejectOffer, OpenStage, OpenRefused, AcceptOffer, SkipFile,
             RestoreCommitted, RestoreRefused, CopyPart, ReplacePart, OpenDone, PlanReady, Register, ReceiverBegins,
             WriteChunk, AskNext, ReceiverFinishes, RenameEntry, Intend, NameTaken, CommitFails, UseDirectory,
             RecordCommit, ReceiverCompletes, ReceiverGivesUp
        <4>3. CASE ~SenderStep /\ ~ReceiverStep
          BY <4>3 DEF TransferNext, Connect, SenderStops, ReceiverFails, ReceiverEnds, StreamBreaks, SourceChanges,
             CancelRow, Touch, trVars
        <4> QED BY <4>1, <4>2, <4>3
      <3>2. DOMAIN seen = {"linked", "acked", "confirmed"}
        BY <2>1 DEF WireTypeOK
      <3>3. CASE SenderAcked
        <4>1. seen' = seen \/ (AckFits(Head(r2s).arg) /\ seen' = [seen EXCEPT !.acked = @ \cup {snd.chunk}])
          BY <3>3 DEF SenderAcked
        <4>2. snd.pc = "ack" /\ rcv' = rcv
          BY <3>3 DEF SenderAcked
        <4>3. ~ReceiverConfirmed
          BY <3>3, <2>1 DEF SenderAcked, ReceiverConfirmed, ReceiverReturns, NoReceiver
        <4> QED BY <3>2, <3>3, <4>1, <4>3
      <3>4. CASE ~SenderAcked /\ UNCHANGED seen
        <4>1. ReceiverConfirmed => seen'.confirmed
          BY <3>2 DEF ReceiverConfirmed
        <4> QED BY <3>4, <4>1
      <3>5. CASE ~SenderAcked /\ (\E e \in Entries : TakeName(e))
        <4>1. PICK S : seen' = [seen EXCEPT !.linked = @ \cup S]
          BY <3>5 DEF TakeName
        <4>2. ReceiverConfirmed => seen'.confirmed
          BY <3>2 DEF ReceiverConfirmed
        <4> QED BY <3>2, <3>5, <4>1, <4>2
      <3>6. CASE ~SenderAcked /\ ReceiverConfirmed
        BY <3>2, <3>6 DEF ReceiverConfirmed
      <3>7. CASE ~SenderAcked /\ CleanupStage
        <4>1. ReceiverConfirmed => seen'.confirmed
          BY <3>2 DEF ReceiverConfirmed
        <4>2. seen'.linked = seen.linked /\ seen'.confirmed = seen.confirmed /\ seen'.acked = {}
          BY <3>2, <3>7 DEF CleanupStage
        <4> QED BY <3>7, <4>1, <4>2
      <3> QED BY <3>1, <3>3, <3>4, <3>5, <3>6, <3>7
    \* The frames to the receiver.
    <2> DEFINE Reads == snd.pc # "idle" /\ r2s # <<>> /\ link # "none" /\ Head(r2s) = r2s[1] /\ 1 \in 1 .. Len(r2s)
    <2>18. ASSUME NEW i \in 1 .. Len(s2r')
           PROVE  \/ \E j \in 1 .. Len(s2r) : s2r'[i] = s2r[j]
                  \/ Reads /\ s2r'[i].op \notin {"accepted", "data"}
                  \/ Reads /\ SenderAccepts /\ s2r'[i].op = "accepted"
                  \/ /\ Reads /\ SenderServes /\ Head(r2s).op = "chunk" /\ snd.pc = "serve" /\ rcv' = rcv
                     /\ s2r'[i] = Frame("data", Head(r2s).arg)
                  \/ Connect /\ s2r'[i].op = "offer"
      <3> DEFINE Old == \E j \in 1 .. Len(s2r) : s2r'[i] = s2r[j]
      <3>1. s2r' = s2r => Old
        OBVIOUS
      <3>2. ASSUME NEW x \in Requests, SendFrames(<<x>>) PROVE Old \/ s2r'[i] = x
        <4>1. s2r' = <<>> \/ s2r' = s2r \o <<x>>
          BY <3>2 DEF SendFrames
        <4>2. <<x>> \in Seq(Requests) /\ Len(<<x>>) = 1 /\ <<x>>[1] = x
          OBVIOUS
        <4>3. CASE s2r' = s2r \o <<x>>
          <5>1. /\ Len(s2r') = Len(s2r) + 1 /\ Len(s2r) \in Nat
                /\ s2r'[i] = IF i <= Len(s2r) THEN s2r[i] ELSE <<x>>[i - Len(s2r)]
            BY <2>1, <4>2, <4>3, ConcatProperties
          <5>2. i <= Len(s2r) => i \in 1 .. Len(s2r)
            BY <5>1
          <5>3. ~(i <= Len(s2r)) => i - Len(s2r) = 1
            BY <5>1
          <5> QED BY <4>2, <5>1, <5>2, <5>3
        <4> QED BY <4>1, <4>3
      <3>3. ASSUME NEW op, ReceiverReads(op) PROVE Old
        <4>1. s2r # <<>> /\ s2r' = Tail(s2r)
          BY <2>2, <3>3
        <4>2. Len(s2r') = Len(s2r) - 1 /\ s2r'[i] = s2r[i + 1] /\ Len(s2r) \in Nat
          BY <2>1, <4>1, HeadTailProperties
        <4>3. i + 1 \in 1 .. Len(s2r)
          BY <4>2
        <4> QED BY <4>2, <4>3
      <3>4. s2r' # <<>>
        OBVIOUS
      <3>5. ASSUME NEW op, SenderReads(op), snd.pc # "idle" PROVE Reads
        BY <2>2, <2>4, <3>5
      <3> HIDE DEF Old, Reads
      <3>6. CASE SenderAccepts
        <4>1. Head(r2s).op = "accept" /\ Head(r2s) \in Answers
          BY <2>1, <2>2, <3>6 DEF SenderAccepts
        <4>2. Frame("accepted", Head(r2s).arg.selection) \in Requests
          BY <4>1, <1>FramesHold DEF Requests
        <4>3. Old \/ s2r'[i] = Frame("accepted", Head(r2s).arg.selection)
          BY <3>2, <3>6, <4>2 DEF SenderAccepts
        <4>4. Reads
          BY <3>5, <3>6 DEF SenderAccepts
        <4> QED BY <3>6, <4>3, <4>4 DEF Old, Frame
      <3>7. CASE SenderServes
        <4>1. Reads /\ Head(r2s).op = "chunk" /\ Head(r2s) \in Answers /\ snd.pc = "serve" /\ rcv' = rcv
          BY <2>1, <2>2, <3>5, <3>7 DEF SenderServes
        <4>2. Frame("data", Head(r2s).arg) \in Requests /\ Frame("error", {}) \in Requests
          <5>1. Head(r2s).arg \in Pairs
            BY <4>1, <1>FramesHold
          <5> QED BY <5>1 DEF Requests
        <4>3. Old \/ s2r'[i] = Frame("data", Head(r2s).arg) \/ s2r'[i] = Frame("error", {})
          BY <3>2, <3>7, <4>2 DEF SenderServes
        <4> QED BY <3>7, <4>1, <4>3 DEF Old, Frame
      <3>8. CASE SenderRefuses \/ SenderFinishes \/ SenderConfirms
        <4>1. Reads
          BY <3>5, <3>8 DEF SenderRefuses, SenderFinishes, SenderConfirms
        <4>2. Frame("finish", snd.selected) \in Requests /\ Frame("error", {}) \in Requests
              /\ Frame("confirmed", snd.selected) \in Requests
          BY <2>1 DEF SenderTypeOK, Requests
        <4>3. Old \/ s2r'[i] \in {Frame("finish", snd.selected), Frame("error", {}), Frame("confirmed", snd.selected)}
          BY <3>1, <3>2, <3>8, <4>2 DEF SenderRefuses, SenderFinishes, SenderConfirms
        <4> QED BY <4>1, <4>3 DEF Old, Frame
      <3>9. CASE Connect
        <4>1. s2r' = <<Frame("offer", {})>>
          BY <3>9 DEF Connect
        <4> QED BY <3>9, <4>1 DEF Frame
      <3>10. CASE SenderAcked \/ SenderCompletes \/ SenderGivesUp
        BY <3>1, <3>10 DEF SenderAcked, SenderCompletes, SenderGivesUp, Old
      <3>11. CASE ReceiverStep
        BY <3>1, <3>3, <3>4, <3>11 DEF ReceiverStep, ResumeOffer, RejectOffer, OpenStage, OpenRefused, AcceptOffer,
           SkipFile, RestoreCommitted, RestoreRefused, CopyPart, ReplacePart, OpenDone, PlanReady, Register,
           ReceiverBegins, WriteChunk, AskNext, ReceiverFinishes, RenameEntry, Intend, TakeName, NameTaken,
           CommitFails, UseDirectory, RecordCommit, ReceiverCompletes, ReceiverConfirmed, ReceiverGivesUp, wire, Old
      <3>12. CASE SenderStops \/ ReceiverFails \/ ReceiverEnds \/ StreamBreaks \/ SourceChanges \/ CancelRow
                 \/ CleanupStage \/ (\E s \in Slots : Touch(s)) \/ UNCHANGED trVars
        BY <3>1, <3>4, <3>12 DEF SenderStops, ReceiverFails, ReceiverEnds, StreamBreaks, SourceChanges, CancelRow,
           CleanupStage, Touch, trVars, wire, Old
      <3> QED BY <3>6, <3>7, <3>8, <3>9, <3>10, <3>11, <3>12 DEF TransferNext, SenderStep, Old
    \* The frames to the sender.
    <2>19. ASSUME NEW i \in 1 .. Len(r2s')
           PROVE  \/ i \in 1 .. Len(r2s) /\ r2s'[i] = r2s[i] /\ (snd' = snd \/ snd'.pc = "idle")
                  \/ snd.pc # "idle" /\ i + 1 \in 1 .. Len(r2s) /\ r2s'[i] = r2s[i + 1] /\ i + 1 # 1
                  \/ snd' = snd /\ r2s'[i].op \notin {"ack", "confirmed_ack"}
                  \/ snd' = snd /\ r2s'[i].op = "confirmed_ack" /\ ReceiverConfirmed
                  \/ /\ snd' = snd /\ i = Len(r2s) + 1 /\ link # "none" /\ WriteChunk
                     /\ r2s'[i] = Frame("ack", [chunk |-> Head(s2r).arg,
                                                verified |-> Cardinality(rcv.verified \cup {Head(s2r).arg})])
      <3> DEFINE Old == i \in 1 .. Len(r2s) /\ r2s'[i] = r2s[i]
                 Next == snd.pc # "idle" /\ i + 1 \in 1 .. Len(r2s) /\ r2s'[i] = r2s[i + 1] /\ i + 1 # 1
      <3>1. r2s' = r2s => Old
        OBVIOUS
      <3>2. ASSUME NEW x \in Answers, AnswerFrames(<<x>>)
            PROVE  Old \/ (r2s'[i] = x /\ i = Len(r2s) + 1 /\ link # "none")
        <4>1. r2s' = <<>> \/ (link # "none" /\ r2s' = r2s \o <<x>>)
          BY <3>2 DEF AnswerFrames
        <4>2. <<x>> \in Seq(Answers) /\ Len(<<x>>) = 1 /\ <<x>>[1] = x
          OBVIOUS
        <4>3. CASE link # "none" /\ r2s' = r2s \o <<x>>
          <5>1. /\ Len(r2s') = Len(r2s) + 1 /\ Len(r2s) \in Nat
                /\ r2s'[i] = IF i <= Len(r2s) THEN r2s[i] ELSE <<x>>[i - Len(r2s)]
            BY <2>1, <4>2, <4>3, ConcatProperties
          <5>2. i <= Len(r2s) => i \in 1 .. Len(r2s)
            BY <5>1
          <5>3. ~(i <= Len(r2s)) => i - Len(r2s) = 1 /\ i = Len(r2s) + 1
            BY <5>1
          <5> QED BY <4>2, <4>3, <5>1, <5>2, <5>3
        <4> QED BY <4>1, <4>3
      <3>3. ASSUME NEW op, SenderReads(op), snd.pc # "idle" PROVE Next
        <4>1. r2s # <<>> /\ r2s' = Tail(r2s)
          BY <2>2, <3>3
        <4>2. Len(r2s') = Len(r2s) - 1 /\ r2s'[i] = r2s[i + 1] /\ Len(r2s) \in Nat
          BY <2>1, <4>1, HeadTailProperties
        <4>3. i + 1 \in 1 .. Len(r2s) /\ i + 1 # 1
          BY <4>2
        <4> QED BY <3>3, <4>2, <4>3
      <3>4. r2s' # <<>>
        OBVIOUS
      <3> HIDE DEF Old, Next
      <3>5. CASE SenderAccepts \/ SenderRefuses \/ SenderServes \/ SenderAcked \/ SenderFinishes \/ SenderConfirms
                 \/ SenderCompletes
        <4>1. Next
          BY <3>3, <3>5 DEF SenderAccepts, SenderRefuses, SenderServes, SenderAcked, SenderFinishes,
             SenderConfirms, SenderCompletes
        <4> QED BY <4>1 DEF Next
      <3>6. CASE SenderStops
        BY <3>1, <3>6 DEF SenderStops, SenderReturns, NoSender, Old
      <3>7. CASE ReceiverFails \/ ReceiverEnds \/ SourceChanges \/ CancelRow \/ CleanupStage
                 \/ (\E s \in Slots : Touch(s)) \/ UNCHANGED trVars
        BY <3>1, <3>7 DEF ReceiverFails, ReceiverEnds, SourceChanges, CancelRow, CleanupStage, Touch, trVars, wire, Old
      <3>8. CASE Connect \/ SenderGivesUp \/ StreamBreaks
        BY <3>4, <3>8 DEF Connect, SenderGivesUp, StreamBreaks
      <3>9. /\ Frame("error", {}) \in Answers /\ Frame("reject", {}) \in Answers
            /\ Frame("confirmed_ack", {}) \in Answers /\ Asked \in Answers /\ Asked.op \in {"ready", "chunk"}
        <4>1. /\ Frame("error", {}) \in Answers /\ Frame("reject", {}) \in Answers
              /\ Frame("confirmed_ack", {}) \in Answers /\ Frame("ready", {}) \in Answers
          BY DEF Answers
        <4>2. Missing # {} => FirstMissing \in Pairs
          BY <1>FirstIsMissing DEF Missing
        <4>3. \A c \in Pairs : Frame("chunk", c) \in Answers
          BY DEF Answers
        <4> QED BY <4>1, <4>2, <4>3 DEF Asked, Frame
      <3>10. ASSUME rcv.pc \notin {"idle", "offer"}
             PROVE  /\ Cardinality(rcv.verified) \in Nat /\ Selection(rcv.plan) \in SUBSET Entries
                    /\ \A c : Cardinality(rcv.verified \cup {c}) \in Nat
        <4>1. PICK S \in SUBSET Entries : S = Selection(rcv.plan)
          BY <2>1, <3>10 DEF ReceiverTypeOK, IsPlan
        <4>2. PICK V \in SUBSET ((S \ {0}) \X Whole) : V = rcv.verified
          BY <2>6, <2>7, <3>10, <4>1
        <4>3. Cardinality(V) \in Nat /\ \A c : Cardinality(V \cup {c}) \in Nat
          BY <1>VerifiedCount
        <4> QED BY <4>1, <4>2, <4>3
      <3>11. ASSUME ReceiverStep, snd' = snd
             PROVE  \/ Old
                    \/ r2s'[i].op \notin {"ack", "confirmed_ack"}
                    \/ r2s'[i].op = "confirmed_ack" /\ ReceiverConfirmed
                    \/ /\ i = Len(r2s) + 1 /\ link # "none" /\ WriteChunk
                       /\ r2s'[i] = Frame("ack", [chunk |-> Head(s2r).arg,
                                                  verified |-> Cardinality(rcv.verified \cup {Head(s2r).arg})])
        <4>1. CASE ResumeOffer \/ RejectOffer
          <5>1. r2s' = r2s \/ AnswerFrames(<<Frame("error", {})>>) \/ AnswerFrames(<<Frame("reject", {})>>)
            BY <4>1 DEF ResumeOffer, RejectOffer
          <5>2. Old \/ r2s'[i] = Frame("error", {}) \/ r2s'[i] = Frame("reject", {})
            BY <3>1, <3>2, <3>9, <5>1
          <5> QED BY <5>2 DEF Frame
        <4>2. ASSUME NEW f, NEW e, OpenRefused \/ RestoreRefused(f) \/ CommitFails(e)
              PROVE  Old \/ r2s'[i].op \notin {"ack", "confirmed_ack"}
          <5>1. AnswerFrames(<<Frame("error", {})>>)
            BY <4>2 DEF OpenRefused, RestoreRefused, CommitFails, ReceiverRefuses
          <5>2. Old \/ r2s'[i] = Frame("error", {})
            BY <3>2, <3>9, <5>1
          <5> QED BY <5>2 DEF Frame
        <4>3. CASE Register
          <5>1. rcv.pc = "register"
            BY <4>3 DEF Register
          <5>2. PICK sel \in SUBSET Entries, n \in Nat : sel = Selection(rcv.plan) /\ n = Cardinality(rcv.verified)
            BY <3>10, <5>1
          <5>3. Frame("accept", [selection |-> sel, verified |-> n]) \in Answers
            <6>1. \A S \in SUBSET Entries, m \in Nat : Frame("accept", [selection |-> S, verified |-> m]) \in Answers
              BY <1>FramesHold
            <6> QED BY <5>2, <6>1
          <5>4. \/ AnswerFrames(<<Frame("accept", [selection |-> sel, verified |-> n])>>) \/ r2s' = r2s
                \/ AnswerFrames(<<Frame("error", {})>>)
            BY <4>3, <5>2 DEF Register, ReceiverRefuses
          <5>5. Old \/ r2s'[i] = Frame("accept", [selection |-> sel, verified |-> n]) \/ r2s'[i] = Frame("error", {})
            BY <3>1, <3>2, <3>9, <5>3, <5>4
          <5> QED BY <5>5 DEF Frame
        <4>4. CASE ReceiverBegins \/ AskNext
          <5>1. PICK x \in Answers : x = Asked
            BY <3>9
          <5>2. AnswerFrames(<<x>>)
            BY <4>4, <5>1 DEF ReceiverBegins, AskNext
          <5> QED BY <3>2, <3>9, <5>1, <5>2
        <4>5. CASE ReceiverCompletes
          <5>1. rcv.pc = "publish"
            BY <4>5 DEF ReceiverCompletes
          <5>2. PICK n \in Nat : n = Cardinality(rcv.verified)
            BY <3>10, <5>1
          <5>3. Frame("completed", n) \in Answers /\ AnswerFrames(<<Frame("completed", n)>>)
            BY <4>5, <5>2 DEF ReceiverCompletes, Answers
          <5> QED BY <3>2, <5>3 DEF Frame
        <4>6. CASE ReceiverConfirmed
          <5>1. Old \/ r2s'[i] = Frame("confirmed_ack", {})
            BY <3>2, <3>9, <4>6 DEF ReceiverConfirmed
          <5> QED BY <4>6, <5>1 DEF Frame
        <4>7. CASE WriteChunk
          <5>1. PICK c \in Pairs : c = Head(s2r).arg
            BY <2>12, <4>7
          <5>2. PICK V : V = rcv.verified \cup {c}
            OBVIOUS
          <5>3. [rcv EXCEPT !.verified = @ \cup {c}, !.pc = "acked"].verified = V
            BY <2>1, <5>2 DEF ReceiverTypeOK, ReceiverFields
          <5>4. AnswerFrames(<<Frame("ack", [chunk |-> c, verified |-> Cardinality(V)])>>)
            BY <4>7, <5>1, <5>3 DEF WriteChunk
          <5>5. PICK n \in Nat : n = Cardinality(V)
            BY <2>12, <3>10, <4>7, <5>2
          <5>6. Frame("ack", [chunk |-> c, verified |-> n]) \in Answers
            BY DEF Answers
          <5>7. Old \/ (r2s'[i] = Frame("ack", [chunk |-> c, verified |-> n]) /\ i = Len(r2s) + 1 /\ link # "none")
            BY <3>2, <5>4, <5>5, <5>6
          <5>8. Frame("ack", [chunk |-> c, verified |-> n])
                  = Frame("ack", [chunk |-> Head(s2r).arg, verified |-> Cardinality(rcv.verified \cup {Head(s2r).arg})])
            BY <5>1, <5>2, <5>5
          <5> QED BY <4>7, <5>7, <5>8
        <4>8. ASSUME NEW f, NEW e, NEW requested, NEW policy,
                     \/ AcceptOffer(requested, policy) \/ OpenStage \/ SkipFile(f) \/ RestoreCommitted(f) \/ CopyPart(f)
                     \/ ReplacePart \/ OpenDone \/ PlanReady \/ ReceiverFinishes \/ RenameEntry(e) \/ Intend(e)
                     \/ TakeName(e) \/ NameTaken(e) \/ UseDirectory \/ RecordCommit \/ ReceiverGivesUp
              PROVE  Old
          BY <3>1, <4>8 DEF AcceptOffer, OpenStage, SkipFile, RestoreCommitted, CopyPart, ReplacePart, OpenDone,
             PlanReady, ReceiverFinishes, RenameEntry, Intend, TakeName, NameTaken, UseDirectory, RecordCommit,
             ReceiverGivesUp, wire
        <4> QED BY <3>11, <4>1, <4>2, <4>3, <4>4, <4>5, <4>6, <4>7, <4>8 DEF ReceiverStep
      <3>12. ReceiverStep => snd' = snd
        BY DEF ReceiverStep, ResumeOffer, RejectOffer, OpenStage, OpenRefused, AcceptOffer,
           SkipFile, RestoreCommitted, RestoreRefused, CopyPart, ReplacePart, OpenDone, PlanReady, Register,
           ReceiverBegins, WriteChunk, AskNext, ReceiverFinishes, RenameEntry, Intend, TakeName, NameTaken,
           CommitFails, UseDirectory, RecordCommit, ReceiverCompletes, ReceiverConfirmed, ReceiverGivesUp
      <3>13. CASE ReceiverStep
        BY <3>11, <3>12, <3>13 DEF Old
      <3> QED BY <3>5, <3>6, <3>7, <3>8, <3>13 DEF TransferNext, SenderStep
    <2> HIDE DEF Reads
    <2>20. Reads /\ rcv.pc # "idle" => Station /\ rcv.pc # "offer"
      BY <2>3 DEF Reads, Station
    <2>21. ASSUME Connect PROVE rcv'.pc = "offer" /\ rcv.pc = "idle" /\ snd.pc = "idle" /\ \A i \in 1 .. Len(s2r') : s2r'[i].op = "offer"
      <3>1. s2r' = <<Frame("offer", {})>> /\ rcv.pc = "idle" /\ snd.pc = "idle" /\ rcv'.pc = "offer"
        BY <2>21 DEF Connect, NoReceiver
      <3>2. Len(s2r') = 1 /\ s2r'[1].op = "offer"
        BY <3>1 DEF Frame
      <3>3. \A i \in 1 .. 1 : i = 1
        OBVIOUS
      <3> QED BY <3>1, <3>2, <3>3
    \* The selection is agreed on before the body begins.
    <2>22. rcv'.pc \notin {"idle", "offer"} => rcv' = rcv \/ Begins \/ Goes
      BY <2>8, <2>9, <2>21
    <2>23. rcv'.pc \notin {"idle", "offer"} /\ ~Begins
              => rcv.pc \notin {"idle", "offer"} /\ Selection(rcv'.plan) = Selection(rcv.plan)
      BY <2>22 DEF Goes
    <2>24. Agreed' => sent'.selection = <<Selection(rcv'.plan)>>
      <3>1. Agreed' => rcv'.pc \notin {"idle", "offer", "open"}
        BY DEF Agreed
      <3>2. ASSUME Agreed' PROVE Agreed \/ ReceiverBegins
        BY <2>22, <3>1, <3>2 DEF Begins, Goes, Agreed
      <3>3. Agreed \/ ReceiverBegins => sent.selection = <<Selection(rcv.plan)>>
        <4>1. ReceiverBegins => rcv.pc = "barrier" /\ s2r # <<>> /\ Head(s2r).op = "accepted"
          BY <2>2 DEF ReceiverBegins
        <4> QED BY <2>1, <2>4, <4>1 DEF Agreement
      <3>4. \A S : <<S>> # <<>>
        OBVIOUS
      <3> QED BY <2>5, <2>23, <3>1, <3>2, <3>3, <3>4 DEF Begins
    <2>25. ASSUME NEW i \in 1 .. Len(s2r'), rcv'.pc \notin {"idle", "offer"}
           PROVE  /\ s2r'[i].op = "accepted" => sent'.selection = <<Selection(rcv'.plan)>>
                  /\ s2r'[i].op = "data" => s2r'[i].arg \in Body(rcv'.plan)
      <3>1. CASE Begins
        <4>1. rcv.pc = "offer" /\ ~Connect
          BY <2>21, <3>1 DEF Begins
        <4>2. \E j \in 1 .. Len(s2r) : s2r'[i] = s2r[j]
          BY <2>18, <2>20, <4>1
        <4> QED BY <2>1, <4>1, <4>2 DEF Agreement
      <3>2. ASSUME ~Begins PROVE rcv.pc \notin {"idle", "offer"} /\ Selection(rcv'.plan) = Selection(rcv.plan)
                                 /\ Body(rcv'.plan) = Body(rcv.plan) /\ ~Connect
        BY <2>6, <2>21, <2>23, <2>25, <3>2
      <3>3. ASSUME ~Begins, NEW j \in 1 .. Len(s2r), s2r'[i] = s2r[j]
            PROVE  /\ s2r'[i].op = "accepted" => sent'.selection = <<Selection(rcv.plan)>>
                   /\ s2r'[i].op = "data" => s2r'[i].arg \in Body(rcv.plan)
        <4>1. \A S : <<S>> # <<>>
          OBVIOUS
        <4> QED BY <2>1, <2>5, <3>2, <3>3, <4>1 DEF Agreement
      <3>4. ASSUME ~Begins, Reads, SenderAccepts PROVE sent'.selection = <<Selection(rcv.plan)>>
        <4>1. Station /\ snd.pc = "accept" /\ r2s # <<>> /\ Head(r2s) = r2s[1]
          BY <2>2, <2>4, <2>20, <3>2, <3>4 DEF SenderAccepts
        <4>2. r2s[1].arg = [selection |-> Selection(rcv.plan), verified |-> Count]
          BY <4>1 DEF Station
        <4> QED BY <2>5, <3>4, <4>1, <4>2
      <3>5. ASSUME ~Begins, Reads, Head(r2s).op = "chunk", snd.pc = "serve" PROVE Head(r2s).arg \in Body(rcv.plan)
        <4>1. Station /\ r2s # <<>> /\ Head(r2s) = r2s[1]
          BY <2>20, <3>2, <3>5 DEF Reads
        <4> QED BY <3>5, <4>1 DEF Station, One, Two
      <3> QED BY <2>18, <3>1, <3>2, <3>3, <3>4, <3>5 DEF Frame
    <2>26. rcv'.pc \notin {"idle", "offer"} => rcv'.verified \subseteq Body(rcv'.plan)
      <3>1. Begins => rcv'.verified = {}
        BY <2>1 DEF Begins, Follows
      <3> QED BY <2>6, <2>7, <2>22, <2>23, <3>1 DEF Goes
    <2>27. ASSUME rcv'.pc = "offer", NEW i \in 1 .. Len(s2r') PROVE s2r'[i].op = "offer"
      <3>1. CASE Connect
        BY <2>21, <3>1
      <3>2. CASE ~Connect
        <4>1. rcv.pc = "offer"
          BY <2>8, <2>9, <2>27, <3>2 DEF Begins, Goes
        <4>2. \E j \in 1 .. Len(s2r) : s2r'[i] = s2r[j]
          BY <2>18, <2>20, <3>2, <4>1
        <4> QED BY <2>1, <4>1, <4>2 DEF Agreement
      <3> QED BY <3>1, <3>2
    <2>28. (\E f \in Files : disk'.part[f] # {}) => Loaded'
      <3>1. (\E f \in Files : disk.part[f] # {}) => Loaded
        BY <2>1 DEF Agreement
      <3> QED BY <2>12, <2>13, <2>15, <2>16, <3>1
    <2>29. Agreement'
      BY <2>24, <2>25, <2>26, <2>27, <2>28 DEF Agreement
    \* Nothing is written before that.
    <2>30. AgreedBeforeBody'
      <3>1. ASSUME \E f \in Files : disk'.part[f] # {}
            PROVE  ~CleanupStage /\ Loaded /\ sent.selection = <<Selection(disk.saved.plan)>>
        <4>1. CASE WriteChunk
          <5>1. rcv.pc = "data" /\ disk.saved.plan = rcv.plan /\ Loaded
            BY <2>1, <2>12, <4>1 DEF Follows, Following
          <5> QED BY <2>1, <2>16, <5>1 DEF Agreement, Agreed
        <4>2. CASE ~WriteChunk
          BY <2>1, <2>15, <2>16, <3>1, <4>2 DEF Agreement, AgreedBeforeBody
        <4> QED BY <4>1, <4>2
      <3>2. \A S : <<S>> # <<>>
        OBVIOUS
      <3> QED BY <2>5, <2>13, <3>1, <3>2 DEF AgreedBeforeBody
    \* An acknowledged chunk stays.
    <2>31. ASSUME NEW i \in 1 .. Len(r2s), r2s[i].op = "ack" PROVE r2s[i].arg.chunk \in Pairs
      BY <2>1, <2>31, <1>FramesHold
    <2>32. ASSUME NEW c \in seen'.acked PROVE c[2] \in disk'.part[c[1]]
      <3>1. ~CleanupStage
        BY <2>16, <2>32
      <3>2. \A d \in seen.acked : d[2] \in disk'.part[d[1]]
        <4>1. \A d \in seen.acked : d[1] \in Files /\ d[2] \in disk.part[d[1]]
          BY <2>1 DEF WireTypeOK, Pairs, AcksAreSound
        <4> QED BY <2>14, <3>1, <4>1
      <3>3. ASSUME SenderAcked, seen' # seen PROVE snd.chunk[2] \in disk'.part[snd.chunk[1]]
        <4>1. snd.pc # "idle" /\ r2s # <<>> /\ Head(r2s).op = "ack"
          BY <2>2, <3>3 DEF SenderAcked
        <4>2. 1 \in 1 .. Len(r2s) /\ r2s[1].op = "ack" /\ Head(r2s) = r2s[1]
          BY <2>4, <4>1
        <4>3. Head(r2s).arg.chunk = snd.chunk
          BY <2>17, <3>3 DEF AckFits
        <4>4. snd.chunk[1] \in Files /\ snd.chunk[2] \in disk.part[snd.chunk[1]]
          BY <2>1, <2>31, <4>1, <4>2, <4>3 DEF AcksAreSound, Pairs
        <4> QED BY <2>14, <3>1, <4>4
      <3> QED BY <2>17, <2>32, <3>2, <3>3
    \* A new acknowledgement fits what the sender has counted.
    <2>33. ASSUME WriteChunk, snd.pc # "idle", link # "none"
           PROVE  /\ snd.pc = "ack" /\ Len(r2s) = 0 /\ Head(s2r).arg = snd.chunk
                  /\ LET n == Cardinality(rcv.verified \cup {Head(s2r).arg}) IN
                       /\ n >= snd.verified /\ n <= Total(snd.selected) /\ n <= snd.initial + snd.sent
      <3>1. rcv.pc = "data" /\ s2r # <<>> /\ Head(s2r) = s2r[1]
        BY <2>2, <2>4, <2>33 DEF WriteChunk
      <3>2. Station
        BY <2>3, <2>33, <3>1
      <3>3. snd.pc = "ack" /\ r2s = <<>> /\ Counted(1) /\ One(s2r, "data") /\ s2r[1].arg = snd.chunk
        BY <3>1, <3>2 DEF Station
      <3>4. PICK c : c = Head(s2r).arg
        OBVIOUS
      <3>5. c \in Body(rcv.plan)
        BY <2>1, <2>4, <3>1, <3>3, <3>4 DEF Agreement, One
      <3>6. PICK S \in SUBSET Entries : S = Selection(rcv.plan)
        BY <2>1, <3>1 DEF ReceiverTypeOK, IsPlan
      <3>7. PICK V \in SUBSET ((S \ {0}) \X Whole) : V = rcv.verified
        BY <2>6, <2>7, <3>1, <3>6
      <3>8. PICK W \in SUBSET ((S \ {0}) \X Whole) : W = V \cup {c}
        BY <2>6, <3>5, <3>6
      <3>9. /\ Cardinality(V) \in Nat /\ Cardinality(W) \in Nat /\ Cardinality(W) <= Total(S)
            /\ Cardinality(W) <= Cardinality(V) + 1 /\ Cardinality(V) <= Cardinality(W)
        BY <3>8, <1>VerifiedCount
      <3>10. snd.selected = S /\ snd.verified <= Cardinality(V) /\ Cardinality(V) + 1 <= snd.initial + snd.sent
        BY <3>3, <3>6, <3>7 DEF Counted, Count
      <3>11. snd.verified \in Nat /\ snd.initial \in Nat /\ snd.sent \in Nat
        BY <2>1 DEF SenderTypeOK
      <3>12. PICK v \in Nat, w \in Nat, a \in Nat, b \in Nat :
                v = Cardinality(V) /\ w = Cardinality(W) /\ a = snd.verified /\ b = snd.initial + snd.sent
        BY <3>9, <3>11
      <3>13. w >= a /\ w <= b
        BY <3>9, <3>10, <3>12
      <3> QED BY <3>3, <3>4, <3>7, <3>8, <3>9, <3>10, <3>12, <3>13
    <2>34. ASSUME snd'.pc # "idle", NEW i \in 1 .. Len(r2s'), r2s'[i].op = "ack"
           PROVE  /\ i = 1 /\ snd'.pc = "ack" /\ AckFits(r2s[i].arg)'
                  /\ r2s'[i].arg.chunk[2] \in disk'.part[r2s'[i].arg.chunk[1]]
      <3>1. ~CleanupStage
        BY <2>16, <2>34
      <3>2. CASE i \in 1 .. Len(r2s) /\ r2s'[i] = r2s[i] /\ snd' = snd
        <4>1. /\ i = 1 /\ snd.pc = "ack" /\ AckFits(r2s[i].arg)
              /\ r2s[i].arg.chunk[1] \in Files /\ r2s[i].arg.chunk[2] \in disk.part[r2s[i].arg.chunk[1]]
          BY <2>1, <2>31, <2>34, <3>2 DEF AcksAreSound, Pairs
        <4>2. AckFits(r2s[i].arg)'
          BY <3>2, <4>1 DEF AckFits
        <4> QED BY <2>14, <3>1, <3>2, <4>1, <4>2
      <3>3. ~(snd.pc # "idle" /\ i + 1 \in 1 .. Len(r2s) /\ r2s'[i] = r2s[i + 1] /\ i + 1 # 1)
        BY <2>1, <2>34 DEF AcksAreSound
      <3>4. CASE /\ snd' = snd /\ i = Len(r2s) + 1 /\ link # "none" /\ WriteChunk
                 /\ r2s'[i] = Frame("ack", [chunk |-> Head(s2r).arg,
                                            verified |-> Cardinality(rcv.verified \cup {Head(s2r).arg})])
        <4>1. PICK c, n : c = Head(s2r).arg /\ n = Cardinality(rcv.verified \cup {Head(s2r).arg})
          OBVIOUS
        <4>2. /\ snd.pc = "ack" /\ Len(r2s) = 0 /\ c = snd.chunk
              /\ n >= snd.verified /\ n <= Total(snd.selected) /\ n <= snd.initial + snd.sent
          BY <2>33, <2>34, <3>4, <4>1
        <4>3. r2s'[i].arg = [chunk |-> c, verified |-> n]
          BY <3>4, <4>1 DEF Frame
        <4>4. r2s'[i].arg.chunk = c /\ r2s'[i].arg.verified = n
          BY <4>3
        <4>5. AckFits(r2s[i].arg)'
          BY <3>4, <4>2, <4>4 DEF AckFits
        <4>6. c[2] \in disk'.part[c[1]]
          BY <2>12, <3>4, <4>1
        <4> QED BY <3>4, <4>2, <4>4, <4>5, <4>6
      <3> QED BY <2>19, <2>34, <3>2, <3>3, <3>4
    <2>35. AcksAreSound'
      BY <2>32, <2>34 DEF AcksAreSound
    \* What is completed stays so.
    <2>36. rcv.pc \in {"idle", "offer", "confirm"} /\ ~CleanupStage => disk'.saved = disk.saved
      BY <2>11, <2>12 DEF Kept, Marked, Following
    <2>37. Published /\ disk'.saved = disk.saved => Published'
      <3>1. \A S : <<S>> # <<>>
        OBVIOUS
      <3> QED BY <2>5, <2>17, <3>1 DEF Published
    <2>38. sent'.completed => sent.completed \/ SenderCompletes
      <3>1. ASSUME NEW sel, Records(sel) PROVE sent'.completed => sent.completed
        BY <2>1, <3>1 DEF Records, SenderTypeOK
      <3>2. CASE SenderStep
        BY <3>1, <3>2 DEF SenderStep, SenderAccepts, SenderRefuses, SenderServes, SenderAcked, SenderFinishes,
           SenderConfirms, SenderGivesUp
      <3>3. CASE ReceiverStep
        BY <3>3 DEF ReceiverStep, ResumeOffer, RejectOffer, OpenStage, OpenRefused, AcceptOffer, SkipFile,
           RestoreCommitted, RestoreRefused, CopyPart, ReplacePart, OpenDone, PlanReady, Register, ReceiverBegins,
           WriteChunk, AskNext, ReceiverFinishes, RenameEntry, Intend, TakeName, NameTaken, CommitFails,
           UseDirectory, RecordCommit, ReceiverCompletes, ReceiverConfirmed, ReceiverGivesUp
      <3>4. CASE ~SenderStep /\ ~ReceiverStep
        BY <3>4 DEF TransferNext, Connect, SenderStops, ReceiverFails, ReceiverEnds, StreamBreaks, SourceChanges,
           CancelRow, CleanupStage, Touch, trVars
      <3> QED BY <3>2, <3>3, <3>4
    <2>39. ReceiverConfirmed => /\ rcv.pc = "confirm" /\ rcv'.pc = "idle" /\ row'.state = "completed"
                               /\ disk' = disk /\ ~Connect
      BY <2>1, <2>21 DEF ReceiverConfirmed, ReceiverReturns, NoReceiver, Resumable, WireTypeOK
    <2>40. ReceiverStep => rcv.pc # "idle"
      BY DEF ReceiverStep, ResumeOffer, RejectOffer, OpenStage, OpenRefused, AcceptOffer, SkipFile,
         RestoreCommitted, RestoreRefused, CopyPart, ReplacePart, OpenDone, PlanReady, Register, ReceiverBegins,
         WriteChunk, AskNext, ReceiverFinishes, RenameEntry, Intend, TakeName, NameTaken, CommitFails, Restoring,
         UseDirectory, RecordCommit, ReceiverCompletes, ReceiverConfirmed, ReceiverGivesUp, Publishing, Taking, Waiting
    <2>41. rcv.pc = "idle" /\ row.state = "completed" /\ ~Connect => rcv'.pc = "idle" /\ row'.state = "completed"
      <3>1. CASE SenderStep
        BY <3>1 DEF SenderStep, SenderAccepts, SenderRefuses, SenderServes, SenderAcked, SenderFinishes,
           SenderConfirms, SenderCompletes, SenderGivesUp
      <3>2. CASE SenderStops \/ StreamBreaks \/ SourceChanges \/ CancelRow \/ CleanupStage \/ (\E s \in Slots : Touch(s))
                 \/ UNCHANGED trVars
        BY <3>2 DEF SenderStops, StreamBreaks, SourceChanges, CancelRow, CleanupStage, Touch, trVars
      <3>3. ReceiverFails \/ ReceiverEnds => rcv.pc # "idle"
        BY DEF ReceiverFails, ReceiverEnds
      <3> QED BY <2>40, <3>1, <3>2, <3>3 DEF TransferNext
    <2>42. row'.state = "completed" => row.state = "completed" \/ ReceiverConfirmed
      <3>1. ASSUME NEW st \in {"active", "resumable"}, Resumable(st) PROVE row'.state # "completed"
        BY <2>1, <3>1 DEF Resumable, WireTypeOK
      <3>2. ReceiverRefuses \/ Fails => row'.state # "completed"
        BY <3>1 DEF ReceiverRefuses, Fails
      <3>3. CASE SenderStep
        BY <3>3 DEF SenderStep, SenderAccepts, SenderRefuses, SenderServes, SenderAcked, SenderFinishes,
           SenderConfirms, SenderCompletes, SenderGivesUp
      <3>4. ASSUME ReceiverStep PROVE row'.state = "completed" => row.state = "completed" \/ ReceiverConfirmed
        <4>1. CASE ResumeOffer
          <5>1. row' = row \/ Resumable("active")
            BY <4>1 DEF ResumeOffer, Resumable
          <5> QED BY <3>1, <5>1
        <4>2. ASSUME NEW requested, NEW policy, RejectOffer \/ AcceptOffer(requested, policy)
              PROVE  row'.state # "completed"
          <5>1. RejectOffer => row'.state # "completed"
            BY DEF RejectOffer
          <5>2. AcceptOffer(requested, policy) => \E p : row' = [state |-> "active", plan |-> p]
            BY DEF AcceptOffer
          <5> QED BY <4>2, <5>1, <5>2
        <4>3. CASE PlanReady
          BY <2>1, <4>3 DEF PlanReady, PlanRecorded, WireTypeOK
        <4>4. CASE ReceiverGivesUp
          <5>1. UNCHANGED row \/ Fails \/ Resumable("resumable")
            BY <4>4 DEF ReceiverGivesUp
          <5> QED BY <3>1, <3>2, <5>1
        <4>5. ASSUME NEW f, NEW e, OpenRefused \/ RestoreRefused(f) \/ CommitFails(e) PROVE row'.state # "completed"
          BY <3>2, <4>5 DEF OpenRefused, RestoreRefused, CommitFails
        <4>6. CASE Register
          BY <3>2, <4>6 DEF Register
        <4> QED BY <3>4, <4>1, <4>2, <4>3, <4>4, <4>5, <4>6 DEF ReceiverStep, OpenStage, SkipFile, RestoreCommitted,
                CopyPart, ReplacePart, OpenDone, ReceiverBegins, WriteChunk, AskNext, ReceiverFinishes, RenameEntry,
                Intend, TakeName, NameTaken, UseDirectory, RecordCommit, ReceiverCompletes
      <3>5. CASE ReceiverFails
        <4>1. Fails \/ UNCHANGED row \/ Resumable("resumable")
          BY <3>5 DEF ReceiverFails
        <4> QED BY <3>1, <3>2, <4>1
      <3>6. CASE ReceiverEnds
        BY <2>1, <3>6 DEF ReceiverEnds, WireTypeOK
      <3>7. CASE Connect \/ SenderStops \/ StreamBreaks \/ SourceChanges \/ CancelRow \/ CleanupStage
                 \/ (\E s \in Slots : Touch(s)) \/ UNCHANGED trVars
        BY <3>7 DEF Connect, SenderStops, StreamBreaks, SourceChanges, CancelRow, CleanupStage, Touch, trVars
      <3> QED BY <3>3, <3>4, <3>5, <3>6, <3>7 DEF TransferNext
    <2>43. ASSUME ReceiverCompletes PROVE Published'
      <3>1. rcv.pc = "publish" /\ Left = {} /\ Saves("Completed", rcv)
        BY <2>43 DEF ReceiverCompletes, AllPublished
      <3>2. PICK c : c = Checkpoint("Completed", rcv)
        OBVIOUS
      <3>3. c.state = "Completed" /\ c.plan = rcv.plan
        BY <3>2 DEF Checkpoint
      <3>4. disk'.saved = c
        BY <2>1, <3>1, <3>2 DEF Saves, DiskTypeOK
      <3>5. \A f \in FilesOf(rcv.plan) : Slot(rcv.plan, f) \in seen.linked
        <4>1. \A f \in FilesOf(rcv.plan) : f \in rcv.committed
          BY <2>6, <3>1 DEF Left
        <4> QED BY <2>1, <4>1 DEF ClaimsArePublished
      <3>6. sent'.selection = <<Selection(rcv.plan)>>
        <4>1. \A S : <<S>> # <<>>
          OBVIOUS
        <4> QED BY <2>1, <2>5, <3>1, <4>1 DEF Agreement, Agreed
      <3> QED BY <2>17, <3>3, <3>4, <3>5, <3>6 DEF Published
    <2>44. ASSUME rcv'.pc = "confirm" PROVE Published'
      <3>1. rcv.pc = "confirm" \/ ReceiverCompletes
        BY <2>22, <2>44 DEF Begins, Goes
      <3>2. rcv.pc = "confirm" => Published /\ disk'.saved = disk.saved
        BY <2>1, <2>16, <2>36 DEF Completion
      <3> QED BY <2>37, <2>43, <3>1, <3>2
    <2>45. ASSUME row'.state = "completed" PROVE rcv'.pc \in {"idle", "offer"} /\ Published' /\ seen'.confirmed
      <3>1. CASE ReceiverConfirmed
        BY <2>1, <2>17, <2>37, <2>39, <3>1 DEF Completion
      <3>2. CASE row.state = "completed"
        <4>1. rcv.pc \in {"idle", "offer"} /\ Published /\ seen.confirmed /\ ~CleanupStage
          BY <2>1, <2>16, <3>2 DEF Completion
        <4>2. rcv'.pc \in {"idle", "offer"}
          BY <2>8, <2>9, <2>21, <2>45, <4>1 DEF Begins, Goes
        <4> QED BY <2>17, <2>36, <2>37, <4>1, <4>2
      <3> QED BY <2>42, <2>45, <3>1, <3>2
    <2>46. ASSUME snd'.pc # "idle", NEW i \in 1 .. Len(r2s'), r2s'[i].op = "confirmed_ack"
           PROVE  rcv'.pc = "idle" /\ row'.state = "completed"
      <3>1. CASE ReceiverConfirmed
        BY <2>39, <3>1
      <3>2. CASE snd.pc # "idle" /\ (\E j \in 1 .. Len(r2s) : r2s'[i] = r2s[j])
        <4>1. rcv.pc = "idle" /\ row.state = "completed" /\ ~Connect
          BY <2>1, <2>21, <2>46, <3>2 DEF Completion
        <4> QED BY <2>41, <4>1
      <3> QED BY <2>19, <2>46, <3>1, <3>2 DEF Frame
    <2>47. ASSUME sent'.completed PROVE rcv'.pc = "idle" /\ row'.state = "completed"
      <3>1. CASE sent.completed
        BY <2>1, <2>41, <3>1 DEF Completion, Connect
      <3>2. CASE SenderCompletes
        <4>1. snd.pc = "confirmed" /\ 1 \in 1 .. Len(r2s) /\ r2s[1].op = "confirmed_ack"
          BY <2>2, <2>4, <3>2 DEF SenderCompletes
        <4>2. rcv.pc = "idle" /\ row.state = "completed" /\ ~Connect
          BY <2>1, <2>21, <4>1 DEF Completion
        <4> QED BY <2>41, <4>2
      <3> QED BY <2>38, <2>47, <3>1, <3>2
    <2>48. Completion'
      BY <2>44, <2>45, <2>46, <2>47 DEF Completion
    <2> QED BY <2>29, <2>30, <2>35, <2>48
  \* Every step keeps what the two ends know of each other.
  <1>ConversationStep.
      ASSUME TransferTypeOK, TransferTypeOK', Agreement, Conversation, [TransferNext]_trVars
      PROVE  Conversation'
    <2> USE <1>ConversationStep
    <2>1. /\ SenderTypeOK /\ ReceiverTypeOK /\ WireTypeOK /\ SenderTypeOK' /\ ReceiverTypeOK'
          /\ s2r \in Seq(Requests) /\ r2s \in Seq(Answers)
      BY DEF TransferTypeOK, WireTypeOK
    \* The ends that a step moves.
    <2>2. CASE UNCHANGED <<snd, rcv, s2r, r2s, link>>
      <3>1. UNCHANGED Station
        BY <2>2 DEF Station, Counted, Count, Body, One, Two
      <3> QED BY <2>2, <3>1 DEF Conversation
    <2>3. CASE Connect
      <3>1. /\ snd'.pc = "accept" /\ rcv'.pc = "offer" /\ s2r' = <<Frame("offer", {})>> /\ r2s' = <<>> /\ link' = "up"
        BY <2>3 DEF Connect, NoSender, NoReceiver
      <3>2. One(s2r, "offer")'
        BY <3>1 DEF One, Frame
      <3> QED BY <3>1, <3>2 DEF Conversation, Station
    <2>4. CASE StreamBreaks
      BY <2>4 DEF StreamBreaks, Conversation
    \* An end that returns.
    <2>5. ASSUME snd' = NoSender \/ rcv' = NoReceiver, Leave \/ link' = link,
                 link = "none" => s2r' = <<>> /\ r2s' = <<>>
          PROVE  Conversation'
      <3>1. snd'.pc = "idle" \/ rcv'.pc = "idle"
        BY <2>5 DEF NoSender, NoReceiver
      <3>2. link' = "none" => link = "none"
        BY <2>5 DEF Leave
      <3> QED BY <2>5, <3>1, <3>2 DEF Conversation
    <2>6. link = "none" => s2r = <<>> /\ r2s = <<>>
      BY DEF Conversation
    <2>7. ASSUME SenderReturns, rcv' = rcv, link = "none" => s2r' = <<>> /\ r2s' = <<>>
          PROVE  Conversation'
      BY <2>5, <2>7 DEF SenderReturns
    <2>8. ASSUME ReceiverReturns, snd' = snd, link = "none" => s2r' = <<>> /\ r2s' = <<>>
          PROVE  Conversation'
      BY <2>5, <2>8 DEF ReceiverReturns
    \* Both go on, at the next station.
    <2>9. ASSUME link' = link, snd.pc # "idle", rcv'.pc # "idle" => rcv.pc # "idle",
                 link = "none" => s2r' = <<>> /\ r2s' = <<>>,
                 Station /\ link = "up" /\ rcv'.pc # "idle" => Station'
          PROVE  Conversation'
      BY <2>9 DEF Conversation
    <2>10. ASSUME link' = link, rcv.pc # "idle", snd' = snd, link = "none" => s2r' = <<>> /\ r2s' = <<>>,
                 snd.pc # "idle" /\ Station /\ link = "up" => Station'
          PROVE  Conversation'
      BY <2>10 DEF Conversation
    \* Queues of one frame and of two.
    <2>11. ASSUME NEW T, NEW q \in Seq(T), NEW op, One(q, op)
           PROVE  q # <<>> /\ Head(q) = q[1] /\ Head(q).op = op /\ Tail(q) = <<>>
      <3>1. q # <<>> /\ Len(Tail(q)) = 0 /\ Tail(q) \in Seq(T)
        BY <2>11, HeadTailProperties DEF One
      <3>2. Tail(q) = <<>>
        BY <3>1, EmptySeq
      <3>3. Head(q) = q[1]
        OBVIOUS
      <3> QED BY <2>11, <3>1, <3>2, <3>3 DEF One
    <2>15. ASSUME NEW T, NEW q \in Seq(T), NEW op, One(q, op), NEW x \in T
           PROVE  Two(q \o <<x>>, op, x.op) /\ (q \o <<x>>)[1] = q[1] /\ (q \o <<x>>)[2] = x
      <3>1. <<x>> \in Seq(T) /\ Len(<<x>>) = 1 /\ <<x>>[1] = x
        OBVIOUS
      <3>2. Len(q \o <<x>>) = 2 /\ (q \o <<x>>)[1] = q[1] /\ (q \o <<x>>)[2] = x
        BY <2>15, <3>1, ConcatProperties DEF One
      <3> QED BY <3>2, <2>15 DEF One, Two
    <2>12. ASSUME NEW T, NEW q \in Seq(T), NEW a, NEW b, Two(q, a, b)
           PROVE  q # <<>> /\ Head(q) = q[1] /\ Head(q).op = a /\ One(Tail(q), b) /\ Tail(q)[1] = q[2]
      BY <2>12 DEF One, Two
    <2>13. \A x : One(<<>> \o <<x>>, x.op) /\ (<<>> \o <<x>>)[1] = x
      BY DEF One
    <2>14. ASSUME rcv.pc \notin {"idle", "offer"}
           PROVE  /\ Count \in Nat /\ Count <= Total(Selection(rcv.plan)) /\ Total(Selection(rcv.plan)) \in Nat
                  /\ \A c : Cardinality(rcv.verified \cup {c}) \in Nat
                            /\ Count <= Cardinality(rcv.verified \cup {c})
                            /\ Cardinality(rcv.verified \cup {c}) <= Count + 1
      <3>1. PICK S \in SUBSET Entries : S = Selection(rcv.plan)
        BY <2>1, <2>14 DEF ReceiverTypeOK, IsPlan
      <3>2. PICK V \in SUBSET ((S \ {0}) \X Whole) : V = rcv.verified
        BY <2>14, <3>1 DEF Agreement, Body, FilesOf
      <3>3. /\ Cardinality(V) \in Nat /\ Cardinality(V) <= Total(S) /\ Total(S) \in Nat
            /\ \A c : Cardinality(V \cup {c}) <= Cardinality(V) + 1 /\ Cardinality(V) <= Cardinality(V \cup {c})
                      /\ Cardinality(V \cup {c}) \in Nat
        BY <1>VerifiedCount
      <3> QED BY <3>1, <3>2, <3>3 DEF Count
    <2>16. /\ \A fs : SendFrames(fs) => (link = "none" => s2r' = <<>>) /\ (link = "up" => s2r' = s2r \o fs)
           /\ \A fs : AnswerFrames(fs) => (link = "none" => r2s' = <<>>) /\ (link = "up" => r2s' = r2s \o fs)
           /\ \A op : SenderReads(op) => link # "none" /\ r2s # <<>> /\ Head(r2s).op = op /\ r2s' = Tail(r2s)
           /\ \A op : ReceiverReads(op) => link # "none" /\ s2r # <<>> /\ Head(s2r).op = op /\ s2r' = Tail(s2r)
      BY <2>6 DEF SendFrames, AnswerFrames, SenderReads, ReceiverReads
    <2> DEFINE Steady == Station /\ link = "up"
    <2> HIDE DEF Steady
    \* The sender.
    <2>17. CASE SenderAccepts
      <3> DEFINE a == Head(r2s).arg
      <3>1. /\ snd.pc = "accept" /\ SenderReads("accept") /\ SendFrames(<<Frame("accepted", a.selection)>>)
            /\ rcv' = rcv /\ link' = link
            /\ snd' = [snd EXCEPT !.pc = "serve", !.selected = a.selection, !.verified = a.verified,
                                  !.initial = a.verified]
        BY <2>17 DEF SenderAccepts, Initial
      <3>2. ASSUME Steady, rcv'.pc # "idle" PROVE Station'
        <4>1. rcv.pc = "barrier" /\ s2r = <<>> /\ One(r2s, "accept")
              /\ r2s[1].arg = [selection |-> Selection(rcv.plan), verified |-> Count]
          BY <3>1, <3>2, <2>16 DEF Steady, Station, One, Two
        <4>2. a.selection = Selection(rcv.plan) /\ a.verified = Count /\ r2s' = <<>>
          BY <2>1, <2>11, <2>16, <3>1, <4>1
        <4>3. One(s2r, "accepted")'
          BY <2>13, <2>16, <3>1, <3>2, <4>1 DEF Steady, Frame, One
        <4> HIDE DEF a
        <4>4. /\ snd'.pc = "serve" /\ snd'.selected = Selection(rcv.plan) /\ snd'.verified = Count
              /\ snd'.initial = Count /\ snd'.sent = snd.sent /\ snd.sent \in Nat
          BY <2>1, <3>1, <4>2 DEF SenderTypeOK
        <4>5. Counted(0)'
          <5>1. Count' = Count /\ Count \in Nat
            BY <2>14, <3>1, <4>1 DEF Count
          <5> QED BY <3>1, <4>4, <5>1 DEF Counted
        <4> QED BY <3>1, <4>1, <4>2, <4>3, <4>4, <4>5 DEF Station
      <3> QED BY <2>9, <2>16, <3>1, <3>2 DEF Steady
    <2>18. CASE SenderServes
      <3> DEFINE c == Head(r2s).arg
      <3>1. /\ snd.pc = "serve" /\ SenderReads("chunk") /\ rcv' = rcv
            /\ \/ /\ SendFrames(<<Frame("data", c)>>) /\ link' = link
                  /\ snd' = [snd EXCEPT !.pc = "ack", !.sent = @ + 1, !.chunk = c]
               \/ SendFrames(<<Frame("error", {})>>) /\ SenderReturns
        BY <2>18 DEF SenderServes
      <3>2. ASSUME Steady, rcv'.pc # "idle", SendFrames(<<Frame("data", c)>>),
                   snd' = [snd EXCEPT !.pc = "ack", !.sent = @ + 1, !.chunk = c]
            PROVE  Station'
        <4>1. rcv.pc = "data" /\ s2r = <<>> /\ One(r2s, "chunk") /\ Counted(0) /\ r2s[1].arg \in Body(rcv.plan)
          BY <3>1, <3>2, <2>16 DEF Steady, Station, One, Two
        <4>2. r2s' = <<>>
          BY <2>1, <2>11, <2>16, <3>1, <4>1
        <4>3. One(s2r, "data")' /\ s2r'[1].arg = c
          BY <2>13, <2>16, <3>2, <4>1 DEF Steady, Frame, One
        <4> HIDE DEF c
        <4>4. /\ snd'.pc = "ack" /\ snd'.selected = snd.selected /\ snd'.verified = snd.verified
              /\ snd'.initial = snd.initial /\ snd'.sent = snd.sent + 1 /\ snd'.chunk = c
              /\ snd.sent \in Nat /\ snd.initial \in Nat
          BY <2>1, <3>2 DEF SenderTypeOK
        <4>5. Counted(1)'
          <5>1. Count' = Count /\ Count \in Nat
            BY <2>14, <3>1, <4>1 DEF Count
          <5> QED BY <3>1, <4>1, <4>4, <5>1 DEF Counted
        <4> QED BY <3>1, <4>1, <4>2, <4>3, <4>4, <4>5 DEF Station
      <3> QED BY <2>7, <2>9, <2>16, <3>1, <3>2 DEF Steady
    <2>19. CASE SenderAcked
      <3> DEFINE n == Head(r2s).arg.verified
      <3>1. /\ snd.pc = "ack" /\ SenderReads("ack") /\ rcv' = rcv /\ s2r' = s2r
            /\ \/ link' = link /\ snd' = [snd EXCEPT !.pc = "serve", !.verified = n]
               \/ SenderReturns
        BY <2>19 DEF SenderAcked
      <3>2. ASSUME Steady, rcv'.pc # "idle", snd' = [snd EXCEPT !.pc = "serve", !.verified = n]
            PROVE  Station'
        <4>1. s2r = <<>>
              /\ \/ rcv.pc = "acked" /\ One(r2s, "ack") /\ Counted(0) /\ r2s[1].arg.verified = Count
                 \/ /\ rcv.pc = "data" /\ Two(r2s, "ack", "chunk") /\ Counted(0) /\ r2s[1].arg.verified = Count
                    /\ r2s[2].arg \in Body(rcv.plan)
                 \/ rcv.pc = "finish" /\ Two(r2s, "ack", "ready")
          BY <3>1, <3>2, <2>16 DEF Steady, Station, One, Two
        <4>2. rcv.pc # "finish" => n = Count
          BY <4>1 DEF One, Two
        <4>3. r2s' = Tail(r2s)
          BY <2>16, <3>1
        <4> HIDE DEF n
        <4>4. /\ snd'.pc = "serve" /\ snd'.selected = snd.selected /\ snd'.verified = n
              /\ snd'.initial = snd.initial /\ snd'.sent = snd.sent /\ snd.sent \in Nat /\ snd.initial \in Nat
          BY <2>1, <3>2 DEF SenderTypeOK
        <4>5. rcv.pc # "finish" => Counted(0)'
          <5>1. Count' = Count /\ Count \in Nat
            BY <2>14, <3>1, <4>1 DEF Count
          <5> QED BY <3>1, <4>1, <4>2, <4>4, <5>1 DEF Counted
        <4>6. CASE rcv.pc = "acked"
          <5>1. r2s' = <<>>
            BY <2>1, <2>11, <4>1, <4>3, <4>6
          <5> QED BY <3>1, <4>1, <4>4, <4>5, <4>6, <5>1 DEF Station
        <4>7. CASE rcv.pc = "data"
          <5>1. One(r2s, "chunk")' /\ r2s'[1] = r2s[2]
            BY <2>1, <2>12, <4>1, <4>3, <4>7 DEF One
          <5> QED BY <3>1, <4>1, <4>4, <4>5, <4>7, <5>1 DEF Station, Body
        <4>8. CASE rcv.pc = "finish"
          <5>1. One(r2s, "ready")'
            BY <2>1, <2>12, <4>1, <4>3, <4>8 DEF One
          <5> QED BY <3>1, <4>1, <4>4, <4>8, <5>1 DEF Station
        <4> QED BY <4>1, <4>6, <4>7, <4>8
      <3> QED BY <2>7, <2>9, <2>16, <3>1, <3>2 DEF Steady
    <2>20. CASE SenderFinishes
      <3>1. /\ snd.pc = "serve" /\ SenderReads("ready") /\ rcv' = rcv
            /\ \/ /\ SendFrames(<<Frame("finish", snd.selected)>>) /\ link' = link
                  /\ snd' = [snd EXCEPT !.pc = "completed"]
               \/ SendFrames(<<Frame("error", {})>>) /\ SenderReturns
        BY <2>20 DEF SenderFinishes
      <3>2. ASSUME Steady, rcv'.pc # "idle", SendFrames(<<Frame("finish", snd.selected)>>),
                   snd' = [snd EXCEPT !.pc = "completed"]
            PROVE  Station'
        <4>1. rcv.pc = "finish" /\ s2r = <<>> /\ One(r2s, "ready")
          BY <3>1, <3>2, <2>16 DEF Steady, Station, One, Two
        <4>2. r2s' = <<>> /\ snd'.pc = "completed"
          BY <2>1, <2>11, <2>16, <3>1, <3>2, <4>1 DEF SenderTypeOK
        <4>3. One(s2r, "finish")'
          BY <2>13, <2>16, <3>2, <4>1 DEF Steady, Frame, One
        <4> QED BY <3>1, <4>1, <4>2, <4>3 DEF Station
      <3> QED BY <2>7, <2>9, <2>16, <3>1, <3>2 DEF Steady
    <2>21. CASE SenderConfirms
      <3>1. /\ snd.pc = "completed" /\ SenderReads("completed") /\ rcv' = rcv
            /\ \/ /\ SendFrames(<<Frame("confirmed", snd.selected)>>) /\ link' = link
                  /\ snd' = [snd EXCEPT !.pc = "confirmed"]
               \/ s2r' = s2r /\ SenderReturns
        BY <2>21 DEF SenderConfirms
      <3>2. ASSUME Steady, rcv'.pc # "idle", SendFrames(<<Frame("confirmed", snd.selected)>>),
                   snd' = [snd EXCEPT !.pc = "confirmed"]
            PROVE  Station'
        <4>1. rcv.pc = "confirm" /\ s2r = <<>> /\ One(r2s, "completed")
          BY <3>1, <3>2, <2>16 DEF Steady, Station, One, Two
        <4>2. r2s' = <<>> /\ snd'.pc = "confirmed"
          BY <2>1, <2>11, <2>16, <3>1, <3>2, <4>1 DEF SenderTypeOK
        <4>3. One(s2r, "confirmed")'
          BY <2>13, <2>16, <3>2, <4>1 DEF Steady, Frame, One
        <4> QED BY <3>1, <4>1, <4>2, <4>3 DEF Station
      <3> QED BY <2>7, <2>9, <2>16, <3>1, <3>2 DEF Steady
    <2>22. CASE SenderRefuses \/ SenderCompletes \/ SenderGivesUp \/ SenderStops
      <3>1. SenderReturns /\ rcv' = rcv
        BY <2>22 DEF SenderRefuses, SenderCompletes, SenderGivesUp, SenderStops
      <3>2. link = "none" => s2r' = <<>> /\ r2s' = <<>>
        BY <2>6, <2>16, <2>22 DEF SenderRefuses, SenderCompletes, SenderGivesUp, SenderStops
      <3> QED BY <2>7, <3>1, <3>2
    \* The receiver before the body.
    <2>23. ASSUME rcv.pc = "offer", ReceiverReads("offer"), rcv'.pc = "open", UNCHANGED <<snd, r2s, link>>
           PROVE  Conversation'
      <3>1. ASSUME snd.pc # "idle", Steady PROVE Station'
        <4>1. snd.pc = "accept" /\ One(s2r, "offer") /\ r2s = <<>>
          BY <2>23, <3>1 DEF Steady, Station
        <4>2. s2r' = <<>>
          BY <2>1, <2>11, <2>16, <2>23, <4>1
        <4> QED BY <2>23, <4>1, <4>2 DEF Station
      <3> QED BY <2>10, <2>16, <2>23, <3>1 DEF Steady
    <2>24. CASE ResumeOffer
      <3>1. ReceiverReads("offer") /\ snd' = snd /\ rcv.pc = "offer"
        BY <2>24 DEF ResumeOffer
      <3>2. CASE AnswerFrames(<<Frame("error", {})>>) /\ ReceiverReturns
        BY <2>8, <2>16, <3>1, <3>2
      <3>3. ASSUME NEW p, rcv' = [rcv EXCEPT !.pc = "open", !.plan = p] PROVE rcv'.pc = "open"
        BY <2>1, <3>3 DEF ReceiverTypeOK, ReceiverFields
      <3> QED BY <2>23, <2>24, <3>1, <3>2, <3>3 DEF ResumeOffer
    <2>25. ASSUME NEW requested, NEW policy, AcceptOffer(requested, policy) PROVE Conversation'
      <3>1. ASSUME NEW p, rcv' = [rcv EXCEPT !.pc = "open", !.plan = p] PROVE rcv'.pc = "open"
        BY <2>1, <3>1 DEF ReceiverTypeOK, ReceiverFields
      <3> QED BY <2>23, <2>25, <3>1 DEF AcceptOffer
    <2>26. CASE RejectOffer
      BY <2>8, <2>16, <2>26 DEF RejectOffer
    <2>27. ASSUME ReceiverRefuses, snd' = snd, s2r' = s2r PROVE Conversation'
      BY <2>6, <2>8, <2>16, <2>27 DEF ReceiverRefuses
    <2> DEFINE Opening == {"open", "restore", "copied"}
               Placing == {"publish", "link", "record"}
    <2>28. ASSUME UNCHANGED <<snd, s2r, r2s, link>>,
                  \/ rcv.pc \in Opening /\ (rcv'.pc \in Opening \/ (rcv'.pc = "ready" /\ rcv'.at = 0))
                  \/ rcv.pc = "ready" /\ rcv'.pc = "register" /\ rcv'.at = rcv.at
                  \/ rcv.pc \in Placing /\ (rcv'.pc \in Placing \/ (rcv'.pc = "ready" /\ rcv'.at # 0))
           PROVE  Conversation'
      <3>1. ASSUME snd.pc # "idle", Steady PROVE Station'
        <4>1. s2r = <<>> /\ r2s = <<>> /\ \/ snd.pc = "accept" /\ (rcv.pc \in Opening \/ (rcv.pc = "ready" /\ rcv.at = 0))
                                          \/ snd.pc = "completed" /\ (rcv.pc \in Placing \/ (rcv.pc = "ready" /\ rcv.at # 0))
          BY <2>28, <3>1 DEF Steady, Station
        <4> QED BY <2>28, <4>1 DEF Station
      <3> QED BY <2>6, <2>10, <2>28, <3>1 DEF Steady
    <2> HIDE DEF Opening, Placing
    <2>29. ASSUME NEW f, OpenStage \/ SkipFile(f) \/ RestoreCommitted(f) \/ CopyPart(f) \/ ReplacePart \/ OpenDone
                         \/ PlanReady
           PROVE  Conversation'
      <3>1. UNCHANGED <<snd, s2r, r2s, link>>
        BY <2>29 DEF OpenStage, SkipFile, RestoreCommitted, CopyPart, ReplacePart, OpenDone, PlanReady, wire
      <3>2. CASE OpenStage
        BY <2>1, <2>28, <3>1, <3>2 DEF OpenStage, ReceiverTypeOK, ReceiverFields, Opening
      <3>3. CASE SkipFile(f) \/ RestoreCommitted(f) \/ CopyPart(f)
        BY <2>1, <2>28, <3>1, <3>3 DEF SkipFile, RestoreCommitted, CopyPart, Restoring, Past, ReceiverTypeOK,
           ReceiverFields, Opening
      <3>4. CASE ReplacePart
        BY <2>1, <2>28, <3>1, <3>4 DEF ReplacePart, Past, ReceiverTypeOK, ReceiverFields, Opening
      <3>5. CASE OpenDone
        BY <2>1, <2>28, <3>1, <3>5 DEF OpenDone, ReceiverTypeOK, ReceiverFields, Opening
      <3>6. CASE PlanReady
        BY <2>1, <2>28, <3>1, <3>6 DEF PlanReady, ReceiverTypeOK, ReceiverFields
      <3> QED BY <2>29, <3>2, <3>3, <3>4, <3>5, <3>6
    <2>30. CASE Register
      <3> DEFINE a == [selection |-> Selection(rcv.plan), verified |-> Cardinality(rcv.verified)]
      <3>1. rcv.pc = "register" /\ snd' = snd /\ s2r' = s2r
        BY <2>30 DEF Register
      <3>2. CASE ReceiverRefuses
        BY <2>27, <3>1, <3>2
      <3>3. CASE rcv.at = 0 /\ AnswerFrames(<<Frame("accept", a)>>) /\ rcv' = [rcv EXCEPT !.pc = "barrier"] /\ link' = link
        <4>1. ASSUME snd.pc # "idle", Steady PROVE Station'
          <5>1. snd.pc = "accept" /\ s2r = <<>> /\ r2s = <<>>
            BY <3>1, <3>3, <4>1 DEF Steady, Station
          <5>2. One(r2s, "accept")' /\ r2s'[1].arg = a
            BY <2>13, <2>16, <3>3, <4>1, <5>1 DEF Steady, Frame, One
          <5>3. rcv'.pc = "barrier" /\ rcv'.plan = rcv.plan /\ rcv'.verified = rcv.verified
            BY <2>1, <3>3 DEF ReceiverTypeOK, ReceiverFields
          <5>4. a = [selection |-> Selection(rcv.plan), verified |-> Count]'
            BY <5>3 DEF Count
          <5> HIDE DEF a
          <5> QED BY <3>1, <5>1, <5>2, <5>3, <5>4 DEF Station
        <4> QED BY <2>6, <2>10, <2>16, <3>1, <3>3, <4>1 DEF Steady
      <3>4. CASE rcv.at # 0 /\ rcv' = [rcv EXCEPT !.pc = "publish", !.at = 0] /\ UNCHANGED <<r2s, link>>
        <4>1. rcv'.pc = "publish"
          BY <2>1, <3>4 DEF ReceiverTypeOK, ReceiverFields
        <4>2. ASSUME snd.pc # "idle", Steady PROVE Station'
          <5>1. snd.pc = "completed" /\ s2r = <<>> /\ r2s = <<>>
            BY <3>1, <3>4, <4>2 DEF Steady, Station
          <5> QED BY <3>1, <3>4, <4>1, <5>1 DEF Station
        <4> QED BY <2>6, <2>10, <3>1, <3>4, <4>2 DEF Steady
      <3> QED BY <2>30, <3>2, <3>3, <3>4 DEF Register
    \* The body.
    <2>31. Asked \in Answers /\ \/ NextStep = "finish" /\ Asked.op = "ready"
                                \/ NextStep = "data" /\ Asked.op = "chunk" /\ Asked.arg \in Body(rcv.plan)
      <3>1. CASE Missing = {}
        BY <3>1 DEF Asked, NextStep, Frame, Answers
      <3>2. CASE Missing # {}
        <4>1. FirstMissing \in Missing
          BY <3>2, <1>FirstIsMissing
        <4>2. PICK c \in Pairs : c = FirstMissing /\ c \in Body(rcv.plan)
          BY <4>1 DEF Missing, Body, Pairs
        <4>3. Asked = Frame("chunk", c) /\ NextStep = "data"
          BY <3>2, <4>2 DEF Asked, NextStep
        <4> QED BY <4>2, <4>3 DEF Frame, Answers
      <3> QED BY <3>1, <3>2
    <2>32. ASSUME rcv.pc # "idle", rcv' = [rcv EXCEPT !.pc = NextStep]
           PROVE  rcv'.pc = NextStep /\ rcv'.plan = rcv.plan /\ Count' = Count /\ \A n : Counted(n) => (snd' = snd => Counted(n)')
      <3>1. rcv'.pc = NextStep /\ rcv'.plan = rcv.plan /\ rcv'.verified = rcv.verified
        BY <2>1, <2>32 DEF ReceiverTypeOK, ReceiverFields
      <3> QED BY <3>1 DEF Count, Counted
    <2>33. CASE ReceiverBegins
      <3>0. PICK x \in Answers : x = Asked
        BY <2>31
      <3>1. /\ rcv.pc = "barrier" /\ ReceiverReads("accepted") /\ AnswerFrames(<<x>>) /\ snd' = snd /\ link' = link
            /\ rcv' = [rcv EXCEPT !.pc = NextStep]
        BY <2>33, <3>0 DEF ReceiverBegins
      <3>2. ASSUME snd.pc # "idle", Steady PROVE Station'
        <4>1. snd.pc = "serve" /\ One(s2r, "accepted") /\ r2s = <<>> /\ Counted(0)
          BY <2>16, <3>1, <3>2 DEF Steady, Station
        <4>2. s2r' = <<>>
          BY <2>1, <2>11, <2>16, <3>1, <4>1
        <4>3. One(r2s, x.op)' /\ r2s'[1] = x
          <5>1. r2s' = <<>> \o <<x>>
            BY <2>16, <3>1, <3>2, <4>1 DEF Steady
          <5> QED BY <2>13, <5>1 DEF One
        <4>4. rcv'.pc = NextStep /\ rcv'.plan = rcv.plan /\ Counted(0)'
          BY <2>32, <3>1, <4>1
        <4>5. NextStep = "finish" => One(r2s, "ready")'
          BY <2>31, <3>0, <4>3 DEF One
        <4>6. NextStep = "data" => One(r2s, "chunk")' /\ r2s'[1].arg \in Body(rcv.plan)
          BY <2>31, <3>0, <4>3 DEF One
        <4> QED BY <2>31, <3>1, <4>1, <4>2, <4>4, <4>5, <4>6 DEF Station, Body
      <3> QED BY <2>6, <2>10, <2>16, <3>1, <3>2 DEF Steady
    <2>34. CASE AskNext
      <3>0. PICK x \in Answers : x = Asked
        BY <2>31
      <3>1. /\ rcv.pc = "acked" /\ AnswerFrames(<<x>>) /\ UNCHANGED <<snd, s2r, link>>
            /\ rcv' = [rcv EXCEPT !.pc = NextStep]
        BY <2>34, <3>0 DEF AskNext
      <3>2. ASSUME snd.pc # "idle", Steady PROVE Station'
        <4>1. s2r = <<>> /\ Counted(0)
              /\ \/ snd.pc = "ack" /\ One(r2s, "ack") /\ r2s[1].arg.verified = Count
                 \/ snd.pc = "serve" /\ r2s = <<>>
          BY <3>1, <3>2 DEF Steady, Station
        <4>2. rcv'.pc = NextStep /\ rcv'.plan = rcv.plan /\ Counted(0)' /\ Count' = Count
          BY <2>32, <3>1, <4>1
        <4>3. r2s' = r2s \o <<x>>
          BY <2>16, <3>1, <3>2 DEF Steady
        <4>4. CASE snd.pc = "serve"
          <5>1. One(r2s, x.op)' /\ r2s'[1] = x
            BY <2>13, <4>1, <4>3, <4>4 DEF One
          <5>2. NextStep = "finish" => One(r2s, "ready")'
            BY <2>31, <3>0, <5>1 DEF One
          <5>3. NextStep = "data" => One(r2s, "chunk")' /\ r2s'[1].arg \in Body(rcv.plan)
            BY <2>31, <3>0, <5>1 DEF One
          <5> QED BY <2>31, <3>1, <4>1, <4>2, <4>4, <5>2, <5>3 DEF Station, Body
        <4>5. CASE snd.pc = "ack"
          <5>1. Two(r2s, "ack", x.op)' /\ r2s'[1] = r2s[1] /\ r2s'[2] = x
            BY <2>1, <2>15, <4>1, <4>3, <4>5 DEF Two
          <5>2. NextStep = "finish" => Two(r2s, "ack", "ready")'
            BY <2>31, <3>0, <5>1 DEF Two
          <5>3. NextStep = "data" => Two(r2s, "ack", "chunk")' /\ r2s'[2].arg \in Body(rcv.plan)
            BY <2>31, <3>0, <5>1 DEF Two
          <5>4. r2s'[1].arg.verified = Count'
            BY <4>1, <4>2, <4>5, <5>1
          <5> QED BY <2>31, <3>1, <4>1, <4>2, <4>5, <5>2, <5>3, <5>4 DEF Station, Body
        <4> QED BY <4>1, <4>4, <4>5
      <3> QED BY <2>6, <2>10, <2>16, <3>1, <3>2 DEF Steady
    <2>35. CASE WriteChunk
      <3> DEFINE c == Head(s2r).arg
      <3>1. /\ rcv.pc = "data" /\ ReceiverReads("data") /\ snd' = snd /\ link' = link
            /\ rcv' = [rcv EXCEPT !.verified = @ \cup {c}, !.pc = "acked"]
        BY <2>35 DEF WriteChunk
      <3>2. PICK V : V = rcv.verified \cup {c}
        OBVIOUS
      <3>3. rcv'.pc = "acked" /\ rcv'.plan = rcv.plan /\ rcv'.verified = V
        BY <2>1, <3>1, <3>2 DEF ReceiverTypeOK, ReceiverFields
      <3>4. AnswerFrames(<<Frame("ack", [chunk |-> c, verified |-> Cardinality(V)])>>)
        <4>1. [rcv EXCEPT !.verified = @ \cup {c}, !.pc = "acked"].verified = V
          BY <3>1, <3>3
        <4> QED BY <2>35, <4>1 DEF WriteChunk
      <3>5. Count' = Cardinality(V) /\ Count' \in Nat /\ Count \in Nat /\ Count <= Count' /\ Count' <= Count + 1
        BY <2>14, <3>1, <3>2, <3>3 DEF Count
      <3>6. ASSUME snd.pc # "idle", Steady PROVE Station'
        <4>1. snd.pc = "ack" /\ One(s2r, "data") /\ r2s = <<>> /\ Counted(1)
          BY <2>16, <3>1, <3>6 DEF Steady, Station, One, Two
        <4>2. s2r' = <<>>
          BY <2>1, <2>11, <2>16, <3>1, <4>1
        <4> HIDE DEF c
        <4>3. One(r2s, "ack")' /\ r2s'[1].arg.verified = Count'
          <5>1. r2s' = <<>> \o <<Frame("ack", [chunk |-> c, verified |-> Count'])>>
            BY <2>16, <3>4, <3>5, <3>6, <4>1 DEF Steady
          <5> QED BY <2>13, <5>1 DEF One, Frame
        <4>4. Counted(0)'
          <5>1. snd.verified \in Nat /\ snd.initial + snd.sent \in Nat
            BY <2>1 DEF SenderTypeOK
          <5> QED BY <3>1, <3>3, <3>5, <4>1, <5>1 DEF Counted
        <4> QED BY <3>1, <3>3, <4>1, <4>2, <4>3, <4>4 DEF Station
      <3> QED BY <2>6, <2>10, <2>16, <3>1, <3>4, <3>6 DEF Steady
    \* Publication and confirmation.
    <2>36. CASE ReceiverFinishes
      <3>1. rcv.pc = "finish" /\ ReceiverReads("finish") /\ UNCHANGED <<snd, r2s, link>> /\ rcv'.pc = "publish"
        BY <2>1, <2>36 DEF ReceiverFinishes, ReceiverTypeOK, ReceiverFields
      <3>2. ASSUME snd.pc # "idle", Steady PROVE Station'
        <4>1. snd.pc = "completed" /\ One(s2r, "finish") /\ r2s = <<>>
          BY <2>16, <3>1, <3>2 DEF Steady, Station
        <4>2. s2r' = <<>>
          BY <2>1, <2>11, <2>16, <3>1, <4>1
        <4> QED BY <3>1, <4>1, <4>2 DEF Station
      <3> QED BY <2>6, <2>10, <2>16, <3>1, <3>2 DEF Steady
    <2>37. ASSUME NEW e \in Entries, RenameEntry(e) \/ NameTaken(e) \/ Intend(e) \/ TakeName(e) \/ UseDirectory
                                     \/ RecordCommit
           PROVE  Conversation'
      <3>1. UNCHANGED <<snd, s2r, r2s, link>>
        BY <2>37 DEF RenameEntry, NameTaken, Intend, TakeName, UseDirectory, RecordCommit, wire
      <3>2. rcv.pc \in Placing
        BY <2>37 DEF RenameEntry, NameTaken, Intend, TakeName, UseDirectory, RecordCommit, Publishing, Taking, Placing
      <3>3. rcv'.pc \in Placing \/ (rcv'.pc = "ready" /\ rcv'.at = 1)
        <4>1. CASE RenameEntry(e) \/ NameTaken(e)
          BY <2>1, <4>1 DEF RenameEntry, NameTaken, RenamedTo, ReceiverTypeOK, ReceiverFields
        <4>2. CASE Intend(e)
          BY <2>1, <4>2 DEF Intend, Intends, ReceiverTypeOK, ReceiverFields, Placing
        <4>3. CASE TakeName(e) \/ UseDirectory
          BY <2>1, <3>2, <4>3 DEF TakeName, UseDirectory, ReceiverTypeOK, ReceiverFields, Placing
        <4>4. CASE RecordCommit
          BY <2>1, <4>4 DEF RecordCommit, Recorded, ReceiverTypeOK, ReceiverFields, Placing
        <4> QED BY <2>37, <4>1, <4>2, <4>3, <4>4
      <3> QED BY <2>28, <3>1, <3>2, <3>3
    <2>38. CASE ReceiverCompletes
      <3>1. /\ rcv.pc = "publish" /\ UNCHANGED <<snd, s2r, link>> /\ rcv'.pc = "confirm"
            /\ AnswerFrames(<<Frame("completed", Cardinality(rcv.verified))>>)
        BY <2>1, <2>38 DEF ReceiverCompletes, ReceiverTypeOK, ReceiverFields
      <3>2. ASSUME snd.pc # "idle", Steady PROVE Station'
        <4>1. snd.pc = "completed" /\ s2r = <<>> /\ r2s = <<>>
          BY <3>1, <3>2 DEF Steady, Station
        <4>2. One(r2s, "completed")'
          BY <2>13, <2>16, <3>1, <3>2, <4>1 DEF Steady, Frame, One
        <4> QED BY <3>1, <4>1, <4>2 DEF Station
      <3> QED BY <2>6, <2>10, <2>16, <3>1, <3>2 DEF Steady
    \* The receiver returns.
    <2>39. ASSUME NEW f, OpenRefused \/ RestoreRefused(f) PROVE Conversation'
      BY <2>27, <2>39 DEF OpenRefused, RestoreRefused
    <2>40. ASSUME NEW e, ReceiverConfirmed \/ ReceiverGivesUp \/ CommitFails(e) \/ ReceiverFails \/ ReceiverEnds
           PROVE  Conversation'
      <3>1. ReceiverReturns /\ snd' = snd
        BY <2>40 DEF ReceiverConfirmed, ReceiverGivesUp, CommitFails, ReceiverFails, ReceiverEnds, Fails
      <3>2. link = "none" => s2r' = <<>> /\ r2s' = <<>>
        BY <2>6, <2>16, <2>40 DEF ReceiverConfirmed, ReceiverGivesUp, CommitFails, ReceiverFails, ReceiverEnds
      <3> QED BY <2>8, <3>1, <3>2
    <2>41. CASE SourceChanges \/ CancelRow \/ CleanupStage \/ (\E s \in Slots : Touch(s)) \/ UNCHANGED trVars
      BY <2>2, <2>41 DEF SourceChanges, CancelRow, CleanupStage, Touch, wire, trVars
    <2>42. CASE SenderStep
      BY <2>17, <2>18, <2>19, <2>20, <2>21, <2>22, <2>42 DEF SenderStep
    <2>43. ASSUME ReceiverStep PROVE Conversation'
      <3>1. 0 \in Entries
        BY TransferAssumption DEF Entries
      <3> QED BY <2>24, <2>25, <2>26, <2>29, <2>30, <2>33, <2>34, <2>35, <2>36, <2>37, <2>38, <2>39, <2>40, <2>43,
            <3>1 DEF ReceiverStep
    <2> QED BY <2>3, <2>4, <2>22, <2>40, <2>41, <2>42, <2>43 DEF TransferNext
  \* Every step keeps what staging, names and the receiver's checkpoint claim.
  <1>PublicationStep. ASSUME TransferTypeOK, TransferTypeOK', PublicationIInv, [TransferNext]_trVars
                      PROVE  PublicationIInv'
    <2> USE <1>PublicationStep
    <2> DEFINE SameClaims ==
                 /\ Loaded' <=> Loaded
                 /\ disk'.saved.plan = disk.saved.plan /\ disk'.saved.committed = disk.saved.committed
                 /\ disk'.saved.intents = disk.saved.intents /\ disk'.saved.dir = disk.saved.dir
                 /\ disk'.saved.dirIntent = disk.saved.dirIntent /\ disk'.same = disk.same
               SavedIsPublished ==
                 /\ Loaded => \A f \in disk.saved.committed :
                                f \in Selection(disk.saved.plan) /\ Slot(disk.saved.plan, f) \in seen.linked
                 /\ Loaded => (disk.saved.committed \cup disk.saved.intents # {} => disk.saved.dir)
                 /\ ~Loaded => disk.saved.committed = {}
               HeldIsPublished ==
                 \A f \in rcv.committed : f \in Selection(rcv.plan) /\ Slot(rcv.plan, f) \in seen.linked
    <2>1. /\ ReceiverTypeOK /\ DiskTypeOK /\ ReceiverTypeOK' /\ DiskTypeOK'
          /\ Follows /\ NamesAreClaimed /\ ClaimsArePublished /\ NothingTakenTwice
          /\ SavedIsPublished /\ HeldIsPublished
      BY DEF TransferTypeOK, PublicationIInv, ClaimsArePublished
    <2>2. ASSUME SavedIsPublished', HeldIsPublished' PROVE ClaimsArePublished'
      BY <2>2 DEF ClaimsArePublished
    \* Steps that leave the claims alone.
    <2>3. ASSUME SameClaims, UNCHANGED target, seen'.linked = seen.linked
          PROVE  NamesAreClaimed' /\ SavedIsPublished'
      BY <2>1, <2>3 DEF NamesAreClaimed, Ours
    <2>4. ASSUME SameClaims, UNCHANGED target, seen'.linked = seen.linked, rcv' = NoReceiver
          PROVE  PublicationIInv'
      <3>1. rcv'.pc = "idle" /\ rcv'.committed = {}
        BY <2>4 DEF NoReceiver
      <3>2. Follows' /\ NothingTakenTwice' /\ HeldIsPublished'
        BY <3>1 DEF Follows, NothingTakenTwice, Following
      <3> QED BY <2>2, <2>3, <2>4, <3>2 DEF PublicationIInv
    <2>5. ASSUME UNCHANGED <<rcv, disk, target>>, seen'.linked = seen.linked
          PROVE  PublicationIInv'
      <3>1. SameClaims
        BY <2>5 DEF Loaded
      <3>2. Follows' /\ NothingTakenTwice' /\ HeldIsPublished'
        BY <2>1, <2>5 DEF Follows, NothingTakenTwice, Ours, Loaded, Restorable, SameFile, Place, Left
      <3> QED BY <2>2, <2>3, <2>5, <3>1, <3>2 DEF PublicationIInv
    \* What is held, but for the step.
    <2> DEFINE SameHeld == /\ rcv'.plan = rcv.plan /\ rcv'.committed = rcv.committed /\ rcv'.intents = rcv.intents
                           /\ rcv'.dir = rcv.dir /\ rcv'.dirIntent = rcv.dirIntent
    <2>6. ASSUME SameClaims, UNCHANGED target, seen'.linked = seen.linked, SameHeld,
                 rcv.pc \in Following \ {"record"}, rcv'.pc \in Following \ {"link", "record"}
          PROVE  PublicationIInv'
      <3>1. Follows'
        BY <2>1, <2>6 DEF Follows, Following
      <3>2. NothingTakenTwice'
        BY <2>1, <2>6 DEF NothingTakenTwice, Following, Ours
      <3>3. HeldIsPublished'
        BY <2>1, <2>6
      <3> QED BY <2>2, <2>3, <2>6, <3>1, <3>2, <3>3 DEF PublicationIInv
    \* A checkpoint of what is held changes no claim.
    <2>7. ASSUME rcv.pc \in Following, NEW st, st # "none", Saves(st, rcv)
          PROVE  SameClaims
      <3>1. PICK c : c = Checkpoint(st, rcv)
        OBVIOUS
      <3>2. disk' = [disk EXCEPT !.saved = c]
        BY <2>7, <3>1 DEF Saves
      <3>3. disk'.saved = c /\ disk'.same = disk.same
        BY <2>1, <3>2 DEF DiskTypeOK
      <3>4. /\ c.state = st /\ c.plan = rcv.plan /\ c.committed = rcv.committed /\ c.intents = rcv.intents
            /\ c.dir = rcv.dir /\ c.dirIntent = rcv.dirIntent
        BY <3>1 DEF Checkpoint
      <3> QED BY <2>1, <2>7, <3>3, <3>4 DEF Loaded, Follows
    <2> HIDE DEF SameClaims, SavedIsPublished, HeldIsPublished, SameHeld
    <2>8. ASSUME Fails, Opened, UNCHANGED target, seen'.linked = seen.linked
          PROVE  PublicationIInv'
      <3>1. rcv' = NoReceiver
        BY <2>8 DEF Fails, ReceiverReturns
      <3>2. rcv.pc \in Following \/ rcv.pc = "barrier"
        BY <2>8 DEF Opened, Following
      <3>3. SameClaims
        <4>1. CASE disk' = disk
          BY <4>1 DEF SameClaims, Loaded
        <4>2. CASE Saves("Failed", rcv)
          BY <3>2, <4>2, <2>7 DEF Following
        <4> QED BY <2>8, <4>1, <4>2 DEF Fails, Saves
      <3> QED BY <2>4, <2>8, <3>1, <3>3
    \* A checkpoint of what is held from now on.
    <2>9. ASSUME NEW st, st # "none", NEW r, Saves(st, r)
          PROVE  /\ Loaded' /\ disk'.same = disk.same
                 /\ disk'.saved.plan = r.plan /\ disk'.saved.committed = r.committed
                 /\ disk'.saved.intents = r.intents /\ disk'.saved.dir = r.dir
                 /\ disk'.saved.dirIntent = r.dirIntent
      <3>1. PICK c : c = Checkpoint(st, r)
        OBVIOUS
      <3>2. disk' = [disk EXCEPT !.saved = c]
        BY <2>9, <3>1 DEF Saves
      <3>3. disk'.saved = c /\ disk'.same = disk.same
        BY <2>1, <3>2 DEF DiskTypeOK
      <3>4. /\ c.state = st /\ c.plan = r.plan /\ c.committed = r.committed /\ c.intents = r.intents
            /\ c.dir = r.dir /\ c.dirIntent = r.dirIntent
        BY <3>1 DEF Checkpoint
      <3> QED BY <2>9, <3>3, <3>4 DEF Loaded
    <2>10. ASSUME rcv.pc \in Following
           PROVE  /\ Loaded /\ IsPlan(rcv.plan)
                  /\ disk.saved.plan = rcv.plan /\ disk.saved.committed = rcv.committed
                  /\ disk.saved.intents = rcv.intents /\ disk.saved.dir = rcv.dir
                  /\ disk.saved.dirIntent = rcv.dirIntent
      BY <2>1, <2>10 DEF Follows, DiskTypeOK
    \* The entry that is published comes after the directory.
    <2>11. ASSUME NEW e, rcv.pc \in Following, e \in Left, e = Min(Left)
           PROVE  /\ e \in Entries /\ e \in Selection(rcv.plan) /\ (e = 0 => ~rcv.dir)
                  /\ e # 0 => e \in Files /\ e \in FilesOf(rcv.plan) /\ e \notin rcv.committed /\ rcv.dir
      <3>1. Left \subseteq Selection(rcv.plan) /\ Selection(rcv.plan) \subseteq Entries /\ Entries \subseteq Nat
            /\ 0 \in Selection(rcv.plan)
        BY <2>10, <2>11 DEF IsPlan, Left, Entries
      <3>2. \A n \in Left : e <= n
        BY <2>11, <3>1, <1>MinIsLeast
      <3>3. ~rcv.dir => 0 \in Left
        BY <3>1 DEF Left
      <3>4. ASSUME e # 0, ~rcv.dir PROVE FALSE
        <4>1. e \in Nat /\ e <= 0
          BY <3>1, <3>2, <3>3, <3>4, <2>11
        <4> QED BY <3>4, <4>1
      <3>5. e \in Selection(rcv.plan) /\ (e = 0 => ~rcv.dir) /\ (e # 0 => e \notin rcv.committed)
        BY <2>11 DEF Left
      <3>6. e # 0 => e \in Files /\ e \in FilesOf(rcv.plan)
        BY <3>1, <3>5, TransferAssumption DEF FilesOf, Entries, Files
      <3> QED BY <3>1, <3>4, <3>5, <3>6
    \* Every entry has a slot of its own.
    <2>12. ASSUME NEW p, IsPlan(p), NEW x \in Selection(p)
           PROVE  Slot(p, x) \in Slots /\ Slot(p, x)[1] = x /\ (x # 0 <=> x \in FilesOf(p))
      BY <2>12, <1>SlotsOfPlans DEF FilesOf
    <2> USE DEF SavedIsPublished, HeldIsPublished
    \* The offer.
    <2>13. ASSUME UNCHANGED <<disk, target>>, seen'.linked = seen.linked, rcv'.pc \in {"offer", "open"},
                  rcv'.committed = {}, rcv'.intents = {}, ~rcv'.dir, ~rcv'.dirIntent, rcv'.verified = {}
           PROVE  PublicationIInv'
      <3>1. SameClaims
        BY <2>13 DEF SameClaims, Loaded
      <3>2. Follows' /\ NothingTakenTwice' /\ HeldIsPublished'
        BY <2>13 DEF Follows, NothingTakenTwice, Following
      <3> QED BY <2>2, <2>3, <2>13, <3>1, <3>2 DEF PublicationIInv
    <2>14. CASE Connect
      <3>1. /\ rcv'.pc = "offer" /\ rcv'.committed = {} /\ rcv'.intents = {} /\ ~rcv'.dir /\ ~rcv'.dirIntent
            /\ rcv'.verified = {}
        BY <2>14 DEF Connect, NoReceiver
      <3> QED BY <2>14, <3>1, <2>13 DEF Connect
    <2>15. ASSUME rcv.pc = "offer", NEW p, rcv' = [rcv EXCEPT !.pc = "open", !.plan = p],
                  UNCHANGED <<disk, target, seen>>
           PROVE  PublicationIInv'
      <3>1. /\ rcv.committed = {} /\ rcv.intents = {} /\ ~rcv.dir /\ ~rcv.dirIntent /\ rcv.verified = {}
        BY <2>1, <2>15 DEF Follows
      <3>2. /\ rcv'.pc = "open" /\ rcv'.committed = {} /\ rcv'.intents = {} /\ ~rcv'.dir /\ ~rcv'.dirIntent
            /\ rcv'.verified = {}
        BY <2>1, <2>15, <3>1 DEF ReceiverTypeOK, ReceiverFields
      <3> QED BY <2>15, <3>2, <2>13
    \* What is saved is restored, one file after the other.
    <2>16. CASE OpenStage
      <3>1. SameClaims
        BY <2>16, <2>1 DEF OpenStage, SameClaims, Loaded, DiskTypeOK
      <3>2. UNCHANGED <<target, seen>>
        BY <2>16 DEF OpenStage
      <3>3. rcv'.pc = "restore" /\ rcv'.at = 1
        BY <2>16, <2>1 DEF OpenStage, ReceiverTypeOK, ReceiverFields
      <3>4. CASE Loaded
        <4>1. /\ rcv'.plan = disk.saved.plan /\ rcv'.committed = disk.saved.committed
              /\ rcv'.intents = disk.saved.intents /\ rcv'.dir = disk.saved.dir
              /\ rcv'.dirIntent = disk.saved.dirIntent
          BY <2>16, <3>4, <2>1 DEF OpenStage, ReceiverTypeOK, ReceiverFields
        <4>2. Follows' /\ HeldIsPublished'
          BY <2>1, <3>1, <3>2, <3>3, <3>4, <4>1 DEF SameClaims, Follows, Following
        <4>3. \A f \in FilesOf(rcv'.plan) : ~(f < 1)
          BY <2>1, <3>4, <4>1, TransferAssumption DEF DiskTypeOK, IsPlan, FilesOf, Entries
        <4>4. NothingTakenTwice'
          BY <3>3, <4>3 DEF NothingTakenTwice, Following
        <4> QED BY <2>2, <2>3, <3>1, <3>2, <4>2, <4>4 DEF PublicationIInv
      <3>5. CASE ~Loaded
        <4>1. rcv'.plan = rcv.plan /\ rcv'.committed = {} /\ rcv'.intents = {} /\ IsPlan(rcv.plan)
          BY <2>16, <3>5, <2>1 DEF OpenStage, ReceiverTypeOK, ReceiverFields, Follows
        <4>2. Follows' /\ HeldIsPublished'
          BY <3>1, <3>3, <3>5, <4>1 DEF SameClaims, Follows, Following
        <4>3. \A f \in FilesOf(rcv'.plan) : ~(f < 1)
          BY <4>1, TransferAssumption DEF IsPlan, FilesOf, Entries
        <4>4. NothingTakenTwice'
          BY <3>3, <4>3 DEF NothingTakenTwice, Following
        <4> QED BY <2>2, <2>3, <3>1, <3>2, <4>2, <4>4 DEF PublicationIInv
      <3> QED BY <3>4, <3>5
    <2>17. ASSUME NEW f \in Files, SkipFile(f) PROVE PublicationIInv'
      <3>1. rcv.pc = "restore" /\ rcv.at = f /\ f \notin Selection(rcv.plan) /\ IsPlan(rcv.plan)
            /\ UNCHANGED <<disk, target, seen>> /\ rcv' = [rcv EXCEPT !.at = f + 1]
        BY <2>17, <2>1 DEF SkipFile, Restoring, Past, ReceiverTypeOK
      <3>2. SameHeld /\ rcv'.pc = "restore" /\ rcv'.at = f + 1
        BY <2>1, <3>1 DEF SameHeld, ReceiverTypeOK, ReceiverFields
      <3>3. SameClaims
        BY <3>1 DEF SameClaims, Loaded
      <3>4. Follows'
        BY <2>1, <3>1, <3>2, <3>3 DEF Follows, SameHeld, SameClaims, Following
      <3>5. \A g \in FilesOf(rcv.plan) : g < f + 1 => g < f
        BY <3>1, TransferAssumption DEF IsPlan, FilesOf, Entries, Files
      <3>6. NothingTakenTwice'
        BY <2>1, <3>1, <3>2, <3>5 DEF NothingTakenTwice, SameHeld, Following, Ours
      <3>7. HeldIsPublished'
        BY <2>1, <3>1, <3>2 DEF SameHeld
      <3> QED BY <2>2, <2>3, <3>1, <3>3, <3>4, <3>6, <3>7 DEF PublicationIInv
    <2>18. ASSUME NEW f \in Files, RestoreCommitted(f) PROVE PublicationIInv'
      <3>1. rcv.pc = "restore" /\ rcv.at = f /\ f \in Selection(rcv.plan) /\ IsPlan(rcv.plan)
            /\ Restorable(f) /\ UNCHANGED <<disk, target, seen>>
        BY <2>18, <2>1 DEF RestoreCommitted, Restoring, ReceiverTypeOK
      <3>2. /\ rcv'.pc = "restore" /\ rcv'.at = f + 1 /\ rcv'.plan = rcv.plan /\ rcv'.dir = rcv.dir
            /\ rcv'.dirIntent = rcv.dirIntent /\ rcv'.committed = rcv.committed \cup {f}
            /\ rcv'.intents = rcv.intents \ {f}
        BY <2>1, <2>18, <3>1 DEF RestoreCommitted, Past, ReceiverTypeOK, ReceiverFields
      <3>3. SameClaims
        BY <3>1 DEF SameClaims, Loaded
      <3>4. Loaded /\ f \in disk.saved.committed \cup disk.saved.intents
        BY <2>1, <3>1 DEF Follows, Restorable
      <3>5. Follows'
        BY <2>1, <3>1, <3>2, <3>3, <3>4 DEF Follows, SameClaims, Following
      <3>6. \A g \in FilesOf(rcv.plan) : g < f + 1 => g < f \/ g = f
        BY <3>1, TransferAssumption DEF IsPlan, FilesOf, Entries, Files
      <3>7. NothingTakenTwice'
        BY <2>1, <3>1, <3>2, <3>6 DEF NothingTakenTwice, Following, Ours
      <3>8. Slot(rcv.plan, f) \in seen.linked
        <4>1. f \in rcv.committed => Slot(rcv.plan, f) \in seen.linked
          BY <2>1
        <4>2. Ours(Slot(rcv.plan, f)) => Slot(rcv.plan, f) \in seen.linked
          BY <2>1, <2>12, <3>1 DEF NamesAreClaimed
        <4> QED BY <3>1, <4>1, <4>2 DEF Restorable, SameFile, Ours
      <3>9. HeldIsPublished'
        BY <2>1, <3>1, <3>2, <3>8
      <3> QED BY <2>2, <2>3, <3>1, <3>3, <3>5, <3>7, <3>9 DEF PublicationIInv
    <2>19. ASSUME NEW f \in Files, CopyPart(f) PROVE PublicationIInv'
      <3>1. rcv.pc = "restore" /\ rcv.at = f /\ ~Restorable(f)
            /\ UNCHANGED <<target, seen>> /\ rcv' = [rcv EXCEPT !.pc = "copied"]
            /\ disk' = [disk EXCEPT !.new = TRUE]
        BY <2>19 DEF CopyPart, Restoring
      <3>2. SameHeld /\ rcv'.pc = "copied" /\ rcv'.at = f
        BY <2>1, <3>1 DEF SameHeld, ReceiverTypeOK, ReceiverFields
      <3>3. SameClaims
        BY <2>1, <3>1 DEF SameClaims, Loaded, DiskTypeOK
      <3>4. Follows'
        BY <2>1, <3>1, <3>2, <3>3 DEF Follows, SameHeld, SameClaims, Following
      <3>5. ~Restorable(f)'
        BY <3>1, <3>2, <3>3 DEF Restorable, SameFile, SameHeld, SameClaims
      <3>6. NothingTakenTwice'
        BY <2>1, <3>1, <3>2, <3>5 DEF NothingTakenTwice, SameHeld, Following, Ours, Restorable
      <3>7. HeldIsPublished'
        BY <2>1, <3>1, <3>2 DEF SameHeld
      <3> QED BY <2>2, <2>3, <3>1, <3>3, <3>4, <3>6, <3>7 DEF PublicationIInv
    \* A staged file that is replaced was not under its name.
    <2>20. CASE ReplacePart
      <3> DEFINE f == rcv.at
      <3>1. rcv.pc = "copied" /\ f \in FilesOf(rcv.plan) /\ f \in Nat /\ IsPlan(rcv.plan) /\ ~Restorable(f)
            /\ UNCHANGED <<target, seen>> /\ disk' = ReplacedPart(f)
        BY <2>20, <2>1 DEF ReplacePart, ReceiverTypeOK, NothingTakenTwice
      <3>2. SameHeld /\ rcv'.pc = "restore" /\ rcv'.at = f + 1
        BY <2>1, <2>20 DEF ReplacePart, Past, SameHeld, ReceiverTypeOK, ReceiverFields
      <3>3. disk'.saved = disk.saved /\ disk'.same = {t \in disk.same : t[1] # f}
        BY <2>1, <3>1 DEF ReplacedPart, DiskTypeOK
      <3> HIDE DEF f
      <3>4. \A t \in Slots : Ours(t) => t[1] # f
        <4> SUFFICES ASSUME NEW t \in Slots, Ours(t), t[1] = f PROVE FALSE
          OBVIOUS
        <4>1. Loaded /\ t = Slot(disk.saved.plan, f) /\ f # 0
          BY <2>1, <3>1 DEF NamesAreClaimed, FilesOf
        <4>2. f \in disk.saved.committed \/ (f \in disk.saved.intents /\ t \in disk.same)
          BY <2>1, <4>1 DEF NamesAreClaimed
        <4>3. disk.saved.plan = rcv.plan /\ disk.saved.committed \subseteq rcv.committed
              /\ disk.saved.intents \subseteq rcv.intents \cup rcv.committed
          BY <2>1, <3>1, <4>1 DEF Follows
        <4> QED BY <3>1, <4>1, <4>2, <4>3 DEF Restorable, SameFile, Ours
      <3>5. NamesAreClaimed'
        BY <2>1, <3>1, <3>3, <3>4 DEF NamesAreClaimed, Ours, Loaded
      <3>6. SavedIsPublished' /\ HeldIsPublished'
        BY <2>1, <3>1, <3>2, <3>3 DEF SameHeld, Loaded
      <3>7. Follows'
        BY <2>1, <3>1, <3>2, <3>3 DEF Follows, SameHeld, Loaded, Following
      <3>8. \A g \in FilesOf(rcv.plan) : g \in Nat /\ (g < f + 1 => g < f \/ g = f)
        BY <3>1, TransferAssumption DEF IsPlan, FilesOf, Entries
      <3>9. \A g \in FilesOf(rcv.plan) : g < f + 1 /\ Ours(Slot(rcv.plan, g)) => g \in rcv.committed
        <4>1. \A g \in FilesOf(rcv.plan) : Slot(rcv.plan, g) \in Slots /\ Slot(rcv.plan, g)[1] = g
          BY <2>12, <3>1 DEF FilesOf
        <4>2. \A g \in FilesOf(rcv.plan) : g < f /\ Ours(Slot(rcv.plan, g)) => g \in rcv.committed
          BY <2>1, <3>1 DEF NothingTakenTwice, f
        <4> QED BY <3>4, <3>8, <4>1, <4>2
      <3>10. NothingTakenTwice'
        BY <3>1, <3>2, <3>9 DEF NothingTakenTwice, SameHeld, Following, Ours
      <3> QED BY <2>2, <3>5, <3>6, <3>7, <3>10 DEF PublicationIInv
    <2>21. CASE OpenDone
      <3>1. rcv.pc = "restore" /\ rcv.at \in Nat /\ rcv.at > NFiles /\ IsPlan(rcv.plan)
            /\ UNCHANGED <<target, seen>> /\ Saves("Transferring", rcv)
        BY <2>21, <2>1 DEF OpenDone, ReceiverTypeOK
      <3>2. SameHeld /\ rcv'.pc = "ready"
        BY <2>1, <2>21, <3>1 DEF OpenDone, SameHeld, ReceiverTypeOK, ReceiverFields
      <3>3. /\ Loaded' /\ disk'.same = disk.same
            /\ disk'.saved.plan = rcv.plan /\ disk'.saved.committed = rcv.committed
            /\ disk'.saved.intents = rcv.intents /\ disk'.saved.dir = rcv.dir
            /\ disk'.saved.dirIntent = rcv.dirIntent
        BY <3>1, <2>9
      <3>4. \A f \in FilesOf(rcv.plan) : Ours(Slot(rcv.plan, f)) => f \in rcv.committed
        <4>1. \A f \in FilesOf(rcv.plan) : f < rcv.at
          BY <3>1, TransferAssumption DEF IsPlan, FilesOf, Entries
        <4> QED BY <2>1, <3>1, <4>1 DEF NothingTakenTwice
      <3>5. ~Loaded => \A t \in Slots : ~Ours(t)
        BY <2>1 DEF NamesAreClaimed
      <3>6. Loaded => disk.saved.plan = rcv.plan /\ disk.saved.dir = rcv.dir /\ disk.saved.dirIntent = rcv.dirIntent
                      /\ rcv.committed \subseteq disk.saved.committed \cup disk.saved.intents
                      /\ rcv.intents \subseteq disk.saved.intents
        BY <2>1, <3>1 DEF Follows
      <3>7. ~Loaded => rcv.committed = {} /\ rcv.intents = {}
        BY <2>1, <3>1 DEF Follows
      <3>8. NamesAreClaimed'
        <4>1. ASSUME NEW t \in Slots, Ours(t)
              PROVE  /\ t \in seen.linked /\ t[1] \in Selection(rcv.plan) /\ t = Slot(rcv.plan, t[1])
                     /\ IF t[1] = 0 THEN rcv.dir \/ rcv.dirIntent ELSE rcv.dir /\ t[1] \in rcv.committed
          <5>1. Loaded
            BY <3>5, <4>1
          <5>2. t \in seen.linked /\ t[1] \in Selection(rcv.plan) /\ t = Slot(rcv.plan, t[1])
            BY <2>1, <3>6, <4>1, <5>1 DEF NamesAreClaimed
          <5>3. IF t[1] = 0 THEN rcv.dir \/ rcv.dirIntent ELSE rcv.dir
            BY <2>1, <3>6, <4>1, <5>1 DEF NamesAreClaimed
          <5>4. t[1] # 0 => t[1] \in rcv.committed
            BY <3>4, <4>1, <5>2 DEF FilesOf
          <5> QED BY <5>2, <5>3, <5>4
        <4>2. target' = target /\ seen' = seen
          BY <3>1
        <4> QED BY <3>3, <4>1, <4>2 DEF NamesAreClaimed, Ours
      <3>9. SavedIsPublished' /\ HeldIsPublished'
        BY <2>1, <3>1, <3>2, <3>3, <3>6, <3>7 DEF SameHeld
      <3>10. Follows'
        BY <3>2, <3>3 DEF Follows, SameHeld, Following
      <3>11. NothingTakenTwice'
        BY <3>1, <3>2, <3>4 DEF NothingTakenTwice, SameHeld, Following, Ours
      <3> QED BY <2>2, <3>8, <3>9, <3>10, <3>11 DEF PublicationIInv
    \* What follows the opening, up to the publication and after it.
    <2>22. CASE PlanReady \/ Register \/ ReceiverBegins \/ WriteChunk \/ AskNext \/ ReceiverFinishes
                \/ ReceiverCompletes
      <3>1. rcv.pc \in Following \ {"link", "record"} /\ UNCHANGED <<target, seen>>
        BY <2>22 DEF PlanReady, Register, ReceiverBegins, WriteChunk, AskNext, ReceiverFinishes,
           ReceiverCompletes, Following, wire
      <3>2. SameClaims
        <4>1. CASE UNCHANGED disk
          BY <4>1 DEF SameClaims, Loaded
        <4>2. ASSUME NEW st \in {"Verifying", "Completed"}, Saves(st, rcv) PROVE SameClaims
          BY <3>1, <4>2, <2>7
        <4>3. CASE WriteChunk
          <5>1. PICK c : c = Head(s2r).arg
            OBVIOUS
          <5>2. PICK d : d = [disk EXCEPT !.part[c[1]] = @ \cup {c[2]}]
            OBVIOUS
          <5>3. disk' = d \/ disk' = [d EXCEPT !.saved = Checkpoint("Transferring", rcv)]
            BY <4>3, <5>1, <5>2 DEF WriteChunk
          <5>4. DOMAIN d = DOMAIN disk /\ d.saved = disk.saved /\ d.same = disk.same
            BY <5>2, <2>1 DEF DiskTypeOK
          <5>5. CASE disk' = d
            BY <5>4, <5>5 DEF SameClaims, Loaded
          <5>6. CASE disk' = [d EXCEPT !.saved = Checkpoint("Transferring", rcv)]
            <6>1. PICK k : k = Checkpoint("Transferring", rcv)
              OBVIOUS
            <6>2. disk'.saved = k /\ disk'.same = disk.same
              BY <2>1, <5>4, <5>6, <6>1 DEF DiskTypeOK
            <6>3. /\ k.state = "Transferring" /\ k.plan = rcv.plan /\ k.committed = rcv.committed
                  /\ k.intents = rcv.intents /\ k.dir = rcv.dir /\ k.dirIntent = rcv.dirIntent
              BY <6>1 DEF Checkpoint
            <6> QED BY <3>1, <6>2, <6>3, <2>10 DEF SameClaims, Loaded
          <5> QED BY <5>3, <5>5, <5>6
        <4> QED BY <2>22, <4>1, <4>2, <4>3 DEF PlanReady, Register, ReceiverBegins, AskNext, ReceiverFinishes,
              ReceiverCompletes
      <3>3. CASE rcv' = NoReceiver
        BY <2>4, <3>1, <3>2, <3>3
      <3>4. ASSUME NEW st, rcv' = [rcv EXCEPT !.pc = st] PROVE SameHeld /\ rcv'.pc = st
        BY <2>1, <3>4 DEF SameHeld, ReceiverTypeOK, ReceiverFields
      <3>5. rcv' = NoReceiver \/ (SameHeld /\ rcv'.pc \in Following \ {"link", "record"})
        <4>1. CASE PlanReady \/ ReceiverBegins \/ AskNext \/ ReceiverFinishes \/ ReceiverCompletes
          BY <3>4, <4>1 DEF PlanReady, ReceiverBegins, AskNext, ReceiverFinishes, ReceiverCompletes, NextStep,
             Following
        <4>2. CASE Register
          <5>1. CASE rcv' = [rcv EXCEPT !.pc = "publish", !.at = 0]
            BY <2>1, <5>1 DEF SameHeld, ReceiverTypeOK, ReceiverFields, Following
          <5>2. rcv.pc = "register"
            BY <4>2 DEF Register
          <5> QED BY <4>2, <5>1, <3>4 DEF Register, ReceiverRefuses, ReceiverReturns, Following
        <4>3. CASE WriteChunk
          <5>1. PICK c : rcv' = [rcv EXCEPT !.verified = @ \cup {c}, !.pc = "acked"]
            BY <4>3 DEF WriteChunk
          <5> QED BY <2>1, <5>1 DEF SameHeld, ReceiverTypeOK, ReceiverFields, Following
        <4> QED BY <2>22, <4>1, <4>2, <4>3
      <3> QED BY <2>6, <3>1, <3>2, <3>3, <3>5
    \* Another name: the one that is given up is not ours, nor is the new one.
    <2>23. ASSUME NEW e \in Entries, RenameEntry(e) \/ NameTaken(e) PROVE PublicationIInv'
      <3>1. /\ rcv.pc \in Following \ {"record"} /\ e \in Left /\ e = Min(Left) /\ Renamed(e) # {}
            /\ UNCHANGED <<target, seen>> /\ rcv' = RenamedTo(e, Min(Renamed(e))) /\ Saves("Verifying", rcv')
        BY <2>23, <2>1 DEF RenameEntry, NameTaken, Publishing, Taking, Following, ReceiverTypeOK
      <3>2. /\ e \in Selection(rcv.plan) /\ (e = 0 => ~rcv.dir)
            /\ e # 0 => e \in Files /\ e \in FilesOf(rcv.plan) /\ e \notin rcv.committed /\ rcv.dir
        BY <2>11, <3>1
      <3>3. /\ Loaded /\ IsPlan(rcv.plan)
            /\ disk.saved.plan = rcv.plan /\ disk.saved.committed = rcv.committed
            /\ disk.saved.intents = rcv.intents /\ disk.saved.dir = rcv.dir
            /\ disk.saved.dirIntent = rcv.dirIntent
        BY <2>10, <3>1
      <3>4. Min(Renamed(e)) \in Numbers /\ Free(<<e, Place(e)[2], Min(Renamed(e))>>)
        <4>1. Renamed(e) \subseteq Numbers /\ Numbers \subseteq Nat
          BY TransferAssumption DEF Renamed, Available, Numbers
        <4>2. Min(Renamed(e)) \in Renamed(e)
          BY <3>1, <4>1, <1>MinIsLeast
        <4> QED BY <4>1, <4>2 DEF Renamed, Available
      <3>5. PICK n, r : n \in Numbers /\ n = Min(Renamed(e)) /\ r = RenamedTo(e, n) /\ rcv' = r
        BY <3>1, <3>4
      <3>6. /\ r.pc = "ready" /\ r.committed = rcv.committed /\ r.dir = rcv.dir
            /\ r.intents = rcv.intents \ {e} /\ r.dirIntent \in BOOLEAN /\ (r.dirIntent <=> e # 0 /\ rcv.dirIntent)
            /\ IsPlan(r.plan) /\ Renaming(rcv.plan, r.plan, e, n)
        BY <2>1, <3>2, <3>3, <3>5, <1>RenamedPlan
      <3>7. /\ Loaded' /\ disk'.same = disk.same
            /\ disk'.saved.plan = r.plan /\ disk'.saved.committed = r.committed
            /\ disk'.saved.intents = r.intents /\ disk'.saved.dir = r.dir
            /\ disk'.saved.dirIntent = r.dirIntent
        BY <3>1, <3>5, <2>9
      \* The entry has no name that is ours.
      <3>8. \A t \in Slots : Ours(t) => e # 0 /\ t[1] # e
        <4> SUFFICES ASSUME NEW t \in Slots, Ours(t) PROVE e # 0 /\ t[1] # e
          OBVIOUS
        <4>1. t = Slot(rcv.plan, t[1]) /\ t[1] \in Selection(rcv.plan)
              /\ IF t[1] = 0 THEN rcv.dir \/ rcv.dirIntent ELSE rcv.dir
          BY <2>1, <3>3 DEF NamesAreClaimed
        <4>2. CASE e # 0
          <5>1. Ours(Slot(rcv.plan, e)) => e \in rcv.committed
            BY <2>1, <3>1, <3>2, <4>2 DEF NothingTakenTwice
          <5> QED BY <3>2, <4>1, <4>2, <5>1
        <4>3. CASE e = 0
          <5>1. t = Place(0) /\ rcv.dirIntent
            BY <3>2, <4>1, <4>3 DEF Place
          <5>2. CASE RenameEntry(e)
            BY <4>3, <5>1, <5>2 DEF RenameEntry
          <5>3. CASE NameTaken(e)
            BY <2>1, <3>1, <4>1, <4>3, <5>1, <5>3 DEF NameTaken, Taking, NothingTakenTwice
          <5> QED BY <2>23, <5>2, <5>3
        <4> QED BY <4>2, <4>3
      \* The others keep theirs.
      <3>9. \A x \in Selection(rcv.plan) : e # 0 /\ x # e => Slot(r.plan, x) = Slot(rcv.plan, x)
        BY <3>6 DEF Renaming, Slot, IsPlan, Selection
      <3>10. Selection(r.plan) = Selection(rcv.plan) /\ FilesOf(r.plan) = FilesOf(rcv.plan)
        BY <3>6 DEF Renaming, FilesOf
      <3>11. e # 0 => ~Ours(Slot(r.plan, e))
        <4>1. e # 0 => Slot(r.plan, e) = <<e, Place(e)[2], n>>
          BY <3>2, <3>3, <3>6 DEF Renaming, Slot, Place, IsPlan, Selection
        <4> QED BY <3>4, <3>5, <4>1 DEF Free, Ours
      <3>12. NamesAreClaimed'
        <4>1. ASSUME NEW t \in Slots, Ours(t)
              PROVE  /\ t \in seen.linked /\ t[1] \in Selection(r.plan) /\ t = Slot(r.plan, t[1])
                     /\ IF t[1] = 0 THEN r.dir \/ r.dirIntent
                        ELSE r.dir /\ (t[1] \in r.committed \/ (t[1] \in r.intents /\ t \in disk.same))
          <5>1. /\ t \in seen.linked /\ t[1] \in Selection(rcv.plan) /\ t = Slot(rcv.plan, t[1])
                /\ IF t[1] = 0 THEN rcv.dir \/ rcv.dirIntent
                   ELSE rcv.dir /\ (t[1] \in rcv.committed \/ (t[1] \in rcv.intents /\ t \in disk.same))
            BY <2>1, <3>3, <4>1 DEF NamesAreClaimed
          <5>2. e # 0 /\ t[1] # e
            BY <3>8, <4>1
          <5>3. t = Slot(r.plan, t[1]) /\ t[1] \in Selection(r.plan)
            BY <3>9, <3>10, <5>1, <5>2
          <5>4. r.dirIntent <=> rcv.dirIntent
            BY <3>6, <5>2
          <5> QED BY <3>6, <5>1, <5>2, <5>3, <5>4
        <4>2. target' = target /\ seen' = seen
          BY <3>1
        <4> QED BY <3>7, <4>1, <4>2 DEF NamesAreClaimed, Ours
      <3>13. \A f \in rcv.committed : f \in Selection(r.plan) /\ Slot(r.plan, f) \in seen.linked
        <4>1. e = 0 => rcv.committed = {}
          BY <2>1, <3>2, <3>3
        <4>2. e # 0 => e \notin rcv.committed
          BY <3>2
        <4> QED BY <2>1, <3>9, <3>10, <4>1, <4>2
      <3>14. rcv.committed \cup (rcv.intents \ {e}) # {} => rcv.dir
        BY <2>1, <3>3
      <3>15. SavedIsPublished' /\ HeldIsPublished'
        <4>1. target' = target /\ seen' = seen /\ rcv' = r
          BY <3>1, <3>5
        <4> QED BY <3>6, <3>7, <3>13, <3>14, <4>1
      <3>16. Follows'
        BY <3>5, <3>6, <3>7 DEF Follows, Following
      <3>17. NothingTakenTwice'
        <4>1. \A f \in FilesOf(r.plan) : Ours(Slot(r.plan, f)) => f \in r.committed
          <5> SUFFICES ASSUME NEW f \in FilesOf(r.plan), Ours(Slot(r.plan, f)) PROVE f \in r.committed
            OBVIOUS
          <5>1. Slot(r.plan, f) \in Slots /\ Slot(r.plan, f)[1] = f /\ f \in Selection(rcv.plan)
            BY <3>6, <3>10, <2>12 DEF FilesOf
          <5>2. e # 0 /\ f # e
            BY <3>8, <5>1
          <5>3. Ours(Slot(rcv.plan, f))
            BY <3>9, <5>1, <5>2
          <5> QED BY <2>1, <3>1, <3>6, <3>10, <5>3 DEF NothingTakenTwice
        <4>2. target' = target /\ rcv' = r
          BY <3>1, <3>5
        <4> QED BY <3>6, <4>1, <4>2 DEF NothingTakenTwice, Following, Ours
      <3> QED BY <2>2, <3>12, <3>15, <3>16, <3>17 DEF PublicationIInv
    <2>24. ASSUME NEW e \in Entries, Intend(e) PROVE PublicationIInv'
      <3>1. /\ rcv.pc = "publish" /\ e \in Left /\ e = Min(Left) /\ Free(Place(e))
            /\ UNCHANGED <<target, seen>> /\ rcv' = Intends(e) /\ Saves("Verifying", rcv')
        BY <2>24 DEF Intend, Publishing
      <3>2. /\ e \in Selection(rcv.plan) /\ (e = 0 => ~rcv.dir)
            /\ e # 0 => e \in Files /\ e \in FilesOf(rcv.plan) /\ e \notin rcv.committed /\ rcv.dir
        BY <2>11, <3>1 DEF Following
      <3>3. /\ Loaded /\ IsPlan(rcv.plan)
            /\ disk.saved.plan = rcv.plan /\ disk.saved.committed = rcv.committed
            /\ disk.saved.intents = rcv.intents /\ disk.saved.dir = rcv.dir
            /\ disk.saved.dirIntent = rcv.dirIntent
        BY <2>10, <3>1 DEF Following
      <3>4. /\ rcv'.pc = "link" /\ rcv'.plan = rcv.plan /\ rcv'.committed = rcv.committed /\ rcv'.dir = rcv.dir
            /\ rcv.intents \subseteq rcv'.intents /\ rcv'.intents \subseteq rcv.intents \cup {e}
            /\ rcv.dirIntent => rcv'.dirIntent
            /\ IF e = 0 THEN rcv'.dirIntent /\ rcv'.intents = rcv.intents ELSE e \in rcv'.intents
        BY <2>1, <3>1 DEF Intends, ReceiverTypeOK, ReceiverFields
      <3>5. /\ Loaded' /\ disk'.same = disk.same
            /\ disk'.saved.plan = rcv'.plan /\ disk'.saved.committed = rcv'.committed
            /\ disk'.saved.intents = rcv'.intents /\ disk'.saved.dir = rcv'.dir
            /\ disk'.saved.dirIntent = rcv'.dirIntent
        BY <3>1, <2>9
      <3>6. NamesAreClaimed'
        BY <2>1, <3>1, <3>3, <3>4, <3>5 DEF NamesAreClaimed, Ours
      <3>7. SavedIsPublished' /\ HeldIsPublished'
        BY <2>1, <3>1, <3>2, <3>3, <3>4, <3>5
      <3>8. Follows'
        BY <3>4, <3>5 DEF Follows, Following
      <3>9. Left' = Left
        BY <3>4 DEF Left
      <3>10. e = Min(Left)' /\ ~Ours(Place(e))' /\ (e # 0 => rcv'.dir)
        BY <3>1, <3>2, <3>4, <3>9 DEF Free, Ours, Place
      <3>11. NothingTakenTwice'
        <4>1. \A f \in FilesOf(rcv'.plan) : Ours(Slot(rcv.plan, f))' => f \in rcv'.committed
          BY <2>1, <3>1, <3>4 DEF NothingTakenTwice, Following, Ours
        <4> HIDE DEF Left
        <4> QED BY <3>4, <3>10, <4>1 DEF NothingTakenTwice, Following
      <3> QED BY <2>2, <3>6, <3>7, <3>8, <3>11 DEF PublicationIInv
    \* The name is taken on the strength of the saved intention.
    <2>25. ASSUME NEW e \in Entries, TakeName(e) PROVE PublicationIInv'
      <3>1. /\ rcv.pc = "link" /\ e = Min(Left) /\ e \in Left /\ Place(e) = Slot(rcv.plan, e)
            /\ target' = [target EXCEPT ![Place(e)] = "ours"]
            /\ disk' = [disk EXCEPT !.same = @ \cup {Place(e)}]
            /\ seen' = [seen EXCEPT !.linked = @ \cup {Place(e)}] /\ rcv' = [rcv EXCEPT !.pc = "record"]
        BY <2>25, <2>1 DEF TakeName, Taking, ReceiverTypeOK, Place
      <3>2. /\ e \in Selection(rcv.plan) /\ (e = 0 => ~rcv.dir)
            /\ e # 0 => e \in Files /\ e \in FilesOf(rcv.plan) /\ e \notin rcv.committed /\ rcv.dir
        BY <2>11, <3>1 DEF Following
      <3>3. /\ Loaded /\ IsPlan(rcv.plan)
            /\ disk.saved.plan = rcv.plan /\ disk.saved.committed = rcv.committed
            /\ disk.saved.intents = rcv.intents /\ disk.saved.dir = rcv.dir
            /\ disk.saved.dirIntent = rcv.dirIntent
        BY <2>10, <3>1 DEF Following
      <3>4. SameHeld /\ rcv'.pc = "record"
        BY <2>1, <3>1 DEF SameHeld, ReceiverTypeOK, ReceiverFields
      <3>5. disk'.saved = disk.saved /\ disk'.same = disk.same \cup {Place(e)}
        BY <2>1, <3>1 DEF DiskTypeOK
      <3>6. seen'.linked = seen.linked \cup {Place(e)}
        BY <3>1 DEF TransferTypeOK, WireTypeOK
      <3>7. Place(e) \in Slots /\ Place(e)[1] = e
        BY <2>12, <3>1, <3>2, <3>3
      <3>8. \A t \in Slots : Ours(t)' <=> Ours(t) \/ t = Place(e)
        BY <2>1, <3>1, <3>7 DEF Ours, DiskTypeOK
      <3>9. IF e = 0 THEN rcv.dirIntent ELSE e \in rcv.intents
        BY <2>1, <3>1 DEF NothingTakenTwice
      <3>10. NamesAreClaimed'
        <4>1. ASSUME NEW t \in Slots, Ours(t)'
              PROVE  /\ t \in seen'.linked /\ t[1] \in Selection(rcv.plan) /\ t = Slot(rcv.plan, t[1])
                     /\ IF t[1] = 0 THEN rcv.dir \/ rcv.dirIntent
                        ELSE rcv.dir /\ (t[1] \in rcv.committed \/ (t[1] \in rcv.intents /\ t \in disk'.same))
          <5>1. CASE t = Place(e)
            BY <3>1, <3>2, <3>5, <3>6, <3>7, <3>9, <5>1
          <5>2. CASE Ours(t)
            BY <2>1, <3>3, <3>5, <3>6, <5>2 DEF NamesAreClaimed
          <5> QED BY <3>8, <4>1, <5>1, <5>2
        <4> QED BY <3>3, <3>5, <4>1 DEF NamesAreClaimed, Loaded
      <3>11. SavedIsPublished' /\ HeldIsPublished'
        BY <2>1, <3>4, <3>5, <3>6 DEF SameHeld, Loaded
      <3>12. Follows'
        BY <3>3, <3>4, <3>5 DEF Follows, SameHeld, Loaded, Following
      <3>13. Left' = Left
        BY <3>4 DEF SameHeld, Left
      <3>14. Place(e)' = Place(e)
        BY <3>4 DEF SameHeld, Place
      <3>15. \A f \in FilesOf(rcv.plan) : Ours(Slot(rcv.plan, f))' => f \in rcv.committed \/ f = e
        <4> SUFFICES ASSUME NEW f \in FilesOf(rcv.plan), Ours(Slot(rcv.plan, f))', f # e
                     PROVE  f \in rcv.committed
          OBVIOUS
        <4>1. PICK t \in Slots : t = Slot(rcv.plan, f) /\ t[1] = f
          BY <3>3, <2>12 DEF FilesOf
        <4>2. Slot(rcv.plan, f)' = t
          BY <3>4, <4>1 DEF SameHeld, Slot
        <4>3. Ours(t)' /\ t # Place(e)
          BY <3>7, <4>1, <4>2 DEF Ours
        <4>4. Ours(Slot(rcv.plan, f))
          BY <3>8, <4>1, <4>3
        <4> QED BY <2>1, <3>1, <4>4 DEF NothingTakenTwice, Following
      <3>16. NothingTakenTwice'
        <4>1. e = Min(Left)' /\ Place(Min(Left))' = Place(e)
          BY <3>1, <3>13, <3>14
        <4>2. FilesOf(rcv.plan)' = FilesOf(rcv.plan) /\ rcv'.committed = rcv.committed
              /\ rcv'.dirIntent = rcv.dirIntent /\ rcv'.dir = rcv.dir /\ rcv'.intents = rcv.intents
          BY <3>4 DEF SameHeld
        <4> HIDE DEF Left, Place
        <4> QED BY <3>2, <3>4, <3>5, <3>6, <3>9, <3>15, <4>1, <4>2 DEF NothingTakenTwice, Following
      <3> QED BY <2>2, <3>10, <3>11, <3>12, <3>16 DEF PublicationIInv
    \* The claim is recorded.
    <2>26. CASE UseDirectory \/ RecordCommit
      <3> DEFINE e == Min(Left)
      <3>1. /\ rcv.pc \in {"publish", "record"} /\ e \in Left /\ rcv'.pc = "publish"
            /\ UNCHANGED <<target, seen>> /\ Saves("Verifying", rcv')
            /\ rcv'.plan = rcv.plan /\ (rcv.dir => rcv'.dir)
            /\ \/ /\ e = 0 /\ rcv'.dir /\ rcv'.committed = rcv.committed /\ rcv'.intents = rcv.intents
               \/ /\ rcv.pc = "record" /\ e # 0 /\ rcv'.committed = rcv.committed \cup {e}
                  /\ rcv'.intents = rcv.intents \ {e} /\ rcv'.dir = rcv.dir /\ rcv'.dirIntent = rcv.dirIntent
            /\ rcv.pc = "publish" => e = 0
        <4>1. CASE UseDirectory
          BY <2>1, <4>1 DEF UseDirectory, Publishing, ReceiverTypeOK, ReceiverFields
        <4>2. CASE RecordCommit
          BY <2>1, <4>2 DEF RecordCommit, Recorded, ReceiverTypeOK, ReceiverFields
        <4> QED BY <2>26, <4>1, <4>2
      <3>2. /\ e \in Selection(rcv.plan)
            /\ e # 0 => e \in Files /\ e \in FilesOf(rcv.plan) /\ e \notin rcv.committed /\ rcv.dir
        BY <2>11, <3>1 DEF Following
      <3>3. /\ Loaded /\ IsPlan(rcv.plan)
            /\ disk.saved.plan = rcv.plan /\ disk.saved.committed = rcv.committed
            /\ disk.saved.intents = rcv.intents /\ disk.saved.dir = rcv.dir
            /\ disk.saved.dirIntent = rcv.dirIntent
        BY <2>10, <3>1 DEF Following
      <3>4. /\ Loaded' /\ disk'.same = disk.same
            /\ disk'.saved.plan = rcv'.plan /\ disk'.saved.committed = rcv'.committed
            /\ disk'.saved.intents = rcv'.intents /\ disk'.saved.dir = rcv'.dir
            /\ disk'.saved.dirIntent = rcv'.dirIntent
        BY <3>1, <2>9
      <3>5. rcv.pc = "record" => Slot(rcv.plan, e) \in seen.linked
        BY <2>1 DEF NothingTakenTwice, Place
      <3> HIDE DEF e
      <3>6. NamesAreClaimed'
        <4>1. ASSUME NEW t \in Slots, Ours(t)
              PROVE  /\ t \in seen.linked /\ t[1] \in Selection(rcv.plan) /\ t = Slot(rcv.plan, t[1])
                     /\ IF t[1] = 0 THEN rcv'.dir \/ rcv'.dirIntent
                        ELSE rcv'.dir /\ (t[1] \in rcv'.committed \/ (t[1] \in rcv'.intents /\ t \in disk.same))
          <5>1. /\ t \in seen.linked /\ t[1] \in Selection(rcv.plan) /\ t = Slot(rcv.plan, t[1])
                /\ IF t[1] = 0 THEN rcv.dir \/ rcv.dirIntent
                   ELSE rcv.dir /\ (t[1] \in rcv.committed \/ (t[1] \in rcv.intents /\ t \in disk.same))
            BY <2>1, <3>3, <4>1 DEF NamesAreClaimed
          <5> QED BY <3>1, <3>2, <5>1
        <4>2. target' = target /\ seen' = seen
          BY <3>1
        <4> QED BY <3>1, <3>4, <4>1, <4>2 DEF NamesAreClaimed, Ours
      <3>7. \A f \in rcv'.committed : f \in Selection(rcv.plan) /\ Slot(rcv.plan, f) \in seen.linked
        BY <2>1, <3>1, <3>2, <3>5
      <3>8. SavedIsPublished' /\ HeldIsPublished'
        <4>1. rcv'.committed \cup rcv'.intents # {} => rcv'.dir
          BY <2>1, <3>1, <3>2, <3>3
        <4> QED BY <3>1, <3>4, <3>7, <4>1
      <3>9. Follows'
        BY <3>1, <3>4 DEF Follows, Following
      <3>10. NothingTakenTwice'
        <4>1. \A f \in FilesOf(rcv.plan) : Ours(Slot(rcv.plan, f)) => f \in rcv'.committed
          <5>1. \A f \in FilesOf(rcv.plan) : Ours(Slot(rcv.plan, f)) => f \in rcv.committed \/ (f = e /\ rcv.pc = "record")
            BY <2>1, <3>1 DEF NothingTakenTwice, Following, e
          <5>2. \A f \in FilesOf(rcv.plan) : f # 0
            BY DEF FilesOf
          <5> QED BY <3>1, <5>1, <5>2
        <4>2. target' = target
          BY <3>1
        <4> QED BY <3>1, <4>1, <4>2 DEF NothingTakenTwice, Following, Ours
      <3> QED BY <2>2, <3>6, <3>8, <3>9, <3>10 DEF PublicationIInv
    \* Others.
    <2>27. ASSUME NEW s \in Slots, Touch(s) PROVE PublicationIInv'
      <3>1. UNCHANGED <<rcv, disk, seen>> /\ \A t \in Slots : Ours(t)' => Ours(t)
        BY <2>27, <2>1 DEF Touch, Ours, DiskTypeOK
      <3>2. NamesAreClaimed'
        BY <2>1, <3>1 DEF NamesAreClaimed, Loaded
      <3>3. SavedIsPublished' /\ HeldIsPublished'
        BY <2>1, <3>1 DEF Loaded
      <3>4. Follows'
        BY <2>1, <3>1 DEF Follows, Loaded
      <3>5. rcv.pc \notin {"idle", "offer"} =>
              /\ \A f \in FilesOf(rcv.plan) : Slot(rcv.plan, f) \in Slots
              /\ rcv.pc \in {"link", "record"} => Place(Min(Left)) \in Slots
              /\ rcv.pc = "copied" => Slot(rcv.plan, rcv.at) \in Slots
        BY <2>1, <2>12 DEF ReceiverTypeOK, FilesOf, Place, Left
      <3>6. NothingTakenTwice'
        <4>1. \A f \in FilesOf(rcv.plan) : rcv.pc \notin {"idle", "offer"} =>
                (Ours(Slot(rcv.plan, f))' => Ours(Slot(rcv.plan, f)))
          <5> SUFFICES ASSUME NEW f \in FilesOf(rcv.plan), rcv.pc \notin {"idle", "offer"},
                              Ours(Slot(rcv.plan, f))'
                       PROVE  Ours(Slot(rcv.plan, f))
            OBVIOUS
          <5>1. PICK t \in Slots : t = Slot(rcv.plan, f)
            BY <3>5
          <5>2. Slot(rcv.plan, f)' = t
            BY <3>1, <5>1 DEF Slot
          <5> QED BY <3>1, <5>1, <5>2 DEF Ours
        <4>2. rcv.pc = "copied" => ~Restorable(rcv.at)'
          <5> SUFFICES ASSUME rcv.pc = "copied" PROVE ~Restorable(rcv.at)'
            OBVIOUS
          <5>1. PICK t \in Slots : t = Slot(rcv.plan, rcv.at)
            BY <3>5
          <5>2. Slot(rcv.plan, rcv.at)' = t
            BY <3>1, <5>1 DEF Slot
          <5>3. ~Restorable(rcv.at)
            BY <2>1 DEF NothingTakenTwice
          <5>4. Ours(t)' => Ours(t)
            BY <3>1
          <5> QED BY <3>1, <5>1, <5>2, <5>3, <5>4 DEF Restorable, SameFile, Ours
        <4>3. rcv.pc \in {"link", "record"} => (Ours(Place(Min(Left)))' => Ours(Place(Min(Left))))
          <5> SUFFICES ASSUME rcv.pc \in {"link", "record"}, Ours(Place(Min(Left)))'
                       PROVE  Ours(Place(Min(Left)))
            OBVIOUS
          <5>1. PICK t \in Slots : t = Place(Min(Left))
            BY <3>5
          <5>2. Place(Min(Left))' = t
            BY <3>1, <5>1 DEF Place, Left
          <5> QED BY <3>1, <5>1, <5>2 DEF Ours
        <4>4. Place(Min(Left))' = Place(Min(Left)) /\ Min(Left)' = Min(Left)
          BY <3>1 DEF Place, Left
        <4> HIDE DEF Ours, Place, Left, Restorable
        <4> QED BY <2>1, <3>1, <4>1, <4>2, <4>3, <4>4 DEF NothingTakenTwice, Following
      <3> QED BY <2>2, <3>2, <3>3, <3>4, <3>6 DEF PublicationIInv
    <2>28. CASE CleanupStage
      <3>1. rcv.pc = "idle" /\ rcv' = rcv /\ target' = target /\ seen.linked = {} /\ disk'.saved = NoState
        BY <2>28 DEF CleanupStage
      <3>2. \A t \in Slots : ~Ours(t)
        BY <2>1, <3>1 DEF NamesAreClaimed
      <3>3. NamesAreClaimed' /\ SavedIsPublished'
        BY <3>1, <3>2 DEF NamesAreClaimed, Ours, Loaded, NoState
      <3>4. HeldIsPublished'
        <4>1. rcv.committed = {}
          BY <2>1, <3>1
        <4> QED BY <3>1, <4>1
      <3>5. Follows' /\ NothingTakenTwice'
        BY <3>1 DEF Follows, NothingTakenTwice, Following
      <3> QED BY <2>2, <3>3, <3>4, <3>5 DEF PublicationIInv
    <2>29. CASE SenderStep \/ SenderStops \/ StreamBreaks \/ SourceChanges \/ CancelRow \/ UNCHANGED trVars
      <3>1. UNCHANGED <<rcv, disk, target>>
        BY <2>29 DEF SenderStep, SenderAccepts, SenderRefuses, SenderServes, SenderAcked, SenderFinishes,
           SenderConfirms, SenderCompletes, SenderGivesUp, SenderStops, StreamBreaks, SourceChanges, CancelRow, trVars
      <3>2. seen' = seen \/ \E S : seen' = [seen EXCEPT !.acked = S]
        BY <2>29 DEF SenderStep, SenderAccepts, SenderRefuses, SenderServes, SenderAcked, SenderFinishes,
           SenderConfirms, SenderCompletes, SenderGivesUp, SenderStops, StreamBreaks, SourceChanges, CancelRow, trVars
      <3>3. seen'.linked = seen.linked
        BY <3>2 DEF TransferTypeOK, WireTypeOK
      <3> QED BY <2>5, <3>1, <3>3
    <2>30. CASE RejectOffer \/ OpenRefused \/ ReceiverConfirmed \/ ReceiverEnds \/ (\E f \in Files : RestoreRefused(f))
      <3>1. rcv' = NoReceiver /\ UNCHANGED <<disk, target>>
        BY <2>30 DEF RejectOffer, OpenRefused, ReceiverConfirmed, ReceiverEnds, RestoreRefused, ReceiverRefuses,
           ReceiverReturns
      <3>2. seen'.linked = seen.linked
        BY <2>30 DEF RejectOffer, OpenRefused, ReceiverConfirmed, ReceiverEnds, RestoreRefused, TransferTypeOK,
           WireTypeOK
      <3>3. SameClaims
        BY <3>1 DEF SameClaims, Loaded
      <3> QED BY <2>4, <3>1, <3>2, <3>3
    <2>31. CASE ReceiverGivesUp \/ ReceiverFails \/ (\E e \in Entries : CommitFails(e))
      <3>1. UNCHANGED <<target, seen>>
        BY <2>31 DEF ReceiverGivesUp, ReceiverFails, CommitFails
      <3>2. CASE Opened
        <4>1. Fails
          BY <2>31, <3>2 DEF ReceiverGivesUp, ReceiverFails, CommitFails, Opened
        <4> QED BY <2>8, <3>1, <3>2, <4>1
      <3>3. CASE ~Opened
        <4>1. rcv' = NoReceiver /\ \/ disk' = disk \/ \E n : disk' = [disk EXCEPT !.new = n]
          BY <2>31, <3>3 DEF ReceiverGivesUp, ReceiverFails, CommitFails, ReceiverReturns, Fails, Opened, Waiting,
             Publishing, Taking
        <4>2. SameClaims
          BY <2>1, <4>1 DEF SameClaims, Loaded, DiskTypeOK
        <4> QED BY <2>4, <3>1, <4>1, <4>2
      <3> QED BY <3>2, <3>3
    <2>32. CASE ResumeOffer
      <3>1. rcv.pc = "offer" /\ UNCHANGED <<disk, target, seen>>
        BY <2>32 DEF ResumeOffer
      <3>2. CASE rcv' = NoReceiver
        <4>1. SameClaims
          BY <3>1 DEF SameClaims, Loaded
        <4> QED BY <2>4, <3>1, <3>2, <4>1
      <3> QED BY <2>15, <2>32, <3>1, <3>2 DEF ResumeOffer, ReceiverReturns
    <2>33. ASSUME NEW requested, NEW policy, AcceptOffer(requested, policy) PROVE PublicationIInv'
      BY <2>15, <2>33 DEF AcceptOffer
    <2>34. ASSUME ReceiverStep PROVE PublicationIInv'
      BY <2>16, <2>17, <2>18, <2>19, <2>20, <2>21, <2>22, <2>23, <2>24, <2>25, <2>26, <2>30, <2>31, <2>32, <2>33,
         <2>34 DEF ReceiverStep
    <2> QED BY <2>14, <2>27, <2>28, <2>29, <2>30, <2>31, <2>34 DEF TransferNext
  \* Every step keeps the types.
  <1>TransferTypeStep. ASSUME TransferTypeOK, [TransferNext]_trVars
                       PROVE  TransferTypeOK'
    <2> USE <1>TransferTypeStep
    <2>ReceiverTypeStep. ASSUME TransferTypeOK, [TransferNext]_trVars
                         PROVE  ReceiverTypeOK'
      <3> USE <2>ReceiverTypeStep
      \* The plans a receiver takes name the directory and some files, by numbers
      \* that were tried.
      <3>PlansAreBuilt. ASSUME DiskTypeOK
                        PROVE  /\ \A p \in ResumePlans : IsPlan(p)
                               /\ \A requested \in SUBSET Entries, policy \in Policies :
                                    \A p \in FreshPlans(requested, policy) : IsPlan(p)
        <4> USE <3>PlansAreBuilt
        <4>1. ASSUME NEW e, NEW n, NEW policy, Named(e, n, policy) # {}
              PROVE  Named(e, n, policy) \subseteq Numbers /\ Min(Named(e, n, policy)) \in Numbers
          <5>1. Available(e, n) \subseteq Numbers /\ Numbers \subseteq Nat /\ 0 \in Numbers
            BY TransferAssumption DEF Available, Numbers
          <5>2. Available(e, n) # {} => Min(Available(e, n)) \in Available(e, n)
            BY <5>1, <1>MinIsLeast
          <5>3. Named(e, n, policy) \subseteq Numbers
            BY <5>1, <5>2 DEF Named
          <5>4. Min(Named(e, n, policy)) \in Named(e, n, policy)
            BY <4>1, <5>1, <5>3, <1>MinIsLeast
          <5> QED BY <5>3, <5>4
        <4>2. ASSUME NEW requested \in SUBSET Entries, NEW policy \in Policies,
                     NEW p \in BuildReceivePlan(requested, policy)
              PROVE  IsPlan(p)
          <5> DEFINE dir == Named(0, 0, policy)
                     under(e) == IF e \in Inside THEN Min(dir) ELSE 0
                     open == {e \in requested \cap Files : Named(e, under(e), policy) # {}}
                     chosen == IF policy = "skip" THEN open ELSE requested \cap Files
                     names == [e \in {0} \cup chosen |->
                                  IF e = 0 THEN Min(dir) ELSE Min(Named(e, under(e), policy))]
          <5>1. dir # {} /\ chosen \subseteq open /\ p = [names |-> names, policy |-> policy]
            BY <4>2 DEF BuildReceivePlan
          <5>2. Min(dir) \in Numbers
            BY <4>1, <5>1
          <5>3. \A e \in chosen : Min(Named(e, under(e), policy)) \in Numbers
            BY <4>1, <5>1
          <5>4. chosen \subseteq Files /\ Files \subseteq Entries /\ 0 \in Entries
            BY TransferAssumption DEF Files, Entries
          <5> HIDE DEF dir, under, chosen
          <5>5. DOMAIN names = {0} \cup chosen /\ \A e \in DOMAIN names : names[e] \in Numbers
            BY <5>2, <5>3
          <5> HIDE DEF names
          <5> QED BY <5>1, <5>4, <5>5 DEF IsPlan, Selection
        <4>3. IsPlan(FullReceivePlan)
          BY TransferAssumption DEF IsPlan, Selection, FullReceivePlan, Entries, Numbers
        <4>4. disk.saved.plan # NoPlan => IsPlan(disk.saved.plan)
          BY DEF DiskTypeOK, NoState
        <4>5. \A p \in ResumePlans : IsPlan(p)
          <5>1. CASE row.plan # NoPlan
            BY <5>1, <4>4 DEF ResumePlans
          <5>2. CASE row.plan = NoPlan
            BY <5>2, <4>3 DEF ResumePlans, DiskTypeOK, Loaded
          <5> QED BY <5>1, <5>2
        <4>6. ASSUME NEW requested \in SUBSET Entries, NEW policy \in Policies
              PROVE  \A p \in FreshPlans(requested, policy) : IsPlan(p)
          BY <4>2 DEF FreshPlans, DiskTypeOK, Loaded
        <4> QED BY <4>5, <4>6
      <3> USE DEF ReceiverTypeOK
      <3>1. /\ ReceiverTypeOK /\ DiskTypeOK
            /\ Files \subseteq Nat /\ Files \subseteq Entries /\ Entries \subseteq Nat
            /\ \A q : FilesOf(q) = Selection(q) \ {0}
        BY TransferAssumption DEF TransferTypeOK, Files, Entries, FilesOf
      \* What most steps do to the receiver.
      <3>2. CASE UNCHANGED rcv
        BY <3>1, <3>2 DEF IsPlan, Selection, FilesOf, Left
      <3>3. CASE rcv' = NoReceiver
        BY <3>3 DEF NoReceiver, ReceiverFields, ReceiverSteps
      <3>4. ASSUME NEW st \in ReceiverSteps \ {"copied", "link", "record"}, rcv' = [rcv EXCEPT !.pc = st],
                   rcv.pc \notin {"idle", "offer"}
            PROVE  ReceiverTypeOK'
        BY <3>1, <3>4 DEF ReceiverFields, ReceiverSteps
      <3>5. ASSUME NEW p, IsPlan(p), rcv' = [rcv EXCEPT !.pc = "open", !.plan = p]
            PROVE  ReceiverTypeOK'
        BY <3>1, <3>5 DEF ReceiverFields, ReceiverSteps
      <3>6. ASSUME NEW e \in Selection(rcv.plan), IsPlan(rcv.plan), Renamed(e) # {},
                   rcv' = RenamedTo(e, Min(Renamed(e)))
            PROVE  ReceiverTypeOK'
        <4>1. Renamed(e) \subseteq Numbers /\ Numbers \subseteq Nat
          BY TransferAssumption DEF Renamed, Available, Numbers
        <4>2. Min(Renamed(e)) \in Numbers
          BY <3>6, <4>1, <1>MinIsLeast
        <4>3. PICK n, r : n \in Numbers /\ n = Min(Renamed(e)) /\ r = RenamedTo(e, n)
          BY <4>2
        <4> HIDE DEF ReceiverTypeOK
        <4>4. /\ DOMAIN r = ReceiverFields /\ r.pc = "ready" /\ r.at = 1
              /\ r.verified = rcv.verified /\ r.committed = rcv.committed /\ r.dir = rcv.dir
              /\ r.intents = rcv.intents \ {e} /\ r.dirIntent \in BOOLEAN /\ (r.dirIntent <=> e # 0 /\ rcv.dirIntent)
              /\ IsPlan(r.plan)
          BY <3>1, <3>6, <4>3, <1>RenamedPlan
        <4>5. rcv' = r
          BY <3>6, <4>3
        <4> QED BY <3>1, <4>4, <4>5 DEF ReceiverTypeOK, ReceiverFields, ReceiverSteps
      \* The steps.
      <3>7. CASE Connect
        BY <3>7 DEF Connect, NoReceiver, ReceiverFields, ReceiverSteps
      <3>8. CASE SenderStep \/ SenderStops \/ StreamBreaks \/ SourceChanges \/ CancelRow \/ CleanupStage
                 \/ (\E s \in Slots : Touch(s)) \/ UNCHANGED trVars
        <4>1. UNCHANGED rcv
          BY <3>8 DEF SenderStep, SenderAccepts, SenderRefuses, SenderServes, SenderAcked, SenderFinishes,
             SenderConfirms, SenderCompletes, SenderGivesUp, SenderStops, StreamBreaks, SourceChanges,
             CancelRow, CleanupStage, Touch, trVars
        <4> QED BY <3>2, <4>1
      <3>9. CASE ReceiverStep
        <4>1. CASE ResumeOffer
          <5>1. \A p \in ResumePlans : IsPlan(p)
            BY <3>1, <3>PlansAreBuilt
          <5> QED BY <4>1, <5>1, <3>3, <3>5 DEF ResumeOffer, ReceiverReturns
        <4>2. ASSUME NEW fs \in SUBSET Files, NEW policy \in Policies, AcceptOffer({0} \cup fs, policy)
              PROVE  ReceiverTypeOK'
          <5>1. {0} \cup fs \in SUBSET Entries
            BY TransferAssumption DEF Files, Entries
          <5>2. \A p \in FreshPlans({0} \cup fs, policy) : IsPlan(p)
            BY <3>1, <5>1, <3>PlansAreBuilt
          <5> QED BY <4>2, <5>2, <3>5 DEF AcceptOffer
        <4>3. CASE RejectOffer \/ OpenRefused \/ ReceiverConfirmed \/ ReceiverGivesUp
          BY <4>3, <3>3 DEF RejectOffer, OpenRefused, ReceiverConfirmed, ReceiverGivesUp, ReceiverReturns,
             ReceiverRefuses, Fails
        <4>4. CASE OpenStage
          <5>1. Loaded => IsPlan(disk.saved.plan) /\ disk.saved.committed \subseteq Files
                          /\ disk.saved.intents \subseteq Files
                          /\ disk.saved.dir \in BOOLEAN /\ disk.saved.dirIntent \in BOOLEAN
            BY <3>1 DEF DiskTypeOK
          <5>2. rcv.pc = "open" /\ IsPlan(rcv.plan)
            BY <4>4, <3>1 DEF OpenStage
          <5> QED BY <4>4, <3>1, <5>1, <5>2 DEF OpenStage, ReceiverFields, ReceiverSteps
        <4>5. ASSUME NEW f \in Files, SkipFile(f) \/ RestoreCommitted(f) PROVE ReceiverTypeOK'
          <5>1. rcv.pc = "restore" /\ IsPlan(rcv.plan) /\ f \in Nat /\ f + 1 \in Nat
            BY <4>5, <3>1 DEF SkipFile, RestoreCommitted, Restoring
          <5>2. Chunks(f) \subseteq Pairs
            BY DEF Chunks, Pairs
          <5>3. CASE SkipFile(f)
            BY <5>3, <3>1, <5>1 DEF SkipFile, Past, ReceiverFields, ReceiverSteps
          <5>4. CASE RestoreCommitted(f)
            <6>1. rcv' = [rcv EXCEPT !.at = f + 1, !.committed = @ \cup {f}, !.intents = @ \ {f},
                                     !.verified = @ \cup Chunks(f)]
              BY <5>4, <3>1 DEF RestoreCommitted, Past, ReceiverFields
            <6> QED BY <6>1, <3>1, <5>1, <5>2 DEF ReceiverFields, ReceiverSteps
          <5> QED BY <4>5, <5>3, <5>4
        <4>6. ASSUME NEW f \in Files, RestoreRefused(f) PROVE ReceiverTypeOK'
          BY <4>6, <3>3 DEF RestoreRefused, ReceiverRefuses, ReceiverReturns
        <4>7. ASSUME NEW f \in Files, CopyPart(f) PROVE ReceiverTypeOK'
          <5>1. rcv.pc = "restore" /\ IsPlan(rcv.plan) /\ rcv.at = f /\ f \in FilesOf(rcv.plan)
            BY <4>7, <3>1, TransferAssumption DEF CopyPart, Restoring, Files
          <5> QED BY <4>7, <3>1, <5>1 DEF CopyPart, ReceiverFields, ReceiverSteps
        <4>8. CASE ReplacePart
          <5>1. rcv.pc = "copied" /\ IsPlan(rcv.plan) /\ rcv.at \in Nat /\ rcv.at + 1 \in Nat
            BY <4>8, <3>1 DEF ReplacePart
          <5>2. rcv.at \in Files
            BY <5>1, <3>1, TransferAssumption DEF IsPlan, Files, Entries
          <5>3. {rcv.at} \X disk.part[rcv.at] \subseteq Pairs
            BY <5>2, <3>1 DEF DiskTypeOK, Pairs
          <5> QED BY <4>8, <3>1, <5>1, <5>3 DEF ReplacePart, Past, ReceiverFields, ReceiverSteps
        <4>9. CASE OpenDone
          <5>1. rcv.pc = "restore" /\ IsPlan(rcv.plan)
            BY <4>9, <3>1 DEF OpenDone
          <5> QED BY <4>9, <3>1, <5>1 DEF OpenDone, ReceiverFields, ReceiverSteps
        <4>10. CASE PlanReady \/ ReceiverBegins \/ AskNext \/ ReceiverFinishes \/ ReceiverCompletes
          BY <4>10, <3>4 DEF PlanReady, ReceiverBegins, AskNext, NextStep, ReceiverFinishes,
             ReceiverCompletes, ReceiverSteps
        <4>11. CASE Register
          <5>1. rcv.pc = "register" /\ IsPlan(rcv.plan)
            BY <4>11, <3>1 DEF Register
          <5>2. CASE rcv' = [rcv EXCEPT !.pc = "barrier"]
            BY <5>1, <5>2, <3>4 DEF ReceiverSteps
          <5>3. CASE rcv' = [rcv EXCEPT !.pc = "publish", !.at = 0]
            BY <3>1, <5>1, <5>3 DEF ReceiverFields, ReceiverSteps
          <5> QED BY <4>11, <5>2, <5>3, <3>3 DEF Register, ReceiverRefuses, ReceiverReturns
        <4>12. CASE WriteChunk
          <5>1. rcv.pc = "data" /\ IsPlan(rcv.plan)
            BY <4>12, <3>1 DEF WriteChunk
          <5>2. Head(s2r) \in Requests /\ Head(s2r).op = "data"
            BY <4>12 DEF WriteChunk, ReceiverReads, TransferTypeOK, WireTypeOK
          <5>3. Head(s2r).arg \in Pairs
            BY <5>2 DEF Requests, Frame
          <5> DEFINE c == Head(s2r).arg
          <5>4. rcv' = [rcv EXCEPT !.verified = @ \cup {c}, !.pc = "acked"]
            BY <4>12 DEF WriteChunk
          <5> HIDE DEF c
          <5> QED BY <3>1, <5>1, <5>3, <5>4 DEF c, ReceiverFields, ReceiverSteps
        <4>13. ASSUME NEW e \in Entries, RenameEntry(e) PROVE ReceiverTypeOK'
          <5>1. e \in Selection(rcv.plan) /\ IsPlan(rcv.plan)
            BY <4>13, <3>1 DEF RenameEntry, Publishing, Left
          <5> QED BY <4>13, <5>1, <3>6 DEF RenameEntry
        <4>14. ASSUME NEW e \in Entries, NameTaken(e) PROVE ReceiverTypeOK'
          <5>1. e \in Selection(rcv.plan) /\ IsPlan(rcv.plan)
            BY <4>14, <3>1 DEF NameTaken, Taking, Left
          <5> QED BY <4>14, <5>1, <3>6 DEF NameTaken
        <4>15. ASSUME NEW e \in Entries, Intend(e) PROVE ReceiverTypeOK'
          <5>1. rcv.pc = "publish" /\ IsPlan(rcv.plan) /\ e \in Left /\ e = Min(Left)
            BY <4>15, <3>1 DEF Intend, Publishing
          <5>2. rcv' = Intends(e)
            BY <4>15 DEF Intend
          <5>3. e # 0 => e \in Files
            BY TransferAssumption DEF Entries, Files
          <5>4. Left' = Left
            BY <3>1, <5>2 DEF Intends, Left, ReceiverFields
          <5> QED BY <3>1, <5>1, <5>2, <5>3, <5>4 DEF Intends, ReceiverFields, ReceiverSteps
        <4>16. ASSUME NEW e \in Entries, TakeName(e) PROVE ReceiverTypeOK'
          <5>1. rcv.pc = "link" /\ IsPlan(rcv.plan) /\ rcv' = [rcv EXCEPT !.pc = "record"]
            BY <4>16, <3>1 DEF TakeName, Taking
          <5>2. Left' = Left
            BY <3>1, <5>1 DEF Left, ReceiverFields
          <5> QED BY <3>1, <5>1, <5>2 DEF ReceiverFields, ReceiverSteps
        <4>17. ASSUME NEW e \in Entries, CommitFails(e) PROVE ReceiverTypeOK'
          BY <4>17, <3>3 DEF CommitFails, Fails, ReceiverReturns
        <4>18. CASE UseDirectory
          <5>1. rcv.pc = "publish" /\ IsPlan(rcv.plan) /\ rcv' = [rcv EXCEPT !.dir = TRUE]
            BY <4>18, <3>1 DEF UseDirectory, Publishing
          <5> QED BY <3>1, <5>1 DEF ReceiverFields
        <4>19. CASE RecordCommit
          <5>1. rcv.pc = "record" /\ IsPlan(rcv.plan) /\ rcv' = Recorded(Min(Left)) /\ Min(Left) \in Left
            BY <4>19, <3>1 DEF RecordCommit
          <5>2. Min(Left) # 0 => Min(Left) \in Files
            BY <5>1, TransferAssumption DEF Left, IsPlan, Entries, Files
          <5> QED BY <3>1, <5>1, <5>2 DEF Recorded, ReceiverFields, ReceiverSteps
        <4> QED BY <3>9, <4>1, <4>2, <4>3, <4>4, <4>5, <4>6, <4>7, <4>8, <4>9, <4>10, <4>11, <4>12, <4>13,
              <4>14, <4>15, <4>16, <4>17, <4>18, <4>19 DEF ReceiverStep
      <3>10. CASE ReceiverFails \/ ReceiverEnds
        BY <3>10, <3>3 DEF ReceiverFails, ReceiverEnds, Fails, ReceiverReturns
      <3> QED BY <3>7, <3>8, <3>9, <3>10 DEF TransferNext
    <2>1. SenderTypeOK /\ ReceiverTypeOK /\ DiskTypeOK /\ WireTypeOK
      BY DEF TransferTypeOK
    <2>2. ReceiverTypeOK'
      BY <2>ReceiverTypeStep
    <2>3. SenderTypeOK'
      <3> USE DEF SenderTypeOK
      <3>1. CASE UNCHANGED <<snd, sent>>
        BY <2>1, <3>1
      <3>2. CASE snd' = NoSender /\ UNCHANGED sent
        BY <2>1, <3>2, TransferAssumption DEF NoSender, SenderSteps
      <3>3. ASSUME NEW op, SenderReads(op)
            PROVE  Head(r2s) \in Answers /\ Head(r2s).op = op
        BY <2>1, <3>3 DEF WireTypeOK, SenderReads
      <3>4. CASE Connect
        BY <3>4, <2>1, TransferAssumption DEF Connect, NoSender, SenderSteps
      <3>5. CASE SenderStep \/ SenderStops
        <4>1. CASE SenderRefuses \/ SenderGivesUp \/ SenderStops
          BY <4>1, <3>2 DEF SenderRefuses, SenderGivesUp, SenderStops, SenderReturns
        <4>2. CASE SenderAccepts
          <5>1. Head(r2s).arg.selection \in SUBSET Entries /\ Head(r2s).arg.verified \in Nat
            BY <4>2, <3>3, <1>FramesHold DEF SenderAccepts
          <5>2. PICK sel \in SUBSET Entries, n \in Nat :
                  sel = Head(r2s).arg.selection /\ n = Head(r2s).arg.verified
            BY <5>1
          <5>3. /\ snd' = [snd EXCEPT !.pc = "serve", !.selected = sel, !.verified = n, !.initial = n]
                /\ sent' = [sent EXCEPT !.selection = <<sel>>]
            BY <4>2, <5>2 DEF SenderAccepts, Records, Initial
          <5> QED BY <2>1, <5>3 DEF SenderSteps
        <4>3. CASE SenderServes
          <5>1. Head(r2s).arg \in Nat \X Nat
            BY <4>3, <3>3, <1>FramesHold, TransferAssumption DEF SenderServes, Pairs, Files, Whole
          <5>2. CASE snd' = [snd EXCEPT !.pc = "ack", !.sent = @ + 1, !.chunk = Head(r2s).arg]
            <6>1. snd.sent + 1 \in Nat
              BY <2>1
            <6> QED BY <2>1, <4>3, <5>1, <5>2, <6>1 DEF SenderServes, SenderSteps
          <5> QED BY <4>3, <5>2, <3>2 DEF SenderServes, SenderReturns
        <4>4. CASE SenderAcked
          <5>1. Head(r2s).arg.verified \in Nat
            BY <4>4, <3>3, <1>FramesHold DEF SenderAcked
          <5>2. CASE snd' = [snd EXCEPT !.pc = "serve", !.verified = Head(r2s).arg.verified]
            BY <2>1, <4>4, <5>1, <5>2 DEF SenderAcked, SenderSteps
          <5> QED BY <4>4, <5>2, <3>2 DEF SenderAcked, SenderReturns
        <4>5. CASE SenderFinishes \/ SenderConfirms
          <5>1. sent' = sent /\ \/ snd' = NoSender
                                \/ \E st \in SenderSteps : snd' = [snd EXCEPT !.pc = st]
            BY <4>5 DEF SenderFinishes, SenderConfirms, SenderReturns, SenderSteps
          <5> QED BY <2>1, <5>1, <3>2
        <4>6. CASE SenderCompletes
          <5>1. snd' = NoSender /\ sent' = [sent EXCEPT !.completed = TRUE]
            BY <4>6 DEF SenderCompletes, SenderReturns
          <5> QED BY <2>1, <5>1, TransferAssumption DEF NoSender, SenderSteps
        <4> QED BY <3>5, <4>1, <4>2, <4>3, <4>4, <4>5, <4>6 DEF SenderStep
      <3>6. CASE ReceiverStep
        BY <3>6, <3>1 DEF ReceiverStep, ResumeOffer, RejectOffer, OpenStage, OpenRefused, AcceptOffer, SkipFile,
           RestoreCommitted, RestoreRefused, CopyPart, ReplacePart, OpenDone, PlanReady, Register, ReceiverBegins,
           WriteChunk, AskNext, ReceiverFinishes, RenameEntry, Intend, TakeName, NameTaken, CommitFails,
           UseDirectory, RecordCommit, ReceiverCompletes, ReceiverConfirmed, ReceiverGivesUp
      <3>7. CASE ReceiverFails \/ ReceiverEnds \/ StreamBreaks \/ SourceChanges \/ CancelRow \/ CleanupStage
                 \/ (\E s \in Slots : Touch(s)) \/ UNCHANGED trVars
        BY <3>7, <3>1 DEF ReceiverFails, ReceiverEnds, StreamBreaks, SourceChanges, CancelRow, CleanupStage,
           Touch, trVars
      <3> QED BY <3>4, <3>5, <3>6, <3>7 DEF TransferNext
    <2>4. DiskTypeOK'
      <3> USE DEF DiskTypeOK, Loaded
      <3>1. CASE UNCHANGED <<disk, target>>
        BY <2>1, <3>1
      \* A checkpoint is saved.
      <3>2. ASSUME NEW st, st # "none", NEW r, disk' = [disk EXCEPT !.saved = Checkpoint(st, r)],
                   r.committed \subseteq Files, r.intents \subseteq Files, r.dir \in BOOLEAN,
                   r.dirIntent \in BOOLEAN, IsPlan(r.plan), UNCHANGED target
            PROVE  DiskTypeOK'
        <4>1. PICK c : c = Checkpoint(st, r)
          OBVIOUS
        <4>2. /\ DOMAIN c = SavedFields /\ c.state # "none" /\ c.committed \subseteq Files /\ c.intents \subseteq Files
              /\ c.dir \in BOOLEAN /\ c.dirIntent \in BOOLEAN /\ IsPlan(c.plan)
          BY <3>2, <4>1 DEF Checkpoint, SavedFields
        <4>3. disk' = [disk EXCEPT !.saved = c]
          BY <3>2, <4>1
        <4> QED BY <2>1, <3>2, <4>2, <4>3
      <3>3. rcv.pc \notin {"idle", "offer"} =>
              /\ rcv.committed \subseteq Files /\ rcv.intents \subseteq Files /\ rcv.dir \in BOOLEAN
              /\ rcv.dirIntent \in BOOLEAN /\ IsPlan(rcv.plan)
        BY <2>1 DEF ReceiverTypeOK
      <3>4. rcv'.pc \notin {"idle", "offer"} =>
              /\ rcv'.committed \subseteq Files /\ rcv'.intents \subseteq Files /\ rcv'.dir \in BOOLEAN
              /\ rcv'.dirIntent \in BOOLEAN /\ IsPlan(rcv'.plan)
        BY <2>2 DEF ReceiverTypeOK
      <3>5. ASSUME Fails, Opened, UNCHANGED target PROVE DiskTypeOK'
        <4>1. rcv.pc \notin {"idle", "offer"}
          BY <3>5 DEF Opened
        <4> QED BY <3>1, <3>2, <3>3, <3>5, <4>1 DEF Fails
      <3>6. CASE Connect \/ SenderStep \/ SenderStops \/ StreamBreaks \/ SourceChanges \/ CancelRow \/ ReceiverEnds
                 \/ UNCHANGED trVars
        <4>1. UNCHANGED <<disk, target>>
          BY <3>6 DEF Connect, SenderStep, SenderAccepts, SenderRefuses, SenderServes, SenderAcked, SenderFinishes,
             SenderConfirms, SenderCompletes, SenderGivesUp, SenderStops, StreamBreaks, SourceChanges,
             CancelRow, ReceiverEnds, trVars
        <4> QED BY <3>1, <4>1
      <3>7. CASE CleanupStage
        BY <3>7, <2>1 DEF CleanupStage, NoState, SavedFields
      <3>8. ASSUME NEW s \in Slots, Touch(s) PROVE DiskTypeOK'
        <4>1. PICK n \in Names : target' = [target EXCEPT ![s] = n]
          BY <3>8 DEF Touch, Names
        <4> QED BY <2>1, <3>8, <4>1 DEF Touch
      <3>9. CASE ReceiverFails
        <4>1. CASE Opened
          BY <3>9, <4>1, <3>5 DEF ReceiverFails
        <4>2. CASE ~Opened
          <5>1. \E n : disk' = [disk EXCEPT !.new = n]
            BY <3>9, <4>2 DEF ReceiverFails
          <5> QED BY <3>9, <5>1, <2>1 DEF ReceiverFails
        <4> QED BY <4>1, <4>2
      <3>10. CASE ReceiverStep
        <4>1. CASE ResumeOffer \/ RejectOffer \/ OpenRefused \/ PlanReady \/ Register \/ ReceiverBegins \/ AskNext
                   \/ ReceiverConfirmed
          BY <4>1, <3>1 DEF ResumeOffer, RejectOffer, OpenRefused, ReceiverRefuses, PlanReady, Register,
             ReceiverBegins, AskNext, ReceiverConfirmed
        <4>2. ASSUME NEW requested, NEW policy, AcceptOffer(requested, policy) PROVE DiskTypeOK'
          BY <4>2, <3>1 DEF AcceptOffer
        <4>3. ASSUME NEW f, SkipFile(f) \/ RestoreCommitted(f) \/ RestoreRefused(f) PROVE DiskTypeOK'
          BY <4>3, <3>1 DEF SkipFile, RestoreCommitted, RestoreRefused, ReceiverRefuses
        <4>4. ASSUME NEW f, OpenStage \/ CopyPart(f) \/ ReplacePart PROVE DiskTypeOK'
          BY <4>4, <2>1 DEF OpenStage, CopyPart, ReplacePart, ReplacedPart
        <4>5. CASE OpenDone \/ ReceiverFinishes \/ ReceiverCompletes
          <5>1. rcv.pc \notin {"idle", "offer"} /\ UNCHANGED target
            BY <4>5 DEF OpenDone, ReceiverFinishes, ReceiverCompletes
          <5>2. \E st : st # "none" /\ disk' = [disk EXCEPT !.saved = Checkpoint(st, rcv)]
            BY <4>5 DEF OpenDone, ReceiverFinishes, ReceiverCompletes, Saves
          <5> QED BY <5>1, <5>2, <3>2, <3>3
        <4>6. CASE WriteChunk
          <5>1. rcv.pc = "data" /\ UNCHANGED target
            BY <4>6 DEF WriteChunk
          <5>2. Head(s2r) \in Requests /\ Head(s2r).op = "data"
            BY <4>6, <2>1 DEF WriteChunk, ReceiverReads, WireTypeOK
          <5>3. PICK c \in Pairs : c = Head(s2r).arg
            BY <5>2, <1>FramesHold
          <5>4. PICK d : d = [disk EXCEPT !.part[c[1]] = @ \cup {c[2]}]
            OBVIOUS
          <5>5. disk' = d \/ disk' = [d EXCEPT !.saved = Checkpoint("Transferring", rcv)]
            BY <4>6, <5>3, <5>4 DEF WriteChunk
          <5>6. /\ DOMAIN d = DOMAIN disk /\ d.saved = disk.saved /\ d.new = disk.new /\ d.same = disk.same
                /\ d.stage = disk.stage /\ d.part \in [Files -> SUBSET Whole]
            BY <5>4, <2>1 DEF Pairs
          <5>7. PICK k : k = Checkpoint("Transferring", rcv)
            OBVIOUS
          <5>8. /\ DOMAIN k = SavedFields /\ k.state # "none" /\ k.committed \subseteq Files /\ k.intents \subseteq Files
                /\ k.dir \in BOOLEAN /\ k.dirIntent \in BOOLEAN /\ IsPlan(k.plan)
            BY <3>3, <5>1, <5>7 DEF Checkpoint, SavedFields
          <5> QED BY <2>1, <5>1, <5>5, <5>6, <5>7, <5>8
        <4>7. ASSUME NEW e, RenameEntry(e) \/ Intend(e) \/ NameTaken(e) PROVE DiskTypeOK'
          <5>1. rcv'.pc \notin {"idle", "offer"} /\ UNCHANGED target /\ Saves("Verifying", rcv')
            BY <4>7, <2>1 DEF RenameEntry, Intend, NameTaken, RenamedTo, Intends, ReceiverTypeOK, ReceiverFields
          <5> QED BY <5>1, <3>2, <3>4 DEF Saves
        <4>8. CASE UseDirectory \/ RecordCommit
          <5>1. rcv'.pc \notin {"idle", "offer"} /\ UNCHANGED target /\ Saves("Verifying", rcv')
            BY <4>8, <2>1 DEF UseDirectory, RecordCommit, Recorded, Publishing, ReceiverTypeOK, ReceiverFields
          <5> QED BY <5>1, <3>2, <3>4 DEF Saves
        <4>9. ASSUME NEW e, TakeName(e) PROVE DiskTypeOK'
          BY <4>9, <2>1 DEF TakeName, Names
        <4>10. ASSUME NEW e, CommitFails(e) PROVE DiskTypeOK'
          <5>1. Opened
            BY <4>10 DEF CommitFails, Publishing, Taking, Opened
          <5> QED BY <4>10, <5>1, <3>5 DEF CommitFails
        <4>11. CASE ReceiverGivesUp
          <5>1. CASE rcv.pc \in {"offer", "confirm"}
            BY <4>11, <5>1, <3>1 DEF ReceiverGivesUp
          <5>2. CASE rcv.pc \notin {"offer", "confirm"}
            <6>1. Opened
              BY <4>11, <5>2 DEF ReceiverGivesUp, Waiting, Opened
            <6> QED BY <4>11, <5>2, <6>1, <3>5 DEF ReceiverGivesUp
          <5> QED BY <5>1, <5>2
        <4> QED BY <3>10, <4>1, <4>2, <4>3, <4>4, <4>5, <4>6, <4>7, <4>8, <4>9, <4>10, <4>11 DEF ReceiverStep
      <3> QED BY <3>6, <3>7, <3>8, <3>9, <3>10 DEF TransferNext
    <2>5. s2r' \in Seq(Requests) /\ r2s' \in Seq(Answers) /\ link' \in {"none", "up", "ended"}
      <3> DEFINE QueuesOK == s2r \in Seq(Requests) /\ r2s \in Seq(Answers) /\ link \in {"none", "up", "ended"}
      <3>1. QueuesOK
        BY <2>1 DEF WireTypeOK
      <3>2. ASSUME NEW x \in Requests, SendFrames(<<x>>) PROVE s2r' \in Seq(Requests)
        BY <3>1, <3>2 DEF SendFrames
      <3>3. ASSUME NEW x \in Answers, AnswerFrames(<<x>>) PROVE r2s' \in Seq(Answers)
        BY <3>1, <3>3 DEF AnswerFrames
      <3>4. ASSUME NEW op, SenderReads(op)
            PROVE  r2s' \in Seq(Answers) /\ Head(r2s) \in Answers /\ Head(r2s).op = op
        BY <3>1, <3>4 DEF SenderReads
      <3>5. ASSUME NEW op, ReceiverReads(op)
            PROVE  s2r' \in Seq(Requests) /\ Head(s2r) \in Requests /\ Head(s2r).op = op
        BY <3>1, <3>5 DEF ReceiverReads
      <3>6. link' = link \/ Leave => link' \in {"none", "up", "ended"}
        BY <3>1 DEF Leave
      <3>7. <<>> \in Seq(Requests) /\ <<>> \in Seq(Answers)
        OBVIOUS
      <3>8. /\ Frame("error", {}) \in Requests /\ Frame("offer", {}) \in Requests
            /\ Frame("error", {}) \in Answers /\ Frame("reject", {}) \in Answers /\ Frame("ready", {}) \in Answers
            /\ Frame("confirmed_ack", {}) \in Answers
        BY DEF Requests, Answers
      <3>9. ASSUME NEW sel \in SUBSET Entries
            PROVE  /\ \A op \in {"accepted", "finish", "confirmed"} : Frame(op, sel) \in Requests
                   /\ \A n \in Nat : Frame("accept", [selection |-> sel, verified |-> n]) \in Answers
        BY DEF Requests, Answers
      <3>10. ASSUME NEW c \in Pairs
             PROVE  /\ Frame("data", c) \in Requests /\ Frame("chunk", c) \in Answers
                    /\ \A n \in Nat : Frame("ack", [chunk |-> c, verified |-> n]) \in Answers
        <4>1. Frame("data", c) \in Requests
          BY DEF Requests
        <4>2. Frame("chunk", c) \in Answers
          BY DEF Answers
        <4>3. ASSUME NEW n \in Nat PROVE Frame("ack", [chunk |-> c, verified |-> n]) \in Answers
          BY DEF Answers
        <4> QED BY <4>1, <4>2, <4>3
      <3>11. \A n \in Nat : Frame("completed", n) \in Answers
        BY DEF Answers
      <3>12. snd.selected \in SUBSET Entries
        BY <2>1 DEF SenderTypeOK
      <3>13. IsFiniteSet(Pairs) /\ Files \subseteq Entries /\ rcv.verified \in SUBSET Pairs
        <4>1. IsFiniteSet(Files) /\ IsFiniteSet(Whole)
          BY TransferAssumption, FS_Interval DEF Files, Whole
        <4> QED BY <4>1, <2>1, FS_Product, TransferAssumption DEF Pairs, Files, Entries, ReceiverTypeOK
      <3>14. \A V \in SUBSET Pairs : Cardinality(V) \in Nat
        BY <3>13, FS_Subset, FS_CardinalityType
      <3>15. rcv.pc \notin {"idle", "offer"} => IsPlan(rcv.plan) /\ Selection(rcv.plan) \in SUBSET Entries
        BY <2>1 DEF ReceiverTypeOK, IsPlan
      <3>16. Missing \subseteq Pairs /\ (Missing # {} => FirstMissing \in Pairs)
        <4>1. Missing \subseteq Pairs
          BY DEF Missing
        <4> QED BY <4>1, <1>FirstIsMissing
      <3>17. Asked \in Answers
        BY <3>8, <3>10, <3>16 DEF Asked
      <3> HIDE DEF QueuesOK
      <3>18. CASE Connect
        BY <3>18, <3>7, <3>8 DEF Connect
      <3>19. CASE SenderStep
        <4>1. CASE SenderAccepts
          <5>1. Head(r2s).arg.selection \in SUBSET Entries
            BY <4>1, <3>4, <1>FramesHold DEF SenderAccepts
          <5> QED BY <4>1, <5>1, <3>1, <3>2, <3>4, <3>9 DEF SenderAccepts, QueuesOK
        <4>2. CASE SenderRefuses
          BY <4>2, <3>2, <3>4, <3>6, <3>8 DEF SenderRefuses, SenderReturns
        <4>3. CASE SenderServes
          <5>1. Head(r2s).arg \in Pairs
            BY <4>3, <3>4, <1>FramesHold DEF SenderServes
          <5> QED BY <4>3, <5>1, <3>2, <3>4, <3>6, <3>8, <3>10 DEF SenderServes, SenderReturns
        <4>4. CASE SenderAcked
          BY <4>4, <3>1, <3>4, <3>6 DEF SenderAcked, SenderReturns, QueuesOK
        <4>5. CASE SenderFinishes
          BY <4>5, <3>2, <3>4, <3>6, <3>8, <3>9, <3>12 DEF SenderFinishes, SenderReturns
        <4>6. CASE SenderConfirms
          BY <4>6, <3>1, <3>2, <3>4, <3>6, <3>9, <3>12 DEF SenderConfirms, SenderReturns, QueuesOK
        <4>7. CASE SenderCompletes
          BY <4>7, <3>1, <3>4, <3>6 DEF SenderCompletes, SenderReturns, QueuesOK
        <4>8. CASE SenderGivesUp
          BY <4>8, <3>1, <3>6, <3>7 DEF SenderGivesUp, SenderReturns, QueuesOK
        <4> QED BY <3>19, <4>1, <4>2, <4>3, <4>4, <4>5, <4>6, <4>7, <4>8 DEF SenderStep
      <3>20. CASE ReceiverStep
        <4>1. CASE ResumeOffer
          BY <4>1, <3>1, <3>3, <3>5, <3>6, <3>8 DEF ResumeOffer, ReceiverReturns, QueuesOK
        <4>2. ASSUME NEW requested, NEW policy, AcceptOffer(requested, policy)
              PROVE  s2r' \in Seq(Requests) /\ r2s' \in Seq(Answers) /\ link' \in {"none", "up", "ended"}
          BY <4>2, <3>1, <3>5, <3>6 DEF AcceptOffer, QueuesOK
        <4>3. CASE RejectOffer
          BY <4>3, <3>3, <3>5, <3>6, <3>8 DEF RejectOffer, ReceiverReturns
        <4>4. ASSUME ReceiverRefuses, UNCHANGED s2r
              PROVE  s2r' \in Seq(Requests) /\ r2s' \in Seq(Answers) /\ link' \in {"none", "up", "ended"}
          BY <4>4, <3>1, <3>3, <3>6, <3>8 DEF ReceiverRefuses, ReceiverReturns, QueuesOK
        <4>5. ASSUME NEW f, NEW e, \/ OpenStage \/ OpenDone \/ PlanReady \/ SkipFile(f) \/ RestoreCommitted(f)
                                   \/ CopyPart(f) \/ ReplacePart \/ RenameEntry(e) \/ Intend(e) \/ TakeName(e)
                                   \/ NameTaken(e) \/ UseDirectory \/ RecordCommit
              PROVE  s2r' \in Seq(Requests) /\ r2s' \in Seq(Answers) /\ link' \in {"none", "up", "ended"}
          <5>1. UNCHANGED wire
            BY <4>5 DEF OpenStage, OpenDone, PlanReady, SkipFile, RestoreCommitted, CopyPart, ReplacePart,
               RenameEntry, Intend, TakeName, NameTaken, UseDirectory, RecordCommit
          <5> QED BY <5>1, <3>1 DEF wire, QueuesOK
        <4>6. ASSUME NEW f, OpenRefused \/ RestoreRefused(f)
              PROVE  s2r' \in Seq(Requests) /\ r2s' \in Seq(Answers) /\ link' \in {"none", "up", "ended"}
          BY <4>6, <4>4 DEF OpenRefused, RestoreRefused
        <4>7. CASE Register
          <5>1. CASE AnswerFrames(<<Frame("accept", [selection |-> Selection(rcv.plan),
                                                     verified |-> Cardinality(rcv.verified)])>>)
                     /\ UNCHANGED <<s2r, link>>
            <6>1. Selection(rcv.plan) \in SUBSET Entries /\ Cardinality(rcv.verified) \in Nat
              BY <4>7, <3>13, <3>14, <3>15 DEF Register
            <6> QED BY <5>1, <6>1, <3>1, <3>3, <3>9 DEF QueuesOK
          <5>2. CASE UNCHANGED <<s2r, r2s, link>>
            BY <5>2, <3>1 DEF QueuesOK
          <5> QED BY <4>7, <4>4, <5>1, <5>2 DEF Register
        <4>8. CASE ReceiverBegins
          BY <4>8, <3>1, <3>3, <3>5, <3>17 DEF ReceiverBegins, QueuesOK
        <4>9. CASE AskNext
          BY <4>9, <3>1, <3>3, <3>17 DEF AskNext, QueuesOK
        <4>10. CASE WriteChunk
          <5>1. PICK c \in Pairs : c = Head(s2r).arg
            BY <4>10, <3>5, <1>FramesHold DEF WriteChunk
          <5>2. PICK V : V = rcv.verified \cup {c}
            OBVIOUS
          <5>3. [rcv EXCEPT !.verified = @ \cup {c}, !.pc = "acked"].verified = V
            BY <2>1, <5>2 DEF ReceiverTypeOK, ReceiverFields
          <5>4. AnswerFrames(<<Frame("ack", [chunk |-> c, verified |-> Cardinality(V)])>>)
            BY <4>10, <5>1, <5>3 DEF WriteChunk
          <5>5. Cardinality(V) \in Nat
            BY <5>2, <3>13, <3>14
          <5> QED BY <4>10, <5>4, <5>5, <3>1, <3>3, <3>5, <3>10 DEF WriteChunk, QueuesOK
        <4>11. CASE ReceiverFinishes
          BY <4>11, <3>1, <3>5 DEF ReceiverFinishes, QueuesOK
        <4>12. ASSUME NEW e, CommitFails(e)
               PROVE  s2r' \in Seq(Requests) /\ r2s' \in Seq(Answers) /\ link' \in {"none", "up", "ended"}
          BY <4>12, <3>1, <3>3, <3>6, <3>8 DEF CommitFails, Fails, ReceiverReturns, QueuesOK
        <4>13. CASE ReceiverCompletes
          <5>1. Cardinality(rcv.verified) \in Nat
            BY <3>13, <3>14
          <5> QED BY <4>13, <5>1, <3>1, <3>3, <3>11 DEF ReceiverCompletes, QueuesOK
        <4>14. CASE ReceiverConfirmed
          BY <4>14, <3>3, <3>5, <3>6, <3>8 DEF ReceiverConfirmed, ReceiverReturns
        <4>15. CASE ReceiverGivesUp
          BY <4>15, <3>1, <3>6, <3>7 DEF ReceiverGivesUp, Fails, ReceiverReturns, QueuesOK
        <4> QED BY <3>20, <4>1, <4>2, <4>3, <4>5, <4>6, <4>7, <4>8, <4>9, <4>10, <4>11, <4>12, <4>13, <4>14,
              <4>15 DEF ReceiverStep
      <3>21. CASE StreamBreaks
        BY <3>21, <3>7 DEF StreamBreaks
      <3>22. CASE SenderStops \/ ReceiverFails \/ ReceiverEnds
        BY <3>22, <3>1, <3>6 DEF SenderStops, ReceiverFails, ReceiverEnds, SenderReturns, ReceiverReturns, Fails,
           QueuesOK
      <3>23. CASE SourceChanges \/ CancelRow \/ CleanupStage \/ (\E s \in Slots : Touch(s)) \/ UNCHANGED trVars
        <4>1. UNCHANGED <<s2r, r2s, link>>
          BY <3>23 DEF SourceChanges, CancelRow, CleanupStage, Touch, wire, trVars
        <4> QED BY <4>1, <3>1 DEF QueuesOK
      <3> QED BY <3>18, <3>19, <3>20, <3>21, <3>22, <3>23 DEF TransferNext
    <2>6. /\ DOMAIN row' = {"state", "plan"} /\ DOMAIN seen' = {"linked", "acked", "confirmed"}
          /\ seen'.linked \subseteq Slots /\ seen'.acked \subseteq Pairs
      <3> DEFINE RowOK == DOMAIN row = {"state", "plan"}
                 SeenOK == DOMAIN seen = {"linked", "acked", "confirmed"} /\ seen.linked \subseteq Slots
                           /\ seen.acked \subseteq Pairs
      <3>1. RowOK /\ SeenOK
        BY <2>1 DEF WireTypeOK
      <3>2. CASE UNCHANGED <<row, seen>>
        BY <3>1, <3>2
      <3>3. ASSUME NEW st, Resumable(st) \/ (\E p : row' = [row EXCEPT !.plan = p])
                           \/ (\E p : row' = [state |-> st, plan |-> p])
            PROVE  RowOK'
        BY <3>1, <3>3 DEF Resumable
      <3>4. ASSUME SenderAcked PROVE RowOK' /\ SeenOK'
        <4>1. row' = row /\ (seen' = seen \/ (AckFits(Head(r2s).arg) /\ seen' = [seen EXCEPT !.acked = @ \cup {snd.chunk}]))
          BY <3>4 DEF SenderAcked
        <4>2. Head(r2s) \in Answers /\ Head(r2s).op = "ack"
          BY <3>4, <2>1 DEF SenderAcked, SenderReads, WireTypeOK
        <4>3. AckFits(Head(r2s).arg) => snd.chunk \in Pairs
          BY <4>2, <1>FramesHold DEF AckFits
        <4> QED BY <3>1, <4>1, <4>3
      <3>5. ASSUME NEW e \in Entries, TakeName(e) PROVE RowOK' /\ SeenOK'
        <4>1. row' = row /\ seen' = [seen EXCEPT !.linked = @ \cup {Place(e)}]
          BY <3>5 DEF TakeName
        <4>2. rcv.pc = "link" /\ e = Min(Left)
          BY <3>5 DEF TakeName, Taking
        <4>3. IsPlan(rcv.plan) /\ e \in Selection(rcv.plan)
          BY <4>2, <2>1 DEF ReceiverTypeOK, Left
        <4>4. Place(e) \in Slots
          BY <4>3, <1>SlotsOfPlans DEF Place
        <4> QED BY <3>1, <4>1, <4>4
      <3>6. ASSUME ReceiverConfirmed PROVE RowOK' /\ SeenOK'
        <4>1. SeenOK'
          BY <3>1, <3>6 DEF ReceiverConfirmed
        <4> QED BY <3>3, <3>6, <4>1 DEF ReceiverConfirmed
      <3>7. ASSUME CleanupStage PROVE RowOK' /\ SeenOK'
        BY <3>1, <3>7 DEF CleanupStage
      <3> HIDE DEF RowOK
      <3>8. ASSUME UNCHANGED seen, RowOK' PROVE RowOK' /\ SeenOK'
        BY <3>1, <3>8
      <3> HIDE DEF SeenOK
      <3>9. ASSUME UNCHANGED seen PROVE RowOK'
        <4>1. UNCHANGED row => RowOK'
          BY <3>1 DEF RowOK
        <4>2. CASE Connect \/ SenderStep \/ StreamBreaks \/ SenderStops \/ SourceChanges
                   \/ (\E s \in Slots : Touch(s)) \/ UNCHANGED trVars
          BY <4>1, <4>2 DEF Connect, SenderStep, SenderAccepts, SenderRefuses, SenderServes, SenderAcked,
             SenderFinishes, SenderConfirms, SenderCompletes, SenderGivesUp, StreamBreaks, SenderStops,
             SourceChanges, Touch, trVars
        <4>3. CASE ReceiverStep
          <5>1. CASE ResumeOffer
            BY <5>1, <4>1, <3>3 DEF ResumeOffer, Resumable
          <5>2. ASSUME NEW requested, NEW policy, AcceptOffer(requested, policy) PROVE RowOK'
            BY <5>2, <3>3 DEF AcceptOffer
          <5>3. CASE RejectOffer
            BY <5>3, <3>3 DEF RejectOffer
          <5>4. CASE PlanReady
            BY <5>4, <3>3 DEF PlanReady, PlanRecorded
          <5>5. ASSUME NEW f, NEW e, OpenRefused \/ RestoreRefused(f) \/ Register \/ CommitFails(e)
                                     \/ ReceiverConfirmed \/ ReceiverGivesUp
                PROVE  RowOK'
            BY <5>5, <4>1, <3>3 DEF OpenRefused, RestoreRefused, Register, CommitFails, ReceiverConfirmed,
               ReceiverGivesUp, ReceiverRefuses, Fails
          <5>6. ASSUME NEW f, NEW e, \/ OpenStage \/ SkipFile(f) \/ RestoreCommitted(f) \/ CopyPart(f) \/ ReplacePart
                                     \/ OpenDone \/ ReceiverBegins \/ WriteChunk \/ AskNext \/ ReceiverFinishes
                                     \/ RenameEntry(e) \/ Intend(e) \/ TakeName(e) \/ NameTaken(e)
                                     \/ UseDirectory \/ RecordCommit \/ ReceiverCompletes
                PROVE  RowOK'
            BY <5>6, <4>1 DEF OpenStage, SkipFile, RestoreCommitted, CopyPart, ReplacePart, OpenDone,
               ReceiverBegins, WriteChunk, AskNext, ReceiverFinishes, RenameEntry, Intend, TakeName,
               NameTaken, UseDirectory, RecordCommit, ReceiverCompletes
          <5> QED BY <4>3, <5>1, <5>2, <5>3, <5>4, <5>5, <5>6 DEF ReceiverStep
        <4>4. CASE ReceiverFails \/ CancelRow \/ CleanupStage
          BY <4>1, <4>4, <3>3 DEF ReceiverFails, CancelRow, CleanupStage, Fails
        <4>5. CASE ReceiverEnds
          <5>1. \E st : Resumable(st)
            BY <4>5, <3>1 DEF ReceiverEnds, Resumable, RowOK
          <5> QED BY <5>1, <3>3
        <4> QED BY <4>2, <4>3, <4>4, <4>5 DEF TransferNext
      <3>10. \/ UNCHANGED seen \/ SenderAcked \/ (\E e \in Entries : TakeName(e)) \/ ReceiverConfirmed
             \/ CleanupStage
        <4>1. CASE Connect \/ SenderStep \/ StreamBreaks \/ SenderStops \/ SourceChanges
                   \/ (\E s \in Slots : Touch(s)) \/ UNCHANGED trVars
          BY <4>1 DEF Connect, SenderStep, SenderAccepts, SenderRefuses, SenderServes,
             SenderFinishes, SenderConfirms, SenderCompletes, SenderGivesUp, StreamBreaks, SenderStops,
             SourceChanges, Touch, trVars
        <4>2. CASE ReceiverStep
          BY <4>2 DEF ReceiverStep, ResumeOffer, RejectOffer, OpenStage, OpenRefused, AcceptOffer,
             SkipFile, RestoreCommitted, RestoreRefused, CopyPart, ReplacePart, OpenDone, PlanReady,
             Register, ReceiverBegins, WriteChunk, AskNext, ReceiverFinishes, RenameEntry, Intend,
             NameTaken, CommitFails, UseDirectory, RecordCommit, ReceiverCompletes, ReceiverGivesUp
        <4>3. CASE ReceiverFails \/ CancelRow \/ CleanupStage \/ ReceiverEnds
          BY <4>3 DEF ReceiverFails, CancelRow, ReceiverEnds
        <4> QED BY <4>1, <4>2, <4>3 DEF TransferNext
      <3>11. RowOK' /\ SeenOK'
        BY <3>4, <3>5, <3>6, <3>7, <3>8, <3>9, <3>10
      <3> QED BY <3>11 DEF RowOK, SeenOK
    <2> QED BY <2>1, <2>2, <2>3, <2>4, <2>5, <2>6 DEF TransferTypeOK, WireTypeOK
  <1>1. TransferInit => TransferTypeOK /\ TransferIInv
    <2> SUFFICES ASSUME TransferInit PROVE TransferTypeOK /\ TransferIInv
      OBVIOUS
    <2>1. /\ snd = NoSender /\ rcv = NoReceiver /\ sent = [selection |-> <<>>, completed |-> FALSE]
          /\ disk = [stage |-> FALSE, part |-> [f \in Files |-> {}], new |-> FALSE, same |-> {}, saved |-> NoState]
          /\ target = [s \in Slots |-> "free"] /\ row = [state |-> "none", plan |-> NoPlan]
          /\ s2r = <<>> /\ r2s = <<>> /\ link = "none"
          /\ seen = [linked |-> {}, acked |-> {}, confirmed |-> FALSE]
      BY DEF TransferInit
    <2>2. SenderTypeOK
      BY <2>1 DEF SenderTypeOK, NoSender, SenderSteps
    <2>3. ReceiverTypeOK
      BY <2>1 DEF ReceiverTypeOK, NoReceiver, ReceiverFields, ReceiverSteps
    <2>4. DiskTypeOK /\ ~Loaded
      BY <2>1 DEF DiskTypeOK, NoState, SavedFields, Names, Loaded
    <2>5. WireTypeOK
      <3>1. <<>> \in Seq(Requests) /\ <<>> \in Seq(Answers)
        OBVIOUS
      <3> QED BY <2>1, <3>1 DEF WireTypeOK
    <2>6. PublicationIInv
      <3>1. rcv.pc = "idle" /\ rcv.committed = {} /\ disk.saved.committed = {} /\ \A s \in Slots : ~Ours(s)
        BY <2>1 DEF NoReceiver, NoState, Ours
      <3> QED BY <2>4, <3>1 DEF PublicationIInv, Follows, NamesAreClaimed, ClaimsArePublished, NothingTakenTwice, Following
    <2>7. rcv.pc = "idle" /\ snd.pc = "idle" /\ (\A f \in Files : disk.part[f] = {}) /\ seen.acked = {}
          /\ row.state = "none" /\ ~sent.completed
      BY <2>1 DEF NoReceiver, NoSender
    <2>8. Agreement /\ AgreedBeforeBody /\ AcksAreSound /\ Completion
      BY <2>7 DEF Agreement, Agreed, AgreedBeforeBody, AcksAreSound, Completion
    <2>9. Conversation
      BY <2>1, <2>7 DEF Conversation
    <2> QED BY <2>2, <2>3, <2>4, <2>5, <2>6, <2>8, <2>9 DEF TransferTypeOK, TransferIInv
  <1>2. TransferTypeOK /\ TransferIInv /\ [TransferNext]_trVars => TransferTypeOK' /\ TransferIInv'
    <2> SUFFICES ASSUME TransferTypeOK, TransferIInv, [TransferNext]_trVars PROVE TransferTypeOK' /\ TransferIInv'
      OBVIOUS
    <2>1. TransferTypeOK'
      BY <1>TransferTypeStep
    <2>2. PublicationIInv'
      BY <2>1, <1>PublicationStep DEF TransferIInv
    <2>3. Conversation'
      BY <2>1, <1>ConversationStep DEF TransferIInv
    <2> QED BY <2>1, <2>2, <2>3, <1>AgreementStep DEF TransferIInv
  <1>3. ASSUME TransferTypeOK, TransferIInv PROVE TransferInv
    <2>1. PublishedOnce
      <3>1. SUFFICES ASSUME NEW e \in Entries
                     PROVE  Cardinality({s \in Slots : s[1] = e /\ target[s] = "ours"}) <= 1
        BY DEF PublishedOnce
      <3>2. PICK S : S = {s \in Slots : s[1] = e /\ target[s] = "ours"}
        OBVIOUS
      <3>3. S \subseteq {Slot(disk.saved.plan, e)}
        BY <1>3, <3>2 DEF TransferIInv, PublicationIInv, NamesAreClaimed, Ours
      <3>4. S = {} \/ S = {Slot(disk.saved.plan, e)}
        BY <3>3
      <3>5. Cardinality(S) = 0 \/ Cardinality(S) = 1
        BY <3>4, FS_EmptySet, FS_Singleton
      <3> QED BY <3>2, <3>5
    <2>2. CommittedIsOurs
      BY <1>3 DEF TransferIInv, PublicationIInv, ClaimsArePublished, CommittedIsOurs
    <2>3. AgreedBeforeBody
      BY <1>3 DEF TransferIInv
    <2>4. AcksAreFitting
      <3>1. r2s # <<>> => Head(r2s) = r2s[1] /\ 1 \in 1 .. Len(r2s)
        BY <1>3 DEF TransferTypeOK, WireTypeOK
      <3> QED BY <1>3, <3>1 DEF TransferIInv, AcksAreSound, AcksAreFitting
    <2> QED BY <2>1, <2>2, <2>3, <2>4 DEF TransferInv
  <1> QED BY <1>1, <1>2, <1>3, PTL DEF TransferSpec

\* Neither side's task completes before what both agreed on is published and the
\* receiver's checkpoint says so: not when a receipt or its answer is lost either.
THEOREM CompletedIsPublished == TransferSpec => []CompletedMeansPublished
  <1>1. TransferIInv => CompletedMeansPublished
    BY DEF TransferIInv, Completion, Published, CompletedMeansPublished
  <1> QED BY <1>1, TransferHolds, PTL

\* A chunk that the sender was told of stays in the staged file, whatever ends
\* while the file is replaced or published.
THEOREM AcknowledgedIsKept == TransferSpec => []AcknowledgedStays
  <1>1. TransferIInv => AcknowledgedStays
    BY DEF TransferIInv, AcksAreSound, AcknowledgedStays
  <1> QED BY <1>1, TransferHolds, PTL
=============================================================================
