-------------------------- MODULE ShareGrantProofs --------------------------
(***************************************************************************)
(* Theorems about the share grants, for every set of devices and           *)
(* identifiers, every time to live and every limit.                        *)
(***************************************************************************)
EXTENDS ShareGrant, FiniteSetTheorems, TLAPS

(***************************************************************************)
(* What one step of the server does to one row                             *)
(***************************************************************************)
RecordStep(r, q) ==
  \/ q = r
  \/ /\ r.state = "absent" /\ Validate(q)
     /\ \E a \in Actors, m \in Manifests, k \in Codes : q = NewRecord(a, m, k)
  \/ /\ r.state # "absent" /\ Validate(q)
     /\ \/ \E a \in Actors, k \in Codes, c \in ClaimIDs :
             ClaimApplies(r, a, k, c) /\ q = Claimed(r, a, c)
        \/ \E a \in Actors, b \in Actors, m \in Manifests, c \in ClaimIDs,
              ap \in ApprovalIDs, t \in TaskIDs, n \in Nat :
             ApproveApplies(r, a, b, m, c, ap, t, n) /\ q = ApprovedRecord(r, ap, t)
        \/ \E a \in Actors, c \in ClaimIDs, n \in Nat :
             DenyApplies(r, a, c, n) /\ q = Reoffered(r)
        \/ \E a \in Actors, t \in TaskIDs, m \in Manifests, p \in Plans, n \in Nat :
             BindApplies(r, a, t, m, p, n) /\ q = BoundRecord(r, p)
        \/ \E a \in Actors, t \in TaskIDs, m \in Manifests, p \in Plans, n \in Nat :
             Authorize(r, a, t, m, p, n) /\ q = CompletedRecord(r)
        \/ \E a \in Actors : RevokeApplies(r, a) /\ q = RevokedRecord(r)
        \/ Due(r, tick) /\ q = Reconciled(r, tick)
  \/ Terminal(r) /\ r.finishedAt + Retention <= tick /\ q = Absent

LEMMA StoreStep ==
  ASSUME TypeOK, NEW g \in GrantIDs, NEW q, Store(g, q)
  PROVE  /\ Validate(q) /\ grants' = [grants EXCEPT ![g] = q] /\ grants'[g] = q
         /\ \A h \in GrantIDs : h # g => grants'[h] = grants[h]
  BY DEF Store, TypeOK

\* Every step makes each row take a RecordStep and keeps the table's rows.
LEMMA StepsAreRecordSteps ==
  ASSUME TypeOK, [Next]_vars, NEW h \in GrantIDs
  PROVE  RecordStep(grants[h], grants'[h])
  <1> USE DEF Present
  <1>1. ASSUME NEW g \in GrantIDs, NEW a \in Actors, NEW m \in Manifests, NEW k \in Codes,
               CreateShare(g, a, m, k)
        PROVE  RecordStep(grants[h], grants'[h])
    BY <1>1, StoreStep DEF CreateShare, RecordStep
  <1>2. ASSUME NEW g \in GrantIDs, NEW a \in Actors, NEW k \in Codes, NEW c \in ClaimIDs,
               ClaimShare(g, a, k, c)
        PROVE  RecordStep(grants[h], grants'[h])
    BY <1>2, StoreStep DEF ClaimShare, RecordStep
  <1>3. ASSUME NEW g \in GrantIDs, NEW a \in Actors, NEW b \in Actors, NEW m \in Manifests,
               NEW c \in ClaimIDs, NEW ap \in ApprovalIDs, NEW t \in TaskIDs, NEW n \in Nat,
               ApproveShare(g, a, b, m, c, ap, t, n)
        PROVE  RecordStep(grants[h], grants'[h])
    BY <1>3, StoreStep DEF ApproveShare, RecordStep
  <1>4. ASSUME NEW g \in GrantIDs, NEW a \in Actors, NEW c \in ClaimIDs, NEW n \in Nat,
               DenyShare(g, a, c, n)
        PROVE  RecordStep(grants[h], grants'[h])
    BY <1>4, StoreStep DEF DenyShare, RecordStep
  <1>5. ASSUME NEW g \in GrantIDs, NEW a \in Actors, NEW t \in TaskIDs, NEW m \in Manifests,
               NEW p \in Plans, NEW n \in Nat,
               BindShare(g, a, t, m, p, n) \/ CompleteShare(g, a, t, m, p, n)
        PROVE  RecordStep(grants[h], grants'[h])
    BY <1>5, StoreStep DEF BindShare, CompleteShare, RecordStep
  <1>6. ASSUME NEW g \in GrantIDs, NEW a \in Actors, RevokeShare(g, a)
        PROVE  RecordStep(grants[h], grants'[h])
    BY <1>6, StoreStep DEF RevokeShare, RecordStep
  <1>7. CASE Requests
    <2>1. 1 .. MaxClaims + 1 \subseteq Nat
      BY LimitAssumption
    <2> QED BY <1>1, <1>2, <1>3, <1>4, <1>5, <1>6, <1>7, <2>1 DEF Requests
  <1>8. CASE ReconcileShareGrants
    <2>1. PICK rows \in SUBSET DueGrants, old \in SUBSET OldTombstones :
            grants' = IF \A g \in rows : /\ InEraAt(grants[g], tick)
                                         /\ Validate(Reconciled(grants[g], tick))
                      THEN [g \in GrantIDs |->
                              IF g \in rows THEN Reconciled(grants[g], tick)
                              ELSE IF g \in old THEN Absent
                              ELSE grants[g]]
                      ELSE grants
      BY <1>8 DEF ReconcileShareGrants, Limited
    <2>2. CASE h \in rows
      BY <2>1, <2>2 DEF DueGrants, RecordStep
    <2>3. CASE h \notin rows /\ h \in old
      BY <2>1, <2>3 DEF OldTombstones, RecordStep
    <2>4. CASE h \notin rows /\ h \notin old
      BY <2>1, <2>4 DEF RecordStep
    <2> QED BY <2>2, <2>3, <2>4
  <1>9. CASE ReapExpired \/ Tick \/ SetBack \/ Horizon \/ UNCHANGED vars
    BY <1>9 DEF ReapExpired, Tick, SetBack, Horizon, vars, RecordStep
  <1> QED BY <1>7, <1>8, <1>9 DEF Next

(***************************************************************************)
(* The type invariant                                                      *)
(***************************************************************************)
\* A request writes one row and leaves the clocks alone.
LEMMA RequestsStore ==
  ASSUME Requests
  PROVE  now' = now /\ tick' = tick /\ \E g \in GrantIDs : \E q : Store(g, q)
  <1> DEFINE Wrote(g) == now' = now /\ tick' = tick /\ \E q : Store(g, q)
  <1>1. \A g, a, m, k : CreateShare(g, a, m, k) => Wrote(g)
    BY DEF CreateShare
  <1>2. \A g, a, k, c : ClaimShare(g, a, k, c) => Wrote(g)
    BY DEF ClaimShare
  <1>3. \A g, a, b, m, c, ap, t, n : ApproveShare(g, a, b, m, c, ap, t, n) => Wrote(g)
    BY DEF ApproveShare
  <1>4. \A g, a, c, n : DenyShare(g, a, c, n) => Wrote(g)
    BY DEF DenyShare
  <1>5. \A g, a, t, m, p, n : BindShare(g, a, t, m, p, n) \/ CompleteShare(g, a, t, m, p, n) => Wrote(g)
    BY DEF BindShare, CompleteShare
  <1>6. \A g, a : RevokeShare(g, a) => Wrote(g)
    BY DEF RevokeShare
  <1> HIDE DEF Wrote
  <1>7. \E g \in GrantIDs : Wrote(g)
    BY <1>1, <1>2, <1>3, <1>4, <1>5, <1>6 DEF Requests
  <1> QED BY <1>7 DEF Wrote

LEMMA TypeStep == ASSUME TypeOK, [Next]_vars PROVE TypeOK'
  \* A row that is not there is still a value of the type.
  <1>AbsentType. Absent \in Record
    BY DEF Absent, Record
  \* A new offer is a record.
  <1>NewRecordType. ASSUME now \in Nat, NEW a \in Actors, NEW m \in Manifests, NEW k \in Codes
                    PROVE  NewRecord(a, m, k) \in Record
    <2>1. now + OfferTTL \in Nat
      BY <1>NewRecordType, TTLAssumption
    <2> DEFINE first == [Absent EXCEPT !.state = "offered", !.sender = a, !.manifest = m,
                                       !.code = k]
               second == [first EXCEPT !.generation = 1, !.revision = 1,
                                       !.createdAt = now, !.expiresAt = now + OfferTTL]
    <2>2. first \in Record
      BY <1>AbsentType DEF Record, States
    <2>3. NewRecord(a, m, k) = second
      BY DEF NewRecord
    <2> HIDE DEF first
    <2>4. second \in Record
      BY <1>NewRecordType, <2>1, <2>2 DEF Record
    <2> QED BY <2>3, <2>4
  \* What a step makes of a record of the table's type is one too.
  <1>RecordStepType. ASSUME now \in Nat, tick \in Nat, NEW r \in Record, NEW q, RecordStep(r, q)
                     PROVE  q \in Record
    <2> USE <1>RecordStepType
    <2>1. /\ r.revision + 1 \in Nat /\ r.generation + 1 \in Nat /\ r.generation \in Nat
          /\ r.expiresAt \in Nat /\ r.createdAt \in Nat /\ r.claimUntil \in Nat
          /\ r.resumeUntil \in Nat /\ r.finishedAt \in Nat
          /\ r.claimID \in ClaimIDs \cup {Null} /\ r.receiver \in Actors \cup {Null}
      BY DEF Record
    <2>2. ASSUME NEW x \in Record PROVE Bumped(x) \in Record
      <3>1. x.revision + 1 \in Nat
        BY DEF Record
      <3> QED BY <3>1 DEF Record, Bumped, States
    <2>3. ASSUME NEW a \in Actors, NEW m \in Manifests, NEW k \in Codes
          PROVE  NewRecord(a, m, k) \in Record
      BY <1>NewRecordType
    <2>4. ASSUME NEW a \in Actors, NEW c \in ClaimIDs
          PROVE  Claimed(r, a, c) \in Record
      <3> DEFINE until == Min2(now + ClaimTTL, r.expiresAt)
                 gen == IF r.state = "pending" THEN r.generation + 1 ELSE r.generation
                 held == [r EXCEPT !.state = "pending", !.receiver = a, !.claimID = c,
                                   !.claimUntil = until, !.generation = gen]
      <3>1. until \in Nat /\ gen \in Nat
        BY <2>1, TTLAssumption DEF Min2
      <3>2. Claimed(r, a, c) = Bumped(held)
        BY DEF Claimed
      <3> HIDE DEF until, gen
      <3>3. held \in Record
        BY <3>1 DEF Record, States
      <3> QED BY <3>2, <3>3, <2>2
    <2>5. ASSUME NEW ap \in ApprovalIDs, NEW t \in TaskIDs
          PROVE  ApprovedRecord(r, ap, t) \in Record
      <3>1. [r EXCEPT !.state = "approved", !.approvalID = ap, !.taskID = t] \in Record
        BY DEF Record, States
      <3> QED BY <3>1, <2>2 DEF ApprovedRecord
    <2>6. Reoffered(r) \in Record
      <3>0. r.generation + 1 \in Nat /\ r.claimID \in ClaimIDs \cup {Null}
        BY <2>1
      <3>1. [r EXCEPT !.state = "offered", !.generation = @ + 1,
                      !.deniedClaimID = r.claimID, !.claimID = Null,
                      !.receiver = Null, !.claimUntil = 0] \in Record
        BY <3>0 DEF Record, States
      <3> QED BY <3>1, <2>2 DEF Reoffered
    <2>7. ASSUME NEW p \in Plans
          PROVE  BoundRecord(r, p) \in Record
      <3>1. now + ResumeTTL \in Nat
        BY TTLAssumption
      <3>2. [r EXCEPT !.state = "bound", !.plan = p, !.resumeUntil = now + ResumeTTL] \in Record
        BY <3>1 DEF Record, States
      <3> QED BY <3>2, <2>2 DEF BoundRecord
    <2>8. ASSUME NEW t \in Nat
          PROVE  /\ now = t => CompletedRecord(r) \in Record /\ RevokedRecord(r) \in Record
                 /\ ExpiredRecord(r, t) \in Record
      <3>1. [r EXCEPT !.state = "completed", !.finishedAt = t] \in Record
        BY DEF Record, States
      <3>2. [r EXCEPT !.state = "revoked", !.generation = @ + 1, !.finishedAt = t] \in Record
        BY <2>1 DEF Record, States
      <3>3. [r EXCEPT !.state = "expired", !.finishedAt = t] \in Record
        BY DEF Record, States
      <3> QED BY <3>1, <3>2, <3>3, <2>2 DEF CompletedRecord, RevokedRecord, ExpiredRecord
    <2>9. Reconciled(r, tick) \in Record
      BY <2>8, <2>6 DEF Reconciled
    <2> QED BY <2>3, <2>4, <2>5, <2>6, <2>7, <2>8, <2>9, <1>AbsentType DEF RecordStep
  <1>1. now' \in Nat \ {0} /\ tick' \in Nat
    <2>1. CASE Requests
      BY <2>1, RequestsStore DEF TypeOK
    <2>2. CASE ReconcileShareGrants
      BY <2>2 DEF ReconcileShareGrants, TypeOK
    <2>3. CASE ReapExpired \/ Tick \/ SetBack \/ Horizon \/ UNCHANGED vars
      BY <2>3 DEF ReapExpired, Tick, SetBack, Horizon, vars, TypeOK
    <2> QED BY <2>1, <2>2, <2>3 DEF Next
  <1>2. \A h \in GrantIDs : grants'[h] \in Record
    <2> TAKE h \in GrantIDs
    <2>1. grants[h] \in Record /\ now \in Nat /\ tick \in Nat
      BY DEF TypeOK
    <2> QED BY <2>1, StepsAreRecordSteps, <1>RecordStepType
  <1>3. grants' = [h \in GrantIDs |-> grants'[h]]
    <2>1. CASE Requests
      BY <2>1, RequestsStore DEF Store, TypeOK
    <2>2. CASE ReconcileShareGrants
      BY <2>2 DEF ReconcileShareGrants, TypeOK
    <2>3. CASE ReapExpired \/ Tick \/ SetBack \/ Horizon \/ UNCHANGED vars
      BY <2>3 DEF ReapExpired, Tick, SetBack, Horizon, vars, TypeOK
    <2> QED BY <2>1, <2>2, <2>3 DEF Next
  <1> QED BY <1>1, <1>2, <1>3 DEF TypeOK

\* Whatever requests, reaper passes and clock corrections do, every row stays a
\* record of the table's type.
THEOREM TypeCorrect == Spec => []TypeOK
  <1>1. Init => TypeOK
    BY DEF Init, TypeOK, Absent, Record
  <1>2. TypeOK /\ [Next]_vars => TypeOK'
    BY TypeStep
  <1> QED BY <1>1, <1>2, PTL DEF Spec

(***************************************************************************)
(* Stored records are valid, and so is whatever a transition makes of one  *)
(***************************************************************************)
\* The inductive invariant.
Inv == TypeOK /\ \A g \in GrantIDs : Present(g) => Validate(grants[g])

THEOREM InvCorrect == Spec => []Inv
  <1>InvStep. ASSUME Inv, [Next]_vars PROVE Inv'
    <2> USE <1>InvStep
    <2>1. TypeOK'
      BY TypeStep DEF Inv
    <2>2. ASSUME NEW g \in GrantIDs, grants'[g].state # "absent"
          PROVE  Validate(grants'[g])
      <3>1. RecordStep(grants[g], grants'[g])
        BY StepsAreRecordSteps DEF Inv
      <3>2. CASE grants'[g] = grants[g]
        BY <2>2, <3>2 DEF Inv, Present
      <3>3. CASE grants'[g] = Absent
        BY <2>2, <3>3 DEF Absent
      <3> QED BY <3>1, <3>2, <3>3 DEF RecordStep
    <2>3. \A g \in GrantIDs : Present(g)' => Validate(grants[g])'
      BY <2>2 DEF Present, Validate, Terminal
    <2> QED BY <2>1, <2>3 DEF Inv
  <1>1. Init => Inv
    BY DEF Init, Inv, TypeOK, Present, Absent, Record
  <1>2. Inv /\ [Next]_vars => Inv'
    BY <1>InvStep
  <1> QED BY <1>1, <1>2, PTL DEF Spec

\* No accepted transition and no due row is thrown away by the Validate call
\* that guards the write, for every clock and every time to live.
THEOREM AcceptedIsValid == Spec => []TransitionsStayValid
  \* The transitions a valid record accepts.
  <1>AcceptedFromValid.
      ASSUME now \in Nat, tick \in Nat, NEW r \in Record, Validate(r)
      PROVE  /\ \A a \in Actors, c \in ClaimIDs :
                  ClaimApplies(r, a, r.code, c) => Validate(Claimed(r, a, c))
             /\ \A ap \in ApprovalIDs, t \in TaskIDs :
                  ApproveApplies(r, r.sender, r.receiver, r.manifest, r.claimID, ap, t, r.generation)
                    => Validate(ApprovedRecord(r, ap, t))
             /\ DenyApplies(r, r.sender, r.claimID, r.generation) => Validate(Reoffered(r))
             /\ \A p \in Plans :
                  BindApplies(r, r.receiver, r.taskID, r.manifest, p, r.generation)
                    => Validate(BoundRecord(r, p))
             /\ Authorize(r, r.sender, r.taskID, r.manifest, r.plan, r.generation)
                  => Validate(CompletedRecord(r))
             /\ RevokeApplies(r, r.sender) => Validate(RevokedRecord(r))
             /\ Due(r, tick) => InEraAt(r, tick) /\ Validate(Reconciled(r, tick))
    <2> USE <1>AcceptedFromValid
    <2>1. ASSUME NEW a \in Actors, NEW c \in ClaimIDs, NEW k, ClaimApplies(r, a, k, c)
          PROVE  Validate(Claimed(r, a, c))
      BY <2>1, TTLAssumption, NullAssumption
         DEF Claimed, Bumped, Validate, Terminal, ClaimApplies, LiveOffer, InEra, InEraAt,
             Min2, Record, States, Live, Settled
    <2>2. ASSUME NEW ap \in ApprovalIDs, NEW t \in TaskIDs,
                 ApproveApplies(r, r.sender, r.receiver, r.manifest, r.claimID, ap, t, r.generation)
          PROVE  Validate(ApprovedRecord(r, ap, t))
      BY <2>2, TTLAssumption, NullAssumption
         DEF ApprovedRecord, Bumped, Validate, Terminal, ApproveApplies, LiveOffer, InEra,
             InEraAt, Min2, Record, States, Live, Settled
    <2>3. ASSUME r.state = "pending"
          PROVE  Validate(Reoffered(r))
      BY <2>3, TTLAssumption, NullAssumption
         DEF Reoffered, Bumped, Validate, Terminal, Record, States, Live, Settled
    <2>4. ASSUME NEW p \in Plans,
                 BindApplies(r, r.receiver, r.taskID, r.manifest, p, r.generation)
          PROVE  Validate(BoundRecord(r, p))
      BY <2>4, TTLAssumption, NullAssumption
         DEF BoundRecord, Bumped, Validate, Terminal, BindApplies, BindMatches, LiveOffer,
             InEra, InEraAt, Min2, Record, States, Live, Settled
    <2>5. ASSUME InEra(r), r.state = "bound"
          PROVE  Validate(CompletedRecord(r))
      BY <2>5, TTLAssumption, NullAssumption
         DEF CompletedRecord, Bumped, Validate, Terminal, InEra, InEraAt, Record, States,
             Live, Settled
    <2>6. ASSUME InEra(r), ~Terminal(r)
          PROVE  Validate(RevokedRecord(r))
      BY <2>6, TTLAssumption, NullAssumption
         DEF RevokedRecord, Bumped, Validate, Terminal, InEra, InEraAt, Record, States, Live,
             Settled
    <2>7. ASSUME Due(r, tick) PROVE InEraAt(r, tick) /\ Validate(Reconciled(r, tick))
      <3>1. InEraAt(r, tick)
        BY <2>7, TTLAssumption DEF Due, Validate, InEraAt, Record, States, Settled
      <3>2. Validate(ExpiredRecord(r, tick))
        BY <2>7, TTLAssumption, NullAssumption, <3>1
           DEF ExpiredRecord, Bumped, Due, Validate, Terminal, InEraAt, Record, States, Live, Settled
      <3> QED BY <3>1, <3>2, <2>3 DEF Reconciled
    <2> QED BY <2>1, <2>2, <2>3, <2>4, <2>5, <2>6, <2>7 DEF DenyApplies, Authorize, RevokeApplies
  <1>1. Inv => TransitionsStayValid
    <2> SUFFICES ASSUME Inv PROVE TransitionsStayValid
      OBVIOUS
    <2>1. \A g \in GrantIDs : Present(g) =>
            grants[g] \in Record /\ Validate(grants[g]) /\ now \in Nat /\ tick \in Nat
      BY DEF Inv, TypeOK
    <2> QED BY <2>1, <1>AcceptedFromValid DEF TransitionsStayValid
  <1> QED BY <1>1, InvCorrect, PTL

\* A retry of the request that last changed a share is answered with the
\* stored record, as long as the clock is not before the share's creation.
THEOREM RetriesAreAnswered == Spec => []RetryIsAnswered
  <1>1. Inv => RetryIsAnswered
    <2> SUFFICES ASSUME Inv, NEW g \in GrantIDs, Present(g), InEra(grants[g])
                 PROVE  LET r == grants[g] IN
                        /\ r.state \in Settled =>
                             /\ ClaimRepeats(r, r.receiver, r.code, r.claimID)
                             /\ ApproveRepeats(r, r.sender, r.receiver, r.manifest, r.claimID,
                                               r.approvalID, r.taskID, r.generation)
                        /\ r.state \in {"bound", "completed"} =>
                             BindRepeats(r, r.receiver, r.taskID, r.manifest, r.plan, r.generation)
                        /\ r.state = "completed" =>
                             CompleteRepeats(r, r.sender, r.taskID, r.manifest, r.plan, r.generation)
                        /\ r.state = "offered" /\ r.deniedClaimID # Null =>
                             DenyRepeats(r, r.sender, r.deniedClaimID, r.generation - 1)
                        /\ r.state = "revoked" => RevokeRepeats(r, r.sender)
      BY DEF RetryIsAnswered
    <2>1. grants[g] \in Record /\ Validate(grants[g])
      BY DEF Inv, TypeOK
    <2> QED BY <2>1 DEF Validate, Settled, ClaimRepeats, ApproveRepeats, BindRepeats, BindMatches,
                        CompleteRepeats, IsParty, DenyRepeats, RevokeRepeats, Record
  <1> QED BY <1>1, InvCorrect, PTL

(***************************************************************************)
(* What a step may never do to a row                                       *)
(***************************************************************************)
LEMMA RowSteps ==
  ASSUME Inv, [Next]_vars, NEW g \in GrantIDs
  PROVE  /\ grants[g] \in Record /\ now \in Nat /\ tick \in Nat
         /\ grants[g].state # "absent" => Validate(grants[g])
         /\ RecordStep(grants[g], grants'[g])
  BY StepsAreRecordSteps DEF Inv, TypeOK, Present

\* The generation never falls and two claims never share one, so what was
\* issued for one claimant can never take effect for another.
THEOREM GenerationsFence == Spec => GenerationFences
  <1>GenerationStep. ASSUME now \in Nat, tick \in Nat, NEW r \in Record, NEW q, RecordStep(r, q),
                            Validate(r), r.state # "absent", q.state # "absent"
                     PROVE  /\ q.generation >= r.generation
                            /\ r.claimID # Null /\ q.generation = r.generation =>
                                 q.claimID = r.claimID /\ q.receiver = r.receiver
    <2> USE <1>GenerationStep
    <2>1. r.generation \in Nat
      BY DEF Record
    <2>2. ASSUME NEW a \in Actors, NEW k \in Codes, NEW c \in ClaimIDs, ClaimApplies(r, a, k, c),
                 q = Claimed(r, a, c)
          PROVE  q.generation >= r.generation /\ (r.claimID # Null => q.generation # r.generation)
      BY <2>1, <2>2 DEF ClaimApplies, Claimed, Bumped, Validate, Record
    <2>3. ASSUME \/ \E ap \in ApprovalIDs, t \in TaskIDs : q = ApprovedRecord(r, ap, t)
                 \/ \E p \in Plans : q = BoundRecord(r, p)
                 \/ q = CompletedRecord(r)
                 \/ q = ExpiredRecord(r, tick)
          PROVE  q.generation = r.generation /\ q.claimID = r.claimID /\ q.receiver = r.receiver
      BY <2>3 DEF ApprovedRecord, BoundRecord, CompletedRecord, ExpiredRecord, Bumped, Record
    <2>4. ASSUME q = Reoffered(r) \/ q = RevokedRecord(r)
          PROVE  q.generation = r.generation + 1
      BY <2>4 DEF Reoffered, RevokedRecord, Bumped, Record
    <2>5. q # Absent
      BY DEF Absent
    <2> QED BY <2>1, <2>2, <2>3, <2>4, <2>5 DEF RecordStep, Reconciled
  <1>1. Inv /\ [Next]_vars =>
          [\A g \in GrantIDs :
             grants[g].state # "absent" /\ grants'[g].state # "absent" =>
               /\ grants'[g].generation >= grants[g].generation
               /\ grants[g].claimID # Null /\ grants'[g].generation = grants[g].generation =>
                    /\ grants'[g].claimID = grants[g].claimID
                    /\ grants'[g].receiver = grants[g].receiver]_vars
    BY RowSteps, <1>GenerationStep
  <1> QED BY <1>1, InvCorrect, PTL DEF Spec, GenerationFences

\* An approved share keeps its receiver, claim, approval and task for good, and
\* a bound one its plan and its deadline.
THEOREM ApprovalsAreExclusive == Spec => ApprovalIsExclusive
  <1>SettledStep. ASSUME now \in Nat, tick \in Nat, NEW r \in Record, NEW q, RecordStep(r, q),
                         q.state # "absent"
                  PROVE  /\ r.state \in Settled =>
                              /\ q.claimID = r.claimID /\ q.receiver = r.receiver
                              /\ q.approvalID = r.approvalID /\ q.taskID = r.taskID
                         /\ r.state = "bound" => q.plan = r.plan /\ q.resumeUntil = r.resumeUntil
    <2> USE <1>SettledStep
    <2>1. ASSUME q = CompletedRecord(r) \/ q = RevokedRecord(r) \/ q = ExpiredRecord(r, tick)
          PROVE  /\ q.claimID = r.claimID /\ q.receiver = r.receiver
                 /\ q.approvalID = r.approvalID /\ q.taskID = r.taskID
                 /\ q.plan = r.plan /\ q.resumeUntil = r.resumeUntil
      BY <2>1 DEF CompletedRecord, RevokedRecord, ExpiredRecord, Bumped, Record
    <2>2. ASSUME NEW p \in Plans, q = BoundRecord(r, p)
          PROVE  /\ q.claimID = r.claimID /\ q.receiver = r.receiver
                 /\ q.approvalID = r.approvalID /\ q.taskID = r.taskID
      BY <2>2 DEF BoundRecord, Bumped, Record
    <2>3. q # Absent
      BY DEF Absent
    <2> QED BY <2>1, <2>2, <2>3 DEF RecordStep, Reconciled, Settled, ClaimApplies, ApproveApplies,
                                    DenyApplies, BindApplies
  <1>1. Inv /\ [Next]_vars =>
          [\A g \in GrantIDs :
             /\ grants[g].state \in Settled /\ grants'[g].state # "absent" =>
                  /\ grants'[g].receiver = grants[g].receiver
                  /\ grants'[g].claimID = grants[g].claimID
                  /\ grants'[g].approvalID = grants[g].approvalID
                  /\ grants'[g].taskID = grants[g].taskID
             /\ grants[g].state = "bound" /\ grants'[g].state # "absent" =>
                  /\ grants'[g].plan = grants[g].plan
                  /\ grants'[g].resumeUntil = grants[g].resumeUntil]_vars
    BY RowSteps, <1>SettledStep
  <1> QED BY <1>1, InvCorrect, PTL DEF Spec, ApprovalIsExclusive

\* A finished share changes no more until a reaper removes it, no sooner than
\* the retention time after its end.
THEOREM FinishedStaysFinished == Spec => FinishedIsFinal
  <1>1. ASSUME NEW r \in Record, NEW q, RecordStep(r, q), Terminal(r), q # r
        PROVE  q = Absent /\ tick >= r.finishedAt + Retention
    BY <1>1, TTLAssumption
       DEF RecordStep, Terminal, Reconciled, Due, ClaimApplies, ApproveApplies, DenyApplies,
           BindApplies, Authorize, RevokeApplies, LiveOffer, Live, Record
  <1>2. Inv /\ [Next]_vars =>
          [\A g \in GrantIDs :
             Terminal(grants[g]) /\ grants'[g] # grants[g] =>
               grants'[g] = Absent /\ tick >= grants[g].finishedAt + Retention]_vars
    BY <1>1, RowSteps
  <1> QED BY <1>2, InvCorrect, PTL DEF Spec, FinishedIsFinal

\* A completed share was completed before its resume deadline.
THEOREM CompletionsInTime == Spec => []CompletedInTime
  <1>1. Init => CompletedInTime
    BY DEF Init, CompletedInTime, Absent
  <1>2. ASSUME now \in Nat, tick \in Nat, NEW r \in Record, NEW q, RecordStep(r, q),
               q.state = "completed"
        PROVE  q = r \/ q.finishedAt < q.resumeUntil
    <2>1. \A a, t, m, p, n :
            Authorize(r, a, t, m, p, n) /\ q = CompletedRecord(r) => q.finishedAt < q.resumeUntil
      BY DEF Authorize, CompletedRecord, Bumped, Record
    <2>2. /\ \A a \in Actors, m \in Manifests, k \in Codes : NewRecord(a, m, k).state = "offered"
          /\ Absent.state = "absent"
      BY DEF NewRecord, Absent
    <2>3. /\ \A a \in Actors, c \in ClaimIDs : Claimed(r, a, c).state = "pending"
          /\ \A ap \in ApprovalIDs, t \in TaskIDs : ApprovedRecord(r, ap, t).state = "approved"
          /\ \A p \in Plans : BoundRecord(r, p).state = "bound"
          /\ Reoffered(r).state = "offered" /\ RevokedRecord(r).state = "revoked"
          /\ ExpiredRecord(r, tick).state = "expired"
      BY DEF Claimed, ApprovedRecord, BoundRecord, Reoffered, RevokedRecord, ExpiredRecord,
             Bumped, Record
    <2> QED BY <1>2, <2>1, <2>2, <2>3 DEF RecordStep, Reconciled
  <1>3. Inv /\ CompletedInTime /\ [Next]_vars => CompletedInTime'
    BY <1>2, RowSteps DEF CompletedInTime
  <1> QED BY <1>1, <1>3, InvCorrect, PTL DEF Spec

(***************************************************************************)
(* The quotas                                                              *)
(***************************************************************************)
\* Only a creation makes a row, and only a claim makes one pending.
Creates == \E g \in GrantIDs, a \in Actors, m \in Manifests, k \in Codes : CreateShare(g, a, m, k)
Claims == \E g \in GrantIDs, a \in Actors, k \in Codes, c \in ClaimIDs : ClaimShare(g, a, k, c)

\* No sender has more live shares and no receiver more live claims than the
\* quota, however many requests interleave and however late the reaper is.
THEOREM QuotasHold == ASSUME ~AllowRollback PROVE Spec => []Quotas
  \* A set of shares that at most one more joins, and only below the limit,
  \* stays within the limit.
  <1>OneMore.
      ASSUME NEW S \in SUBSET GrantIDs, NEW T \in SUBSET GrantIDs, NEW n \in Nat, Cardinality(S) <= n,
             T \subseteq S \/ (Cardinality(S) < n /\ \E g \in GrantIDs : T \subseteq S \cup {g})
      PROVE  Cardinality(T) <= n
    <2> USE <1>OneMore
    <2>1. IsFiniteSet(S) /\ Cardinality(S) \in Nat /\ Cardinality(T) \in Nat
      BY FiniteAssumption, FS_Subset, FS_CardinalityType
    <2>2. CASE T \subseteq S
      <3>1. Cardinality(T) <= Cardinality(S)
        BY <2>1, <2>2, FS_Subset
      <3> QED BY <2>1, <3>1
    <2>3. ASSUME Cardinality(S) < n, NEW g \in GrantIDs, T \subseteq S \cup {g}
          PROVE  Cardinality(T) <= n
      <3>1. IsFiniteSet(S \cup {g}) /\ Cardinality(S \cup {g}) <= Cardinality(S) + 1
        <4>1. /\ IsFiniteSet(S \cup {g})
              /\ Cardinality(S \cup {g}) = IF g \in S THEN Cardinality(S) ELSE Cardinality(S) + 1
          BY <2>1, FS_AddElement, Zenon
        <4> QED BY <2>1, <4>1
      <3>2. Cardinality(T) <= Cardinality(S \cup {g}) /\ Cardinality(S \cup {g}) \in Nat
        BY <2>3, <3>1, FS_Subset, FS_CardinalityType
      <3> QED BY <2>1, <2>3, <3>1, <3>2
    <2> QED BY <2>2, <2>3
  \* What does not create a share makes no row, and what does not claim one
  \* makes none pending.
  <1>QuotaSteps.
      ASSUME TypeOK, [Next]_vars, ~Creates
      PROVE  /\ \A h \in GrantIDs : grants[h].state = "absent" => grants'[h].state = "absent"
             /\ Claims \/ \A h \in GrantIDs : grants'[h].state = "pending" => grants'[h] = grants[h]
    <2> USE <1>QuotaSteps
    <2>1. CASE Requests
      <3>1. \A g \in GrantIDs :
              /\ \A ap \in ApprovalIDs, t \in TaskIDs : ApprovedRecord(grants[g], ap, t).state = "approved"
              /\ \A p \in Plans : BoundRecord(grants[g], p).state = "bound"
              /\ Reoffered(grants[g]).state = "offered" /\ CompletedRecord(grants[g]).state = "completed"
              /\ RevokedRecord(grants[g]).state = "revoked"
        BY DEF TypeOK, Record, ApprovedRecord, Reoffered, BoundRecord, CompletedRecord, RevokedRecord, Bumped
      <3> DEFINE Wrote == \E g \in GrantIDs : \E q : Present(g) /\ q.state # "pending" /\ Store(g, q)
      <3>2. \A g \in GrantIDs, a \in Actors, k \in Codes, c \in ClaimIDs :
              ClaimShare(g, a, k, c) => Claims
        BY DEF Claims
      <3>3. \A g \in GrantIDs, ap \in ApprovalIDs, t \in TaskIDs : \A a, b, m, c, n :
              ApproveShare(g, a, b, m, c, ap, t, n) => Wrote
        BY <3>1 DEF ApproveShare
      <3>4. \A g \in GrantIDs : \A a, c, n : DenyShare(g, a, c, n) => Wrote
        BY <3>1 DEF DenyShare
      <3>5. \A g \in GrantIDs, p \in Plans : \A a, t, m, n :
              BindShare(g, a, t, m, p, n) \/ CompleteShare(g, a, t, m, p, n) => Wrote
        BY <3>1 DEF BindShare, CompleteShare
      <3>6. \A g \in GrantIDs : \A a : RevokeShare(g, a) => Wrote
        BY <3>1 DEF RevokeShare
      <3>7. Claims \/ Wrote
        <4> HIDE DEF Wrote
        <4> QED BY <2>1, <3>2, <3>3, <3>4, <3>5, <3>6 DEF Requests, Creates
      <3>8. CASE Claims
        BY <3>8, StoreStep DEF Claims, ClaimShare, Present
      <3>9. CASE Wrote
        BY <3>9, StoreStep DEF Present
      <3> QED BY <3>7, <3>8, <3>9
    <2>2. CASE ReconcileShareGrants
      <3>1. PICK rows \in SUBSET DueGrants, old \in SUBSET OldTombstones :
              grants' = IF \A g \in rows : /\ InEraAt(grants[g], tick)
                                           /\ Validate(Reconciled(grants[g], tick))
                        THEN [g \in GrantIDs |->
                                IF g \in rows THEN Reconciled(grants[g], tick)
                                ELSE IF g \in old THEN Absent
                                ELSE grants[g]]
                        ELSE grants
        BY <2>2 DEF ReconcileShareGrants, Limited
      <3>2. \A g \in GrantIDs : /\ Reoffered(grants[g]).state = "offered"
                                /\ ExpiredRecord(grants[g], tick).state = "expired"
        BY DEF TypeOK, Record, Reoffered, ExpiredRecord, Bumped
      <3>3. \A g \in GrantIDs : \/ Reconciled(grants[g], tick) = grants[g]
                                \/ Reconciled(grants[g], tick).state \in {"offered", "expired"}
        BY <3>2 DEF Reconciled
      <3> QED BY <3>1, <3>3 DEF DueGrants, OldTombstones, Present, Terminal, Absent
    <2>3. CASE ReapExpired \/ Tick \/ SetBack \/ Horizon \/ UNCHANGED vars
      BY <2>3 DEF ReapExpired, Tick, SetBack, Horizon, vars
    <2> QED BY <2>1, <2>2, <2>3 DEF Next
  \* A row that is there keeps its sender, and none comes back to life.
  <1>NoneRevives.
      ASSUME tick \in Nat, NEW r \in Record, NEW q, RecordStep(r, q), r.state # "absent", q.state \in Live
      PROVE  r.state \in Live /\ q.sender = r.sender
    <2> USE <1>NoneRevives
    <2>1. ASSUME NEW a \in Actors, NEW c \in ClaimIDs, q = Claimed(r, a, c) PROVE q.sender = r.sender
      BY <2>1 DEF Claimed, Bumped, Record
    <2>2. ASSUME \/ \E ap \in ApprovalIDs, t \in TaskIDs : q = ApprovedRecord(r, ap, t)
                 \/ q = Reoffered(r)
                 \/ \E p \in Plans : q = BoundRecord(r, p)
          PROVE  q.sender = r.sender
      BY <2>2 DEF ApprovedRecord, Reoffered, BoundRecord, Bumped, Record
    <2>3. /\ CompletedRecord(r).state = "completed" /\ RevokedRecord(r).state = "revoked"
          /\ ExpiredRecord(r, tick).state = "expired" /\ Absent.state = "absent"
      BY DEF CompletedRecord, RevokedRecord, ExpiredRecord, Bumped, Record, Absent
    <2> QED
      BY <2>1, <2>2, <2>3 DEF RecordStep, Reconciled, ClaimApplies, ApproveApplies, DenyApplies, BindApplies,
         Authorize, LiveOffer, Live, Terminal, Due, Record, States
  <1>ActiveStep. ASSUME TypeOK, [Next]_vars, ActiveQuota PROVE ActiveQuota'
    <2> USE <1>ActiveStep
    <2> SUFFICES ASSUME NEW a \in Actors PROVE Cardinality(ActiveOf(a)') <= MaxActive
      BY DEF ActiveQuota
    <2>1. ActiveOf(a) \in SUBSET GrantIDs /\ ActiveOf(a)' \in SUBSET GrantIDs
      BY DEF ActiveOf
    <2>2. Cardinality(ActiveOf(a)) <= MaxActive /\ MaxActive \in Nat
      BY LimitAssumption DEF ActiveQuota
    <2>3. CASE Creates
      <3>1. PICK g \in GrantIDs, b \in Actors, m \in Manifests, k \in Codes : CreateShare(g, b, m, k)
        BY <2>3 DEF Creates
      <3>2. grants'[g] = NewRecord(b, m, k) /\ \A h \in GrantIDs : h # g => grants'[h] = grants[h]
        BY <3>1, StoreStep DEF CreateShare
      <3> grants'[g].sender = b
        BY <3>2 DEF NewRecord, Absent
      <3>3. CASE b = a
        <4>1. ActiveOf(a)' \subseteq ActiveOf(a) \cup {g} /\ Cardinality(ActiveOf(a)) < MaxActive
          BY <3>1, <3>2, <3>3 DEF ActiveOf, CreateShare
        <4> QED BY <2>1, <2>2, <4>1, <1>OneMore
      <3>4. CASE b # a
        <4>1. ActiveOf(a)' \subseteq ActiveOf(a)
          BY <3>2, <3>4 DEF ActiveOf
        <4> QED BY <2>1, <2>2, <4>1, <1>OneMore
      <3> QED BY <3>3, <3>4
    <2>4. CASE ~Creates
      <3>1. \A h \in GrantIDs : grants'[h].state \in Live => grants[h].state # "absent"
        BY <2>4, <1>QuotaSteps DEF Live
      <3>2. \A h \in GrantIDs : grants'[h].state \in Live =>
               grants[h].state \in Live /\ grants'[h].sender = grants[h].sender
        BY <3>1, StepsAreRecordSteps, <1>NoneRevives DEF TypeOK
      <3>3. ActiveOf(a)' \subseteq ActiveOf(a)
        BY <3>2 DEF ActiveOf
      <3> QED BY <2>1, <2>2, <3>3, <1>OneMore
    <2> QED BY <2>3, <2>4
  \* Without a clock that is set back, a claim that has lapsed stays lapsed.
  <1>ClaimStep. ASSUME TypeOK, [Next]_vars, ~AllowRollback, ClaimQuota PROVE ClaimQuota'
    <2> USE <1>ClaimStep
    <2> SUFFICES ASSUME NEW a \in Actors PROVE Cardinality(LiveClaimsOf(a)') <= MaxPending
      BY DEF ClaimQuota
    <2>1. LiveClaimsOf(a) \in SUBSET GrantIDs /\ LiveClaimsOf(a)' \in SUBSET GrantIDs
      BY DEF LiveClaimsOf
    <2>2. Cardinality(LiveClaimsOf(a)) <= MaxPending /\ MaxPending \in Nat
      BY LimitAssumption DEF ClaimQuota
    <2>3. now \in Nat /\ now' \in Nat /\ now' >= now
      <3>1. CASE Requests
        BY <3>1, RequestsStore DEF TypeOK
      <3>2. CASE ~Requests
        BY <3>2 DEF Next, ReapExpired, ReconcileShareGrants, Tick, SetBack, Horizon, vars, TypeOK
      <3> QED BY <3>1, <3>2
    <2>4. CASE Claims
      <3>1. PICK g \in GrantIDs, b \in Actors, k \in Codes, c \in ClaimIDs : ClaimShare(g, b, k, c)
        BY <2>4 DEF Claims
      <3>2. /\ grants'[g] = Claimed(grants[g], b, c) /\ now' = now
            /\ \A h \in GrantIDs : h # g => grants'[h] = grants[h]
        BY <3>1, StoreStep DEF ClaimShare
      <3> grants'[g].receiver = b
        BY <3>2 DEF Claimed, Bumped, TypeOK, Record
      <3>3. CASE b = a
        <4>1. LiveClaimsOf(a)' \subseteq LiveClaimsOf(a) \cup {g} /\ Cardinality(LiveClaimsOf(a)) < MaxPending
          BY <3>1, <3>2, <3>3 DEF LiveClaimsOf, ClaimShare
        <4> QED BY <2>1, <2>2, <4>1, <1>OneMore
      <3>4. CASE b # a
        <4>1. LiveClaimsOf(a)' \subseteq LiveClaimsOf(a)
          BY <3>2, <3>4 DEF LiveClaimsOf
        <4> QED BY <2>1, <2>2, <4>1, <1>OneMore
      <3> QED BY <3>3, <3>4
    <2>5. CASE ~Claims
      <3>1. \A h \in GrantIDs : grants'[h].state = "pending" => grants'[h] = grants[h]
        <4>1. CASE ~Creates
          BY <2>5, <4>1, <1>QuotaSteps
        <4>2. CASE Creates
          <5>1. PICK g \in GrantIDs, b \in Actors, m \in Manifests, k \in Codes : CreateShare(g, b, m, k)
            BY <4>2 DEF Creates
          <5>2. grants'[g] = NewRecord(b, m, k) /\ \A h \in GrantIDs : h # g => grants'[h] = grants[h]
            BY <5>1, StoreStep DEF CreateShare
          <5> QED BY <5>2 DEF NewRecord, Absent
        <4> QED BY <4>1, <4>2
      <3>2. \A h \in GrantIDs : grants[h].claimUntil \in Nat /\ grants[h].expiresAt \in Nat
        BY DEF TypeOK, Record
      <3>3. LiveClaimsOf(a)' \subseteq LiveClaimsOf(a)
        BY <2>3, <3>1, <3>2 DEF LiveClaimsOf
      <3> QED BY <2>1, <2>2, <3>3, <1>OneMore
    <2> QED BY <2>4, <2>5
  <1>1. Init => Quotas
    <2>1. ASSUME Init, NEW a \in Actors PROVE ActiveOf(a) = {} /\ LiveClaimsOf(a) = {}
      BY <2>1 DEF Init, ActiveOf, LiveClaimsOf, Absent, Live
    <2> QED BY <2>1, FS_EmptySet, LimitAssumption DEF Quotas, ActiveQuota, ClaimQuota
  <1>2. TypeOK /\ Quotas /\ [Next]_vars => Quotas'
    BY <1>ActiveStep, <1>ClaimStep DEF Quotas
  <1> QED BY <1>1, <1>2, TypeCorrect, PTL DEF Spec

\* The type, the validity of what a transition makes and the timeliness of
\* completions hold together.
THEOREM GrantsHold == Spec => []GrantInv
  <1> QED BY TypeCorrect, AcceptedIsValid, CompletionsInTime, PTL DEF GrantInv

=============================================================================
