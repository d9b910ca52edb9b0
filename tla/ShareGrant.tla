----------------------------- MODULE ShareGrant -----------------------------
(***************************************************************************)
(* The one-time share grants of the rendezvous server: the authorization   *)
(* record of internal/sharegrant/grant.go, the SQLite operations of        *)
(* internal/store/share_grants.go that apply its transitions, and the      *)
(* request handler internal/server/share_grants.go that serialises them    *)
(* under the share gate.                                                   *)
(*                                                                         *)
(* A request carries whatever identifiers its sender believes in.  Actions *)
(* therefore quantify over every combination of identifiers: a delayed,    *)
(* duplicated or reordered request is a request with stale identifiers.    *)
(* The wall clock is a variable that the operator may also set back.       *)
(*                                                                         *)
(* A transition T of grant.go becomes TRepeats (T returns the old record   *)
(* without an error: a retry), TApplies (T returns a changed record) and   *)
(* the changed record itself; when neither holds, T returns an error and   *)
(* nothing changes.                                                        *)
(***************************************************************************)
EXTENDS Naturals, FiniteSets

CONSTANTS
  GrantIDs,      \* share IDs chosen by creating clients
  Actors,        \* public keys of authenticated devices
  Manifests,     \* manifest digests
  Codes,         \* digests of share codes (the server never sees the code)
  ClaimIDs, ApprovalIDs, TaskIDs, Plans,
  Null,          \* the zero key, the empty identifier, the zero digest
  OfferTTL, ClaimTTL, ResumeTTL,   \* 10 min, 2 min, 24 h in the code
  Retention,     \* age at which a tombstone is deleted, 7 days in the code
  MaxTotal,      \* rows in the table, 4096 in the code
  MaxActive,     \* unfinished shares of one sender, 8 in the code
  MaxPending,    \* live claims of one receiver, 4 in the code
  ReapLimit,     \* rows one reaper pass may touch, 64 in the code
  AllowRollback, \* may the wall clock be set back?
  MaxTime,       \* bound: the last clock value
  LastCreation,  \* bound: shares are created no later than this
  MaxClaims      \* bound: claims are made at generations up to this one

Min2(a, b) == IF a <= b THEN a ELSE b

ASSUME TTLAssumption ==
  /\ OfferTTL \in Nat \ {0} /\ ClaimTTL \in Nat \ {0} /\ ResumeTTL \in Nat \ {0}
  /\ Retention \in Nat \ {0}
ASSUME LimitAssumption ==
  /\ MaxTotal \in Nat /\ MaxActive \in Nat /\ MaxPending \in Nat
  /\ ReapLimit \in Nat \ {0} /\ MaxTime \in Nat \ {0} /\ MaxClaims \in Nat /\ LastCreation \in Nat
  /\ AllowRollback \in BOOLEAN
ASSUME FiniteAssumption == IsFiniteSet(GrantIDs)
ASSUME NullAssumption ==
  Null \notin Actors \cup Manifests \cup Codes \cup ClaimIDs \cup ApprovalIDs
              \cup TaskIDs \cup Plans

VARIABLES
  grants,        \* the table share_grants_v1
  now,           \* the server's wall clock, in seconds since the epoch
  tick           \* the time of a reaper tick that waits for the gate, 0 if none

vars == <<grants, now, tick>>

States == {"offered", "pending", "approved", "bound", "completed", "revoked", "expired"}
Live == {"offered", "pending", "approved", "bound"}
Settled == {"approved", "bound", "completed"}

Record ==
  [ state : States \cup {"absent"},
    sender : Actors \cup {Null}, manifest : Manifests \cup {Null}, code : Codes \cup {Null},
    generation : Nat, revision : Nat, createdAt : Nat, expiresAt : Nat,
    receiver : Actors \cup {Null}, claimID : ClaimIDs \cup {Null}, claimUntil : Nat,
    approvalID : ApprovalIDs \cup {Null}, taskID : TaskIDs \cup {Null},
    plan : Plans \cup {Null}, resumeUntil : Nat, finishedAt : Nat,
    deniedClaimID : ClaimIDs \cup {Null} ]

Absent ==
  [ state |-> "absent", sender |-> Null, manifest |-> Null, code |-> Null,
    generation |-> 0, revision |-> 0, createdAt |-> 0, expiresAt |-> 0,
    receiver |-> Null, claimID |-> Null, claimUntil |-> 0,
    approvalID |-> Null, taskID |-> Null, plan |-> Null,
    resumeUntil |-> 0, finishedAt |-> 0, deniedClaimID |-> Null ]

Present(g) == grants[g].state # "absent"

(***************************************************************************)
(* grant.go: New, Terminal, Validate, check, liveOffer                     *)
(***************************************************************************)
NewRecord(actor, manifest, code) ==
  [Absent EXCEPT !.state = "offered", !.sender = actor, !.manifest = manifest,
                 !.code = code, !.generation = 1, !.revision = 1,
                 !.createdAt = now, !.expiresAt = now + OfferTTL]

Terminal(r) == r.state \in {"completed", "revoked", "expired"}

Validate(r) ==
  /\ r.state \in States
  /\ r.sender # Null /\ r.manifest # Null /\ r.code # Null
  /\ r.generation > 0 /\ r.revision > 0 /\ r.createdAt > 0
  /\ r.expiresAt = r.createdAt + OfferTTL
  /\ r.claimID # Null =>
       /\ r.receiver # Null /\ r.receiver # r.sender
       /\ r.createdAt < r.claimUntil /\ r.claimUntil <= r.expiresAt
  /\ r.state \in {"pending"} \cup Settled => r.claimID # Null
  /\ r.state \in Settled => r.approvalID # Null /\ r.taskID # Null
  /\ r.state \in {"bound", "completed"} =>
       /\ r.plan # Null
       /\ r.resumeUntil > r.createdAt
       /\ r.resumeUntil <= r.expiresAt + ResumeTTL
       /\ r.resumeUntil >= r.createdAt + ResumeTTL
  /\ r.state = "pending" => r.approvalID = Null /\ r.taskID = Null
  /\ r.state \in {"pending", "approved"} => r.plan = Null /\ r.resumeUntil = 0
  /\ Terminal(r) => r.finishedAt >= r.createdAt
  /\ ~Terminal(r) => r.finishedAt = 0
  /\ r.state = "offered" =>
       /\ r.claimID = Null /\ r.receiver = Null /\ r.claimUntil = 0
       /\ r.approvalID = Null /\ r.taskID = Null /\ r.plan = Null /\ r.resumeUntil = 0

\* A clock set back to before the creation authorises nothing.
InEraAt(r, t) == t >= r.createdAt
InEra(r) == InEraAt(r, now)

LiveOffer(r) == InEra(r) /\ r.state \in Live /\ now < r.expiresAt

Bumped(r) == [r EXCEPT !.revision = @ + 1]

(***************************************************************************)
(* grant.go: Claim                                                         *)
(***************************************************************************)
\* A retry that is answered only while the offer itself is live.
ClaimRepeatsLive(r, actor, code, claim) ==
  /\ code = r.code /\ actor # r.sender
  /\ r.claimID = claim /\ r.receiver = actor
  /\ LiveOffer(r)

ClaimRepeats(r, actor, code, claim) ==
  /\ code = r.code /\ actor # r.sender
  /\ r.claimID = claim /\ r.receiver = actor
  /\ \/ InEra(r) /\ r.state \in Settled
     \/ LiveOffer(r) /\ r.state = "pending" /\ now < r.claimUntil

ClaimApplies(r, actor, code, claim) ==
  /\ code = r.code /\ actor # r.sender
  /\ LiveOffer(r)
  /\ \/ r.state = "offered"
     \/ r.state = "pending" /\ now >= r.claimUntil

\* A claim that outlives the offer, which Validate refuses.
ClaimedUnclipped(r, actor, claim) ==
  Bumped([r EXCEPT !.state = "pending", !.receiver = actor, !.claimID = claim,
                   !.claimUntil = now + ClaimTTL,
                   !.generation = IF r.state = "pending" THEN @ + 1 ELSE @])

\* The receiver and the claim identifier stored in each other's column.
ClaimedSwapped(r, actor, claim) ==
  Bumped([r EXCEPT !.state = "pending", !.receiver = claim, !.claimID = actor,
                   !.claimUntil = Min2(now + ClaimTTL, r.expiresAt),
                   !.generation = IF r.state = "pending" THEN @ + 1 ELSE @])

\* A lapsed claim replaced without a new generation.
ClaimedSameGeneration(r, actor, claim) ==
  Bumped([r EXCEPT !.state = "pending", !.receiver = actor, !.claimID = claim,
                   !.claimUntil = Min2(now + ClaimTTL, r.expiresAt)])

Claimed(r, actor, claim) ==
  Bumped([r EXCEPT !.state = "pending", !.receiver = actor, !.claimID = claim,
                   !.claimUntil = Min2(now + ClaimTTL, r.expiresAt),
                   !.generation = IF r.state = "pending" THEN @ + 1 ELSE @])

(***************************************************************************)
(* grant.go: Approve, Deny.  The handler has compared the receiver and the *)
(* manifest the sender confirmed with the record, inside the same gate.    *)
(***************************************************************************)
ApproveRepeats(r, actor, receiver, manifest, claim, approval, task, generation) ==
  /\ r.receiver = receiver /\ r.manifest = manifest
  /\ actor = r.sender /\ claim = r.claimID /\ generation = r.generation
  /\ InEra(r) /\ r.state \in Settled
  /\ r.approvalID = approval /\ r.taskID = task

\* An approval that trusts the state alone, not the claim it was given for.
ApproveAppliesAnyClaim(r, actor, receiver, manifest, claim, approval, task, generation) ==
  /\ actor = r.sender /\ LiveOffer(r)
  /\ r.state \in {"pending", "approved"} /\ now < r.claimUntil

ApproveApplies(r, actor, receiver, manifest, claim, approval, task, generation) ==
  /\ r.receiver = receiver /\ r.manifest = manifest
  /\ actor = r.sender /\ claim = r.claimID /\ generation = r.generation
  /\ LiveOffer(r) /\ r.state = "pending" /\ now < r.claimUntil

ApprovedRecord(r, approval, task) ==
  Bumped([r EXCEPT !.state = "approved", !.approvalID = approval, !.taskID = task])

DenyRepeats(r, actor, claim, generation) ==
  /\ actor = r.sender /\ InEra(r)
  /\ r.state = "offered" /\ r.deniedClaimID = claim /\ generation + 1 = r.generation

DenyApplies(r, actor, claim, generation) ==
  /\ actor = r.sender /\ LiveOffer(r)
  /\ r.state = "pending" /\ r.claimID = claim /\ r.generation = generation
  /\ now < r.claimUntil

\* Back on offer; also what the reaper does with a lapsed claim.
Reoffered(r) ==
  Bumped([r EXCEPT !.state = "offered", !.generation = @ + 1,
                   !.deniedClaimID = r.claimID, !.claimID = Null,
                   !.receiver = Null, !.claimUntil = 0])

(***************************************************************************)
(* grant.go: Bind, Authorize, Complete, Revoke                             *)
(***************************************************************************)
BindMatches(r, actor, task, manifest, generation) ==
  /\ actor = r.receiver /\ generation = r.generation
  /\ task = r.taskID /\ manifest = r.manifest

BindRepeats(r, actor, task, manifest, plan, generation) ==
  /\ BindMatches(r, actor, task, manifest, generation)
  /\ InEra(r) /\ r.state \in {"bound", "completed"} /\ r.plan = plan

BindApplies(r, actor, task, manifest, plan, generation) ==
  /\ BindMatches(r, actor, task, manifest, generation)
  /\ LiveOffer(r) /\ r.state = "approved"

BoundRecord(r, plan) ==
  Bumped([r EXCEPT !.state = "bound", !.plan = plan, !.resumeUntil = now + ResumeTTL])

IsParty(r, actor) == actor = r.sender \/ actor = r.receiver

\* An authorization that forgets the resume deadline.
AuthorizeForever(r, actor, task, manifest, plan, generation) ==
  /\ InEra(r) /\ r.state = "bound"
  /\ IsParty(r, actor) /\ task = r.taskID /\ manifest = r.manifest
  /\ plan = r.plan /\ generation = r.generation

Authorize(r, actor, task, manifest, plan, generation) ==
  /\ InEra(r) /\ r.state = "bound" /\ now < r.resumeUntil
  /\ IsParty(r, actor) /\ task = r.taskID /\ manifest = r.manifest
  /\ plan = r.plan /\ generation = r.generation

CompleteRepeats(r, actor, task, manifest, plan, generation) ==
  /\ InEra(r) /\ r.state = "completed" /\ IsParty(r, actor)
  /\ task = r.taskID /\ manifest = r.manifest /\ plan = r.plan /\ generation = r.generation

CompletedRecord(r) == Bumped([r EXCEPT !.state = "completed", !.finishedAt = now])

RevokeRepeats(r, actor) == actor = r.sender /\ InEra(r) /\ r.state = "revoked"

\* A revocation that also reverses a finished transfer.
RevokeAnything(r, actor) == actor = r.sender /\ InEra(r) /\ r.state # "revoked"

RevokeApplies(r, actor) == actor = r.sender /\ InEra(r) /\ ~Terminal(r)

RevokedRecord(r) ==
  Bumped([r EXCEPT !.state = "revoked", !.generation = @ + 1, !.finishedAt = now])

(***************************************************************************)
(* grant.go: Reconcile, what the reaper makes at time t of one due record  *)
(***************************************************************************)
Deadline(r) == IF r.state = "bound" THEN r.resumeUntil ELSE r.expiresAt

ExpiredRecord(r, t) == Bumped([r EXCEPT !.state = "expired", !.finishedAt = t])

Reconciled(r, t) ==
  IF Terminal(r) THEN r
  ELSE IF t >= Deadline(r) THEN ExpiredRecord(r, t)
  ELSE IF r.state = "pending" /\ t >= r.claimUntil THEN Reoffered(r)
  ELSE r

(***************************************************************************)
(* share_grants.go: the rows a transaction writes.  updateShare refuses an *)
(* invalid record, so the transaction then changes nothing.                *)
(***************************************************************************)
Store(g, next) == Validate(next) /\ grants' = [grants EXCEPT ![g] = next]

ActiveOf(actor) == {g \in GrantIDs : grants[g].sender = actor /\ grants[g].state \in Live}

LiveClaimsOf(actor) ==
  {g \in GrantIDs : /\ grants[g].receiver = actor /\ grants[g].state = "pending"
                    /\ grants[g].claimUntil > now /\ grants[g].expiresAt > now}

\* The quota of a sender counted one too late.
CreateShareOffByOne(g, actor, manifest, code) ==
  /\ now <= LastCreation /\ ~Present(g)
  /\ \A h \in GrantIDs : Present(h) => grants[h].code # code
  /\ Cardinality(ActiveOf(actor)) <= MaxActive
  /\ Store(g, NewRecord(actor, manifest, code))
  /\ UNCHANGED <<now, tick>>

CreateShare(g, actor, manifest, code) ==
  /\ now <= LastCreation /\ ~Present(g)
  /\ \A h \in GrantIDs : Present(h) => grants[h].code # code
  /\ Cardinality({h \in GrantIDs : Present(h)}) < MaxTotal
  /\ Cardinality(ActiveOf(actor)) < MaxActive
  /\ Store(g, NewRecord(actor, manifest, code))
  /\ UNCHANGED <<now, tick>>

\* A claim that does not count the claims its receiver already holds.
ClaimShareUncounted(g, actor, code, claim) ==
  /\ Present(g) /\ grants[g].generation <= MaxClaims
  /\ ClaimApplies(grants[g], actor, code, claim)
  /\ Store(g, Claimed(grants[g], actor, claim))
  /\ UNCHANGED <<now, tick>>

ClaimShare(g, actor, code, claim) ==
  /\ Present(g) /\ grants[g].generation <= MaxClaims
  /\ ClaimApplies(grants[g], actor, code, claim)
  /\ Cardinality(LiveClaimsOf(actor)) < MaxPending
  /\ Store(g, Claimed(grants[g], actor, claim))
  /\ UNCHANGED <<now, tick>>

ApproveShare(g, actor, receiver, manifest, claim, approval, task, generation) ==
  /\ Present(g)
  /\ ApproveApplies(grants[g], actor, receiver, manifest, claim, approval, task, generation)
  /\ Store(g, ApprovedRecord(grants[g], approval, task))
  /\ UNCHANGED <<now, tick>>

DenyShare(g, actor, claim, generation) ==
  /\ Present(g)
  /\ DenyApplies(grants[g], actor, claim, generation)
  /\ Store(g, Reoffered(grants[g]))
  /\ UNCHANGED <<now, tick>>

BindShare(g, actor, task, manifest, plan, generation) ==
  /\ Present(g)
  /\ BindApplies(grants[g], actor, task, manifest, plan, generation)
  /\ Store(g, BoundRecord(grants[g], plan))
  /\ UNCHANGED <<now, tick>>

CompleteShare(g, actor, task, manifest, plan, generation) ==
  /\ Present(g)
  /\ Authorize(grants[g], actor, task, manifest, plan, generation)
  /\ Store(g, CompletedRecord(grants[g]))
  /\ UNCHANGED <<now, tick>>

RevokeShare(g, actor) ==
  /\ Present(g)
  /\ RevokeApplies(grants[g], actor)
  /\ Store(g, RevokedRecord(grants[g]))
  /\ UNCHANGED <<now, tick>>

(***************************************************************************)
(* ReconcileShareGrants, called once a minute by Server.reapExpired: a     *)
(* bounded number of due rows, then with what is left of the bound the     *)
(* tombstones that are old enough.  The pass works with the time the       *)
(* ticker delivered, taken before it waited for the gate: other requests,  *)
(* and the clock, may have moved on since.                                 *)
(***************************************************************************)
\* A reaper that takes approved offers for bound transfers and never ends them.
DueForgetsApproved(r, t) ==
  \/ r.state \in {"offered", "pending"} /\ r.expiresAt <= t
  \/ r.state = "pending" /\ r.claimUntil <= t
  \/ r.state = "bound" /\ r.resumeUntil <= t

Due(r, t) ==
  \/ r.state \in {"offered", "pending", "approved"} /\ r.expiresAt <= t
  \/ r.state = "pending" /\ r.claimUntil <= t
  \/ r.state = "bound" /\ r.resumeUntil <= t

DueGrants == {g \in GrantIDs : Present(g) /\ Due(grants[g], tick)}

OldTombstones ==
  {g \in GrantIDs : Terminal(grants[g]) /\ grants[g].finishedAt + Retention <= tick}

\* The rows a query with LIMIT n may return.
Limited(S, n) == {T \in SUBSET S : Cardinality(T) = Min2(n, Cardinality(S))}

ReapExpired == tick = 0 /\ tick' = now /\ UNCHANGED <<grants, now>>

ReconcileShareGrants ==
  /\ tick # 0
  /\ \E rows \in Limited(DueGrants, ReapLimit) :
     \E old \in Limited(OldTombstones, ReapLimit - Cardinality(rows)) :
       grants' = IF \A g \in rows : InEraAt(grants[g], tick)
                                    /\ Validate(Reconciled(grants[g], tick))
                 THEN [g \in GrantIDs |->
                         IF g \in rows THEN Reconciled(grants[g], tick)
                         ELSE IF g \in old THEN Absent
                         ELSE grants[g]]
                 ELSE grants
  /\ tick' = 0 /\ UNCHANGED now

(***************************************************************************)
(* The environment: the wall clock                                         *)
(***************************************************************************)
Tick == now < MaxTime /\ now' = now + 1 /\ UNCHANGED <<grants, tick>>

SetBack == AllowRollback /\ now' \in 1 .. now - 1 /\ UNCHANGED <<grants, tick>>

\* The bound: behaviours end in the last second.
Horizon == now = MaxTime /\ UNCHANGED vars

Init == grants = [g \in GrantIDs |-> Absent] /\ now = 1 /\ tick = 0

Requests ==
  \E g \in GrantIDs, actor \in Actors :
    \/ \E m \in Manifests, code \in Codes : CreateShare(g, actor, m, code)
    \/ \E code \in Codes, c \in ClaimIDs : ClaimShare(g, actor, code, c)
    \/ \E recv \in Actors, m \in Manifests, c \in ClaimIDs, ap \in ApprovalIDs,
          t \in TaskIDs, gen \in 1 .. MaxClaims + 1 :
         ApproveShare(g, actor, recv, m, c, ap, t, gen)
    \/ \E c \in ClaimIDs, gen \in 1 .. MaxClaims + 1 : DenyShare(g, actor, c, gen)
    \/ \E t \in TaskIDs, m \in Manifests, p \in Plans, gen \in 1 .. MaxClaims + 1 :
         BindShare(g, actor, t, m, p, gen) \/ CompleteShare(g, actor, t, m, p, gen)
    \/ RevokeShare(g, actor)

Next == Requests \/ ReapExpired \/ ReconcileShareGrants \/ Tick \/ SetBack \/ Horizon

Spec == Init /\ [][Next]_vars

\* The reaper's ticker and the clock keep going; clients owe nothing.
FairSpec ==
  Spec /\ WF_vars(ReapExpired) /\ WF_vars(ReconcileShareGrants) /\ WF_vars(Tick)

(***************************************************************************)
(* Properties                                                              *)
(***************************************************************************)

\* Every row has the shape the table and the record type give it.
TypeOK == grants \in [GrantIDs -> Record] /\ now \in Nat \ {0} /\ tick \in Nat

\* Nothing a transition permits is thrown away by the Validate call that
\* guards the write (updateShare): whatever the clock says, and whichever
\* identifiers a request carries, an accepted transition yields a record
\* Validate accepts, and so does every due row of a reaper pass, one bad row
\* of which would block the whole pass.
TransitionsStayValid ==
  \A g \in GrantIDs : Present(g) =>
    LET r == grants[g] IN
    /\ Validate(r)
    /\ \A a \in Actors, c \in ClaimIDs :
         ClaimApplies(r, a, r.code, c) => Validate(Claimed(r, a, c))
    /\ \A ap \in ApprovalIDs, t \in TaskIDs :
         ApproveApplies(r, r.sender, r.receiver, r.manifest, r.claimID, ap, t, r.generation)
           => Validate(ApprovedRecord(r, ap, t))
    /\ DenyApplies(r, r.sender, r.claimID, r.generation) => Validate(Reoffered(r))
    /\ \A p \in Plans :
         BindApplies(r, r.receiver, r.taskID, r.manifest, p, r.generation)
           => Validate(BoundRecord(r, p))
    /\ Authorize(r, r.sender, r.taskID, r.manifest, r.plan, r.generation)
         => Validate(CompletedRecord(r))
    /\ RevokeApplies(r, r.sender) => Validate(RevokedRecord(r))
    /\ Due(r, tick) => InEraAt(r, tick) /\ Validate(Reconciled(r, tick))

\* A share is good for one receiver and one transfer: from its approval on,
\* no step gives it another receiver, claim, approval or task, however the
\* two confirmations, retries, lapses and clock corrections interleave; and
\* once bound it keeps its plan and its resume deadline.
ApprovalIsExclusive ==
  [][\A g \in GrantIDs :
       /\ grants[g].state \in Settled /\ grants'[g].state # "absent" =>
            /\ grants'[g].receiver = grants[g].receiver
            /\ grants'[g].claimID = grants[g].claimID
            /\ grants'[g].approvalID = grants[g].approvalID
            /\ grants'[g].taskID = grants[g].taskID
       /\ grants[g].state = "bound" /\ grants'[g].state # "absent" =>
            /\ grants'[g].plan = grants[g].plan
            /\ grants'[g].resumeUntil = grants[g].resumeUntil]_vars

\* The generation fences stale confirmations: it never falls, and two claims
\* never share one, so an approval, denial or signaling scope issued for one
\* claimant can never take effect for another.
GenerationFences ==
  [][\A g \in GrantIDs :
       grants[g].state # "absent" /\ grants'[g].state # "absent" =>
         /\ grants'[g].generation >= grants[g].generation
         /\ grants[g].claimID # Null /\ grants'[g].generation = grants[g].generation =>
              /\ grants'[g].claimID = grants[g].claimID
              /\ grants'[g].receiver = grants[g].receiver]_vars

\* A finished share stays exactly as it finished: no late request, retry or
\* clock correction reopens it, and only a reaper pass at least the retention
\* time after its end removes it.
FinishedIsFinal ==
  [][\A g \in GrantIDs :
       Terminal(grants[g]) /\ grants'[g] # grants[g] =>
         grants'[g] = Absent /\ tick >= grants[g].finishedAt + Retention]_vars

\* A completed share was completed before its resume deadline, even when the
\* reaper has not yet seen that deadline pass.
CompletedInTime ==
  \A g \in GrantIDs :
    grants[g].state = "completed" => grants[g].finishedAt < grants[g].resumeUntil

\* The table never holds more unfinished shares of one sender than the quota.
ActiveQuota == \A a \in Actors : Cardinality(ActiveOf(a)) <= MaxActive

\* While the clock is not set back, no receiver holds more live claims than the
\* quota, although a claim is counted only when it is made.
ClaimQuota == \A a \in Actors : Cardinality(LiveClaimsOf(a)) <= MaxPending

\* Retrying the request that was the last to change a share is harmless: as
\* long as the clock has not been set back before its creation, the claim of
\* a settled share, its approval, its binding, its completion, the denial of
\* its last claim and its revocation are answered with the stored record
\* instead of an error.
RetryIsAnswered ==
  \A g \in GrantIDs : Present(g) /\ InEra(grants[g]) =>
    LET r == grants[g] IN
    /\ r.state \in Settled =>
         /\ ClaimRepeats(r, r.receiver, r.code, r.claimID)
         /\ ApproveRepeats(r, r.sender, r.receiver, r.manifest, r.claimID,
                           r.approvalID, r.taskID, r.generation)
    /\ r.state \in {"bound", "completed"} =>
         BindRepeats(r, r.receiver, r.taskID, r.manifest, r.plan, r.generation)
    /\ r.state = "completed" =>
         CompleteRepeats(r, r.sender, r.taskID, r.manifest, r.plan, r.generation)
    /\ r.state = "offered" /\ r.deniedClaimID # Null =>
         DenyRepeats(r, r.sender, r.deniedClaimID, r.generation - 1)
    /\ r.state = "revoked" => RevokeRepeats(r, r.sender)

\* Every share ends: if the clock advances and the reaper keeps passing, an
\* unfinished share is eventually completed, revoked, expired or gone, even
\* when more rows are due than one pass may touch.
EveryShareEnds ==
  \A g \in GrantIDs : (grants[g].state \in Live) ~> (grants[g].state \notin Live)

\* What holds of every share between any two requests: its record is one, each
\* transition it permits stays valid, and completion is never late.
GrantInv == TypeOK /\ TransitionsStayValid /\ CompletedInTime

\* Both quotas hold at once, however claims, denials and lapses interleave.
Quotas == ActiveQuota /\ ClaimQuota
=============================================================================
