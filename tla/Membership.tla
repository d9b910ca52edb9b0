----------------------------- MODULE Membership -----------------------------
(***************************************************************************)
(* Which devices this one trusts, and why (internal/identity: identity.go, *)
(* forget.go, membership_recovery.go), together with the operations of the *)
(* application that change it (internal/app: service.go, authorization.go, *)
(* membership_revoke.go, membership_recovery.go) and the control store of  *)
(* the rendezvous server they talk to (internal/store/control.go).         *)
(*                                                                         *)
(* The trust file is one record, and every operation on it is a function   *)
(* from file to file, as in the code.  Operations that talk to the server  *)
(* hold membershipMu, so one of them is in progress at a time (call); local*)
(* decisions, LAN pairing and the end of a session take only the file's    *)
(* own lock, and fall between any two of its steps.  The server answers,   *)
(* refuses or is not heard; other members come and go, and its database    *)
(* may be lost.  The program may end at any step.                          *)
(***************************************************************************)
EXTENDS FiniteSets, Naturals

CONSTANTS
    Peers,            \* the other devices
    MaxGroups,        \* groups the server ever creates
    MemberScenarios   \* what may happen: see MembersInit

(* How often each thing may happen, who takes part, who is a member at the *)
(* start, and whether this device is new                                   *)
MemberBounds ==
    [blocks : Nat, unblocks : Nat, forgets : Nat, accepts : Nat, pairings : Nat, trusts : Nat, sessions : Nat,
     revokes : Nat, joins : Nat, losses : Nat, recoveries : Nat, cancels : Nat, continues : Nat,
     crashes : Nat, moves : Nat, resets : Nat, who : SUBSET Peers, with : SUBSET Peers, new : BOOLEAN]
ASSUME MembershipAssumption ==
    MaxGroups \in Nat \ {0} /\ "me" \notin Peers /\ MemberScenarios \subseteq MemberBounds

Members == Peers \cup {"me"}
Groups == 1 .. MaxGroups

VARIABLES
    trust,     \* TrustFile
    server,    \* the control store: devices, groups, requests, codes
    call,      \* the operation that holds membershipMu
    offer,     \* the generation read by a LAN pairing before it asks
    lanOpen,   \* peers with an open LAN session
    removed,   \* history: the incarnation the user removed a peer under
    spent,     \* history: the highest generation in force since a late consent
    budget     \* what may still happen (bounds), and who takes part

mbVars == <<trust, server, call, offer, lanOpen, removed, spent, budget>>

Take(what) == budget[what] > 0 /\ budget' = [budget EXCEPT ![what] = @ - 1]
Larger(a, b) == IF a > b THEN a ELSE b

(* TrustedPeer: gen 0 stands for no row.  group, inc (PeerIncarnation),    *)
(* here (LocalIncarnation) and rev are 0 in a grant that is LAN only.      *)
NoGrant == [kind |-> "none", group |-> 0, inc |-> 0, here |-> 0, rev |-> 0, gen |-> 0, auto |-> FALSE]
(* DeniedPeer: target, group and here are the incarnation and the context  *)
(* of the grant it ended.                                                  *)
NoDenial == [gen |-> 0, block |-> FALSE, forgotten |-> FALSE, target |-> 0, group |-> 0, here |-> 0,
             seen |-> 0, req |-> 0, pending |-> FALSE, retired |-> FALSE]
NoOffer == [gen |-> 0, state |-> "none"]
NoSnapshot == [group |-> 0, here |-> 0, rev |-> 0, who |-> [p \in Peers |-> 0]]
Idle == [kind |-> "idle", at |-> "none", todo |-> {}, now |-> {}, pend |-> [p \in Peers |-> NoDenial],
         seen |-> NoSnapshot, code |-> 0, rev |-> 0, explicit |-> FALSE]

-----------------------------------------------------------------------------
(* Reading the trust file *)

HasGroup(g) == g.kind \in {"group", "group+lan"}
Denied(f, p) == f.denied[p].gen > 0
Barred(f, p) == Denied(f, p) /\ (~f.denied[p].forgotten \/ f.denied[p].block)
Recovering(f) == f.recov # "none"
(* checkPeerAllowed: the revocation barrier, and the fence of a recovery   *)
Allowed(f, p) == ~Barred(f, p) /\ ~(Recovering(f) /\ HasGroup(f.peer[p]))
(* AuthorizationGeneration: 0 where the code reports an error              *)
InForce(f, p) == IF Allowed(f, p) THEN f.peer[p].gen ELSE 0

(* LANPairGeneration: what both ends of a LAN pairing are told             *)
PairGeneration(f, p) ==
    IF Denied(f, p) THEN f.denied[p].gen
    ELSE IF f.peer[p].gen > 0 THEN f.peer[p].gen ELSE f.epoch[p] + 1
(* what BeginProvisionalLAN compares it with                               *)
AcceptedGeneration(f, p) ==
    Larger(IF Denied(f, p) THEN f.denied[p].gen ELSE Larger(1, f.peer[p].gen), f.epoch[p] + 1)

(* saveTrust parses what it is about to write: no device is both trusted   *)
(* and denied.  An operation that would break this fails and writes        *)
(* nothing.                                                                *)
Valid(f) == \A p \in Peers : f.peer[p].gen = 0 \/ ~Denied(f, p)
\* Mutant: what is written is not validated first.
SaveUnchecked(f) == f
Save(f) == IF Valid(f) THEN f ELSE trust

\* Mutant: lifting a denial forgets how far its generation had come.
RetainNothing(f, p, g) == f
Retain(f, p, g) == [f EXCEPT !.epoch[p] = Larger(@, g)]

-----------------------------------------------------------------------------
(* Granting *)

(* trustPeer: a device trusted by fingerprint or at the end of a session   *)
Pinned(f, p) ==
    IF Allowed(f, p) /\ f.peer[p].gen = 0
    THEN [f EXCEPT !.peer[p] = [NoGrant EXCEPT !.kind = "lan", !.gen = f.epoch[p] + 1]]
    ELSE f

(* commitLANPeerFile: consent given for generation g is good for it alone  *)
CanCommit(f, p, g) ==
    /\ Denied(f, p) => ~f.denied[p].block /\ f.denied[p].gen = g
    /\ f.peer[p].gen > 0 => f.peer[p].gen = g
Committed(f, p, g) ==
    LET clear == IF Denied(f, p) THEN [Retain(f, p, f.denied[p].gen) EXCEPT !.denied[p] = NoDenial] ELSE f
        old == f.peer[p]
        new == IF HasGroup(old) /\ ~Recovering(f) THEN [old EXCEPT !.kind = "group+lan"]
               ELSE [NoGrant EXCEPT !.kind = "lan", !.gen = g, !.auto = old.auto]
    IN  [clear EXCEPT !.peer[p] = new]

(* applyMembershipPeer for the member p of snapshot s                      *)
\* Mutant: only a block outlives a snapshot.
RefusedWhenBlocked(f, p, s) == f.denied[p].block
Refused(f, p, s) ==
    LET d == f.denied[p]
    IN  /\ Denied(f, p)
        /\ \/ d.block
           \/ /\ ~d.retired
              /\ \/ d.target = s.who[p]
                 \/ /\ d.group \in {0, s.group}
                    /\ s.rev <= d.seen
\* Mutant: the preference outlives the membership it was given to.
GrantedAsBefore(f, p, s) ==
    [f EXCEPT !.denied[p] = NoDenial, !.epoch[p] = Larger(@, f.denied[p].gen),
              !.peer[p] = [kind |-> "group", group |-> s.group, inc |-> s.who[p], here |-> s.here, rev |-> s.rev,
                           gen |-> Larger(f.peer[p].gen, f.denied[p].gen) + 1, auto |-> f.peer[p].auto]]
Granted(f, p, s) ==
    LET d == f.denied[p]
        old == f.peer[p]
        same == old.group = s.group /\ old.inc = s.who[p] /\ old.here = s.here
        next == IF Denied(f, p) THEN d.gen + 1 ELSE f.epoch[p] + 1
        clear == IF Denied(f, p) THEN [Retain(f, p, d.gen) EXCEPT !.denied[p] = NoDenial] ELSE f
    IN  [clear EXCEPT !.peer[p] =
            [kind |-> IF old.kind \in {"lan", "group+lan"} THEN "group+lan" ELSE "group",
             group |-> s.group, inc |-> s.who[p], here |-> s.here, rev |-> s.rev,
             gen |-> IF old.gen = 0 THEN next ELSE IF same THEN old.gen ELSE Larger(next, old.gen + 1),
             auto |-> same /\ old.auto]]

-----------------------------------------------------------------------------
(* Contexts: this device as one incarnation in one group *)

Context(group, here, rev) == [group |-> group, here |-> here, rev |-> rev]
Known(c) == c.group > 0 /\ c.here > 0 /\ c.rev > 0
(* what the snapshots, the grants and the denials remember                 *)
Contexts(f) ==
    {c \in f.snaps
        \cup {Context(f.peer[p].group, f.peer[p].here, f.peer[p].rev) : p \in {q \in Peers : HasGroup(f.peer[q])}}
        \cup {Context(f.denied[p].group, f.denied[p].here, f.denied[p].seen) : p \in Peers} : Known(c)}
Pairs(cs) == {<<c.group, c.here>> : c \in cs}

(* applyMembershipSnapshotFile: one complete snapshot at a time.           *)
CanApply(f, s) ==
    /\ ~Recovering(f)
    /\ <<s.group, s.here>> \notin f.retired
    /\ \A c \in f.snaps : c.group = s.group =>
           c.rev < s.rev \/ (c.rev = s.rev /\ c.here = s.here)

Ended(g, seen, forgotten) ==
    [NoDenial EXCEPT !.gen = g.gen + 1, !.target = g.inc, !.group = g.group, !.here = g.here,
                     !.seen = seen, !.forgotten = forgotten]
\* Mutant: what a snapshot does not name stays.
SupersededByName(f, p, s) == f
(* what becomes of p's grant before the snapshot's own members are applied *)
Superseded(f, p, s) ==
    LET g == f.peer[p]
        deny(seen) == [f EXCEPT !.peer[p] = NoGrant,
                                !.denied[p] = IF Denied(f, p) THEN @ ELSE Ended(g, seen, FALSE)]
    IN  IF ~HasGroup(g) THEN f
        ELSE IF g.group # s.group /\ g.kind = "group+lan"
             THEN [f EXCEPT !.peer[p] = [NoGrant EXCEPT !.kind = "lan", !.gen = g.gen + 1]]
        ELSE IF g.group # s.group THEN deny(g.rev)
        ELSE IF s.who[p] = 0 THEN deny(s.rev)
        ELSE f
(* retireSupersededMembershipContexts *)
RetiredBy(f, s) == f.retired \cup (Pairs(Contexts(f)) \ {<<s.group, s.here>>})
Applied(f, s) ==
    LET member(p) == LET e == Superseded(f, p, s)
                     IN  IF s.who[p] > 0 /\ ~Refused(e, p, s) THEN Granted(e, p, s) ELSE e
        mine == {c \in f.snaps : c.group = s.group}
        replaced == IF mine = {} THEN {} ELSE {CHOOSE c \in mine : TRUE}
    IN  [f EXCEPT !.peer = [p \in Peers |-> member(p).peer[p]],
                  !.denied = [p \in Peers |-> member(p).denied[p]],
                  !.epoch = [p \in Peers |-> member(p).epoch[p]],
                  !.retired = RetiredBy(f, s),
                  !.snaps = (@ \ replaced) \cup {Context(s.group, s.here, s.rev)}]

-----------------------------------------------------------------------------
(* Recovery: the user leaves every known context for a new one             *)

Latest(cs) == {c \in cs : \A d \in cs : d.group = c.group /\ d.here = c.here => d.rev <= c.rev}
(* PrepareMembershipRecovery: the fence goes up before the server is asked *)
Prepared(f, mode) ==
    [f EXCEPT !.recov = "prepared", !.mode = mode,
              !.snaps = Latest({c \in Contexts(f) : <<c.group, c.here>> \notin f.retired}),
              !.peer = [p \in Peers |->
                  CASE @[p].kind = "group" -> [@[p] EXCEPT !.gen = f.peer[p].gen + 1, !.auto = FALSE]
                    [] @[p].kind = "group+lan" -> [NoGrant EXCEPT !.kind = "lan", !.gen = f.peer[p].gen + 1]
                    [] OTHER -> @[p]]]
CanComplete(f, s) == Recovering(f) /\ <<s.group, s.here>> \notin f.retired \cup Pairs(Contexts(f))
(* CompleteMembershipRecovery: all known contexts retire for good          *)
Completed(f, s) ==
    LET out(p) == f.peer[p].kind = "group"
        denial(p) == IF out(p)
                     THEN [Ended(f.peer[p], f.peer[p].rev, FALSE) EXCEPT !.gen = f.peer[p].gen]
                     ELSE f.denied[p]
    IN  Applied([f EXCEPT
            !.recov = "none", !.mode = "none", !.snaps = {}, !.retired = @ \cup Pairs(Contexts(f)),
            !.epoch = [p \in Peers |-> IF out(p) THEN Larger(@[p], f.peer[p].gen) ELSE @[p]],
            !.peer = [p \in Peers |-> IF out(p) THEN NoGrant ELSE @[p]],
            !.denied = [p \in Peers |->
                IF denial(p).gen > 0 /\ ~denial(p).block
                THEN [denial(p) EXCEPT !.pending = FALSE, !.retired = TRUE] ELSE denial(p)]], s)

-----------------------------------------------------------------------------
(* The control store *)

SnapshotFor(d) ==
    [group |-> server.grp[d], here |-> server.inc[d], rev |-> server.rev[server.grp[d]],
     who |-> [p \in Peers |-> IF server.grp[p] = server.grp[d] THEN server.inc[p] ELSE 0]]
Enrolled(d) == server.grp[d] > 0
RevisionOf(d) == IF Enrolled(d) THEN server.rev[server.grp[d]] ELSE 0
(* a new incarnation of d in group g; the group it leaves advances too     *)
Enrol(srv, d, g) ==
    [srv EXCEPT !.grp[d] = g, !.inc[d] = srv.fresh, !.fresh = @ + 1,
                !.rev = [h \in Groups |-> IF h = g \/ h = srv.grp[d] THEN @[h] + 1 ELSE @[h]]]
Dismiss(srv, d) == [srv EXCEPT !.grp[d] = 0, !.rev[srv.grp[d]] = @ + 1]
NewGroups == {g \in Groups : server.rev[g] = 0}

(* Revoke: a request already carried out is answered as it was then        *)
Carried(req) == {r \in server.done : r.req = req}
MayRevoke(actor, p, target, expected) ==
    /\ Enrolled("me") /\ server.inc["me"] = actor
    /\ server.grp[p] = server.grp["me"] /\ server.inc[p] = target
    /\ server.rev[server.grp[p]] = expected
RevokedBy(req, p, target) ==
    [Dismiss(server, p) EXCEPT !.done = @ \cup
        {[req |-> req, peer |-> p, target |-> target, rev |-> server.rev[server.grp[p]] + 1]}]

(* Invitation: a new code of the member p                                  *)
Coded(p) == [server EXCEPT !.code[server.grp[p]] = [by |-> p, inc |-> server.inc[p], used |-> 0]]
(* JoinWithSwitch: the device whose code it is still has to be the member  *)
(* that made it.  A used code answers the device that used it.             *)
CodeValid(g) == LET c == server.code[g] IN c.by # "none" /\ server.grp[c.by] = g /\ server.inc[c.by] = c.inc
JoinAllowed(g, expect) ==
    LET c == server.code[g]
    IN  CodeValid(g) /\
        IF c.used > 0 THEN server.grp["me"] = g /\ server.inc["me"] = c.used
        ELSE \/ server.grp["me"] \in {0, g}
             \/ expect = Context(server.grp["me"], server.inc["me"], RevisionOf("me"))
JoinedGroup(g) ==
    IF server.code[g].used > 0 THEN server
    ELSE LET joined == IF server.grp["me"] = g THEN server ELSE Enrol(server, "me", g)
         IN  [joined EXCEPT !.code[g].used = joined.inc["me"]]

-----------------------------------------------------------------------------
(* What the user decides without the server (authorization.go, forget.go)  *)

Others == UNCHANGED <<server, call, offer, lanOpen>>

(* BlockPeer: RevokePeer, which has nothing to do where a removal bars the *)
(* device already.  An agreed LAN pairing goes too.                        *)
Block(p) ==
    /\ Take("blocks")
    /\ IF Barred(trust, p) THEN UNCHANGED trust
       ELSE LET was == IF Denied(trust, p) THEN trust.denied[p].gen ELSE 1
                ended == IF trust.peer[p].gen > 0 THEN trust.peer[p].gen + 1 ELSE was
                agreed == IF trust.prov[p].gen > 0 THEN Larger(ended, trust.prov[p].gen + 1) ELSE ended
            IN  trust' = Save([Retain(trust, p, agreed) EXCEPT
                    !.peer[p] = NoGrant, !.prov[p] = NoOffer,
                    !.denied[p] = [NoDenial EXCEPT !.gen = agreed, !.block = TRUE]])
    /\ UNCHANGED removed /\ Others

(* UnblockPeer: AllowPeer, whatever kind of denial there is                *)
Unblock(p) ==
    /\ Take("unblocks") /\ Denied(trust, p)
    /\ trust' = Save([Retain(trust, p, trust.denied[p].gen) EXCEPT !.denied[p] = NoDenial])
    /\ removed' = [removed EXCEPT ![p] = 0]
    /\ Others

Forget(p) ==
    /\ Take("forgets")
    /\ IF Denied(trust, p) \/ trust.peer[p].gen = 0 THEN UNCHANGED <<trust, removed>>
       ELSE LET d == Ended(trust.peer[p], trust.peer[p].rev, TRUE)
            IN  /\ trust' = Save([Retain(trust, p, d.gen) EXCEPT
                                      !.peer[p] = NoGrant, !.prov[p] = NoOffer, !.denied[p] = d])
                /\ removed' = [removed EXCEPT ![p] = trust.peer[p].inc]
    /\ Others

(* SetAlwaysAccept *)
Accept(p) ==
    /\ Take("accepts") /\ Allowed(trust, p) /\ trust.peer[p].gen > 0 /\ ~trust.peer[p].auto
    /\ trust' = [trust EXCEPT !.peer[p].auto = TRUE]
    /\ UNCHANGED removed /\ Others

(* LAN pairing: the generation is read, the other side asked, the consent  *)
(* recorded (BeginProvisionalLAN), and later carried out or left to expire   *)
AskPairing(p) ==
    /\ Take("pairings") /\ offer[p] = NoOffer
    /\ ~(Denied(trust, p) /\ trust.denied[p].block)
    /\ offer' = [offer EXCEPT ![p] = [gen |-> PairGeneration(trust, p), state |-> "asked"]]
    /\ UNCHANGED <<trust, server, call, lanOpen, removed>>
RecordConsent(p) ==
    /\ offer[p].state = "asked" /\ trust.prov[p].state # "accepted"   \* bound: one consent at a time
    /\ offer' = [offer EXCEPT ![p] = NoOffer]
    /\ IF ~(Denied(trust, p) /\ trust.denied[p].block) /\ AcceptedGeneration(trust, p) = offer[p].gen
       THEN trust' = Save([trust EXCEPT !.prov[p] = [gen |-> offer[p].gen, state |-> "accepted"]])
       ELSE UNCHANGED trust
    /\ UNCHANGED <<server, call, lanOpen, removed, budget>>
CommitPairing(p) ==
    /\ trust.prov[p].state = "accepted"
    /\ CanCommit(trust, p, trust.prov[p].gen)
    /\ trust' = Save([Committed(trust, p, trust.prov[p].gen) EXCEPT !.prov[p].state = "done"])
    /\ removed' = [removed EXCEPT ![p] = 0]
    /\ UNCHANGED <<server, call, offer, lanOpen, budget>>
ExpirePairing(p) ==
    /\ trust.prov[p] # NoOffer
    /\ trust' = [trust EXCEPT !.prov[p] = NoOffer]
    /\ UNCHANGED <<removed, budget>> /\ Others

(* Trust: a member of the same group, by its fingerprint *)
TrustByFingerprint(p) ==
    /\ Take("trusts") /\ Enrolled("me") /\ server.grp[p] = server.grp["me"]
    /\ trust' = Save(Pinned(trust, p))
    /\ UNCHANGED removed /\ Others
(* A LAN session opens under a grant, and at its end rememberLANPeer pins  *)
(* the device again with its address.  By then the grant may be gone.      *)
OpenSession(p) ==
    /\ Take("sessions") /\ p \notin lanOpen /\ InForce(trust, p) > 0
    /\ lanOpen' = lanOpen \cup {p}
    /\ UNCHANGED <<trust, server, call, offer, removed>>
EndSession(p) ==
    /\ p \in lanOpen /\ lanOpen' = lanOpen \ {p}
    /\ trust' = Save(Pinned(trust, p))
    /\ UNCHANGED <<server, call, offer, removed, budget>>

UserSteps == \E p \in budget.who :
    \/ Block(p) \/ Unblock(p) \/ Forget(p) \/ Accept(p)
    \/ AskPairing(p) \/ RecordConsent(p) \/ CommitPairing(p) \/ ExpirePairing(p)
    \/ TrustByFingerprint(p) \/ OpenSession(p) \/ EndSession(p)

-----------------------------------------------------------------------------
(* What the application does with the server, holding membershipMu         *)

Local == UNCHANGED <<offer, lanOpen>>
Proceed(at) == call' = [call EXCEPT !.at = at]
Finish == call' = Idle
(* a request that is not heard, or whose answer is not                     *)
Unheard == Take("losses")

(* Devices: pending removals first, then one snapshot                      *)
\* Mutant: a refresh does not repeat what is pending.
RefreshOnly ==
    /\ call = Idle /\ ~Recovering(trust) /\ call' = [Idle EXCEPT !.kind = "refresh", !.at = "flush"]
    /\ UNCHANGED <<trust, server, removed, budget>> /\ Local
StartRefresh ==
    /\ call = Idle /\ ~Recovering(trust)
    /\ call' = [Idle EXCEPT !.kind = "refresh", !.at = "flush", !.pend = trust.denied,
                          !.todo = {p \in Peers : trust.denied[p].pending}]
    /\ UNCHANGED <<trust, server, removed, budget>> /\ Local

(* RevokeMembershipPeer: the intent is on disk before the request is sent  *)
RemovedHere(f, p, req) ==
    [f EXCEPT !.peer[p] = NoGrant,
              !.denied[p] = [Ended(f.peer[p], f.peer[p].rev, FALSE) EXCEPT !.req = req, !.pending = TRUE]]
(* Revoke: a member is removed here first, then at the server; asked again *)
(* while that is pending, it may name this device's new context.           *)
StartRevoke(p) ==
    /\ call = Idle /\ Take("revokes")
    /\ \/ /\ HasGroup(trust.peer[p]) /\ trust.peer[p].inc > 0 /\ ~Denied(trust, p)
          /\ LET f == RemovedHere(trust, p, server.fresh)
             IN  /\ trust' = Save(f)
                 /\ call' = [Idle EXCEPT !.kind = "revoke", !.at = "flush", !.todo = {p}, !.pend = f.denied]
          /\ removed' = [removed EXCEPT ![p] = trust.peer[p].inc]
          /\ server' = [server EXCEPT !.fresh = @ + 1]
       \/ /\ trust.peer[p].gen = 0 /\ trust.denied[p].pending
          /\ call' = [Idle EXCEPT !.kind = "revoke", !.at = "flush", !.todo = {p}, !.pend = trust.denied,
                                !.explicit = TRUE]
          /\ UNCHANGED <<trust, removed, server>>
    /\ Local

(* InitializeMembership: a device with a history is in its group already,  *)
(* or has to go through recovery                                           *)
History(f) ==
    \/ f.snaps # {} \/ f.retired # {}
    \/ \E p \in Peers : HasGroup(f.peer[p]) \/ f.denied[p].pending \/ f.denied[p].group > 0 \/ f.denied[p].target > 0
StartInitialize ==
    /\ call = Idle /\ ~Recovering(trust) /\ Take("joins")
    /\ \/ ~History(trust)
       \/ Enrolled("me")
    /\ call' = [Idle EXCEPT !.kind = "initialize", !.at = "ask"]
    /\ UNCHANGED <<trust, server, removed>> /\ Local

(* CheckMembershipRevocationCurrent *)
StillWanted(p) ==
    LET d == trust.denied[p] IN
    /\ ~Recovering(trust) /\ d.pending /\ ~d.block /\ ~d.retired
    /\ call.pend[p] = [d EXCEPT !.seen = call.pend[p].seen]
NextRemoval ==
    IF call.kind = "refresh" THEN call' = [call EXCEPT !.at = "flush", !.now = {}, !.rev = 0] ELSE Finish
(* revokeMembershipWithRefreshLocked: who this device is in the group now, *)
FetchActor(p) ==
    /\ call.at = "flush" /\ p \in call.todo
    /\ \/ /\ StillWanted(p) /\ Enrolled("me") /\ UNCHANGED budget
          /\ call' = [call EXCEPT !.at = "prove", !.todo = @ \ {p}, !.now = {p}, !.seen = SnapshotFor("me")]
       \/ /\ ~(StillWanted(p) /\ Enrolled("me")) /\ UNCHANGED budget
          /\ IF call.kind = "refresh" THEN call' = [call EXCEPT !.todo = @ \ {p}] ELSE Finish
       \/ /\ Unheard
          /\ IF call.kind = "refresh" THEN call' = [call EXCEPT !.todo = @ \ {p}] ELSE Finish
    /\ UNCHANGED <<trust, server, removed>> /\ Local
(* and whether the removal is still its own: only an explicit repetition   *)
(* may carry it over into a new context (RenewMembershipRevokeIntent)      *)
SameActor(d) == d.group = call.seen.group /\ d.here = call.seen.here
ProveActor(p) ==
    LET d == call.pend[p]
        target == call.seen.who[p]
        renewed == [d EXCEPT !.req = server.fresh, !.group = call.seen.group, !.here = call.seen.here, !.seen = call.seen.rev]
    IN
    /\ call.at = "prove" /\ p \in call.now
    /\ \/ /\ target \in {0, d.target} /\ SameActor(d) /\ StillWanted(p)
          /\ Proceed("send") /\ UNCHANGED <<trust, server>>
       \/ /\ target = d.target /\ ~SameActor(d) /\ call.explicit /\ call.seen.rev > d.seen
          /\ trust.denied[p] = d
          /\ trust' = Save([trust EXCEPT !.denied[p] = renewed])
          /\ server' = [server EXCEPT !.fresh = @ + 1]
          /\ call' = [call EXCEPT !.at = "send again", !.pend[p] = renewed, !.rev = call.seen.rev]
       \/ /\ ~(target \in {0, d.target} /\ SameActor(d) /\ StillWanted(p))
          /\ ~(target = d.target /\ ~SameActor(d) /\ call.explicit /\ call.seen.rev > d.seen /\ trust.denied[p] = d)
          /\ NextRemoval /\ UNCHANGED <<trust, server>>
    /\ UNCHANGED <<removed, budget>> /\ Local

(* One DELETE; refused for its revision, once more with the current one.   *)
(* The answer may be lost whether or not the server acted on the request.  *)
Removal(p, expected) ==
    LET d == call.pend[p]
        again == call.at = "send" /\ call.seen.who[p] > 0 /\ call.seen.rev > d.seen
        carried == Carried(d.req)
    IN
    \/ /\ carried # {} /\ UNCHANGED <<server, budget>>
       /\ call' = [call EXCEPT !.at = "mark", !.rev = (CHOOSE r \in carried : TRUE).rev]
    \/ /\ carried = {} /\ MayRevoke(d.here, p, d.target, expected)
       /\ server' = RevokedBy(d.req, p, d.target)
       /\ \/ call' = [call EXCEPT !.at = "mark", !.rev = expected + 1] /\ UNCHANGED budget
          \/ Unheard /\ NextRemoval
    \/ /\ carried = {} /\ ~MayRevoke(d.here, p, d.target, expected) /\ UNCHANGED <<server, budget>>
       /\ IF again /\ StillWanted(p)
          THEN call' = [call EXCEPT !.at = "send again", !.rev = call.seen.rev]
          ELSE NextRemoval
    \/ Unheard /\ NextRemoval /\ UNCHANGED server
SendRemoval(p) ==
    /\ call.at \in {"send", "send again"} /\ p \in call.now
    /\ Removal(p, IF call.at = "send" THEN call.pend[p].seen ELSE call.rev)
    /\ UNCHANGED <<trust, removed>> /\ Local
(* MarkMembershipRevokeSynced *)
MarkSynced(p) ==
    /\ call.at = "mark" /\ p \in call.now
    /\ IF Denied(trust, p) /\ trust.denied[p].req = call.pend[p].req
       THEN trust' = Save([trust EXCEPT !.denied[p].pending = FALSE, !.denied[p].seen = Larger(@, call.rev)])
       ELSE UNCHANGED trust
    /\ NextRemoval
    /\ UNCHANGED <<server, removed, budget>> /\ Local

(* Join and SwitchMembership, with a code of the device p                  *)
StartJoin(p) ==
    /\ call = Idle /\ ~Recovering(trust) /\ Take("joins") /\ Enrolled(p)
    /\ \E switch \in BOOLEAN : call' = [Idle EXCEPT
            !.kind = IF switch THEN "switch" ELSE "join", !.at = IF switch THEN "current" ELSE "ask",
            !.code = server.grp[p]]
    /\ \/ server' = Coded(p)
       \/ CodeValid(server.grp[p]) /\ UNCHANGED server
    /\ UNCHANGED <<trust, removed>> /\ Local
FetchCurrent ==
    /\ call.at = "current" /\ UNCHANGED <<trust, server, removed>> /\ Local
    /\ \/ Enrolled("me") /\ call' = [call EXCEPT !.at = "ask", !.seen = SnapshotFor("me")] /\ UNCHANGED budget
       \/ ~Enrolled("me") /\ Finish /\ UNCHANGED budget
       \/ Unheard /\ Finish
AskJoin ==
    /\ call.at = "ask" /\ call.kind \in {"join", "switch"}
    /\ LET expect == IF call.kind = "switch"
                     THEN Context(call.seen.group, call.seen.here, call.seen.rev) ELSE NoOffer
       IN \/ /\ JoinAllowed(call.code, expect) /\ server' = JoinedGroup(call.code)
             /\ \/ Proceed("fetch") /\ UNCHANGED budget
                \/ Unheard /\ Finish
          \/ ~JoinAllowed(call.code, expect) /\ Finish /\ UNCHANGED <<server, budget>>
    /\ UNCHANGED <<trust, removed>> /\ Local
(* the last part of a refresh, a join and a switch: fetch, and apply       *)
Fetch ==
    /\ \/ call.at = "fetch"
       \/ call.kind = "refresh" /\ call.at = "flush" /\ call.todo = {}
    /\ \/ /\ Enrolled("me") /\ UNCHANGED budget
          /\ call' = [call EXCEPT !.seen = SnapshotFor("me"), !.pend = Idle.pend,
                              !.at = CASE call.kind = "refresh" -> "apply" [] call.kind = "recover" -> "complete"
                                       [] OTHER -> "restore"]
       \/ ~Enrolled("me") /\ Finish /\ UNCHANGED budget
       \/ Unheard /\ Finish
    /\ UNCHANGED <<trust, server, removed>> /\ Local
(* RestoreForgottenPeers *)
Restored == {p \in Peers : call.seen.who[p] > 0 /\ trust.denied[p].forgotten
                           /\ ~trust.denied[p].block /\ ~trust.denied[p].pending}
RestoreForgotten ==
    /\ call.at = "restore" /\ Proceed("apply")
    /\ trust' = Save([trust EXCEPT
            !.epoch = [p \in Peers |-> IF p \in Restored THEN Larger(@[p], trust.denied[p].gen) ELSE @[p]],
            !.denied = [p \in Peers |-> IF p \in Restored THEN NoDenial ELSE @[p]]])
    /\ removed' = [p \in Peers |-> IF p \in Restored THEN 0 ELSE removed[p]]
    /\ UNCHANGED <<server, budget>> /\ Local
(* syncPairedDevices: ApplyMembershipSnapshot *)
Apply ==
    /\ call.at = "apply" /\ Finish
    /\ trust' = IF CanApply(trust, call.seen) THEN Save(Applied(trust, call.seen)) ELSE trust
    /\ UNCHANGED <<server, removed, budget>> /\ Local

(* Membership recovery: prepared by the user, continued as often as it     *)
(* takes.  It first looks whether an earlier request was carried out.      *)
PrepareRecovery ==
    /\ call = Idle /\ Take("recoveries") /\ ~Recovering(trust)
    /\ \E mode \in {"initialize", "join"} : trust' = Save(Prepared(trust, mode))
    /\ UNCHANGED <<call, server, removed>> /\ Local
CancelRecovery ==
    /\ call = Idle /\ Recovering(trust) /\ Take("cancels")
    /\ trust' = IF trust.recov = "prepared" THEN [trust EXCEPT !.recov = "none", !.mode = "none"]
                ELSE [trust EXCEPT !.recov = "paused"]
    /\ UNCHANGED <<call, server, removed>> /\ Local
ContinueRecovery ==
    /\ call = Idle /\ Recovering(trust) /\ Take("continues")
    /\ \/ /\ Enrolled("me") /\ UNCHANGED <<trust, server>>
          /\ call' = [Idle EXCEPT !.kind = "recover", !.at = "complete", !.seen = SnapshotFor("me")]
       \/ /\ ~Enrolled("me") /\ trust' = [trust EXCEPT !.recov = "started"]
          /\ IF trust.mode = "initialize"
             THEN call' = [Idle EXCEPT !.kind = "recover", !.at = "ask"] /\ UNCHANGED server
             ELSE \E p \in {q \in budget.who : Enrolled(q)} :
                    /\ call' = [Idle EXCEPT !.kind = "recover", !.at = "ask", !.code = server.grp[p]]
                    /\ server' = Coded(p)
    /\ UNCHANGED removed /\ Local
AskEnrolment ==
    /\ call.kind \in {"initialize", "recover"} /\ call.at = "ask"
    /\ LET may == IF call.code > 0 THEN JoinAllowed(call.code, NoOffer) ELSE Enrolled("me") \/ NewGroups # {}
           done == IF call.code > 0 THEN JoinedGroup(call.code)
                   ELSE IF Enrolled("me") THEN server ELSE Enrol(server, "me", CHOOSE g \in NewGroups : TRUE)
       IN \/ /\ may /\ server' = done
             /\ \/ call.kind = "recover" /\ Proceed("fetch") /\ UNCHANGED budget
                \/ call.kind = "initialize" /\ Finish /\ UNCHANGED budget
                \/ Unheard /\ Finish
          \/ ~may /\ Finish /\ UNCHANGED <<server, budget>>
    /\ UNCHANGED <<trust, removed>> /\ Local
CompleteRecovery ==
    /\ call.at = "complete" /\ Finish
    /\ IF CanComplete(trust, call.seen)
       THEN trust' = Save(Completed(trust, call.seen)) /\ removed' = [p \in Peers |-> 0]
       ELSE UNCHANGED <<trust, removed>>
    /\ UNCHANGED <<server, budget>> /\ Local

(* The program ends: the file stays, what was in memory does not           *)
Crash ==
    /\ Take("crashes")
    /\ call' = Idle /\ offer' = [p \in Peers |-> NoOffer] /\ lanOpen' = {}
    /\ UNCHANGED <<trust, server, removed>>

MemberSteps ==
    \/ \E p \in Peers : FetchActor(p) \/ ProveActor(p) \/ SendRemoval(p) \/ MarkSynced(p)
    \/ FetchCurrent \/ AskJoin \/ Fetch \/ RestoreForgotten \/ Apply \/ AskEnrolment \/ CompleteRecovery
MemberCalls ==
    \/ StartRefresh \/ StartInitialize \/ PrepareRecovery \/ CancelRecovery \/ ContinueRecovery \/ Crash
    \/ \E p \in budget.who : StartRevoke(p) \/ StartJoin(p)

-----------------------------------------------------------------------------
(* Other members, and the server's database                                *)

Elsewhere == UNCHANGED <<trust, call, offer, lanOpen, removed>>
PeerMoves(p) ==
    /\ Take("moves")
    /\ \/ \E g \in Groups : g # server.grp[p] /\ server' = Enrol(server, p, g)
       \/ Enrolled(p) /\ server' = Dismiss(server, p)
    /\ Elsewhere
OwnMembershipEnds == Take("moves") /\ Enrolled("me") /\ server' = Dismiss(server, "me") /\ Elsewhere
(* the database is lost, and a new one started: groups do not come back    *)
DatabaseLost ==
    /\ Take("resets")
    /\ server' = [server EXCEPT !.grp = [d \in Members |-> 0], !.done = {},
                                !.code = [g \in Groups |-> [by |-> "none", inc |-> 0, used |-> 0]]]
    /\ Elsewhere
ServerSteps == (\E p \in budget.who : PeerMoves(p)) \/ OwnMembershipEnds \/ DatabaseLost

-----------------------------------------------------------------------------
MembersInit ==
    /\ \E s \in MemberScenarios : budget = s /\
        \* a group that this device, unless it is new, and the peers of s.with
        \* are in, synchronized here
        /\ server = [grp |-> [d \in Members |-> IF d \in s.with \/ (d = "me" /\ ~s.new) THEN 1 ELSE 0],
                     inc |-> [d \in Members |-> IF d = "me" THEN 1 ELSE 2],
                     rev |-> [g \in Groups |-> IF g = 1 THEN 1 ELSE 0], fresh |-> 3, done |-> {},
                     code |-> [g \in Groups |-> [by |-> "none", inc |-> 0, used |-> 0]]]
        /\ trust = [peer |-> [p \in Peers |-> IF p \in s.with /\ ~s.new
                                  THEN [kind |-> "group", group |-> 1, inc |-> 2, here |-> 1, rev |-> 1, gen |-> 1, auto |-> FALSE]
                                  ELSE NoGrant],
                    denied |-> [p \in Peers |-> NoDenial], epoch |-> [p \in Peers |-> 0],
                    snaps |-> IF s.new THEN {} ELSE {Context(1, 1, 1)}, retired |-> {}, prov |-> [p \in Peers |-> NoOffer],
                    recov |-> "none", mode |-> "none"]
    /\ call = Idle /\ offer = [p \in Peers |-> NoOffer] /\ lanOpen = {}
    /\ removed = [p \in Peers |-> 0]
    /\ spent = [p \in Peers |-> InForce(trust, p)]

(* A pairing agreed to before the user lifted a denial is carried out: the *)
(* generations in force are counted from this grant on.                    *)
LateConsent(p) == trust.prov[p].state = "accepted" /\ trust'.prov[p].state = "done" /\ trust.prov[p].gen <= trust.epoch[p]
Recorded == spent' = [p \in Peers |->
    IF LateConsent(p) THEN InForce(trust', p) ELSE Larger(spent[p], InForce(trust', p))]
MembersNext == (MemberSteps \/ MemberCalls \/ UserSteps \/ ServerSteps) /\ Recorded

(* Fairness: the desktop asks for the devices every few seconds            *)
(* (desktop_entries.go), and a call that has begun goes on.  One of the    *)
(* two waits for the other, so that fairness to both is fairness to each.  *)
GoesOn == (MemberSteps \/ StartRefresh) /\ Recorded
MembersSpec == MembersInit /\ [][MembersNext]_mbVars /\ WF_mbVars(GoesOn)
-----------------------------------------------------------------------------
(* Properties *)

(* A generation that was withdrawn comes into force again.                 *)
ComesBack(p) == InForce(trust', p) \notin {0, InForce(trust, p)} /\ InForce(trust', p) <= spent[p]

(* A generation that was withdrawn is never in force again: whatever a     *)
(* later grant rests on, tasks and sessions of the earlier one stay fenced *)
(* (AuthorizationGeneration, retainAuthorizationEpoch, BeginProvisionalLAN *)
(* and commitLANPeerFile count apart, and each may be overtaken).  The one *)
(* way round it is LateConsent: an offer agreed to before a denial was     *)
(* lifted (docs/SECURITY.md:90 knows none).  A grant made after one counts *)
(* on from it, and may reach a generation that was withdrawn before.       *)
FencesHold == [][\A p \in Peers : ComesBack(p) => LateConsent(p)]_mbVars

(* A member the user removed is not trusted again as the member it was: a  *)
(* snapshot fetched before, a session that ends late and a repeated        *)
(* request do not bring it back (RevokeMembershipPeer, applyMembershipPeer,*)
(* rememberLANPeer).                                                       *)
RemovedStaysOut == \A p \in Peers : removed[p] > 0 => trust.peer[p].inc # removed[p]

(* No device is trusted and denied at once: a forgotten device whose       *)
(* session ends late is not pinned again (parseTrustFile, in saveTrust).   *)
DeniedIsNotTrusted == \A p \in Peers : Denied(trust, p) => trust.peer[p].gen = 0

(* Accepting everything from a device is agreed to for one grant, and ends *)
(* with it (SetAutoAccept; trustPeer, applyMembershipPeer and              *)
(* commitLANPeerFile decide each what they keep of the grant they replace).*)
ConsentIsPerGrant == [][\A p \in Peers :
    trust'.peer[p].auto => trust'.peer[p].gen = trust.peer[p].gen]_mbVars

(* All grants of a group rest on one context, which was not retired        *)
(* (applyMembershipSnapshotFile, retireSupersededMembershipContexts).      *)
GrantsShareContext ==
    LET used == {<<trust.peer[p].group, trust.peer[p].here>> : p \in {q \in Peers : HasGroup(trust.peer[q])}}
    IN  Cardinality(used) <= 1 /\ used \cap trust.retired = {}

(* A removal reaches the server, or there is nothing left to remove: the   *)
(* member has gone, or this device is no longer the member that asked      *)
(* (flushPendingRevocationsLocked, revokeMembershipWithRefreshLocked).     *)
RemovalReachesServer == \A p \in Peers :
    trust.denied[p].pending ~>
        \/ ~trust.denied[p].pending \/ Recovering(trust)
        \/ server.inc[p] # trust.denied[p].target \/ ~Enrolled(p)
        \/ server.inc["me"] # trust.denied[p].here \/ ~Enrolled("me")

(* The trust file never holds a row that another row, or what the user     *)
(* decided, contradicts.                                                   *)
MembersInv == RemovedStaysOut /\ DeniedIsNotTrusted /\ GrantsShareContext

(* A grant never takes over what was tied to an earlier one: neither its   *)
(* generation nor what the user agreed to under it.                        *)
GrantsAreFenced == FencesHold /\ ConsentIsPerGrant
=============================================================================
