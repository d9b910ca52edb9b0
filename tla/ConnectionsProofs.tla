------------------------- MODULE ConnectionsProofs -------------------------
(***************************************************************************)
(* The trust file of a device holds no contradiction, and no grant comes   *)
(* back under a generation that was withdrawn, for any number of devices   *)
(* and groups, however often the user, the server and the network change   *)
(* what is trusted; and of two devices of a local network that dial,       *)
(* adopt, reserve, serve and close sessions, each keeps a live session     *)
(* in its pool or closes it, and keeps one that a file or a lease          *)
(* reserves.                                                               *)
(***************************************************************************)
EXTENDS Membership, Sessions, FiniteSetTheorems, TLAPS

(***************************************************************************)
(* The inductive invariant                                                 *)
(***************************************************************************)
Grants ==
    [kind : {"none", "lan", "group", "group+lan"}, group : Nat, inc : Nat, here : Nat, rev : Nat, gen : Nat, auto : BOOLEAN]
Denials ==
    [gen : Nat, block : BOOLEAN, forgotten : BOOLEAN, target : Nat, group : Nat, here : Nat, seen : Nat, req : Nat,
     pending : BOOLEAN, retired : BOOLEAN]
Offers == [gen : Nat, state : {"none", "asked", "accepted", "done"}]
Snapshots == [group : 0 .. MaxGroups, here : Nat, rev : Nat, who : [Peers -> Nat]]
TrustFiles ==
    [peer : [Peers -> Grants], denied : [Peers -> Denials], epoch : [Peers -> Nat],
     snaps : SUBSET [group : Nat, here : Nat, rev : Nat], retired : SUBSET (Nat \X Nat), prov : [Peers -> Offers],
     recov : {"none", "prepared", "started", "paused"}, mode : {"none", "initialize", "join"}]
ControlStores ==
    [grp : [Members -> 0 .. MaxGroups], inc : [Members -> Nat], rev : [Groups -> Nat], fresh : Nat,
     done : SUBSET [req : Nat, peer : Peers, target : Nat, rev : Nat],
     code : [Groups -> [by : Peers \cup {"none"}, inc : Nat, used : Nat]]]
MemberCallsOK ==
    [kind : {"idle", "refresh", "revoke", "initialize", "join", "switch", "recover"},
     at : {"none", "flush", "prove", "send", "send again", "mark", "current", "ask", "fetch", "restore", "apply", "complete"},
     todo : SUBSET Peers, now : SUBSET Peers, pend : [Peers -> Denials], seen : Snapshots, code : 0 .. MaxGroups,
     rev : Nat, explicit : BOOLEAN]

\* The shapes of what the argument looks at.
RestTypeOK ==
    /\ server \in ControlStores /\ call \in MemberCallsOK /\ (call.kind \in {"join", "switch"} => call.code > 0)
    /\ offer \in [Peers -> Offers] /\ removed \in [Peers -> Nat]
    /\ "who" \in DOMAIN budget /\ budget.who \subseteq Peers
MembersTypeOK == trust \in TrustFiles /\ RestTypeOK /\ spent \in [Peers -> Nat]

\* A generation is kept with the grant, or with what remains of it: whatever is
\* granted next is above those that were in force, and a grant that is fenced
\* already counts as the next one.
Above(g, d, e, fenced, n) ==
    /\ d.gen > 0 /\ ~d.block => n < d.gen
    /\ d.gen > 0 /\ d.block => n <= e
    /\ d.gen = 0 /\ g.gen = 0 => n <= e
    /\ d.gen = 0 /\ g.gen > 0 => n <= g.gen
    /\ d.gen = 0 /\ g.gen > 0 /\ fenced /\ HasGroup(g) => n < g.gen
RowOK(g, d, e, o, fenced, n) ==
    /\ g.gen = 0 <=> g.kind = "none"
    /\ g.gen = 0 => ~g.auto
    /\ g.gen = 0 \/ d.gen = 0
    /\ o.state = "accepted" => o.gen > 0
    /\ Above(g, d, e, fenced, n)
Rows(f, n) ==
    \A p \in Peers : RowOK(f.peer[p], f.denied[p], f.epoch[p], f.prov[p], Recovering(f), n[p])

\* All grants of a group are in one context, which was not retired.
OneContext(f) ==
    \A p \in Peers : HasGroup(f.peer[p]) =>
        /\ <<f.peer[p].group, f.peer[p].here>> \notin f.retired
        /\ \A q \in Peers : HasGroup(f.peer[q]) => f.peer[q].group = f.peer[p].group /\ f.peer[q].here = f.peer[p].here

\* Incarnations only grow: what is known of a device (the incarnation k it has
\* now) is not newer than the device itself, and what was fetched (w) is not older
\* than what is in the file.  A member that was removed as r is barred by name, or
\* is not the member it was.
Barrier(d, r) == d.gen > 0 /\ (d.block \/ (d.target = r /\ ~d.retired))
KnownInTime(g, r, k, w, fresh) ==
    /\ k < fresh /\ r <= k /\ g.inc <= k /\ w <= k
    /\ w # 0 => r <= w /\ g.inc <= w
StaysOut(g, d, r, k, w) ==
    r > 0 => g.inc # r /\ (Barrier(d, r) \/ (k # r /\ w # r))
Incarnations ==
    \A p \in Peers :
        /\ KnownInTime(trust.peer[p], removed[p], server.inc[p], call.seen.who[p], server.fresh)
        /\ StaysOut(trust.peer[p], trust.denied[p], removed[p], server.inc[p], call.seen.who[p])

MembersIInv == Rows(trust, spent) /\ OneContext(trust) /\ Incarnations

-----------------------------------------------------------------------------
(* What a step does to the file *)

RowAt(f, p, n) == RowOK(f.peer[p], f.denied[p], f.epoch[p], f.prov[p], Recovering(f), n)
Late(h, p) == trust.prov[p].state = "accepted" /\ h.prov[p].state = "done" /\ trust.prov[p].gen <= trust.epoch[p]

\* A file that may follow: no generation of its grants was withdrawn before, but
\* for a late consent, and no preference outlives the grant it was given to.
Follows(h) ==
    /\ h \in TrustFiles /\ OneContext(h)
    /\ \A p \in Peers :
          /\ RowAt(h, p, spent[p]) \/ (Late(h, p) /\ RowAt(h, p, InForce(h, p)))
          /\ InForce(h, p) \in {0, InForce(trust, p)} \/ InForce(h, p) > spent[p] \/ Late(h, p)
          /\ h.peer[p].auto => h.peer[p].gen = trust.peer[p].gen

\* h is f with another row for p.
Written(f, h, p, g, d, e, o) ==
    /\ h \in TrustFiles
    /\ h.peer = [f.peer EXCEPT ![p] = g] /\ h.denied = [f.denied EXCEPT ![p] = d]
    /\ h.epoch = [f.epoch EXCEPT ![p] = e] /\ h.prov = [f.prov EXCEPT ![p] = o]
    /\ h.snaps = f.snaps /\ h.retired = f.retired /\ h.recov = f.recov /\ h.mode = f.mode

\* The row of a snapshot's file h that may take the place of p's in f.
SnapshotMay(f, s, p, h, n) ==
    /\ h.peer[p] \in Grants /\ h.denied[p] \in Denials /\ h.epoch[p] \in Nat
    /\ RowOK(h.peer[p], h.denied[p], h.epoch[p], f.prov[p], FALSE, n)
    /\ \/ h.peer[p].gen = 0 \/ h.peer[p].gen > n
       \/ h.peer[p].gen = f.peer[p].gen /\ f.denied[p].gen = 0
    /\ h.peer[p].auto => h.peer[p].gen = f.peer[p].gen
    /\ HasGroup(h.peer[p]) => h.peer[p].group = s.group /\ h.peer[p].here = s.here
    /\ \/ /\ h.peer[p].inc \in {0, f.peer[p].inc}
          /\ \A r \in Nat : Barrier(f.denied[p], r) => Barrier(h.denied[p], r)
       \/ /\ h.peer[p].inc = s.who[p] /\ s.who[p] # 0
          /\ \A r \in Nat : Barrier(f.denied[p], r) => s.who[p] # r

\* What a step leaves: the incarnations, but for new ones elsewhere, and the
\* removals of other devices, but for those that are lifted.
Quietly(p) ==
    /\ removed' \in [Peers -> Nat] /\ \A q \in Peers \ {p} : removed'[q] \in {0, removed[q]}
    /\ \A q \in Peers : server'.inc[q] = server.inc[q] /\ call'.seen.who[q] \in {0, call.seen.who[q]}
    /\ server' \in ControlStores /\ server'.fresh \in Nat /\ server'.fresh >= server.fresh
\* The row that may take the place of p's.
RowMay(p, g, d, e, o) ==
    /\ \/ /\ RowOK(g, d, e, o, Recovering(trust), spent[p])
          /\ \/ g.gen = 0 \/ g.gen > spent[p]
             \/ g.gen = trust.peer[p].gen /\ (HasGroup(g) <=> HasGroup(trust.peer[p]))
       \/ /\ trust.prov[p].state = "accepted" /\ o.state = "done" /\ trust.prov[p].gen <= trust.epoch[p]
          /\ RowOK(g, d, e, o, Recovering(trust), g.gen) /\ d.gen = 0 /\ ~HasGroup(g)
    /\ HasGroup(g) => HasGroup(trust.peer[p]) /\ g.group = trust.peer[p].group /\ g.here = trust.peer[p].here
    /\ g.auto => g.gen = trust.peer[p].gen
RemovalKept(p, d) == removed'[p] = removed[p] /\ (Barrier(trust.denied[p], removed[p]) => Barrier(d, removed[p]))

\* What the server's store may become: incarnations only grow.
Grown(srv) ==
    /\ srv \in ControlStores /\ srv.fresh >= server.fresh
    /\ \A q \in Peers : srv.inc[q] = server.inc[q] \/ (srv.inc[q] = server.fresh /\ srv.fresh > server.fresh)

StepOK == Follows(trust') /\ Incarnations' /\ RestTypeOK'

\* What the operation in progress may become: what it has fetched is no newer than
\* the devices.
CallOK(c) ==
    /\ c \in MemberCallsOK /\ (c.kind \in {"join", "switch"} => c.code > 0)
    /\ \A q \in Peers : c.seen.who[q] \in {0, call.seen.who[q], server.inc[q]}

-----------------------------------------------------------------------------
(* What the operators return *)

\* Rows of a file are replaced one field at a time.
LEMMA RowsWritten ==
    ASSUME NEW f \in TrustFiles, NEW h, NEW p \in Peers,
           NEW g \in Grants, NEW d \in Denials, NEW e \in Nat, NEW o \in Offers, Written(f, h, p, g, d, e, o)
    PROVE  /\ \A x \in Grants : Written(f, [h EXCEPT !.peer[p] = x], p, x, d, e, o)
           /\ \A x \in Denials : Written(f, [h EXCEPT !.denied[p] = x], p, g, x, e, o)
           /\ \A x \in Nat : Written(f, [h EXCEPT !.epoch[p] = x], p, g, d, x, o)
           /\ \A x \in Offers : Written(f, [h EXCEPT !.prov[p] = x], p, g, d, e, x)
  <1>1. ASSUME NEW x \in Grants PROVE Written(f, [h EXCEPT !.peer[p] = x], p, x, d, e, o)
    <2>1. [h EXCEPT !.peer[p] = x] \in TrustFiles BY <1>1 DEF TrustFiles, Written
    <2> QED BY <1>1, <2>1 DEF TrustFiles, Written
  <1>2. ASSUME NEW x \in Denials PROVE Written(f, [h EXCEPT !.denied[p] = x], p, g, x, e, o)
    <2>1. [h EXCEPT !.denied[p] = x] \in TrustFiles BY <1>2 DEF TrustFiles, Written
    <2> QED BY <1>2, <2>1 DEF TrustFiles, Written
  <1>3. ASSUME NEW x \in Nat PROVE Written(f, [h EXCEPT !.epoch[p] = x], p, g, d, x, o)
    <2>1. [h EXCEPT !.epoch[p] = x] \in TrustFiles BY <1>3 DEF TrustFiles, Written
    <2> QED BY <1>3, <2>1 DEF TrustFiles, Written
  <1>4. ASSUME NEW x \in Offers PROVE Written(f, [h EXCEPT !.prov[p] = x], p, g, d, e, x)
    <2>1. [h EXCEPT !.prov[p] = x] \in TrustFiles BY <1>4 DEF TrustFiles, Written
    <2> QED BY <1>4, <2>1 DEF TrustFiles, Written
  <1> QED BY <1>1, <1>2, <1>3, <1>4

\* The file itself may follow.
LEMMA UnchangedFollows ==
    ASSUME MembersTypeOK, MembersIInv
    PROVE  /\ Follows(trust)
           /\ \A p \in Peers :
                 /\ RowOK(trust.peer[p], trust.denied[p], trust.epoch[p], trust.prov[p], Recovering(trust), spent[p])
                 /\ Written(trust, trust, p, trust.peer[p], trust.denied[p], trust.epoch[p], trust.prov[p])
                 /\ trust.peer[p] \in Grants /\ trust.denied[p] \in Denials /\ trust.epoch[p] \in Nat
                 /\ trust.prov[p] \in Offers /\ spent[p] \in Nat
  <1>1. trust \in TrustFiles /\ Rows(trust, spent) /\ OneContext(trust) BY DEF MembersTypeOK, MembersIInv
  <1>2. \A p \in Peers : RowAt(trust, p, spent[p]) BY <1>1 DEF Rows, RowAt
  <1>3. \A p \in Peers : Written(trust, trust, p, trust.peer[p], trust.denied[p], trust.epoch[p], trust.prov[p])
    BY <1>1 DEF Written, TrustFiles
  <1>4. Follows(trust) BY <1>1, <1>2 DEF Follows
  <1>5. \A p \in Peers :
           /\ trust.peer[p] \in Grants /\ trust.denied[p] \in Denials /\ trust.epoch[p] \in Nat
           /\ trust.prov[p] \in Offers /\ spent[p] \in Nat
    BY <1>1 DEF TrustFiles, MembersTypeOK
  <1> QED BY <1>2, <1>3, <1>4, <1>5 DEF RowAt

-----------------------------------------------------------------------------
(* A snapshot *)

\* The contexts a file knows are contexts.
LEMMA ContextTypes ==
    ASSUME NEW f \in TrustFiles
    PROVE  Contexts(f) \subseteq [group : Nat, here : Nat, rev : Nat] /\ Pairs(Contexts(f)) \subseteq Nat \X Nat
  <1>1. \A g \in Grants : Context(g.group, g.here, g.rev) \in [group : Nat, here : Nat, rev : Nat] BY DEF Grants, Context
  <1>2. \A d \in Denials : Context(d.group, d.here, d.seen) \in [group : Nat, here : Nat, rev : Nat] BY DEF Denials, Context
  <1>3. /\ \A p \in Peers : f.peer[p] \in Grants /\ f.denied[p] \in Denials
        /\ f.snaps \subseteq [group : Nat, here : Nat, rev : Nat]
    BY DEF TrustFiles
  <1>4. Contexts(f) \subseteq [group : Nat, here : Nat, rev : Nat]
    <2> SUFFICES ASSUME NEW c \in Contexts(f) PROVE c \in [group : Nat, here : Nat, rev : Nat] OBVIOUS
    <2>1. CASE c \in f.snaps BY <2>1, <1>3
    <2>2. CASE \E p \in Peers : c = Context(f.peer[p].group, f.peer[p].here, f.peer[p].rev) BY <2>2, <1>1, <1>3
    <2>3. CASE \E p \in Peers : c = Context(f.denied[p].group, f.denied[p].here, f.denied[p].seen) BY <2>3, <1>2, <1>3
    <2> QED BY <2>1, <2>2, <2>3 DEF Contexts
  <1>5. Pairs(Contexts(f)) \subseteq Nat \X Nat BY <1>4 DEF Pairs
  <1> QED BY <1>4, <1>5

-----------------------------------------------------------------------------
(* The server *)

LEMMA StoreSteps ==
    ASSUME server \in ControlStores
    PROVE  /\ Grown(server)
           /\ \A d \in Members, g \in Groups : Grown(Enrol(server, d, g))
           /\ \A d \in Members : Enrolled(d) => Grown(Dismiss(server, d))
           /\ \A p \in Peers : Enrolled(p) => Grown(Coded(p))
           /\ \A g \in Groups : Grown(JoinedGroup(g))
           /\ \A p \in Peers, r \in Nat, t \in Nat : Enrolled(p) => Grown(RevokedBy(r, p, t))
           /\ Enrolled("me") => /\ SnapshotFor("me") \in Snapshots
                                /\ \A q \in Peers : SnapshotFor("me").who[q] \in {0, server.inc[q]}
  <1>1. /\ server.grp \in [Members -> 0 .. MaxGroups] /\ server.inc \in [Members -> Nat] /\ server.rev \in [Groups -> Nat]
        /\ server.fresh \in Nat /\ server.code \in [Groups -> [by : Peers \cup {"none"}, inc : Nat, used : Nat]]
        /\ server.done \subseteq [req : Nat, peer : Peers, target : Nat, rev : Nat]
    BY DEF ControlStores
  <1>2. MaxGroups \in Nat /\ "me" \notin Peers /\ "me" \in Members /\ Peers \subseteq Members BY MembershipAssumption DEF Members
  <1>3. Grown(server) BY <1>1 DEF Grown
  <1>4. ASSUME NEW d \in Members, Enrolled(d) PROVE server.grp[d] \in Groups /\ server.rev[server.grp[d]] \in Nat
    <2> DEFINE k == server.grp[d]
    <2>1. k \in 0 .. MaxGroups /\ k > 0 BY <1>1, <1>4 DEF Enrolled
    <2> HIDE DEF k
    <2>2. k \in Groups BY <2>1, <1>2 DEF Groups
    <2>3. server.rev[k] \in Nat BY <2>2, <1>1
    <2> QED BY <2>2, <2>3 DEF k
  <1>5. ASSUME NEW d \in Members, NEW g \in Groups PROVE Grown(Enrol(server, d, g))
    <2> DEFINE n == server.fresh + 1
               G == [server.grp EXCEPT ![d] = g]
               I == [server.inc EXCEPT ![d] = server.fresh]
               R == [h \in Groups |-> IF h = g \/ h = server.grp[d] THEN server.rev[h] + 1 ELSE server.rev[h]]
               x == Enrol(server, d, g)
    <2>1. G \in [Members -> 0 .. MaxGroups] /\ I \in [Members -> Nat] /\ R \in [Groups -> Nat] /\ n \in Nat /\ n > server.fresh
      <3>1. g \in 0 .. MaxGroups BY <1>2, <1>5 DEF Groups
      <3>2. G \in [Members -> 0 .. MaxGroups] BY <3>1, <1>1, <1>5
      <3>3. I \in [Members -> Nat] BY <1>1
      <3>4. \A h \in Groups : server.rev[h] \in Nat /\ server.rev[h] + 1 \in Nat BY <1>1
      <3>5. R \in [Groups -> Nat] BY <3>4
      <3>6. n \in Nat /\ n > server.fresh BY <1>1
      <3> QED BY <3>2, <3>3, <3>5, <3>6
    <2>2. x = [server EXCEPT !.grp = G, !.inc = I, !.fresh = n, !.rev = R] BY <1>1 DEF Enrol, ControlStores
    <2> HIDE DEF x, G, n, R
    <2>3. \A q \in Peers : I[q] = server.inc[q] \/ I[q] = server.fresh BY <1>1, <1>2
    <2> HIDE DEF I
    <2>4. [server EXCEPT !.grp = G, !.inc = I] \in ControlStores BY <2>1 DEF ControlStores
    <2> DEFINE y == [server EXCEPT !.grp = G, !.inc = I]
    <2> HIDE DEF y
    <2>5. [y EXCEPT !.fresh = n, !.rev = R] \in ControlStores BY <2>1, <2>4 DEF ControlStores, y
    <2>6. x \in ControlStores /\ x.fresh = n /\ x.inc = I BY <2>2, <2>5 DEF ControlStores, y
    <2>7. x.fresh >= server.fresh /\ x.fresh > server.fresh BY <2>1, <2>6, <1>1
    <2>8. \A q \in Peers : x.inc[q] = server.inc[q] \/ x.inc[q] = server.fresh BY <2>3, <2>6
    <2> QED BY <2>6, <2>7, <2>8 DEF Grown, x
  <1>6. ASSUME NEW d \in Members, Enrolled(d)
        PROVE  Dismiss(server, d) \in ControlStores /\ Dismiss(server, d).fresh = server.fresh /\ Dismiss(server, d).inc = server.inc
    <2> DEFINE k == server.grp[d]
               v == server.rev[k] + 1
               G == [server.grp EXCEPT ![d] = 0]
               R == [server.rev EXCEPT ![k] = v]
    <2>1. k \in Groups /\ v \in Nat BY <1>1, <1>4, <1>6
    <2>2. G \in [Members -> 0 .. MaxGroups] /\ R \in [Groups -> Nat]
      <3>1. 0 \in 0 .. MaxGroups BY <1>2
      <3>2. G \in [Members -> 0 .. MaxGroups] BY <3>1, <1>1
      <3> HIDE DEF v, k
      <3> QED BY <3>2, <2>1, <1>1
    <2>3. Dismiss(server, d) = [server EXCEPT !.grp = G, !.rev = R] BY <1>1 DEF Dismiss, ControlStores
    <2> HIDE DEF G, R
    <2> QED BY <2>2, <2>3 DEF ControlStores
  <1>7. ASSUME NEW p \in Peers, Enrolled(p) PROVE Grown(Coded(p))
    <2> DEFINE k == server.grp[p]
               c == [by |-> p, inc |-> server.inc[p], used |-> 0]
               C == [server.code EXCEPT ![k] = c]
    <2>1. c \in [by : Peers \cup {"none"}, inc : Nat, used : Nat] BY <1>1, <1>2, <1>7
    <2>2. C \in [Groups -> [by : Peers \cup {"none"}, inc : Nat, used : Nat]] BY <2>1, <1>1
    <2>3. Coded(p) = [server EXCEPT !.code = C] BY <1>1 DEF Coded, ControlStores
    <2> HIDE DEF C
    <2>4. [server EXCEPT !.code = C] \in ControlStores BY <2>2 DEF ControlStores
    <2>5. [server EXCEPT !.code = C].inc = server.inc /\ [server EXCEPT !.code = C].fresh = server.fresh BY DEF ControlStores
    <2> QED BY <2>3, <2>4, <2>5, <1>1 DEF Grown
  <1>8. ASSUME NEW g \in Groups PROVE Grown(JoinedGroup(g))
    <2> DEFINE j == IF server.grp["me"] = g THEN server ELSE Enrol(server, "me", g)
               u == j.inc["me"]
    <2>1. Grown(j) BY <1>2, <1>3, <1>5
    <2> HIDE DEF j
    <2>2. j \in ControlStores BY <2>1 DEF Grown
    <2>3. u \in Nat BY <2>2, <1>2 DEF ControlStores
    <2> HIDE DEF u
    <2> DEFINE C == [j.code EXCEPT ![g].used = u]
    <2>4. C \in [Groups -> [by : Peers \cup {"none"}, inc : Nat, used : Nat]] BY <2>2, <2>3 DEF ControlStores
    <2>5. [j EXCEPT !.code[g].used = u] = [j EXCEPT !.code = C] BY <2>2 DEF ControlStores
    <2> HIDE DEF C
    <2>6. Grown([j EXCEPT !.code = C])
      <3>1. [j EXCEPT !.code = C] \in ControlStores BY <2>2, <2>4 DEF ControlStores
      <3>2. [j EXCEPT !.code = C].inc = j.inc /\ [j EXCEPT !.code = C].fresh = j.fresh BY <2>2 DEF ControlStores
      <3> QED BY <3>1, <3>2, <2>1 DEF Grown
    <2> QED BY <2>5, <2>6, <1>3 DEF JoinedGroup, j, u
  <1>9. ASSUME NEW p \in Peers, NEW r \in Nat, NEW t \in Nat, Enrolled(p) PROVE Grown(RevokedBy(r, p, t))
    <2> DEFINE x == Dismiss(server, p)
               v == server.rev[server.grp[p]] + 1
               e == [req |-> r, peer |-> p, target |-> t, rev |-> v]
    <2>1. x \in ControlStores /\ x.fresh = server.fresh /\ x.inc = server.inc BY <1>2, <1>6, <1>9
    <2>2. v \in Nat BY <1>2, <1>9, <1>4
    <2> HIDE DEF v
    <2>3. e \in [req : Nat, peer : Peers, target : Nat, rev : Nat] BY <2>2, <1>9
    <2> HIDE DEF e, x
    <2>4. RevokedBy(r, p, t) = [x EXCEPT !.done = x.done \cup {e}] BY <2>1 DEF RevokedBy, x, e, v, ControlStores
    <2>5. [x EXCEPT !.done = x.done \cup {e}] \in ControlStores BY <2>1, <2>3 DEF ControlStores
    <2>6. /\ [x EXCEPT !.done = x.done \cup {e}].inc = server.inc
          /\ [x EXCEPT !.done = x.done \cup {e}].fresh = server.fresh
      BY <2>1 DEF ControlStores
    <2> QED BY <2>4, <2>5, <2>6, <1>1 DEF Grown
  <1>10. ASSUME Enrolled("me")
        PROVE  /\ SnapshotFor("me") \in Snapshots
               /\ \A q \in Peers : SnapshotFor("me").who[q] \in {0, server.inc[q]}
    <2>1. server.rev[server.grp["me"]] \in Nat BY <1>2, <1>10, <1>4
    <2>2. [p \in Peers |-> IF server.grp[p] = server.grp["me"] THEN server.inc[p] ELSE 0] \in [Peers -> Nat] BY <1>1, <1>2
    <2> QED BY <2>1, <2>2, <1>1, <1>2 DEF SnapshotFor, Snapshots
  <1>11. ASSUME NEW d \in Members, Enrolled(d) PROVE Grown(Dismiss(server, d)) BY <1>1, <1>2, <1>6, <1>11 DEF Grown
  <1> QED BY <1>3, <1>5, <1>7, <1>8, <1>9, <1>10, <1>11

-----------------------------------------------------------------------------
(* The operation in progress *)

-----------------------------------------------------------------------------
(* Whatever happens *)

\* A step keeps the invariant; a generation comes back only by a late consent, and
\* what the user accepts from a device does not outlive the grant.
LEMMA MembersKeep ==
    ASSUME MembersTypeOK, MembersIInv, [MembersNext]_mbVars
    PROVE  /\ MembersTypeOK' /\ MembersIInv'
           /\ \A p \in Peers : ComesBack(p) => LateConsent(p)
           /\ \A p \in Peers : trust'.peer[p].auto => trust'.peer[p].gen = trust.peer[p].gen
  \* With the file as it was, the store and the operation may go on.
  \* An operation goes on one field at a time.
  <1>CallWritten.
      ASSUME NEW c, CallOK(c)
      PROVE  /\ \A k \in {"idle", "refresh", "revoke", "initialize", "recover"} : CallOK([c EXCEPT !.kind = k])
             /\ \A x \in {"none", "flush", "prove", "send", "send again", "mark", "current", "ask", "fetch", "restore",
                          "apply", "complete"} : CallOK([c EXCEPT !.at = x])
             /\ \A t \in SUBSET Peers : CallOK([c EXCEPT !.todo = t]) /\ CallOK([c EXCEPT !.now = t])
             /\ \A x \in [Peers -> Denials] : CallOK([c EXCEPT !.pend = x])
             /\ \A n \in Nat : CallOK([c EXCEPT !.rev = n])
             /\ \A n \in Groups : CallOK([c EXCEPT !.code = n])
             /\ \A s \in Snapshots : (\A q \in Peers : s.who[q] \in {0, server.inc[q]}) => CallOK([c EXCEPT !.seen = s])
             /\ CallOK([c EXCEPT !.explicit = TRUE])
             /\ \A x : /\ [c EXCEPT !.kind = x].seen = c.seen /\ [c EXCEPT !.at = x].seen = c.seen
                      /\ [c EXCEPT !.todo = x].seen = c.seen /\ [c EXCEPT !.now = x].seen = c.seen
                      /\ [c EXCEPT !.pend = x].seen = c.seen /\ [c EXCEPT !.rev = x].seen = c.seen
    <2> USE <1>CallWritten
    <2>1. ASSUME NEW k \in {"idle", "refresh", "revoke", "initialize", "recover"} PROVE CallOK([c EXCEPT !.kind = k])
      BY <2>1 DEF CallOK, MemberCallsOK
    <2>2. ASSUME NEW x \in {"none", "flush", "prove", "send", "send again", "mark", "current", "ask", "fetch", "restore",
                            "apply", "complete"}
          PROVE CallOK([c EXCEPT !.at = x])
      BY <2>2 DEF CallOK, MemberCallsOK
    <2>3. ASSUME NEW t \in SUBSET Peers PROVE CallOK([c EXCEPT !.todo = t]) /\ CallOK([c EXCEPT !.now = t])
      BY <2>3 DEF CallOK, MemberCallsOK
    <2>4. ASSUME NEW x \in [Peers -> Denials] PROVE CallOK([c EXCEPT !.pend = x])
      BY <2>4 DEF CallOK, MemberCallsOK
    <2>5. ASSUME NEW n \in Nat PROVE CallOK([c EXCEPT !.rev = n])
      BY <2>5 DEF CallOK, MemberCallsOK
    <2>6. ASSUME NEW n \in Groups PROVE CallOK([c EXCEPT !.code = n])
      <3>1. n \in 0 .. MaxGroups /\ n > 0 BY <2>6, MembershipAssumption DEF Groups
      <3> QED BY <3>1 DEF CallOK, MemberCallsOK
    <2>7. ASSUME NEW s \in Snapshots, \A q \in Peers : s.who[q] \in {0, server.inc[q]} PROVE CallOK([c EXCEPT !.seen = s])
      BY <2>7 DEF CallOK, MemberCallsOK
    <2>8. CallOK([c EXCEPT !.explicit = TRUE])
      BY DEF CallOK, MemberCallsOK
    <2>9. ASSUME NEW x
          PROVE  /\ [c EXCEPT !.kind = x].seen = c.seen /\ [c EXCEPT !.at = x].seen = c.seen
                 /\ [c EXCEPT !.todo = x].seen = c.seen /\ [c EXCEPT !.now = x].seen = c.seen
                 /\ [c EXCEPT !.pend = x].seen = c.seen /\ [c EXCEPT !.rev = x].seen = c.seen
      BY DEF CallOK, MemberCallsOK
    <2> QED BY <2>1, <2>2, <2>3, <2>4, <2>5, <2>6, <2>7, <2>8, <2>9
  \* The denial that ends a grant counts on from it, and names its incarnation.
  <1>EndedRow.
      ASSUME NEW g \in Grants, NEW seen \in Nat, NEW b \in BOOLEAN
      PROVE  /\ Ended(g, seen, b) \in Denials
             /\ Ended(g, seen, b).gen = g.gen + 1 /\ Ended(g, seen, b).target = g.inc
             /\ ~Ended(g, seen, b).block /\ ~Ended(g, seen, b).retired /\ ~Ended(g, seen, b).pending
    <2> USE <1>EndedRow
    <2> DEFINE next == g.gen + 1
               a1 == [NoDenial EXCEPT !.gen = next, !.target = g.inc]
               a2 == [a1 EXCEPT !.group = g.group, !.here = g.here]
    <2>1. next \in Nat /\ g.inc \in Nat /\ g.group \in Nat /\ g.here \in Nat BY DEF Grants
    <2>2. Ended(g, seen, b) = [a2 EXCEPT !.seen = seen, !.forgotten = b] BY DEF Ended
    <2> SUFFICES /\ [a2 EXCEPT !.seen = seen, !.forgotten = b] \in Denials
                 /\ LET d == [a2 EXCEPT !.seen = seen, !.forgotten = b]
                    IN  d.gen = next /\ d.target = g.inc /\ ~d.block /\ ~d.retired /\ ~d.pending
      BY <2>2
    <2> HIDE DEF next
    <2>3. a1 \in Denials
      <3>1. NoDenial \in Denials BY DEF Denials, NoDenial
      <3> QED BY <2>1, <3>1 DEF Denials
    <2>4. a1.gen = next /\ a1.target = g.inc /\ ~a1.block /\ ~a1.retired /\ ~a1.pending BY DEF NoDenial
    <2> HIDE DEF a1
    <2>5. a2 \in Denials /\ a2.gen = next /\ a2.target = g.inc /\ ~a2.block /\ ~a2.retired /\ ~a2.pending
      BY <2>1, <2>3, <2>4 DEF Denials
    <2> HIDE DEF a2
    <2> QED BY <2>5 DEF Denials
  \* What is known of the devices after a step: a row keeps its incarnation or loses it
  \* (and a removal stays barred unless it is lifted), is replaced by what the snapshot
  \* says, or ends with the removal of its device.
  <1>IncarnationsKept.
      ASSUME MembersTypeOK, Incarnations, removed' \in [Peers -> Nat], Grown(server'),
             \A q \in Peers :
                 /\ call'.seen.who[q] \in {0, call.seen.who[q], server.inc[q]}
                 /\ \/ /\ trust'.peer[q].inc \in {0, trust.peer[q].inc}
                       /\ \/ removed'[q] = 0
                          \/ /\ removed'[q] = removed[q]
                             /\ Barrier(trust.denied[q], removed[q]) => Barrier(trust'.denied[q], removed[q])
                    \/ /\ trust'.peer[q].inc = call.seen.who[q] /\ call.seen.who[q] # 0
                       /\ \/ removed'[q] = 0
                          \/ removed'[q] = removed[q] /\ (Barrier(trust.denied[q], removed[q]) => call.seen.who[q] # removed[q])
                    \/ /\ trust'.peer[q].inc = 0 /\ removed'[q] = trust.peer[q].inc
                       /\ Barrier(trust'.denied[q], removed'[q])
      PROVE  Incarnations'
    <2> USE <1>IncarnationsKept
    <2> SUFFICES ASSUME NEW q \in Peers
                 PROVE  /\ KnownInTime(trust'.peer[q], removed'[q], server'.inc[q], call'.seen.who[q], server'.fresh)
                        /\ StaysOut(trust'.peer[q], trust'.denied[q], removed'[q], server'.inc[q], call'.seen.who[q])
      BY DEF Incarnations
    <2> DEFINE k == server.inc[q]
               w == call.seen.who[q]
               r == removed[q]
               g == trust'.peer[q]
               d == trust'.denied[q]
               m == trust.peer[q].inc
    <2>1. k < server.fresh /\ r <= k /\ m <= k /\ w <= k /\ (w # 0 => r <= w /\ m <= w)
      BY DEF Incarnations, KnownInTime
    <2>2. r > 0 => m # r /\ (Barrier(trust.denied[q], r) \/ (k # r /\ w # r))
      BY DEF Incarnations, StaysOut
    <2>3. m \in Nat /\ k \in Nat /\ server.fresh \in Nat /\ r \in Nat /\ w \in Nat /\ removed'[q] \in Nat
      BY DEF MembersTypeOK, RestTypeOK, TrustFiles, Grants, ControlStores, MemberCallsOK, Snapshots, Members
    <2>4. /\ server'.fresh \in Nat /\ server'.fresh >= server.fresh
          /\ server'.inc[q] = k \/ (server'.inc[q] = server.fresh /\ server'.fresh > server.fresh)
      BY DEF Grown, ControlStores
    <2>5. call'.seen.who[q] \in {0, w, k} OBVIOUS
    <2>6. CASE /\ g.inc \in {0, m}
               /\ removed'[q] = 0 \/ (removed'[q] = r /\ (Barrier(trust.denied[q], r) => Barrier(d, r)))
      <3>1. KnownInTime(g, removed'[q], server'.inc[q], call'.seen.who[q], server'.fresh)
        BY <2>1, <2>3, <2>4, <2>5, <2>6 DEF KnownInTime
      <3>2. StaysOut(g, d, removed'[q], server'.inc[q], call'.seen.who[q])
        BY <2>1, <2>2, <2>3, <2>4, <2>5, <2>6 DEF StaysOut
      <3> QED BY <3>1, <3>2
    <2>7. CASE /\ g.inc = w /\ w # 0
               /\ removed'[q] = 0 \/ (removed'[q] = r /\ (Barrier(trust.denied[q], r) => w # r))
      <3>1. KnownInTime(g, removed'[q], server'.inc[q], call'.seen.who[q], server'.fresh)
        BY <2>1, <2>3, <2>4, <2>5, <2>7 DEF KnownInTime
      <3>2. removed'[q] > 0 => removed'[q] = r /\ w # r /\ k # r BY <2>1, <2>2, <2>3, <2>7
      <3>3. removed'[q] > 0 => server'.inc[q] # r /\ call'.seen.who[q] # r BY <3>2, <2>1, <2>3, <2>4, <2>5
      <3>4. StaysOut(g, d, removed'[q], server'.inc[q], call'.seen.who[q]) BY <3>2, <3>3, <2>7 DEF StaysOut
      <3> QED BY <3>1, <3>4
    <2>8. CASE g.inc = 0 /\ removed'[q] = m /\ Barrier(d, removed'[q])
      <3>1. KnownInTime(g, removed'[q], server'.inc[q], call'.seen.who[q], server'.fresh)
        BY <2>1, <2>3, <2>4, <2>5, <2>8 DEF KnownInTime
      <3>2. StaysOut(g, d, removed'[q], server'.inc[q], call'.seen.who[q]) BY <2>3, <2>8 DEF StaysOut
      <3> QED BY <3>1, <3>2
    <2> QED BY <2>6, <2>7, <2>8
  \* What may become of p's row: a grant of the snapshot's own context, whose
  \* generation was not in force before, or what was there.
  <1>SnapshotRow. ASSUME NEW f \in TrustFiles, NEW s \in Snapshots, NEW p \in Peers, NEW n \in Nat,
                         RowOK(f.peer[p], f.denied[p], f.epoch[p], f.prov[p], FALSE, n)
                  PROVE  SnapshotMay(f, s, p, Applied(f, s), n)
    <2> USE <1>SnapshotRow
    <2> USE DEF SnapshotMay
    <2> DEFINE g == f.peer[p]
               d == f.denied[p]
               e == f.epoch[p]
               o == f.prov[p]
               w == s.who[p]
    <2>1. /\ g \in Grants /\ d \in Denials /\ e \in Nat /\ o \in Offers /\ w \in Nat /\ s.group \in Nat /\ s.here \in Nat /\ s.rev \in Nat
          /\ RowOK(g, d, e, o, FALSE, n) /\ Written(f, f, p, g, d, e, o)
      <3>1. g \in Grants /\ d \in Denials /\ e \in Nat /\ o \in Offers BY DEF TrustFiles
      <3>2. w \in Nat /\ s.group \in Nat /\ s.here \in Nat /\ s.rev \in Nat BY DEF Snapshots
      <3>3. Written(f, f, p, g, d, e, o) BY DEF TrustFiles, Written
      <3> QED BY <3>1, <3>2, <3>3
    <2>2. /\ NoGrant \in Grants /\ NoDenial \in Denials /\ NoGrant.gen = 0 /\ NoGrant.inc = 0 /\ ~HasGroup(NoGrant)
          /\ NoGrant.kind = "none" /\ ~NoGrant.auto /\ NoDenial.gen = 0
      BY DEF Grants, NoGrant, Denials, NoDenial, HasGroup
    <2>3. PICK g1 \in Grants, d1 \in Denials :
            /\ Written(f, Superseded(f, p, s), p, g1, d1, e, o)
            /\ RowOK(g1, d1, e, o, FALSE, n)
            /\ g1.gen = 0 \/ g1.gen > n \/ (g1.gen = g.gen /\ d.gen = 0)
            /\ g1.auto => g1.gen = g.gen
            /\ HasGroup(g1) => g1.group = s.group /\ w > 0
            /\ g1.inc \in {0, g.inc} /\ (d.gen > 0 => d1 = d)
      <3>1. CASE ~HasGroup(g)
        <4>1. Superseded(f, p, s) = f BY <3>1 DEF Superseded
        <4>2. g.gen = 0 \/ d.gen = 0 BY <2>1 DEF RowOK
        <4> QED BY <4>1, <4>2, <3>1, <2>1
      <3>2. CASE HasGroup(g) /\ g.group # s.group /\ g.kind = "group+lan"
        <4> DEFINE next == g.gen + 1
                   G == [NoGrant EXCEPT !.kind = "lan", !.gen = next]
        <4>1. Superseded(f, p, s) = [f EXCEPT !.peer[p] = G] BY <3>2 DEF Superseded
        <4>2. next \in Nat /\ next > g.gen BY <2>1 DEF Grants
        <4>3. g.gen > 0 /\ d.gen = 0 /\ n <= g.gen BY <3>2, <2>1 DEF RowOK, Above, Grants, Denials
        <4>4. next > n /\ next > 0 BY <4>2, <4>3, <2>1 DEF Grants
        <4> HIDE DEF next
        <4>5. G \in Grants BY <4>2, <2>2 DEF Grants
        <4>6. G.gen = next /\ G.kind = "lan" /\ G.inc = 0 BY <4>2, <2>2 DEF Grants
        <4>7. ~G.auto BY DEF NoGrant
        <4> HIDE DEF G
        <4>8. Written(f, Superseded(f, p, s), p, G, d, e, o) BY <4>1, <4>5, <2>1, RowsWritten
        <4>9. RowOK(G, d, e, o, FALSE, n) BY <4>2, <4>3, <4>4, <4>6, <4>7, <2>1 DEF RowOK, Above
        <4>10. ~HasGroup(G) BY <4>6 DEF HasGroup
        <4> QED BY <4>4, <4>5, <4>6, <4>7, <4>8, <4>9, <4>10, <2>1
      <3>3. CASE HasGroup(g) /\ ~(g.group # s.group /\ g.kind = "group+lan") /\ (g.group # s.group \/ w = 0)
        <4> DEFINE seen == IF g.group # s.group THEN g.rev ELSE s.rev
                   D == Ended(g, seen, FALSE)
                   f1 == [f EXCEPT !.peer[p] = NoGrant]
        <4>1. g.gen > 0 /\ d.gen = 0 /\ n <= g.gen BY <3>3, <2>1 DEF RowOK, Above, Grants, Denials, HasGroup
        <4>2. Superseded(f, p, s) = [f1 EXCEPT !.denied[p] = D]
          <5>1. ~Denied(f, p) BY <4>1 DEF Denied
          <5> QED BY <5>1, <3>3 DEF Superseded
        <4>3. D \in Denials /\ D.gen = g.gen + 1 /\ ~D.block
          <5>1. seen \in Nat BY <2>1 DEF Grants
          <5> QED BY <5>1, <2>1, <1>EndedRow
        <4> HIDE DEF D
        <4>4. Written(f, f1, p, NoGrant, d, e, o) BY <2>1, <2>2, RowsWritten
        <4> HIDE DEF f1
        <4>5. Written(f, Superseded(f, p, s), p, NoGrant, D, e, o) BY <4>2, <4>3, <4>4, <2>1, <2>2, RowsWritten
        <4>6. RowOK(NoGrant, D, e, o, FALSE, n) BY <4>1, <4>3, <2>1, <2>2 DEF RowOK, Above, Grants
        <4>7. ~(d.gen > 0) BY <4>1
        <4> QED BY <4>3, <4>5, <4>6, <4>7, <2>2
      <3>4. CASE HasGroup(g) /\ g.group = s.group /\ w # 0
        <4>1. Superseded(f, p, s) = f BY <3>4 DEF Superseded
        <4>2. g.gen = 0 \/ d.gen = 0 BY <2>1 DEF RowOK
        <4>3. w > 0 BY <3>4, <2>1
        <4> QED BY <4>1, <4>2, <4>3, <3>4, <2>1
      <3> QED BY <3>1, <3>2, <3>3, <3>4
    <2>4. DEFINE e1 == Superseded(f, p, s)
    <2>5. e1.peer[p] = g1 /\ e1.denied[p] = d1 /\ e1.epoch[p] = e /\ e1 \in TrustFiles BY <2>1, <2>3 DEF Written, TrustFiles
    <2>6. CASE ~(w > 0 /\ ~Refused(e1, p, s))
      <3>1. /\ Applied(f, s).peer[p] = g1 /\ Applied(f, s).denied[p] = d1 /\ Applied(f, s).epoch[p] = e
        BY <2>5, <2>6 DEF Applied
      <3>2. ~HasGroup(g1)
        <4>1. HasGroup(g1) => d1.gen = 0 BY <2>1, <2>3 DEF RowOK, HasGroup, Denials
        <4>2. d1.gen = 0 => ~Refused(e1, p, s) BY <2>5 DEF Refused, Denied
        <4> QED BY <4>1, <4>2, <2>3, <2>6
      <3>3. \A r \in Nat : Barrier(d, r) => Barrier(d1, r) BY <2>3 DEF Barrier
      <3> QED BY <3>1, <3>2, <3>3, <2>1, <2>3
    <2>7. CASE w > 0 /\ ~Refused(e1, p, s)
      <3> DEFINE same == g1.group = s.group /\ g1.inc = w /\ g1.here = s.here
                 next == IF d1.gen > 0 THEN d1.gen + 1 ELSE e + 1
                 count == IF g1.gen = 0 THEN next ELSE IF same THEN g1.gen ELSE Larger(next, g1.gen + 1)
                 kind == IF g1.kind \in {"lan", "group+lan"} THEN "group+lan" ELSE "group"
                 keep == same /\ g1.auto
                 G == [kind |-> kind, group |-> s.group, inc |-> w, here |-> s.here, rev |-> s.rev, gen |-> count, auto |-> keep]
                 D == IF d1.gen > 0 THEN NoDenial ELSE d1
                 E == IF d1.gen > 0 THEN Larger(e, d1.gen) ELSE e
      <3>1. Applied(f, s).peer[p] = G /\ Applied(f, s).denied[p] = D /\ Applied(f, s).epoch[p] = E
        <4> DEFINE m == Granted(e1, p, s)
                   c1 == Retain(e1, p, d1.gen)
                   c2 == IF Denied(e1, p) THEN [c1 EXCEPT !.denied[p] = NoDenial] ELSE e1
        <4>1. Applied(f, s).peer[p] = m.peer[p] /\ Applied(f, s).denied[p] = m.denied[p] /\ Applied(f, s).epoch[p] = m.epoch[p]
          BY <2>7 DEF Applied
        <4>2. m = [c2 EXCEPT !.peer[p] = G] BY <2>5 DEF Granted, Denied
        <4>3. c2 \in TrustFiles /\ c2.denied[p] = D /\ c2.epoch[p] = E
          <5>1. CASE d1.gen > 0
            <6>1. Larger(e, d1.gen) \in Nat BY <2>1, <2>3 DEF Larger, Denials
            <6>2. Written(f, c1, p, g1, d1, E, o) BY <5>1, <6>1, <2>1, <2>3, <2>5, RowsWritten DEF Retain
            <6> HIDE DEF c1
            <6>3. Written(f, [c1 EXCEPT !.denied[p] = NoDenial], p, g1, NoDenial, E, o)
              BY <5>1, <6>1, <6>2, <2>1, <2>2, <2>3, RowsWritten
            <6>4. c2 = [c1 EXCEPT !.denied[p] = NoDenial] BY <5>1, <2>5 DEF Denied
            <6> HIDE DEF c2, E
            <6>5. c2 \in TrustFiles /\ c2.denied[p] = NoDenial /\ c2.epoch[p] = E
              BY <6>3, <6>4, <2>1 DEF Written, TrustFiles
            <6> QED BY <6>5, <5>1
          <5>2. CASE ~(d1.gen > 0) BY <5>2, <2>5 DEF Denied
          <5> QED BY <5>1, <5>2
        <4> HIDE DEF c2, G, D, E
        <4>4. m.peer[p] = G /\ m.denied[p] = D /\ m.epoch[p] = E BY <4>2, <4>3 DEF TrustFiles
        <4> QED BY <4>1, <4>4
      <3>2. /\ d1.gen \in Nat /\ g1.gen \in Nat /\ (g1.gen = 0 \/ d1.gen = 0)
            /\ d1.gen > 0 => ~d1.block /\ n < d1.gen
            /\ d1.gen = 0 /\ g1.gen = 0 => n <= e
            /\ d1.gen = 0 /\ g1.gen > 0 => n <= g1.gen
        <4>1. d1.gen > 0 => ~d1.block BY <2>5, <2>7 DEF Refused, Denied
        <4>2. d1.gen \in Nat /\ g1.gen \in Nat BY <2>3 DEF Grants, Denials
        <4> QED BY <4>1, <4>2, <2>3 DEF RowOK, Above
      <3>3. /\ count \in Nat /\ n <= count /\ count > 0
            /\ count > n \/ (count = g1.gen /\ g1.gen > 0)
            /\ same /\ g1.gen > 0 => count = g1.gen
        <4>1. next \in Nat /\ next > 0 BY <3>2, <2>1
        <4>2. g1.gen = 0 => next > n BY <3>2, <2>1
        <4> HIDE DEF next, same
        <4> QED BY <4>1, <4>2, <3>2, <2>1 DEF Larger
      <3>4. G \in Grants
        <4>1. kind \in {"group", "group+lan"} /\ keep \in BOOLEAN OBVIOUS
        <4> HIDE DEF count, kind, keep
        <4> QED BY <4>1, <3>3, <2>1 DEF Grants
      <3>5. D \in Denials /\ D.gen = 0 /\ E \in Nat
        BY <3>2, <2>1, <2>2, <2>3 DEF Larger
      <3>6. G.gen = count /\ G.kind # "none" /\ G.inc = w /\ G.group = s.group /\ G.here = s.here OBVIOUS
      <3>7. G.auto => count = g.gen
        <4>1. G.auto => same /\ g1.auto OBVIOUS
        <4>2. g1.auto => g1.gen # 0 BY <2>3 DEF RowOK
        <4>3. g1.auto => g1.gen > 0 /\ g1.gen = g.gen BY <4>2, <3>2, <2>3
        <4> QED BY <4>1, <4>3, <3>3
      <3>8. ASSUME NEW r \in Nat, Barrier(d, r) PROVE w # r
        <4>1. d1 = d /\ d.gen > 0 BY <3>8, <2>3 DEF Barrier
        <4>2. Denied(e1, p) /\ e1.denied[p] = d BY <4>1, <2>5 DEF Denied
        <4> QED BY <4>2, <3>8, <2>7 DEF Barrier, Refused
      <3>9. count > n \/ (count = g.gen /\ d.gen = 0)
        <4>1. CASE count > n BY <4>1
        <4>2. CASE count = g1.gen /\ g1.gen > 0 BY <4>2, <2>3
        <4> QED BY <4>1, <4>2, <3>3
      <3> HIDE DEF G, D, E, count
      <3>10. RowOK(G, D, E, o, FALSE, n)
        <4>1. Above(G, D, E, FALSE, n) BY <3>3, <3>5, <3>6 DEF Above
        <4>2. o.state = "accepted" => o.gen > 0 BY <2>1 DEF RowOK
        <4>3. G.gen > 0 BY <3>3, <3>6
        <4>4. ~(G.gen = 0) BY <4>3, <3>3, <3>6
        <4> QED BY <4>1, <4>2, <4>4, <3>5, <3>6 DEF RowOK
      <3>11. G.inc = w /\ w # 0 /\ \A r \in Nat : Barrier(d, r) => w # r BY <3>6, <3>8, <2>1, <2>7
      <3>12. G.gen > n \/ (G.gen = g.gen /\ d.gen = 0) BY <3>6, <3>9
      <3>13. G.auto => G.gen = g.gen BY <3>6, <3>7
      <3> QED BY <3>1, <3>4, <3>5, <3>6, <3>10, <3>11, <3>12, <3>13
    <2> QED BY <2>6, <2>7
  \* Both together, for a row that is saved: an invalid file is not written.
  <1>RowStep.
      ASSUME MembersTypeOK, MembersIInv, NEW h, NEW p \in Peers,
             NEW g \in Grants, NEW d \in Denials, NEW e \in Nat, NEW o \in Offers, Written(trust, h, p, g, d, e, o),
             trust' = Save(h) \/ (trust' = h /\ Valid(h)),
             Valid(h) => RowMay(p, g, d, e, o), Quietly(p), g.inc \in {0, trust.peer[p].inc},
             \/ removed'[p] = 0 \/ RemovalKept(p, d)
             \/ removed'[p] = trust.peer[p].inc /\ g.inc = 0 /\ Barrier(d, removed'[p]) /\ Valid(h)
      PROVE  Follows(trust') /\ Incarnations'
    <2> USE <1>RowStep
    \* A file with one row replaced may follow when that row may.
    <2>RowFollows. ASSUME Rows(trust, spent), OneContext(trust), RowMay(p, g, d, e, o)
                   PROVE  Follows(h)
      <3> USE <2>RowFollows
      <3>1. h \in TrustFiles /\ trust \in TrustFiles BY DEF Written, MembersTypeOK
      <3>2. /\ h.peer[p] = g /\ h.denied[p] = d /\ h.epoch[p] = e /\ h.prov[p] = o
            /\ \A q \in Peers \ {p} : /\ h.peer[q] = trust.peer[q] /\ h.denied[q] = trust.denied[q]
                                      /\ h.epoch[q] = trust.epoch[q] /\ h.prov[q] = trust.prov[q]
            /\ Recovering(h) = Recovering(trust) /\ h.retired = trust.retired
        BY <3>1 DEF Written, TrustFiles, Recovering
      <3>3. OneContext(h)
        <4>1. \A q \in Peers : HasGroup(h.peer[q]) =>
                  /\ HasGroup(trust.peer[q])
                  /\ h.peer[q].group = trust.peer[q].group /\ h.peer[q].here = trust.peer[q].here
          BY <3>2 DEF RowMay
        <4> QED BY <4>1, <3>2 DEF OneContext
      <3>4. ASSUME NEW q \in Peers
            PROVE  /\ RowAt(h, q, spent[q]) \/ (Late(h, q) /\ RowAt(h, q, InForce(h, q)))
                   /\ InForce(h, q) \in {0, InForce(trust, q)} \/ InForce(h, q) > spent[q] \/ Late(h, q)
                   /\ h.peer[q].auto => h.peer[q].gen = trust.peer[q].gen
        <4>1. CASE q # p
          <5>1. RowAt(h, q, spent[q]) BY <4>1, <3>2, <3>4 DEF RowAt, Rows
          <5>2. InForce(h, q) = InForce(trust, q) BY <4>1, <3>2, <3>4 DEF InForce, Allowed, Barred, Denied
          <5>3. h.peer[q].auto => h.peer[q].gen = trust.peer[q].gen BY <4>1, <3>2, <3>4
          <5> QED BY <5>1, <5>2, <5>3
        <4>2. CASE q = p
          <5>1. InForce(h, p) \in {0, g.gen} BY <3>2 DEF InForce
          <5>2. h.peer[p].auto => h.peer[p].gen = trust.peer[p].gen BY <3>2 DEF RowMay
          <5>3. CASE RowOK(g, d, e, o, Recovering(trust), spent[p]) /\ (g.gen = 0 \/ g.gen > spent[p])
            <6>1. RowAt(h, p, spent[p]) BY <5>3, <3>2 DEF RowAt
            <6>2. InForce(h, p) = 0 \/ InForce(h, p) > spent[p] BY <5>1, <5>3
            <6> QED BY <6>1, <6>2, <5>2, <4>2
          <5>4. CASE /\ RowOK(g, d, e, o, Recovering(trust), spent[p])
                     /\ g.gen # 0 /\ g.gen = trust.peer[p].gen /\ (HasGroup(g) <=> HasGroup(trust.peer[p]))
            <6>1. RowAt(h, p, spent[p]) BY <5>4, <3>2 DEF RowAt
            <6>2. d.gen = 0 /\ trust.denied[p].gen = 0
              BY <5>4, <3>1 DEF RowOK, Rows, TrustFiles, Grants, Denials
            <6>3. InForce(h, p) = InForce(trust, p) BY <6>2, <5>4, <3>2 DEF InForce, Allowed, Barred, Denied
            <6> QED BY <6>1, <6>3, <5>2, <4>2
          <5>5. CASE /\ trust.prov[p].state = "accepted" /\ o.state = "done" /\ trust.prov[p].gen <= trust.epoch[p]
                     /\ RowOK(g, d, e, o, Recovering(trust), g.gen) /\ d.gen = 0 /\ ~HasGroup(g)
            <6>1. Late(h, p) BY <5>5, <3>2 DEF Late
            <6>2. InForce(h, p) = g.gen BY <5>5, <3>2 DEF InForce, Allowed, Barred, Denied
            <6>3. RowAt(h, p, InForce(h, p)) BY <6>2, <5>5, <3>2 DEF RowAt
            <6> QED BY <6>1, <6>3, <5>2, <4>2
          <5> QED BY <5>3, <5>4, <5>5 DEF RowMay
        <4> QED BY <4>1, <4>2
      <3> QED BY <3>1, <3>3, <3>4 DEF Follows
    <2>1. Grown(server')
      <3>1. server'.fresh \in Nat /\ server'.fresh >= server.fresh /\ server' \in ControlStores
            /\ \A q \in Peers : server'.inc[q] = server.inc[q]
        BY DEF Quietly
      <3> QED BY <3>1 DEF Grown
    <2>2. /\ Rows(trust, spent) /\ OneContext(trust) /\ Incarnations /\ trust \in TrustFiles /\ removed' \in [Peers -> Nat]
          /\ \A q \in Peers : call'.seen.who[q] \in {0, call.seen.who[q], server.inc[q]}
          /\ \A q \in Peers \ {p} : removed'[q] \in {0, removed[q]}
      BY DEF MembersTypeOK, MembersIInv, Quietly
    <2>3. CASE Valid(h)
      <3>1. trust' = h BY <2>3 DEF Save
      <3>2. Follows(h) BY <2>2, <2>3, <2>RowFollows
      <3>3. /\ trust'.peer[p] = g /\ trust'.denied[p] = d
            /\ \A q \in Peers \ {p} : trust'.peer[q] = trust.peer[q] /\ trust'.denied[q] = trust.denied[q]
        BY <3>1, <2>2 DEF Written, TrustFiles
      <3>4. Incarnations' BY <3>3, <2>1, <2>2, <1>IncarnationsKept DEF RemovalKept
      <3> QED BY <3>1, <3>2, <3>4
    <2>4. CASE ~Valid(h)
      <3>1. trust' = trust BY <2>4 DEF Save
      <3>2. removed'[p] = 0 \/ removed'[p] = removed[p] BY <2>4 DEF RemovalKept
      <3>3. Incarnations' BY <3>1, <3>2, <2>1, <2>2, <1>IncarnationsKept
      <3> QED BY <3>1, <3>3, UnchangedFollows
    <2> QED BY <2>3, <2>4
  <1>CallStays.
      ASSUME MembersTypeOK, MembersIInv, trust' = trust, removed' = removed, offer' \in [Peers -> Offers],
             Grown(server'), CallOK(call'), "who" \in DOMAIN budget' /\ budget'.who \subseteq Peers
      PROVE  StepOK
    <2> USE <1>CallStays
    <2>1. Follows(trust') BY UnchangedFollows
    <2>2. \A q \in Peers : call'.seen.who[q] \in {0, call.seen.who[q], server.inc[q]} BY DEF CallOK
    <2>3. removed' \in [Peers -> Nat] /\ Incarnations BY DEF MembersTypeOK, RestTypeOK, MembersIInv
    <2>4. Incarnations' BY <2>2, <2>3, <1>IncarnationsKept
    <2>5. server' \in ControlStores BY DEF Grown
    <2>6. call' \in MemberCallsOK /\ (call'.kind \in {"join", "switch"} => call'.code > 0) BY DEF CallOK
    <2>7. RestTypeOK' BY <2>3, <2>5, <2>6 DEF RestTypeOK
    <2> QED BY <2>1, <2>4, <2>7 DEF StepOK
  \* The operation in progress, none, and what is left of the bounds.
  <1>CallShapes.
      ASSUME MembersTypeOK
      PROVE  /\ CallOK(call) /\ CallOK(Idle) /\ \A q \in Peers : Idle.seen.who[q] = 0
             /\ \A what : what # "who" /\ Take(what) => "who" \in DOMAIN budget' /\ budget'.who \subseteq Peers
    <2> USE <1>CallShapes
    <2>1. RestTypeOK BY DEF MembersTypeOK
    <2>2. CallOK(call) BY <2>1 DEF CallOK, RestTypeOK
    <2>3. Idle.seen = NoSnapshot /\ Idle.kind = "idle" BY DEF Idle
    <2>4. NoSnapshot \in Snapshots /\ \A q \in Peers : NoSnapshot.who[q] = 0
      <3>1. 0 \in 0 .. MaxGroups BY MembershipAssumption
      <3> QED BY <3>1 DEF NoSnapshot, Snapshots
    <2>5. Idle \in MemberCallsOK
      <3>1. 0 \in 0 .. MaxGroups BY MembershipAssumption
      <3>2. [p \in Peers |-> NoDenial] \in [Peers -> Denials] BY DEF NoDenial, Denials
      <3> QED BY <2>4, <3>1, <3>2 DEF Idle, MemberCallsOK
    <2>6. ASSUME NEW what, what # "who", Take(what) PROVE "who" \in DOMAIN budget' /\ budget'.who \subseteq Peers
      BY <2>1, <2>6 DEF Take, RestTypeOK
    <2> QED BY <2>2, <2>3, <2>4, <2>5, <2>6 DEF CallOK
  \* Revocations and recoveries write the file row by row, or put a fence up or down.
  <1>FileWritten.
      ASSUME MembersTypeOK, MembersIInv,
             \/ \E p \in Peers : ProveActor(p) \/ MarkSynced(p) \/ (p \in budget.who /\ StartRevoke(p))
             \/ PrepareRecovery \/ CancelRecovery \/ ContinueRecovery
      PROVE  StepOK
    <2> USE <1>FileWritten
    \* A file with the same rows may follow; the fence of a recovery may come down.
    <2>OthersFollow.
        ASSUME MembersTypeOK, MembersIInv, NEW h \in TrustFiles, h.peer = trust.peer, h.denied = trust.denied,
               h.epoch = trust.epoch, h.prov = trust.prov, h.retired = trust.retired,
               Recovering(h) => Recovering(trust)
        PROVE  Follows(h)
      <3> USE <2>OthersFollow
      <3>1. OneContext(h) BY DEF MembersIInv, OneContext
      <3>2. ASSUME NEW p \in Peers
            PROVE  /\ RowAt(h, p, spent[p])
                   /\ InForce(h, p) \in {0, InForce(trust, p)} \/ InForce(h, p) > spent[p]
                   /\ h.peer[p].auto => h.peer[p].gen = trust.peer[p].gen
        <4> DEFINE g == trust.peer[p]
                   d == trust.denied[p]
                   n == spent[p]
        <4>1. RowOK(g, d, trust.epoch[p], trust.prov[p], Recovering(trust), n) BY <3>2, UnchangedFollows
        <4>2. RowAt(h, p, n)
          <5>1. Above(g, d, trust.epoch[p], Recovering(h), n) BY <4>1 DEF RowOK, Above
          <5> QED BY <4>1, <5>1 DEF RowAt, RowOK
        <4>3. CASE Recovering(h) = Recovering(trust) BY <4>2, <4>3 DEF InForce, Allowed, Barred, Denied
        <4>4. CASE ~Recovering(h) /\ Recovering(trust)
          <5>1. CASE ~HasGroup(g) BY <4>2, <4>4, <5>1 DEF InForce, Allowed, Barred, Denied
          <5>2. CASE HasGroup(g)
            <6>1. g.gen > 0 /\ d.gen = 0 /\ n < g.gen
              <7>1. g \in Grants /\ d \in Denials /\ n \in Nat BY <3>2, UnchangedFollows
              <7>2. g.kind # "none" BY <5>2 DEF HasGroup
              <7>3. g.gen \in Nat /\ g.gen # 0 BY <7>1, <7>2, <4>1 DEF RowOK, Grants
              <7>4. d.gen = 0 BY <7>3, <4>1 DEF RowOK
              <7> QED BY <7>1, <7>3, <7>4, <5>2, <4>1, <4>4 DEF RowOK, Above
            <6>2. InForce(h, p) = 0 \/ InForce(h, p) = g.gen BY DEF InForce
            <6> QED BY <6>1, <6>2, <4>2
          <5> QED BY <5>1, <5>2
        <4>5. Recovering(h) \in BOOLEAN /\ Recovering(trust) \in BOOLEAN BY DEF Recovering
        <4> QED BY <4>3, <4>4, <4>5
      <3> QED BY <3>1, <3>2 DEF Follows
    <2>1. /\ RestTypeOK /\ trust \in TrustFiles /\ server \in ControlStores /\ call \in MemberCallsOK
          /\ removed \in [Peers -> Nat] /\ CallOK(call) /\ CallOK(Idle) /\ \A q \in Peers : Idle.seen.who[q] = 0
          /\ offer \in [Peers -> Offers] /\ "who" \in DOMAIN budget /\ budget.who \subseteq Peers
          /\ server.fresh \in Nat /\ server.fresh + 1 \in Nat /\ server.fresh + 1 > server.fresh
          /\ Grown(server) /\ Incarnations
      <3>1. server \in ControlStores BY DEF MembersTypeOK, RestTypeOK
      <3>2. Grown(server) BY <3>1, StoreSteps
      <3>3. server.fresh \in Nat BY <3>1 DEF ControlStores
      <3>4. server.fresh + 1 \in Nat /\ server.fresh + 1 > server.fresh BY <3>3
      <3> QED BY <3>1, <3>2, <3>3, <3>4, <1>CallShapes DEF MembersTypeOK, MembersIInv, RestTypeOK
    <2>2. \A p \in Peers : /\ RowOK(trust.peer[p], trust.denied[p], trust.epoch[p], trust.prov[p], Recovering(trust), spent[p])
                           /\ trust.peer[p] \in Grants /\ trust.denied[p] \in Denials /\ trust.epoch[p] \in Nat /\ spent[p] \in Nat
                           /\ trust.prov[p] \in Offers
                           /\ Written(trust, trust, p, trust.peer[p], trust.denied[p], trust.epoch[p], trust.prov[p])
      BY UnchangedFollows
    <2>3. ASSUME NEW what, what # "who", Take(what) PROVE "who" \in DOMAIN budget' /\ budget'.who \subseteq Peers
      BY <2>3, <1>CallShapes
    <2>4. ASSUME removed' \in [Peers -> Nat], CallOK(call'), server' \in ControlStores, offer' = offer,
                 "who" \in DOMAIN budget' /\ budget'.who \subseteq Peers
          PROVE  RestTypeOK'
      BY <2>1, <2>4 DEF RestTypeOK, CallOK
    <2>5. /\ NoGrant \in Grants /\ NoDenial \in Denials /\ NoGrant.gen = 0 /\ NoGrant.inc = 0 /\ ~HasGroup(NoGrant)
          /\ NoGrant.kind = "none" /\ ~NoGrant.auto
      BY DEF Grants, NoGrant, Denials, NoDenial, HasGroup
    <2>6. [server EXCEPT !.fresh = @ + 1] \in ControlStores /\ [server EXCEPT !.fresh = @ + 1].inc = server.inc
          /\ [server EXCEPT !.fresh = @ + 1].fresh = server.fresh + 1
      <3> DEFINE n == server.fresh + 1
      <3>1. n \in Nat BY <2>1
      <3> HIDE DEF n
      <3>2. [server EXCEPT !.fresh = n] \in ControlStores /\ [server EXCEPT !.fresh = n].inc = server.inc
            /\ [server EXCEPT !.fresh = n].fresh = n
        BY <3>1, <2>1 DEF ControlStores
      <3> QED BY <3>2 DEF n
    <2>7. Valid(trust) BY <2>2 DEF Valid, RowOK, Denied, Denials
    \* A denial that is renewed keeps what it bars.
    <2>8. ASSUME NEW p \in Peers, NEW D \in Denials, D.gen = trust.denied[p].gen, D.block = trust.denied[p].block,
                 D.target = trust.denied[p].target, D.retired = trust.denied[p].retired,
                 trust' = Save([trust EXCEPT !.denied[p] = D]), removed' = removed,
                 \A q \in Peers : server'.inc[q] = server.inc[q] /\ call'.seen.who[q] \in {0, call.seen.who[q]},
                 server' \in ControlStores, server'.fresh \in Nat, server'.fresh >= server.fresh
          PROVE  Follows(trust') /\ Incarnations'
      <3> DEFINE g == trust.peer[p]
                 d == trust.denied[p]
                 e == trust.epoch[p]
                 o == trust.prov[p]
                 h == [trust EXCEPT !.denied[p] = D]
      <3>1. g \in Grants /\ e \in Nat /\ o \in Offers /\ RowOK(g, d, e, o, Recovering(trust), spent[p]) BY <2>2
      <3>2. Written(trust, h, p, g, D, e, o) BY <2>1, <2>2, <2>8, RowsWritten
      <3>3. RowOK(g, D, e, o, Recovering(trust), spent[p]) BY <3>1, <2>8 DEF RowOK, Above
      <3>4. RowMay(p, g, D, e, o) BY <3>3 DEF RowMay
      <3>5. Quietly(p) /\ RemovalKept(p, D) BY <2>1, <2>8 DEF Quietly, RemovalKept, Barrier
      <3>6. trust' = Save(h) BY <2>8
      <3>7. g.inc \in {0, trust.peer[p].inc} OBVIOUS
      <3> HIDE DEF h, g, e, o
      <3> QED BY <3>1, <3>2, <3>4, <3>5, <3>6, <3>7, <2>8, <1>RowStep
    <2>9. ASSUME NEW p \in Peers, ProveActor(p) PROVE StepOK
      <3> DEFINE d == call.pend[p]
                 renewed == [d EXCEPT !.req = server.fresh, !.group = call.seen.group, !.here = call.seen.here, !.seen = call.seen.rev]
      <3>1. UNCHANGED <<removed, budget, offer>> BY <2>9 DEF ProveActor, Local
      <3>2. ASSUME UNCHANGED <<trust, server>>, CallOK(call') PROVE StepOK
        <4>1. Grown(server') BY <3>2, <2>1, StoreSteps
        <4> QED BY <4>1, <3>1, <3>2, <2>1, <1>CallStays
      <3>3. CASE Proceed("send") /\ UNCHANGED <<trust, server>>
        <4>1. CallOK(call') BY <3>3, <2>1, <1>CallWritten DEF Proceed
        <4> QED BY <4>1, <3>2, <3>3
      <3>4. CASE NextRemoval /\ UNCHANGED <<trust, server>>
        <4> DEFINE c1 == [call EXCEPT !.at = "flush"]
                   c2 == [c1 EXCEPT !.now = {}]
                   c3 == [c2 EXCEPT !.rev = 0]
        <4>1. CallOK(c1) BY <2>1, <1>CallWritten
        <4>2. [call EXCEPT !.at = "flush", !.now = {}, !.rev = 0] = c3 BY <2>1 DEF MemberCallsOK
        <4> HIDE DEF c1
        <4>3. CallOK(c2) BY <4>1, <1>CallWritten
        <4> HIDE DEF c2
        <4>4. CallOK(c3) BY <4>3, <1>CallWritten
        <4> HIDE DEF c3
        <4>5. CallOK(call') BY <4>2, <4>4, <3>4, <2>1 DEF NextRemoval, Finish
        <4> QED BY <4>5, <3>2, <3>4
      <3>5. CASE /\ trust.denied[p] = d /\ trust' = Save([trust EXCEPT !.denied[p] = renewed])
                 /\ server' = [server EXCEPT !.fresh = @ + 1]
                 /\ call' = [call EXCEPT !.at = "send again", !.pend[p] = renewed, !.rev = call.seen.rev]
        <4>1. d \in Denials /\ call.seen \in Snapshots BY <2>1, <2>9 DEF MemberCallsOK
        <4>2. call.seen.group \in Nat /\ call.seen.here \in Nat /\ call.seen.rev \in Nat
          BY <4>1, MembershipAssumption DEF Snapshots
        <4>3. /\ renewed \in Denials /\ renewed.gen = d.gen /\ renewed.block = d.block /\ renewed.target = d.target
              /\ renewed.retired = d.retired
          <5> DEFINE d1 == [d EXCEPT !.req = server.fresh, !.group = call.seen.group]
                     d2 == [d1 EXCEPT !.here = call.seen.here, !.seen = call.seen.rev]
          <5> HIDE DEF d
          <5>1. d1 \in Denials /\ d1.gen = d.gen /\ d1.block = d.block /\ d1.target = d.target /\ d1.retired = d.retired
            BY <4>1, <4>2, <2>1 DEF Denials
          <5>2. renewed = d2 BY <4>1 DEF Denials
          <5> HIDE DEF d1, renewed
          <5>3. d2 \in Denials /\ d2.gen = d1.gen /\ d2.block = d1.block /\ d2.target = d1.target /\ d2.retired = d1.retired
            BY <5>1, <4>2 DEF Denials
          <5> QED BY <5>1, <5>2, <5>3
        <4> HIDE DEF renewed
        <4>4. CallOK(call') /\ call'.seen = call.seen
          <5> DEFINE P == [call.pend EXCEPT ![p] = renewed]
                     c1 == [call EXCEPT !.at = "send again"]
                     c2 == [c1 EXCEPT !.pend = P]
                     c3 == [c2 EXCEPT !.rev = call.seen.rev]
          <5>1. P \in [Peers -> Denials] BY <4>3, <2>1 DEF MemberCallsOK
          <5>2. call' = c3 BY <3>5, <2>1 DEF MemberCallsOK
          <5>3. CallOK(c1) /\ c1.seen = call.seen BY <2>1, <1>CallWritten
          <5> HIDE DEF c1, P
          <5>4. CallOK(c2) /\ c2.seen = call.seen BY <5>1, <5>3, <1>CallWritten
          <5> HIDE DEF c2
          <5>5. CallOK(c3) /\ c3.seen = call.seen BY <4>2, <5>4, <1>CallWritten
          <5> QED BY <5>2, <5>5
        <4>5. server' \in ControlStores /\ server'.inc = server.inc /\ server'.fresh \in Nat /\ server'.fresh >= server.fresh
          BY <3>5, <2>1, <2>6
        <4>6. Follows(trust') /\ Incarnations' BY <4>3, <4>4, <4>5, <3>1, <3>5, <2>8, <2>9
        <4>7. RestTypeOK' BY <4>4, <4>5, <3>1, <2>1, <2>4
        <4> QED BY <4>6, <4>7 DEF StepOK
      <3> QED BY <3>3, <3>4, <3>5, <2>9 DEF ProveActor
    <2>10. ASSUME NEW p \in Peers, MarkSynced(p) PROVE StepOK
      <3>1. UNCHANGED <<server, removed, budget, offer>> BY <2>10 DEF MarkSynced, Local
      <3>2. CallOK(call') /\ \A q \in Peers : call'.seen.who[q] \in {0, call.seen.who[q]}
        <4> DEFINE c1 == [call EXCEPT !.at = "flush"]
                   c2 == [c1 EXCEPT !.now = {}]
                   c3 == [c2 EXCEPT !.rev = 0]
        <4>1. CallOK(c1) /\ c1.seen = call.seen BY <2>1, <1>CallWritten
        <4>2. [call EXCEPT !.at = "flush", !.now = {}, !.rev = 0] = c3 BY <2>1 DEF MemberCallsOK
        <4> HIDE DEF c1
        <4>3. CallOK(c2) /\ c2.seen = call.seen BY <4>1, <1>CallWritten
        <4> HIDE DEF c2
        <4>4. CallOK(c3) /\ c3.seen = call.seen BY <4>3, <1>CallWritten
        <4> HIDE DEF c3
        <4> QED BY <4>2, <4>4, <2>1, <2>10 DEF MarkSynced, NextRemoval, Finish
      <3>3. CASE trust' = trust
        <4>1. Grown(server') BY <3>1, <2>1, StoreSteps
        <4> QED BY <4>1, <3>1, <3>2, <3>3, <2>1, <1>CallStays
      <3>4. CASE trust' = Save([trust EXCEPT !.denied[p].pending = FALSE, !.denied[p].seen = Larger(@, call.rev)])
        <4> DEFINE d == trust.denied[p]
                   n == Larger(d.seen, call.rev)
                   D == [d EXCEPT !.pending = FALSE, !.seen = n]
        <4>1. d \in Denials /\ n \in Nat BY <2>1, <2>2, <2>10 DEF Denials, Larger, MemberCallsOK
        <4>2. [trust EXCEPT !.denied[p].pending = FALSE, !.denied[p].seen = Larger(@, call.rev)] = [trust EXCEPT !.denied[p] = D]
          BY <4>1, <2>1 DEF TrustFiles
        <4> HIDE DEF n
        <4>3. D \in Denials /\ D.gen = d.gen /\ D.block = d.block /\ D.target = d.target /\ D.retired = d.retired
          BY <4>1 DEF Denials
        <4> HIDE DEF D
        <4>4. Follows(trust') /\ Incarnations' BY <4>2, <4>3, <3>1, <3>2, <3>4, <2>1, <2>8, <2>10
        <4>5. RestTypeOK' BY <3>1, <3>2, <2>1, <2>4
        <4> QED BY <4>4, <4>5 DEF StepOK
      <3> QED BY <3>3, <3>4, <2>10 DEF MarkSynced
    <2>11. ASSUME NEW p \in Peers, StartRevoke(p) PROVE StepOK
      <3>1. "who" \in DOMAIN budget' /\ budget'.who \subseteq Peers /\ offer' = offer BY <2>3, <2>11 DEF StartRevoke, Local
      <3>2. ASSUME NEW todo \in SUBSET Peers, NEW pend \in [Peers -> Denials]
            PROVE  LET c == [[[[Idle EXCEPT !.kind = "revoke"] EXCEPT !.at = "flush"] EXCEPT !.todo = todo] EXCEPT !.pend = pend]
                   IN  CallOK(c) /\ c.seen = Idle.seen /\ CallOK([c EXCEPT !.explicit = TRUE])
        <4> DEFINE c1 == [Idle EXCEPT !.kind = "revoke"]
                   c2 == [c1 EXCEPT !.at = "flush"]
                   c3 == [c2 EXCEPT !.todo = todo]
                   c4 == [c3 EXCEPT !.pend = pend]
        <4>1. CallOK(c1) /\ c1.seen = Idle.seen BY <2>1, <1>CallWritten DEF Idle
        <4> HIDE DEF c1
        <4>2. CallOK(c2) /\ c2.seen = Idle.seen BY <4>1, <1>CallWritten
        <4> HIDE DEF c2
        <4>3. CallOK(c3) /\ c3.seen = Idle.seen BY <4>2, <3>2, <1>CallWritten
        <4> HIDE DEF c3
        <4>4. CallOK(c4) /\ c4.seen = Idle.seen BY <4>3, <3>2, <1>CallWritten
        <4> HIDE DEF c4
        <4>5. CallOK([c4 EXCEPT !.explicit = TRUE]) BY <4>4, <1>CallWritten
        <4> QED BY <4>4, <4>5 DEF c4, c3, c2, c1
      <3>3. CASE /\ call' = [Idle EXCEPT !.kind = "revoke", !.at = "flush", !.todo = {p}, !.pend = trust.denied, !.explicit = TRUE]
                 /\ UNCHANGED <<trust, removed, server>>
        <4>1. trust.denied \in [Peers -> Denials] /\ {p} \in SUBSET Peers BY <2>1, <2>11 DEF TrustFiles
        <4>2. CallOK(call') BY <4>1, <3>2, <3>3
        <4>3. Grown(server') BY <3>3, <2>1, StoreSteps
        <4> QED BY <4>2, <4>3, <3>1, <3>3, <2>1, <1>CallStays
      <3>4. CASE /\ HasGroup(trust.peer[p]) /\ ~Denied(trust, p)
                 /\ trust' = Save(RemovedHere(trust, p, server.fresh))
                 /\ call' = [Idle EXCEPT !.kind = "revoke", !.at = "flush", !.todo = {p},
                                         !.pend = RemovedHere(trust, p, server.fresh).denied]
                 /\ removed' = [removed EXCEPT ![p] = trust.peer[p].inc]
                 /\ server' = [server EXCEPT !.fresh = @ + 1]
        <4> DEFINE g == trust.peer[p]
                   d == trust.denied[p]
                   e == trust.epoch[p]
                   o == trust.prov[p]
                   x == Ended(g, g.rev, FALSE)
                   D == [x EXCEPT !.req = server.fresh, !.pending = TRUE]
                   h1 == [trust EXCEPT !.peer[p] = NoGrant]
                   h == [h1 EXCEPT !.denied[p] = D]
        <4>1. /\ g \in Grants /\ d \in Denials /\ e \in Nat /\ o \in Offers /\ spent[p] \in Nat
              /\ RowOK(g, d, e, o, Recovering(trust), spent[p]) /\ Written(trust, trust, p, g, d, e, o)
          BY <2>2, <2>11
        <4>2. D \in Denials /\ D.gen = g.gen + 1 /\ ~D.block /\ ~D.retired /\ D.target = g.inc
          <5>1. g.rev \in Nat BY <4>1 DEF Grants
          <5>2. x \in Denials /\ x.gen = g.gen + 1 /\ x.target = g.inc /\ ~x.block /\ ~x.retired BY <5>1, <4>1, <1>EndedRow
          <5> HIDE DEF x
          <5>3. D \in Denials BY <5>2, <2>1 DEF Denials
          <5>4. D.gen = x.gen /\ D.target = x.target BY <5>2 DEF Denials
          <5>5. ~D.block /\ ~D.retired BY <5>2 DEF Denials
          <5> HIDE DEF D
          <5> QED BY <5>2, <5>3, <5>4, <5>5
        <4>3. RemovedHere(trust, p, server.fresh) = h BY DEF RemovedHere
        <4> HIDE DEF D
        <4>4. Written(trust, h1, p, NoGrant, d, e, o) BY <4>1, <2>1, <2>5, <2>11, RowsWritten
        <4> HIDE DEF h1
        <4>5. Written(trust, h, p, NoGrant, D, e, o) BY <4>1, <4>2, <4>4, <2>1, <2>5, <2>11, RowsWritten
        <4>6. g.gen > 0 /\ g.gen \in Nat /\ d.gen = 0 BY <3>4, <4>1 DEF RowOK, HasGroup, Grants, Denied, Denials
        <4>7. RowOK(NoGrant, D, e, o, Recovering(trust), spent[p])
          BY <4>1, <4>2, <4>6, <2>5 DEF RowOK, Above
        <4>8. RowMay(p, NoGrant, D, e, o) BY <4>7, <2>5 DEF RowMay
        <4> HIDE DEF h
        <4>9. Valid(h)
          <5>1. h.peer[p].gen = 0 /\ \A q \in Peers \ {p} : h.peer[q] = trust.peer[q] /\ h.denied[q] = trust.denied[q]
            BY <4>5, <2>1, <2>5, <2>11 DEF Written, TrustFiles
          <5> QED BY <5>1, <2>7 DEF Valid, Denied
        <4>10. h.denied \in [Peers -> Denials] /\ {p} \in SUBSET Peers BY <4>5, <2>11 DEF Written, TrustFiles
        <4>11. CallOK(call') /\ call'.seen = Idle.seen
          BY <4>3, <4>10, <3>2, <3>4
        <4>12. server' \in ControlStores /\ server'.inc = server.inc /\ server'.fresh \in Nat /\ server'.fresh >= server.fresh
          BY <3>4, <2>1, <2>6
        <4>13. removed' \in [Peers -> Nat] /\ removed'[p] = g.inc /\ \A q \in Peers \ {p} : removed'[q] = removed[q]
          <5>1. g.inc \in Nat BY <4>1 DEF Grants
          <5> QED BY <5>1, <3>4, <2>1, <2>11
        <4>14. Quietly(p)
          <5>1. \A q \in Peers : call'.seen.who[q] = 0 BY <4>11, <2>1
          <5> QED BY <5>1, <4>12, <4>13 DEF Quietly
        <4>15. Barrier(D, removed'[p]) BY <4>2, <4>6, <4>13 DEF Barrier
        <4>16. Follows(trust') /\ Incarnations'
          BY <4>1, <4>2, <4>3, <4>5, <4>8, <4>9, <4>13, <4>14, <4>15, <3>4, <2>5, <2>11, <1>RowStep
        <4>17. RestTypeOK' BY <4>11, <4>12, <4>13, <3>1, <2>4
        <4> QED BY <4>16, <4>17 DEF StepOK
      <3> QED BY <3>3, <3>4, <2>11 DEF StartRevoke
    <2>12. ASSUME UNCHANGED <<removed, offer>>, Grown(server'), CallOK(call'), "who" \in DOMAIN budget' /\ budget'.who \subseteq Peers,
                  NEW r \in {"none", "prepared", "started", "paused"}, NEW m \in {"none", "initialize", "join"},
                  trust' = [trust EXCEPT !.recov = r, !.mode = m], Recovering(trust)
           PROVE  StepOK
      <3>1. /\ trust' \in TrustFiles /\ trust'.peer = trust.peer /\ trust'.denied = trust.denied /\ trust'.epoch = trust.epoch
            /\ trust'.prov = trust.prov /\ trust'.retired = trust.retired
        BY <2>1, <2>12 DEF TrustFiles
      <3> DEFINE h == trust'
      <3>2. Follows(h)
        <4>1. h \in TrustFiles /\ (Recovering(h) => Recovering(trust)) BY <3>1, <2>12
        <4> QED BY <4>1, <3>1, <2>OthersFollow
      <3>3. Incarnations'
        <4>1. \A q \in Peers : call'.seen.who[q] \in {0, call.seen.who[q], server.inc[q]} BY <2>12 DEF CallOK
        <4> QED BY <4>1, <3>1, <2>1, <2>12, <1>IncarnationsKept
      <3>4. RestTypeOK' BY <2>1, <2>4, <2>12 DEF Grown
      <3> QED BY <3>2, <3>3, <3>4 DEF StepOK
    <2>13. CASE CancelRecovery
      <3>1. "who" \in DOMAIN budget' /\ budget'.who \subseteq Peers /\ UNCHANGED <<call, server, removed, offer>> /\ Recovering(trust)
        BY <2>3, <2>13 DEF CancelRecovery, Local
      <3>2. CallOK(call') /\ Grown(server') BY <3>1, <2>1, StoreSteps
      <3>3. CASE trust' = [trust EXCEPT !.recov = "none", !.mode = "none"] BY <3>1, <3>2, <3>3, <2>12
      <3>4. CASE trust' = [trust EXCEPT !.recov = "paused"]
        <4>1. trust' = [trust EXCEPT !.recov = "paused", !.mode = trust.mode] BY <3>4, <2>1 DEF TrustFiles
        <4>2. trust.mode \in {"none", "initialize", "join"} BY <2>1 DEF TrustFiles
        <4> QED BY <4>1, <4>2, <3>1, <3>2, <2>12
      <3> QED BY <3>3, <3>4, <2>13 DEF CancelRecovery
    <2>14. CASE ContinueRecovery
      <3>1. "who" \in DOMAIN budget' /\ budget'.who \subseteq Peers /\ UNCHANGED <<removed, offer>> /\ Recovering(trust)
        BY <2>3, <2>14 DEF ContinueRecovery, Local
      <3> DEFINE c1 == [Idle EXCEPT !.kind = "recover"]
                 c2(at) == [c1 EXCEPT !.at = at]
      <3>2. CallOK(c2("complete")) /\ CallOK(c2("ask"))
        <4>1. CallOK(c1) BY <2>1, <1>CallWritten
        <4> HIDE DEF c1
        <4> QED BY <4>1, <1>CallWritten
      <3>3. CASE /\ Enrolled("me") /\ UNCHANGED <<trust, server>>
                 /\ call' = [Idle EXCEPT !.kind = "recover", !.at = "complete", !.seen = SnapshotFor("me")]
        <4>1. call' = [c2("complete") EXCEPT !.seen = SnapshotFor("me")] BY <3>3
        <4> HIDE DEF c2
        <4>2. SnapshotFor("me") \in Snapshots /\ \A q \in Peers : SnapshotFor("me").who[q] \in {0, server.inc[q]}
          BY <3>3, <2>1, StoreSteps
        <4>3. CallOK(call') BY <4>1, <4>2, <3>2, <1>CallWritten
        <4>4. Grown(server') BY <3>3, <2>1, StoreSteps
        <4> QED BY <4>3, <4>4, <3>1, <3>3, <2>1, <1>CallStays
      <3>4. ASSUME trust' = [trust EXCEPT !.recov = "started"], Grown(server'), CallOK(call') PROVE StepOK
        <4>1. trust' = [trust EXCEPT !.recov = "started", !.mode = trust.mode] BY <3>4, <2>1 DEF TrustFiles
        <4>2. trust.mode \in {"none", "initialize", "join"} BY <2>1 DEF TrustFiles
        <4> QED BY <4>1, <4>2, <3>1, <3>4, <2>12
      <3>5. CASE /\ trust' = [trust EXCEPT !.recov = "started"]
                 /\ call' = [Idle EXCEPT !.kind = "recover", !.at = "ask"] /\ UNCHANGED server
        <4>1. CallOK(call') BY <3>2, <3>5
        <4>2. Grown(server') BY <3>5, <2>1, StoreSteps
        <4> QED BY <4>1, <4>2, <3>4, <3>5
      <3>6. ASSUME NEW p \in Peers, Enrolled(p), trust' = [trust EXCEPT !.recov = "started"],
                   call' = [Idle EXCEPT !.kind = "recover", !.at = "ask", !.code = server.grp[p]], server' = Coded(p)
            PROVE  StepOK
        <4>1. server.grp[p] \in 0 .. MaxGroups /\ server.grp[p] > 0 BY <2>1, <3>6 DEF ControlStores, Enrolled, Members
        <4>2. server.grp[p] \in Groups BY <4>1, MembershipAssumption DEF Groups
        <4>3. call' = [c2("ask") EXCEPT !.code = server.grp[p]] BY <3>6
        <4> HIDE DEF c2
        <4>4. CallOK(call') BY <4>2, <4>3, <3>2, <1>CallWritten
        <4>5. Grown(server') BY <3>6, <2>1, StoreSteps
        <4> QED BY <4>4, <4>5, <3>4, <3>6
      <3> QED BY <3>3, <3>5, <3>6, <2>1, <2>14 DEF ContinueRecovery
    <2>15. CASE PrepareRecovery
      <3> PICK mode \in {"initialize", "join"} : trust' = Save(Prepared(trust, mode)) BY <2>15 DEF PrepareRecovery
      <3> DEFINE cs == Latest({c \in Contexts(trust) : <<c.group, c.here>> \notin trust.retired})
                 lan(p) == [NoGrant EXCEPT !.kind = "lan", !.gen = trust.peer[p].gen + 1]
                 grp(p) == [trust.peer[p] EXCEPT !.gen = trust.peer[p].gen + 1, !.auto = FALSE]
                 row(p) == CASE trust.peer[p].kind = "group" -> grp(p)
                             [] trust.peer[p].kind = "group+lan" -> lan(p)
                             [] OTHER -> trust.peer[p]
                 G == [p \in Peers |-> row(p)]
                 h == [trust EXCEPT !.recov = "prepared", !.mode = mode, !.snaps = cs, !.peer = G]
      <3>1. /\ "who" \in DOMAIN budget' /\ budget'.who \subseteq Peers /\ UNCHANGED <<call, server, removed, offer>>
            /\ Recovering(trust) = FALSE
        BY <2>3, <2>15 DEF PrepareRecovery, Local, Recovering
      <3>2. trust' = Save(h)
        <4>1. Prepared(trust, mode) = h BY DEF Prepared
        <4> QED BY <4>1
      <3>3. ASSUME NEW p \in Peers
            PROVE  /\ G[p] \in Grants /\ (G[p].auto => G[p] = trust.peer[p])
                   /\ \/ G[p] = trust.peer[p] /\ ~HasGroup(trust.peer[p])
                      \/ /\ G[p].gen = trust.peer[p].gen + 1 /\ G[p].kind \in {"lan", "group"} /\ G[p].inc \in {0, trust.peer[p].inc}
                         /\ trust.peer[p].kind \in {"group", "group+lan"}
                         /\ G[p].kind = "group" => /\ trust.peer[p].kind = "group" /\ G[p].group = trust.peer[p].group
                                                   /\ G[p].here = trust.peer[p].here
        <4> DEFINE g == trust.peer[p]
                   n == g.gen + 1
        <4>1. g \in Grants /\ n \in Nat BY <2>2, <3>3 DEF Grants
        <4>2. G[p] = row(p) OBVIOUS
        <4>3. CASE g.kind = "group"
          <5> DEFINE x == [g EXCEPT !.gen = n, !.auto = FALSE]
          <5>1. G[p] = x BY <4>2, <4>3
          <5> HIDE DEF n, G, g
          <5>2. x \in Grants BY <4>1 DEF Grants
          <5>3. x.gen = n /\ x.kind = g.kind /\ x.inc = g.inc /\ x.group = g.group /\ x.here = g.here BY <4>1 DEF Grants
          <5>4. ~x.auto BY <4>1 DEF Grants
          <5> HIDE DEF x
          <5> QED BY <5>1, <5>2, <5>3, <5>4, <4>3 DEF n, g
        <4>4. CASE g.kind = "group+lan"
          <5> DEFINE x == [NoGrant EXCEPT !.kind = "lan", !.gen = n]
          <5>1. G[p] = x BY <4>2, <4>4
          <5> HIDE DEF n, G, g
          <5>2. x \in Grants BY <4>1, <2>5 DEF Grants
          <5>3. x.gen = n /\ x.kind = "lan" /\ x.inc = 0 BY <4>1, <2>5 DEF Grants
          <5>4. ~x.auto BY DEF NoGrant
          <5> HIDE DEF x
          <5> QED BY <5>1, <5>2, <5>3, <5>4, <4>4 DEF n, g
        <4>5. CASE g.kind \notin {"group", "group+lan"}
          <5>1. G[p] = g BY <4>2, <4>5
          <5> QED BY <5>1, <4>1, <4>5 DEF HasGroup
        <4> QED BY <4>3, <4>4, <4>5
      <3>4. cs \subseteq [group : Nat, here : Nat, rev : Nat]
        <4>1. cs \subseteq Contexts(trust) BY DEF Latest
        <4> QED BY <4>1, <2>1, ContextTypes
      <3>5. G \in [Peers -> Grants]
        <4>1. \A p \in Peers : G[p] \in Grants BY <3>3
        <4> QED BY <4>1
      <3> HIDE DEF cs, G
      <3>6. /\ h \in TrustFiles /\ h.recov = "prepared" /\ h.peer = G /\ h.denied = trust.denied /\ h.epoch = trust.epoch
            /\ h.prov = trust.prov /\ h.retired = trust.retired
        <4> DEFINE h1 == [trust EXCEPT !.recov = "prepared", !.mode = mode]
                   h2 == [h1 EXCEPT !.snaps = cs, !.peer = G]
        <4>1. /\ h1 \in TrustFiles /\ h1.recov = "prepared" /\ h1.denied = trust.denied /\ h1.epoch = trust.epoch
              /\ h1.prov = trust.prov /\ h1.retired = trust.retired
          BY <2>1 DEF TrustFiles
        <4>2. h = h2 BY <2>1 DEF TrustFiles
        <4> HIDE DEF h1, h
        <4>3. /\ h2 \in TrustFiles /\ h2.recov = h1.recov /\ h2.peer = G /\ h2.denied = h1.denied /\ h2.epoch = h1.epoch
              /\ h2.prov = h1.prov /\ h2.retired = h1.retired
          BY <4>1, <3>4, <3>5 DEF TrustFiles
        <4> QED BY <4>1, <4>2, <4>3
      <3> HIDE DEF h
      <3>7. Recovering(h) = TRUE BY <3>6 DEF Recovering
      <3>8. OneContext(h)
        <4>1. \A p \in Peers : HasGroup(G[p]) =>
                 HasGroup(trust.peer[p]) /\ G[p].group = trust.peer[p].group /\ G[p].here = trust.peer[p].here
          BY <3>3 DEF HasGroup
        <4> QED BY <4>1, <3>6 DEF OneContext, MembersIInv
      <3>9. ASSUME NEW p \in Peers
            PROVE  /\ RowAt(h, p, spent[p])
                   /\ InForce(h, p) \in {0, InForce(trust, p)} \/ InForce(h, p) > spent[p]
                   /\ h.peer[p].auto => h.peer[p].gen = trust.peer[p].gen
        <4> DEFINE g == trust.peer[p]
                   d == trust.denied[p]
                   n == spent[p]
        <4>1. /\ g.gen \in Nat /\ d.gen \in Nat /\ n \in Nat /\ trust.epoch[p] \in Nat /\ G[p].gen \in Nat
              /\ RowOK(g, d, trust.epoch[p], trust.prov[p], FALSE, n)
          <5>1. RowOK(g, d, trust.epoch[p], trust.prov[p], FALSE, n) BY <3>1, <2>2, <3>9
          <5> QED BY <5>1, <3>3, <3>9, <2>2 DEF Grants, Denials
        <4>2. CASE G[p] = g /\ ~HasGroup(g)
          <5>1. RowOK(G[p], d, trust.epoch[p], trust.prov[p], TRUE, n) BY <4>1, <4>2 DEF RowOK, Above
          <5>2. RowAt(h, p, n) BY <5>1, <3>6, <3>7 DEF RowAt
          <5>3. InForce(h, p) = InForce(trust, p) BY <4>2, <3>1, <3>6, <3>7 DEF InForce, Allowed, Barred, Denied
          <5> QED BY <5>2, <5>3, <4>2, <3>6
        <4>3. CASE /\ G[p].gen = g.gen + 1 /\ G[p].kind \in {"lan", "group"} /\ g.kind \in {"group", "group+lan"}
                   /\ G[p].auto => G[p] = g
          <5>1. g.gen > 0 /\ d.gen = 0 /\ n <= g.gen BY <4>1, <4>3 DEF RowOK, Above
          <5>2. ~G[p].auto
            <6>1. G[p].gen # g.gen BY <4>1, <4>3
            <6> QED BY <6>1, <4>3
          <5>3. RowOK(G[p], d, trust.epoch[p], trust.prov[p], TRUE, n)
            <6>1. Above(G[p], d, trust.epoch[p], TRUE, n) BY <5>1, <4>1, <4>3 DEF Above
            <6>2. G[p].gen # 0 /\ G[p].kind # "none" BY <5>1, <4>1, <4>3
            <6> QED BY <6>1, <6>2, <5>1, <4>1 DEF RowOK
          <5>4. RowAt(h, p, n) BY <5>3, <3>6, <3>7 DEF RowAt
          <5>5. InForce(h, p) \in {0, G[p].gen} BY <3>6 DEF InForce
          <5> QED BY <5>1, <5>2, <5>4, <5>5, <4>1, <4>3, <3>6
        <4> QED BY <4>2, <4>3, <3>3
      <3>10. Follows(trust')
        <4>1. Follows(h) BY <3>6, <3>8, <3>9 DEF Follows
        <4> QED BY <4>1, <3>2, UnchangedFollows DEF Save
      <3>11. Incarnations'
        <4>1. ASSUME NEW q \in Peers
              PROVE  trust'.peer[q].inc \in {0, trust.peer[q].inc} /\ trust'.denied = trust.denied
          <5>1. trust' = h \/ trust' = trust BY <3>2 DEF Save
          <5>2. h.peer[q].inc \in {0, trust.peer[q].inc} BY <3>3, <3>6
          <5> QED BY <5>1, <5>2, <3>6
        <4> QED BY <4>1, <3>1, <2>1, <1>IncarnationsKept
      <3>12. RestTypeOK' BY <3>1, <2>1, <2>4
      <3> QED BY <3>10, <3>11, <3>12 DEF StepOK
    <2> QED BY <2>9, <2>10, <2>11, <2>13, <2>14, <2>15
  \* A snapshot is taken over; members forgotten are restored before.
  <1>SnapshotsTaken. ASSUME MembersTypeOK, MembersIInv, RestoreForgotten \/ Apply \/ CompleteRecovery
                     PROVE  StepOK
    <2> USE <1>SnapshotsTaken
    \* What a snapshot's file may be after the file f, whose grants are in force here or
    \* are not any more.
    <2>SnapshotFollows.
        ASSUME MembersTypeOK, MembersIInv, NEW f \in TrustFiles, NEW s \in Snapshots, ~Recovering(f),
               <<s.group, s.here>> \notin f.retired, f.prov = trust.prov,
               \A p \in Peers :
                   /\ RowOK(f.peer[p], f.denied[p], f.epoch[p], f.prov[p], FALSE, spent[p])
                   /\ f.peer[p].gen \in {0, trust.peer[p].gen}
                   /\ f.peer[p].gen # 0 /\ f.denied[p].gen = 0 =>
                         trust.denied[p].gen = 0 /\ (Allowed(trust, p) \/ f.peer[p].gen > spent[p])
        PROVE  Follows(Applied(f, s))
      <3> USE <2>SnapshotFollows
      <3> DEFINE h == Applied(f, s)
      <3>1. spent \in [Peers -> Nat] /\ trust \in TrustFiles BY DEF MembersTypeOK
      \* A snapshot's file is one, with all its grants of a group in the snapshot's context.
      <3>2. h \in TrustFiles /\ OneContext(h) /\ h.prov = f.prov /\ h.recov = f.recov
        <4>1. /\ h.prov = f.prov /\ h.recov = f.recov /\ h.mode = f.mode /\ h.retired = RetiredBy(f, s)
              /\ DOMAIN h = {"peer", "denied", "epoch", "snaps", "retired", "prov", "recov", "mode"}
              /\ DOMAIN h.peer = Peers /\ DOMAIN h.denied = Peers /\ DOMAIN h.epoch = Peers
          BY DEF Applied, TrustFiles
        <4>2. ASSUME NEW p \in Peers
              PROVE  /\ h.peer[p] \in Grants /\ h.denied[p] \in Denials /\ h.epoch[p] \in Nat
                     /\ HasGroup(h.peer[p]) => h.peer[p].group = s.group /\ h.peer[p].here = s.here
          <5>1. spent[p] \in Nat /\ RowOK(f.peer[p], f.denied[p], f.epoch[p], f.prov[p], FALSE, spent[p]) BY <3>1
          <5>2. SnapshotMay(f, s, p, h, spent[p]) BY <5>1, <1>SnapshotRow
          <5> HIDE DEF h
          <5> QED BY <5>2 DEF SnapshotMay
        <4>3. h.retired \subseteq Nat \X Nat /\ <<s.group, s.here>> \notin h.retired
          <5>1. f.retired \subseteq Nat \X Nat BY DEF TrustFiles
          <5> QED BY <5>1, <4>1, ContextTypes DEF RetiredBy
        <4>4. h.snaps \subseteq [group : Nat, here : Nat, rev : Nat]
          <5>1. Context(s.group, s.here, s.rev) \in [group : Nat, here : Nat, rev : Nat] BY DEF Snapshots, Context
          <5>2. h.snaps \subseteq f.snaps \cup {Context(s.group, s.here, s.rev)} BY DEF Applied, TrustFiles
          <5>3. f.snaps \subseteq [group : Nat, here : Nat, rev : Nat] BY DEF TrustFiles
          <5> QED BY <5>1, <5>2, <5>3
        <4>5. h \in TrustFiles
          <5> DEFINE pe == [p \in Peers |-> h.peer[p]]
                     de == [p \in Peers |-> h.denied[p]]
                     ep == [p \in Peers |-> h.epoch[p]]
                     sn == h.snaps
                     re == h.retired
          <5>1. pe \in [Peers -> Grants] /\ de \in [Peers -> Denials] /\ ep \in [Peers -> Nat] BY <4>2
          <5>2. h = [f EXCEPT !.peer = pe, !.denied = de, !.epoch = ep, !.retired = re, !.snaps = sn]
            BY DEF Applied, TrustFiles
          <5> HIDE DEF pe, de, ep, h
          <5>3. [f EXCEPT !.peer = pe, !.denied = de] \in TrustFiles BY <5>1 DEF TrustFiles
          <5> DEFINE k == [f EXCEPT !.peer = pe, !.denied = de]
          <5> HIDE DEF k
          <5>4. [k EXCEPT !.epoch = ep, !.retired = re] \in TrustFiles BY <4>3, <5>1, <5>3 DEF TrustFiles, k
          <5> DEFINE l == [k EXCEPT !.epoch = ep, !.retired = re]
          <5> HIDE DEF l
          <5>5. [l EXCEPT !.snaps = sn] \in TrustFiles BY <4>4, <5>4 DEF TrustFiles, l
          <5> QED BY <5>2, <5>5 DEF k, l
        <4> HIDE DEF h
        <4>6. OneContext(h) BY <4>2, <4>3 DEF OneContext
        <4> QED BY <4>1, <4>5, <4>6 DEF h
      <3>3. ASSUME NEW p \in Peers
            PROVE  /\ RowAt(h, p, spent[p])
                   /\ InForce(h, p) \in {0, InForce(trust, p)} \/ InForce(h, p) > spent[p]
                   /\ h.peer[p].auto => h.peer[p].gen = trust.peer[p].gen
        <4>1. spent[p] \in Nat /\ RowOK(f.peer[p], f.denied[p], f.epoch[p], f.prov[p], FALSE, spent[p]) BY <3>1
        <4>2. SnapshotMay(f, s, p, h, spent[p]) BY <4>1, <1>SnapshotRow
        <4> HIDE DEF h
        <4>3. /\ RowOK(h.peer[p], h.denied[p], h.epoch[p], f.prov[p], FALSE, spent[p])
              /\ \/ h.peer[p].gen = 0 \/ h.peer[p].gen > spent[p]
                 \/ h.peer[p].gen = f.peer[p].gen /\ f.denied[p].gen = 0
              /\ h.peer[p].auto => h.peer[p].gen = f.peer[p].gen
          BY <4>2 DEF SnapshotMay
        <4>4. Recovering(h) = FALSE BY <3>2 DEF Recovering
        <4>5. RowAt(h, p, spent[p]) BY <4>3, <4>4, <3>2 DEF RowAt
        <4>6. InForce(h, p) \in {0, h.peer[p].gen} BY DEF InForce
        <4>7. f.peer[p].gen # 0 /\ f.denied[p].gen = 0 /\ Allowed(trust, p) => InForce(trust, p) = f.peer[p].gen BY DEF InForce
        <4>8. InForce(h, p) \in {0, InForce(trust, p)} \/ InForce(h, p) > spent[p] BY <4>3, <4>6, <4>7
        <4>9. h.peer[p].auto => h.peer[p].gen # 0 BY <4>3 DEF RowOK
        <4>10. h.peer[p].auto => h.peer[p].gen = trust.peer[p].gen BY <4>3, <4>9
        <4> QED BY <4>5, <4>8, <4>10
      <3> HIDE DEF h
      <3>4. Follows(h) BY <3>2, <3>3 DEF Follows
      <3> QED BY <3>4 DEF h
    <2>1. /\ RestTypeOK /\ trust \in TrustFiles /\ server \in ControlStores /\ call \in MemberCallsOK
          /\ removed \in [Peers -> Nat] /\ CallOK(call) /\ CallOK(Idle)
          /\ \A q \in Peers : Idle.seen.who[q] = 0
          /\ offer \in [Peers -> Offers] /\ "who" \in DOMAIN budget /\ budget.who \subseteq Peers
          /\ Grown(server) /\ Incarnations
      <3>1. server \in ControlStores BY DEF MembersTypeOK, RestTypeOK
      <3>2. Grown(server) BY <3>1, StoreSteps
      <3> QED BY <3>2, <1>CallShapes DEF MembersTypeOK, MembersIInv, RestTypeOK
    <2>2. \A p \in Peers : /\ RowOK(trust.peer[p], trust.denied[p], trust.epoch[p], trust.prov[p], Recovering(trust), spent[p])
                           /\ trust.peer[p] \in Grants /\ trust.denied[p] \in Denials /\ trust.epoch[p] \in Nat /\ spent[p] \in Nat
                           /\ trust.prov[p] \in Offers
      BY UnchangedFollows
    <2>3. ASSUME removed' \in [Peers -> Nat], CallOK(call'), UNCHANGED <<server, offer, budget>> PROVE RestTypeOK'
      BY <2>1, <2>3 DEF RestTypeOK, CallOK
    <2>4. Finish => CallOK(call') /\ \A q \in Peers : call'.seen.who[q] = 0 BY <2>1 DEF Finish
    <2>5. NoGrant \in Grants /\ NoDenial \in Denials /\ NoDenial.gen = 0 /\ NoGrant.gen = 0 /\ NoGrant.inc = 0 /\ ~HasGroup(NoGrant)
          /\ NoGrant.kind = "none" /\ ~NoGrant.auto
      BY DEF Grants, NoGrant, Denials, NoDenial, HasGroup
    <2>6. CASE RestoreForgotten
      <3> DEFINE E == [p \in Peers |-> IF p \in Restored THEN Larger(trust.epoch[p], trust.denied[p].gen) ELSE trust.epoch[p]]
                 D == [p \in Peers |-> IF p \in Restored THEN NoDenial ELSE trust.denied[p]]
                 h == [trust EXCEPT !.epoch = E, !.denied = D]
      <3>1. trust' = Save(h) /\ removed' = [p \in Peers |-> IF p \in Restored THEN 0 ELSE removed[p]]
            /\ UNCHANGED <<server, offer, budget>> /\ Proceed("apply")
        BY <2>6 DEF RestoreForgotten, Local
      <3>2. E \in [Peers -> Nat] /\ D \in [Peers -> Denials] BY <2>2, <2>5 DEF Larger, Denials
      <3>3. /\ \A p \in Restored : /\ E[p] = Larger(trust.epoch[p], trust.denied[p].gen) /\ D[p] = NoDenial
                                   /\ ~trust.denied[p].block
            /\ \A p \in Peers \ Restored : E[p] = trust.epoch[p] /\ D[p] = trust.denied[p]
        BY DEF Restored
      <3> HIDE DEF E, D
      <3>4. /\ h \in TrustFiles /\ h.peer = trust.peer /\ h.denied = D /\ h.epoch = E /\ h.prov = trust.prov
            /\ h.retired = trust.retired /\ h.recov = trust.recov
        BY <3>2, <2>1 DEF TrustFiles
      <3>5. OneContext(h) BY <3>4 DEF OneContext, MembersIInv
      <3> HIDE DEF h
      <3>6. ASSUME NEW p \in Peers
            PROVE  /\ RowAt(h, p, spent[p])
                   /\ InForce(h, p) \in {0, InForce(trust, p)} \/ InForce(h, p) > spent[p]
                   /\ h.peer[p].auto => h.peer[p].gen = trust.peer[p].gen
        <4>1. Recovering(h) = Recovering(trust) BY <3>4 DEF Recovering
        <4>2. CASE p \notin Restored BY <4>1, <4>2, <3>3, <3>4, <2>2 DEF RowAt, InForce, Allowed, Barred, Denied
        <4>3. CASE p \in Restored
          <5> DEFINE g == trust.peer[p]
                     d == trust.denied[p]
          <5>1. g.gen \in Nat /\ d.gen \in Nat /\ (g.gen = 0 \/ d.gen = 0) BY <2>2 DEF Grants, Denials, RowOK
          <5>2. Larger(trust.epoch[p], d.gen) >= d.gen /\ Larger(trust.epoch[p], d.gen) >= trust.epoch[p]
            BY <5>1, <2>2 DEF Larger
          <5>3. RowOK(g, NoDenial, E[p], trust.prov[p], Recovering(trust), spent[p])
            BY <5>1, <5>2, <4>3, <3>2, <3>3, <2>2, <2>5 DEF RowOK, Above
          <5>4. RowAt(h, p, spent[p]) BY <5>3, <4>1, <4>3, <3>3, <3>4 DEF RowAt
          <5>5. InForce(h, p) \in {0, InForce(trust, p)}
            <6>1. CASE g.gen = 0 BY <6>1, <3>4 DEF InForce
            <6>2. CASE d.gen = 0 BY <6>2, <4>1, <4>3, <3>3, <3>4, <2>5 DEF InForce, Allowed, Barred, Denied
            <6> QED BY <6>1, <6>2, <5>1
          <5> QED BY <5>4, <5>5, <3>4
        <4> QED BY <4>2, <4>3
      <3>7. Follows(trust')
        <4>1. Follows(h) BY <3>4, <3>5, <3>6 DEF Follows
        <4> QED BY <4>1, <3>1, UnchangedFollows DEF Save
      <3>8. CallOK(call') /\ call'.seen = call.seen
        <4>1. CallOK([call EXCEPT !.at = "apply"]) BY <2>1, <1>CallWritten
        <4>2. call' = [call EXCEPT !.at = "apply"] BY <3>1 DEF Proceed
        <4> QED BY <4>1, <4>2, <2>1 DEF MemberCallsOK
      <3>9. removed' \in [Peers -> Nat] BY <3>1, <2>1
      <3>10. Incarnations'
        <4>1. ASSUME NEW q \in Peers
              PROVE  /\ trust'.peer[q].inc \in {0, trust.peer[q].inc}
                     /\ \/ removed'[q] = 0
                        \/ /\ removed'[q] = removed[q]
                           /\ Barrier(trust.denied[q], removed[q]) => Barrier(trust'.denied[q], removed[q])
          <5>1. trust'.peer = trust.peer BY <3>1, <3>4 DEF Save
          <5>2. q \in Restored => removed'[q] = 0 BY <3>1
          <5>3. q \notin Restored => trust'.denied[q] = trust.denied[q] /\ removed'[q] = removed[q] BY <3>1, <3>3, <3>4 DEF Save
          <5> QED BY <5>1, <5>2, <5>3
        <4> QED BY <4>1, <3>1, <3>8, <3>9, <2>1, <1>IncarnationsKept
      <3> QED BY <3>1, <3>7, <3>8, <3>9, <3>10, <2>3 DEF StepOK
    <2>7. CASE Apply
      <3> DEFINE s == call.seen
                 h == Applied(trust, s)
      <3>1. UNCHANGED <<server, offer, budget, removed>> /\ Finish BY <2>7 DEF Apply, Local
      <3>2. CASE trust' = trust
        <4>1. Grown(server') BY <3>1, <2>1, StoreSteps
        <4> QED BY <4>1, <3>1, <3>2, <2>1, <2>4, <1>CallStays
      <3>3. CASE CanApply(trust, s) /\ trust' = h
        <4>1. ~Recovering(trust) /\ <<s.group, s.here>> \notin trust.retired /\ s \in Snapshots
          BY <3>3, <2>1 DEF CanApply, MemberCallsOK
        <4>2. ASSUME NEW p \in Peers
              PROVE  /\ RowOK(trust.peer[p], trust.denied[p], trust.epoch[p], trust.prov[p], FALSE, spent[p])
                     /\ trust.denied[p].gen = 0 => Allowed(trust, p)
                     /\ SnapshotMay(trust, s, p, h, spent[p])
          <5>1. Recovering(trust) = FALSE BY <4>1 DEF Recovering
          <5>2. RowOK(trust.peer[p], trust.denied[p], trust.epoch[p], trust.prov[p], FALSE, spent[p]) BY <5>1, <2>2
          <5>3. trust.denied[p].gen = 0 => Allowed(trust, p) BY <4>1 DEF Allowed, Barred, Denied
          <5>4. SnapshotMay(trust, s, p, h, spent[p]) BY <5>2, <4>1, <2>1, <2>2, <1>SnapshotRow
          <5> QED BY <5>2, <5>3, <5>4
        <4>3. Follows(h) BY <4>1, <4>2, <2>1, <2>SnapshotFollows
        <4> HIDE DEF h
        <4>4. ASSUME NEW q \in Peers
              PROVE  /\ call'.seen.who[q] = 0 /\ removed'[q] = removed[q]
                     /\ \/ /\ trust'.peer[q].inc \in {0, trust.peer[q].inc}
                           /\ Barrier(trust.denied[q], removed[q]) => Barrier(trust'.denied[q], removed[q])
                        \/ /\ trust'.peer[q].inc = s.who[q] /\ s.who[q] # 0
                           /\ Barrier(trust.denied[q], removed[q]) => s.who[q] # removed[q]
          <5>1. SnapshotMay(trust, s, q, h, spent[q]) BY <4>2
          <5>2. removed[q] \in Nat BY <2>1
          <5> QED BY <5>1, <5>2, <3>1, <3>3, <2>4 DEF SnapshotMay
        <4>5. Incarnations' BY <4>4, <3>1, <2>1, <1>IncarnationsKept
        <4>6. RestTypeOK' BY <3>1, <2>1, <2>3, <2>4
        <4> QED BY <4>3, <4>5, <4>6, <3>3 DEF StepOK
      <3> QED BY <3>2, <3>3, <2>7 DEF Apply, Save
    <2>8. CASE CompleteRecovery
      <3> DEFINE s == call.seen
                 out(p) == trust.peer[p].kind = "group"
                 ended(p) == [Ended(trust.peer[p], trust.peer[p].rev, FALSE) EXCEPT !.gen = trust.peer[p].gen]
                 denial(p) == IF out(p) THEN ended(p) ELSE trust.denied[p]
                 kept(p) == IF denial(p).gen > 0 /\ ~denial(p).block
                            THEN [denial(p) EXCEPT !.pending = FALSE, !.retired = TRUE] ELSE denial(p)
                 R == trust.retired \cup Pairs(Contexts(trust))
                 E == [p \in Peers |-> IF out(p) THEN Larger(trust.epoch[p], trust.peer[p].gen) ELSE trust.epoch[p]]
                 G == [p \in Peers |-> IF out(p) THEN NoGrant ELSE trust.peer[p]]
                 D == [p \in Peers |-> kept(p)]
                 f == [trust EXCEPT !.recov = "none", !.mode = "none", !.snaps = {}, !.retired = R, !.epoch = E, !.peer = G,
                                    !.denied = D]
                 h == Applied(f, s)
      <3>1. UNCHANGED <<server, offer, budget>> /\ Finish BY <2>8 DEF CompleteRecovery, Local
      <3>2. CASE trust' = trust /\ removed' = removed
        <4>1. Grown(server') BY <3>1, <2>1, StoreSteps
        <4> QED BY <4>1, <3>1, <3>2, <2>1, <2>4, <1>CallStays
      <3>3. CASE CanComplete(trust, s) /\ trust' = Save(Completed(trust, s)) /\ removed' = [p \in Peers |-> 0]
        <4>1. Completed(trust, s) = h BY DEF Completed
        <4>2. Recovering(trust) /\ <<s.group, s.here>> \notin R /\ s \in Snapshots BY <3>3, <2>1 DEF CanComplete, MemberCallsOK
        <4>3. ASSUME NEW p \in Peers
              PROVE  /\ E[p] \in Nat /\ G[p] \in Grants /\ D[p] \in Denials
                     /\ out(p) => /\ E[p] = Larger(trust.epoch[p], trust.peer[p].gen) /\ G[p] = NoGrant
                                  /\ D[p].gen = trust.peer[p].gen /\ ~D[p].block
                     /\ ~out(p) => /\ E[p] = trust.epoch[p] /\ G[p] = trust.peer[p]
                                   /\ D[p].gen = trust.denied[p].gen /\ D[p].block = trust.denied[p].block
          <5>1. ended(p) \in Denials /\ ended(p).gen = trust.peer[p].gen /\ ~ended(p).block
            <6> DEFINE x == Ended(trust.peer[p], trust.peer[p].rev, FALSE)
                       m == trust.peer[p].gen
            <6>1. trust.peer[p].rev \in Nat /\ m \in Nat BY <2>2 DEF Grants
            <6>2. x \in Denials /\ ~x.block BY <6>1, <2>2, <1>EndedRow
            <6> HIDE DEF x, m
            <6>3. [x EXCEPT !.gen = m] \in Denials BY <6>1, <6>2 DEF Denials
            <6>4. [x EXCEPT !.gen = m].gen = m BY <6>2 DEF Denials
            <6>5. ~[x EXCEPT !.gen = m].block BY <6>2 DEF Denials
            <6> QED BY <6>3, <6>4, <6>5 DEF x, m
          <5> HIDE DEF ended
          <5>2. denial(p) \in Denials BY <5>1, <2>2
          <5>3. out(p) => denial(p).gen = trust.peer[p].gen /\ ~denial(p).block BY <5>1
          <5>4. ~out(p) => denial(p) = trust.denied[p] OBVIOUS
          <5> HIDE DEF denial
          <5>5. kept(p) \in Denials /\ kept(p).gen = denial(p).gen /\ kept(p).block = denial(p).block BY <5>2 DEF Denials
          <5>6. D[p] = kept(p) OBVIOUS
          <5> HIDE DEF kept, D
          <5>7. Larger(trust.epoch[p], trust.peer[p].gen) \in Nat BY <2>2 DEF Larger, Grants
          <5>8. E[p] \in Nat /\ G[p] \in Grants BY <5>7, <2>2, <2>5
          <5>9. out(p) => E[p] = Larger(trust.epoch[p], trust.peer[p].gen) /\ G[p] = NoGrant OBVIOUS
          <5>10. ~out(p) => E[p] = trust.epoch[p] /\ G[p] = trust.peer[p] OBVIOUS
          <5> HIDE DEF E, G, out
          <5> QED BY <5>2, <5>3, <5>4, <5>5, <5>6, <5>8, <5>9, <5>10
        <4>4. E \in [Peers -> Nat] /\ G \in [Peers -> Grants] /\ D \in [Peers -> Denials]
          <5>1. \A p \in Peers : E[p] \in Nat /\ G[p] \in Grants /\ D[p] \in Denials BY <4>3
          <5> QED BY <5>1
        <4>5. R \subseteq Nat \X Nat
          <5>1. trust.retired \subseteq Nat \X Nat BY <2>1 DEF TrustFiles
          <5> QED BY <5>1, <2>1, ContextTypes
        <4> HIDE DEF E, G, D, R
        <4>6. /\ f \in TrustFiles /\ ~Recovering(f) /\ f.retired = R /\ f.prov = trust.prov
              /\ f.peer = G /\ f.denied = D /\ f.epoch = E
          <5> DEFINE f1 == [trust EXCEPT !.recov = "none", !.mode = "none", !.snaps = {}]
                     f2 == [f1 EXCEPT !.retired = R, !.epoch = E]
                     f3 == [f2 EXCEPT !.peer = G, !.denied = D]
          <5>1. f1 \in TrustFiles /\ f1.recov = "none" /\ f1.prov = trust.prov BY <2>1 DEF TrustFiles
          <5>2. f = f3 BY <2>1 DEF TrustFiles
          <5> HIDE DEF f1, f
          <5>3. f2 \in TrustFiles /\ f2.recov = "none" /\ f2.prov = trust.prov /\ f2.retired = R /\ f2.epoch = E
            BY <5>1, <4>4, <4>5 DEF TrustFiles
          <5> HIDE DEF f2
          <5>4. f3 \in TrustFiles /\ f3.recov = "none" /\ f3.prov = trust.prov /\ f3.retired = R /\ f3.epoch = E /\ f3.peer = G /\ f3.denied = D
            BY <5>3, <4>4 DEF TrustFiles
          <5> QED BY <5>2, <5>4 DEF Recovering
        <4> HIDE DEF f
        <4>7. ASSUME NEW p \in Peers
              PROVE  /\ RowOK(f.peer[p], f.denied[p], f.epoch[p], f.prov[p], FALSE, spent[p])
                     /\ f.peer[p].gen \in {0, trust.peer[p].gen} /\ f.peer[p].inc \in {0, trust.peer[p].inc}
                     /\ f.peer[p].gen # 0 /\ f.denied[p].gen = 0 =>
                           trust.denied[p].gen = 0 /\ (Allowed(trust, p) \/ f.peer[p].gen > spent[p])
          <5> DEFINE g == trust.peer[p]
                     d == trust.denied[p]
                     n == spent[p]
          <5>1. /\ g.gen \in Nat /\ d.gen \in Nat /\ n \in Nat /\ trust.epoch[p] \in Nat /\ g.inc \in Nat
                /\ RowOK(g, d, trust.epoch[p], trust.prov[p], TRUE, n)
            <6>1. Recovering(trust) = TRUE BY <4>2 DEF Recovering
            <6>2. RowOK(g, d, trust.epoch[p], trust.prov[p], TRUE, n) BY <6>1, <2>2
            <6> QED BY <6>2, <2>2 DEF Grants, Denials
          <5>2. CASE out(p)
            <6>1. g.gen > 0 /\ d.gen = 0 /\ n < g.gen BY <5>1, <5>2 DEF RowOK, Above, HasGroup
            <6>2. f.peer[p] = NoGrant /\ f.denied[p] = D[p] /\ D[p].gen = g.gen /\ ~D[p].block BY <5>2, <4>3, <4>6
            <6>3. RowOK(NoGrant, D[p], f.epoch[p], f.prov[p], FALSE, n)
              BY <6>1, <6>2, <5>1, <2>5, <4>6 DEF RowOK, Above
            <6> QED BY <6>2, <6>3, <2>5
          <5>3. CASE ~out(p)
            <6>1. /\ f.peer[p] = g /\ f.denied[p].gen = d.gen /\ f.denied[p].block = d.block /\ f.epoch[p] = trust.epoch[p]
                  /\ f.prov[p] = trust.prov[p]
              BY <5>3, <4>3, <4>6
            <6>2. RowOK(g, f.denied[p], f.epoch[p], f.prov[p], FALSE, n) BY <6>1, <5>1 DEF RowOK, Above
            <6>3. ASSUME g.gen # 0, d.gen = 0 PROVE Allowed(trust, p) \/ g.gen > n
              <7>1. CASE HasGroup(g) BY <7>1, <6>3, <5>1 DEF RowOK, Above
              <7>2. CASE ~HasGroup(g) BY <7>2, <6>3, <5>1 DEF Allowed, Barred, Denied
              <7> QED BY <7>1, <7>2
            <6> QED BY <6>1, <6>2, <6>3
          <5> QED BY <5>2, <5>3
        <4>8. Follows(h)
          <5>1. <<s.group, s.here>> \notin f.retired BY <4>2, <4>6
          <5> QED BY <5>1, <4>2, <4>6, <4>7, <2>SnapshotFollows
        <4>9. ASSUME NEW q \in Peers
              PROVE  h.peer[q].inc \in {0, trust.peer[q].inc} \/ (h.peer[q].inc = s.who[q] /\ s.who[q] # 0)
          <5>1. SnapshotMay(f, s, q, h, spent[q]) BY <4>2, <4>6, <4>7, <2>2, <1>SnapshotRow
          <5> HIDE DEF h
          <5> QED BY <5>1, <4>7 DEF SnapshotMay
        <4> HIDE DEF h
        <4>10. trust' = h \/ trust' = trust BY <4>1, <3>3 DEF Save
        <4>11. Follows(trust') BY <4>8, <4>10, UnchangedFollows
        <4>12. removed' \in [Peers -> Nat] /\ \A q \in Peers : removed'[q] = 0 BY <3>3
        <4>13. ASSUME NEW q \in Peers
               PROVE  trust'.peer[q].inc \in {0, trust.peer[q].inc} \/ (trust'.peer[q].inc = s.who[q] /\ s.who[q] # 0)
          BY <4>9, <4>10
        <4>14. Incarnations' BY <4>12, <4>13, <3>1, <2>1, <2>4, <1>IncarnationsKept
        <4> QED BY <4>11, <4>12, <4>14, <3>1, <2>3, <2>4 DEF StepOK
      <3> QED BY <3>2, <3>3, <2>8 DEF CompleteRecovery
    <2> QED BY <2>6, <2>7, <2>8
  \* Most of what operations, server and network do leaves the file alone.
  <1>CallsLeaveFile.
      ASSUME MembersTypeOK, MembersIInv,
             \/ \E p \in Peers : FetchActor(p) \/ SendRemoval(p)
             \/ FetchCurrent \/ AskJoin \/ Fetch \/ AskEnrolment \/ StartRefresh \/ StartInitialize \/ Crash
             \/ \E p \in budget.who : StartJoin(p)
             \/ ServerSteps
      PROVE  StepOK
    <2> USE <1>CallsLeaveFile
    <2>1. /\ RestTypeOK /\ server \in ControlStores /\ call \in MemberCallsOK /\ offer \in [Peers -> Offers]
          /\ "who" \in DOMAIN budget /\ budget.who \subseteq Peers /\ CallOK(call) /\ CallOK(Idle)
          /\ "me" \in Members /\ Peers \subseteq Members
          /\ call.kind \in {"join", "switch"} => call.code > 0
      BY <1>CallShapes DEF MembersTypeOK, RestTypeOK, Members
    <2>2. ASSUME NEW what, what # "who", Take(what) PROVE "who" \in DOMAIN budget' /\ budget'.who \subseteq Peers
      BY <2>2, <1>CallShapes
    <2>3. Unheard => "who" \in DOMAIN budget' /\ budget'.who \subseteq Peers BY <2>2 DEF Unheard
    <2>4. ASSUME UNCHANGED <<trust, server, removed, offer>>, CallOK(call'), UNCHANGED budget \/ Unheard PROVE StepOK
      <3>1. "who" \in DOMAIN budget' /\ budget'.who \subseteq Peers BY <2>1, <2>3, <2>4
      <3>2. Grown(server') BY <2>1, <2>4, StoreSteps
      <3> QED BY <3>1, <3>2, <2>1, <2>4, <1>CallStays
    <2>5. ASSUME UNCHANGED <<trust, removed, offer>>, Grown(server'), CallOK(call'), UNCHANGED budget \/ Unheard PROVE StepOK
      <3>1. "who" \in DOMAIN budget' /\ budget'.who \subseteq Peers BY <2>1, <2>3, <2>5
      <3> QED BY <3>1, <2>1, <2>5, <1>CallStays
    <2>6. Finish => CallOK(call') BY <2>1 DEF Finish
    <2>7. ASSUME NEW at \in {"prove", "send", "mark", "flush", "ask", "fetch", "restore", "apply", "complete"}, Proceed(at)
          PROVE CallOK(call')
      BY <2>1, <2>7, <1>CallWritten DEF Proceed
    <2>8. Enrolled("me") => /\ SnapshotFor("me") \in Snapshots
                            /\ \A q \in Peers : SnapshotFor("me").who[q] \in {0, server.inc[q]}
      BY <2>1, StoreSteps
    <2>9. ASSUME NEW p \in Peers, FetchActor(p) PROVE StepOK
      <3> DEFINE todo == call.todo \ {p}
                 c1 == [call EXCEPT !.todo = todo]
                 c2 == [c1 EXCEPT !.at = "prove"]
                 c3 == [c2 EXCEPT !.now = {p}]
                 c4 == [c3 EXCEPT !.seen = SnapshotFor("me")]
      <3>1. todo \in SUBSET Peers BY <2>1 DEF MemberCallsOK
      <3>2. CallOK(c1) BY <3>1, <2>1, <1>CallWritten
      <3> HIDE DEF todo
      <3>3. UNCHANGED <<trust, server, removed, offer>> /\ (UNCHANGED budget \/ Unheard) BY <2>9 DEF FetchActor, Local
      <3>4. CASE Enrolled("me") /\ call' = [call EXCEPT !.at = "prove", !.todo = @ \ {p}, !.now = {p}, !.seen = SnapshotFor("me")]
        <4>1. call' = c4 BY <3>4, <2>1 DEF MemberCallsOK, todo
        <4> HIDE DEF c1
        <4>2. CallOK(c2) BY <3>2, <1>CallWritten
        <4> HIDE DEF c2
        <4>3. CallOK(c3) BY <4>2, <2>9, <1>CallWritten
        <4> HIDE DEF c3
        <4>4. CallOK(c4) BY <4>3, <3>4, <2>8, <1>CallWritten
        <4> QED BY <4>1, <4>4, <3>3, <2>4
      <3>5. CASE call' = [call EXCEPT !.todo = @ \ {p}]
        <4>1. call' = c1 BY <3>5 DEF todo
        <4> QED BY <4>1, <3>2, <3>3, <2>4
      <3>6. CASE Finish BY <3>6, <3>3, <2>4, <2>6
      <3> QED BY <3>4, <3>5, <3>6, <2>9 DEF FetchActor
    <2>10. ASSUME NEW p \in Peers, SendRemoval(p) PROVE StepOK
      <3> DEFINE d == call.pend[p]
                 carried == Carried(d.req)
                 expected == IF call.at = "send" THEN call.pend[p].seen ELSE call.rev
                 known == (CHOOSE r \in carried : TRUE).rev
                 next == expected + 1
                 on(at, rev) == [[call EXCEPT !.at = at] EXCEPT !.rev = rev]
      <3>1. d \in Denials /\ d.req \in Nat /\ d.target \in Nat /\ expected \in Nat /\ next \in Nat /\ call.seen.rev \in Nat
        <4>1. d \in Denials /\ call.rev \in Nat /\ call.seen \in Snapshots BY <2>1 DEF MemberCallsOK
        <4>2. d.req \in Nat /\ d.target \in Nat /\ d.seen \in Nat BY <4>1 DEF Denials
        <4>3. call.seen.rev \in Nat BY <4>1 DEF Snapshots
        <4> HIDE DEF d
        <4>4. expected \in Nat BY <4>1, <4>2 DEF d
        <4> QED BY <4>1, <4>2, <4>3, <4>4
      <3>2. carried # {} => known \in Nat
        <4>1. carried \subseteq [req : Nat, peer : Peers, target : Nat, rev : Nat] BY <2>1 DEF ControlStores, Carried
        <4> QED BY <4>1
      <3>3. ASSUME NEW at \in {"mark", "send again"}, NEW rev \in Nat PROVE CallOK(on(at, rev))
        <4> DEFINE c == [call EXCEPT !.at = at]
        <4>1. CallOK(c) BY <3>3, <2>1, <1>CallWritten
        <4> HIDE DEF c
        <4>2. CallOK([c EXCEPT !.rev = rev]) BY <4>1, <1>CallWritten
        <4> QED BY <4>2 DEF c
      <3>4. NextRemoval => CallOK(call')
        <4> DEFINE c1 == [call EXCEPT !.at = "flush"]
                   c2 == [c1 EXCEPT !.now = {}]
                   c3 == [c2 EXCEPT !.rev = 0]
        <4>1. CallOK(c1) BY <2>1, <1>CallWritten
        <4>2. [call EXCEPT !.at = "flush", !.now = {}, !.rev = 0] = c3 BY <2>1 DEF MemberCallsOK
        <4> HIDE DEF c1
        <4>3. CallOK(c2) BY <4>1, <1>CallWritten
        <4> HIDE DEF c2
        <4>4. CallOK(c3) BY <4>3, <1>CallWritten
        <4> QED BY <4>2, <4>4, <2>6 DEF NextRemoval
      <3>5. UNCHANGED <<trust, removed, offer>> /\ Removal(p, expected) BY <2>10 DEF SendRemoval, Local
      <3>6. CASE carried # {} /\ UNCHANGED <<server, budget>> /\ call' = [call EXCEPT !.at = "mark", !.rev = known]
        <4>1. call' = on("mark", known) BY <3>6
        <4> HIDE DEF on, known
        <4>2. CallOK(call') BY <4>1, <3>2, <3>3, <3>6
        <4> QED BY <4>2, <3>5, <3>6, <2>4
      <3>7. CASE /\ MayRevoke(d.here, p, d.target, expected) /\ server' = RevokedBy(d.req, p, d.target)
                 /\ \/ call' = [call EXCEPT !.at = "mark", !.rev = expected + 1] /\ UNCHANGED budget
                    \/ Unheard /\ NextRemoval
        <4>1. Enrolled(p) BY <3>7 DEF MayRevoke, Enrolled
        <4>2. Grown(server') BY <4>1, <3>1, <3>7, <2>1, <2>10, StoreSteps
        <4>3. CallOK(call')
          <5>1. CASE call' = [call EXCEPT !.at = "mark", !.rev = expected + 1]
            <6>1. call' = on("mark", next) BY <5>1
            <6> HIDE DEF on, next
            <6> QED BY <6>1, <3>1, <3>3
          <5> QED BY <5>1, <3>4, <3>7
        <4> QED BY <4>2, <4>3, <3>5, <3>7, <2>5
      <3>8. CASE /\ UNCHANGED <<server, budget>>
                 /\ \/ call' = [call EXCEPT !.at = "send again", !.rev = call.seen.rev]
                    \/ NextRemoval
        <4>1. CallOK(call')
          <5>1. CASE call' = [call EXCEPT !.at = "send again", !.rev = call.seen.rev]
            <6>1. call' = on("send again", call.seen.rev) BY <5>1
            <6> HIDE DEF on
            <6> QED BY <6>1, <3>1, <3>3
          <5> QED BY <5>1, <3>4, <3>8
        <4> QED BY <4>1, <3>5, <3>8, <2>4
      <3>9. CASE Unheard /\ NextRemoval /\ UNCHANGED server BY <3>9, <3>4, <3>5, <2>4
      <3> QED BY <3>5, <3>6, <3>7, <3>8, <3>9 DEF Removal
    <2>11. CASE FetchCurrent
      <3> DEFINE c1 == [call EXCEPT !.at = "ask"]
                 c2 == [c1 EXCEPT !.seen = SnapshotFor("me")]
      <3>1. UNCHANGED <<trust, server, removed, offer>> /\ (UNCHANGED budget \/ Unheard) BY <2>11 DEF FetchCurrent, Local
      <3>2. CASE Enrolled("me") /\ call' = [call EXCEPT !.at = "ask", !.seen = SnapshotFor("me")]
        <4>1. call' = c2 BY <3>2
        <4>2. CallOK(c1) BY <2>1, <1>CallWritten
        <4> HIDE DEF c1
        <4>3. CallOK(c2) BY <4>2, <3>2, <2>8, <1>CallWritten
        <4> QED BY <4>1, <4>3, <3>1, <2>4
      <3>3. CASE Finish BY <3>3, <3>1, <2>4, <2>6
      <3> QED BY <3>2, <3>3, <2>11 DEF FetchCurrent
    <2>12. ASSUME call.code > 0 PROVE Grown(JoinedGroup(call.code))
      <3>1. call.code \in 0 .. MaxGroups BY <2>1 DEF MemberCallsOK
      <3>2. call.code \in Groups BY <3>1, <2>12, MembershipAssumption DEF Groups
      <3> QED BY <3>2, <2>1, StoreSteps
    <2>13. CASE AskJoin
      <3>1. UNCHANGED <<trust, removed, offer>> /\ call.code > 0 /\ (UNCHANGED budget \/ Unheard) BY <2>1, <2>13 DEF AskJoin, Local
      <3>2. CallOK(call') BY <2>6, <2>7, <2>13 DEF AskJoin
      <3>3. Grown(server') BY <3>1, <2>1, <2>12, <2>13, StoreSteps DEF AskJoin
      <3> QED BY <3>1, <3>2, <3>3, <2>5
    <2>14. CASE Fetch
      <3> DEFINE at == CASE call.kind = "refresh" -> "apply" [] call.kind = "recover" -> "complete" [] OTHER -> "restore"
                 c1 == [call EXCEPT !.seen = SnapshotFor("me")]
                 c2 == [c1 EXCEPT !.pend = Idle.pend]
                 c3 == [c2 EXCEPT !.at = at]
      <3>1. UNCHANGED <<trust, server, removed, offer>> /\ (UNCHANGED budget \/ Unheard) BY <2>14 DEF Fetch, Local
      <3>2. CASE Enrolled("me") /\ call' = [call EXCEPT !.seen = SnapshotFor("me"), !.pend = Idle.pend, !.at = at]
        <4>1. call' = c3 BY <3>2
        <4>2. at \in {"apply", "complete", "restore"} OBVIOUS
        <4>3. Idle.pend \in [Peers -> Denials] BY <2>1 DEF CallOK, MemberCallsOK
        <4> HIDE DEF at
        <4>4. CallOK(c1) BY <3>2, <2>1, <2>8, <1>CallWritten
        <4> HIDE DEF c1
        <4>5. CallOK(c2) BY <4>3, <4>4, <1>CallWritten
        <4> HIDE DEF c2
        <4>6. CallOK(c3) BY <4>2, <4>5, <1>CallWritten
        <4> QED BY <4>1, <4>6, <3>1, <2>4
      <3>3. CASE Finish BY <3>3, <3>1, <2>4, <2>6
      <3> QED BY <3>2, <3>3, <2>14 DEF Fetch
    <2>15. CASE AskEnrolment
      <3>1. UNCHANGED <<trust, removed, offer>> /\ (UNCHANGED budget \/ Unheard) BY <2>15 DEF AskEnrolment, Local
      <3>2. CallOK(call') BY <2>6, <2>7, <2>15 DEF AskEnrolment
      <3>3. Grown(server')
        <4>1. Grown(server) BY <2>1, StoreSteps
        <4>2. NewGroups # {} => Grown(Enrol(server, "me", CHOOSE g \in NewGroups : TRUE))
          <5>1. NewGroups # {} => (CHOOSE g \in NewGroups : TRUE) \in Groups BY DEF NewGroups
          <5> QED BY <5>1, <2>1, StoreSteps
        <4> QED BY <4>1, <4>2, <2>12, <2>15 DEF AskEnrolment
      <3> QED BY <3>1, <3>2, <3>3, <2>5
    <2>16. CASE StartRefresh
      <3> DEFINE todo == {p \in Peers : trust.denied[p].pending}
                 c1 == [Idle EXCEPT !.kind = "refresh"]
                 c2 == [c1 EXCEPT !.at = "flush"]
                 c3 == [c2 EXCEPT !.pend = trust.denied]
                 c4 == [c3 EXCEPT !.todo = todo]
      <3>1. call' = c4 BY <2>16 DEF StartRefresh
      <3>2. trust.denied \in [Peers -> Denials] BY DEF MembersTypeOK, TrustFiles
      <3>3. todo \in SUBSET Peers OBVIOUS
      <3> HIDE DEF todo
      <3>4. CallOK(c1) BY <2>1, <1>CallWritten
      <3> HIDE DEF c1
      <3>5. CallOK(c2) BY <3>4, <1>CallWritten
      <3> HIDE DEF c2
      <3>6. CallOK(c3) BY <3>2, <3>5, <1>CallWritten
      <3> HIDE DEF c3
      <3>7. CallOK(c4) BY <3>3, <3>6, <1>CallWritten
      <3> QED BY <3>1, <3>7, <2>4, <2>16 DEF StartRefresh, Local
    <2>17. CASE StartInitialize
      <3> DEFINE c1 == [Idle EXCEPT !.kind = "initialize"]
                 c2 == [c1 EXCEPT !.at = "ask"]
      <3>1. call' = c2 BY <2>17 DEF StartInitialize
      <3>2. CallOK(c1) BY <2>1, <1>CallWritten
      <3> HIDE DEF c1
      <3>3. CallOK(c2) BY <3>2, <1>CallWritten
      <3>4. "who" \in DOMAIN budget' /\ budget'.who \subseteq Peers BY <2>2, <2>17 DEF StartInitialize
      <3>5. UNCHANGED <<trust, server, removed, offer>> BY <2>17 DEF StartInitialize, Local
      <3>6. Grown(server') BY <3>5, <2>1, StoreSteps
      <3> HIDE DEF c2
      <3> QED BY <3>1, <3>3, <3>4, <3>5, <3>6, <2>1, <1>CallStays
    <2>18. CASE Crash
      <3>1. "who" \in DOMAIN budget' /\ budget'.who \subseteq Peers BY <2>2, <2>18 DEF Crash
      <3>2. UNCHANGED <<trust, server, removed>> /\ call' = Idle /\ offer' = [p \in Peers |-> NoOffer] BY <2>18 DEF Crash
      <3>3. offer' \in [Peers -> Offers] BY <3>2 DEF NoOffer, Offers
      <3>4. Grown(server') BY <3>2, <2>1, StoreSteps
      <3> QED BY <3>1, <3>2, <3>3, <3>4, <2>1, <1>CallStays
    <2>19. ASSUME NEW p \in Peers, StartJoin(p) PROVE StepOK
      <3> PICK switch \in BOOLEAN : call' = [Idle EXCEPT
                !.kind = IF switch THEN "switch" ELSE "join", !.at = IF switch THEN "current" ELSE "ask",
                !.code = server.grp[p]]
        BY <2>19 DEF StartJoin
      <3> DEFINE kind == IF switch THEN "switch" ELSE "join"
                 at == IF switch THEN "current" ELSE "ask"
                 c1 == [Idle EXCEPT !.at = at]
                 c2 == [c1 EXCEPT !.code = server.grp[p]]
                 c3 == [c2 EXCEPT !.kind = kind]
      <3>1. kind \in {"join", "switch"} /\ at \in {"current", "ask"} OBVIOUS
      <3>2. call' = c3 BY DEF Idle
      <3> HIDE DEF kind, at
      <3>3. CallOK(c1) BY <3>1, <2>1, <1>CallWritten
      <3> HIDE DEF c1
      <3>4. server.grp[p] \in 0 .. MaxGroups /\ server.grp[p] > 0 BY <2>1, <2>19 DEF ControlStores, StartJoin, Enrolled
      <3>5. CallOK(c2)
        <4>1. server.grp[p] \in Groups BY <3>4, MembershipAssumption DEF Groups
        <4> QED BY <4>1, <3>3, <1>CallWritten
      <3>6. c2.code > 0 BY <3>3, <3>4 DEF CallOK, MemberCallsOK
      <3> HIDE DEF c2
      <3>7. CallOK(c3) BY <3>1, <3>5, <3>6 DEF CallOK, MemberCallsOK
      <3>8. "who" \in DOMAIN budget' /\ budget'.who \subseteq Peers BY <2>2, <2>19 DEF StartJoin
      <3>9. UNCHANGED <<trust, removed, offer>> BY <2>19 DEF StartJoin, Local
      <3>10. Grown(server') BY <2>1, <2>19, StoreSteps DEF StartJoin
      <3> HIDE DEF c3
      <3> QED BY <3>2, <3>7, <3>8, <3>9, <3>10, <2>1, <1>CallStays
    <2>20. CASE ServerSteps
      <3>1. UNCHANGED <<trust, call, offer, removed>> BY <2>20 DEF ServerSteps, PeerMoves, OwnMembershipEnds, DatabaseLost, Elsewhere
      <3>2. "who" \in DOMAIN budget' /\ budget'.who \subseteq Peers
        BY <2>2, <2>20 DEF ServerSteps, PeerMoves, OwnMembershipEnds, DatabaseLost
      <3>3. Grown(server')
        <4>1. ASSUME NEW p \in budget.who, PeerMoves(p) PROVE Grown(server')
          <5>1. p \in Members BY <4>1, <2>1
          <5> QED BY <5>1, <4>1, <2>1, StoreSteps DEF PeerMoves
        <4>2. CASE OwnMembershipEnds BY <4>2, <2>1, StoreSteps DEF OwnMembershipEnds
        <4>3. CASE DatabaseLost
          <5> DEFINE G == [d \in Members |-> 0]
                     C == [g \in Groups |-> [by |-> "none", inc |-> 0, used |-> 0]]
          <5>1. server' = [server EXCEPT !.grp = G, !.done = {}, !.code = C] BY <4>3 DEF DatabaseLost
          <5>2. G \in [Members -> 0 .. MaxGroups] /\ C \in [Groups -> [by : Peers \cup {"none"}, inc : Nat, used : Nat]]
            <6>1. 0 \in 0 .. MaxGroups BY MembershipAssumption
            <6> QED BY <6>1
          <5> HIDE DEF G, C
          <5>3. server' \in ControlStores BY <5>1, <5>2, <2>1 DEF ControlStores
          <5>4. server'.inc = server.inc /\ server'.fresh = server.fresh /\ server.fresh \in Nat BY <5>1, <2>1 DEF ControlStores
          <5> QED BY <5>3, <5>4 DEF Grown
        <4> QED BY <4>1, <4>2, <4>3, <2>20 DEF ServerSteps
      <3> QED BY <3>1, <3>2, <3>3, <2>1, <1>CallStays
    <2> QED BY <2>1, <2>9, <2>10, <2>11, <2>13, <2>14, <2>15, <2>16, <2>17, <2>18, <2>19, <2>20
  \* What the user decides without the server.
  <1>UserStep. ASSUME MembersTypeOK, MembersIInv, UserSteps PROVE StepOK
    <2> USE <1>UserStep
    <2> PICK p \in budget.who :
            \/ Block(p) \/ Unblock(p) \/ Forget(p) \/ Accept(p)
            \/ AskPairing(p) \/ RecordConsent(p) \/ CommitPairing(p) \/ ExpirePairing(p)
            \/ TrustByFingerprint(p) \/ OpenSession(p) \/ EndSession(p)
      BY DEF UserSteps
    <2>1. p \in Peers BY DEF MembersTypeOK, RestTypeOK
    <2> DEFINE g0 == trust.peer[p]
               d0 == trust.denied[p]
               e0 == trust.epoch[p]
               o0 == trust.prov[p]
    <2>2. /\ RestTypeOK /\ trust \in TrustFiles /\ Rows(trust, spent) /\ OneContext(trust) /\ Incarnations
          /\ RowOK(g0, d0, e0, o0, Recovering(trust), spent[p]) /\ Written(trust, trust, p, g0, d0, e0, o0)
          /\ g0 \in Grants /\ d0 \in Denials /\ e0 \in Nat /\ o0 \in Offers /\ spent[p] \in Nat /\ Follows(trust)
      BY <2>1, UnchangedFollows DEF MembersTypeOK, MembersIInv
    <2>3. NoGrant \in Grants /\ NoDenial \in Denials /\ NoOffer \in Offers /\ NoGrant.gen = 0 /\ NoGrant.inc = 0 /\ ~HasGroup(NoGrant)
          /\ NoGrant.kind = "none" /\ ~NoGrant.auto /\ NoOffer.state = "none"
      BY DEF Grants, NoGrant, Denials, NoDenial, Offers, NoOffer, HasGroup
    <2>4. /\ server \in ControlStores /\ server.fresh \in Nat /\ removed \in [Peers -> Nat] /\ offer \in [Peers -> Offers]
          /\ \A q \in Peers : trust.peer[q].inc \in Nat
      BY <2>2 DEF RestTypeOK, ControlStores, TrustFiles, Grants
    <2>5. ASSUME UNCHANGED <<trust, server, call, removed>> PROVE Follows(trust') /\ Incarnations'
      BY <2>2, <2>5 DEF Incarnations
    <2>6. ASSUME NEW what, what # "who", Take(what) PROVE "who" \in DOMAIN budget' /\ budget'.who \subseteq Peers
      BY <2>2, <2>6 DEF Take, RestTypeOK
    <2>7. ASSUME removed' \in [Peers -> Nat], offer' \in [Peers -> Offers], UNCHANGED <<server, call>>,
                 "who" \in DOMAIN budget' /\ budget'.who \subseteq Peers
          PROVE  RestTypeOK'
      BY <2>2, <2>7 DEF RestTypeOK
    <2>8. CASE Block(p)
      <3>1. RestTypeOK' BY <2>4, <2>6, <2>7, <2>8 DEF Block, Others
      <3>2. CASE Barred(trust, p) BY <3>1, <3>2, <2>5, <2>8 DEF Block, Others, StepOK
      <3>3. CASE ~Barred(trust, p)
        <4> DEFINE was == IF Denied(trust, p) THEN trust.denied[p].gen ELSE 1
                   ended == IF trust.peer[p].gen > 0 THEN trust.peer[p].gen + 1 ELSE was
                   agreed == IF trust.prov[p].gen > 0 THEN Larger(ended, trust.prov[p].gen + 1) ELSE ended
                   D == [NoDenial EXCEPT !.gen = agreed, !.block = TRUE]
                   E == Larger(e0, agreed)
                   h1 == Retain(trust, p, agreed)
                   h2 == [h1 EXCEPT !.peer[p] = NoGrant]
                   h3 == [h2 EXCEPT !.prov[p] = NoOffer]
                   h == [h3 EXCEPT !.denied[p] = D]
        <4>1. trust' = Save(h) BY <3>3, <2>8 DEF Block
        <4>2. /\ agreed \in Nat /\ E \in Nat /\ agreed > 0 /\ agreed <= E /\ e0 <= E
              /\ g0.gen > 0 => agreed > g0.gen
              /\ g0.gen = 0 /\ d0.gen > 0 => agreed >= d0.gen
          BY <2>2 DEF Grants, Denials, Offers, Larger, Denied
        <4>3. D \in Denials /\ D.gen = agreed /\ D.block BY <4>2 DEF Denials, NoDenial
        <4>4. Written(trust, h1, p, g0, d0, E, o0) BY <4>2, <2>1, <2>2, RowsWritten DEF Retain
        <4> HIDE DEF h1, D, E, agreed
        <4>5. Written(trust, h2, p, NoGrant, d0, E, o0) BY <4>2, <4>4, <2>1, <2>2, <2>3, RowsWritten
        <4> HIDE DEF h2
        <4>6. Written(trust, h3, p, NoGrant, d0, E, NoOffer) BY <4>2, <4>5, <2>1, <2>2, <2>3, RowsWritten
        <4> HIDE DEF h3
        <4>7. Written(trust, h, p, NoGrant, D, E, NoOffer) BY <4>2, <4>3, <4>6, <2>1, <2>2, <2>3, RowsWritten
        <4>8. RowOK(NoGrant, D, E, NoOffer, Recovering(trust), spent[p])
          BY <4>2, <4>3, <2>2, <2>3 DEF RowOK, Above, Grants, Denials
        <4>9. Quietly(p) /\ RemovalKept(p, D)
          <5>1. removed' = removed /\ server' = server /\ call' = call BY <2>8 DEF Block, Others
          <5> QED BY <5>1, <4>2, <4>3, <2>1, <2>4 DEF Quietly, RemovalKept, Barrier
        <4>10. RowMay(p, NoGrant, D, E, NoOffer) BY <4>8, <2>3 DEF RowMay
        <4> HIDE DEF h
        <4>12. Follows(trust') /\ Incarnations'
          BY <4>1, <4>2, <4>3, <4>7, <4>9, <4>10, <2>1, <2>3, <1>RowStep
        <4> QED BY <4>12, <3>1 DEF StepOK
      <3> QED BY <3>2, <3>3
    <2>9. CASE Unblock(p)
      <3> DEFINE E == Larger(e0, d0.gen)
                 h1 == Retain(trust, p, trust.denied[p].gen)
                 h == [h1 EXCEPT !.denied[p] = NoDenial]
      <3>1. trust' = Save(h) BY <2>9 DEF Unblock
      <3>2. E \in Nat /\ e0 <= E /\ d0.gen <= E /\ d0.gen \in Nat /\ g0.gen \in Nat /\ d0.gen > 0
        BY <2>2, <2>9 DEF Grants, Denials, Larger, Unblock, Denied
      <3>3. Written(trust, h1, p, g0, d0, E, o0) BY <3>2, <2>1, <2>2, RowsWritten DEF Retain
      <3> HIDE DEF h1, E
      <3>4. Written(trust, h, p, g0, NoDenial, E, o0) BY <3>2, <3>3, <2>1, <2>2, <2>3, RowsWritten
      <3>5. RowOK(g0, NoDenial, E, o0, Recovering(trust), spent[p])
        BY <3>2, <2>2, <2>3 DEF RowOK, Above, NoDenial
      <3>6. removed' = [removed EXCEPT ![p] = 0] /\ server' = server /\ call' = call /\ offer' = offer
        BY <2>9 DEF Unblock, Others
      <3>7. Quietly(p) /\ removed'[p] = 0 BY <3>6, <2>1, <2>4 DEF Quietly
      <3>8. RowMay(p, g0, NoDenial, E, o0)
        BY <3>5 DEF RowMay
      <3>9. RestTypeOK' BY <3>6, <2>1, <2>4, <2>6, <2>7, <2>9 DEF Unblock
      <3> HIDE DEF h
      <3>10. Follows(trust') /\ Incarnations' BY <3>1, <3>2, <3>4, <3>7, <3>8, <2>1, <2>2, <2>3, <1>RowStep
      <3> QED BY <3>9, <3>10 DEF StepOK
    <2>10. CASE Forget(p)
      <3>1. RestTypeOK'
        <4>1. removed' \in [Peers -> Nat] BY <2>1, <2>4, <2>10 DEF Forget
        <4> QED BY <4>1, <2>4, <2>6, <2>7, <2>10 DEF Forget, Others
      <3>2. CASE Denied(trust, p) \/ g0.gen = 0 BY <3>1, <3>2, <2>5, <2>10 DEF Forget, Others, StepOK
      <3>3. CASE ~(Denied(trust, p) \/ g0.gen = 0)
        <4> DEFINE D == Ended(g0, g0.rev, TRUE)
                   E == Larger(e0, D.gen)
                   h1 == Retain(trust, p, D.gen)
                   h2 == [h1 EXCEPT !.peer[p] = NoGrant]
                   h3 == [h2 EXCEPT !.prov[p] = NoOffer]
                   h == [h3 EXCEPT !.denied[p] = D]
        <4>1. trust' = Save(h) /\ removed' = [removed EXCEPT ![p] = g0.inc] BY <3>3, <2>10 DEF Forget
        <4>2. D \in Denials /\ D.gen = g0.gen + 1 /\ ~D.block /\ ~D.retired /\ D.target = g0.inc
          <5>1. g0.rev \in Nat BY <2>2 DEF Grants
          <5> QED BY <5>1, <2>2, <1>EndedRow
        <4>3. E \in Nat /\ g0.gen \in Nat /\ D.gen \in Nat
          <5> HIDE DEF D
          <5> QED BY <4>2, <2>2 DEF Grants, Larger
        <4>4. Written(trust, h1, p, g0, d0, E, o0) BY <4>2, <4>3, <2>1, <2>2, RowsWritten DEF Retain
        <4> HIDE DEF h1, D, E
        <4>5. Written(trust, h2, p, NoGrant, d0, E, o0) BY <4>3, <4>4, <2>1, <2>2, <2>3, RowsWritten
        <4> HIDE DEF h2
        <4>6. Written(trust, h3, p, NoGrant, d0, E, NoOffer) BY <4>3, <4>5, <2>1, <2>2, <2>3, RowsWritten
        <4> HIDE DEF h3
        <4>7. Written(trust, h, p, NoGrant, D, E, NoOffer) BY <4>2, <4>3, <4>6, <2>1, <2>2, <2>3, RowsWritten
        <4>8. RowOK(NoGrant, D, E, NoOffer, Recovering(trust), spent[p])
          <5>1. d0.gen = 0 /\ g0.gen > 0 BY <3>3, <2>2 DEF Denied, Denials, Grants
          <5> QED BY <5>1, <4>2, <4>3, <2>2, <2>3 DEF RowOK, Above
        <4>9. Valid(h)
          <5>1. h.peer[p].gen = 0 /\ \A q \in Peers \ {p} : h.peer[q] = trust.peer[q] /\ h.denied[q] = trust.denied[q]
            BY <4>7, <2>2, <2>3, <2>1 DEF Written, TrustFiles
          <5>2. Valid(trust) BY <2>2 DEF Valid, Rows, RowOK, Denied, TrustFiles, Denials
          <5> QED BY <5>1, <5>2 DEF Valid, Denied
        <4>10. Quietly(p)
          <5>1. server' = server /\ call' = call BY <2>10 DEF Forget, Others
          <5> QED BY <5>1, <4>1, <2>1, <2>4 DEF Quietly
        <4>11. removed'[p] = g0.inc /\ Barrier(D, removed'[p]) BY <4>1, <4>2, <4>3, <2>1, <2>4 DEF Barrier
        <4>12. RowMay(p, NoGrant, D, E, NoOffer) BY <4>8, <2>3 DEF RowMay
        <4> HIDE DEF h
        <4>13. Follows(trust') /\ Incarnations'
          BY <4>1, <4>2, <4>3, <4>7, <4>9, <4>10, <4>11, <4>12, <2>1, <2>3, <1>RowStep
        <4> QED BY <4>13, <3>1 DEF StepOK
      <3> QED BY <3>2, <3>3
    <2>11. CASE Accept(p)
      <3> DEFINE G == [g0 EXCEPT !.auto = TRUE]
                 h == [trust EXCEPT !.peer[p] = G]
      <3>1. trust' = h /\ g0.gen > 0
        <4>1. trust' = [trust EXCEPT !.peer[p].auto = TRUE] /\ g0.gen > 0 BY <2>11 DEF Accept
        <4> QED BY <4>1
      <3>2. /\ G \in Grants /\ G.gen = g0.gen /\ G.kind = g0.kind /\ G.inc = g0.inc
            /\ G.group = g0.group /\ G.here = g0.here
        BY <2>2 DEF Grants
      <3> HIDE DEF G
      <3>3. Written(trust, h, p, G, d0, e0, o0) BY <3>2, <2>1, <2>2, RowsWritten
      <3>4. RowOK(G, d0, e0, o0, Recovering(trust), spent[p])
        BY <3>1, <3>2, <2>2 DEF RowOK, Above, HasGroup
      <3>5. RowMay(p, G, d0, e0, o0) BY <3>2, <3>4 DEF RowMay, HasGroup
      <3>6. Valid(h)
        <4>1. \A q \in Peers : h.peer[q].gen = trust.peer[q].gen /\ h.denied[q] = trust.denied[q]
          BY <3>2, <3>3, <2>2, <2>1 DEF Written, TrustFiles
        <4>2. Valid(trust) BY <2>2 DEF Valid, Rows, RowOK, Denied, TrustFiles, Denials
        <4> QED BY <4>1, <4>2 DEF Valid, Denied
      <3>7. removed' = removed /\ server' = server /\ call' = call /\ offer' = offer BY <2>11 DEF Accept, Others
      <3>8. Quietly(p) /\ RemovalKept(p, d0) BY <3>7, <2>1, <2>4 DEF Quietly, RemovalKept
      <3>9. RestTypeOK' BY <3>7, <2>4, <2>6, <2>7, <2>11 DEF Accept
      <3> HIDE DEF h
      <3>10. Follows(trust') /\ Incarnations' BY <3>1, <3>2, <3>3, <3>5, <3>6, <3>8, <2>1, <2>2, <1>RowStep
      <3> QED BY <3>9, <3>10 DEF StepOK
    <2>12. CASE AskPairing(p)
      <3>1. PairGeneration(trust, p) \in Nat BY <2>1, <2>2 DEF PairGeneration, TrustFiles, Grants, Denials
      <3>2. [gen |-> PairGeneration(trust, p), state |-> "asked"] \in Offers BY <3>1 DEF Offers
      <3>3. offer' \in [Peers -> Offers] BY <3>2, <2>1, <2>4, <2>12 DEF AskPairing
      <3>4. RestTypeOK' BY <3>3, <2>4, <2>6, <2>7, <2>12 DEF AskPairing
      <3> QED BY <3>4, <2>5, <2>12 DEF AskPairing, StepOK
    <2>13. CASE RecordConsent(p)
      <3>1. removed' = removed /\ server' = server /\ call' = call /\ budget' = budget BY <2>13 DEF RecordConsent
      <3>2. offer' \in [Peers -> Offers] BY <2>1, <2>3, <2>4, <2>13 DEF RecordConsent
      <3>3. RestTypeOK' BY <3>1, <3>2, <2>2, <2>4, <2>7 DEF RestTypeOK
      <3>4. CASE trust' = trust BY <3>1, <3>3, <3>4, <2>5 DEF StepOK
      <3>5. CASE /\ AcceptedGeneration(trust, p) = offer[p].gen
                 /\ trust' = Save([trust EXCEPT !.prov[p] = [gen |-> offer[p].gen, state |-> "accepted"]])
        <4> DEFINE O == [gen |-> offer[p].gen, state |-> "accepted"]
                   h == [trust EXCEPT !.prov[p] = O]
        <4>1. O \in Offers /\ O.gen > 0
          <5>1. AcceptedGeneration(trust, p) > 0 /\ AcceptedGeneration(trust, p) \in Nat
            BY <2>1, <2>2 DEF AcceptedGeneration, Larger, TrustFiles, Grants, Denials
          <5> QED BY <5>1, <3>5 DEF Offers
        <4> HIDE DEF O
        <4>2. Written(trust, h, p, g0, d0, e0, O) BY <4>1, <2>1, <2>2, RowsWritten
        <4>3. trust' = Save(h) BY <3>5 DEF O
        <4>4. RowMay(p, g0, d0, e0, O)
          <5>1. RowOK(g0, d0, e0, O, Recovering(trust), spent[p]) BY <4>1, <2>2 DEF RowOK
          <5> QED BY <5>1 DEF RowMay
        <4>5. Quietly(p) /\ RemovalKept(p, d0) BY <3>1, <2>1, <2>4 DEF Quietly, RemovalKept
        <4> HIDE DEF h
        <4>6. Follows(trust') /\ Incarnations' BY <4>1, <4>2, <4>3, <4>4, <4>5, <2>1, <2>2, <1>RowStep
        <4> QED BY <4>6, <3>3 DEF StepOK
      <3> QED BY <3>4, <3>5, <2>13 DEF RecordConsent
    <2>14. CASE ExpirePairing(p)
      <3> DEFINE h == [trust EXCEPT !.prov[p] = NoOffer]
      <3>1. removed' = removed /\ server' = server /\ call' = call /\ budget' = budget /\ offer' = offer /\ trust' = h
        BY <2>14 DEF ExpirePairing, Others
      <3>2. RestTypeOK' BY <3>1, <2>2, <2>4, <2>7 DEF RestTypeOK
      <3>3. Written(trust, h, p, g0, d0, e0, NoOffer) BY <2>1, <2>2, <2>3, RowsWritten
      <3>4. RowMay(p, g0, d0, e0, NoOffer)
        <4>1. RowOK(g0, d0, e0, NoOffer, Recovering(trust), spent[p]) BY <2>2, <2>3 DEF RowOK
        <4> QED BY <4>1 DEF RowMay
      <3>5. Quietly(p) /\ RemovalKept(p, d0) BY <3>1, <2>1, <2>4 DEF Quietly, RemovalKept
      <3>6. Valid(h)
        <4>1. \A q \in Peers : h.peer[q] = trust.peer[q] /\ h.denied[q] = trust.denied[q]
          BY <3>3, <2>2, <2>1 DEF Written, TrustFiles
        <4>2. Valid(trust) BY <2>2 DEF Valid, Rows, RowOK, Denied, TrustFiles, Denials
        <4> QED BY <4>1, <4>2 DEF Valid, Denied
      <3> HIDE DEF h
      <3>7. Follows(trust') /\ Incarnations' BY <3>1, <3>3, <3>4, <3>5, <3>6, <2>1, <2>2, <2>3, <1>RowStep
      <3> QED BY <3>2, <3>7 DEF StepOK
    <2>15. ASSUME trust' = Save(Pinned(trust, p)), UNCHANGED <<server, call, removed>>
           PROVE  Follows(trust') /\ Incarnations'
      <3>1. CASE ~(Allowed(trust, p) /\ g0.gen = 0)
        <4>1. trust' = trust BY <3>1, <2>15 DEF Pinned, Save
        <4> QED BY <4>1, <2>5, <2>15
      <3>2. CASE Allowed(trust, p) /\ g0.gen = 0
        <4> DEFINE G == [NoGrant EXCEPT !.kind = "lan", !.gen = e0 + 1]
                   h == [trust EXCEPT !.peer[p] = G]
        <4>1. G \in Grants /\ G.gen = e0 + 1 /\ G.kind = "lan" /\ ~G.auto /\ G.inc = 0
          <5>1. NoGrant \in Grants /\ e0 + 1 \in Nat BY <2>2, <2>3
          <5>2. G \in Grants BY <5>1 DEF Grants
          <5>3. G.gen = e0 + 1 /\ G.kind = "lan" /\ G.inc = 0 BY <5>1, <2>3 DEF Grants
          <5>4. ~G.auto BY <5>1, <2>3 DEF Grants
          <5> QED BY <5>2, <5>3, <5>4
        <4>2. trust' = Save(h) BY <3>2, <2>15 DEF Pinned
        <4> HIDE DEF G
        <4>3. Written(trust, h, p, G, d0, e0, o0) BY <4>1, <2>1, <2>2, RowsWritten
        <4>4. Valid(h) => RowMay(p, G, d0, e0, o0)
          <5> SUFFICES ASSUME Valid(h) PROVE RowMay(p, G, d0, e0, o0) OBVIOUS
          <5>1. h.peer[p] = G /\ h.denied[p] = d0 BY <4>3, <2>1, <2>2 DEF Written, TrustFiles
          <5>2. d0.gen = 0 /\ e0 + 1 > spent[p] BY <5>1, <4>1, <3>2, <2>1, <2>2 DEF Valid, Denied, Denials, RowOK, Above
          <5>3. RowOK(G, d0, e0, o0, Recovering(trust), spent[p]) BY <5>2, <4>1, <2>2 DEF RowOK, Above, HasGroup
          <5> QED BY <5>2, <5>3, <4>1 DEF RowMay, HasGroup
        <4>5. Quietly(p) /\ RemovalKept(p, d0) BY <2>15, <2>1, <2>4 DEF Quietly, RemovalKept
        <4> HIDE DEF h
        <4> QED BY <4>1, <4>2, <4>3, <4>4, <4>5, <2>1, <2>2, <1>RowStep
      <3> QED BY <3>1, <3>2
    <2>16. CASE TrustByFingerprint(p)
      <3>1. RestTypeOK' BY <2>4, <2>6, <2>7, <2>16 DEF TrustByFingerprint, Others
      <3> QED BY <3>1, <2>15, <2>16 DEF TrustByFingerprint, Others, StepOK
    <2>17. CASE OpenSession(p)
      <3>1. RestTypeOK' BY <2>4, <2>6, <2>7, <2>17 DEF OpenSession
      <3> QED BY <3>1, <2>5, <2>17 DEF OpenSession, StepOK
    <2>18. CASE EndSession(p)
      <3>1. RestTypeOK' BY <2>2, <2>18 DEF EndSession, RestTypeOK
      <3> QED BY <3>1, <2>15, <2>18 DEF EndSession, StepOK
    <2>19. CASE CommitPairing(p)
      <3> DEFINE n == o0.gen
                 D == IF Denied(trust, p) THEN NoDenial ELSE d0
                 E == IF Denied(trust, p) THEN Larger(e0, d0.gen) ELSE e0
                 kept == HasGroup(g0) /\ ~Recovering(trust)
                 G == IF kept THEN [g0 EXCEPT !.kind = "group+lan"] ELSE [NoGrant EXCEPT !.kind = "lan", !.gen = n, !.auto = g0.auto]
                 O == [o0 EXCEPT !.state = "done"]
                 h1 == Retain(trust, p, trust.denied[p].gen)
                 h2 == IF Denied(trust, p) THEN [h1 EXCEPT !.denied[p] = NoDenial] ELSE trust
                 h3 == [h2 EXCEPT !.peer[p] = G]
                 h == [h3 EXCEPT !.prov[p].state = "done"]
      <3>1. trust' = Save(h) BY <2>19 DEF CommitPairing, Committed
      <3>2. /\ o0.state = "accepted" /\ n > 0 /\ n \in Nat /\ g0.gen \in Nat /\ d0.gen \in Nat
            /\ Denied(trust, p) => ~d0.block /\ d0.gen = n /\ g0.gen = 0
            /\ g0.gen > 0 => g0.gen = n
        BY <2>2, <2>19 DEF CommitPairing, CanCommit, RowOK, Denied, Grants, Denials, Offers
      <3>3. /\ G \in Grants /\ G.gen = n /\ G.inc \in {0, g0.inc} /\ (G.auto => g0.auto)
            /\ HasGroup(G) => kept /\ G.group = g0.group /\ G.here = g0.here
            /\ kept => HasGroup(G)
            /\ G.kind # "none"
        <4>1. CASE kept
          <5>1. G = [g0 EXCEPT !.kind = "group+lan"] BY <4>1
          <5>2. g0.gen = n BY <4>1, <3>2, <2>2 DEF RowOK, HasGroup
          <5>3. G \in Grants /\ G.gen = g0.gen /\ G.inc = g0.inc /\ G.group = g0.group /\ G.here = g0.here /\ G.kind = "group+lan"
            BY <5>1, <2>2 DEF Grants
          <5>4. G.auto => g0.auto BY <5>1, <2>2 DEF Grants
          <5> HIDE DEF G
          <5> QED BY <5>2, <5>3, <5>4, <4>1 DEF HasGroup
        <4>2. CASE ~kept
          <5> DEFINE on == g0.auto
                     x == [NoGrant EXCEPT !.kind = "lan", !.gen = n, !.auto = on]
          <5>1. G = x BY <4>2
          <5>2. on \in BOOLEAN /\ NoGrant \in Grants BY <2>2, <2>3 DEF Grants
          <5> HIDE DEF on, n
          <5>3. n \in Nat BY <3>2 DEF n
          <5>4. x \in Grants BY <5>2, <5>3 DEF Grants
          <5>5. x.gen = n /\ x.inc = 0 /\ x.kind = "lan" BY <2>3, <5>2 DEF Grants
          <5>6. x.auto = on BY <5>2 DEF Grants
          <5> HIDE DEF x, G
          <5> QED BY <5>1, <5>4, <5>5, <5>6, <4>2 DEF HasGroup, on
        <4> QED BY <4>1, <4>2
      <3>4. O \in Offers /\ O.state = "done" BY <2>2 DEF Offers
      <3>5. E \in Nat /\ D \in Denials /\ D.gen = 0
        BY <2>2, <2>3 DEF Denials, Larger, Denied, NoDenial
      <3> HIDE DEF G
      <3>6. Written(trust, h2, p, g0, D, E, o0)
        <4>1. CASE Denied(trust, p)
          <5>1. Larger(e0, d0.gen) \in Nat BY <3>2, <2>2 DEF Larger
          <5>2. Written(trust, h1, p, g0, d0, Larger(e0, d0.gen), o0) BY <5>1, <2>1, <2>2, RowsWritten DEF Retain
          <5> HIDE DEF h1
          <5> QED BY <5>1, <5>2, <4>1, <2>1, <2>2, <2>3, RowsWritten
        <4>2. CASE ~Denied(trust, p) BY <4>2, <2>2
        <4> QED BY <4>1, <4>2
      <3> HIDE DEF h2, D, E
      <3>7. Written(trust, h3, p, G, D, E, o0) BY <3>3, <3>5, <3>6, <2>1, <2>2, RowsWritten
      <3> HIDE DEF h3
      <3>8. h = [h3 EXCEPT !.prov[p] = O]
        <4>1. h3.prov[p] = o0 BY <3>7, <2>1, <2>2 DEF Written, TrustFiles
        <4> QED BY <4>1
      <3> HIDE DEF O, h
      <3>9. Written(trust, h, p, G, D, E, O) BY <3>3, <3>4, <3>5, <3>7, <3>8, <2>1, <2>2, RowsWritten
      <3>10. RowMay(p, G, D, E, O)
        <4>1. G.gen # 0 /\ HasGroup(G) = kept BY <3>2, <3>3 DEF HasGroup
        <4>2. G.auto => G.gen = g0.gen BY <3>2, <3>3, <2>2 DEF RowOK
        <4>3. ASSUME NEW m \in Nat, m <= n, kept => m <= n, Recovering(trust) => ~kept PROVE RowOK(G, D, E, O, Recovering(trust), m)
          BY <4>1, <4>3, <3>2, <3>3, <3>4, <3>5 DEF RowOK, Above
        <4>4. Recovering(trust) => ~kept OBVIOUS
        <4>5. CASE Denied(trust, p) \/ g0.gen > 0
          <5>1. spent[p] <= n BY <4>5, <3>2, <2>2 DEF RowOK, Above, Denied
          <5>2. RowOK(G, D, E, O, Recovering(trust), spent[p]) BY <5>1, <4>3, <4>4, <2>2
          <5>3. G.gen > spent[p] \/ (G.gen = g0.gen /\ (HasGroup(G) <=> HasGroup(g0)))
            BY <4>1, <4>5, <3>2, <3>3, <2>2 DEF RowOK, Above, Denied
          <5> QED BY <5>2, <5>3, <4>1, <4>2, <3>3 DEF RowMay
        <4>6. CASE ~Denied(trust, p) /\ g0.gen = 0 /\ n > e0
          <5>1. spent[p] < n BY <4>6, <3>2, <2>2 DEF RowOK, Above, Denied
          <5>2. RowOK(G, D, E, O, Recovering(trust), spent[p]) BY <5>1, <4>3, <4>4, <2>2, <3>2
          <5> QED BY <5>1, <5>2, <4>1, <4>2, <3>2, <3>3 DEF RowMay
        <4>7. CASE ~Denied(trust, p) /\ g0.gen = 0 /\ n <= e0
          <5>1. RowOK(G, D, E, O, Recovering(trust), G.gen) BY <4>3, <4>4, <3>2, <3>3
          <5>2. ~HasGroup(G) BY <4>7, <3>3, <2>2 DEF RowOK, HasGroup
          <5> QED BY <5>1, <5>2, <4>2, <4>7, <3>2, <3>3, <3>4, <3>5 DEF RowMay
        <4> QED BY <4>5, <4>6, <4>7, <3>2, <2>2
      <3>11. removed' = [removed EXCEPT ![p] = 0] /\ server' = server /\ call' = call /\ offer' = offer /\ budget' = budget
        BY <2>19 DEF CommitPairing
      <3>12. Quietly(p) /\ removed'[p] = 0 BY <3>11, <2>1, <2>4 DEF Quietly
      <3>13. RestTypeOK' BY <3>11, <2>1, <2>2, <2>4, <2>7 DEF RestTypeOK
      <3>14. Follows(trust') /\ Incarnations' BY <3>1, <3>3, <3>4, <3>5, <3>9, <3>10, <3>12, <2>1, <2>2, <1>RowStep
      <3> QED BY <3>13, <3>14 DEF StepOK
    <2> QED BY <2>8, <2>9, <2>10, <2>11, <2>12, <2>13, <2>14, <2>16, <2>17, <2>18, <2>19
  <1> DEFINE now(p) == InForce(trust', p)
  <1>1. CASE MembersNext
    <2>1. StepOK
      <3>1. CASE UserSteps BY <3>1, <1>UserStep
      <3>2. CASE MemberSteps BY <3>2, <1>CallsLeaveFile, <1>SnapshotsTaken, <1>FileWritten DEF MemberSteps
      <3>3. CASE MemberCalls
        <4>1. budget.who \subseteq Peers BY DEF MembersTypeOK, RestTypeOK
        <4> QED BY <4>1, <3>3, <1>CallsLeaveFile, <1>FileWritten DEF MemberCalls
      <3>4. CASE ServerSteps BY <3>4, <1>CallsLeaveFile
      <3> QED BY <3>1, <3>2, <3>3, <3>4, <1>1 DEF MembersNext
    <2>2. /\ trust' \in TrustFiles /\ OneContext(trust') /\ Incarnations' /\ RestTypeOK' /\ spent \in [Peers -> Nat]
          /\ \A p \in Peers :
                /\ RowAt(trust', p, spent[p]) \/ (Late(trust', p) /\ RowAt(trust', p, now(p)))
                /\ now(p) \in {0, InForce(trust, p)} \/ now(p) > spent[p] \/ Late(trust', p)
                /\ trust'.peer[p].auto => trust'.peer[p].gen = trust.peer[p].gen
      BY <2>1 DEF StepOK, Follows, MembersTypeOK
    <2>3. \A p \in Peers : Late(trust', p) = LateConsent(p) BY DEF Late, LateConsent
    <2>4. ASSUME NEW p \in Peers PROVE now(p) \in Nat /\ now(p) \in {0, trust'.peer[p].gen} /\ trust'.peer[p].gen \in Nat
      <3>1. trust'.peer[p] \in Grants BY <2>2 DEF TrustFiles
      <3> QED BY <3>1 DEF Grants, InForce
    <2>5. spent' = [p \in Peers |-> IF LateConsent(p) THEN now(p) ELSE Larger(spent[p], now(p))] BY <1>1 DEF MembersNext, Recorded
    <2>6. spent' \in [Peers -> Nat]
      <3>1. \A p \in Peers : Larger(spent[p], now(p)) \in Nat BY <2>2, <2>4 DEF Larger
      <3> HIDE DEF now
      <3> QED BY <3>1, <2>4, <2>5
    <2>7. Rows(trust', spent')
      <3> SUFFICES ASSUME NEW p \in Peers PROVE RowAt(trust', p, spent'[p]) BY DEF Rows, RowAt
      <3>1. CASE LateConsent(p)
        \* a late consent is itself in force, and so is not below what was spent before
        <4>1. RowAt(trust', p, spent[p]) \/ RowAt(trust', p, now(p)) BY <2>2
        <4>2. spent'[p] = now(p) BY <3>1, <2>5
        <4>3. RowAt(trust', p, spent[p]) => RowAt(trust', p, now(p))
          <5> DEFINE g == trust'.peer[p]
                     d == trust'.denied[p]
          <5>1. g \in Grants /\ d \in Denials /\ trust'.epoch[p] \in Nat BY <2>2 DEF TrustFiles
          <5>2. g.gen \in Nat /\ d.gen \in Nat BY <5>1 DEF Grants, Denials
          <5>3. now(p) = 0 \/ (now(p) = g.gen /\ Allowed(trust', p)) BY DEF InForce
          <5>4. ASSUME RowAt(trust', p, spent[p]) PROVE RowAt(trust', p, now(p))
            <6>1. RowOK(g, d, trust'.epoch[p], trust'.prov[p], Recovering(trust'), spent[p]) BY <5>4 DEF RowAt
            <6>2. Above(g, d, trust'.epoch[p], Recovering(trust'), now(p))
              <7>1. CASE now(p) = 0
                <8>1. Above(g, d, trust'.epoch[p], Recovering(trust'), 0)
                  BY <6>1, <5>1, <5>2 DEF RowOK, Above
                <8> QED BY <8>1, <7>1
              <7>2. CASE now(p) = g.gen /\ Allowed(trust', p) /\ g.gen # 0
                <8>1. d.gen = 0 BY <6>1, <7>2 DEF RowOK
                <8>2. ~(Recovering(trust') /\ HasGroup(g)) BY <7>2 DEF Allowed
                <8>3. Above(g, d, trust'.epoch[p], Recovering(trust'), g.gen) BY <8>1, <8>2, <7>2, <5>2 DEF Above
                <8> QED BY <8>3, <7>2
              <7> QED BY <7>1, <7>2, <5>3
            <6> HIDE DEF now
            <6> QED BY <6>1, <6>2 DEF RowAt, RowOK
          <5> QED BY <5>4
        <4> QED BY <4>1, <4>2, <4>3
      <3>2. CASE ~LateConsent(p)
        <4>1. RowAt(trust', p, spent[p]) BY <3>2, <2>2, <2>3
        <4>2. spent'[p] = Larger(spent[p], now(p)) BY <3>2, <2>5
        <4> DEFINE g == trust'.peer[p]
                   d == trust'.denied[p]
        <4>3. g \in Grants /\ d \in Denials /\ trust'.epoch[p] \in Nat BY <2>2 DEF TrustFiles
        <4>4. g.gen \in Nat /\ d.gen \in Nat /\ spent[p] \in Nat BY <4>3, <2>2 DEF Grants, Denials
        <4>5. RowOK(g, d, trust'.epoch[p], trust'.prov[p], Recovering(trust'), spent[p]) BY <4>1 DEF RowAt
        <4>6. Above(g, d, trust'.epoch[p], Recovering(trust'), spent'[p])
          <5>1. CASE spent'[p] = spent[p] BY <5>1, <4>5 DEF RowOK
          <5>2. CASE spent'[p] = now(p) /\ now(p) > spent[p]
            <6>1. now(p) = g.gen /\ g.gen > 0 /\ Allowed(trust', p)
              <7>1. now(p) # 0 BY <5>2, <4>4, <2>4
              <7>2. now(p) = g.gen /\ Allowed(trust', p) BY <7>1 DEF InForce
              <7> QED BY <7>1, <7>2, <4>4
            <6>2. d.gen = 0 BY <6>1, <4>4, <4>5 DEF RowOK
            <6>3. ~(Recovering(trust') /\ HasGroup(g)) BY <6>1 DEF Allowed
            <6>4. Above(g, d, trust'.epoch[p], Recovering(trust'), g.gen) BY <6>1, <6>2, <6>3, <4>4 DEF Above
            <6> QED BY <6>1, <6>4, <5>2
          <5> QED BY <5>1, <5>2, <4>2, <4>4, <2>4 DEF Larger
        <4> QED BY <4>5, <4>6 DEF RowAt, RowOK
      <3> QED BY <3>1, <3>2
    <2>8. ASSUME NEW p \in Peers, ComesBack(p) PROVE LateConsent(p)
      <3>1. now(p) \notin {0, InForce(trust, p)} /\ now(p) <= spent[p] BY <2>8 DEF ComesBack
      <3>2. now(p) \in Nat /\ spent[p] \in Nat BY <2>2, <2>4
      <3> HIDE DEF now
      <3> QED BY <3>1, <3>2, <2>2, <2>3
    <2> QED BY <2>2, <2>6, <2>7, <2>8 DEF MembersTypeOK, MembersIInv
  <1>2. CASE UNCHANGED mbVars
    <2>1. /\ trust' = trust /\ server' = server /\ call' = call /\ offer' = offer /\ removed' = removed /\ spent' = spent
          /\ budget' = budget
      BY <1>2 DEF mbVars
    <2>2. MembersTypeOK' BY <2>1 DEF MembersTypeOK, RestTypeOK
    <2>3. MembersIInv' BY <2>1 DEF MembersIInv, Incarnations
    <2>4. \A p \in Peers : ~ComesBack(p) BY <2>1 DEF ComesBack
    <2>5. \A p \in Peers : trust'.peer[p].auto => trust'.peer[p].gen = trust.peer[p].gen BY <2>1
    <2> QED BY <2>2, <2>3, <2>4, <2>5
  <1> QED BY <1>1, <1>2

(* The trust file never holds a row that another row, or what the user     *)
(* decided, contradicts: a removed member stays out, no device is trusted  *)
(* and denied at once, and all grants of a group rest on one context that  *)
(* was not retired.  The rows keep the shapes of the code's records, their *)
(* generations stay above those that were withdrawn, and no incarnation    *)
(* known of a device is newer than the device (identity.go, forget.go,     *)
(* membership_recovery.go).                                                *)
THEOREM MembersHold == MembersSpec => [](MembersTypeOK /\ MembersIInv /\ MembersInv)
  \* The file of a device at the start, member or new.
  <1>MembersStart. ASSUME MembersInit PROVE MembersTypeOK /\ MembersIInv
    <2> USE <1>MembersStart
    <2> PICK s \in MemberScenarios :
            /\ budget = s
            /\ server = [grp |-> [d \in Members |-> IF d \in s.with \/ (d = "me" /\ ~s.new) THEN 1 ELSE 0],
                         inc |-> [d \in Members |-> IF d = "me" THEN 1 ELSE 2],
                         rev |-> [g \in Groups |-> IF g = 1 THEN 1 ELSE 0], fresh |-> 3, done |-> {},
                         code |-> [g \in Groups |-> [by |-> "none", inc |-> 0, used |-> 0]]]
            /\ trust = [peer |-> [p \in Peers |-> IF p \in s.with /\ ~s.new
                                      THEN [kind |-> "group", group |-> 1, inc |-> 2, here |-> 1, rev |-> 1, gen |-> 1, auto |-> FALSE]
                                      ELSE NoGrant],
                        denied |-> [p \in Peers |-> NoDenial], epoch |-> [p \in Peers |-> 0],
                        snaps |-> IF s.new THEN {} ELSE {Context(1, 1, 1)}, retired |-> {}, prov |-> [p \in Peers |-> NoOffer],
                        recov |-> "none", mode |-> "none"]
      BY DEF MembersInit
    <2>1. /\ call = Idle /\ offer = [p \in Peers |-> NoOffer] /\ removed = [p \in Peers |-> 0]
          /\ spent = [p \in Peers |-> InForce(trust, p)]
      BY DEF MembersInit
    <2> DEFINE G0 == [kind |-> "group", group |-> 1, inc |-> 2, here |-> 1, rev |-> 1, gen |-> 1, auto |-> FALSE]
    <2>2. /\ NoGrant \in Grants /\ NoDenial \in Denials /\ NoOffer \in Offers /\ G0 \in Grants
          /\ NoGrant.gen = 0 /\ NoGrant.inc = 0 /\ ~HasGroup(NoGrant) /\ NoGrant.kind = "none" /\ ~NoGrant.auto
          /\ NoDenial.gen = 0 /\ NoOffer.state = "none"
      BY DEF Grants, NoGrant, Denials, NoDenial, Offers, NoOffer, HasGroup
    <2>3. \A p \in Peers : /\ trust.peer[p] \in {G0, NoGrant} /\ trust.denied[p] = NoDenial /\ trust.epoch[p] = 0
                           /\ trust.prov[p] = NoOffer
      OBVIOUS
    <2>4. Recovering(trust) = FALSE /\ trust.retired = {} BY DEF Recovering
    <2>5. trust \in TrustFiles
      <3>1. (IF s.new THEN {} ELSE {Context(1, 1, 1)}) \subseteq [group : Nat, here : Nat, rev : Nat] BY DEF Context
      <3> HIDE DEF G0
      <3> QED BY <3>1, <2>2 DEF TrustFiles, G0
    <2>6. server \in ControlStores
      <3>1. 0 \in 0 .. MaxGroups /\ 1 \in 0 .. MaxGroups BY MembershipAssumption
      <3> QED BY <3>1 DEF ControlStores
    <2>7. Idle \in MemberCallsOK /\ Idle.kind = "idle" /\ \A q \in Peers : Idle.seen.who[q] = 0
      <3>1. 0 \in 0 .. MaxGroups BY MembershipAssumption
      <3>2. NoSnapshot \in Snapshots BY <3>1 DEF NoSnapshot, Snapshots
      <3>3. [p \in Peers |-> NoDenial] \in [Peers -> Denials] BY <2>2
      <3>4. Idle \in MemberCallsOK BY <3>1, <3>2, <3>3 DEF Idle, MemberCallsOK
      <3> QED BY <3>4 DEF Idle, NoSnapshot
    <2>8. "who" \in DOMAIN budget /\ budget.who \subseteq Peers BY MembershipAssumption DEF MemberBounds
    <2>9. offer \in [Peers -> Offers] /\ removed \in [Peers -> Nat] BY <2>1, <2>2
    <2>10. RestTypeOK BY <2>1, <2>6, <2>7, <2>8, <2>9 DEF RestTypeOK
    <2>11. ASSUME NEW p \in Peers PROVE InForce(trust, p) = trust.peer[p].gen
      BY <2>2, <2>3, <2>4, <2>11 DEF InForce, Allowed, Barred, Denied
    <2>12. \A p \in Peers : spent[p] = trust.peer[p].gen BY <2>1, <2>11
    <2>13. spent \in [Peers -> Nat]
      <3>1. \A p \in Peers : trust.peer[p].gen \in Nat BY <2>2, <2>3
      <3>2. spent = [p \in Peers |-> trust.peer[p].gen] BY <2>1, <2>11
      <3> QED BY <3>1, <3>2
    <2>14. Rows(trust, spent)
      <3>1. RowOK(G0, NoDenial, 0, NoOffer, FALSE, 1) /\ RowOK(NoGrant, NoDenial, 0, NoOffer, FALSE, 0)
        BY <2>2 DEF RowOK, Above
      <3> QED BY <3>1, <2>2, <2>3, <2>4, <2>12 DEF Rows
    <2>15. OneContext(trust)
      <3>1. \A p \in Peers : HasGroup(trust.peer[p]) => trust.peer[p] = G0 BY <2>2, <2>3
      <3> HIDE DEF G0
      <3> QED BY <3>1, <2>4 DEF OneContext
    <2>16. Incarnations
      <3>1. \A p \in Peers : server.inc[p] = 2 /\ server.fresh = 3 /\ trust.peer[p].inc \in {0, 2} /\ removed[p] = 0
                             /\ call.seen.who[p] = 0
        BY <2>1, <2>2, <2>3, <2>7, MembershipAssumption DEF Members
      <3>2. ASSUME NEW p \in Peers
            PROVE  /\ KnownInTime(trust.peer[p], removed[p], server.inc[p], call.seen.who[p], server.fresh)
                   /\ StaysOut(trust.peer[p], trust.denied[p], removed[p], server.inc[p], call.seen.who[p])
        <4>1. server.inc[p] = 2 /\ server.fresh = 3 /\ trust.peer[p].inc \in {0, 2} /\ removed[p] = 0 /\ call.seen.who[p] = 0
          BY <3>1
        <4>2. KnownInTime(trust.peer[p], removed[p], server.inc[p], call.seen.who[p], server.fresh)
          BY <4>1 DEF KnownInTime
        <4>3. StaysOut(trust.peer[p], trust.denied[p], removed[p], server.inc[p], call.seen.who[p]) BY <4>1 DEF StaysOut
        <4> QED BY <4>2, <4>3
      <3> QED BY <3>2 DEF Incarnations
    <2> QED BY <2>5, <2>10, <2>13, <2>14, <2>15, <2>16 DEF MembersTypeOK, MembersIInv
  <1>1. ASSUME MembersTypeOK, MembersIInv PROVE MembersInv
    <2>1. RemovedStaysOut
      <3>1. ASSUME NEW p \in Peers, removed[p] > 0 PROVE trust.peer[p].inc # removed[p]
        BY <1>1, <3>1 DEF MembersIInv, Incarnations, StaysOut
      <3> QED BY <3>1 DEF RemovedStaysOut
    <2>2. DeniedIsNotTrusted
      <3>1. ASSUME NEW p \in Peers, Denied(trust, p) PROVE trust.peer[p].gen = 0
        <4>1. trust.denied[p] \in Denials BY <1>1, <3>1, UnchangedFollows
        <4>2. trust.denied[p].gen \in Nat /\ trust.denied[p].gen # 0 BY <4>1, <3>1 DEF Denials, Denied
        <4> QED BY <4>2, <1>1, <3>1 DEF MembersIInv, Rows, RowOK
      <3> QED BY <3>1 DEF DeniedIsNotTrusted
    <2>3. GrantsShareContext
      <3> DEFINE of(p) == <<trust.peer[p].group, trust.peer[p].here>>
                 used == {of(p) : p \in {q \in Peers : HasGroup(trust.peer[q])}}
      <3>1. OneContext(trust) BY <1>1 DEF MembersIInv
      <3>2. used \cap trust.retired = {} BY <3>1 DEF OneContext
      <3>3. Cardinality(used) <= 1
        <4>1. CASE used = {} BY <4>1, FS_EmptySet
        <4>2. CASE used # {}
          <5>1. PICK p \in Peers : HasGroup(trust.peer[p]) BY <4>2
          <5>2. \A q \in Peers : HasGroup(trust.peer[q]) => of(q) = of(p) BY <5>1, <3>1 DEF OneContext
          <5>3. used = {of(p)} BY <5>1, <5>2
          <5> HIDE DEF used, of
          <5> QED BY <5>3, FS_Singleton
        <4> QED BY <4>1, <4>2
      <3> QED BY <3>2, <3>3 DEF GrantsShareContext
    <2> QED BY <2>1, <2>2, <2>3 DEF MembersInv
  <1>2. MembersTypeOK /\ MembersIInv => MembersInv BY <1>1
  <1>3. MembersInit => MembersTypeOK /\ MembersIInv BY <1>MembersStart
  <1>4. MembersTypeOK /\ MembersIInv /\ [MembersNext]_mbVars => MembersTypeOK' /\ MembersIInv' BY MembersKeep
  <1> QED BY <1>2, <1>3, <1>4, PTL DEF MembersSpec

(* A grant never takes over what was tied to an earlier one: a generation  *)
(* that was withdrawn does not come back, but for a pairing agreed to      *)
(* before the user lifted a denial, and what the user accepts from a       *)
(* device ends with the grant it was agreed for.                           *)
THEOREM FencesAreKept == MembersSpec => GrantsAreFenced
  <1> DEFINE F == \A p \in Peers : ComesBack(p) => LateConsent(p)
             C == \A p \in Peers : trust'.peer[p].auto => trust'.peer[p].gen = trust.peer[p].gen
  <1>1. MembersTypeOK /\ MembersIInv /\ [MembersNext]_mbVars => F /\ C BY MembersKeep
  <1> HIDE DEF F, C
  <1>2. MembersSpec => [][F]_mbVars /\ [][C]_mbVars BY <1>1, MembersHold, PTL DEF MembersSpec
  <1> QED BY <1>2 DEF F, C, GrantsAreFenced, FencesHold, ConsentIsPerGrant

(***************************************************************************)
(* Sessions: the inductive invariant                                       *)
(***************************************************************************)
SessionRecords ==
    [dialer : Devices \cup {"none"}, boot : BOOLEAN, gens : [Devices -> 0 .. MaxGeneration],
     in : {"none", "asked", "taken", "checking", "adopt", "adopted", "over"}]
PoolEntries ==
    [ses : 0 .. MaxSessions, inUse : BOOLEAN, receiving : BOOLEAN, send : BOOLEAN, recv : BOOLEAN,
     boot : BOOLEAN, timer : BOOLEAN, late : BOOLEAN]
SessionOps ==
    [pc : {"idle", "acquire", "dialing", "publish", "check", "open", "sending", "release"},
     kind : {"none", "file", "clip"}, gen : 0 .. MaxGeneration, ses : 0 .. MaxSessions, again : BOOLEAN, res : {"ok", "bad"}]

\* The shapes of what the argument looks at.
SessionsTypeOK ==
    /\ gen \in [Devices -> Generations] /\ ending \subseteq Devices
    /\ ses \in [Ids -> SessionRecords] /\ conn \in [Ids -> [Devices -> {"none", "up", "closed"}]]
    /\ pool \in [Devices -> [Generations -> PoolEntries]]
    /\ doomed \in [Devices -> SUBSET Ids] /\ served \in [Devices -> SUBSET Ids]
    /\ op \in [Devices -> SessionOps] /\ job \in [Devices -> 0 .. MaxSessions]
    /\ sent \in [Devices -> [Ids -> {"no", "file", "copy", "over"}]]
    /\ taken \in [Devices -> [Ids -> {"no", "held", "file", "copy"}]]
    /\ turned \subseteq Ids \X Ids

\* The device has put the session into its pool, or tried to: it dialled it and
\* the dial is over, or it adopted it.
Dials(d, x) == op[d].ses = x /\ op[d].pc \in {"dialing", "publish"}
Established(d, x) == IF ses[x].dialer = d THEN ~Dials(d, x) ELSE ses[x].in = "adopted"

\* Who dials has a session of its own, and no live one in its place in the pool.
OpAgrees(d) ==
    /\ op[d].pc # "idle" => op[d].gen \in Generations
    /\ op[d].pc \in {"idle", "acquire"} => op[d].ses = 0
    /\ op[d].pc \in {"dialing", "publish", "check", "open", "sending", "release"} => op[d].ses \in Ids
    /\ \A k \in Generations : op[d].pc \in {"dialing", "publish"} /\ op[d].gen = k => ~Live(d, pool[d][k].ses)

\* Who uses a session has put it into the pool, not as a bootstrap when it is for a file.
UseAgrees(d, x) ==
    /\ Dials(d, x) => ses[x].dialer = d /\ Key(d, x) = op[d].gen
    /\ op[d].pc \in {"check", "open", "sending", "release"} /\ op[d].ses = x => Established(d, x)
    /\ op[d].pc \in {"check", "open", "sending"} /\ op[d].ses = x =>
          op[d].kind = "file" /\ (Holds(d, x) => ~EntryOf(d, x).boot)
    /\ job[d] = x => Established(d, x)

\* The inbound side goes on only while the dial does, up to the handshake, which
\* is one for both ends; what it has given up is not open there.
InboundAgrees(d, x) ==
    /\ ses[x].dialer = "none" => ses[x] = NoSession
    /\ ses[x].in = "none" => ses[x].dialer = "none"
    /\ ses[x].in \in {"none", "asked", "taken"} => conn[x][d] = "none"
    /\ ses[x].in \in {"checking", "adopt", "adopted"} => conn[x][d] # "none"
    /\ ses[x].in \in {"asked", "taken"} /\ ses[x].dialer = d => op[d].pc = "dialing" /\ op[d].ses = x
    /\ ses[x].in = "asked" /\ ses[x].dialer # d => Key(d, x) = 0
    /\ ses[x].in \in {"taken", "checking", "adopt"} /\ ses[x].dialer # d => Key(d, x) \in Generations
    /\ ses[x].in = "over" /\ ses[x].dialer # d => conn[x][d] # "up"

\* An entry is under the generation of its session.
EntryAgrees(d, k) ==
    /\ pool[d][k].timer \/ pool[d][k].late \/ pool[d][k].receiving => pool[d][k].ses # 0
    /\ \A x \in Ids : pool[d][k].ses = x =>
          Key(d, x) = k /\ Established(d, x) /\ (pool[d][k].receiving => taken[d][x] # "no")

\* An open session is in the pool or is about to be closed; it carries files only
\* under the grant in force, or one whose end is not complete; and what is served
\* was adopted by its sender.
Moves(d, x) == taken[d][x] = "file" \/ (op[d].pc \in {"open", "sending"} /\ op[d].ses = x)
LinkAgrees(d, x) ==
    /\ Established(d, x) /\ Live(d, x) => Holds(d, x) \/ x \in doomed[d]
    /\ sent[d][x] # "no" => Established(d, x)
    /\ sent[d][x] = "file" => op[d].pc = "sending" /\ op[d].ses = x
    /\ taken[d][x] # "no" => Established(d, x) /\ ses[x].in = "adopted"
    /\ Moves(d, x) /\ Live(d, x) /\ x \notin doomed[d] => Current(d, x) \/ d \in ending

\* A session is turned away for good, or was replaced by a smaller one.
TurnedAgrees ==
    \A x, y \in Ids : <<x, y>> \in turned =>
        \/ ses[x].in = "over" /\ (y < x \/ ses[y].in = "adopted")
        \/ ses[y].in = "adopted" /\ y < x

SessionsIInv ==
    /\ \A d \in Devices : OpAgrees(d)
    /\ \A d \in Devices, k \in Generations : EntryAgrees(d, k)
    /\ \A d \in Devices, x \in Ids : UseAgrees(d, x) /\ InboundAgrees(d, x) /\ LinkAgrees(d, x)
    /\ TurnedAgrees

-----------------------------------------------------------------------------
(* Sessions: what a step does *)

\* An entry of the pool with the same session, or none instead of one that is
\* about to be closed.
EntryGoes(d, k) ==
    LET e == pool[d][k]  f == pool'[d][k] IN
    \/ f = e
    \/ /\ f.ses = e.ses /\ e.ses # 0 /\ (f.boot => e.boot)
       /\ f.receiving => e.receiving \/ taken'[d][e.ses] # "no"
    \/ /\ f = NoEntry /\ (e.ses # 0 => e.ses \in doomed'[d] \/ conn'[e.ses][d] # "up")
       /\ \/ (~e.inUse /\ ~e.receiving) \/ ~Live(d, e.ses) \/ d \in ending \/ closing[d] # "no"
          \/ (op[d].pc = "release" /\ op[d].ses = e.ses) \/ (job[d] = e.ses /\ job'[d] = 0)

\* A task or a clipboard dial that is not dialling.
OpGoes(d) ==
    \/ op'[d] = op[d]
    \/ /\ op[d].pc \notin {"dialing", "publish"} /\ op'[d].pc \notin {"dialing", "publish"}
       /\ op'[d].pc # "idle" => op'[d].gen \in Generations
       /\ op'[d].pc \in {"idle", "acquire"} => op'[d].ses = 0
       /\ op'[d].pc \in {"check", "open", "sending", "release"} => op'[d].ses \in Ids
       /\ \A x \in Ids : op'[d].ses = x =>
             /\ op'[d].pc \in {"check", "open", "sending", "release"} => Established(d, x)
             /\ op'[d].pc \in {"check", "open", "sending"} =>
                   op'[d].kind = "file" /\ \A k \in Generations : pool'[d][k].ses = x => ~pool'[d][k].boot
             /\ op'[d].pc \in {"open", "sending"} =>
                   (op[d].pc \in {"open", "sending"} /\ op[d].ses = x) \/ Current(d, x)

\* A connection is closed, a stream opened, served or ended.
LinkGoes(d, x) ==
    /\ conn'[x][d] = conn[x][d] \/ (conn[x][d] = "up" /\ conn'[x][d] = "closed")
    /\ x \in doomed[d] => x \in doomed'[d] \/ conn'[x][d] # "up"
    /\ \/ sent'[d][x] = sent[d][x] /\ (op'[d] = op[d] \/ op[d].pc # "sending")
       \/ sent'[d][x] = "no" \/ (sent'[d][x] = "over" /\ sent[d][x] # "no")
       \/ Established(d, x) /\ (sent'[d][x] = "file" => op'[d].pc = "sending" /\ op'[d].ses = x)
    /\ \/ taken'[d][x] = taken[d][x]
       \/ taken'[d][x] = "no" /\ \A k \in Generations : pool'[d][k].ses = x => ~pool'[d][k].receiving
       \/ taken'[d][x] # "no" /\ Established(d, x) /\ ses[x].in = "adopted" /\ (taken'[d][x] = "file" => Current(d, x))

\* Grants end, and the sessions under them with them.
GrantGoes(d) ==
    \/ d \in ending'
    \/ gen'[d] = gen[d] /\ (d \in ending => \A k \in Generations : pool'[d][k].ses = 0)

\* What a step may take out of the pool.
ReservedKept ==
    \A d \in Devices, x \in Ids :
        Reserved(d, x) /\ Live(d, x) /\ ~Holds(d, x)' =>
            \/ d \in ending \/ closing[d] # "no"
            \/ op[d].pc = "release" /\ op[d].ses = x
            \/ EntryOf(d, x).boot /\ ~EntryOf(d, x).receiving /\ ~(op[d].kind = "file" /\ op[d].ses = x)
            \/ job[d] = x /\ job'[d] = 0
SessionsFollow == SessionsTypeOK' /\ SessionsIInv' /\ ReservedKept

-----------------------------------------------------------------------------
(* Sessions: whatever happens *)

\* A step keeps the invariant, and takes no reserved session out of the pool but
\* as it may.
LEMMA SessionsKeep == ASSUME SessionsTypeOK, SessionsIInv, [SessionsNext]_sessionVars PROVE SessionsFollow
  \* There is one other device.
  <1>OtherDevice. ASSUME NEW d \in Devices
                                       PROVE  /\ Other(d) \in Devices /\ Other(d) # d /\ Other(Other(d)) = d
                                              /\ \A e \in Devices : e = d \/ e = Other(d)
    <2> USE <1>OtherDevice
    <2>1. PICK p, q \in Devices : p # q /\ Devices = {p, q} BY SessionsAssumption
    <2>2. ASSUME NEW e \in Devices PROVE Other(e) \in Devices /\ Other(e) # e
      <3>1. \E f \in Devices : f # e BY <2>1
      <3> QED BY <3>1 DEF Other
    <2>3. Other(d) \in Devices /\ Other(d) # d BY <2>2
    <2>4. Other(Other(d)) \in Devices /\ Other(Other(d)) # Other(d) BY <2>2, <2>3
    <2> QED BY <2>1, <2>3, <2>4
  \* What the helpers on entries return.
  <1>EntryShapes.
      ASSUME NEW e \in PoolEntries
      PROVE  /\ \A f \in {Scheduled(e), Busy(e)} :
                  f \in PoolEntries /\ f.ses = e.ses /\ f.boot = e.boot /\ f.receiving = e.receiving
             /\ \A way \in {"send", "recv"}, on \in BOOLEAN : LET f == Ready(e, way, on) IN
                  f \in PoolEntries /\ f.ses = e.ses /\ (f.boot => e.boot) /\ f.receiving = e.receiving
    <2> USE <1>EntryShapes
    <2>1. Scheduled(e) \in PoolEntries /\ Busy(e) \in PoolEntries BY DEF Scheduled, Busy, Unused, PoolEntries
    <2>2. /\ Scheduled(e).ses = e.ses /\ Scheduled(e).boot = e.boot /\ Scheduled(e).receiving = e.receiving
          /\ Busy(e).ses = e.ses /\ Busy(e).boot = e.boot /\ Busy(e).receiving = e.receiving
      BY DEF Scheduled, Busy, PoolEntries
    <2>3. ASSUME NEW f \in PoolEntries
          PROVE  Scheduled(f) \in PoolEntries /\ Scheduled(f).ses = f.ses /\ Scheduled(f).boot = f.boot
                 /\ Scheduled(f).receiving = f.receiving
      <3>1. Scheduled(f) \in PoolEntries BY DEF Scheduled, Unused, PoolEntries
      <3> QED BY <3>1 DEF Scheduled, PoolEntries
    <2>4. ASSUME NEW way \in {"send", "recv"}, NEW on \in BOOLEAN
          PROVE  LET f == Ready(e, way, on) IN
                 f \in PoolEntries /\ f.ses = e.ses /\ (f.boot => e.boot) /\ f.receiving = e.receiving
      <3> DEFINE f == [e EXCEPT ![way] = on]
                 b == e.boot /\ ~(f.send /\ f.recv)
                 g == [f EXCEPT !.boot = @ /\ ~(f.send /\ f.recv)]
      <3>1. f \in PoolEntries /\ f.ses = e.ses /\ f.boot = e.boot /\ f.receiving = e.receiving
        <4>1. CASE way = "send" BY <2>4, <4>1 DEF PoolEntries
        <4>2. CASE way = "recv" BY <2>4, <4>2 DEF PoolEntries
        <4> QED BY <4>1, <4>2, <2>4
      <3>2. CASE on = FALSE BY <2>3, <3>1, <3>2 DEF Ready
      <3>3. CASE on = TRUE
        <4>1. Ready(e, way, on) = Busy(g) BY <3>3 DEF Ready
        <4> HIDE DEF f
        <4>2. g \in PoolEntries /\ g.ses = f.ses /\ (g.boot => f.boot) /\ g.receiving = f.receiving
          BY <3>1 DEF PoolEntries
        <4> HIDE DEF g
        <4>3. Busy(g) \in PoolEntries /\ Busy(g).ses = g.ses /\ Busy(g).boot = g.boot /\ Busy(g).receiving = g.receiving
          BY <4>2 DEF Busy, PoolEntries
        <4> QED BY <4>1, <4>2, <4>3, <3>1
      <3> QED BY <3>2, <3>3, <2>4
    <2> QED BY <2>1, <2>2, <2>4
  \* A step that puts no session into a pool keeps the invariant.
  <1>KeepMost.
      ASSUME SessionsTypeOK, SessionsTypeOK', SessionsIInv,
             \A d \in Devices, x \in Ids : (Established(d, x)' <=> Established(d, x)) /\ Key(d, x)' = Key(d, x),
             \A x \in Ids : ses'[x].dialer = ses[x].dialer /\ (ses[x].in = "adopted" => ses'[x].in = "adopted"),
             \A d \in Devices, x \in Ids : InboundAgrees(d, x)', TurnedAgrees',
             \A d \in Devices : OpGoes(d) /\ GrantGoes(d),
             \A d \in Devices : job'[d] \in {0, job[d]} \/ \A x \in Ids : job'[d] = x => Established(d, x),
             \A d \in Devices, k \in Generations : EntryGoes(d, k),
             \A d \in Devices, x \in Ids : LinkGoes(d, x)
      PROVE  SessionsIInv' /\ ReservedKept
    <2> USE <1>KeepMost
    <2>1. ASSUME NEW d \in Devices, NEW x \in Ids
          PROVE  /\ Established(d, x) <=> Established(d, x)'
                 /\ Dials(d, x) <=> Dials(d, x)'
                 /\ Live(d, x)' => Live(d, x)
                 /\ Key(d, x)' = Key(d, x)
      <3>1. Dials(d, x) <=> Dials(d, x)'
        <4>1. OpGoes(d) OBVIOUS
        <4> QED BY <4>1 DEF OpGoes, Dials
      <3>2. LinkGoes(d, x) OBVIOUS
      <3> QED BY <3>1, <3>2 DEF LinkGoes, Live
    <2>2. ASSUME NEW d \in Devices, NEW k \in Generations
          PROVE  /\ pool'[d][k].ses \in {0, pool[d][k].ses}
                 /\ pool'[d][k].ses # 0 => pool[d][k].ses # 0 /\ (pool'[d][k].boot => pool[d][k].boot)
                 /\ pool[d][k].ses \in 0 .. MaxSessions
                 /\ pool'[d][k].ses # pool[d][k].ses => pool[d][k].ses \in doomed'[d] \/ conn'[pool[d][k].ses][d] # "up"
      <3>1. EntryGoes(d, k) OBVIOUS
      <3>2. pool[d][k] \in PoolEntries BY DEF SessionsTypeOK
      <3> QED BY <3>1, <3>2 DEF EntryGoes, NoEntry, PoolEntries
    <2>3. ASSUME NEW d \in Devices, NEW x \in Ids
          PROVE  /\ Holds(d, x) /\ ~Holds(d, x)' => x \in doomed'[d] \/ conn'[x][d] # "up"
                 /\ Holds(d, x)' => Holds(d, x) /\ (EntryOf(d, x)'.boot => EntryOf(d, x).boot)
      <3>1. Key(d, x)' = Key(d, x) BY <2>1
      <3>2. x # 0 BY DEF Ids
      <3>3. CASE Key(d, x) \in Generations
        <4>1. PICK k \in Generations : k = ses[x].gens[d] BY <3>3 DEF Key
        <4>2. EntryOf(d, x)' = pool'[d][k] /\ EntryOf(d, x) = pool[d][k] /\ Key(d, x) = k BY <4>1 DEF EntryOf, Key
        <4> QED BY <4>2, <3>1, <3>2, <2>2 DEF Holds
      <3> QED BY <3>1, <3>3 DEF Holds
    <2>4. ASSUME NEW d \in Devices PROVE OpAgrees(d)'
      <3>1. OpAgrees(d) /\ OpGoes(d) BY DEF SessionsIInv
      <3>2. CASE op'[d] = op[d]
        <4>1. ASSUME NEW k \in Generations, op[d].pc \in {"dialing", "publish"}, op[d].gen = k, pool'[d][k].ses # 0
              PROVE  conn'[pool'[d][k].ses][d] # "up"
          <5>1. pool'[d][k].ses = pool[d][k].ses /\ pool[d][k].ses \in Ids BY <4>1, <2>2 DEF Ids
          <5>2. conn[pool[d][k].ses][d] # "up" BY <3>1, <4>1, <5>1 DEF OpAgrees, Live
          <5>3. LinkGoes(d, pool[d][k].ses) BY <5>1
          <5> QED BY <5>1, <5>2, <5>3 DEF LinkGoes
        <4> QED BY <3>1, <3>2, <4>1 DEF OpAgrees, Live
      <3> QED BY <3>1, <3>2 DEF OpAgrees, OpGoes
    <2>5. ASSUME NEW d \in Devices, NEW k \in Generations PROVE EntryAgrees(d, k)'
      <3>1. EntryAgrees(d, k) /\ EntryGoes(d, k) BY DEF SessionsIInv
      <3>2. pool[d][k] \in PoolEntries /\ pool'[d][k] \in PoolEntries BY DEF SessionsTypeOK
      <3>3. pool'[d][k].timer \/ pool'[d][k].late \/ pool'[d][k].receiving => pool'[d][k].ses # 0
        BY <3>1, <3>2 DEF EntryAgrees, EntryGoes, NoEntry
      <3>4. ASSUME NEW x \in Ids, pool'[d][k].ses = x
            PROVE  Key(d, x)' = k /\ Established(d, x)' /\ (pool'[d][k].receiving => taken'[d][x] # "no")
        <4>1. x # 0 BY DEF Ids
        <4>2. pool[d][k].ses = x BY <2>2, <3>4, <4>1
        <4>3. Key(d, x) = k /\ Established(d, x) /\ (pool[d][k].receiving => taken[d][x] # "no") BY <3>1, <4>2 DEF EntryAgrees
        <4>4. pool'[d][k].receiving => pool[d][k].receiving \/ taken'[d][x] # "no"
          BY <3>1, <3>4, <4>1, <4>2 DEF EntryGoes, NoEntry
        <4>5. LinkGoes(d, x) OBVIOUS
        <4>6. pool'[d][k].receiving => taken'[d][x] # "no" BY <4>3, <4>4, <4>5, <3>4 DEF LinkGoes
        <4> QED BY <4>3, <4>6, <2>1
      <3> QED BY <3>3, <3>4 DEF EntryAgrees
    <2>6. ASSUME NEW d \in Devices, NEW x \in Ids PROVE UseAgrees(d, x)'
      <3>1. UseAgrees(d, x) /\ OpGoes(d) BY DEF SessionsIInv
      <3>2. job'[d] = x => Established(d, x)'
        <4>1. x # 0 BY DEF Ids
        <4> QED BY <4>1, <3>1, <2>1 DEF UseAgrees
      <3>3. CASE op'[d] = op[d] BY <3>1, <3>2, <3>3, <2>1, <2>3 DEF UseAgrees
      <3>4. CASE op'[d] # op[d]
        <4>1. op'[d].pc \in {"check", "open", "sending"} /\ op'[d].ses = x =>
                  op'[d].kind = "file" /\ (Holds(d, x)' => ~EntryOf(d, x)'.boot)
          BY <3>1, <3>4 DEF OpGoes, Holds, EntryOf
        <4>2. op'[d].pc \in {"check", "open", "sending", "release"} /\ op'[d].ses = x => Established(d, x)'
          BY <3>1, <3>4, <2>1 DEF OpGoes
        <4>3. ~Dials(d, x)' BY <3>1, <3>4 DEF OpGoes, Dials
        <4> QED BY <3>2, <4>1, <4>2, <4>3 DEF UseAgrees
      <3> QED BY <3>3, <3>4
    <2>8. ASSUME NEW d \in Devices, NEW x \in Ids PROVE LinkAgrees(d, x)'
      <3>1. LinkAgrees(d, x) /\ OpGoes(d) /\ LinkGoes(d, x) /\ GrantGoes(d) BY DEF SessionsIInv
      <3>2. Established(d, x)' /\ Live(d, x)' => Holds(d, x)' \/ x \in doomed'[d]
        <4>1. Established(d, x)' /\ Live(d, x)' => Holds(d, x) \/ x \in doomed[d] BY <3>1, <2>1 DEF LinkAgrees
        <4> QED BY <4>1, <3>1, <2>3 DEF LinkGoes, Live
      <3>3. sent'[d][x] # "no" => Established(d, x)' BY <3>1, <2>1 DEF LinkAgrees, LinkGoes
      <3>4. sent'[d][x] = "file" => op'[d].pc = "sending" /\ op'[d].ses = x BY <3>1 DEF LinkAgrees, LinkGoes
      <3>5. taken'[d][x] # "no" => Established(d, x)' /\ ses'[x].in = "adopted" BY <3>1, <2>1 DEF LinkAgrees, LinkGoes
      <3>6. ASSUME Moves(d, x)', Live(d, x)', x \notin doomed'[d], d \notin ending' PROVE Current(d, x)'
        <4>1. x \notin doomed[d] /\ Live(d, x) BY <3>6, <3>1, <2>1 DEF LinkGoes, Live
        <4>2. Moves(d, x) \/ Current(d, x) BY <3>6, <3>1 DEF Moves, OpGoes, LinkGoes
        <4>3. Established(d, x)'
          <5>1. UseAgrees(d, x)' BY <2>6
          <5> QED BY <5>1, <3>5, <3>6 DEF Moves, UseAgrees
        <4>4. Holds(d, x)' BY <4>3, <3>2, <3>6
        <4>5. x # 0 BY DEF Ids
        <4>6. gen'[d] = gen[d] /\ d \notin ending BY <3>1, <3>6, <4>4, <4>5 DEF GrantGoes, Holds, EntryOf
        <4>7. Current(d, x) BY <4>1, <4>2, <4>6, <3>1 DEF LinkAgrees
        <4> QED BY <4>6, <4>7, <2>1 DEF Current
      <3> QED BY <3>2, <3>3, <3>4, <3>5, <3>6 DEF LinkAgrees
    <2>10. ASSUME NEW d \in Devices, NEW x \in Ids, Reserved(d, x), Live(d, x), ~Holds(d, x)'
           PROVE  \/ d \in ending \/ closing[d] # "no" \/ (op[d].pc = "release" /\ op[d].ses = x) \/ (job[d] = x /\ job'[d] = 0)
      <3>1. PICK k \in Generations : k = Key(d, x) BY <2>10 DEF Reserved, Holds
      <3>2. pool[d][k].ses = x /\ (pool[d][k].inUse \/ pool[d][k].receiving) /\ pool'[d][k].ses # x
        BY <3>1, <2>10, <2>1 DEF Reserved, Holds, EntryOf
      <3>3. EntryGoes(d, k) OBVIOUS
      <3> QED BY <3>2, <3>3, <2>10 DEF EntryGoes
    <2> QED BY <2>4, <2>5, <2>6, <2>8, <2>10 DEF SessionsIInv, ReservedKept
  \* A step that neither dials nor adopts.
  <1>KeepStep.
      ASSUME SessionsTypeOK, SessionsTypeOK', SessionsIInv, ses' = ses, turned' = turned,
             \A d \in Devices : OpGoes(d) /\ GrantGoes(d),
             \A d \in Devices : job'[d] \in {0, job[d]} \/ \A x \in Ids : job'[d] = x => Established(d, x),
             \A d \in Devices, k \in Generations : EntryGoes(d, k),
             \A d \in Devices, x \in Ids : LinkGoes(d, x)
      PROVE  SessionsIInv' /\ ReservedKept
    <2> USE <1>KeepStep
    <2>1. ASSUME NEW d \in Devices, NEW x \in Ids
          PROVE  /\ Established(d, x)' <=> Established(d, x)
                 /\ Dials(d, x)' <=> Dials(d, x)
                 /\ Key(d, x)' = Key(d, x)
      <3>1. Dials(d, x)' <=> Dials(d, x)
        <4>1. OpGoes(d) OBVIOUS
        <4> QED BY <4>1 DEF OpGoes, Dials
      <3> QED BY <3>1 DEF Established, Key
    <2>2. ASSUME NEW d \in Devices, NEW x \in Ids PROVE InboundAgrees(d, x)'
      <3>1. InboundAgrees(d, x) /\ OpGoes(d) /\ LinkGoes(d, x) BY DEF SessionsIInv
      <3>2. op[d].pc = "dialing" => op'[d] = op[d] BY <3>1 DEF OpGoes
      <3> QED BY <3>1, <3>2, <2>1 DEF InboundAgrees, LinkGoes
    <2>3. TurnedAgrees' BY DEF SessionsIInv, TurnedAgrees
    <2> QED BY <2>1, <2>2, <2>3, <1>KeepMost
  <1> DEFINE Pools == [Devices -> [Generations -> PoolEntries]]
  <1> HIDE DEF Pools
  <1>1. ASSUME NEW d \in Devices, NEW k \in Generations, NEW f \in PoolEntries, pool[d][k].ses # 0, f.ses = pool[d][k].ses,
               f.boot => pool[d][k].boot,
               f.receiving => pool[d][k].receiving \/ taken'[d][f.ses] # "no",
               pool' = [pool EXCEPT ![d][k] = f]
        PROVE  pool' \in Pools /\ \A e \in Devices, l \in Generations : EntryGoes(e, l)
    <2>1. pool \in Pools BY DEF SessionsTypeOK, Pools
    <2>2. pool' \in Pools /\ pool'[d][k] = f BY <1>1, <2>1 DEF Pools
    <2>3. ASSUME NEW e \in Devices, NEW l \in Generations, e # d \/ l # k PROVE pool'[e][l] = pool[e][l]
      BY <1>1, <2>1, <2>3 DEF Pools
    <2> QED BY <1>1, <2>2, <2>3 DEF EntryGoes
  <1>2. ASSUME NEW d \in Devices, NEW k \in Generations,
               pool[d][k].ses # 0 => pool[d][k].ses \in doomed'[d] \/ conn'[pool[d][k].ses][d] # "up",
               \/ (~pool[d][k].inUse /\ ~pool[d][k].receiving) \/ ~Live(d, pool[d][k].ses)
               \/ d \in ending \/ closing[d] # "no"
               \/ (op[d].pc = "release" /\ op[d].ses = pool[d][k].ses) \/ (job[d] = pool[d][k].ses /\ job'[d] = 0),
               pool' = [pool EXCEPT ![d][k] = NoEntry]
        PROVE  pool' \in Pools /\ \A e \in Devices, l \in Generations : EntryGoes(e, l)
    <2>1. pool \in Pools /\ NoEntry \in PoolEntries BY SessionsAssumption DEF SessionsTypeOK, Pools, NoEntry, PoolEntries
    <2>2. pool' \in Pools /\ pool'[d][k] = NoEntry BY <1>2, <2>1 DEF Pools
    <2>3. ASSUME NEW e \in Devices, NEW l \in Generations, e # d \/ l # k PROVE pool'[e][l] = pool[e][l]
      BY <1>2, <2>1, <2>3 DEF Pools
    <2> QED BY <1>2, <2>2, <2>3 DEF EntryGoes
  <1>3. ASSUME UNCHANGED <<gen, ending, ses, conn, op, job, sent, taken, turned>>, served' \in [Devices -> SUBSET Ids],
               doomed' \in [Devices -> SUBSET Ids], \A d \in Devices : doomed[d] \subseteq doomed'[d],
               pool' \in Pools, \A d \in Devices, k \in Generations : EntryGoes(d, k)
        PROVE  SessionsFollow
    <2>1. SessionsTypeOK' BY <1>3 DEF SessionsTypeOK, Pools
    <2>2. \A d \in Devices : OpGoes(d) /\ GrantGoes(d) /\ job'[d] \in {0, job[d]} BY <1>3 DEF OpGoes, GrantGoes
    <2>3. \A d \in Devices, x \in Ids : LinkGoes(d, x) BY <1>3 DEF LinkGoes
    <2> QED BY <2>1, <2>2, <2>3, <1>3, <1>KeepStep DEF SessionsFollow
  <1>4. pool \in Pools /\ pool' = pool => \A d \in Devices, k \in Generations : EntryGoes(d, k) BY DEF EntryGoes
  <1>5. ASSUME NEW d \in Devices, NEW x \in Ids, Holds(d, x)
        PROVE  /\ Key(d, x) \in Generations /\ EntryOf(d, x) = pool[d][Key(d, x)] /\ EntryOf(d, x) \in PoolEntries
               /\ EntryOf(d, x).ses = x /\ x # 0
               /\ \A f : Put(d, x, f) = [pool EXCEPT ![d][Key(d, x)] = f]
    BY <1>5 DEF Holds, EntryOf, SessionsTypeOK, Ids, Put
  <1>6. pool \in Pools /\ served \in [Devices -> SUBSET Ids] /\ doomed \in [Devices -> SUBSET Ids] BY DEF SessionsTypeOK, Pools
  \* Leases and timers.
  <1>7. ASSUME NEW d \in Devices, NEW x \in Ids, SendLease(d, x) \/ StopLease(d, x) \/ TakeLease(d, x) \/ LeaseLapses(d, x)
        PROVE  SessionsFollow
    <2>1. PICK way \in {"send", "recv"}, on \in BOOLEAN :
             pool' = pool \/ (Holds(d, x) /\ pool' = Put(d, x, Ready(EntryOf(d, x), way, on)))
      BY <1>7 DEF SendLease, StopLease, TakeLease, LeaseLapses
    <2>2. UNCHANGED <<gen, ending, ses, conn, doomed, op, job, sent, taken, turned, served>>
      BY <1>7 DEF SendLease, StopLease, TakeLease, LeaseLapses, grants, links, users
    <2>3. CASE pool' = pool BY <2>2, <2>3, <1>3, <1>4, <1>6
    <2>4. CASE Holds(d, x) /\ pool' = Put(d, x, Ready(EntryOf(d, x), way, on))
      <3>1. PICK f : f = Ready(EntryOf(d, x), way, on) OBVIOUS
      <3>2. PICK k \in Generations : k = Key(d, x) BY <2>4, <1>5
      <3>3. /\ pool[d][k] \in PoolEntries /\ pool[d][k].ses # 0 /\ pool' = [pool EXCEPT ![d][k] = f]
            /\ EntryOf(d, x) = pool[d][k]
        BY <2>4, <3>1, <3>2, <1>5
      <3>4. f \in PoolEntries /\ f.ses = pool[d][k].ses /\ (f.boot => pool[d][k].boot) /\ f.receiving = pool[d][k].receiving
        BY <3>1, <3>3, <2>1, <1>EntryShapes
      <3>5. pool' \in Pools /\ \A e \in Devices, l \in Generations : EntryGoes(e, l) BY <3>3, <3>4, <1>1
      <3> QED BY <3>5, <2>2, <1>3, <1>6
    <2> QED BY <2>1, <2>3, <2>4
  <1>8. ASSUME NEW d \in Devices, Pause(d) PROVE SessionsFollow
    <2>1. UNCHANGED <<gen, ending, ses, conn, doomed, op, job, sent, taken, turned, served>> BY <1>8 DEF Pause, links, users
    <2>2. PICK g : g = [k \in Generations |-> IF pool[d][k].ses = 0 THEN pool[d][k]
                        ELSE Scheduled([pool[d][k] EXCEPT !.send = FALSE, !.recv = FALSE])] OBVIOUS
    <2>3. pool' = [pool EXCEPT ![d] = g] BY <2>2, <1>8 DEF Pause
    <2>4. ASSUME NEW k \in Generations
          PROVE  g[k] \in PoolEntries /\ (g[k] = pool[d][k] \/ (pool[d][k].ses # 0 /\ g[k].ses = pool[d][k].ses
                 /\ g[k].boot = pool[d][k].boot /\ g[k].receiving = pool[d][k].receiving))
      <3>1. pool[d][k] \in PoolEntries BY <1>6 DEF Pools
      <3>2. CASE pool[d][k].ses = 0 BY <3>1, <3>2, <2>2
      <3>3. CASE pool[d][k].ses # 0
        <4>1. PICK f : f = [pool[d][k] EXCEPT !.send = FALSE, !.recv = FALSE] OBVIOUS
        <4>2. f \in PoolEntries /\ f.ses = pool[d][k].ses /\ f.boot = pool[d][k].boot /\ f.receiving = pool[d][k].receiving
          BY <4>1, <3>1 DEF PoolEntries
        <4>3. g[k] = Scheduled(f) BY <4>1, <3>3, <2>2
        <4> QED BY <4>2, <4>3, <3>3, <1>EntryShapes
      <3> QED BY <3>2, <3>3
    <2>5. g \in [Generations -> PoolEntries] BY <2>2, <2>4
    <2>6. pool' \in Pools /\ pool'[d] = g /\ \A e \in Devices : e # d => pool'[e] = pool[e] BY <2>3, <2>5, <1>6 DEF Pools
    <2>7. ASSUME NEW e \in Devices, NEW k \in Generations PROVE EntryGoes(e, k) BY <2>4, <2>6 DEF EntryGoes
    <2> QED BY <2>1, <2>6, <2>7, <1>3, <1>6
  <1>9. ASSUME NEW d \in Devices, NEW k \in Generations, TimerFires(d, k) PROVE SessionsFollow
    <2>1. PICK f : f = [pool[d][k] EXCEPT !.late = TRUE] OBVIOUS
    <2>2. pool[d][k] \in PoolEntries /\ pool' = [pool EXCEPT ![d][k] = f] /\ pool[d][k].ses # 0
      BY <2>1, <1>9 DEF TimerFires, SessionsTypeOK, SessionsIInv, EntryAgrees
    <2>3. f \in PoolEntries /\ f.ses = pool[d][k].ses /\ f.boot = pool[d][k].boot /\ f.receiving = pool[d][k].receiving
      BY <2>1, <2>2 DEF PoolEntries
    <2>4. pool' \in Pools /\ \A e \in Devices, l \in Generations : EntryGoes(e, l) BY <2>2, <2>3, <1>1
    <2> QED BY <2>4, <1>9, <1>3, <1>6 DEF TimerFires, grants, links, users
  <1>10. ASSUME NEW d \in Devices, NEW x \in Ids, ServeEnds(d, x) PROVE SessionsFollow
    <2>1. served' \in [Devices -> SUBSET Ids] BY <1>10, <1>6 DEF ServeEnds
    <2> QED BY <2>1, <1>10, <1>3, <1>4, <1>6 DEF ServeEnds, grants, links, users
  <1>11. ASSUME NEW d \in Devices, Shutdown(d) \/ ShutdownEnds(d) PROVE SessionsFollow
    BY <1>11, <1>3, <1>4, <1>6 DEF Shutdown, ShutdownEnds, links, users
  \* What takes a session out of the pool.
  <1>12. ASSUME NEW d \in Devices, NEW x \in Ids, doomed' = [doomed EXCEPT ![d] = @ \cup {x}]
         PROVE  doomed' \in [Devices -> SUBSET Ids] /\ x \in doomed'[d] /\ \A e \in Devices : doomed[e] \subseteq doomed'[e]
    BY <1>12, <1>6
  <1>13. ASSUME NEW d \in Devices, NEW k \in Generations, IdleCallback(d, k) \/ Prune(d, k) PROVE SessionsFollow
    <2>1. UNCHANGED <<gen, ending, ses, conn, op, job, sent, taken, turned, served>>
      BY <1>13 DEF IdleCallback, Prune, grants, links, users
    <2>2. pool[d][k] \in PoolEntries /\ pool[d][k].ses # 0 BY <1>13 DEF IdleCallback, Prune, SessionsTypeOK, SessionsIInv, EntryAgrees
    <2>3. PICK x \in Ids : x = pool[d][k].ses BY <2>2 DEF PoolEntries, Ids
    <2>4. CASE pool' = [pool EXCEPT ![d][k] = NoEntry] /\ doomed' = [doomed EXCEPT ![d] = @ \cup {x}]
               /\ ~pool[d][k].inUse /\ ~pool[d][k].receiving
      <3>1. doomed' \in [Devices -> SUBSET Ids] /\ x \in doomed'[d] /\ \A e \in Devices : doomed[e] \subseteq doomed'[e]
        BY <2>4, <1>12
      <3>2. pool' \in Pools /\ \A e \in Devices, l \in Generations : EntryGoes(e, l) BY <3>1, <2>3, <2>4, <1>2
      <3> QED BY <3>1, <3>2, <2>1, <1>3, <1>6
    <2>5. CASE pool' = [pool EXCEPT ![d][k].timer = FALSE, ![d][k].late = FALSE] /\ UNCHANGED doomed
      <3>1. PICK f : f = [pool[d][k] EXCEPT !.timer = FALSE, !.late = FALSE] OBVIOUS
      <3>2. f \in PoolEntries /\ f.ses = pool[d][k].ses /\ f.boot = pool[d][k].boot /\ f.receiving = pool[d][k].receiving
        BY <3>1, <2>2 DEF PoolEntries
      <3>3. pool' = [pool EXCEPT ![d][k] = f] BY <3>1, <2>5, <1>6 DEF Pools
      <3>4. pool' \in Pools /\ \A e \in Devices, l \in Generations : EntryGoes(e, l) BY <2>2, <3>2, <3>3, <1>1
      <3> QED BY <3>4, <2>1, <2>5, <1>3, <1>6
    <2> QED BY <2>3, <2>4, <2>5, <1>13 DEF IdleCallback, Prune, Unused
  <1>14. ASSUME NEW d \in Devices, NEW x \in Ids, conn' = Closed(d, x)
         PROVE  /\ conn' \in [Ids -> [Devices -> {"none", "up", "closed"}]] /\ conn'[x][d] # "up"
                /\ \A e \in Devices, y \in Ids :
                      /\ conn'[y][e] = conn[y][e] \/ (conn[y][e] = "up" /\ conn'[y][e] = "closed")
                      /\ e # d \/ y # x => conn'[y][e] = conn[y][e]
    <2>1. conn \in [Ids -> [Devices -> {"none", "up", "closed"}]] BY DEF SessionsTypeOK
    <2>2. PICK c \in {"none", "up", "closed"} : c = IF conn[x][d] = "up" THEN "closed" ELSE conn[x][d] BY <2>1
    <2>3. conn' = [conn EXCEPT ![x][d] = c] BY <1>14, <2>2 DEF Closed
    <2>4. c # "up" /\ (c = conn[x][d] \/ (conn[x][d] = "up" /\ c = "closed")) BY <2>2
    <2>5. conn' \in [Ids -> [Devices -> {"none", "up", "closed"}]] /\ conn'[x][d] = c BY <2>1, <2>3
    <2>6. \A e \in Devices, y \in Ids : e # d \/ y # x => conn'[y][e] = conn[y][e] BY <2>1, <2>3
    <2> QED BY <2>4, <2>5, <2>6
  <1>15. ASSUME NEW d \in Devices, NEW x \in Ids, CloseDoomed(d, x) \/ SeeClosed(d, x) \/ PathChanges(d, x) PROVE SessionsFollow
    <2>1. conn' = Closed(d, x) /\ UNCHANGED <<gen, ending, ses, pool, served, op, job, sent, taken, turned>>
      BY <1>15 DEF CloseDoomed, SeeClosed, PathChanges, grants, users
    <2>2. /\ conn' \in [Ids -> [Devices -> {"none", "up", "closed"}]] /\ conn'[x][d] # "up"
          /\ \A e \in Devices, y \in Ids : conn'[y][e] = conn[y][e] \/ (conn[y][e] = "up" /\ conn'[y][e] = "closed")
      BY <2>1, <1>14
    <2>3. doomed' = doomed \/ doomed' = [doomed EXCEPT ![d] = @ \ {x}] BY <1>15 DEF CloseDoomed, SeeClosed, PathChanges
    <2>4. doomed' \in [Devices -> SUBSET Ids] /\ \A e \in Devices, y \in Ids : y \in doomed[e] => y \in doomed'[e] \/ (e = d /\ y = x)
      BY <2>3, <1>6
    <2>5. SessionsTypeOK' BY <2>1, <2>2, <2>4 DEF SessionsTypeOK
    <2>6. \A e \in Devices : OpGoes(e) /\ GrantGoes(e) /\ job'[e] \in {0, job[e]} BY <2>1 DEF OpGoes, GrantGoes
    <2>7. \A e \in Devices, y \in Ids : LinkGoes(e, y) BY <2>1, <2>2, <2>4 DEF LinkGoes
    <2>8. \A e \in Devices, k \in Generations : EntryGoes(e, k) BY <2>1 DEF EntryGoes
    <2> QED BY <2>1, <2>5, <2>6, <2>7, <2>8, <1>KeepStep DEF SessionsFollow
  <1>16. ASSUME NEW d \in Devices, Withdraw(d) PROVE SessionsFollow
    <2>1. UNCHANGED <<ses, conn, pool, doomed, served, op, job, sent, taken, turned>> BY <1>16 DEF Withdraw, links, users
    <2>2. gen' \in [Devices -> Generations] /\ ending' \subseteq Devices /\ d \in ending'
          /\ \A e \in Devices : e # d => gen'[e] = gen[e] /\ (e \in ending => e \in ending')
      <3>1. gen[d] \in Nat /\ gen[d] + 1 \in Generations BY <1>16, SessionsAssumption DEF Withdraw, SessionsTypeOK, Generations
      <3> QED BY <3>1, <1>16 DEF Withdraw, SessionsTypeOK
    <2>3. SessionsTypeOK' BY <2>1, <2>2 DEF SessionsTypeOK
    <2>4. \A e \in Devices : OpGoes(e) /\ GrantGoes(e) /\ job'[e] \in {0, job[e]}
      <3>1. \A e \in Devices : e \in ending => e \in ending' BY <1>16 DEF Withdraw
      <3>2. \A e \in Devices : e # d /\ e \notin ending => e \notin ending' BY <1>16 DEF Withdraw
      <3> QED BY <2>1, <2>2, <3>1, <3>2 DEF OpGoes, GrantGoes
    <2>5. \A e \in Devices, y \in Ids : LinkGoes(e, y) BY <2>1 DEF LinkGoes
    <2>6. \A e \in Devices, k \in Generations : EntryGoes(e, k) BY <2>1 DEF EntryGoes
    <2> QED BY <2>1, <2>3, <2>4, <2>5, <2>6, <1>KeepStep DEF SessionsFollow
  <1>17. ASSUME NEW d \in Devices, ClosePool(d) PROVE SessionsFollow
    <2>1. UNCHANGED <<gen, ses, conn, served, op, job, sent, taken, turned>> BY <1>17 DEF ClosePool, links, users
    <2>2. PICK g : g = [k \in Generations |-> NoEntry] OBVIOUS
    <2>3. g \in [Generations -> PoolEntries] /\ \A k \in Generations : g[k] = NoEntry
      BY <2>2, SessionsAssumption DEF NoEntry, PoolEntries
    <2>4. pool' = [pool EXCEPT ![d] = g] BY <2>2, <1>17 DEF ClosePool
    <2>5. pool' \in Pools /\ \A k \in Generations : pool'[d][k] = NoEntry BY <2>3, <2>4, <1>6 DEF Pools
    <2>6. \A e \in Devices : e # d => pool'[e] = pool[e] BY <2>4, <1>6 DEF Pools
    <2>7. doomed' \in [Devices -> SUBSET Ids] /\ (\A e \in Devices : doomed[e] \subseteq doomed'[e])
          /\ \A k \in Generations : pool[d][k].ses # 0 => pool[d][k].ses \in doomed'[d]
      <3>1. PICK z : z = {pool[d][k].ses : k \in Generations} \ {0} OBVIOUS
      <3>2. \A k \in Generations : pool[d][k].ses \in 0 .. MaxSessions BY <1>6 DEF Pools, PoolEntries
      <3>3. z \subseteq Ids BY <3>1, <3>2, SessionsAssumption DEF Ids
      <3>4. doomed' = [doomed EXCEPT ![d] = @ \cup z] BY <3>1, <1>17 DEF ClosePool
      <3>5. doomed' \in [Devices -> SUBSET Ids] /\ doomed'[d] = doomed[d] \cup z /\ \A e \in Devices : doomed[e] \subseteq doomed'[e]
        BY <3>3, <3>4, <1>6
      <3> QED BY <3>1, <3>5
    <2>8. ending' \subseteq Devices /\ (d \in ending \/ closing[d] # "no") /\ \A e \in Devices : e # d => (e \in ending <=> e \in ending')
      BY <1>17 DEF ClosePool, SessionsTypeOK
    <2>9. SessionsTypeOK' BY <2>1, <2>5, <2>7, <2>8 DEF SessionsTypeOK, Pools
    <2>10. \A e \in Devices : OpGoes(e) /\ GrantGoes(e) /\ job'[e] \in {0, job[e]}
      <3>1. GrantGoes(d) BY <2>1, <2>5 DEF GrantGoes, NoEntry
      <3>2. \A e \in Devices : e # d => GrantGoes(e) BY <2>1, <2>8 DEF GrantGoes
      <3> QED BY <2>1, <3>1, <3>2 DEF OpGoes
    <2>11. \A e \in Devices, y \in Ids : LinkGoes(e, y) BY <2>1, <2>7 DEF LinkGoes
    <2>12. ASSUME NEW e \in Devices, NEW k \in Generations PROVE EntryGoes(e, k)
      <3>1. CASE e # d BY <3>1, <2>6 DEF EntryGoes
      <3>2. CASE e = d BY <3>2, <2>5, <2>7, <2>8 DEF EntryGoes
      <3> QED BY <3>1, <3>2
    <2> QED BY <2>1, <2>9, <2>10, <2>11, <2>12, <1>KeepStep DEF SessionsFollow
  \* Tasks and clipboard dials that are not dialling, and clipboard jobs.
  <1>18. ASSUME UNCHANGED <<gen, ending, ses, conn, turned>>, pool' \in Pools, served' \in [Devices -> SUBSET Ids],
                doomed' \in [Devices -> SUBSET Ids], \A d \in Devices : doomed[d] \subseteq doomed'[d],
                \A d \in Devices, k \in Generations : EntryGoes(d, k),
                op' \in [Devices -> SessionOps], \A d \in Devices : OpGoes(d), job' \in [Devices -> 0 .. MaxSessions],
                \A d \in Devices : job'[d] \in {0, job[d]} \/ \A x \in Ids : job'[d] = x => Established(d, x),
                sent' \in [Devices -> [Ids -> {"no", "file", "copy", "over"}]],
                taken' \in [Devices -> [Ids -> {"no", "held", "file", "copy"}]],
                \A d \in Devices, x \in Ids : LinkGoes(d, x)
         PROVE  SessionsFollow
    <2>1. SessionsTypeOK' BY <1>18 DEF SessionsTypeOK, Pools
    <2>2. \A d \in Devices : GrantGoes(d) BY <1>18 DEF GrantGoes
    <2> QED BY <2>1, <2>2, <1>18, <1>KeepStep DEF SessionsFollow
  <1>19. ASSUME NEW d \in Devices, NEW o \in SessionOps, op' = [op EXCEPT ![d] = o]
         PROVE  op' \in [Devices -> SessionOps] /\ op'[d] = o /\ \A e \in Devices : e # d => op'[e] = op[e] /\ OpGoes(e)
    BY <1>19 DEF SessionsTypeOK, OpGoes
  <1>20. /\ op \in [Devices -> SessionOps] /\ job \in [Devices -> 0 .. MaxSessions]
         /\ sent \in [Devices -> [Ids -> {"no", "file", "copy", "over"}]]
         /\ taken \in [Devices -> [Ids -> {"no", "held", "file", "copy"}]]
    BY DEF SessionsTypeOK
  \* A step of the task or the clipboard dial, before or after it sends.
  <1>21. ASSUME NEW d \in Devices, NEW o \in SessionOps, op' = [op EXCEPT ![d] = o], op[d].pc # "sending", OpGoes(d),
                UNCHANGED <<gen, ending, ses, conn, served, turned, job, sent, taken>>, pool' \in Pools,
                doomed' \in [Devices -> SUBSET Ids], \A e \in Devices : doomed[e] \subseteq doomed'[e],
                \A e \in Devices, k \in Generations : EntryGoes(e, k)
         PROVE  SessionsFollow
    <2>1. op' \in [Devices -> SessionOps] /\ (\A e \in Devices : OpGoes(e)) /\ \A e \in Devices : e # d => op'[e] = op[e]
      BY <1>21, <1>19
    <2>2. \A e \in Devices, x \in Ids : LinkGoes(e, x) BY <2>1, <1>21 DEF LinkGoes
    <2> QED BY <2>1, <2>2, <1>6, <1>18, <1>20, <1>21
  <1>22. NoOp \in SessionOps /\ NoOp.pc = "idle" /\ NoOp.ses = 0 BY SessionsAssumption DEF NoOp, SessionOps
  <1>23. ASSUME NEW d \in Devices, StartFile(d) \/ StartClipboardDial(d) PROVE SessionsFollow
    <2>1. PICK o : o = op'[d] OBVIOUS
    <2>2. gen[d] \in Generations /\ gen[d] \in 0 .. MaxGeneration BY SessionsAssumption DEF SessionsTypeOK, Generations
    <2>3. /\ o \in SessionOps /\ op' = [op EXCEPT ![d] = o] /\ op[d].pc = "idle" /\ o.pc = "acquire" /\ o.gen = gen[d] /\ o.ses = 0
      <3>1. CASE StartFile(d)
        <4>1. PICK r : r = [NoOp EXCEPT !.pc = "acquire", !.kind = "file", !.gen = gen[d], !.again = TRUE] OBVIOUS
        <4>2. r = [pc |-> "acquire", kind |-> "file", gen |-> gen[d], ses |-> 0, again |-> TRUE, res |-> "ok"]
          BY <4>1 DEF NoOp
        <4>3. r \in SessionOps /\ r.pc = "acquire" /\ r.gen = gen[d] /\ r.ses = 0 BY <4>2, <2>2, SessionsAssumption DEF SessionOps
        <4>4. op' = [op EXCEPT ![d] = r] /\ op[d].pc = "idle" BY <3>1, <4>1 DEF StartFile
        <4>5. o = r BY <2>1, <4>4, <1>20
        <4> QED BY <4>3, <4>4, <4>5
      <3>2. CASE StartClipboardDial(d)
        <4>1. PICK r : r = [NoOp EXCEPT !.pc = "acquire", !.kind = "clip", !.gen = gen[d]] OBVIOUS
        <4>2. r = [pc |-> "acquire", kind |-> "clip", gen |-> gen[d], ses |-> 0, again |-> FALSE, res |-> "ok"]
          BY <4>1 DEF NoOp
        <4>3. r \in SessionOps /\ r.pc = "acquire" /\ r.gen = gen[d] /\ r.ses = 0 BY <4>2, <2>2, SessionsAssumption DEF SessionOps
        <4>4. op' = [op EXCEPT ![d] = r] /\ op[d].pc = "idle" BY <3>2, <4>1 DEF StartClipboardDial
        <4>5. o = r BY <2>1, <4>4, <1>20
        <4> QED BY <4>3, <4>4, <4>5
      <3> QED BY <3>1, <3>2, <1>23
    <2>4. UNCHANGED <<gen, ending, ses, conn, doomed, served, pool, turned, job, sent, taken>>
      BY <1>23 DEF StartFile, StartClipboardDial, grants, links
    <2>5. OpGoes(d) BY <2>1, <2>2, <2>3 DEF OpGoes
    <2> QED BY <2>3, <2>4, <2>5, <1>4, <1>6, <1>21
  <1>24. ASSUME NEW d \in Devices, op[d].pc = "acquire", CannotAcquire(d),
                UNCHANGED <<gen, ending, conn, doomed, served, job, sent, taken, turned>>
         PROVE  SessionsFollow
    <2>1. op' = [op EXCEPT ![d] = NoOp] /\ UNCHANGED <<ses, pool>> BY <1>24 DEF CannotAcquire
    <2>2. op'[d].pc = "idle" /\ op'[d].ses = 0 BY <2>1, <1>19, <1>22
    <2>3. OpGoes(d) BY <2>2, <1>24 DEF OpGoes
    <2> QED BY <2>1, <2>3, <1>24, <1>4, <1>6, <1>21, <1>22
  <1>25. ASSUME NEW d \in Devices, op[d].pc = "acquire", Reuse(d),
                UNCHANGED <<gen, ending, conn, doomed, served, job, sent, taken, turned>>
         PROVE  SessionsFollow
    <2>1. OpAgrees(d) BY DEF SessionsIInv
    <2>2. PICK k \in Generations : k = op[d].gen BY <2>1, <1>25 DEF OpAgrees
    <2>3. PICK e \in PoolEntries : e = pool[d][k] BY <1>6 DEF Pools
    <2>4. Live(d, e.ses) /\ ~e.inUse /\ ses' = ses BY <1>25, <2>2, <2>3 DEF Reuse
    <2>5. PICK x \in Ids : x = e.ses BY <2>4 DEF Live, PoolEntries, Ids
    <2>6. PICK g : g = [e EXCEPT !.inUse = TRUE, !.boot = @ /\ op[d].kind = "clip"] OBVIOUS
    <2>7. g \in PoolEntries /\ g.ses = e.ses /\ g.receiving = e.receiving /\ (g.boot => e.boot /\ op[d].kind = "clip")
      BY <2>6 DEF PoolEntries
    <2>8. PICK f : f = Busy(g) OBVIOUS
    <2>9. f \in PoolEntries /\ f.ses = e.ses /\ f.receiving = e.receiving /\ (f.boot => e.boot /\ op[d].kind = "clip")
      BY <2>7, <2>8, <1>EntryShapes
    <2>10. pool' = [pool EXCEPT ![d][k] = f]
      <3>1. pool' = [pool EXCEPT ![d][k] = Busy([pool[d][k] EXCEPT !.inUse = TRUE, !.boot = @ /\ op[d].kind = "clip"])]
        BY <1>25, <2>2 DEF Reuse
      <3> QED BY <3>1, <2>3, <2>6, <2>8
    <2>11. pool' \in Pools /\ \A c \in Devices, l \in Generations : EntryGoes(c, l)
      <3>1. pool[d][k].ses # 0 /\ f.ses = pool[d][k].ses /\ (f.boot => pool[d][k].boot) /\ (f.receiving => pool[d][k].receiving)
        BY <2>3, <2>5, <2>9 DEF Ids
      <3>2. f \in PoolEntries BY <2>9
      <3> QED BY <1>1, <3>1, <3>2, <2>10
    <2>12. PICK o : o = op'[d] OBVIOUS
    <2>13. /\ o \in SessionOps /\ op' = [op EXCEPT ![d] = o] /\ o.ses = x /\ o.kind = op[d].kind /\ o.gen = op[d].gen
           /\ o.pc \in {"check", "release"} /\ (o.pc = "check" => op[d].kind = "file")
      <3>1. PICK q \in SessionOps : q = op[d] BY <1>20
      <3>2. PICK b \in BOOLEAN : b = (q.gen = gen[d]) OBVIOUS
      <3>3. PICK p \in {"check", "release"} : p = IF b /\ q.kind = "file" THEN "check" ELSE "release" OBVIOUS
      <3>4. PICK r \in {"ok", "bad"} : r = IF b THEN "ok" ELSE "bad" OBVIOUS
      <3>5. PICK v : v = [q EXCEPT !.ses = x, !.res = r, !.pc = p] OBVIOUS
      <3>6. v \in SessionOps /\ v.ses = x /\ v.kind = q.kind /\ v.gen = q.gen /\ v.pc = p
        <4>1. x \in 0 .. MaxSessions BY <2>5 DEF Ids
        <4> QED BY <4>1, <3>5 DEF SessionOps
      <3>7. op' = [op EXCEPT ![d].ses = x, ![d].res = r, ![d].pc = p]
        BY <1>25, <2>2, <2>3, <2>5, <3>1, <3>2, <3>3, <3>4 DEF Reuse
      <3>8. op' = [op EXCEPT ![d] = v] BY <3>1, <3>5, <3>7, <1>20
      <3>9. o = v BY <3>8, <2>12, <1>20
      <3> QED BY <3>1, <3>3, <3>6, <3>8, <3>9
    <2>14. OpGoes(d)
      <3>1. op'[d] = o BY <2>12
      <3>2. Established(d, x) /\ Key(d, x) = k BY <2>3, <2>5 DEF SessionsIInv, EntryAgrees
      <3>3. ASSUME NEW l \in Generations, pool'[d][l].ses = x, o.pc = "check" PROVE ~pool'[d][l].boot
        <4>1. EntryGoes(d, l) /\ EntryAgrees(d, l) BY <2>11 DEF SessionsIInv
        <4>2. pool[d][l].ses = x BY <4>1, <3>3 DEF EntryGoes, NoEntry, Ids
        <4>3. l = k BY <4>1, <4>2, <3>2 DEF EntryAgrees
        <4>4. pool'[d][k] = f BY <2>9, <2>10, <1>6 DEF Pools
        <4> QED BY <4>3, <4>4, <3>3, <2>9, <2>13
      <3> QED BY <3>1, <3>2, <3>3, <2>2, <2>13, <1>25 DEF OpGoes
    <2> QED BY <2>4, <2>11, <2>13, <2>14, <1>6, <1>21, <1>25
  <1>26. ASSUME NEW d \in Devices, Check(d) PROVE SessionsFollow
    <2>1. PICK q \in SessionOps : q = op[d] BY <1>20
    <2>2. q.pc = "check" /\ UNCHANGED <<gen, ending, ses, conn, pool, doomed, served, job, sent, taken, turned>>
      BY <1>26, <2>1 DEF Check, grants, links
    <2>3. OpAgrees(d) /\ \A x \in Ids : UseAgrees(d, x) BY DEF SessionsIInv
    <2>4. PICK x \in Ids : x = q.ses BY <2>1, <2>2, <2>3 DEF OpAgrees
    <2>5. PICK b \in BOOLEAN : b = Current(d, x) BY DEF Current
    <2>6. PICK p \in {"open", "release"} : p = IF b THEN "open" ELSE "release" OBVIOUS
    <2>7. PICK r \in {"ok", "bad"} : r = IF b THEN "ok" ELSE "bad" OBVIOUS
    <2>8. PICK o : o = [q EXCEPT !.pc = p, !.res = r] OBVIOUS
    <2>9. o \in SessionOps /\ o.ses = x /\ o.kind = q.kind /\ o.gen = q.gen /\ o.pc = p BY <2>4, <2>8 DEF SessionOps
    <2>10. op' = [op EXCEPT ![d].pc = p, ![d].res = r] BY <1>26, <2>1, <2>4, <2>5, <2>6, <2>7 DEF Check
    <2>11. op' = [op EXCEPT ![d] = o] BY <2>1, <2>8, <2>10, <1>20
    <2>12. op'[d] = o BY <2>9, <2>11, <1>19
    <2>13. OpGoes(d)
      <3>1. Established(d, x) /\ q.kind = "file" /\ (Holds(d, x) => ~EntryOf(d, x).boot) /\ q.gen \in Generations
        BY <2>1, <2>2, <2>3, <2>4 DEF UseAgrees, OpAgrees
      <3>2. ASSUME NEW l \in Generations, pool'[d][l].ses = x PROVE ~pool'[d][l].boot
        BY <3>1, <3>2, <2>2 DEF SessionsIInv, EntryAgrees, Holds, EntryOf
      <3>3. p = "open" => Current(d, x) BY <2>5, <2>6
      <3> QED BY <3>1, <3>2, <3>3, <2>1, <2>2, <2>6, <2>9, <2>12 DEF OpGoes
    <2> QED BY <2>1, <2>2, <2>9, <2>11, <2>13, <1>4, <1>6, <1>21
  \* What takes the entry of a session that is used no more out of the pool.
  <1>27. ASSUME NEW d \in Devices, NEW x \in Ids, pool' = EntryDropped(d, x), doomed' = [doomed EXCEPT ![d] = @ \cup {x}],
                ~Live(d, x) \/ (op[d].pc = "release" /\ op[d].ses = x) \/ (job[d] = x /\ job'[d] = 0)
         PROVE  /\ pool' \in Pools /\ doomed' \in [Devices -> SUBSET Ids] /\ \A e \in Devices : doomed[e] \subseteq doomed'[e]
                /\ \A e \in Devices, k \in Generations : EntryGoes(e, k)
    <2>1. doomed' \in [Devices -> SUBSET Ids] /\ x \in doomed'[d] /\ \A e \in Devices : doomed[e] \subseteq doomed'[e] BY <1>27, <1>12
    <2>2. CASE ~Holds(d, x) BY <2>1, <2>2, <1>27, <1>4, <1>6 DEF EntryDropped
    <2>3. CASE Holds(d, x)
      <3>1. PICK k \in Generations : k = Key(d, x) BY <2>3, <1>5
      <3>2. pool[d][k].ses = x /\ pool' = [pool EXCEPT ![d][k] = NoEntry] BY <2>3, <3>1, <1>5, <1>27 DEF EntryDropped
      <3>3. pool' \in Pools /\ \A e \in Devices, l \in Generations : EntryGoes(e, l) BY <3>2, <2>1, <1>2, <1>27
      <3> QED BY <2>1, <3>3
    <2> QED BY <2>2, <2>3
  <1>28. ASSUME NEW d \in Devices, NEW x \in Ids, NEW r \in BOOLEAN, Let(d, x, r),
                (op[d].pc = "release" /\ op[d].ses = x) \/ (job[d] = x /\ job'[d] = 0)
         PROVE  /\ pool' \in Pools /\ doomed' \in [Devices -> SUBSET Ids] /\ \A e \in Devices : doomed[e] \subseteq doomed'[e]
                /\ \A e \in Devices, k \in Generations : EntryGoes(e, k)
    <2>1. CASE ~r \/ ~Live(d, x) BY <2>1, <1>27, <1>28 DEF Let
    <2>2. CASE r /\ Live(d, x) /\ ~Holds(d, x)
      <3>1. doomed' = [doomed EXCEPT ![d] = @ \cup {x}] /\ pool' = pool BY <2>2, <1>28 DEF Let
      <3> QED BY <3>1, <1>4, <1>6, <1>12
    <2>3. CASE r /\ Live(d, x) /\ Holds(d, x)
      <3>1. doomed' = doomed /\ pool' = Put(d, x, Scheduled([EntryOf(d, x) EXCEPT !.inUse = FALSE])) BY <2>3, <1>28 DEF Let
      <3>2. PICK k \in Generations : k = Key(d, x) BY <2>3, <1>5
      <3>3. PICK e \in PoolEntries : e = pool[d][k] BY <1>6 DEF Pools
      <3>4. EntryOf(d, x) = e /\ e.ses = x /\ x # 0 BY <3>2, <3>3, <2>3, <1>5
      <3>5. PICK g : g = [e EXCEPT !.inUse = FALSE] OBVIOUS
      <3>6. g \in PoolEntries /\ g.ses = e.ses /\ g.receiving = e.receiving /\ g.boot = e.boot BY <3>5 DEF PoolEntries
      <3>7. PICK f : f = Scheduled(g) OBVIOUS
      <3>8. f \in PoolEntries /\ f.ses = e.ses /\ f.receiving = e.receiving /\ f.boot = e.boot BY <3>6, <3>7, <1>EntryShapes
      <3>9. pool' = [pool EXCEPT ![d][k] = f]
        <4>1. pool' = Put(d, x, f) BY <3>1, <3>4, <3>5, <3>7
        <4> QED BY <4>1, <3>2 DEF Put
      <3>10. pool[d][k].ses # 0 /\ f.ses = pool[d][k].ses /\ (f.boot => pool[d][k].boot) /\ (f.receiving => pool[d][k].receiving)
        BY <3>3, <3>4, <3>8
      <3>11. pool' \in Pools /\ \A c \in Devices, l \in Generations : EntryGoes(c, l) BY <3>8, <3>9, <3>10, <1>1
      <3> QED BY <3>1, <3>11, <1>6
    <2> QED BY <2>1, <2>2, <2>3
  <1>29. ASSUME NEW d \in Devices, Release(d) PROVE SessionsFollow
    <2>1. op[d].pc = "release" /\ op' = [op EXCEPT ![d] = NoOp]
          /\ UNCHANGED <<gen, ending, ses, conn, served, job, sent, taken, turned>>
      BY <1>29 DEF Release, grants, links
    <2>2. PICK x \in Ids : x = op[d].ses BY <2>1 DEF SessionsIInv, OpAgrees
    <2>3. PICK r \in BOOLEAN : r = (op[d].res = "ok") OBVIOUS
    <2>4. Let(d, x, r) BY <2>2, <2>3, <1>29 DEF Release
    <2>5. /\ pool' \in Pools /\ doomed' \in [Devices -> SUBSET Ids] /\ \A e \in Devices : doomed[e] \subseteq doomed'[e]
          /\ \A e \in Devices, k \in Generations : EntryGoes(e, k)
      BY <2>1, <2>2, <2>4, <1>28
    <2>6. OpGoes(d) BY <2>1, <1>19, <1>22 DEF OpGoes
    <2> QED BY <2>1, <2>5, <2>6, <1>21, <1>22
  <1>30. ASSUME NEW d \in Devices, Open(d) PROVE SessionsFollow
    <2>1. PICK q \in SessionOps : q = op[d] BY <1>20
    <2>2. q.pc = "open" /\ UNCHANGED <<gen, ending, ses, conn, served, job, taken, turned>>
      BY <1>30, <2>1 DEF Open, grants, links
    <2>3. OpAgrees(d) /\ \A x \in Ids : UseAgrees(d, x) BY DEF SessionsIInv
    <2>4. PICK x \in Ids : x = q.ses BY <2>1, <2>2, <2>3 DEF OpAgrees
    <2>5. Established(d, x) /\ q.kind = "file" /\ (Holds(d, x) => ~EntryOf(d, x).boot) /\ q.gen \in Generations
      BY <2>1, <2>2, <2>3, <2>4 DEF UseAgrees, OpAgrees
    <2>6. \A l \in Generations : pool[d][l].ses = x => ~pool[d][l].boot
      BY <2>5 DEF SessionsIInv, EntryAgrees, Holds, EntryOf
    <2>7. CASE Live(d, x)
      <3>1. /\ sent' = [sent EXCEPT ![d][x] = "file"] /\ op' = [op EXCEPT ![d].pc = "sending"] /\ UNCHANGED <<pool, doomed>>
        BY <2>1, <2>4, <2>7, <1>30 DEF Open
      <3>2. PICK o : o = [q EXCEPT !.pc = "sending"] OBVIOUS
      <3>3. o \in SessionOps /\ o.ses = x /\ o.kind = "file" /\ o.gen = q.gen /\ o.pc = "sending" BY <2>4, <2>5, <3>2 DEF SessionOps
      <3>4. op' = [op EXCEPT ![d] = o] BY <2>1, <3>1, <3>2, <1>20
      <3>5. op' \in [Devices -> SessionOps] /\ op'[d] = o /\ \A e \in Devices : e # d => op'[e] = op[e] /\ OpGoes(e)
        BY <3>3, <3>4, <1>19
      <3>6. OpGoes(d) BY <2>1, <2>2, <2>4, <2>5, <2>6, <3>1, <3>3, <3>5 DEF OpGoes
      <3>7. sent' \in [Devices -> [Ids -> {"no", "file", "copy", "over"}]] /\ sent'[d][x] = "file"
            /\ \A e \in Devices, y \in Ids : e # d \/ y # x => sent'[e][y] = sent[e][y]
        BY <3>1, <1>20
      <3>8. ASSUME NEW e \in Devices, NEW y \in Ids PROVE LinkGoes(e, y)
        <4>1. \/ sent'[e][y] = sent[e][y] /\ (op'[e] = op[e] \/ op[e].pc # "sending")
              \/ Established(e, y) /\ op'[e].pc = "sending" /\ op'[e].ses = y
          BY <2>1, <2>2, <2>5, <3>3, <3>5, <3>7
        <4> QED BY <4>1, <2>2, <3>1 DEF LinkGoes
      <3> QED BY <2>2, <3>1, <3>5, <3>6, <3>7, <3>8, <1>4, <1>6, <1>18, <1>20
    <2>8. CASE ~Live(d, x) /\ q.again
      <3>1. /\ op' = [op EXCEPT ![d].pc = "acquire", ![d].again = FALSE, ![d].ses = 0] /\ sent' = sent
            /\ pool' = EntryDropped(d, x) /\ doomed' = [doomed EXCEPT ![d] = @ \cup {x}]
        BY <2>1, <2>4, <2>8, <1>30 DEF Open
      <3>2. PICK o : o = [q EXCEPT !.pc = "acquire", !.again = FALSE, !.ses = 0] OBVIOUS
      <3>3. o \in SessionOps /\ o.gen = q.gen /\ o.pc = "acquire" /\ o.ses = 0
        <4>1. 0 \in 0 .. MaxSessions BY SessionsAssumption
        <4> QED BY <4>1, <3>2 DEF SessionOps
      <3>4. op' = [op EXCEPT ![d] = o] BY <2>1, <3>1, <3>2, <1>20
      <3>5. op'[d] = o BY <3>3, <3>4, <1>19
      <3>6. OpGoes(d) BY <2>1, <2>2, <2>5, <3>3, <3>5 DEF OpGoes
      <3>7. /\ pool' \in Pools /\ doomed' \in [Devices -> SUBSET Ids] /\ \A e \in Devices : doomed[e] \subseteq doomed'[e]
            /\ \A e \in Devices, k \in Generations : EntryGoes(e, k)
        BY <2>8, <3>1, <1>27
      <3> QED BY <2>1, <2>2, <3>1, <3>3, <3>4, <3>6, <3>7, <1>21
    <2>9. CASE ~Live(d, x) /\ ~q.again
      <3>1. op' = [op EXCEPT ![d].pc = "release", ![d].res = "bad"] /\ UNCHANGED <<pool, doomed, sent>>
        BY <2>1, <2>4, <2>9, <1>30 DEF Open
      <3>2. PICK o : o = [q EXCEPT !.pc = "release", !.res = "bad"] OBVIOUS
      <3>3. o \in SessionOps /\ o.ses = x /\ o.gen = q.gen /\ o.pc = "release" BY <2>4, <3>2 DEF SessionOps
      <3>4. op' = [op EXCEPT ![d] = o] BY <2>1, <3>1, <3>2, <1>20
      <3>5. op'[d] = o BY <3>3, <3>4, <1>19
      <3>6. OpGoes(d) BY <2>1, <2>2, <2>5, <3>3, <3>5 DEF OpGoes
      <3> QED BY <2>1, <2>2, <3>1, <3>3, <3>4, <3>6, <1>4, <1>6, <1>21
    <2> QED BY <2>7, <2>8, <2>9
  <1>31. ASSUME NEW d \in Devices, SendEnds(d) PROVE SessionsFollow
    <2>1. PICK q \in SessionOps : q = op[d] BY <1>20
    <2>2. q.pc = "sending" /\ UNCHANGED <<gen, ending, ses, conn, pool, doomed, served, job, taken, turned>>
      BY <1>31, <2>1 DEF SendEnds, grants, links
    <2>3. OpAgrees(d) /\ \A y \in Ids : UseAgrees(d, y) BY DEF SessionsIInv
    <2>4. PICK x \in Ids : x = q.ses BY <2>1, <2>2, <2>3 DEF OpAgrees
    <2>5. PICK r \in {"ok", "bad"} : op' = [op EXCEPT ![d].pc = "release", ![d].res = r] BY <1>31 DEF SendEnds
    <2>6. PICK o : o = [q EXCEPT !.pc = "release", !.res = r] OBVIOUS
    <2>7. o \in SessionOps /\ o.ses = x /\ o.gen = q.gen /\ o.pc = "release" BY <2>4, <2>6 DEF SessionOps
    <2>8. op' = [op EXCEPT ![d] = o] BY <2>1, <2>5, <2>6, <1>20
    <2>9. op' \in [Devices -> SessionOps] /\ op'[d] = o /\ \A e \in Devices : e # d => op'[e] = op[e] /\ OpGoes(e)
      BY <2>7, <2>8, <1>19
    <2>10. Established(d, x) /\ q.gen \in Generations BY <2>1, <2>2, <2>3, <2>4 DEF UseAgrees, OpAgrees
    <2>11. OpGoes(d) BY <2>1, <2>2, <2>7, <2>9, <2>10 DEF OpGoes
    <2>12. sent' \in [Devices -> [Ids -> {"no", "file", "copy", "over"}]] /\ sent'[d][x] = "no"
           /\ \A e \in Devices, y \in Ids : e # d \/ y # x => sent'[e][y] = sent[e][y]
      <3>1. sent' = [sent EXCEPT ![d][x] = "no"] BY <2>1, <2>4, <1>31 DEF SendEnds
      <3> QED BY <3>1, <1>20
    <2>13. ASSUME NEW e \in Devices, NEW y \in Ids PROVE LinkGoes(e, y)
      <3>1. CASE e = d /\ y # x
        <4>1. sent[d][y] # "file" BY <2>1, <2>4, <3>1 DEF SessionsIInv, LinkAgrees
        <4>2. sent'[d][y] = sent[d][y] /\ (sent[d][y] # "no" => Established(d, y)) BY <2>12, <3>1 DEF SessionsIInv, LinkAgrees
        <4> QED BY <4>1, <4>2, <3>1, <2>2 DEF LinkGoes
      <3>2. CASE ~(e = d /\ y # x) BY <3>2, <2>2, <2>9, <2>12 DEF LinkGoes
      <3> QED BY <3>1, <3>2
    <2> QED BY <2>2, <2>9, <2>11, <2>12, <2>13, <1>4, <1>6, <1>18, <1>20
  \* A clipboard job and the streams: nobody's task moves.
  <1>32. (\A d \in Devices : op'[d] = op[d]) => \A d \in Devices : OpGoes(d) BY DEF OpGoes
  <1>33. ASSUME NEW d \in Devices, StartJob(d) PROVE SessionsFollow
    <2>1. UNCHANGED <<gen, ending, ses, conn, doomed, served, op, taken, turned>> BY <1>33 DEF StartJob, grants, links
    <2>2. PICK k \in Generations : k = gen[d] BY DEF SessionsTypeOK
    <2>3. PICK e \in PoolEntries : e = pool[d][k] BY <1>6 DEF Pools
    <2>4. Live(d, e.ses) BY <1>33, <2>2, <2>3 DEF StartJob
    <2>5. PICK x \in Ids : x = e.ses BY <2>4 DEF Live, PoolEntries, Ids
    <2>6. Key(d, x) = k /\ Established(d, x) /\ x # 0 BY <2>3, <2>5 DEF SessionsIInv, EntryAgrees, Ids
    <2>7. EntryOf(d, x) = e BY <2>3, <2>6 DEF EntryOf
    <2>8. /\ pool' = Put(d, x, Busy([EntryOf(d, x) EXCEPT !.inUse = TRUE]))
          /\ job' = [job EXCEPT ![d] = x] /\ sent' = [sent EXCEPT ![d][x] = "copy"]
      BY <1>33, <2>2, <2>3, <2>5 DEF StartJob
    <2>9. PICK g : g = [e EXCEPT !.inUse = TRUE] OBVIOUS
    <2>10. g \in PoolEntries /\ g.ses = e.ses /\ g.receiving = e.receiving /\ g.boot = e.boot BY <2>9 DEF PoolEntries
    <2>11. PICK f : f = Busy(g) OBVIOUS
    <2>12. f \in PoolEntries /\ f.ses = e.ses /\ f.receiving = e.receiving /\ f.boot = e.boot BY <2>10, <2>11, <1>EntryShapes
    <2>13. pool' = [pool EXCEPT ![d][k] = f]
      <3>1. pool' = Put(d, x, f) BY <2>7, <2>8, <2>9, <2>11
      <3> QED BY <3>1, <2>6 DEF Put
    <2>14. pool' \in Pools /\ \A c \in Devices, l \in Generations : EntryGoes(c, l)
      <3>1. pool[d][k].ses # 0 /\ f.ses = pool[d][k].ses /\ (f.boot => pool[d][k].boot) /\ (f.receiving => pool[d][k].receiving)
        BY <2>3, <2>5, <2>6, <2>12
      <3> QED BY <3>1, <2>12, <2>13, <1>1
    <2>15. job' \in [Devices -> 0 .. MaxSessions]
           /\ \A c \in Devices : job'[c] \in {0, job[c]} \/ \A y \in Ids : job'[c] = y => Established(c, y)
      BY <2>6, <2>8, <1>20 DEF Ids
    <2>16. sent' \in [Devices -> [Ids -> {"no", "file", "copy", "over"}]] /\ sent'[d][x] = "copy"
           /\ \A c \in Devices, y \in Ids : c # d \/ y # x => sent'[c][y] = sent[c][y]
      BY <2>8, <1>20
    <2>17. \A c \in Devices, y \in Ids : LinkGoes(c, y) BY <2>1, <2>6, <2>16 DEF LinkGoes
    <2> QED BY <2>1, <2>14, <2>15, <2>16, <2>17, <1>6, <1>18, <1>20, <1>32
  <1>34. ASSUME NEW d \in Devices, EndJob(d) PROVE SessionsFollow
    <2>1. UNCHANGED <<gen, ending, ses, conn, served, op, taken, turned>> BY <1>34 DEF EndJob, grants, links
    <2>2. PICK x \in Ids : x = job[d] BY <1>34, <1>20 DEF EndJob, Ids
    <2>3. Let(d, x, TRUE) /\ job' = [job EXCEPT ![d] = 0] /\ sent' = [sent EXCEPT ![d][x] = "no"] BY <1>34, <2>2 DEF EndJob
    <2>4. job'[d] = 0 BY <2>3, <1>20
    <2>5. /\ pool' \in Pools /\ doomed' \in [Devices -> SUBSET Ids] /\ \A e \in Devices : doomed[e] \subseteq doomed'[e]
          /\ \A e \in Devices, k \in Generations : EntryGoes(e, k)
      BY <2>2, <2>3, <2>4, <1>28
    <2>6. job' \in [Devices -> 0 .. MaxSessions] /\ \A e \in Devices : job'[e] \in {0, job[e]}
      BY <2>3, <1>20, SessionsAssumption
    <2>7. sent' \in [Devices -> [Ids -> {"no", "file", "copy", "over"}]]
          /\ \A e \in Devices, y \in Ids : sent'[e][y] = "no" \/ sent'[e][y] = sent[e][y]
      BY <2>3, <1>20
    <2>8. ASSUME NEW e \in Devices, NEW y \in Ids PROVE LinkGoes(e, y) BY <2>1, <2>5, <2>7 DEF LinkGoes
    <2> QED BY <2>1, <2>5, <2>6, <2>7, <2>8, <1>6, <1>18, <1>20, <1>32
  <1>35. ASSUME NEW d \in Devices, NEW x \in Ids, TakeStream(d, x) PROVE SessionsFollow
    <2>1. UNCHANGED <<gen, ending, ses, conn, doomed, op, job, turned>> BY <1>35 DEF TakeStream, grants, links
    <2>2. PICK e \in Devices : e = Other(d) /\ e # d BY <1>OtherDevice
    <2>3. sent[e][x] # "no" BY <1>35, <2>2 DEF TakeStream
    <2>4. CASE Holds(d, x)
      <3>1. taken' = [taken EXCEPT ![d][x] = "held"] /\ pool' = Put(d, x, Busy([EntryOf(d, x) EXCEPT !.receiving = TRUE]))
            /\ UNCHANGED <<served, sent>>
        BY <2>4, <1>35 DEF TakeStream
      <3>2. PICK k \in Generations : k = Key(d, x) BY <2>4, <1>5
      <3>3. PICK h \in PoolEntries : h = pool[d][k] BY <1>6 DEF Pools
      <3>4. EntryOf(d, x) = h /\ h.ses = x /\ x # 0 BY <3>2, <3>3, <2>4, <1>5
      <3>5. taken' \in [Devices -> [Ids -> {"no", "held", "file", "copy"}]] /\ taken'[d][x] = "held"
            /\ \A c \in Devices, y \in Ids : c # d \/ y # x => taken'[c][y] = taken[c][y]
        BY <3>1, <1>20
      <3>6. PICK g : g = [h EXCEPT !.receiving = TRUE] OBVIOUS
      <3>7. g \in PoolEntries /\ g.ses = h.ses /\ g.boot = h.boot BY <3>6 DEF PoolEntries
      <3>8. PICK f : f = Busy(g) OBVIOUS
      <3>9. f \in PoolEntries /\ f.ses = h.ses /\ f.boot = h.boot BY <3>7, <3>8, <1>EntryShapes
      <3>10. pool' = [pool EXCEPT ![d][k] = f]
        <4>1. pool' = Put(d, x, f) BY <3>1, <3>4, <3>6, <3>8
        <4> QED BY <4>1, <3>2 DEF Put
      <3>11. pool' \in Pools /\ \A c \in Devices, l \in Generations : EntryGoes(c, l)
        <4>1. pool[d][k].ses # 0 /\ f.ses = pool[d][k].ses /\ (f.boot => pool[d][k].boot)
              /\ (f.receiving => pool[d][k].receiving \/ taken'[d][f.ses] # "no")
          BY <3>3, <3>4, <3>5, <3>9
        <4> QED BY <4>1, <3>9, <3>10, <1>1
      <3>12. Established(d, x) /\ ses[x].in = "adopted"
        <4>1. Established(d, x) BY <3>2, <3>3, <3>4 DEF SessionsIInv, EntryAgrees
        <4>2. Established(e, x) BY <2>3 DEF SessionsIInv, LinkAgrees
        <4> QED BY <4>1, <4>2, <2>2 DEF Established
      <3>13. \A c \in Devices, y \in Ids : LinkGoes(c, y) BY <2>1, <3>1, <3>5, <3>12 DEF LinkGoes
      <3> QED BY <2>1, <3>1, <3>5, <3>11, <3>13, <1>6, <1>18, <1>20, <1>32
    <2>5. CASE ~Holds(d, x)
      <3>1. served' = [served EXCEPT ![d] = @ \ {x}] /\ sent' = [sent EXCEPT ![e][x] = "over"] /\ UNCHANGED <<pool, taken>>
        BY <2>2, <2>5, <1>35 DEF TakeStream
      <3>2. served' \in [Devices -> SUBSET Ids] BY <3>1, <1>6
      <3>3. sent' \in [Devices -> [Ids -> {"no", "file", "copy", "over"}]]
            /\ \A c \in Devices, y \in Ids : sent'[c][y] = sent[c][y] \/ (sent'[c][y] = "over" /\ sent[c][y] # "no")
        BY <2>3, <3>1, <1>20
      <3>4. \A c \in Devices, y \in Ids : LinkGoes(c, y) BY <2>1, <3>1, <3>3 DEF LinkGoes
      <3> QED BY <2>1, <3>1, <3>2, <3>3, <3>4, <1>4, <1>6, <1>18, <1>20, <1>32
    <2> QED BY <2>4, <2>5
  <1>36. ASSUME NEW d \in Devices, NEW x \in Ids, AdmitStream(d, x) PROVE SessionsFollow
    <2>1. UNCHANGED <<gen, ending, ses, conn, pool, doomed, served, op, job, sent, turned>> BY <1>36 DEF AdmitStream, grants, links
    <2>2. PICK v \in {"copy", "file"} : taken' = [taken EXCEPT ![d][x] = v] /\ (v = "file" => Current(d, x))
      BY <1>36 DEF AdmitStream
    <2>3. taken' \in [Devices -> [Ids -> {"no", "held", "file", "copy"}]] /\ taken'[d][x] = v
          /\ \A c \in Devices, y \in Ids : c # d \/ y # x => taken'[c][y] = taken[c][y]
      BY <2>2, <1>20
    <2>4. Established(d, x) /\ ses[x].in = "adopted" BY <1>36 DEF AdmitStream, SessionsIInv, LinkAgrees
    <2>5. \A c \in Devices, y \in Ids : LinkGoes(c, y) BY <2>1, <2>2, <2>3, <2>4 DEF LinkGoes
    <2> QED BY <2>1, <2>3, <2>5, <1>4, <1>6, <1>18, <1>20, <1>32
  <1>37. ASSUME NEW d \in Devices, NEW x \in Ids, StreamEnds(d, x) PROVE SessionsFollow
    <2>1. UNCHANGED <<gen, ending, ses, conn, doomed, op, job, turned>> BY <1>37 DEF StreamEnds, grants, links
    <2>2. PICK e \in Devices : e = Other(d) BY <1>OtherDevice
    <2>3. /\ taken' = [taken EXCEPT ![d][x] = "no"] /\ sent' = [sent EXCEPT ![e][x] = IF @ = "no" THEN @ ELSE "over"]
      BY <2>2, <1>37 DEF StreamEnds
    <2>4. sent' \in [Devices -> [Ids -> {"no", "file", "copy", "over"}]]
          /\ \A c \in Devices, y \in Ids : sent'[c][y] = sent[c][y] \/ (sent'[c][y] = "over" /\ sent[c][y] # "no")
      <3>1. PICK v \in {"no", "over"} : v = IF sent[e][x] = "no" THEN "no" ELSE "over" OBVIOUS
      <3>2. sent' = [sent EXCEPT ![e][x] = v] BY <2>3, <3>1, <1>20
      <3> QED BY <3>1, <3>2, <1>20
    <2>5. taken' \in [Devices -> [Ids -> {"no", "held", "file", "copy"}]] /\ taken'[d][x] = "no"
          /\ \A c \in Devices, y \in Ids : c # d \/ y # x => taken'[c][y] = taken[c][y]
      BY <2>3, <1>20
    <2>6. /\ pool' \in Pools /\ served' \in [Devices -> SUBSET Ids] /\ \A c \in Devices, l \in Generations : EntryGoes(c, l)
          /\ \A l \in Generations : pool'[d][l].ses = x => ~pool'[d][l].receiving
      <3>1. CASE Holds(d, x)
        <4>1. pool' = Put(d, x, Scheduled([EntryOf(d, x) EXCEPT !.receiving = FALSE])) /\ served' = served
          BY <3>1, <1>37 DEF StreamEnds
        <4>2. PICK k \in Generations : k = Key(d, x) BY <3>1, <1>5
        <4>3. PICK h \in PoolEntries : h = pool[d][k] BY <1>6 DEF Pools
        <4>4. EntryOf(d, x) = h /\ h.ses = x /\ x # 0 BY <4>2, <4>3, <3>1, <1>5
        <4>5. PICK g : g = [h EXCEPT !.receiving = FALSE] OBVIOUS
        <4>6. g \in PoolEntries /\ g.ses = h.ses /\ g.boot = h.boot /\ g.receiving = FALSE BY <4>5 DEF PoolEntries
        <4>7. PICK f : f = Scheduled(g) OBVIOUS
        <4>8. f \in PoolEntries /\ f.ses = h.ses /\ f.boot = h.boot /\ f.receiving = FALSE BY <4>6, <4>7, <1>EntryShapes
        <4>9. pool' = [pool EXCEPT ![d][k] = f]
          <5>1. pool' = Put(d, x, f) BY <4>1, <4>4, <4>5, <4>7
          <5> QED BY <5>1, <4>2 DEF Put
        <4>10. pool' \in Pools /\ \A c \in Devices, l \in Generations : EntryGoes(c, l)
          <5>1. pool[d][k].ses # 0 /\ f.ses = pool[d][k].ses /\ (f.boot => pool[d][k].boot) /\ (f.receiving => pool[d][k].receiving)
            BY <4>3, <4>4, <4>8
          <5> QED BY <5>1, <4>8, <4>9, <1>1
        <4>11. ASSUME NEW l \in Generations, pool'[d][l].ses = x PROVE ~pool'[d][l].receiving
          <5>1. pool'[d][k] = f /\ (l # k => pool'[d][l] = pool[d][l]) BY <4>9, <4>8, <1>6 DEF Pools
          <5>2. pool[d][l].ses = x => l = k BY <4>2 DEF SessionsIInv, EntryAgrees
          <5> QED BY <5>1, <5>2, <4>8, <4>11
        <4> QED BY <4>1, <4>10, <4>11, <1>6
      <3>2. CASE ~Holds(d, x)
        <4>1. served' = [served EXCEPT ![d] = @ \ {x}] /\ pool' = pool BY <3>2, <1>37 DEF StreamEnds
        <4>2. \A l \in Generations : pool[d][l].ses # x BY <3>2 DEF SessionsIInv, EntryAgrees, Holds, EntryOf
        <4> QED BY <4>1, <4>2, <1>4, <1>6
      <3> QED BY <3>1, <3>2
    <2>7. \A c \in Devices, y \in Ids : LinkGoes(c, y) BY <2>1, <2>4, <2>5, <2>6 DEF LinkGoes
    <2> QED BY <2>1, <2>4, <2>5, <2>6, <2>7, <1>6, <1>18, <1>20, <1>32
  \* What is known of a session that no device has in its pool, and that was neither
  \* turned away nor adopted.
  <1>38. ASSUME NEW d \in Devices, NEW x \in Ids, ~Established(d, x)
         PROVE  /\ (\A k \in Generations : pool[d][k].ses # x) /\ ~Holds(d, x) /\ job[d] # x
                /\ sent[d][x] = "no" /\ taken[d][x] = "no" /\ (op[d].ses = x => Dials(d, x))
    <2>1. OpAgrees(d) /\ UseAgrees(d, x) /\ LinkAgrees(d, x) /\ \A k \in Generations : EntryAgrees(d, k) BY DEF SessionsIInv
    <2>2. \A k \in Generations : pool[d][k].ses # x BY <2>1, <1>38 DEF EntryAgrees
    <2>3. op[d].ses = x => Dials(d, x)
      <3>1. x # 0 BY DEF Ids
      <3>2. op[d] \in SessionOps BY <1>20
      <3> QED BY <3>1, <3>2, <2>1, <1>38 DEF OpAgrees, UseAgrees, Dials, SessionOps
    <2> QED BY <2>1, <2>2, <2>3, <1>38 DEF LinkAgrees, UseAgrees, Holds, EntryOf
  <1>39. ASSUME NEW x \in Ids, ses[x].in \notin {"over", "adopted"}, \A y \in Ids : y # x => ses'[y] = ses[y],
                NEW a \in Ids, NEW b \in Ids, <<a, b>> \in turned
         PROVE  (ses'[a].in = "over" /\ (b < a \/ ses'[b].in = "adopted")) \/ (ses'[b].in = "adopted" /\ b < a)
    <2>1. (ses[a].in = "over" /\ (b < a \/ ses[b].in = "adopted")) \/ (ses[b].in = "adopted" /\ b < a)
      BY <1>39 DEF SessionsIInv, TurnedAgrees
    <2> QED BY <2>1, <1>39
  \* A step of a session that stays out of the pools.
  <1>40. ASSUME NEW x \in Ids, NEW s \in SessionRecords, NEW c \in [Devices -> {"none", "up", "closed"}],
                ses' = [ses EXCEPT ![x] = s], conn' = [conn EXCEPT ![x] = c],
                \A d \in Devices : ~Established(d, x) /\ ~Established(d, x)',
                \A d \in Devices : Dials(d, x) => s.gens[d] = ses[x].gens[d] /\ s.dialer = ses[x].dialer,
                UNCHANGED <<gen, ending, pool, doomed, op, job, sent, taken>>, served' \in [Devices -> SUBSET Ids],
                \A d \in Devices : InboundAgrees(d, x)', turned' \subseteq Ids \X Ids, TurnedAgrees'
         PROVE  SessionsFollow
    <2>1. ses' \in [Ids -> SessionRecords] /\ ses'[x] = s /\ conn' \in [Ids -> [Devices -> {"none", "up", "closed"}]] /\ conn'[x] = c
          /\ \A y \in Ids : y # x => ses'[y] = ses[y] /\ conn'[y] = conn[y]
      BY <1>40 DEF SessionsTypeOK
    <2>2. SessionsTypeOK' BY <2>1, <1>40 DEF SessionsTypeOK
    <2>3. ASSUME NEW d \in Devices, NEW y \in Ids, y # x
          PROVE  /\ Established(d, y)' <=> Established(d, y)
                 /\ Dials(d, y)' <=> Dials(d, y)
                 /\ Key(d, y)' = Key(d, y) /\ conn'[y][d] = conn[y][d]
                 /\ Live(d, y)' <=> Live(d, y)
                 /\ Holds(d, y)' <=> Holds(d, y)
                 /\ EntryOf(d, y)' = EntryOf(d, y)
                 /\ Current(d, y)' <=> Current(d, y)
      BY <2>1, <2>3, <1>40 DEF Established, Dials, Key, Live, Holds, EntryOf, Current
    <2>4. ASSUME NEW d \in Devices PROVE OpAgrees(d)'
      <3>1. OpAgrees(d) BY DEF SessionsIInv
      <3>2. ASSUME NEW k \in Generations, ~Live(d, pool[d][k].ses) PROVE ~Live(d, pool[d][k].ses)'
        <4>1. pool[d][k].ses \in 0 .. MaxSessions /\ pool[d][k].ses # x BY <1>38, <1>40, <1>6 DEF Pools, PoolEntries
        <4>2. CASE pool[d][k].ses = 0 BY <4>2, <1>40 DEF Live
        <4>3. CASE pool[d][k].ses # 0
          <5>1. pool[d][k].ses \in Ids BY <4>1, <4>3 DEF Ids
          <5> QED BY <5>1, <4>1, <3>2, <2>1, <1>40 DEF Live
        <4> QED BY <4>2, <4>3
      <3> QED BY <3>1, <3>2, <1>40 DEF OpAgrees
    <2>5. ASSUME NEW d \in Devices, NEW k \in Generations PROVE EntryAgrees(d, k)'
      <3>1. EntryAgrees(d, k) BY DEF SessionsIInv
      <3>2. pool[d][k].ses # x BY <1>38, <1>40
      <3> QED BY <3>1, <3>2, <2>3, <1>40 DEF EntryAgrees
    <2>6. ASSUME NEW d \in Devices, NEW y \in Ids PROVE UseAgrees(d, y)' /\ InboundAgrees(d, y)' /\ LinkAgrees(d, y)'
      <3>1. UseAgrees(d, y) /\ InboundAgrees(d, y) /\ LinkAgrees(d, y) BY DEF SessionsIInv
      <3>2. CASE y # x
        <4>1. UseAgrees(d, y)' BY <3>1, <3>2, <2>3, <1>40 DEF UseAgrees
        <4>2. InboundAgrees(d, y)' BY <3>1, <3>2, <2>1, <2>3, <1>40 DEF InboundAgrees
        <4>3. LinkAgrees(d, y)' BY <3>1, <3>2, <2>1, <2>3, <1>40 DEF LinkAgrees, Moves
        <4> QED BY <4>1, <4>2, <4>3
      <3>3. CASE y = x
        <4>1. job[d] # x /\ sent[d][x] = "no" /\ taken[d][x] = "no" /\ (op[d].ses = x => Dials(d, x)) BY <1>38, <1>40
        <4>2. UseAgrees(d, x)' BY <4>1, <3>1, <3>3, <2>1, <1>40 DEF UseAgrees, Dials, Key
        <4>3. LinkAgrees(d, x)' BY <4>1, <1>40 DEF LinkAgrees, Moves, Dials
        <4> QED BY <4>2, <4>3, <3>3, <1>40
      <3> QED BY <3>2, <3>3
    <2>7. ReservedKept
      <3>1. ASSUME NEW d \in Devices, NEW y \in Ids PROVE Holds(d, y) => Holds(d, y)'
        <4>1. y = x => ~Holds(d, y) BY <1>38, <1>40
        <4> QED BY <4>1, <2>3
      <3> QED BY <3>1 DEF ReservedKept, Reserved
    <2> QED BY <2>2, <2>4, <2>5, <2>6, <2>7, <1>40 DEF SessionsFollow, SessionsIInv
  <1>41. ASSUME NEW x \in Ids, ses[x].in \in {"asked", "taken", "checking", "adopt"}
         PROVE  /\ ses[x].dialer \in Devices /\ Other(ses[x].dialer) \in Devices /\ Other(ses[x].dialer) # ses[x].dialer
                /\ \A d \in Devices : d = ses[x].dialer \/ d = Other(ses[x].dialer)
                /\ ~Established(Other(ses[x].dialer), x) /\ ses[x] \in SessionRecords
                /\ (ses[x].in \in {"asked", "taken"} => ~Established(ses[x].dialer, x))
    <2>1. \A d \in Devices : InboundAgrees(d, x) BY DEF SessionsIInv
    <2>2. ses[x] \in SessionRecords BY DEF SessionsTypeOK
    <2>3. \E d \in Devices : TRUE BY SessionsAssumption
    <2>4. ses[x].dialer \in Devices BY <2>1, <2>2, <2>3, <1>41 DEF InboundAgrees, NoSession, SessionRecords
    <2>5. Other(ses[x].dialer) \in Devices /\ Other(ses[x].dialer) # ses[x].dialer
          /\ \A d \in Devices : d = ses[x].dialer \/ d = Other(ses[x].dialer)
      BY <2>4, <1>OtherDevice
    <2> QED BY <2>1, <2>2, <2>4, <2>5, <1>41 DEF Established, InboundAgrees, Dials
  <1>42. ASSUME NEW x \in Ids, TakeDial(x) PROVE SessionsFollow
    <2>1. ses[x].in = "asked" /\ UNCHANGED <<gen, ending, conn, pool, doomed, served, op, job, sent, taken, turned>>
      BY <1>42 DEF TakeDial, grants, users
    <2>2. PICK p \in Devices : p = ses[x].dialer BY <2>1, <1>41
    <2>3. PICK d \in Devices : d = Other(p) /\ d # p /\ \A e \in Devices : e = p \/ e = d BY <2>1, <2>2, <1>41
    <2>4. PICK r \in SessionRecords : r = ses[x] BY DEF SessionsTypeOK
    <2>5. PICK c \in [Devices -> {"none", "up", "closed"}] : c = conn[x] BY DEF SessionsTypeOK
    <2>6. r.dialer = p /\ c[p] = "none" /\ c[d] = "none" /\ r.gens[d] = 0 /\ Dials(p, x)
      BY <2>1, <2>2, <2>3, <2>4, <2>5 DEF SessionsIInv, InboundAgrees, Dials, Key
    <2>7. ~Established(p, x) /\ ~Established(d, x) BY <2>1, <2>2, <2>3, <1>41
    <2>8. PICK s \in SessionRecords : /\ ses' = [ses EXCEPT ![x] = s] /\ s.dialer = p /\ s.gens[p] = r.gens[p]
                                      /\ s.in \in {"over", "taken"} /\ (s.in = "taken" => s.gens[d] \in Generations)
      <3>1. CASE ses' = [ses EXCEPT ![x].in = "over"]
        <4>1. PICK s : s = [r EXCEPT !.in = "over"] OBVIOUS
        <4>2. s \in SessionRecords /\ s.dialer = p /\ s.gens = r.gens /\ s.in = "over" BY <4>1, <2>6 DEF SessionRecords
        <4>3. ses' = [ses EXCEPT ![x] = s] BY <3>1, <4>1, <2>4 DEF SessionsTypeOK
        <4> QED BY <4>2, <4>3
      <3>2. CASE ses' = [ses EXCEPT ![x] = [@ EXCEPT !.in = "taken", !.gens[d] = gen[d]]]
        <4>1. PICK g \in Generations : g = gen[d] BY DEF SessionsTypeOK
        <4>2. PICK h : h = [r.gens EXCEPT ![d] = g] OBVIOUS
        <4>3. h \in [Devices -> 0 .. MaxGeneration] /\ h[p] = r.gens[p] /\ h[d] = g
          <5>1. r.gens \in [Devices -> 0 .. MaxGeneration] BY DEF SessionRecords
          <5>2. g \in 0 .. MaxGeneration BY SessionsAssumption DEF Generations
          <5> QED BY <5>1, <5>2, <4>2, <2>3
        <4>4. PICK s : s = [r EXCEPT !.in = "taken", !.gens = h] OBVIOUS
        <4>5. s \in SessionRecords /\ s.dialer = p /\ s.gens = h /\ s.in = "taken" BY <4>3, <4>4, <2>6 DEF SessionRecords
        <4>6. ses' = [ses EXCEPT ![x] = s]
          <5>1. s = [r EXCEPT !.in = "taken", !.gens[d] = g] BY <4>2, <4>4 DEF SessionRecords
          <5> QED BY <5>1, <3>2, <4>1, <2>4 DEF SessionsTypeOK
        <4> QED BY <4>3, <4>5, <4>6
      <3> QED BY <3>1, <3>2, <2>2, <2>3, <1>42 DEF TakeDial
    <2>9. ses'[x] = s /\ \A y \in Ids : y # x => ses'[y] = ses[y] BY <2>8 DEF SessionsTypeOK
    <2>10. conn' = [conn EXCEPT ![x] = c] BY <2>1, <2>5 DEF SessionsTypeOK
    <2>11. \A e \in Devices : ~Established(e, x)' BY <2>1, <2>3, <2>6, <2>8, <2>9 DEF Established, Dials
    <2>12. \A e \in Devices : InboundAgrees(e, x)'
      <3>1. op[p].pc = "dialing" /\ op[p].ses = x BY <2>1, <2>2 DEF SessionsIInv, InboundAgrees
      <3>2. p # "none" BY SessionsAssumption
      <3>3. conn'[x][p] = "none" /\ conn'[x][d] = "none" BY <2>1, <2>5, <2>6
      <3> QED BY <3>1, <3>2, <3>3, <2>1, <2>3, <2>8, <2>9 DEF InboundAgrees, Key
    <2>13. TurnedAgrees' BY <2>1, <2>9, <1>39 DEF TurnedAgrees
    <2>14. \A e \in Devices : Dials(e, x) => s.gens[e] = ses[x].gens[e] /\ s.dialer = ses[x].dialer
      <3>1. ~Dials(d, x) BY <2>2, <2>3 DEF SessionsIInv, UseAgrees
      <3> QED BY <3>1, <2>2, <2>3, <2>4, <2>8
    <2>15. turned' \subseteq Ids \X Ids /\ \A e \in Devices : ~Established(e, x) BY <2>1, <2>3, <2>7 DEF SessionsTypeOK
    <2> QED BY <2>1, <2>8, <2>10, <2>11, <2>12, <2>13, <2>14, <2>15, <1>6, <1>40
  \* What the inbound side does with a session it does not put into its pool.
  <1>43. ASSUME NEW x \in Ids, ses[x].in \in {"checking", "adopt"}, NEW i \in {"adopt", "over"},
                ses' = [ses EXCEPT ![x].in = i], conn' = conn \/ conn' = Closed(Other(ses[x].dialer), x),
                i = "over" => conn' = Closed(Other(ses[x].dialer), x),
                UNCHANGED <<gen, ending, pool, doomed, served, op, job, sent, taken>>, turned' \subseteq Ids \X Ids, TurnedAgrees'
         PROVE  SessionsFollow
    <2>1. PICK d \in Devices : d = Other(ses[x].dialer) /\ d # ses[x].dialer BY <1>41, <1>43
    <2>2. PICK s \in SessionRecords : s = [ses[x] EXCEPT !.in = i] /\ s.dialer = ses[x].dialer /\ s.gens = ses[x].gens /\ s.in = i
      <3>1. PICK r \in SessionRecords : r = ses[x] BY DEF SessionsTypeOK
      <3>2. PICK s : s = [r EXCEPT !.in = i] OBVIOUS
      <3>3. s \in SessionRecords /\ s.dialer = r.dialer /\ s.gens = r.gens /\ s.in = i BY <3>2 DEF SessionRecords
      <3> QED BY <3>1, <3>2, <3>3
    <2>3. ses' \in [Ids -> SessionRecords] /\ ses'[x] = s /\ \A y \in Ids : y # x => ses'[y] = ses[y]
      <3>1. ses' = [ses EXCEPT ![x] = s] BY <2>2, <1>43
      <3> QED BY <3>1 DEF SessionsTypeOK
    <2>4. /\ conn' \in [Ids -> [Devices -> {"none", "up", "closed"}]] /\ (i = "over" => conn'[x][d] # "up")
          /\ \A e \in Devices, y \in Ids : conn'[y][e] = conn[y][e] \/ (conn[y][e] = "up" /\ conn'[y][e] = "closed")
      <3>1. CASE conn' = Closed(d, x) BY <3>1, <1>14
      <3>2. CASE conn' = conn /\ i # "over" BY <3>2 DEF SessionsTypeOK
      <3> QED BY <3>1, <3>2, <2>1, <1>43
    <2>5. SessionsTypeOK' BY <2>3, <2>4, <1>43 DEF SessionsTypeOK
    <2>6. ASSUME NEW e \in Devices, NEW y \in Ids
          PROVE  (Established(e, y)' <=> Established(e, y)) /\ Key(e, y)' = Key(e, y)
      BY <2>2, <2>3, <1>43 DEF Established, Dials, Key
    <2>7. ASSUME NEW y \in Ids PROVE ses'[y].dialer = ses[y].dialer /\ (ses[y].in = "adopted" => ses'[y].in = "adopted")
      BY <2>2, <2>3, <1>43
    <2>8. ASSUME NEW e \in Devices, NEW y \in Ids PROVE InboundAgrees(e, y)'
      <3>1. InboundAgrees(e, y) BY DEF SessionsIInv
      <3>2. CASE y # x BY <3>1, <3>2, <2>3, <2>4, <2>6, <1>43 DEF InboundAgrees
      <3>3. CASE y = x
        <4>1. ses[x].dialer # "none" /\ (e # ses[x].dialer => e = d)
          <5>1. ses[x].dialer \in Devices BY <1>41, <1>43
          <5>2. e # ses[x].dialer => e = d BY <1>41, <1>43, <2>1
          <5> QED BY <5>1, <5>2, SessionsAssumption
        <4> QED BY <4>1, <3>1, <3>3, <2>2, <2>3, <2>4, <2>6, <1>43 DEF InboundAgrees
      <3> QED BY <3>2, <3>3
    <2>9. \A e \in Devices : OpGoes(e) /\ GrantGoes(e) /\ job'[e] \in {0, job[e]} BY <1>43 DEF OpGoes, GrantGoes
    <2>10. \A e \in Devices, k \in Generations : EntryGoes(e, k) BY <1>43 DEF EntryGoes
    <2>11. \A e \in Devices, y \in Ids : LinkGoes(e, y) BY <2>4, <1>43 DEF LinkGoes
    <2> QED BY <2>5, <2>6, <2>7, <2>8, <2>9, <2>10, <2>11, <1>43, <1>KeepMost DEF SessionsFollow
  <1>44. ASSUME NEW x \in Ids, ses[x].in \notin {"over", "adopted"}, \A y \in Ids : y # x => ses'[y] = ses[y], turned' = turned
         PROVE  TurnedAgrees'
    BY <1>39, <1>44 DEF TurnedAgrees
  <1>45. ASSUME NEW x \in Ids, AcceptChecks(x) PROVE SessionsFollow
    <2>1. ses[x].in = "checking" /\ UNCHANGED <<gen, ending, pool, doomed, served, op, job, sent, taken, turned>>
      BY <1>45 DEF AcceptChecks, grants, users
    <2>2. PICK i \in {"adopt", "over"} :
            /\ ses' = [ses EXCEPT ![x].in = i] /\ (conn' = conn \/ conn' = Closed(Other(ses[x].dialer), x))
            /\ i = "over" => conn' = Closed(Other(ses[x].dialer), x)
      BY <1>45 DEF AcceptChecks
    <2>3. TurnedAgrees' /\ turned' \subseteq Ids \X Ids
      <3>1. \A y \in Ids : y # x => ses'[y] = ses[y] BY <2>2 DEF SessionsTypeOK
      <3> QED BY <3>1, <2>1, <1>44 DEF SessionsTypeOK
    <2> QED BY <2>1, <2>2, <2>3, <1>43
  <1>46. ASSUME NEW x \in Ids, Handshake(x) PROVE SessionsFollow
    <2>1. ses[x].in = "taken" /\ UNCHANGED <<gen, ending, pool, doomed, served, op, job, sent, taken, turned>>
      BY <1>46 DEF Handshake, grants, users
    <2>2. PICK p \in Devices : p = ses[x].dialer BY <2>1, <1>41
    <2>3. PICK d \in Devices : d = Other(p) /\ d # p /\ \A e \in Devices : e = p \/ e = d BY <2>1, <2>2, <1>41
    <2>4. PICK r \in SessionRecords : r = ses[x] BY DEF SessionsTypeOK
    <2>5. PICK c \in [Devices -> {"none", "up", "closed"}] : c = [e \in Devices |-> "up"] OBVIOUS
    <2>6. PICK s \in SessionRecords : s = [r EXCEPT !.in = "checking"] /\ s.dialer = p /\ s.gens = r.gens /\ s.in = "checking"
      <3>1. PICK s : s = [r EXCEPT !.in = "checking"] OBVIOUS
      <3>2. s \in SessionRecords /\ s.dialer = r.dialer /\ s.gens = r.gens /\ s.in = "checking" BY <3>1 DEF SessionRecords
      <3> QED BY <3>1, <3>2, <2>2, <2>4
    <2>7. ses' = [ses EXCEPT ![x] = s] /\ conn' = [conn EXCEPT ![x] = c] BY <2>4, <2>5, <2>6, <1>46 DEF Handshake
    <2>8. ses'[x] = s /\ (\A y \in Ids : y # x => ses'[y] = ses[y]) /\ \A e \in Devices : conn'[x][e] = "up"
      BY <2>5, <2>7 DEF SessionsTypeOK
    <2>9. Dials(p, x) BY <2>1, <2>2 DEF SessionsIInv, InboundAgrees, Dials
    <2>10. \A e \in Devices : ~Established(e, x) /\ ~Established(e, x)'
      <3>1. Dials(p, x)' BY <2>1, <2>9 DEF Dials
      <3>2. ~Established(p, x) /\ ~Established(d, x) BY <2>1, <2>2, <2>3, <1>41
      <3>3. ~Established(p, x)' /\ ~Established(d, x)' BY <3>1, <2>3, <2>6, <2>8 DEF Established
      <3> QED BY <3>2, <3>3, <2>3
    <2>11. ASSUME NEW e \in Devices PROVE InboundAgrees(e, x)'
      <3>1. InboundAgrees(e, x) BY DEF SessionsIInv
      <3>2. p # "none" /\ Key(e, x)' = Key(e, x) BY SessionsAssumption, <2>4, <2>6, <2>8 DEF Key
      <3> QED BY <3>1, <3>2, <2>1, <2>2, <2>6, <2>8 DEF InboundAgrees
    <2>12. TurnedAgrees' /\ turned' \subseteq Ids \X Ids BY <2>1, <2>8, <1>44 DEF SessionsTypeOK
    <2>13. \A e \in Devices : Dials(e, x) => s.gens[e] = ses[x].gens[e] /\ s.dialer = ses[x].dialer BY <2>2, <2>4, <2>6
    <2> QED BY <2>1, <2>7, <2>10, <2>11, <2>12, <2>13, <1>6, <1>40
  \* A session is put into a pool, instead of one that is closed.
  <1> DEFINE Placed(d, x, k) ==
               /\ Key(d, x) = k /\ ~Established(d, x) /\ Established(d, x)'
               /\ \A c \in Devices, y \in Ids : Key(c, y)' = Key(c, y)
               /\ \A c \in Devices, y \in Ids : c # d \/ y # x => (Established(c, y)' <=> Established(c, y))
               /\ \A y \in Ids : ses[y].in = "adopted" => ses'[y].in = "adopted"
             Replaced(d, k) ==
               /\ \A c \in Devices : doomed[c] \subseteq doomed'[c]
               /\ \A c \in Devices, y \in Ids : conn'[y][c] = conn[y][c] \/ (conn[y][c] = "up" /\ conn'[y][c] = "closed")
               /\ \A c \in Devices : op'[c] = op[c] \/ {op[c].pc, op'[c].pc} \cap {"open", "sending"} = {}
               /\ pool[d][k].ses # 0 => pool[d][k].ses \in doomed'[d] \/ conn'[pool[d][k].ses][d] # "up"
               /\ Live(d, pool[d][k].ses) => pool[d][k].boot /\ ~pool[d][k].receiving
             InUse ==
               /\ \A c \in Devices : OpAgrees(c)'
               /\ \A c \in Devices, y \in Ids : UseAgrees(c, y)' /\ InboundAgrees(c, y)'
  <1> HIDE DEF Placed, Replaced, InUse
  <1>47. ASSUME NEW d \in Devices, NEW x \in Ids, NEW k \in Generations, NEW f \in PoolEntries, f.ses = x, f.receiving = FALSE,
                pool' = [pool EXCEPT ![d][k] = f], Placed(d, x, k), Replaced(d, k), InUse,
                UNCHANGED <<gen, ending, job, sent, taken>>, SessionsTypeOK', TurnedAgrees'
         PROVE  SessionsFollow
    <2> USE DEF Placed, Replaced, InUse
    <2>1. pool'[d][k] = f /\ \A e \in Devices, l \in Generations : e # d \/ l # k => pool'[e][l] = pool[e][l]
      BY <1>47, <1>6 DEF Pools
    <2>2. x # 0 BY DEF Ids
    <2>3. /\ (\A l \in Generations : pool[d][l].ses # x) /\ ~Holds(d, x) /\ job[d] # x
          /\ sent[d][x] = "no" /\ taken[d][x] = "no" /\ (op[d].ses = x => Dials(d, x))
      BY <1>38, <1>47
    <2>4. ASSUME NEW e \in Devices, NEW l \in Generations PROVE EntryAgrees(e, l)'
      <3>1. EntryAgrees(e, l) BY DEF SessionsIInv
      <3>2. CASE e = d /\ l = k BY <3>2, <2>1, <2>2, <1>47 DEF EntryAgrees
      <3>3. CASE e # d \/ l # k
        <4>1. pool'[e][l] = pool[e][l] BY <3>3, <2>1
        <4>2. ASSUME NEW y \in Ids, pool[e][l].ses = y PROVE Key(e, y)' = l /\ Established(e, y)'
          <5>1. e # d \/ y # x BY <4>2, <2>3
          <5> QED BY <5>1, <4>2, <3>1, <1>47 DEF EntryAgrees
        <4> QED BY <4>1, <4>2, <3>1, <1>47 DEF EntryAgrees
      <3> QED BY <3>2, <3>3
    <2>5. ASSUME NEW e \in Devices, NEW y \in Ids
          PROVE  Holds(e, y) => Holds(e, y)' \/ (e = d /\ pool[d][k].ses = y)
      <3>1. Key(e, y)' = Key(e, y) BY <1>47
      <3>2. CASE Key(e, y) \in Generations
        <4>1. PICK l \in Generations : l = ses[y].gens[e] BY <3>2 DEF Key
        <4>2. Key(e, y) = l /\ EntryOf(e, y) = pool[e][l] /\ EntryOf(e, y)' = pool'[e][l] BY <4>1, <3>1 DEF EntryOf, Key
        <4> QED BY <4>2, <3>1, <2>1 DEF Holds
      <3> QED BY <3>2 DEF Holds
    <2>6. Holds(d, x)' BY <2>1, <1>47 DEF Holds, EntryOf
    <2>7. ASSUME NEW e \in Devices, NEW y \in Ids PROVE LinkAgrees(e, y)'
      <3>1. LinkAgrees(e, y) BY DEF SessionsIInv
      <3>2. CASE e = d /\ y = x
        <4>1. ~Moves(d, x)'
          <5>1. op[d].pc \notin {"open", "sending"} \/ op[d].ses # x BY <2>3 DEF Dials
          <5>2. op'[d].pc \notin {"open", "sending"} \/ op'[d].ses # x BY <5>1, <1>47
          <5> QED BY <5>2, <2>3, <1>47 DEF Moves
        <4>2. sent'[d][x] = "no" /\ taken'[d][x] = "no" BY <2>3, <1>47
        <4> QED BY <4>1, <4>2, <3>2, <2>6 DEF LinkAgrees
      <3>3. CASE e # d \/ y # x
        <4>1. Established(e, y)' <=> Established(e, y) BY <3>3, <1>47
        <4>2. conn'[y][e] = "up" => conn[y][e] = "up" BY <1>47
        <4>3. Live(e, y)' => Live(e, y) BY <4>2 DEF Live
        <4>4. Moves(e, y)' <=> Moves(e, y) BY <1>47 DEF Moves
        <4>5. Established(e, y)' /\ Live(e, y)' => Holds(e, y)' \/ y \in doomed'[e]
          <5>1. y # 0 BY DEF Ids
          <5> QED BY <5>1, <4>1, <4>3, <3>1, <2>5, <1>47 DEF LinkAgrees, Live
        <4>6. Current(e, y)' <=> Current(e, y) BY <1>47 DEF Current
        <4>7. sent'[e][y] = "file" => op'[e].pc = "sending" /\ op'[e].ses = y BY <3>1, <1>47 DEF LinkAgrees
        <4>8. taken'[e][y] # "no" => Established(e, y)' /\ ses'[y].in = "adopted" BY <3>1, <4>1, <1>47 DEF LinkAgrees
        <4> QED BY <4>1, <4>3, <4>4, <4>5, <4>6, <4>7, <4>8, <3>1, <1>47 DEF LinkAgrees
      <3> QED BY <3>2, <3>3
    <2>8. ReservedKept
      <3>1. ASSUME NEW e \in Devices, NEW y \in Ids, Reserved(e, y), Live(e, y), ~Holds(e, y)'
            PROVE  \/ op[e].pc = "release" /\ op[e].ses = y
                   \/ EntryOf(e, y).boot /\ ~EntryOf(e, y).receiving /\ ~(op[e].kind = "file" /\ op[e].ses = y)
        <4>1. e = d /\ pool[d][k].ses = y BY <3>1, <2>5 DEF Reserved
        <4>2. EntryOf(e, y) = pool[d][k]
          <5>1. Key(d, y) = k BY <4>1 DEF SessionsIInv, EntryAgrees
          <5> QED BY <5>1, <4>1 DEF EntryOf
        <4>3. pool[d][k].boot /\ ~pool[d][k].receiving BY <4>1, <3>1, <1>47
        <4>4. op[d].ses = y => op[d].pc = "release" \/ op[d].kind # "file"
          <5>1. OpAgrees(d) /\ UseAgrees(d, y) /\ op[d] \in SessionOps BY <1>20 DEF SessionsIInv
          <5>2. Established(d, y) /\ ~Dials(d, y)
            <6>1. Established(d, y) BY <4>1 DEF SessionsIInv, EntryAgrees
            <6> QED BY <6>1, <5>1 DEF Established, UseAgrees
          <5>3. y # 0 BY DEF Ids
          <5> QED BY <5>1, <5>2, <5>3, <4>1, <4>2, <4>3, <3>1 DEF OpAgrees, UseAgrees, Dials, SessionOps, Reserved
        <4> QED BY <4>1, <4>2, <4>3, <4>4
      <3> QED BY <3>1 DEF ReservedKept
    <2> QED BY <2>4, <2>7, <2>8, <1>47 DEF SessionsFollow, SessionsIInv
  <1>NewEntry. ASSUME NEW x \in Ids, NEW held \in BOOLEAN, NEW boot \in BOOLEAN
         PROVE  Entry(x, held, boot) \in PoolEntries /\ Entry(x, held, boot).ses = x
                /\ Entry(x, held, boot).receiving = FALSE /\ Entry(x, held, boot).boot = boot
    <2>1. PICK n : n = NoEntry OBVIOUS
    <2>2. n \in PoolEntries /\ n.receiving = FALSE
      <3>1. 0 \in 0 .. MaxSessions BY SessionsAssumption
      <3> QED BY <2>1, <3>1 DEF NoEntry, PoolEntries
    <2>3. x \in 0 .. MaxSessions BY SessionsAssumption DEF Ids
    <2>4. PICK g : g = [n EXCEPT !.ses = x, !.inUse = held, !.boot = boot] OBVIOUS
    <2>5. g \in PoolEntries /\ g.ses = x /\ g.receiving = FALSE /\ g.boot = boot BY <2>2, <2>3, <2>4 DEF PoolEntries
    <2> QED BY <2>1, <2>4, <2>5 DEF Entry
  <1>48. ASSUME NEW x \in Ids, Adopt(x) PROVE SessionsFollow
    <2>1. ses[x].in = "adopt" /\ UNCHANGED <<gen, ending, doomed, op, job, sent, taken>> BY <1>48 DEF Adopt, grants, users
    <2>2. PICK d \in Devices : d = Other(ses[x].dialer) /\ d # ses[x].dialer /\ ~Established(d, x) BY <2>1, <1>41
    <2>3. PICK k \in Generations : k = Key(d, x) BY <2>1, <2>2 DEF SessionsIInv, InboundAgrees
    <2>4. PICK e \in PoolEntries : e = pool[d][k] BY <1>6 DEF Pools
    <2>5. EntryOf(d, x) = e /\ KeyFree(d, k) BY <2>1, <2>2, <2>3, <2>4, <1>48 DEF EntryOf, Adopt
    <2>6. e.ses \in 0 .. MaxSessions /\ e.ses # x BY <2>2, <2>4, <1>38 DEF PoolEntries
    <2>7. PICK refused \in BOOLEAN : refused = (closing[d] # "no" \/ (Live(d, e.ses) /\ ~PreferInbound(d, x))) OBVIOUS
    <2>8. CASE refused
      <3>1. /\ ses' = [ses EXCEPT ![x].in = "over"] /\ conn' = Closed(d, x) /\ UNCHANGED <<pool, served>>
            /\ turned' = IF closing[d] = "no" /\ e.boot THEN turned \cup {<<x, e.ses>>} ELSE turned
        BY <2>2, <2>5, <2>7, <2>8, <1>48 DEF Adopt
      <3>2. ses'[x].in = "over" /\ \A y \in Ids : y # x => ses'[y] = ses[y]
        <4>1. \A y \in Ids : y # x => ses'[y] = ses[y] BY <3>1 DEF SessionsTypeOK
        <4>2. PICK r \in SessionRecords : r = ses[x] BY DEF SessionsTypeOK
        <4>3. ses'[x] = [r EXCEPT !.in = "over"] BY <3>1, <4>2 DEF SessionsTypeOK
        <4> QED BY <4>1, <4>3 DEF SessionRecords
      <3>3. closing[d] = "no" /\ e.boot => e.ses \in Ids /\ (e.ses < x \/ ses'[e.ses].in = "adopted")
        <4>1. HAVE closing[d] = "no" /\ e.boot
        <4>2. Live(d, e.ses) /\ (e.receiving \/ ~(x < e.ses)) BY <2>5, <2>7, <2>8, <4>1 DEF PreferInbound
        <4>3. e.ses \in Ids BY <2>6, <4>2 DEF Live, Ids
        <4>4. CASE e.receiving
          <5>1. taken[d][e.ses] # "no" BY <2>4, <4>3, <4>4 DEF SessionsIInv, EntryAgrees
          <5>2. ses[e.ses].in = "adopted" BY <4>3, <5>1 DEF SessionsIInv, LinkAgrees
          <5> QED BY <5>2, <4>3, <3>2, <2>6
        <4>5. CASE ~(x < e.ses) BY <4>3, <4>5, <2>6, SessionsAssumption DEF Ids
        <4> QED BY <4>2, <4>3, <4>4, <4>5
      <3>4. turned' \subseteq Ids \X Ids BY <3>1, <3>3 DEF SessionsTypeOK
      <3>5. TurnedAgrees'
        <4>1. ASSUME NEW a \in Ids, NEW b \in Ids, <<a, b>> \in turned'
              PROVE  (ses'[a].in = "over" /\ (b < a \/ ses'[b].in = "adopted")) \/ (ses'[b].in = "adopted" /\ b < a)
          <5>1. CASE <<a, b>> \in turned BY <5>1, <2>1, <3>2, <1>39
          <5>2. CASE <<a, b>> \notin turned
            <6>1. closing[d] = "no" /\ e.boot /\ a = x /\ b = e.ses BY <5>2, <4>1, <3>1
            <6> QED BY <6>1, <3>2, <3>3
          <5> QED BY <5>1, <5>2
        <4> QED BY <4>1 DEF TurnedAgrees
      <3> QED BY <2>1, <2>2, <3>1, <3>4, <3>5, <1>43
    <2>9. CASE ~refused
      <3>1. PICK f : f = Scheduled(Entry(x, FALSE, FALSE)) OBVIOUS
      <3>2. f \in PoolEntries /\ f.ses = x /\ f.receiving = FALSE
        <4>1. PICK g : g = Entry(x, FALSE, FALSE) OBVIOUS
        <4>2. g \in PoolEntries /\ g.ses = x /\ g.receiving = FALSE BY <4>1, <1>NewEntry
        <4> QED BY <3>1, <4>1, <4>2, <1>EntryShapes
      <3>3. /\ ses' = [ses EXCEPT ![x].in = "adopted"]
            /\ conn' = IF e.ses # 0 THEN Closed(d, e.ses) ELSE conn
            /\ turned' = IF Live(d, e.ses) THEN turned \cup {<<e.ses, x>>} ELSE turned
            /\ pool' = Put(d, x, f)
            /\ served' = [served EXCEPT ![d] = @ \cup {x}]
        BY <2>2, <2>5, <2>7, <2>9, <3>1, <1>48 DEF Adopt
      <3>4. pool' = [pool EXCEPT ![d][k] = f] BY <3>3, <2>3 DEF Put
      <3>5. /\ ses' \in [Ids -> SessionRecords] /\ ses'[x].in = "adopted"
            /\ \A y \in Ids : ses'[y].dialer = ses[y].dialer /\ ses'[y].gens = ses[y].gens /\ (y # x => ses'[y] = ses[y])
        <4>1. PICK r \in SessionRecords : r = ses[x] BY DEF SessionsTypeOK
        <4>2. PICK s : s = [r EXCEPT !.in = "adopted"] OBVIOUS
        <4>3. s \in SessionRecords /\ s.dialer = r.dialer /\ s.gens = r.gens /\ s.in = "adopted" BY <4>2 DEF SessionRecords
        <4>4. ses' = [ses EXCEPT ![x] = s] BY <3>3, <4>1, <4>2 DEF SessionsTypeOK
        <4>5. ses' \in [Ids -> SessionRecords] /\ ses'[x] = s /\ \A y \in Ids : y # x => ses'[y] = ses[y]
          BY <4>3, <4>4 DEF SessionsTypeOK
        <4> QED BY <4>1, <4>3, <4>5
      <3>6. /\ conn' \in [Ids -> [Devices -> {"none", "up", "closed"}]] /\ (e.ses # 0 => conn'[e.ses][d] # "up")
            /\ \A c \in Devices, y \in Ids : /\ conn'[y][c] = conn[y][c] \/ (conn[y][c] = "up" /\ conn'[y][c] = "closed")
                                             /\ c # d \/ y # e.ses => conn'[y][c] = conn[y][c]
        <4>1. CASE e.ses = 0 BY <4>1, <3>3 DEF SessionsTypeOK
        <4>2. CASE e.ses # 0
          <5>1. PICK y \in Ids : y = e.ses BY <4>2, <2>6 DEF Ids
          <5> QED BY <5>1, <4>2, <3>3, <1>14
        <4> QED BY <4>1, <4>2
      <3>7. Live(d, e.ses) => e.ses \in Ids /\ x < e.ses /\ e.boot /\ ~e.receiving
        <4>1. HAVE Live(d, e.ses)
        <4>2. PreferInbound(d, x) BY <2>7, <2>9, <4>1
        <4>3. e.boot /\ ~e.receiving /\ x < e.ses BY <2>5, <4>2 DEF PreferInbound
        <4>4. e.ses \in Ids BY <2>6, <4>1 DEF Live, Ids
        <4> QED BY <4>3, <4>4
      <3>8. turned' \subseteq Ids \X Ids /\ TurnedAgrees'
        <4>1. turned' \subseteq Ids \X Ids BY <3>3, <3>7 DEF SessionsTypeOK
        <4>2. ASSUME NEW a \in Ids, NEW b \in Ids, <<a, b>> \in turned'
              PROVE  (ses'[a].in = "over" /\ (b < a \/ ses'[b].in = "adopted")) \/ (ses'[b].in = "adopted" /\ b < a)
          <5>1. CASE <<a, b>> \in turned BY <5>1, <2>1, <3>5, <1>39
          <5>2. CASE <<a, b>> \notin turned
            <6>1. Live(d, e.ses) /\ a = e.ses /\ b = x BY <5>2, <4>2, <3>3
            <6> QED BY <6>1, <3>5, <3>7
          <5> QED BY <5>1, <5>2
        <4> QED BY <4>1, <4>2 DEF TurnedAgrees
      <3>9. SessionsTypeOK'
        <4>1. pool' \in Pools /\ served' \in [Devices -> SUBSET Ids] BY <3>2, <3>3, <3>4, <1>6 DEF Pools
        <4> QED BY <4>1, <3>5, <3>6, <3>8, <2>1 DEF SessionsTypeOK, Pools
      <3>10. Established(d, x)' /\ \A c \in Devices, y \in Ids : Key(c, y)' = Key(c, y)
        BY <3>5, <2>2 DEF Established, Key
      <3>11. ASSUME NEW c \in Devices, NEW y \in Ids, c # d \/ y # x PROVE Established(c, y)' <=> Established(c, y)
        <4>1. CASE y # x BY <4>1, <3>5, <2>1 DEF Established, Dials
        <4>2. CASE y = x /\ c # d
          <5>1. c = ses[x].dialer BY <4>2, <2>1, <2>2, <1>41
          <5> QED BY <5>1, <4>2, <3>5, <2>1 DEF Established, Dials
        <4> QED BY <4>1, <4>2, <3>11
      <3>12. ASSUME NEW c \in Devices PROVE OpAgrees(c)'
        <4>1. OpAgrees(c) BY DEF SessionsIInv
        <4>2. ASSUME NEW l \in Generations, op[c].pc \in {"dialing", "publish"}, op[c].gen = l, pool'[c][l].ses # 0
              PROVE  conn'[pool'[c][l].ses][c] # "up"
          <5>1. c # d \/ l # k BY <4>2, <2>5 DEF KeyFree
          <5>2. pool'[c][l] = pool[c][l] BY <5>1, <3>4, <1>6 DEF Pools
          <5>3. pool[c][l].ses \in Ids
            <6>1. pool[c][l].ses \in 0 .. MaxSessions BY <1>6 DEF Pools, PoolEntries
            <6> QED BY <6>1, <4>2, <5>2 DEF Ids
          <5>4. conn[pool[c][l].ses][c] # "up" BY <4>1, <4>2, <5>2, <5>3 DEF OpAgrees, Live
          <5> QED BY <5>2, <5>3, <5>4, <3>6
        <4> QED BY <4>1, <4>2, <2>1 DEF OpAgrees, Live
      <3>13. ASSUME NEW c \in Devices, NEW y \in Ids PROVE UseAgrees(c, y)'
        <4>1. UseAgrees(c, y) BY DEF SessionsIInv
        <4>2. Established(c, y) => Established(c, y)' BY <3>10, <3>11
        <4>3. Dials(c, y)' <=> Dials(c, y) BY <2>1 DEF Dials
        <4>4. CASE c = d /\ y = x
          <5>1. op[d].ses = x => Dials(d, x) BY <2>2, <1>38
          <5> QED BY <5>1, <4>1, <4>2, <4>3, <4>4, <3>5, <3>10, <2>1 DEF UseAgrees, Dials
        <4>5. CASE c # d \/ y # x
          <5>1. ASSUME Holds(c, y)' PROVE Holds(c, y) /\ EntryOf(c, y)' = EntryOf(c, y)
            <6>1. PICK l \in Generations : l = Key(c, y) BY <5>1, <3>10 DEF Holds
            <6>2. EntryOf(c, y) = pool[c][l] /\ EntryOf(c, y)' = pool'[c][l] /\ pool'[c][l].ses = y
              BY <6>1, <5>1, <3>10 DEF Holds, EntryOf
            <6>3. c # d \/ l # k
              <7>1. pool'[d][k] = f BY <3>2, <3>4, <1>6 DEF Pools
              <7> QED BY <7>1, <6>2, <3>2, <4>5
            <6>4. pool'[c][l] = pool[c][l] BY <6>3, <3>4, <1>6 DEF Pools
            <6> QED BY <6>1, <6>2, <6>4 DEF Holds
          <5> QED BY <5>1, <4>1, <4>2, <4>3, <3>5, <3>10, <2>1 DEF UseAgrees
        <4> QED BY <4>4, <4>5
      <3>14. ASSUME NEW c \in Devices, NEW y \in Ids PROVE InboundAgrees(c, y)'
        <4>1. InboundAgrees(c, y) BY DEF SessionsIInv
        <4>2. ses[x].dialer # "none" BY <2>1, <1>41, SessionsAssumption
        <4>3. CASE y # x BY <4>1, <4>3, <3>5, <3>6, <3>10, <2>1 DEF InboundAgrees
        <4>4. CASE y = x BY <4>1, <4>2, <4>4, <3>5, <3>6, <3>10, <2>1 DEF InboundAgrees
        <4> QED BY <4>3, <4>4
      <3>15. \A y \in Ids : ses[y].in = "adopted" => ses'[y].in = "adopted" BY <3>5
      <3>16. pool[d][k].ses # 0 => pool[d][k].ses \in doomed'[d] \/ conn'[pool[d][k].ses][d] # "up" BY <2>4, <3>6
      <3>17. Live(d, pool[d][k].ses) => pool[d][k].boot /\ ~pool[d][k].receiving BY <2>4, <3>7
      <3>18. /\ \A c \in Devices : doomed[c] \subseteq doomed'[c]
             /\ \A c \in Devices : op'[c] = op[c] \/ {op[c].pc, op'[c].pc} \cap {"open", "sending"} = {}
        BY <2>1
      <3>19. \A c \in Devices, y \in Ids : conn'[y][c] = conn[y][c] \/ (conn[y][c] = "up" /\ conn'[y][c] = "closed") BY <3>6
      <3>20. UNCHANGED <<gen, ending, job, sent, taken>> /\ TurnedAgrees' BY <2>1, <3>8
      <3>21. Placed(d, x, k) BY <2>2, <2>3, <3>10, <3>11, <3>15 DEF Placed
      <3>22. Replaced(d, k) BY <3>16, <3>17, <3>18, <3>19 DEF Replaced
      <3>23. InUse BY <3>12, <3>13, <3>14 DEF InUse
      <3> QED BY <1>48, <2>2, <2>3, <3>2, <3>4, <3>9, <3>20, <3>21, <3>22, <3>23, <1>47
    <2> QED BY <2>8, <2>9
  \* A dial that is over without its session in the pool: it is not open, or about to be closed.
  <1>DialOver. ASSUME NEW d \in Devices, NEW x \in Ids, Dials(d, x), ses[x].dialer = d, ~Established(d, x),
                 op' = [op EXCEPT ![d] = NoOp], UNCHANGED <<gen, ending, pool, job, sent, taken>>,
                 \A e \in Devices : doomed[e] \subseteq doomed'[e],
                 \A y \in Ids : /\ ses'[y].dialer = ses[y].dialer /\ ses'[y].gens = ses[y].gens
                                /\ ses'[y].in = "adopted" <=> ses[y].in = "adopted",
                 \A e \in Devices, y \in Ids : conn'[y][e] = conn[y][e] \/ (conn[y][e] = "up" /\ conn'[y][e] = "closed"),
                 conn'[x][d] = "up" => x \in doomed'[d],
                 SessionsTypeOK', TurnedAgrees', \A e \in Devices, y \in Ids : InboundAgrees(e, y)'
          PROVE  SessionsFollow
    <2>1. op' \in [Devices -> SessionOps] /\ op'[d] = NoOp /\ \A e \in Devices : e # d => op'[e] = op[e] BY <1>DialOver, <1>19, <1>22
    <2>2. ASSUME NEW e \in Devices, NEW y \in Ids
          PROVE  /\ Key(e, y)' = Key(e, y) /\ (Dials(e, y)' <=> Dials(e, y) /\ e # d) /\ (Established(e, y) => Established(e, y)')
                 /\ e # d \/ y # x => (Established(e, y)' => Established(e, y))
                 /\ Live(e, y)' => Live(e, y)
                 /\ Holds(e, y)' <=> Holds(e, y)
                 /\ EntryOf(e, y)' = EntryOf(e, y)
      <3>1. Key(e, y)' = Key(e, y) BY <1>DialOver DEF Key
      <3>2. Dials(e, y)' <=> Dials(e, y) /\ e # d BY <2>1, <1>22 DEF Dials
      <3>3. Established(e, y) => Established(e, y)' BY <3>2, <1>DialOver DEF Established
      <3>4. e # d \/ y # x => (Established(e, y)' => Established(e, y))
        <4>1. Dials(d, y) => y = x BY <1>DialOver DEF Dials
        <4> QED BY <4>1, <3>2, <1>DialOver DEF Established
      <3>5. Live(e, y)' => Live(e, y)
        <4>1. conn'[y][e] = "up" => conn[y][e] = "up" BY <1>DialOver
        <4> QED BY <4>1 DEF Live
      <3> QED BY <3>1, <3>2, <3>3, <3>4, <3>5, <1>DialOver DEF Holds, EntryOf
    <2>3. ASSUME NEW e \in Devices PROVE OpAgrees(e)'
      <3>1. OpAgrees(e) BY DEF SessionsIInv
      <3>2. ASSUME NEW k \in Generations, ~Live(e, pool[e][k].ses) PROVE ~Live(e, pool[e][k].ses)'
        <4>1. pool[e][k].ses \in 0 .. MaxSessions BY <1>6 DEF Pools, PoolEntries
        <4>2. pool[e][k].ses # 0 => pool[e][k].ses \in Ids BY <4>1 DEF Ids
        <4>3. pool[e][k].ses # 0 => (conn'[pool[e][k].ses][e] = "up" => conn[pool[e][k].ses][e] = "up") BY <4>2, <1>DialOver
        <4> QED BY <4>3, <3>2, <1>DialOver DEF Live
      <3>3. CASE e = d BY <3>3, <2>1, <1>22 DEF OpAgrees
      <3>4. CASE e # d BY <3>1, <3>2, <3>4, <2>1, <1>DialOver DEF OpAgrees
      <3> QED BY <3>3, <3>4
    <2>4. ASSUME NEW e \in Devices, NEW k \in Generations PROVE EntryAgrees(e, k)'
      <3>1. EntryAgrees(e, k) BY DEF SessionsIInv
      <3> QED BY <3>1, <2>2, <1>DialOver DEF EntryAgrees
    <2>5. ASSUME NEW e \in Devices, NEW y \in Ids PROVE UseAgrees(e, y)'
      <3>1. UseAgrees(e, y) BY DEF SessionsIInv
      <3>2. CASE e = d BY <3>1, <3>2, <2>1, <2>2, <1>22, <1>DialOver DEF UseAgrees
      <3>3. CASE e # d BY <3>1, <3>3, <2>1, <2>2, <1>DialOver DEF UseAgrees
      <3> QED BY <3>2, <3>3
    <2>6. ASSUME NEW e \in Devices, NEW y \in Ids PROVE LinkAgrees(e, y)'
      <3>1. LinkAgrees(e, y) BY DEF SessionsIInv
      <3>2. op[d].pc \in {"dialing", "publish"} BY <1>DialOver DEF Dials
      <3>3. Established(e, y)' /\ Live(e, y)' => Holds(e, y)' \/ y \in doomed'[e]
        <4>1. CASE e = d /\ y = x BY <4>1, <1>DialOver DEF Live
        <4>2. CASE e # d \/ y # x
          <5>1. y \in doomed[e] => y \in doomed'[e] BY <1>DialOver
          <5> QED BY <5>1, <4>2, <3>1, <2>2 DEF LinkAgrees
        <4> QED BY <4>1, <4>2
      <3>4. Moves(e, y)' => Moves(e, y) BY <2>1, <1>22, <1>DialOver DEF Moves
      <3>5. Current(e, y)' <=> Current(e, y) BY <2>2, <1>DialOver DEF Current
      <3>6. sent'[e][y] = "file" => op'[e].pc = "sending" /\ op'[e].ses = y BY <3>1, <3>2, <2>1, <1>DialOver DEF LinkAgrees
      <3>7. y \notin doomed'[e] => y \notin doomed[e] BY <1>DialOver
      <3> QED BY <3>1, <3>3, <3>4, <3>5, <3>6, <3>7, <2>2, <1>DialOver DEF LinkAgrees
    <2>7. ReservedKept BY <2>2 DEF ReservedKept, Reserved
    <2> QED BY <2>3, <2>4, <2>5, <2>6, <2>7, <1>DialOver DEF SessionsFollow, SessionsIInv
  \* The end of a dial.
  <1>49. ASSUME NEW d \in Devices, op[d].pc \in {"dialing", "publish"}
         PROVE  \E x \in Ids, k \in Generations :
                   /\ x = op[d].ses /\ k = op[d].gen /\ Key(d, x) = k /\ ses[x].dialer = d
                   /\ Dials(d, x) /\ ~Established(d, x) /\ ~Live(d, pool[d][k].ses)
    <2>1. OpAgrees(d) BY DEF SessionsIInv
    <2>2. PICK x \in Ids : x = op[d].ses BY <2>1, <1>49 DEF OpAgrees
    <2>3. PICK k \in Generations : k = op[d].gen BY <2>1, <1>49 DEF OpAgrees
    <2>4. Dials(d, x) BY <2>2, <1>49 DEF Dials
    <2>5. ses[x].dialer = d /\ Key(d, x) = k BY <2>3, <2>4 DEF SessionsIInv, UseAgrees
    <2>6. ~Established(d, x) BY <2>4, <2>5 DEF Established
    <2>7. ~Live(d, pool[d][k].ses) BY <2>1, <2>3, <1>49 DEF OpAgrees
    <2> QED BY <2>2, <2>3, <2>4, <2>5, <2>6, <2>7
  <1>50. ASSUME NEW d \in Devices, Publish(d) PROVE SessionsFollow
    <2>1. UNCHANGED <<gen, ending, ses, conn, job, sent, taken, turned>> /\ op[d].pc = "publish"
      BY <1>50 DEF Publish, grants, links
    <2>2. PICK x \in Ids, k \in Generations :
            /\ x = op[d].ses /\ k = op[d].gen /\ Key(d, x) = k /\ ses[x].dialer = d
            /\ Dials(d, x) /\ ~Established(d, x) /\ ~Live(d, pool[d][k].ses)
      BY <2>1, <1>49
    <2>3. PICK q \in SessionOps : q = op[d] BY <1>20
    <2>4. CASE closing[d] # "no"
      <3>1. /\ doomed' = [doomed EXCEPT ![d] = @ \cup {x}] /\ op' = [op EXCEPT ![d] = NoOp] /\ UNCHANGED <<pool, served>>
        BY <2>2, <2>4, <1>50 DEF Publish
      <3>2. doomed' \in [Devices -> SUBSET Ids] /\ x \in doomed'[d] /\ \A e \in Devices : doomed[e] \subseteq doomed'[e]
        BY <3>1, <1>12
      <3>3. op' \in [Devices -> SessionOps] /\ op'[d] = NoOp /\ \A e \in Devices : e # d => op'[e] = op[e] BY <3>1, <1>19, <1>22
      <3>4. SessionsTypeOK' BY <2>1, <3>1, <3>2, <3>3 DEF SessionsTypeOK
      <3>5. ASSUME NEW c \in Devices, NEW y \in Ids PROVE InboundAgrees(c, y)'
        <4>1. InboundAgrees(c, y) BY DEF SessionsIInv
        <4>2. op'[c] = op[c] \/ op[c].pc = "publish" BY <2>1, <3>3
        <4>3. Key(c, y)' = Key(c, y) BY <2>1 DEF Key
        <4> QED BY <4>1, <4>2, <4>3, <2>1 DEF InboundAgrees
      <3>6. TurnedAgrees' BY <2>1 DEF SessionsIInv, TurnedAgrees
      <3>7. UNCHANGED <<gen, ending, ses, conn, pool, job, sent, taken>> BY <2>1, <3>1
      <3> QED BY <2>2, <3>1, <3>2, <3>4, <3>5, <3>6, <3>7, <1>DialOver
    <2>5. CASE closing[d] = "no"
      <3>1. PICK f : f = Entry(x, TRUE, q.kind = "clip") OBVIOUS
      <3>2. PICK b \in BOOLEAN : b = (q.kind = "clip") OBVIOUS
      <3>3. f \in PoolEntries /\ f.ses = x /\ f.receiving = FALSE /\ f.boot = b BY <3>1, <3>2, <1>NewEntry
      <3>4. PICK p \in {"check", "release"} : p = IF q.kind = "file" THEN "check" ELSE "release" OBVIOUS
      <3>5. /\ pool' = Put(d, x, f) /\ served' = [served EXCEPT ![d] = @ \cup {x}]
            /\ doomed' = [doomed EXCEPT ![d] = @ \cup ({EntryOf(d, x).ses} \ {0, x})]
            /\ op' = [op EXCEPT ![d].pc = p]
        BY <2>2, <2>3, <2>5, <3>1, <3>4, <1>50 DEF Publish
      <3>6. pool' = [pool EXCEPT ![d][k] = f] /\ EntryOf(d, x) = pool[d][k] BY <2>2, <3>5 DEF Put, EntryOf
      <3>7. pool' \in Pools /\ pool'[d][k] = f /\ \A e \in Devices, l \in Generations : e # d \/ l # k => pool'[e][l] = pool[e][l]
        BY <3>3, <3>6, <1>6 DEF Pools
      <3>8. PICK o \in SessionOps : /\ op' = [op EXCEPT ![d] = o] /\ o.ses = x /\ o.gen = k /\ o.kind = q.kind /\ o.pc = p
        <4>1. PICK o : o = [q EXCEPT !.pc = p] OBVIOUS
        <4>2. o \in SessionOps /\ o.ses = q.ses /\ o.gen = q.gen /\ o.kind = q.kind /\ o.pc = p BY <4>1 DEF SessionOps
        <4>3. op' = [op EXCEPT ![d] = o] BY <3>5, <4>1, <2>3, <1>20
        <4> QED BY <4>2, <4>3, <2>2, <2>3
      <3>9. op' \in [Devices -> SessionOps] /\ op'[d] = o /\ \A e \in Devices : e # d => op'[e] = op[e] BY <3>8, <1>19
      <3>10. pool[d][k].ses \in 0 .. MaxSessions /\ \A l \in Generations : pool[d][l].ses # x
        BY <2>2, <1>38, <1>6 DEF Pools, PoolEntries
      <3>11. doomed' \in [Devices -> SUBSET Ids] /\ (\A e \in Devices : doomed[e] \subseteq doomed'[e])
             /\ (pool[d][k].ses # 0 => pool[d][k].ses \in doomed'[d])
        <4>1. PICK z : z = {pool[d][k].ses} \ {0, x} OBVIOUS
        <4>2. z \subseteq Ids /\ (pool[d][k].ses # 0 => pool[d][k].ses \in z) BY <4>1, <3>10 DEF Ids
        <4>3. doomed' = [doomed EXCEPT ![d] = @ \cup z] BY <3>5, <3>6, <4>1
        <4>4. doomed' \in [Devices -> SUBSET Ids] /\ doomed'[d] = doomed[d] \cup z /\ \A e \in Devices : doomed[e] \subseteq doomed'[e]
          BY <4>2, <4>3, <1>6
        <4> QED BY <4>2, <4>4
      <3>12. served' \in [Devices -> SUBSET Ids] BY <3>5, <1>6
      <3>13. SessionsTypeOK' BY <2>1, <3>7, <3>9, <3>11, <3>12 DEF SessionsTypeOK, Pools
      <3>14. \A c \in Devices, y \in Ids : Key(c, y)' = Key(c, y) BY <2>1 DEF Key
      <3>15. ASSUME NEW c \in Devices, NEW y \in Ids, c # d \/ y # x PROVE (Dials(c, y)' <=> Dials(c, y)) /\ (Established(c, y)' <=> Established(c, y))
        <4>1. Dials(c, y)' <=> Dials(c, y)
          <5>1. CASE c = d BY <5>1, <2>2, <3>8, <3>9, <3>15 DEF Dials
          <5>2. CASE c # d BY <5>2, <3>9 DEF Dials
          <5> QED BY <5>1, <5>2
        <4> QED BY <4>1, <2>1 DEF Established
      <3>16. ~Dials(d, x)' /\ Established(d, x)' BY <2>1, <2>2, <3>8, <3>9 DEF Dials, Established
      <3>17. Placed(d, x, k) BY <2>1, <2>2, <3>14, <3>15, <3>16 DEF Placed
      <3>18. Replaced(d, k)
        <4>1. \A c \in Devices : op'[c] = op[c] \/ {op[c].pc, op'[c].pc} \cap {"open", "sending"} = {}
          BY <2>1, <3>8, <3>9
        <4>2. \A c \in Devices, y \in Ids : conn'[y][c] = conn[y][c] BY <2>1
        <4> QED BY <4>1, <4>2, <2>2, <3>11 DEF Replaced
      <3>19. InUse
        <4>1. ASSUME NEW c \in Devices PROVE OpAgrees(c)'
          <5>1. OpAgrees(c) BY DEF SessionsIInv
          <5>2. CASE c = d BY <5>2, <3>8, <3>9 DEF OpAgrees
          <5>3. CASE c # d BY <5>1, <5>3, <3>7, <3>9, <2>1 DEF OpAgrees, Live
          <5> QED BY <5>2, <5>3
        <4>2. ASSUME NEW c \in Devices, NEW y \in Ids PROVE UseAgrees(c, y)'
          <5>1. UseAgrees(c, y) BY DEF SessionsIInv
          <5>2. CASE c = d /\ y = x
            <6>1. o.pc = "check" => o.kind = "file" /\ (Holds(d, x)' => ~EntryOf(d, x)'.boot)
              BY <2>2, <3>2, <3>3, <3>4, <3>7, <3>8, <3>14 DEF EntryOf
            <6> QED BY <6>1, <5>2, <3>8, <3>9, <3>16 DEF UseAgrees
          <5>3. CASE c = d /\ y # x BY <5>1, <5>3, <2>1, <3>8, <3>9, <3>15 DEF UseAgrees, Dials
          <5>4. CASE c # d
            <6>1. pool'[c] = pool[c] BY <5>4, <3>5, <1>6 DEF Put, Pools
            <6>2. (Holds(c, y)' <=> Holds(c, y)) /\ EntryOf(c, y)' = EntryOf(c, y) BY <6>1, <3>14 DEF Holds, EntryOf
            <6> QED BY <6>2, <5>1, <5>4, <2>1, <3>9, <3>14, <3>15 DEF UseAgrees
          <5> QED BY <5>2, <5>3, <5>4
        <4>3. ASSUME NEW c \in Devices, NEW y \in Ids PROVE InboundAgrees(c, y)'
          <5>1. InboundAgrees(c, y) BY DEF SessionsIInv
          <5>2. op'[c] = op[c] \/ op[c].pc = "publish" BY <2>1, <3>9
          <5> QED BY <5>1, <5>2, <2>1, <3>14 DEF InboundAgrees
        <4> QED BY <4>1, <4>2, <4>3 DEF InUse
      <3>20. TurnedAgrees' BY <2>1 DEF SessionsIInv, TurnedAgrees
      <3> QED BY <2>1, <2>2, <3>3, <3>6, <3>13, <3>17, <3>18, <3>19, <3>20, <1>47
    <2> QED BY <2>4, <2>5
  <1>51. ASSUME NEW d \in Devices, DialEnds(d) PROVE SessionsFollow
    <2>1. UNCHANGED <<gen, ending, pool, doomed, served, job, sent, taken, turned>> /\ op[d].pc = "dialing"
      BY <1>51 DEF DialEnds, grants
    <2>2. PICK x \in Ids, k \in Generations :
            /\ x = op[d].ses /\ k = op[d].gen /\ Key(d, x) = k /\ ses[x].dialer = d
            /\ Dials(d, x) /\ ~Established(d, x) /\ ~Live(d, pool[d][k].ses)
      BY <2>1, <1>49
    <2>3. \A y \in Ids : ses[y].in \in {"asked", "taken"} /\ ses[y].dialer = d => y = x
      BY <2>2 DEF SessionsIInv, InboundAgrees
    <2>4. d # "none" BY SessionsAssumption
    <2>5. CASE conn[x][d] = "none" /\ ses' = [ses EXCEPT ![x].in = "over"] /\ op' = [op EXCEPT ![d] = NoOp] /\ UNCHANGED conn
      <3>1. PICK r \in SessionRecords : r = ses[x] BY DEF SessionsTypeOK
      <3>2. PICK s : s = [r EXCEPT !.in = "over"] OBVIOUS
      <3>3. s \in SessionRecords /\ s.dialer = r.dialer /\ s.gens = r.gens /\ s.in = "over" BY <3>2 DEF SessionRecords
      <3>4. ses' = [ses EXCEPT ![x] = s] BY <2>5, <3>1, <3>2 DEF SessionsTypeOK
      <3>5. ses' \in [Ids -> SessionRecords] /\ ses'[x] = s /\ \A y \in Ids : y # x => ses'[y] = ses[y]
        BY <3>3, <3>4 DEF SessionsTypeOK
      <3>6. op' \in [Devices -> SessionOps] /\ op'[d] = NoOp /\ \A e \in Devices : e # d => op'[e] = op[e] BY <2>5, <1>19, <1>22
      <3>7. SessionsTypeOK' BY <2>1, <2>5, <3>5, <3>6 DEF SessionsTypeOK
      <3>8. r.in \in {"asked", "taken", "over"} /\ \A e \in Devices : conn[x][e] # "up"
        <4>1. \A e \in Devices : InboundAgrees(e, x) BY DEF SessionsIInv
        <4>2. r.in \in {"asked", "taken", "over"} BY <4>1, <2>2, <2>4, <2>5, <3>1 DEF InboundAgrees, SessionRecords
        <4>3. ASSUME NEW e \in Devices PROVE conn[x][e] # "up"
          <5>1. CASE e = d BY <5>1, <2>5
          <5>2. CASE e # d BY <5>2, <4>1, <4>2, <3>1, <2>2 DEF InboundAgrees
          <5> QED BY <5>1, <5>2
        <4> QED BY <4>2, <4>3
      <3>9. ASSUME NEW e \in Devices, NEW y \in Ids PROVE InboundAgrees(e, y)'
        <4>1. InboundAgrees(e, y) BY DEF SessionsIInv
        <4>2. Key(e, y)' = Key(e, y) BY <3>1, <3>3, <3>5 DEF Key
        <4>3. CASE y = x BY <4>1, <4>2, <4>3, <2>2, <2>4, <2>5, <3>1, <3>3, <3>5, <3>8 DEF InboundAgrees
        <4>4. CASE y # x
          <5>1. ses[y].in \in {"asked", "taken"} /\ ses[y].dialer = e => e # d BY <4>4, <2>3
          <5> QED BY <5>1, <4>1, <4>2, <4>4, <2>5, <3>5, <3>6 DEF InboundAgrees
        <4> QED BY <4>3, <4>4
      <3>10. TurnedAgrees'
        <4>1. CASE r.in = "over"
          <5>1. ses' = ses
            <6>1. s = r BY <4>1, <3>2 DEF SessionRecords
            <6> QED BY <6>1, <3>1, <3>4 DEF SessionsTypeOK
          <5> QED BY <5>1, <2>1 DEF SessionsIInv, TurnedAgrees
        <4>2. CASE r.in # "over" BY <4>2, <2>1, <3>1, <3>5, <3>8, <1>44
        <4> QED BY <4>1, <4>2
      <3>11. ASSUME NEW y \in Ids PROVE ses'[y].dialer = ses[y].dialer /\ ses'[y].gens = ses[y].gens
                                        /\ (ses'[y].in = "adopted" <=> ses[y].in = "adopted")
        BY <3>1, <3>3, <3>5, <3>8
      <3> QED BY <2>1, <2>2, <2>5, <3>7, <3>9, <3>10, <3>11, <1>DialOver
    <2>6. CASE conn[x][d] # "none" /\ conn' = Closed(d, x) /\ op' = [op EXCEPT ![d] = NoOp] /\ UNCHANGED ses
      <3>1. /\ conn' \in [Ids -> [Devices -> {"none", "up", "closed"}]] /\ conn'[x][d] # "up"
            /\ \A e \in Devices, y \in Ids : conn'[y][e] = conn[y][e] \/ (conn[y][e] = "up" /\ conn'[y][e] = "closed")
        BY <2>6, <1>14
      <3>2. op' \in [Devices -> SessionOps] /\ op'[d] = NoOp /\ \A e \in Devices : e # d => op'[e] = op[e] BY <2>6, <1>19, <1>22
      <3>3. SessionsTypeOK' BY <2>1, <2>6, <3>1, <3>2 DEF SessionsTypeOK
      <3>4. ASSUME NEW e \in Devices, NEW y \in Ids PROVE InboundAgrees(e, y)'
        <4>1. InboundAgrees(e, y) BY DEF SessionsIInv
        <4>2. Key(e, y)' = Key(e, y) BY <2>6 DEF Key
        <4>3. ses[y].in \in {"asked", "taken"} /\ ses[y].dialer = e => e # d
          <5>1. HAVE ses[y].in \in {"asked", "taken"} /\ ses[y].dialer = e
          <5>2. conn[y][e] = "none" BY <5>1, <4>1 DEF InboundAgrees
          <5> QED BY <5>1, <5>2, <2>3, <2>6
        <4> QED BY <4>1, <4>2, <4>3, <2>6, <3>1, <3>2 DEF InboundAgrees
      <3>5. TurnedAgrees' BY <2>1, <2>6 DEF SessionsIInv, TurnedAgrees
      <3> QED BY <2>1, <2>2, <2>6, <3>1, <3>3, <3>4, <3>5, <1>DialOver
    <2>7. CASE conn[x][d] # "none" /\ op' = [op EXCEPT ![d].pc = "publish"] /\ UNCHANGED <<ses, conn>>
      <3>1. PICK q \in SessionOps : q = op[d] BY <1>20
      <3>2. PICK o \in SessionOps : op' = [op EXCEPT ![d] = o] /\ o.pc = "publish" /\ o.ses = q.ses /\ o.gen = q.gen /\ o.kind = q.kind
        <4>1. PICK o : o = [q EXCEPT !.pc = "publish"] OBVIOUS
        <4>2. o \in SessionOps /\ o.pc = "publish" /\ o.ses = q.ses /\ o.gen = q.gen /\ o.kind = q.kind BY <4>1 DEF SessionOps
        <4>3. op' = [op EXCEPT ![d] = o] BY <4>1, <3>1, <2>7, <1>20
        <4> QED BY <4>2, <4>3
      <3>3. op' \in [Devices -> SessionOps] /\ op'[d] = o /\ \A e \in Devices : e # d => op'[e] = op[e] BY <3>2, <1>19
      <3>4. SessionsTypeOK' BY <2>1, <2>7, <3>3 DEF SessionsTypeOK
      <3>5. ASSUME NEW e \in Devices, NEW y \in Ids
            PROVE  /\ (Dials(e, y)' <=> Dials(e, y)) /\ (Established(e, y)' <=> Established(e, y)) /\ Key(e, y)' = Key(e, y)
                   /\ (Live(e, y)' <=> Live(e, y)) /\ (Holds(e, y)' <=> Holds(e, y)) /\ EntryOf(e, y)' = EntryOf(e, y)
                   /\ (Moves(e, y)' <=> Moves(e, y)) /\ (Current(e, y)' <=> Current(e, y))
        <4>1. Dials(e, y)' <=> Dials(e, y) BY <2>1, <3>1, <3>2, <3>3 DEF Dials
        <4>2. Moves(e, y)' <=> Moves(e, y) BY <2>1, <3>2, <3>3 DEF Moves
        <4> QED BY <4>1, <4>2, <2>1, <2>7 DEF Established, Key, Live, Holds, EntryOf, Current
      <3>6. ASSUME NEW e \in Devices PROVE OpAgrees(e)'
        <4>1. OpAgrees(e) BY DEF SessionsIInv
        <4>2. CASE e = d BY <4>1, <4>2, <2>1, <2>7, <3>1, <3>2, <3>3 DEF OpAgrees, Live
        <4>3. CASE e # d BY <4>1, <4>3, <2>1, <2>7, <3>3 DEF OpAgrees, Live
        <4> QED BY <4>2, <4>3
      <3>7. ASSUME NEW e \in Devices, NEW l \in Generations PROVE EntryAgrees(e, l)'
        <4>1. EntryAgrees(e, l) BY DEF SessionsIInv
        <4> QED BY <4>1, <3>5, <2>1 DEF EntryAgrees
      <3>8. ASSUME NEW e \in Devices, NEW y \in Ids PROVE UseAgrees(e, y)' /\ InboundAgrees(e, y)' /\ LinkAgrees(e, y)'
        <4>1. UseAgrees(e, y) /\ InboundAgrees(e, y) /\ LinkAgrees(e, y) BY DEF SessionsIInv
        <4>2. UseAgrees(e, y)'
          <5>1. CASE e = d BY <5>1, <4>1, <3>1, <3>2, <3>3, <3>5, <2>1, <2>7 DEF UseAgrees
          <5>2. CASE e # d BY <5>2, <4>1, <3>3, <3>5, <2>1, <2>7 DEF UseAgrees
          <5> QED BY <5>1, <5>2
        <4>3. InboundAgrees(e, y)'
          <5>1. ses[y].in \in {"asked", "taken"} /\ ses[y].dialer = e => e # d
            <6>1. HAVE ses[y].in \in {"asked", "taken"} /\ ses[y].dialer = e
            <6>2. conn[y][e] = "none" BY <6>1, <4>1 DEF InboundAgrees
            <6> QED BY <6>1, <6>2, <2>3, <2>7
          <5> QED BY <5>1, <4>1, <3>3, <3>5, <2>7 DEF InboundAgrees
        <4>4. LinkAgrees(e, y)'
          <5>1. sent'[e][y] = "file" => op'[e].pc = "sending" /\ op'[e].ses = y BY <4>1, <2>1, <3>3 DEF LinkAgrees
          <5> QED BY <5>1, <4>1, <3>5, <2>1, <2>7 DEF LinkAgrees
        <4> QED BY <4>2, <4>3, <4>4
      <3>9. TurnedAgrees' BY <2>1, <2>7 DEF SessionsIInv, TurnedAgrees
      <3>10. ReservedKept BY <3>5 DEF ReservedKept, Reserved
      <3> QED BY <3>4, <3>6, <3>7, <3>8, <3>9, <3>10 DEF SessionsFollow, SessionsIInv
    <2> QED BY <2>2, <2>5, <2>6, <2>7, <1>51 DEF DialEnds, links
  <1>52. ASSUME NEW d \in Devices, op[d].pc = "acquire", Dial(d),
                UNCHANGED <<gen, ending, conn, doomed, served, job, sent, taken, turned>>
         PROVE  SessionsFollow
    <2>1. PICK k \in Generations : k = op[d].gen BY <1>52 DEF SessionsIInv, OpAgrees
    <2>2. ~Live(d, pool[d][k].ses) /\ pool' = pool BY <2>1, <1>52 DEF Dial
    <2>3. PICK q \in SessionOps : q = op[d] BY <1>20
    <2>4. PICK g : g = [NoSession.gens EXCEPT ![d] = k] OBVIOUS
    <2>5. PICK s : s = [dialer |-> d, boot |-> q.kind = "clip", in |-> "asked", gens |-> g] OBVIOUS
    <2>6. PICK x \in Ids : /\ ses[x] = NoSession /\ ses' = [ses EXCEPT ![x] = s]
                           /\ op' = [op EXCEPT ![d].ses = x, ![d].pc = "dialing"]
      BY <2>1, <2>3, <2>4, <2>5, <1>52 DEF Dial
    <2>7. g \in [Devices -> 0 .. MaxGeneration] /\ g[d] = k /\ \A e \in Devices : e # d => g[e] = 0
      <3>1. k \in 0 .. MaxGeneration /\ 0 \in 0 .. MaxGeneration BY SessionsAssumption DEF Generations
      <3> QED BY <3>1, <2>4 DEF NoSession
    <2>8. s \in SessionRecords /\ s.dialer = d /\ s.in = "asked" /\ s.gens = g BY <2>5, <2>7 DEF SessionRecords
    <2>9. PICK o \in SessionOps : op' = [op EXCEPT ![d] = o] /\ o.pc = "dialing" /\ o.ses = x /\ o.gen = k
      <3>1. PICK o : o = [q EXCEPT !.ses = x, !.pc = "dialing"] OBVIOUS
      <3>2. x \in 0 .. MaxSessions BY SessionsAssumption DEF Ids
      <3>3. o \in SessionOps /\ o.pc = "dialing" /\ o.ses = x /\ o.gen = k BY <3>1, <3>2, <2>1, <2>3 DEF SessionOps
      <3>4. op' = [op EXCEPT ![d] = o] BY <3>1, <2>3, <2>6, <1>20
      <3> QED BY <3>3, <3>4
    <2>10. op' \in [Devices -> SessionOps] /\ op'[d] = o /\ \A e \in Devices : e # d => op'[e] = op[e] BY <2>9, <1>19
    <2>11. ses' \in [Ids -> SessionRecords] /\ ses'[x] = s /\ \A y \in Ids : y # x => ses'[y] = ses[y]
      BY <2>6, <2>8 DEF SessionsTypeOK
    <2>12. SessionsTypeOK' BY <2>2, <2>10, <2>11, <1>52 DEF SessionsTypeOK
    <2>13. ses[x].dialer = "none" /\ ses[x].in = "none" /\ d # "none" /\ \A e \in Devices : e # "none"
      BY <2>6, SessionsAssumption DEF NoSession
    <2>14. ASSUME NEW e \in Devices
           PROVE  /\ (\A l \in Generations : pool[e][l].ses # x) /\ ~Holds(e, x) /\ job[e] # x
                  /\ sent[e][x] = "no" /\ taken[e][x] = "no" /\ op[e].ses # x /\ ~Established(e, x) /\ conn[x][e] = "none"
      <3>1. ~Established(e, x) BY <2>13 DEF Established
      <3>2. ~Dials(e, x) BY <2>13 DEF SessionsIInv, UseAgrees
      <3>3. conn[x][e] = "none" BY <2>13 DEF SessionsIInv, InboundAgrees
      <3> QED BY <3>1, <3>2, <3>3, <1>38
    <2>15. ASSUME NEW e \in Devices, NEW y \in Ids, y # x
           PROVE  /\ (Dials(e, y)' <=> Dials(e, y)) /\ (Established(e, y)' <=> Established(e, y)) /\ Key(e, y)' = Key(e, y)
                  /\ (Live(e, y)' <=> Live(e, y)) /\ (Holds(e, y)' <=> Holds(e, y)) /\ EntryOf(e, y)' = EntryOf(e, y)
                  /\ (Moves(e, y)' <=> Moves(e, y)) /\ (Current(e, y)' <=> Current(e, y))
      <3>1. Key(e, y)' = Key(e, y) BY <2>11, <2>15 DEF Key
      <3>2. Dials(e, y)' <=> Dials(e, y)
        <4>1. CASE e = d BY <4>1, <2>9, <2>10, <2>15, <1>52 DEF Dials
        <4>2. CASE e # d BY <4>2, <2>10 DEF Dials
        <4> QED BY <4>1, <4>2
      <3>3. Moves(e, y)' <=> Moves(e, y)
        <4>1. CASE e = d BY <4>1, <2>9, <2>10, <1>52 DEF Moves
        <4>2. CASE e # d BY <4>2, <2>10, <1>52 DEF Moves
        <4> QED BY <4>1, <4>2
      <3> QED BY <3>1, <3>2, <3>3, <2>2, <2>11, <2>15, <1>52 DEF Established, Live, Holds, EntryOf, Current
    <2>16. ASSUME NEW e \in Devices PROVE ~Established(e, x)' /\ (Dials(e, x)' <=> e = d)
      <3>1. Dials(e, x)' <=> e = d BY <2>9, <2>10, <2>14 DEF Dials
      <3> QED BY <3>1, <2>8, <2>11 DEF Established
    <2>17. ASSUME NEW e \in Devices PROVE OpAgrees(e)'
      <3>1. OpAgrees(e) BY DEF SessionsIInv
      <3>2. CASE e = d BY <3>2, <2>2, <2>9, <2>10, <1>52 DEF OpAgrees, Live
      <3>3. CASE e # d BY <3>1, <3>3, <2>2, <2>10, <1>52 DEF OpAgrees, Live
      <3> QED BY <3>2, <3>3
    <2>18. ASSUME NEW e \in Devices, NEW l \in Generations PROVE EntryAgrees(e, l)'
      <3>1. EntryAgrees(e, l) BY DEF SessionsIInv
      <3> QED BY <3>1, <2>2, <2>14, <2>15, <1>52 DEF EntryAgrees
    <2>19. ASSUME NEW e \in Devices, NEW y \in Ids PROVE UseAgrees(e, y)' /\ InboundAgrees(e, y)' /\ LinkAgrees(e, y)'
      <3>1. UseAgrees(e, y) /\ InboundAgrees(e, y) /\ LinkAgrees(e, y) BY DEF SessionsIInv
      <3>2. CASE y = x
        <4>1. Key(e, x)' = g[e] BY <2>8, <2>11 DEF Key
        <4>2. UseAgrees(e, x)'
          <5>1. CASE e = d BY <5>1, <4>1, <2>7, <2>8, <2>9, <2>10, <2>11, <2>14, <1>52 DEF UseAgrees
          <5>2. CASE e # d BY <5>2, <2>10, <2>14, <2>16, <1>52 DEF UseAgrees
          <5> QED BY <5>1, <5>2
        <4>3. InboundAgrees(e, x)'
          BY <4>1, <2>7, <2>8, <2>9, <2>10, <2>11, <2>13, <2>14, <1>52 DEF InboundAgrees
        <4>4. ~Moves(e, x)'
          <5>1. CASE e = d BY <5>1, <2>9, <2>10, <2>14, <1>52 DEF Moves
          <5>2. CASE e # d BY <5>2, <2>10, <2>14, <1>52 DEF Moves
          <5> QED BY <5>1, <5>2
        <4>5. LinkAgrees(e, x)' BY <4>4, <2>14, <2>16, <1>52 DEF LinkAgrees
        <4> QED BY <3>2, <4>2, <4>3, <4>5
      <3>3. CASE y # x
        <4>1. op'[e].ses = y => op'[e] = op[e] BY <2>9, <2>10, <3>3
        <4>2. UseAgrees(e, y)' BY <4>1, <3>1, <3>3, <2>11, <2>15, <1>52 DEF UseAgrees, Dials
        <4>3. InboundAgrees(e, y)'
          <5>1. op[e].pc = "dialing" => op'[e] = op[e] BY <2>10, <1>52
          <5> QED BY <5>1, <3>1, <3>3, <2>11, <2>15, <1>52 DEF InboundAgrees
        <4>4. LinkAgrees(e, y)'
          <5>1. sent'[e][y] = "file" => op'[e].pc = "sending" /\ op'[e].ses = y BY <3>1, <2>10, <1>52 DEF LinkAgrees
          <5> QED BY <5>1, <3>1, <3>3, <2>11, <2>15, <1>52 DEF LinkAgrees
        <4> QED BY <4>2, <4>3, <4>4
      <3> QED BY <3>2, <3>3
    <2>20. TurnedAgrees' BY <2>11, <2>13, <1>52, <1>44
    <2>21. ReservedKept
      <3>1. ASSUME NEW e \in Devices, NEW y \in Ids PROVE Holds(e, y) => Holds(e, y)' BY <2>14, <2>15
      <3> QED BY <3>1 DEF ReservedKept, Reserved
    <2> QED BY <2>12, <2>17, <2>18, <2>19, <2>20, <2>21 DEF SessionsFollow, SessionsIInv
  <1>53. ASSUME NEW d \in Devices, Acquire(d) PROVE SessionsFollow
    BY <1>53, <1>24, <1>25, <1>52 DEF Acquire, grants
  <1>54. CASE SessionsNext
    <2>1. ASSUME NEW d \in Devices,
                 Users(d) \/ OpStep(d) \/ EndJob(d) \/ ClosePool(d) \/ ShutdownEnds(d) \/ Timers(d)
          PROVE  SessionsFollow
      BY <2>1, <1>8, <1>9, <1>11, <1>13, <1>16, <1>17, <1>23, <1>26, <1>29, <1>30, <1>31, <1>33, <1>34, <1>50, <1>51, <1>53
         DEF Users, OpStep, Timers
    <2>2. ASSUME NEW d \in Devices, NEW k \in Generations, Prune(d, k) PROVE SessionsFollow BY <2>2, <1>13
    <2>3. ASSUME NEW d \in Devices, NEW x \in Ids,
                 \/ Stream(d, x) \/ ServeEnds(d, x) \/ CloseDoomed(d, x) \/ SeeClosed(d, x)
                 \/ PathChanges(d, x) \/ SendLease(d, x) \/ StopLease(d, x) \/ TakeLease(d, x) \/ LeaseLapses(d, x)
          PROVE  SessionsFollow
      BY <2>3, <1>7, <1>10, <1>15, <1>35, <1>36, <1>37 DEF Stream
    <2>4. ASSUME NEW x \in Ids, Inbound(x) PROVE SessionsFollow BY <2>4, <1>42, <1>45, <1>46, <1>48 DEF Inbound
    <2> QED BY <1>54, <2>1, <2>2, <2>3, <2>4 DEF SessionsNext
  <1>55. CASE UNCHANGED sessionVars
    <2>1. UNCHANGED <<gen, ending, ses, conn, op, job, sent, taken, turned, served, doomed, pool>>
      BY <1>55 DEF sessionVars, grants, links, users
    <2> QED BY <2>1, <1>3, <1>4, <1>6
  <1> QED BY <1>54, <1>55

-----------------------------------------------------------------------------
(* Sessions: theorems *)

\* Every open session that is through its dial is in the pools of both ends or
\* about to be closed, no file moves under a grant whose end is complete, and two
\* clipboard dials that crossed never close each other's session: in every state.
THEOREM SessionsHold == SessionsSpec => [](SessionsTypeOK /\ SessionsIInv /\ SessionsInv)
  <1>1. SessionsInit => SessionsTypeOK /\ SessionsIInv
    <2> SUFFICES ASSUME SessionsInit PROVE SessionsTypeOK /\ SessionsIInv OBVIOUS
    <2>1. 0 \in 0 .. MaxSessions /\ 0 \in 0 .. MaxGeneration /\ 1 \in Generations /\ \A x \in Ids : x # 0
      BY SessionsAssumption DEF Generations, Ids
    <2>2. PICK n : n = NoEntry OBVIOUS
    <2>3. n \in PoolEntries /\ n.ses = 0 /\ ~n.timer /\ ~n.late /\ ~n.receiving BY <2>1, <2>2 DEF NoEntry, PoolEntries
    <2>4. PICK o : o = NoOp OBVIOUS
    <2>5. o \in SessionOps /\ o.pc = "idle" /\ o.ses = 0 /\ o.kind = "none" BY <2>1, <2>4 DEF NoOp, SessionOps
    <2>6. PICK s : s = NoSession OBVIOUS
    <2>7. s \in SessionRecords /\ s.dialer = "none" /\ s.in = "none" /\ \A d \in Devices : s.gens[d] = 0
      BY <2>1, <2>6 DEF NoSession, SessionRecords
    <2>8. \A d \in Devices, k \in Generations : pool[d][k] = n BY <2>2 DEF SessionsInit
    <2>9. \A d \in Devices : op[d] = o /\ job[d] = 0 BY <2>4 DEF SessionsInit
    <2>10. \A x \in Ids : ses[x] = s BY <2>6 DEF SessionsInit
    <2>11. \A d \in Devices, x \in Ids : conn[x][d] = "none" /\ sent[d][x] = "no" /\ taken[d][x] = "no" BY DEF SessionsInit
    <2>12. SessionsTypeOK
      BY <2>1, <2>2, <2>3, <2>4, <2>5, <2>6, <2>7 DEF SessionsInit, SessionsTypeOK
    <2>13. \A d \in Devices, x \in Ids : ~Established(d, x) /\ ~Dials(d, x) /\ d # "none"
      BY <2>1, <2>5, <2>7, <2>9, <2>10, SessionsAssumption DEF Established, Dials
    <2>14. \A d \in Devices : OpAgrees(d) BY <2>5, <2>9 DEF OpAgrees
    <2>15. \A d \in Devices, k \in Generations : EntryAgrees(d, k) BY <2>1, <2>3, <2>8 DEF EntryAgrees
    <2>16. \A d \in Devices, x \in Ids : UseAgrees(d, x) BY <2>1, <2>5, <2>9, <2>13 DEF UseAgrees
    <2>17. \A d \in Devices, x \in Ids : InboundAgrees(d, x) BY <2>6, <2>7, <2>10, <2>11, <2>13 DEF InboundAgrees
    <2>18. \A d \in Devices, x \in Ids : LinkAgrees(d, x) BY <2>5, <2>9, <2>11, <2>13 DEF LinkAgrees, Moves
    <2>19. TurnedAgrees BY DEF SessionsInit, TurnedAgrees
    <2> QED BY <2>12, <2>14, <2>15, <2>16, <2>17, <2>18, <2>19 DEF SessionsIInv
  <1>2. SessionsTypeOK /\ SessionsIInv /\ [SessionsNext]_sessionVars => SessionsTypeOK' /\ SessionsIInv'
    BY SessionsKeep DEF SessionsFollow
  <1>3. SessionsTypeOK /\ SessionsIInv => SessionsInv
    <2> SUFFICES ASSUME SessionsTypeOK, SessionsIInv PROVE SessionsInv OBVIOUS
    <2>1. LiveIsPooled
      <3>1. ASSUME NEW x \in Ids, Settled(x), NEW d \in Devices PROVE Holds(d, x)
        <4>1. Live(d, x) /\ x \notin doomed[d] /\ ~Dials(d, x) BY <3>1 DEF Settled, Dials
        <4>2. Established(d, x)
          <5>1. InboundAgrees(d, x) BY DEF SessionsIInv
          <5> QED BY <5>1, <4>1, <3>1 DEF Established, InboundAgrees, Settled, Live
        <4> QED BY <4>1, <4>2 DEF SessionsIInv, LinkAgrees
      <3> QED BY <3>1 DEF LiveIsPooled
    <2>2. WithdrawalStopsFiles
      <3>1. ASSUME NEW d \in Devices, NEW x \in Ids, d \notin ending, ~Current(d, x), Live(d, x), x \notin doomed[d]
            PROVE  sent[d][x] # "file" /\ taken[d][x] # "file"
        <4>1. LinkAgrees(d, x) BY DEF SessionsIInv
        <4> QED BY <4>1, <3>1 DEF LinkAgrees, Moves
      <3> QED BY <3>1 DEF WithdrawalStopsFiles
    <2>3. ClipboardDialsConverge
      <3>1. ASSUME NEW x \in Ids, NEW y \in Ids, <<x, y>> \in turned, <<y, x>> \in turned PROVE FALSE
        <4>1. x \in Nat /\ y \in Nat BY SessionsAssumption DEF Ids
        <4> QED BY <4>1, <3>1 DEF SessionsIInv, TurnedAgrees
      <3> QED BY <3>1 DEF ClipboardDialsConverge
    <2> QED BY <2>1, <2>2, <2>3 DEF SessionsInv
  <1> QED BY <1>1, <1>2, <1>3, PTL DEF SessionsSpec

\* A reserved session whose connection lives leaves the pool only by its release,
\* with its grant, at the program's end, or as an unused bootstrap to the dial
\* that crossed it: in every step.
THEOREM ReservationsHold == SessionsSpec => ReservedStays
  <1>1. SessionsTypeOK /\ SessionsIInv /\ [SessionsNext]_sessionVars =>
          [\A d \in Devices, x \in Ids :
             Reserved(d, x) /\ Live(d, x) /\ ~Holds(d, x)' =>
                 \/ d \in ending \/ closing[d] # "no"
                 \/ op[d].pc = "release" /\ op[d].ses = x
                 \/ EntryOf(d, x).boot /\ ~EntryOf(d, x).receiving /\ ~(op[d].kind = "file" /\ op[d].ses = x)
                 \/ job[d] = x /\ job'[d] = 0]_sessionVars
    BY SessionsKeep DEF SessionsFollow, ReservedKept
  <1> QED BY <1>1, SessionsHold, PTL DEF SessionsSpec, ReservedStays
=============================================================================
