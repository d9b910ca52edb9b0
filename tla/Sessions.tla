------------------------------ MODULE Sessions ------------------------------
(***************************************************************************)
(* The pool of direct sessions at two devices in one local network         *)
(* (internal/app/direct_pool.go, direct.go, lan.go and the leases of       *)
(* clipboard_transport.go).  A session is one QUIC connection that either  *)
(* device dialled; each keeps at most one per generation of its grant,     *)
(* reserves it for the file it sends, serves the streams the other opens,  *)
(* holds it while clipboard leases are in force, and closes it when        *)
(* nothing has used it for a while.                                        *)
(*                                                                         *)
(* Nothing arbitrates between dials in a local network: both devices may   *)
(* dial at once, and a closure is seen at the other end only later.  A     *)
(* session's number stands for its random identifier: a new session may    *)
(* have any number not used before.  Time is left out: a timer that is set *)
(* may fire at any time, and a dial may give up at any time.               *)
(***************************************************************************)
EXTENDS Naturals

CONSTANTS
    Devices,            \* the two devices
    MaxSessions,        \* sessions ever dialled
    MaxGeneration,      \* generations of a grant
    SessionScenarios    \* what the users and the network may do: see SessionsInit

ASSUME SessionsAssumption ==
    /\ \E p, q \in Devices : p # q /\ Devices = {p, q}
    /\ "none" \notin Devices
    /\ MaxSessions \in Nat /\ MaxGeneration \in Nat \ {0}

VARIABLES
    gen,      \* the generation of the grant each device gives the other
    ending,   \* devices that withdrew a grant and have yet to close its sessions
    paused,   \* devices whose clipboard is paused
    closing,  \* Service.ShutdownContext: "no", "closing", "closed" (the pool), "done"
    ses,      \* the sessions: who dialled, for what, under which generations, where the inbound side is
    conn,     \* the connection of each session as each end sees it
    pool,     \* Service.directPool: an entry per generation
    doomed,   \* sessions taken out of the pool that are about to be closed
    served,   \* sessions with the goroutines of startPooledPeerServerLocked
    op,       \* the file task or clipboard dial of each device
    job,      \* the session on which the device's clipboard job sends files
    sent,     \* the stream each device opened on each session
    taken,    \* the stream each device serves on each session
    lease,    \* leases on their way, to a device on a session
    turned,   \* history: pairs of sessions of which an adoption kept the second and closed the first,
              \* the one in the pool being a clipboard dial that nothing had used yet
    left      \* what may still happen (bounds)

grants == <<gen, ending, paused, closing>>
links == <<ses, conn>>
users == <<op, job, sent, taken>>
sessionVars == <<grants, links, pool, doomed, served, users, lease, turned, left>>

Ids == 1 .. MaxSessions
Generations == 1 .. MaxGeneration
Other(d) == CHOOSE e \in Devices : e # d
Spend(what, d) == left[what][d] > 0 /\ left' = [left EXCEPT ![what][d] = @ - 1]

NoEntry == [ses |-> 0, inUse |-> FALSE, receiving |-> FALSE, send |-> FALSE, recv |-> FALSE,
            boot |-> FALSE, timer |-> FALSE, late |-> FALSE]
NoOp == [pc |-> "idle", kind |-> "none", gen |-> 0, ses |-> 0, again |-> FALSE, res |-> "ok"]
NoSession == [dialer |-> "none", boot |-> FALSE, gens |-> [d \in Devices |-> 0], in |-> "none"]

Live(d, x) == x # 0 /\ conn[x][d] = "up"
Key(d, x) == ses[x].gens[d]
EntryOf(d, x) == pool[d][Key(d, x)]
Holds(d, x) == Key(d, x) \in Generations /\ EntryOf(d, x).ses = x
Current(d, x) == Key(d, x) = gen[d]

\* taskManager.hasActive: a file is sent, or one is received.
Active(d) ==
    \/ op[d].kind = "file"
    \/ \E x \in Ids : taken[d][x] = "file"

\* schedulePoolIdleLocked.  A timer stopped too late has its callback under way.
Unused(e) == ~e.inUse /\ ~e.receiving /\ ~e.send /\ ~e.recv
Scheduled(e) == [e EXCEPT !.timer = @ \/ Unused(e)]
Busy(e) == [e EXCEPT !.timer = FALSE]

Entry(x, held, boot) == [NoEntry EXCEPT !.ses = x, !.inUse = held, !.boot = boot]
Put(d, x, e) == [pool EXCEPT ![d][Key(d, x)] = e]
EntryDropped(d, x) == IF Holds(d, x) THEN Put(d, x, NoEntry) ELSE pool
Closed(d, x) == [conn EXCEPT ![x][d] = IF @ = "up" THEN "closed" ELSE @]

\* The mutex of a key is held by the dial under it, from the look into the pool
\* to the publication, and by adoptions.
KeyFree(d, k) == ~(op[d].pc \in {"dialing", "publish"} /\ op[d].gen = k)

-----------------------------------------------------------------------------
(* Acquiring a session *)

\* startSend: the task takes the grant's generation and becomes the active one.
StartFile(d) ==
    /\ op[d].pc = "idle" /\ ~Active(d) /\ closing[d] = "no"
    /\ Spend("file", d)
    /\ op' = [op EXCEPT ![d] = [NoOp EXCEPT !.pc = "acquire", !.kind = "file", !.gen = gen[d], !.again = TRUE]]
    /\ UNCHANGED <<grants, links, pool, doomed, served, job, sent, taken, lease, turned>>

\* EnsureClipboardSessions, for one target whose session is not healthy.
StartClipboardDial(d) ==
    /\ op[d].pc = "idle" /\ ~Active(d) /\ closing[d] = "no" /\ d \notin paused
    /\ ~Live(d, pool[d][gen[d]].ses)
    /\ Spend("clip", d)
    /\ op' = [op EXCEPT ![d] = [NoOp EXCEPT !.pc = "acquire", !.kind = "clip", !.gen = gen[d]]]
    /\ UNCHANGED <<grants, links, pool, doomed, served, job, sent, taken, lease, turned>>

\* acquirePeerSession up to the dial: a reservation in use refuses, a live
\* session is reserved and its generation checked again, and else one is dialled.
Reuse(d) ==
    LET e == pool[d][op[d].gen]  ok == op[d].gen = gen[d] IN
    /\ Live(d, e.ses) /\ ~e.inUse
    /\ pool' = [pool EXCEPT ![d][op[d].gen] = Busy([e EXCEPT !.inUse = TRUE, !.boot = @ /\ op[d].kind = "clip"])]
    /\ op' = [op EXCEPT ![d].ses = e.ses, ![d].res = IF ok THEN "ok" ELSE "bad",
                        ![d].pc = IF ok /\ op[d].kind = "file" THEN "check" ELSE "release"]
    /\ UNCHANGED <<ses, left>>

\* ConnectDirect: the grant is checked before the peer is dialled.
Dial(d) ==
    LET e == pool[d][op[d].gen] IN
    /\ ~Live(d, e.ses) /\ ~e.inUse /\ op[d].gen = gen[d] /\ Spend("dial", d)
    /\ \E x \in {y \in Ids : ses[y] = NoSession} :
         /\ ses' = [ses EXCEPT ![x] = [dialer |-> d, boot |-> op[d].kind = "clip", in |-> "asked",
                                       gens |-> [NoSession.gens EXCEPT ![d] = op[d].gen]]]
         /\ op' = [op EXCEPT ![d].ses = x, ![d].pc = "dialing"]
    /\ UNCHANGED pool

CannotAcquire(d) ==
    LET e == pool[d][op[d].gen] IN
    /\ \/ closing[d] # "no"
       \/ e.inUse
       \/ ~Live(d, e.ses) /\ op[d].gen # gen[d]
       \/ ~Live(d, e.ses) /\ left.dial[d] = 0     \* bound
    /\ op' = [op EXCEPT ![d] = NoOp]
    /\ UNCHANGED <<ses, pool, left>>

Acquire(d) ==
    /\ op[d].pc = "acquire"
    /\ CannotAcquire(d) \/ (closing[d] = "no" /\ (Reuse(d) \/ Dial(d)))
    /\ UNCHANGED <<grants, conn, doomed, served, job, sent, taken, lease, turned>>

\* The end of ConnectDirect: it gives up, or the grant is checked once more.
\* A dial given up takes the other side's half of the handshake with it.
DialEnds(d) ==
    LET x == op[d].ses IN
    /\ op[d].pc = "dialing"
    /\ \/ /\ conn[x][d] = "none"
          /\ ses' = [ses EXCEPT ![x].in = "over"] /\ op' = [op EXCEPT ![d] = NoOp] /\ UNCHANGED conn
       \/ /\ conn[x][d] # "none" /\ ~Current(d, x)
          /\ conn' = Closed(d, x) /\ op' = [op EXCEPT ![d] = NoOp] /\ UNCHANGED ses
       \/ /\ conn[x][d] # "none" /\ Current(d, x)
          /\ op' = [op EXCEPT ![d].pc = "publish"] /\ UNCHANGED links
    /\ UNCHANGED <<grants, pool, doomed, served, job, sent, taken, lease, turned, left>>

\* The end of acquirePeerSession: the entry that is still there is replaced and
\* its session closed.  A clipboard dial is released at once.
Publish(d) ==
    LET x == op[d].ses  old == EntryOf(d, x).ses IN
    /\ op[d].pc = "publish"
    /\ IF closing[d] # "no"
       THEN /\ doomed' = [doomed EXCEPT ![d] = @ \cup {x}] /\ op' = [op EXCEPT ![d] = NoOp]
            /\ UNCHANGED <<pool, served>>
       ELSE /\ pool' = Put(d, x, Entry(x, TRUE, op[d].kind = "clip"))
            /\ served' = [served EXCEPT ![d] = @ \cup {x}]
            /\ doomed' = [doomed EXCEPT ![d] = @ \cup ({old} \ {0, x})]
            /\ op' = [op EXCEPT ![d].pc = IF op[d].kind = "file" THEN "check" ELSE "release"]
    /\ UNCHANGED <<grants, links, job, sent, taken, lease, turned, left>>

-----------------------------------------------------------------------------
(* Sending over a session, and letting it go *)

\* Mutant: the reservation is proof enough.
Unchecked(d) ==
    /\ op[d].pc = "check"
    /\ op' = [op EXCEPT ![d].pc = "open"]
    /\ UNCHANGED <<grants, links, pool, doomed, served, job, sent, taken, lease, turned, left>>

\* sendPreparedOverPeerAttempt checks the generation before it opens a stream.
Check(d) ==
    /\ op[d].pc = "check"
    /\ op' = [op EXCEPT ![d].pc = IF Current(d, op[d].ses) THEN "open" ELSE "release",
                        ![d].res = IF Current(d, op[d].ses) THEN "ok" ELSE "bad"]
    /\ UNCHANGED <<grants, links, pool, doomed, served, job, sent, taken, lease, turned, left>>

\* A session that turns out closed before the offer is replaced, once.
Open(d) ==
    LET x == op[d].ses IN
    /\ op[d].pc = "open"
    /\ \/ /\ Live(d, x)
          /\ sent' = [sent EXCEPT ![d][x] = "file"] /\ op' = [op EXCEPT ![d].pc = "sending"]
          /\ UNCHANGED <<pool, doomed>>
       \/ /\ ~Live(d, x) /\ op[d].again
          /\ op' = [op EXCEPT ![d].pc = "acquire", ![d].again = FALSE, ![d].ses = 0]
          /\ pool' = EntryDropped(d, x) /\ doomed' = [doomed EXCEPT ![d] = @ \cup {x}] /\ UNCHANGED sent
       \/ /\ ~Live(d, x) /\ ~op[d].again
          /\ op' = [op EXCEPT ![d].pc = "release", ![d].res = "bad"] /\ UNCHANGED <<pool, doomed, sent>>
    /\ UNCHANGED <<grants, links, served, job, taken, lease, turned, left>>

\* reusablePeerStreamResult: an answer of the receiver, a refusal or a
\* cancellation leaves the session usable; a broken connection does not, and
\* neither does a failure of this side.
SendEnds(d) ==
    LET x == op[d].ses IN
    /\ op[d].pc = "sending"
    /\ \/ (sent[d][x] = "over" \/ ~Current(d, x) \/ closing[d] # "no")
          /\ op' = [op EXCEPT ![d].pc = "release", ![d].res = "ok"] /\ UNCHANGED left
       \/ ~Live(d, x) /\ op' = [op EXCEPT ![d].pc = "release", ![d].res = "bad"] /\ UNCHANGED left
       \/ Spend("fault", d) /\ op' = [op EXCEPT ![d].pc = "release", ![d].res = "bad"]
    /\ sent' = [sent EXCEPT ![d][x] = "no"]
    /\ UNCHANGED <<grants, links, pool, doomed, served, job, taken, lease, turned>>

\* releasePeerSession
Let(d, x, reusable) ==
    IF ~reusable \/ ~Live(d, x)
    THEN pool' = EntryDropped(d, x) /\ doomed' = [doomed EXCEPT ![d] = @ \cup {x}]
    ELSE IF ~Holds(d, x)
    THEN doomed' = [doomed EXCEPT ![d] = @ \cup {x}] /\ UNCHANGED pool
    ELSE pool' = Put(d, x, Scheduled([EntryOf(d, x) EXCEPT !.inUse = FALSE])) /\ UNCHANGED doomed

Release(d) ==
    /\ op[d].pc = "release"
    /\ Let(d, op[d].ses, op[d].res = "ok")
    /\ op' = [op EXCEPT ![d] = NoOp]
    /\ UNCHANGED <<grants, links, served, job, sent, taken, lease, turned, left>>

\* sendClipboardFile reserves the session the copy was offered on; it never dials.
StartJob(d) ==
    LET x == pool[d][gen[d]].ses IN
    /\ job[d] = 0 /\ Live(d, x) /\ closing[d] = "no" /\ d \notin paused
    /\ EntryOf(d, x).send /\ ~EntryOf(d, x).inUse /\ ~EntryOf(d, x).receiving
    /\ Spend("job", d)
    /\ pool' = Put(d, x, Busy([EntryOf(d, x) EXCEPT !.inUse = TRUE]))
    /\ job' = [job EXCEPT ![d] = x] /\ sent' = [sent EXCEPT ![d][x] = "copy"]
    /\ UNCHANGED <<grants, links, doomed, served, op, taken, lease, turned>>

EndJob(d) ==
    LET x == job[d] IN
    /\ x # 0
    /\ sent[d][x] = "over" \/ ~Live(d, x) \/ ~Current(d, x) \/ closing[d] # "no" \/ d \in paused
    /\ KeyFree(d, Key(d, x)) \/ ~Live(d, x)
    /\ Let(d, x, TRUE)
    /\ job' = [job EXCEPT ![d] = 0] /\ sent' = [sent EXCEPT ![d][x] = "no"]
    /\ UNCHANGED <<grants, links, served, op, taken, lease, turned, left>>

-----------------------------------------------------------------------------
(* The inbound side *)

\* runLANDiscovery and receiveLANSession: a device with an active task turns
\* every dial away; another takes the current generation for the session.
TakeDial(x) ==
    LET d == Other(ses[x].dialer) IN
    /\ ses[x].in = "asked"
    /\ ses' = IF Active(d) \/ closing[d] # "no" THEN [ses EXCEPT ![x].in = "over"]
              ELSE [ses EXCEPT ![x] = [@ EXCEPT !.in = "taken", !.gens[d] = gen[d]]]
    /\ UNCHANGED <<grants, conn, pool, doomed, served, users, lease, turned, left>>

\* The handshake: both ends hold an authenticated connection from here on.
Handshake(x) ==
    /\ ses[x].in = "taken"
    /\ conn' = [conn EXCEPT ![x] = [d \in Devices |-> "up"]]
    /\ ses' = [ses EXCEPT ![x].in = "checking"]
    /\ UNCHANGED <<grants, pool, doomed, served, users, lease, turned, left>>

\* acceptDirectOnSessionPeer: the grant may have changed during the handshake.
AcceptChecks(x) ==
    LET d == Other(ses[x].dialer) IN
    /\ ses[x].in = "checking"
    /\ IF Current(d, x) THEN ses' = [ses EXCEPT ![x].in = "adopt"] /\ UNCHANGED conn
       ELSE ses' = [ses EXCEPT ![x].in = "over"] /\ conn' = Closed(d, x)
    /\ UNCHANGED <<grants, pool, doomed, served, users, lease, turned, left>>

\* Mutant: every end keeps the session it has.
KeepOwn(d, x) == FALSE

\* preferInboundClipboardBootstrap: two clipboard dials that crossed settle on
\* the smaller identifier; anything else keeps the session it has.
PreferInbound(d, x) ==
    LET e == EntryOf(d, x) IN
    /\ e.boot /\ ~e.receiving
    /\ x < e.ses

\* Mutant: the session turned away is not closed.
AdoptLeaves(x) ==
    LET d == Other(ses[x].dialer)  e == EntryOf(d, x)
        refused == closing[d] # "no" \/ (Live(d, e.ses) /\ ~PreferInbound(d, x)) IN
    /\ ses[x].in = "adopt" /\ KeyFree(d, Key(d, x))
    /\ IF refused THEN ses' = [ses EXCEPT ![x].in = "over"] /\ UNCHANGED <<conn, pool, served>>
       ELSE /\ ses' = [ses EXCEPT ![x].in = "adopted"]
            /\ conn' = IF e.ses # 0 THEN Closed(d, e.ses) ELSE conn
            /\ pool' = Put(d, x, Scheduled(Entry(x, FALSE, FALSE)))
            /\ served' = [served EXCEPT ![d] = @ \cup {x}]
    /\ UNCHANGED <<grants, doomed, users, lease, turned, left>>

\* adoptInboundPeerSession
Adopt(x) ==
    LET d == Other(ses[x].dialer)  e == EntryOf(d, x)
        refused == closing[d] # "no" \/ (Live(d, e.ses) /\ ~PreferInbound(d, x)) IN
    /\ ses[x].in = "adopt" /\ KeyFree(d, Key(d, x))
    /\ IF refused
       THEN /\ ses' = [ses EXCEPT ![x].in = "over"] /\ conn' = Closed(d, x) /\ UNCHANGED <<pool, served>>
            /\ turned' = IF closing[d] = "no" /\ e.boot THEN turned \cup {<<x, e.ses>>} ELSE turned
       ELSE /\ ses' = [ses EXCEPT ![x].in = "adopted"]
            /\ conn' = IF e.ses # 0 THEN Closed(d, e.ses) ELSE conn
            /\ turned' = IF Live(d, e.ses) THEN turned \cup {<<e.ses, x>>} ELSE turned
            /\ pool' = Put(d, x, Scheduled(Entry(x, FALSE, FALSE)))
            /\ served' = [served EXCEPT ![d] = @ \cup {x}]
    /\ UNCHANGED <<grants, doomed, users, lease, left>>

\* servePooledPeer takes a stream: it aborts when the pool has another session.
TakeStream(d, x) ==
    /\ x \in served[d] /\ taken[d][x] = "no" /\ Live(d, x) /\ sent[Other(d)][x] \in {"file", "copy"}
    /\ IF Holds(d, x)
       THEN /\ taken' = [taken EXCEPT ![d][x] = "held"]
            /\ pool' = Put(d, x, Busy([EntryOf(d, x) EXCEPT !.receiving = TRUE]))
            /\ UNCHANGED <<served, sent>>
       ELSE /\ served' = [served EXCEPT ![d] = @ \ {x}]
            /\ sent' = [sent EXCEPT ![Other(d)][x] = "over"] /\ UNCHANGED <<pool, taken>>
    /\ UNCHANGED <<grants, links, doomed, op, job, lease, turned, left>>

\* receiveIncomingStream: the grant and the other tasks decide whether a file is
\* received; a clipboard's files are no task.
AdmitStream(d, x) ==
    /\ taken[d][x] = "held"
    /\ \/ sent[Other(d)][x] = "copy" /\ taken' = [taken EXCEPT ![d][x] = "copy"]
       \/ /\ sent[Other(d)][x] # "copy" /\ Current(d, x) /\ closing[d] = "no" /\ ~Active(d)
          /\ taken' = [taken EXCEPT ![d][x] = "file"]
    /\ UNCHANGED <<grants, links, pool, doomed, served, op, job, sent, lease, turned, left>>

\* The stream ends: received, refused, cancelled or broken.
StreamEnds(d, x) ==
    /\ taken[d][x] # "no"
    /\ taken' = [taken EXCEPT ![d][x] = "no"]
    /\ sent' = [sent EXCEPT ![Other(d)][x] = IF @ = "no" THEN @ ELSE "over"]
    /\ IF Holds(d, x)
       THEN pool' = Put(d, x, Scheduled([EntryOf(d, x) EXCEPT !.receiving = FALSE])) /\ UNCHANGED served
       ELSE served' = [served EXCEPT ![d] = @ \ {x}] /\ UNCHANGED pool
    /\ UNCHANGED <<grants, links, doomed, op, job, lease, turned, left>>

\* AcceptStream fails once the connection is closed; the entry stays.
ServeEnds(d, x) ==
    /\ x \in served[d] /\ taken[d][x] = "no" /\ ~Live(d, x)
    /\ served' = [served EXCEPT ![d] = @ \ {x}]
    /\ UNCHANGED <<grants, links, pool, doomed, users, lease, turned, left>>

-----------------------------------------------------------------------------
(* Clipboard leases keep a session *)

\* setClipboardReady: the second of the two leases ends the bootstrap, and the
\* end of both lets the idle timer run.
Ready(e, way, on) ==
    LET f == [e EXCEPT ![way] = on] IN
    IF on THEN Busy([f EXCEPT !.boot = @ /\ ~(f.send /\ f.recv)]) ELSE Scheduled(f)

\* sendClipboardLease: what this device lets the other send, under the session's
\* grant; paused, or under an older grant, there is nothing to let.
MayReceive(d, x) == d \notin paused /\ Current(d, x)
SendLease(d, x) ==
    /\ x \in served[d] /\ Holds(d, x) /\ Live(d, x) /\ MayReceive(d, x) /\ ~EntryOf(d, x).recv
    /\ Spend("lease", d)
    /\ lease' = lease \cup {<<Other(d), x>>} /\ pool' = Put(d, x, Ready(EntryOf(d, x), "recv", TRUE))
    /\ UNCHANGED <<grants, links, doomed, served, users, turned>>
StopLease(d, x) ==
    /\ x \in served[d] /\ Holds(d, x) /\ Live(d, x) /\ ~MayReceive(d, x) /\ EntryOf(d, x).recv
    /\ pool' = Put(d, x, Ready(EntryOf(d, x), "recv", FALSE))
    /\ UNCHANGED <<grants, links, doomed, served, users, lease, turned, left>>

\* serveClipboardPeer: a lease that arrives under the grant in force is installed.
TakeLease(d, x) ==
    /\ <<d, x>> \in lease /\ x \in served[d] /\ Live(d, x)
    /\ lease' = lease \ {<<d, x>>}
    /\ pool' = IF Current(d, x) /\ d \notin paused /\ Holds(d, x)
               THEN Put(d, x, Ready(EntryOf(d, x), "send", TRUE)) ELSE pool
    /\ UNCHANGED <<grants, links, doomed, served, users, turned, left>>

\* HasOutbound is false at a tick: the grant's end dropped the lease, or the
\* other device has stopped renewing it.
LeaseLapses(d, x) ==
    /\ x \in served[d] /\ Holds(d, x) /\ EntryOf(d, x).send
    /\ ~Current(d, x) \/ ~Holds(Other(d), x) \/ ~EntryOf(Other(d), x).recv
    /\ pool' = Put(d, x, Ready(EntryOf(d, x), "send", FALSE))
    /\ UNCHANGED <<grants, links, doomed, served, users, lease, turned, left>>

\* ResetClipboard, pausing: no lease is in force any more.
Pause(d) ==
    /\ d \notin paused /\ Spend("pause", d)
    /\ paused' = paused \cup {d}
    /\ pool' = [pool EXCEPT ![d] = [k \in Generations |->
                  IF @[k].ses = 0 THEN @[k] ELSE Scheduled([@[k] EXCEPT !.send = FALSE, !.recv = FALSE])]]
    /\ lease' = {l \in lease : l[1] # d}
    /\ UNCHANGED <<gen, ending, closing, links, doomed, served, users, turned>>

-----------------------------------------------------------------------------
(* How sessions end *)

\* The timer fires, and its callback, once it has the pool, looks again at what
\* uses the session.
TimerFires(d, k) ==
    /\ pool[d][k].timer /\ ~pool[d][k].late
    /\ pool' = [pool EXCEPT ![d][k].late = TRUE]
    /\ UNCHANGED <<grants, links, doomed, served, users, lease, turned, left>>
\* Mutant: the callback trusts the timer.
CallbackTrusts(d, k) ==
    LET e == pool[d][k] IN
    /\ e.late
    /\ pool' = [pool EXCEPT ![d][k] = NoEntry] /\ doomed' = [doomed EXCEPT ![d] = @ \cup {e.ses}]
    /\ UNCHANGED <<grants, links, served, users, lease, turned, left>>

IdleCallback(d, k) ==
    LET e == pool[d][k] IN
    /\ e.late
    /\ \/ /\ Unused(e)
          /\ pool' = [pool EXCEPT ![d][k] = NoEntry] /\ doomed' = [doomed EXCEPT ![d] = @ \cup {e.ses}]
       \/ /\ ~Unused(e)
          /\ pool' = [pool EXCEPT ![d][k].timer = FALSE, ![d][k].late = FALSE] /\ UNCHANGED doomed
    /\ UNCHANGED <<grants, links, served, users, lease, turned, left>>

\* pruneClosedIdlePooledSessions, after a change of the network.
Prune(d, k) ==
    LET e == pool[d][k] IN
    /\ e.ses # 0 /\ ~Live(d, e.ses) /\ ~e.inUse /\ ~e.receiving
    /\ pool' = [pool EXCEPT ![d][k] = NoEntry] /\ doomed' = [doomed EXCEPT ![d] = @ \cup {e.ses}]
    /\ UNCHANGED <<grants, links, served, users, lease, turned, left>>

CloseDoomed(d, x) ==
    /\ x \in doomed[d]
    /\ doomed' = [doomed EXCEPT ![d] = @ \ {x}] /\ conn' = Closed(d, x)
    /\ UNCHANGED <<grants, ses, pool, served, users, lease, turned, left>>

\* A closure reaches the other end.
SeeClosed(d, x) ==
    /\ conn[x][d] = "up" /\ conn[x][Other(d)] = "closed"
    /\ conn' = Closed(d, x)
    /\ UNCHANGED <<grants, ses, pool, doomed, served, users, lease, turned, left>>

\* The path breaks or changes: this end closes its endpoint.
PathChanges(d, x) ==
    /\ conn[x][d] = "up" /\ Spend("path", d)
    /\ conn' = Closed(d, x)
    /\ UNCHANGED <<grants, ses, pool, doomed, served, users, lease, turned>>

\* A grant ends (and the device is paired again), and then closePooledSessions.
Withdraw(d) ==
    /\ d \notin ending /\ gen[d] < MaxGeneration /\ Spend("withdraw", d)
    /\ gen' = [gen EXCEPT ![d] = @ + 1] /\ ending' = ending \cup {d}
    /\ UNCHANGED <<paused, closing, links, pool, doomed, served, users, lease, turned>>

\* Mutant: the shutdown waits for the sessions instead of closing them.
ClosePoolOfGrants(d) ==
    \/ /\ d \in ending /\ ending' = ending \ {d}
       /\ doomed' = [doomed EXCEPT ![d] = @ \cup ({pool[d][k].ses : k \in Generations} \ {0})]
       /\ pool' = [pool EXCEPT ![d] = [k \in Generations |-> NoEntry]]
       /\ UNCHANGED <<gen, paused, closing, links, served, users, lease, turned, left>>
    \/ /\ closing[d] = "closing" /\ closing' = [closing EXCEPT ![d] = "closed"]
       /\ UNCHANGED <<gen, ending, paused, links, pool, doomed, served, users, lease, turned, left>>

ClosePool(d) ==
    /\ \/ d \in ending /\ ending' = ending \ {d} /\ UNCHANGED closing
       \/ closing[d] = "closing" /\ closing' = [closing EXCEPT ![d] = "closed"] /\ UNCHANGED ending
    /\ doomed' = [doomed EXCEPT ![d] = @ \cup ({pool[d][k].ses : k \in Generations} \ {0})]
    /\ pool' = [pool EXCEPT ![d] = [k \in Generations |-> NoEntry]]
    /\ UNCHANGED <<gen, paused, links, served, users, lease, turned, left>>

Shutdown(d) ==
    /\ closing[d] = "no" /\ Spend("shutdown", d)
    /\ closing' = [closing EXCEPT ![d] = "closing"]
    /\ UNCHANGED <<gen, ending, paused, links, pool, doomed, served, users, lease, turned>>

\* shutdownOwners joins the session owners, the tasks and the inbound sessions.
Joined(d) ==
    /\ served[d] = {} /\ op[d] = NoOp /\ job[d] = 0 /\ ending \cap {d} = {}
    /\ \A x \in Ids : /\ taken[d][x] = "no"
                      /\ ses[x].dialer = Other(d) => ses[x].in \notin {"taken", "checking", "adopt"}

ShutdownEnds(d) ==
    /\ closing[d] = "closed" /\ Joined(d)
    /\ closing' = [closing EXCEPT ![d] = "done"]
    /\ UNCHANGED <<gen, ending, paused, links, pool, doomed, served, users, lease, turned, left>>

-----------------------------------------------------------------------------
(* The system *)

SessionsInit ==
    /\ gen = [d \in Devices |-> 1] /\ ending = {} /\ paused = {}
    /\ closing = [d \in Devices |-> "no"]
    /\ ses = [x \in Ids |-> NoSession] /\ conn = [x \in Ids |-> [d \in Devices |-> "none"]]
    /\ pool = [d \in Devices |-> [k \in Generations |-> NoEntry]]
    /\ doomed = [d \in Devices |-> {}] /\ served = [d \in Devices |-> {}]
    /\ op = [d \in Devices |-> NoOp] /\ job = [d \in Devices |-> 0]
    /\ sent = [d \in Devices |-> [x \in Ids |-> "no"]] /\ taken = [d \in Devices |-> [x \in Ids |-> "no"]]
    /\ lease = {} /\ turned = {}
    /\ \E s \in SessionScenarios : left = s

Users(d) == StartFile(d) \/ StartClipboardDial(d) \/ StartJob(d) \/ Withdraw(d) \/ Shutdown(d) \/ Pause(d)
OpStep(d) == Acquire(d) \/ DialEnds(d) \/ Publish(d) \/ Check(d) \/ Open(d) \/ SendEnds(d) \/ Release(d)
Inbound(x) == TakeDial(x) \/ Handshake(x) \/ AcceptChecks(x) \/ Adopt(x)
Stream(d, x) == TakeStream(d, x) \/ AdmitStream(d, x) \/ StreamEnds(d, x)
Timers(d) == \E k \in Generations : (TimerFires(d, k) \/ IdleCallback(d, k))

SessionsNext ==
    \/ \E d \in Devices :
         \/ Users(d) \/ OpStep(d) \/ EndJob(d) \/ ClosePool(d) \/ ShutdownEnds(d) \/ Timers(d)
         \/ \E k \in Generations : Prune(d, k)
         \/ \E x \in Ids : \/ Stream(d, x) \/ ServeEnds(d, x) \/ CloseDoomed(d, x) \/ SeeClosed(d, x)
                           \/ PathChanges(d, x) \/ SendLease(d, x) \/ StopLease(d, x) \/ TakeLease(d, x) \/ LeaseLapses(d, x)
    \/ \E x \in Ids : Inbound(x)

\* What goes on by itself.  Each of these steps uses something up, so that no
\* behaviour takes them for ever and fairness to all together is fairness to each.
Progress ==
    \/ \E d \in Devices :
         \/ OpStep(d) \/ EndJob(d) \/ ClosePool(d) \/ ShutdownEnds(d) \/ Timers(d)
         \/ \E x \in Ids : \/ StreamEnds(d, x) \/ TakeStream(d, x) \/ ServeEnds(d, x) \/ CloseDoomed(d, x)
                           \/ SeeClosed(d, x) \/ StopLease(d, x) \/ LeaseLapses(d, x)
    \/ \E x \in Ids : Inbound(x)

SessionsSpec == SessionsInit /\ [][SessionsNext]_sessionVars /\ WF_sessionVars(Progress)

-----------------------------------------------------------------------------
(* Properties *)

\* A session is reserved, or a stream is served on it.
Reserved(d, x) == Holds(d, x) /\ (EntryOf(d, x).inUse \/ EntryOf(d, x).receiving)

\* A reserved session stays in the pool while its connection lives: no timer, no
\* dial, no adoption and no cleaning takes it from the file it carries.  It goes
\* only by the release of whoever reserved it, when a grant ends or the program
\* closes, or, a clipboard dial that no task uses, to the dial that crossed it.
ReservedStays ==
    [][\A d \in Devices, x \in Ids :
         Reserved(d, x) /\ Live(d, x) /\ ~Holds(d, x)' =>
             \/ d \in ending \/ closing[d] # "no"
             \/ op[d].pc = "release" /\ op[d].ses = x
             \/ EntryOf(d, x).boot /\ ~EntryOf(d, x).receiving /\ ~(op[d].kind = "file" /\ op[d].ses = x)
             \/ job[d] = x /\ job'[d] = 0]_sessionVars

\* A connection that is up at both ends and through its handshake is in the
\* pool of both, or about to be closed by one: none is left open and forgotten.
Settled(x) ==
    /\ ses[x].in \in {"adopted", "over"}
    /\ \A d \in Devices : /\ Live(d, x) /\ x \notin doomed[d]
                          /\ ~(op[d].ses = x /\ op[d].pc \in {"dialing", "publish"})
LiveIsPooled == \A x \in Ids : Settled(x) => \A d \in Devices : Holds(d, x)

\* Once a grant's end is complete no file moves under it: nothing is sent or
\* received on a session of an older generation that is not being closed.
WithdrawalStopsFiles ==
    \A d \in Devices, x \in Ids :
        d \notin ending /\ ~Current(d, x) /\ Live(d, x) /\ x \notin doomed[d] =>
            sent[d][x] # "file" /\ taken[d][x] # "file"

\* Two clipboard dials that crossed, and that nothing has used yet, never close
\* each other's session.  A file that reserves one of them first may cost both.
ClipboardDialsConverge ==
    \A x, y \in Ids : <<x, y>> \in turned => <<y, x>> \notin turned

\* A shutdown ends, whatever was dialled, adopted or moving when it began, and
\* leaves no connection open.
ShutdownCompletes ==
    \A d \in Devices : closing[d] # "no" ~> closing[d] = "done" /\ \A x \in Ids : ~Live(d, x)

\* The pools of both ends agree on the sessions there are and on the grants
\* these rest on, however dials cross.
SessionsInv == LiveIsPooled /\ WithdrawalStopsFiles /\ ClipboardDialsConverge
=============================================================================
