----------------------------- MODULE Clipboard -----------------------------
(***************************************************************************)
(* Clipboard synchronization (internal/clipboardsync/state.go and          *)
(* internal/app/clipboard_transport.go, clipboard_permissions.go): what is *)
(* copied on one device is written to the clipboards of others that leased *)
(* it room for it.  Each device runs                                       *)
(*   - its owner, which observes a change, looks for each peer at the      *)
(*     permission and for a lease, reads the change, binds it and queues   *)
(*     it, or resets the core for a pause (one at a time);                 *)
(*   - one sender per peer, which holds the newest job and writes one;     *)
(*   - one reader per peer, which begins and commits what arrives;         *)
(*   - edits of the permissions.                                           *)
(* Streams are independent: messages are lost and arrive in any order.     *)
(* One kind of content; what was copied is known by its device and number. *)
(***************************************************************************)
EXTENDS Naturals, FiniteSets, FiniteSetsExt

CONSTANTS
    ClipDevices,     \* a set of numbers: their order is that of the identifiers
    ClipScenarios,   \* bounds of a run: see ClipInit
    MaxLeases        \* overlapping leases of one direction of a session

ASSUME ClipAssumption ==
    /\ ClipDevices \subseteq Nat \ {0} /\ IsFiniteSet(ClipDevices)
    /\ MaxLeases \in Nat \ {0}

VARIABLES
    board,    \* each device's system clipboard: its generation and its content
    core,     \* each device's clipboardsync.State
    leases,   \* each device's leases, both directions
    lapsed,   \* leases whose deadline has passed on a device, or whose connection broke
    policy,   \* each device's permissions: [peer -> [direction -> on, revision]]
    editing,  \* the edit of permissions that holds clipboardGrantMu, or none
    owner,    \* what holds the desktop's clipboardOwnerMu, and its progress
    held,     \* what the user asked for: the clipboard is paused
    notice,   \* the last change the watcher reported, 0 if taken
    box,      \* the job of each sender
    streams,  \* the messages between two devices, and the one a sender is writing
    reading,  \* the candidate of each reader
    left,     \* what may still happen in this scenario (bounds)
    past      \* for the properties: the content each core knows of and its key,
              \* and the copies made while paused

clipVars == <<board, core, leases, lapsed, policy, editing, owner, held, notice,
              box, streams, reading, left, past>>

Links == {l \in ClipDevices \X ClipDevices : l[1] # l[2]}
Peers(d) == ClipDevices \ {d}

\* What may happen in a scenario: how many copies, on which devices, lapses of a
\* lease and so on, the leases of each device and the links in use.
ClipBounds ==
    [copies : Nat, copiers : SUBSET ClipDevices, lapses : Nat, losses : Nat, edits : Nat, revocations : Nat,
     pauses : Nat, restarts : Nat, leases : [ClipDevices -> Nat], links : SUBSET Links]

ASSUME ScenarioAssumption == ClipScenarios \subseteq ClipBounds

Nothing == [pc |-> "none"]

\* The order of events: Lamport clock, origin, boot and sequence number.
NoKey == <<0, 0, 0, 0>>
Before(j, k) == \E i \in 1 .. 4 : j[i] < k[i] /\ \A h \in 1 .. (i - 1) : j[h] = k[h]

-----------------------------------------------------------------------------
\* The initial state: every permission is given and no lease exists.

NewCore(boot, gen) ==
    [boot |-> boot, seq |-> 0, lamport |-> 0, revision |-> 1, osGen |-> gen, paused |-> FALSE,
     high |-> [p \in ClipDevices |-> NoKey], committed |-> NoKey, pending |-> NoKey,
     pendingRevision |-> 0, pendingLease |-> <<>>, suppressed |-> <<>>]

\* A scenario bounds the copies, edits, pauses, losses and restarts, the leases
\* of each link, and names the links in use.
ClipInit ==
    /\ \E s \in ClipScenarios : left = s
    /\ board = [d \in ClipDevices |-> [gen |-> 1, content |-> <<0, 0>>]]
    /\ core = [d \in ClipDevices |-> NewCore(1, 1)]
    /\ leases = [d \in ClipDevices |-> {}] /\ lapsed = [d \in ClipDevices |-> {}]
    /\ policy = [d \in ClipDevices |-> [p \in ClipDevices |->
                    [send |-> [on |-> TRUE, revision |-> 1], receive |-> [on |-> TRUE, revision |-> 1]]]]
    /\ editing = [d \in ClipDevices |-> Nothing] /\ owner = [d \in ClipDevices |-> Nothing]
    /\ held = [d \in ClipDevices |-> FALSE] /\ notice = [d \in ClipDevices |-> 0]
    /\ box = [l \in Links |-> Nothing] /\ streams = [l \in Links |-> {}]
    /\ reading = [l \in Links |-> Nothing]
    /\ past = [known |-> [d \in ClipDevices |-> [content |-> <<0, 0>>, key |-> NoKey]], private |-> {}]

Unlocked(d) == editing[d].pc = "none"
Spends(what) == left[what] > 0 /\ left' = [left EXCEPT ![what] = @ - 1]

-----------------------------------------------------------------------------
\* The system clipboard.

\* A program puts something on the clipboard; the watcher, if it runs, reports
\* the newest generation (recordClipboardChange keeps one).
Changed(d, content) ==
    /\ board' = [board EXCEPT ![d] = [gen |-> @.gen + 1, content |-> content]]
    /\ notice' = [notice EXCEPT ![d] = IF held[d] THEN @ ELSE board[d].gen + 1]

UserCopies(d) ==
    /\ Spends("copies") /\ d \in left.copiers
    /\ LET content == <<d, board[d].gen>> IN
       /\ Changed(d, content)
       /\ past' = [past EXCEPT !.private = IF held[d] THEN @ \cup {content} ELSE @]
    /\ UNCHANGED <<core, leases, lapsed, policy, editing, owner, held, box, streams, reading>>

-----------------------------------------------------------------------------
\* Leases.

Of(d, p, out) == {l \in leases[d] : l.peer = p /\ l.outbound = out}

\* All leases last as long (clipboardLeaseTTL): those that came before these on
\* a device, replaced ones too, are over when these are.
UpTo(ls) == UNION {{l.id} \cup l.earlier : l \in ls}

\* One lease may expire on one device before it does on the other.
Expire(d) ==
    /\ \E l \in leases[d] :
          LET gone == {k \in leases[d] : k.id \in UpTo({l})} IN
          /\ lapsed' = [lapsed EXCEPT ![d] = @ \cup UpTo(gone)]
          /\ leases' = [leases EXCEPT ![d] = @ \ gone]
    /\ Spends("lapses")
    /\ UNCHANGED <<board, core, policy, editing, owner, held, notice, box, streams, reading, past>>

\* sendClipboardLease: the receiver d leases its peer room under its current
\* permission and tells it the clock; IssueScoped.  Bound: the leases of a link.
SendLease(d, p) ==
    /\ <<p, d>> \in left.links /\ left.leases[d] > 0 /\ Unlocked(d)
    /\ ~core[d].paused /\ policy[d][p].receive.on
    /\ Cardinality(Of(d, p, FALSE)) < MaxLeases
    /\ LET id == <<d, p, left.leases[d]>>
           lease == [id |-> id, peer |-> p, outbound |-> FALSE, revision |-> policy[d][p].receive.revision,
                     baseline |-> core[d].osGen, earlier |-> UpTo(Of(d, p, FALSE)), under |-> 0]
       IN /\ leases' = [leases EXCEPT ![d] = @ \cup {lease}]
          /\ streams' = [streams EXCEPT ![<<d, p>>] = @ \cup
                            {[type |-> "lease", id |-> id, revision |-> lease.revision, lamport |-> core[d].lamport]}]
    /\ left' = [left EXCEPT !.leases[d] = @ - 1]
    /\ UNCHANGED <<board, core, lapsed, policy, editing, owner, held, notice, box, reading, past>>

\* A lease arrives at a device that may send.
ReadLease(d, p, m) ==
    /\ m \in streams[<<p, d>>] /\ m.type = "lease" /\ reading[<<p, d>>].pc = "none" /\ Unlocked(d)
    /\ streams' = [streams EXCEPT ![<<p, d>>] = @ \ {m}]
    /\ reading' = [reading EXCEPT ![<<p, d>>] =
                      IF policy[d][p].send.on /\ ~core[d].paused THEN [pc |-> "admitted", lease |-> m] ELSE Nothing]
    /\ UNCHANGED <<board, core, leases, lapsed, policy, editing, owner, held, notice, box, left, past>>

\* The generation from which on it counts is read before it is installed.
ReadBaseline(d, p) ==
    /\ reading[<<p, d>>].pc = "admitted"
    /\ reading' = [reading EXCEPT ![<<p, d>>] = [pc |-> "lease", lease |-> @.lease, baseline |-> board[d].gen]]
    /\ UNCHANGED <<board, core, leases, lapsed, policy, editing, owner, held, notice, box, streams, left, past>>

\* InstallScopedWithClock: a changed policy replaces the session's leases, an
\* unchanged one overlaps; the clock of the receiver is taken over.  For the
\* property, a lease tells under which permission to send it came.
InstallLease(d, p) ==
    /\ reading[<<p, d>>].pc = "lease" /\ reading' = [reading EXCEPT ![<<p, d>>] = Nothing]
    /\ LET m == reading[<<p, d>>].lease
           mine == Of(d, p, TRUE)
           kept == IF \E l \in mine : l.revision # m.revision THEN {} ELSE mine
           lease == [id |-> m.id, peer |-> p, outbound |-> TRUE, revision |-> m.revision,
                     baseline |-> reading[<<p, d>>].baseline, earlier |-> UpTo(mine),
                     under |-> policy[d][p].send.revision]
       IN IF ~core[d].paused /\ Cardinality(kept) < MaxLeases
          THEN /\ leases' = [leases EXCEPT ![d] = (@ \ (mine \ kept)) \cup {lease}]
               /\ core' = [core EXCEPT ![d].lamport =
                              IF m.lamport = 0 THEN @ ELSE Max({@, m.lamport}) + 1]
          ELSE UNCHANGED <<leases, core>>
    /\ UNCHANGED <<board, lapsed, policy, editing, owner, held, notice, box, streams, left, past>>

-----------------------------------------------------------------------------
\* The owner: a local change.

\* The sends of a device, or those to one peer, are cancelled.
Cancelled(d, peers) == box' = [l \in Links |-> IF l[1] = d /\ l[2] \in peers THEN Nothing ELSE box[l]]

NoPending(c) == [c EXCEPT !.pending = NoKey, !.pendingRevision = 0, !.pendingLease = <<>>]

\* ObserveLocalEvent: a new generation is an event of its own, above all that
\* this device has seen.
Observed(d, gen) ==
    NoPending([core[d] EXCEPT !.seq = @ + 1, !.lamport = @ + 1, !.osGen = gen, !.revision = @ + 1,
                              !.committed = <<core[d].lamport + 1, d, core[d].boot, core[d].seq + 1>>])

\* A generation that a commit or a reset already knows is not a change.
IsChange(d) == ~core[d].paused /\ notice[d] > core[d].osGen

ObserveLocalEvent(d) ==
    /\ owner[d].pc = "none" /\ notice[d] # 0 /\ IsChange(d)
    /\ core' = [core EXCEPT ![d] = Observed(d, notice[d])]
    /\ owner' = [owner EXCEPT ![d] =
          [pc |-> "observed", gen |-> notice[d], revision |-> core'[d].revision, key |-> core'[d].committed,
           content |-> <<0, 0>>, rest |-> {p \in Peers(d) : <<d, p>> \in left.links}, jobs |-> {}, now |-> Nothing]]
    /\ past' = [past EXCEPT !.known[d] = IF board[d].gen = notice[d]
                                          THEN [content |-> board[d].content, key |-> core'[d].committed] ELSE @]
    /\ notice' = [notice EXCEPT ![d] = 0] /\ Cancelled(d, ClipDevices)
    /\ UNCHANGED <<board, leases, lapsed, policy, editing, held, streams, reading, left>>

NotAChange(d) ==
    /\ owner[d].pc = "none" /\ notice[d] # 0 /\ ~IsChange(d)
    /\ notice' = [notice EXCEPT ![d] = 0]
    /\ UNCHANGED <<board, core, leases, lapsed, policy, editing, owner, held, box, streams, reading, left, past>>

\* LocalCurrent: nothing was observed, committed, edited or reset since.
LocalCurrent(d, e) == ~core[d].paused /\ e.revision = core[d].revision /\ e.gen = core[d].osGen

\* A lease older than the copy.
Leased(d, p, e) == {l \in Of(d, p, TRUE) : LocalCurrent(d, e) /\ e.gen > l.baseline}

\* ClipboardChanged goes through the sessions it found.  It looks at the
\* permission, and lets go of clipboardGrantMu,
ClipboardGrant(d, p) ==
    /\ owner[d].pc = "observed" /\ p \in owner[d].rest /\ Unlocked(d)
    /\ LET e == owner[d] IN
       owner' = [owner EXCEPT ![d] = [e EXCEPT !.pc = "granted", !.rest = e.rest \ {p},
                                              !.now = [peer |-> p, send |-> policy[d][p].send]]]
    /\ UNCHANGED <<board, core, leases, lapsed, policy, editing, held, notice, box, streams, reading, left, past>>

\* then for the newest lease: the permission may be another by now.
OutboundForObservation(d) ==
    /\ owner[d].pc = "granted"
    /\ LET e == owner[d]
           leased == Leased(d, e.now.peer, e)
           newest == {l \in leased : \A k \in leased : k = l \/ k.id \in l.earlier}
           jobs == {[peer |-> e.now.peer, lease |-> l, sender |-> e.now.send.revision] : l \in newest}
       IN owner' = [owner EXCEPT ![d] = [e EXCEPT !.pc = "observed", !.now = Nothing,
                                                 !.jobs = IF e.now.send.on THEN @ \cup jobs ELSE @]]
    /\ UNCHANGED <<board, core, leases, lapsed, policy, editing, held, notice, box, streams, reading, left, past>>

\* The payload is read if some peer may have it and it is still there.
ReadPayload(d) ==
    /\ owner[d].pc = "observed" /\ owner[d].rest = {}
    /\ owner' = [owner EXCEPT ![d] = IF @.jobs = {} \/ board[d].gen # @.gen THEN Nothing
                                     ELSE [@ EXCEPT !.pc = "read", !.content = board[d].content]]
    /\ UNCHANGED <<board, core, leases, lapsed, policy, editing, held, notice, box, streams, reading, left, past>>

\* Mutant: what a peer wrote is not recognized when its report comes late.
PreparedUnsuppressed(d, e) == LocalCurrent(d, e)

\* PrepareObserved: not a write of our own, and still current.
Prepared(d, e) == <<e.gen, e.content>> # core[d].suppressed /\ LocalCurrent(d, e)

PrepareObserved(d) ==
    /\ owner[d].pc = "read"
    /\ LET e == owner[d] IN
       /\ owner' = [owner EXCEPT ![d] = IF Prepared(d, e) THEN [e EXCEPT !.pc = "prepared"] ELSE Nothing]
       /\ core' = [core EXCEPT ![d].suppressed = IF <<e.gen, e.content>> = @ THEN <<>> ELSE @]
    /\ UNCHANGED <<board, leases, lapsed, policy, editing, held, notice, box, streams, reading, left, past>>

\* The owner goes on to its next target.
Without(e, jobs) == IF jobs = {} THEN Nothing ELSE [e EXCEPT !.pc = "prepared", !.jobs = jobs, !.now = Nothing]

\* The copy is bound to a target's lease, if that is still there and the copy
\* still current.
BindScoped(d) ==
    /\ owner[d].pc = "prepared"
    /\ \E j \in owner[d].jobs : LET e == owner[d] IN
          owner' = [owner EXCEPT ![d] = IF \E l \in Leased(d, j.peer, e) : l.id = j.lease.id
                                        THEN [e EXCEPT !.pc = "bound", !.jobs = @ \ {j}, !.now = j]
                                        ELSE Without(e, e.jobs \ {j})]
    /\ UNCHANGED <<board, core, leases, lapsed, policy, editing, held, notice, box, streams, reading, left, past>>

\* startClipboardSend: the newest job takes the place of the one before.
Enqueue(d, p) ==
    /\ owner[d].pc = "bound" /\ owner[d].now.peer = p
    /\ LET e == owner[d] IN
       /\ box' = [box EXCEPT ![<<d, p>>] =
                     [pc |-> "job", gen |-> e.gen, revision |-> e.revision, key |-> e.key, content |-> e.content,
                      lease |-> e.now.lease, sender |-> e.now.sender]]
       /\ owner' = [owner EXCEPT ![d] = Without(e, e.jobs)]
    /\ UNCHANGED <<board, core, leases, lapsed, policy, editing, held, notice, streams, reading, left, past>>

-----------------------------------------------------------------------------
\* Senders.

\* clipboardGuardedWriter: the copy is still current and its lease has time.
MayWrite(d, j) == LocalCurrent(d, j)

\* sendClipboardJob, up to the last look before the stream is written; a sender
\* writes one stream at a time.
SendJob(d, p) ==
    LET j == box[<<d, p>>] IN
    /\ j.pc = "job" /\ (\A m \in streams[<<d, p>>] : m.type # "open") /\ box' = [box EXCEPT ![<<d, p>>] = Nothing]
    /\ IF MayWrite(d, j) /\ j.lease.id \notin lapsed[d]
       THEN streams' = [streams EXCEPT ![<<d, p>>] = @ \cup
               {[type |-> "open", lease |-> j.lease.id, revision |-> j.lease.revision, sender |-> j.sender,
                 key |-> j.key, content |-> j.content]}]
       ELSE UNCHANGED streams
    /\ UNCHANGED <<board, core, leases, lapsed, policy, editing, owner, held, notice, reading, left, past>>

\* The write.  Whoever cancels the job meanwhile is not waited for: the stream
\* is reset before the write, or too late.
WriteJob(d, p) ==
    /\ \E m \in streams[<<d, p>>] :
          /\ m.type = "open"
          /\ \E sent \in {{}, {[m EXCEPT !.type = "event"]}} : streams' = [streams EXCEPT ![<<d, p>>] = (@ \ {m}) \cup sent]
    /\ UNCHANGED <<board, core, leases, lapsed, policy, editing, owner, held, notice, box, reading, left, past>>

LoseMessage(l) ==
    /\ Spends("losses")
    /\ \/ \E m \in streams[l] : streams' = [streams EXCEPT ![l] = @ \ {m}] /\ UNCHANGED reading
       \/ reading[l].pc = "candidate" /\ reading' = [reading EXCEPT ![l] = Nothing] /\ UNCHANGED streams
    /\ UNCHANGED <<board, core, leases, lapsed, policy, editing, owner, held, notice, box, past>>

-----------------------------------------------------------------------------
\* Readers.

\* An event that began before holds the place until its lease expires, unless
\* this one is later in the order.
AfterPending(d, key) ==
    core[d].pendingRevision = core[d].revision /\ core[d].pendingLease \notin lapsed[d]
        => Before(core[d].pending, key)

\* BeginHeader accepts an event under a lease of its permission, newer than the
\* last of its origin, than what was committed and than what has begun.
Acceptable(d, p, m) ==
    /\ ~core[d].paused
    /\ \E l \in Of(d, p, FALSE) : l.id = m.lease /\ l.revision = m.revision
    /\ ~(m.key[3] = core[d].high[p][3] /\ m.key[4] <= core[d].high[p][4])
    /\ Before(core[d].committed, m.key) /\ AfterPending(d, m.key)

\* The header of an event is read and the permission is looked at,
ReadHeader(p, d, m) ==
    /\ m \in streams[<<p, d>>] /\ m.type = "event" /\ reading[<<p, d>>].pc = "none" /\ Unlocked(d)
    /\ streams' = [streams EXCEPT ![<<p, d>>] = @ \ {m}]
    /\ reading' = [reading EXCEPT ![<<p, d>>] = IF policy[d][p].receive.on /\ ~core[d].paused
                                               THEN [pc |-> "header", event |-> m] ELSE Nothing]
    /\ UNCHANGED <<board, core, leases, lapsed, policy, editing, owner, held, notice, box, left, past>>

\* before the core decides on it.
BeginHeader(p, d) ==
    /\ reading[<<p, d>>].pc = "header"
    /\ LET m == reading[<<p, d>>].event IN
       IF Acceptable(d, p, m)
       THEN /\ core' = [core EXCEPT ![d].pending = m.key, ![d].pendingRevision = core[d].revision,
                                    ![d].pendingLease = m.lease]
            /\ reading' = [reading EXCEPT ![<<p, d>>] =
                  [pc |-> "candidate", event |-> m, revision |-> core[d].revision, baseline |-> core[d].osGen]]
       ELSE reading' = [reading EXCEPT ![<<p, d>>] = Nothing] /\ UNCHANGED core
    /\ UNCHANGED <<board, leases, lapsed, policy, editing, owner, held, notice, box, streams, left, past>>

\* Mutant: the candidate is written whatever was copied since it began.
CommittableOverCopies(d, p, c) ==
    /\ ~core[d].paused /\ \E l \in Of(d, p, FALSE) : l.id = c.event.lease

\* Commit, under clipboardGrantMu: nothing else became current since the
\* candidate began, no later event has begun, and the permission is the one it
\* was leased under; the write replaces only the generation the core knows.
Committable(d, p, c) ==
    /\ ~core[d].paused /\ \E l \in Of(d, p, FALSE) : l.id = c.event.lease
    /\ c.revision = core[d].revision /\ c.baseline = core[d].osGen
    /\ Before(core[d].committed, c.event.key)
    /\ core[d].pendingRevision = c.revision => core[d].pending = c.event.key
    /\ ~(c.event.key[3] = core[d].high[p][3] /\ c.event.key[4] <= core[d].high[p][4])
    /\ policy[d][p].receive = [on |-> TRUE, revision |-> c.event.revision]
    /\ board[d].gen = core[d].osGen

Committed(d, p, m) ==
    NoPending([core[d] EXCEPT !.osGen = board[d].gen + 1, !.revision = @ + 1, !.high[p] = m.key,
                              !.committed = m.key, !.suppressed = <<board[d].gen + 1, m.content>>,
                              !.lamport = Max({@, m.key[1]}) + 1])

Commit(p, d) ==
    LET c == reading[<<p, d>>] IN
    /\ c.pc = "candidate" /\ Unlocked(d) /\ reading' = [reading EXCEPT ![<<p, d>>] = Nothing]
    /\ IF Committable(d, p, c)
       THEN /\ core' = [core EXCEPT ![d] = Committed(d, p, c.event)] /\ Changed(d, c.event.content)
            /\ past' = [past EXCEPT !.known[d] = [content |-> c.event.content, key |-> c.event.key]]
       ELSE UNCHANGED <<core, board, notice, past>>
    /\ UNCHANGED <<leases, lapsed, policy, editing, owner, held, box, streams, left>>

-----------------------------------------------------------------------------
\* Permissions, pauses and restarts.

\* SetClipboardGrant holds clipboardGrantMu: the row, then the leases and jobs
\* under it.
SetClipboardGrant(d, p, dir) ==
    /\ Unlocked(d) /\ Spends("edits")
    /\ \E on \in BOOLEAN : policy' = [policy EXCEPT ![d][p][dir] = [on |-> on, revision |-> @.revision + 1]]
    /\ editing' = [editing EXCEPT ![d] = [pc |-> "set", peer |-> p, dir |-> dir]]
    /\ UNCHANGED <<board, core, leases, lapsed, owner, held, notice, box, streams, reading, past>>

\* Mutant: leases go, but what was bound to them stays current.
InvalidatedLeases(d, gone) == core' = core

\* InvalidatePeerDirection and InvalidateGrant: what began or was observed
\* under the leases is no longer current.
Invalidated(d, gone) ==
    core' = IF gone = {} THEN core
            ELSE [core EXCEPT ![d] = NoPending([core[d] EXCEPT !.revision = @ + 1])]

GrantIsSet(d) ==
    /\ editing[d].pc = "set" /\ editing' = [editing EXCEPT ![d] = Nothing]
    /\ LET gone == Of(d, editing[d].peer, editing[d].dir = "send") IN
       /\ leases' = [leases EXCEPT ![d] = @ \ gone] /\ Invalidated(d, gone)
    /\ Cancelled(d, {editing[d].peer})
    /\ UNCHANGED <<board, lapsed, policy, owner, held, notice, streams, reading, left, past>>

\* What is on the clipboard when the generation is read for a reset is known.
Known(d) == past' = [past EXCEPT !.known[d] = IF @.content = board[d].content THEN @
                                              ELSE [content |-> board[d].content, key |-> NoKey]]

\* ResetClipboard(paused, generation).
ResetClipboard(d, paused, gen) ==
    /\ core' = [core EXCEPT ![d] = NoPending([core[d] EXCEPT !.paused = paused, !.osGen = gen, !.revision = @ + 1])]
    /\ leases' = [leases EXCEPT ![d] = {}] /\ Cancelled(d, ClipDevices)

\* clearClipboardGrants of a revoked peer: the pause and the generation are
\* read before the reset that stores them.
ClearClipboardGrants(d, p) ==
    /\ Unlocked(d) /\ Spends("revocations")
    /\ policy' = [policy EXCEPT ![d][p] =
          [send |-> [on |-> FALSE, revision |-> @.send.revision + 1],
           receive |-> [on |-> FALSE, revision |-> @.receive.revision + 1]]]
    /\ editing' = [editing EXCEPT ![d] = [pc |-> "clear", paused |-> core[d].paused, gen |-> board[d].gen]]
    /\ Known(d)
    /\ UNCHANGED <<board, core, leases, lapsed, owner, held, notice, box, streams, reading>>

GrantsAreCleared(d) ==
    /\ editing[d].pc = "clear" /\ editing' = [editing EXCEPT ![d] = Nothing]
    /\ ResetClipboard(d, editing[d].paused, editing[d].gen)
    /\ UNCHANGED <<board, lapsed, policy, owner, held, notice, streams, reading, left, past>>

\* setClipboardSuspended, also when the system resumes twice: the watcher
\* follows the flag, the generation is read, then the core is reset.
SetClipboardSuspended(d) ==
    /\ owner[d].pc = "none" /\ Spends("pauses")
    /\ \E paused \in BOOLEAN : held' = [held EXCEPT ![d] = paused]
    /\ owner' = [owner EXCEPT ![d] = [pc |-> "reset", gen |-> board[d].gen]] /\ Known(d)
    /\ UNCHANGED <<board, core, leases, lapsed, policy, editing, notice, box, streams, reading>>

Suspended(d) ==
    /\ owner[d].pc = "reset" /\ owner' = [owner EXCEPT ![d] = Nothing]
    /\ ResetClipboard(d, held[d], owner[d].gen)
    /\ UNCHANGED <<board, lapsed, policy, editing, held, notice, streams, reading, left, past>>

\* A device restarts (ConfigureClipboard): its sessions end on both sides, and
\* nothing bound to a lease of one can be sent any more.
RestartClipboard(d) ==
    /\ Spends("restarts") /\ ~held[d] /\ Unlocked(d)
    /\ core' = [core EXCEPT ![d] = NewCore(core[d].boot + 1, board[d].gen)]
    /\ leases' = [e \in ClipDevices |-> IF e = d THEN {} ELSE {l \in leases[e] : l.peer # d}]
    /\ lapsed' = [e \in ClipDevices |-> lapsed[e] \cup UpTo({l \in leases[e] : e # d /\ l.peer = d /\ l.outbound})]
    /\ owner' = [owner EXCEPT ![d] = Nothing] /\ notice' = [notice EXCEPT ![d] = 0]
    /\ box' = [l \in Links |-> IF d \in {l[1], l[2]} THEN Nothing ELSE box[l]]
    /\ streams' = [l \in Links |-> IF d \in {l[1], l[2]} THEN {} ELSE streams[l]]
    /\ reading' = [l \in Links |-> IF d \in {l[1], l[2]} THEN Nothing ELSE reading[l]]
    /\ past' = [past EXCEPT !.known[d] = [content |-> board[d].content, key |-> NoKey]]
    /\ UNCHANGED <<board, policy, editing, held>>

ClipNext ==
    \/ \E d \in ClipDevices :
          \/ UserCopies(d) \/ Expire(d) \/ ObserveLocalEvent(d) \/ NotAChange(d) \/ OutboundForObservation(d)
          \/ ReadPayload(d) \/ PrepareObserved(d) \/ BindScoped(d)
          \/ GrantIsSet(d) \/ GrantsAreCleared(d) \/ SetClipboardSuspended(d) \/ Suspended(d) \/ RestartClipboard(d)
    \/ \E l \in left.links :
          \/ SendLease(l[2], l[1]) \/ LoseMessage(l) \/ ClipboardGrant(l[1], l[2]) \/ Enqueue(l[1], l[2])
          \/ SendJob(l[1], l[2]) \/ WriteJob(l[1], l[2]) \/ BeginHeader(l[1], l[2]) \/ Commit(l[1], l[2])
          \/ \E m \in streams[<<l[2], l[1]>>] : ReadLease(l[1], l[2], m)
          \/ ReadBaseline(l[1], l[2]) \/ InstallLease(l[1], l[2]) \/ \E m \in streams[l] : ReadHeader(l[1], l[2], m)
          \/ SetClipboardGrant(l[1], l[2], "send") \/ SetClipboardGrant(l[2], l[1], "receive")
          \/ ClearClipboardGrants(l[1], l[2]) \/ ClearClipboardGrants(l[2], l[1])

ClipSpec == ClipInit /\ [][ClipNext]_clipVars

-----------------------------------------------------------------------------
\* Properties.

\* What travels is what a user copied on the device it comes from, while the
\* clipboard was not paused: what a peer wrote never goes out again, however
\* late the watcher reports it and whatever reset the core in between.
OnlyOwnCopiesTravel ==
    \A l \in Links : \A m \in streams[l] :
        m.type # "lease" => m.content[1] = l[1] /\ m.content \notin past.private

\* A peer's event replaces only what is older in the order of all copies; a
\* copy that nobody has observed yet is never overwritten.
NewestWins ==
    [][\A d \in ClipDevices :
          board'[d].gen > board[d].gen /\ board'[d].content[1] # d =>
              /\ board[d].content = past.known[d].content
              /\ Before(past.known[d].key, past'.known[d].key)]_clipVars

\* After an edit of the permission to send has returned, nothing that is bound
\* to a lease from before the edit passes its last look, and nothing that was
\* looked at since the edit when that withdrew the permission.  (The permission
\* is looked at before the lease is chosen: a copy looked at before the edit may
\* still go out under a lease that was installed after it.)
WithdrawnLeasesAreQuiet ==
    [][\A l \in Links : \A m \in streams'[l] \ streams[l] :
          m.type = "open" /\ Unlocked(l[1]) =>
              LET send == policy[l[1]][l[2]].send
              IN box[l].lease.under = send.revision /\ (m.sender = send.revision => send.on)]_clipVars
=============================================================================
