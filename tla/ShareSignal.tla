---------------------------- MODULE ShareSignal -----------------------------
(***************************************************************************)
(* The share signaling hub of internal/server/share_signal.go, composed    *)
(* with the share grants whose gate it uses: while a share is approved or  *)
(* bound its two parties hold WebSocket connections to an owner object for *)
(* their scope, and exchange the frames of one ICE negotiation through it. *)
(*                                                                         *)
(* An owner is an object: connections and timers keep a pointer to it      *)
(* after it left the map.  OwnerIDs and ConnIDs name the objects made, and *)
(* bound how many are.  A connection is a read loop and a writer; what one *)
(* holds of the gate is one action.  A queued item stays in the queue      *)
(* until the writer has checked it under the gate.  Frames are fresh: the  *)
(* nonce window, which refuses a frame sent twice, is left out.            *)
(***************************************************************************)
EXTENDS ShareGrant, Sequences

CONSTANTS
  OwnerIDs, ConnIDs,
  IceSessions,         \* session IDs of envelopes; each stands for an ICE generation too
  NegotiationTTL,      \* life of a negotiation and of a used session ID, 2 min
  MaxCandidates,       \* candidates of one device in a negotiation, 64
  QueueSize,           \* items a connection may have queued, 64
  MaxScopes,           \* owners, maxShareSignalScopes = 32
  MaxConnections,      \* handlers, maxShareSignalConnections = 64
  MaxActorConnections, \* owners one device is connected to, 8
  MaxFrames,           \* bound: frames clients send
  MayClose             \* bound: whether the server closes

ASSUME SignalAssumption ==
  /\ {NegotiationTTL, MaxCandidates, QueueSize, MaxScopes, MaxConnections,
      MaxActorConnections} \subseteq Nat \ {0}
  /\ MaxFrames \in Nat /\ MayClose \in BOOLEAN /\ Null \notin OwnerIDs \cup ConnIDs \cup IceSessions

VARIABLES
  live,     \* the owners in shareSignalHub.owners
  owner,    \* the owner objects
  conn,     \* the connections
  ice,      \* the share-ice entries of the replay window: when each expires
  wg,       \* Server.wg, without the reaper and the ordinary connections
  closing,  \* Server.closed: Close has begun and cancelled every context
  closed,   \* shareSignalHub.closed
  frames    \* frames sent so far

hub == <<live, owner, conn, ice, wg, closing, closed, frames>>
allvars == <<vars, hub>>

Generations == 1 .. MaxClaims + 1

Scopes ==
  {s \in [grant : GrantIDs, claim : ClaimIDs, task : TaskIDs, generation : Generations,
          phase : {"preview", "transfer"}, manifest : Manifests, plan : Plans \cup {Null}] :
     s.phase = "preview" <=> s.plan = Null}

Kinds == {"connect_request", "connect_response", "candidate", "end_of_candidates"}

Item ==
  [kind : Kinds \cup {"ready", "error"}, session : IceSessions \cup {Null},
   source : ConnIDs \cup {Null}, ready : BOOLEAN]

ReadyItem(flag) == [kind |-> "ready", session |-> Null, source |-> Null, ready |-> flag]
ErrorItem == [kind |-> "error", session |-> Null, source |-> Null, ready |-> FALSE]
SignalItem(kind, session, c) ==
  [kind |-> kind, session |-> session, source |-> c, ready |-> FALSE]

NewNegotiation(session) ==
  [session |-> session, expires |-> now + NegotiationTTL, accepted |-> FALSE,
   counts |-> [a \in Actors |-> 0], ended |-> {}]

NoScope == [grant |-> Null]

NoOwner ==
  [scope |-> NoScope, peers |-> [a \in Actors |-> Null], negotiation |-> Null,
   timer |-> "none", deadline |-> 0]

\* The fields after the queue are history the properties refer to: "told" is the
\* readiness last queued, "last" the frame last written, "heard" the sessions
\* whose request has been written, "excused" those whose request found no room, or
\* that were requested again after the window had forgotten them.
NoConn ==
  [phase |-> "new", actor |-> Null, scope |-> NoScope, owner |-> Null,
   cancelled |-> FALSE, terminal |-> FALSE, queue |-> <<>>, told |-> FALSE,
   last |-> ErrorItem, heard |-> {}, excused |-> {}]

Handlers == {c \in ConnIDs : conn[c].phase \in {"upgrading", "open", "leaving"}}

Registered(c) ==
  conn[c].owner \in live /\ owner[conn[c].owner].peers[conn[c].actor] = c

PeersOf(o) == {owner[o].peers[a] : a \in Actors} \ {Null}

ConnectedTo(a) == {o \in live : owner[o].peers[a] # Null}

(***************************************************************************)
(* signal.go: SignalScope.Authorize                                        *)
(***************************************************************************)
ScopeMatches(s, r) ==
  /\ s.claim = r.claimID /\ s.task = r.taskID
  /\ s.generation = r.generation /\ s.manifest = r.manifest
  /\ s.phase = "preview" => r.state = "approved"
  /\ s.phase = "transfer" => r.state = "bound" /\ s.plan = r.plan

ScopeDeadline(s, r) == IF s.phase = "preview" THEN r.expiresAt ELSE r.resumeUntil

AuthorizeScope(s, r, actor, t) ==
  /\ Validate(r) /\ IsParty(r, actor) /\ ScopeMatches(s, r)
  /\ InEraAt(r, t) /\ t < ScopeDeadline(s, r)

Authorized(s, actor) == AuthorizeScope(s, grants[s.grant], actor, now)

(***************************************************************************)
(* retireShareSignalLocked, for every owner in O at once.  With a reason   *)
(* the peers' writers close the connections, else they are cancelled here. *)
(* A timer that has fired keeps its share of the wait group.               *)
(***************************************************************************)
\* What no step looks at any more is dropped: the contents of a retired owner
\* and the queue of a connection that will be written nothing.
Forgotten(ow) == [NoOwner EXCEPT !.timer = IF ow.timer = "armed" THEN "stopped" ELSE ow.timer]

Emptied(cn) == [cn EXCEPT !.queue = <<>>, !.told = FALSE]

Cancelled(cn) == Emptied([cn EXCEPT !.cancelled = TRUE])

\* The wait group given up for timers whose callback is already running.
RetireStoppingFired(O, withReason, cn, ow, w) ==
  /\ live' = live \ O
  /\ owner' = [o \in OwnerIDs |->
                 IF o \in O THEN Forgotten(ow[o])
                 ELSE ow[o]]
  /\ conn' = [c \in ConnIDs |->
                IF cn[c].owner \in O /\ ow[cn[c].owner].peers[cn[c].actor] = c
                THEN IF withReason THEN Emptied([cn[c] EXCEPT !.terminal = TRUE])
                     ELSE Cancelled(cn[c])
                ELSE cn[c]]
  /\ wg' = w - Cardinality({o \in O : ow[o].timer \in {"armed", "fired"}})

\* An owner's timer left running after the owner was retired.
RetireLeavingTimer(O, withReason, cn, ow, w) ==
  /\ live' = live \ O
  /\ owner' = [o \in OwnerIDs |->
                 IF o \in O THEN [NoOwner EXCEPT !.timer = ow[o].timer] ELSE ow[o]]
  /\ conn' = [c \in ConnIDs |->
                IF cn[c].owner \in O /\ ow[cn[c].owner].peers[cn[c].actor] = c
                THEN IF withReason THEN Emptied([cn[c] EXCEPT !.terminal = TRUE])
                     ELSE Cancelled(cn[c])
                ELSE cn[c]]
  /\ wg' = w

\* Peers with a reason queued but nobody to act on it.
RetireUnheard(O, withReason, cn, ow, w) ==
  /\ live' = live \ O
  /\ owner' = [o \in OwnerIDs |->
                 IF o \in O THEN Forgotten(ow[o])
                 ELSE ow[o]]
  /\ conn' = cn
  /\ wg' = w - Cardinality({o \in O : ow[o].timer = "armed"})

Retire(O, withReason, cn, ow, w) ==
  /\ live' = live \ O
  /\ owner' = [o \in OwnerIDs |->
                 IF o \in O THEN Forgotten(ow[o])
                 ELSE ow[o]]
  /\ conn' = [c \in ConnIDs |->
                IF cn[c].owner \in O /\ ow[cn[c].owner].peers[cn[c].actor] = c
                THEN IF withReason THEN Emptied([cn[c] EXCEPT !.terminal = TRUE])
                     ELSE Cancelled(cn[c])
                ELSE cn[c]]
  /\ wg' = w - Cardinality({o \in O : ow[o].timer = "armed"})

(***************************************************************************)
(* Requests and the reaper, with the owners they retire under the gate     *)
(***************************************************************************)
\* refreshShareSignalsLocked: the owners of share g whose scope r no longer grants.
Stale(g, r, t) ==
  {o \in live : /\ owner[o].scope.grant = g
                /\ ~AuthorizeScope(owner[o].scope, r, r.sender, t)}

ShareControl ==
  /\ ~closed
  /\ Requests
  /\ \E g \in GrantIDs :
       /\ grants'[g] # grants[g]
       /\ Retire(Stale(g, grants'[g], now), TRUE, conn, owner, wg)
  /\ UNCHANGED <<ice, closing, closed, frames>>

\* A retry, a status or an authorize request changes no share, but refreshes.
ShareRead ==
  /\ ~closed
  /\ \E g \in GrantIDs :
       /\ Present(g) /\ Stale(g, grants[g], now) # {}
       /\ Retire(Stale(g, grants[g], now), TRUE, conn, owner, wg)
  /\ UNCHANGED <<vars, ice, closing, closed, frames>>

\* reconcileShareSignalsLocked, after the pass and with its stale time.
Reap ==
  /\ ReconcileShareGrants
  /\ Retire(UNION {Stale(g, grants'[g], tick) : g \in GrantIDs}, TRUE, conn, owner, wg)
  /\ UNCHANGED <<ice, closing, closed, frames>>

(***************************************************************************)
(* Connections: shareWebsocket up to its read loop                         *)
(***************************************************************************)
\* beginShareWork, the slot, and the first authorization under the gate.
OpenWebsocket(c, actor, s) ==
  /\ conn[c].phase = "new" /\ ~closing /\ ~closed
  /\ Cardinality(Handlers) < MaxConnections
  /\ Present(s.grant) /\ Authorized(s, actor)
  /\ conn' = [conn EXCEPT ![c] = [NoConn EXCEPT !.phase = "upgrading", !.actor = actor, !.scope = s]]
  /\ wg' = wg + 1
  /\ UNCHANGED <<vars, live, owner, ice, closing, closed, frames>>

\* A queue that takes whatever comes.
EnqueuedUnbounded(cn, c, item) ==
  [cn EXCEPT ![c].queue = Append(@, item),
             ![c].told = IF item.kind = "ready" THEN item.ready ELSE @]

Enqueued(cn, c, item) ==
  IF cn[c].cancelled THEN cn
  ELSE IF Len(cn[c].queue) < QueueSize
  THEN [cn EXCEPT ![c].queue = Append(@, item),
                  ![c].told = IF item.kind = "ready" THEN item.ready ELSE @]
  ELSE [cn EXCEPT ![c] = Cancelled(@)]

\* Only the device that arrived is told who is there.
NewcomerTold(cn, peers) ==
  [c \in ConnIDs |->
     IF c \in peers /\ cn[c].told = FALSE /\ cn[c].queue = <<>>
     THEN Enqueued(cn, c, ReadyItem(Cardinality(peers) = 2))[c] ELSE cn[c]]

\* queueShareReadyLocked for every peer of an owner object.
AllTold(cn, peers) ==
  [c \in ConnIDs |->
     IF c \in peers THEN Enqueued(cn, c, ReadyItem(Cardinality(peers) = 2))[c] ELSE cn[c]]

AtScope(s) == {o \in live : owner[o].scope = s}

\* A device that returns finds the negotiation of its former connection.
JoinKeepingNegotiation(c, o) ==
  LET a    == conn[c].actor
      old  == owner[o].peers[a]
      self == [conn EXCEPT ![c].phase = "open", ![c].owner = o]
      cn   == IF old = Null THEN self ELSE [self EXCEPT ![old] = Cancelled(@)]
  IN  /\ old = Null => Cardinality(ConnectedTo(a)) < MaxActorConnections
      /\ owner' = [owner EXCEPT ![o].peers[a] = c]
      /\ conn' = AllTold(cn, (PeersOf(o) \ {old}) \cup {c})
      /\ UNCHANGED <<live, wg>>

\* registerShareSignalLocked with an owner that is there: a former connection of
\* the same device is replaced, and with it the negotiation.
Join(c, o) ==
  LET a    == conn[c].actor
      old  == owner[o].peers[a]
      self == [conn EXCEPT ![c].phase = "open", ![c].owner = o]
      cn   == IF old = Null THEN self ELSE [self EXCEPT ![old] = Cancelled(@)]
  IN  /\ old = Null => Cardinality(ConnectedTo(a)) < MaxActorConnections
      /\ owner' = [owner EXCEPT ![o].peers[a] = c,
                               ![o].negotiation = IF old = Null THEN @ ELSE Null]
      /\ conn' = AllTold(cn, (PeersOf(o) \ {old}) \cup {c})
      /\ UNCHANGED <<live, wg>>

\* registerShareSignalLocked with a new owner and its timer.
Found(c, o) ==
  LET a == conn[c].actor
      s == conn[c].scope
  IN  /\ Cardinality(ConnectedTo(a)) < MaxActorConnections
      /\ Cardinality(live) < MaxScopes
      /\ live' = live \cup {o}
      /\ owner' = [owner EXCEPT ![o] =
                     [NoOwner EXCEPT !.scope = s, !.peers[a] = c, !.timer = "armed",
                                     !.deadline = ScopeDeadline(s, grants[s.grant])]]
      /\ conn' = AllTold([conn EXCEPT ![c].phase = "open", ![c].owner = o], {c})
      /\ wg' = wg + 1

\* A registration that keeps the authorization it was given before the upgrade.
RegisterUnchecked(c) ==
  /\ conn[c].phase = "upgrading" /\ ~conn[c].cancelled /\ ~closed
  /\ \/ \E o \in AtScope(conn[c].scope) : Join(c, o)
     \/ /\ AtScope(conn[c].scope) = {}
        /\ \E o \in {o \in OwnerIDs : owner[o].timer = "none"} : Found(c, o)
  /\ UNCHANGED <<vars, ice, closing, closed, frames>>

Register(c) ==
  /\ conn[c].phase = "upgrading" /\ ~conn[c].cancelled /\ ~closed
  /\ Authorized(conn[c].scope, conn[c].actor)
  /\ \/ \E o \in AtScope(conn[c].scope) : Join(c, o)
     \/ /\ AtScope(conn[c].scope) = {}
        /\ \E o \in {o \in OwnerIDs : owner[o].timer = "none"} : Found(c, o)
  /\ UNCHANGED <<vars, ice, closing, closed, frames>>

\* The upgrade fails, or the second authorization or a limit refuses it.
GiveUp(c) ==
  /\ conn[c].phase = "upgrading"
  /\ conn' = [conn EXCEPT ![c] = [NoConn EXCEPT !.phase = "done"]]
  /\ wg' = wg - 1
  /\ UNCHANGED <<vars, live, owner, ice, closing, closed, frames>>

(***************************************************************************)
(* The end of a connection: the deferred calls of shareWebsocket cancel    *)
(* the context, wait for the writer and unregister.                        *)
(***************************************************************************)
Leaves(c) ==
  /\ conn[c].phase = "open"
  /\ conn' = [conn EXCEPT ![c] =
                [NoConn EXCEPT !.phase = "leaving", !.actor = conn[c].actor,
                               !.scope = conn[c].scope, !.owner = conn[c].owner,
                               !.cancelled = TRUE]]
  /\ UNCHANGED <<vars, live, owner, ice, wg, closing, closed, frames>>

\* The client or the network ends it, it is silent for 65 s or over its budget.
ConnectionLost(c) == ~conn[c].cancelled /\ Leaves(c)

\* The read loop meets the closed connection.
ReadEnds(c) == conn[c].cancelled /\ Leaves(c)

\* writeShareSignals: the reason of a retirement closes the connection.
CloseTerminal(c) ==
  /\ conn[c].phase = "open" /\ conn[c].terminal /\ ~conn[c].cancelled
  /\ conn' = [conn EXCEPT ![c] = Cancelled(@)]
  /\ UNCHANGED <<vars, live, owner, ice, wg, closing, closed, frames>>

Done(cn, c) == [cn EXCEPT ![c] = [NoConn EXCEPT !.phase = "done"]]

\* A cleanup that takes the actor's entry for its own.
UnregisterByActor(c) ==
  LET o == conn[c].owner
      rest == PeersOf(o) \ {owner[o].peers[conn[c].actor]}
      left == [owner EXCEPT ![o].peers[conn[c].actor] = Null, ![o].negotiation = Null]
  IN  /\ conn[c].phase = "leaving"
      /\ IF o \notin live
         THEN conn' = Done(conn, c) /\ wg' = wg - 1 /\ UNCHANGED <<live, owner>>
         ELSE IF rest = {}
         THEN Retire({o}, FALSE, Done(conn, c), left, wg - 1)
         ELSE /\ owner' = left
              /\ conn' = AllTold(Done(conn, c), rest)
              /\ wg' = wg - 1 /\ UNCHANGED live
      /\ UNCHANGED <<vars, ice, closing, closed, frames>>

\* A cleanup after which an empty owner stays in the map.
UnregisterKeepingOwner(c) ==
  LET o == conn[c].owner
      rest == PeersOf(o) \ {c}
      left == [owner EXCEPT ![o].peers[conn[c].actor] = Null, ![o].negotiation = Null]
  IN  /\ conn[c].phase = "leaving"
      /\ IF ~Registered(c)
         THEN conn' = Done(conn, c) /\ wg' = wg - 1 /\ UNCHANGED <<live, owner>>
         ELSE /\ owner' = left
              /\ conn' = AllTold(Done(conn, c), rest)
              /\ wg' = wg - 1 /\ UNCHANGED live
      /\ UNCHANGED <<vars, ice, closing, closed, frames>>

Unregister(c) ==
  LET o == conn[c].owner
      rest == PeersOf(o) \ {c}
      left == [owner EXCEPT ![o].peers[conn[c].actor] = Null, ![o].negotiation = Null]
  IN  /\ conn[c].phase = "leaving"
      /\ IF ~Registered(c)
         THEN conn' = Done(conn, c) /\ wg' = wg - 1 /\ UNCHANGED <<live, owner>>
         ELSE IF rest = {}
         THEN Retire({o}, FALSE, Done(conn, c), left, wg - 1)
         ELSE /\ owner' = left
              /\ conn' = AllTold(Done(conn, c), rest)
              /\ wg' = wg - 1 /\ UNCHANGED live
      /\ UNCHANGED <<vars, ice, closing, closed, frames>>

(***************************************************************************)
(* forwardShareSignal                                                      *)
(***************************************************************************)
Receiving(c) == conn[c].phase = "open" /\ Registered(c) /\ frames < MaxFrames

\* The connection's context has ended, or the clock is past its scope: the
\* owner is retired, for a failed read without a reason.
ForwardUnauthorized(c) ==
  /\ Receiving(c)
  /\ \/ conn[c].cancelled /\ Retire({conn[c].owner}, FALSE, conn, owner, wg)
     \/ /\ ~conn[c].cancelled /\ ~Authorized(conn[c].scope, conn[c].actor)
        /\ Retire({conn[c].owner}, TRUE, conn, owner, wg)
  /\ frames' = frames + 1
  /\ UNCHANGED <<vars, ice, closing, closed>>

Accepting(c) ==
  Receiving(c) /\ ~conn[c].cancelled /\ Authorized(conn[c].scope, conn[c].actor)

Heartbeat(c) ==
  /\ Accepting(c)
  /\ conn' = Enqueued(conn, c, ReadyItem(Cardinality(PeersOf(conn[c].owner)) = 2))
  /\ frames' = frames + 1
  /\ UNCHANGED <<vars, live, owner, ice, wg, closing, closed>>

\* The record names the sender and receiver of the share; the other is the peer.
SenderOf(c) == grants[conn[c].scope.grant].sender

OtherParty(c) ==
  IF conn[c].actor = SenderOf(c) THEN grants[conn[c].scope.grant].receiver ELSE SenderOf(c)

\* The negotiation of c's owner, unless it has expired.
Current(c) ==
  LET n == owner[conn[c].owner].negotiation
  IN  IF n # Null THEN IF n.expires <= now THEN Null ELSE n ELSE Null

\* connect_request: may this connection start a negotiation for the session?
MayRequest(c, session) ==
  /\ conn[c].actor = SenderOf(c)
  /\ Current(c) # Null => Current(c).ended = {SenderOf(c), OtherParty(c)}
  /\ ice[conn[c].scope.grant][session] <= now

\* What another frame makes of the negotiation it belongs to.
Advanced(n, a, kind) ==
  CASE kind = "connect_response"  -> [n EXCEPT !.accepted = TRUE]
    [] kind = "candidate"         -> [n EXCEPT !.counts[a] = Min2(@ + 1, MaxCandidates + 1)]
    [] kind = "end_of_candidates" -> [n EXCEPT !.ended = @ \cup {a}]

MayAdvance(c, kind, session) ==
  LET n == Current(c)
  IN  /\ n # Null /\ session = n.session
      /\ kind = "connect_response" => conn[c].actor # SenderOf(c) /\ ~n.accepted
      /\ kind = "candidate" => n.counts[conn[c].actor] < MaxCandidates

\* The negotiation after the frame, refused or not: an expired one is dropped,
\* and a candidate is counted even when it is one too many.
Negotiation(c, kind, session) ==
  LET n == Current(c)
  IN  IF kind = "connect_request"
      THEN IF MayRequest(c, session) THEN NewNegotiation(session) ELSE n
      ELSE IF MayAdvance(c, kind, session) \/ (kind = "candidate" /\ n # Null /\ n.session = session)
           THEN Advanced(n, conn[c].actor, kind) ELSE n

\* Where a frame may go: to the peer if it has room, else back as an error,
\* although the negotiation has begun.  Whether a cancelled peer still has room
\* depends on how much its writer has thrown away.
Forwarded(c, to, item) ==
  LET request == IF item.kind = "connect_request" THEN {item.session} ELSE {}
      again   == {i \in request : ice[conn[c].scope.grant][i] # 0}
      start   == [conn EXCEPT ![to].excused = @ \cup again]
  IN  (IF conn[to].cancelled THEN {start} ELSE {}) \cup
      (IF conn[to].cancelled \/ Len(conn[to].queue) = QueueSize
       THEN {[Enqueued(start, c, ErrorItem) EXCEPT ![to].excused = @ \cup request]}
       ELSE {Enqueued(start, to, item)})

Signal(c, kind, session) ==
  LET o  == conn[c].owner
      to == owner[o].peers[OtherParty(c)]
      ok == IF kind = "connect_request" THEN MayRequest(c, session)
            ELSE MayAdvance(c, kind, session)
  IN  /\ Accepting(c)
      /\ IF to = Null
         THEN conn' = Enqueued(conn, c, ErrorItem) /\ UNCHANGED <<owner, ice>>
         ELSE /\ owner' = [owner EXCEPT ![o].negotiation = Negotiation(c, kind, session)]
              /\ conn' \in IF ok THEN Forwarded(c, to, SignalItem(kind, session, c))
                           ELSE {Enqueued(conn, c, ErrorItem)}
              /\ ice' = IF ok /\ kind = "connect_request"
                        THEN [ice EXCEPT ![conn[c].scope.grant][session] = now + NegotiationTTL]
                        ELSE ice
      /\ frames' = frames + 1
      /\ UNCHANGED <<vars, live, wg, closing, closed>>

(***************************************************************************)
(* writeShareSignals: one turn of the writer                               *)
(***************************************************************************)
Written(c, item) ==
  [conn EXCEPT ![c].queue = Tail(@), ![c].last = IF item.source # Null THEN item ELSE @,
               ![c].heard = IF item.kind = "connect_request" THEN @ \cup {item.session} ELSE @]

\* The check under the gate that a queued frame is still of the current
\* connection and negotiation.
StillCurrent(c, item) ==
  item.source # Null =>
    LET o == owner[conn[c].owner]
    IN  /\ \E a \in Actors : o.peers[a] = item.source
        /\ o.negotiation # Null /\ item.session = o.negotiation.session

WriteNext(c) ==
  /\ conn[c].phase = "open" /\ ~conn[c].cancelled /\ ~conn[c].terminal
  /\ conn[c].queue # <<>>
  /\ LET item == Head(conn[c].queue)
         rest == [conn EXCEPT ![c].queue = Tail(@)]
     IN  IF ~Registered(c)
         THEN conn' = rest /\ UNCHANGED <<live, owner, wg>>
         ELSE IF ~Authorized(conn[c].scope, conn[c].actor)
         THEN Retire({conn[c].owner}, TRUE, rest, owner, wg)
         ELSE /\ conn' = IF StillCurrent(c, item) THEN Written(c, item) ELSE rest
              /\ UNCHANGED <<live, owner, wg>>
  /\ UNCHANGED <<vars, ice, closing, closed, frames>>

(***************************************************************************)
(* The owner's timer, a share store that cannot be read, and Server.Close  *)
(***************************************************************************)
TimerFires(o) ==
  /\ owner[o].timer = "armed" /\ now >= owner[o].deadline
  /\ owner' = [owner EXCEPT ![o].timer = "fired"]
  /\ UNCHANGED <<vars, live, conn, ice, wg, closing, closed, frames>>

TimerCallback(o) ==
  /\ owner[o].timer = "fired"
  /\ Retire({o} \cap live, TRUE, conn, [owner EXCEPT ![o].timer = "ran"], wg - 1)
  /\ UNCHANGED <<vars, ice, closing, closed, frames>>

\* A read of the share that times out retires the owner of whoever needed it.
StoreUnreadable(o) ==
  /\ o \in live
  /\ Retire({o}, FALSE, conn, owner, wg)
  /\ UNCHANGED <<vars, ice, closing, closed, frames>>

Close ==
  /\ ~closing /\ closing' = TRUE
  /\ conn' = [c \in ConnIDs |->
                IF c \in Handlers THEN Cancelled(conn[c]) ELSE conn[c]]
  /\ UNCHANGED <<vars, live, owner, ice, wg, closed, frames>>

CloseShareSignals ==
  /\ closing /\ ~closed /\ closed' = TRUE
  /\ Retire(live, FALSE, conn, owner, wg)
  /\ UNCHANGED <<vars, ice, closing, frames>>

SignalInit ==
  /\ Init
  /\ live = {} /\ owner = [o \in OwnerIDs |-> NoOwner] /\ conn = [c \in ConnIDs |-> NoConn]
  /\ ice = [g \in GrantIDs |-> [i \in IceSessions |-> 0]]
  /\ wg = 0 /\ closing = FALSE /\ closed = FALSE /\ frames = 0

Connections ==
  \E c \in ConnIDs :
    \/ \E a \in Actors, s \in Scopes : OpenWebsocket(c, a, s)
    \/ Register(c) \/ GiveUp(c) \/ ConnectionLost(c) \/ ReadEnds(c) \/ CloseTerminal(c)
    \/ Unregister(c) \/ ForwardUnauthorized(c) \/ Heartbeat(c) \/ WriteNext(c)
    \/ \E k \in Kinds, i \in IceSessions : Signal(c, k, i)

SignalNext ==
  \/ ShareControl \/ ShareRead \/ Reap \/ Connections
  \/ \E o \in OwnerIDs : TimerFires(o) \/ TimerCallback(o) \/ StoreUnreadable(o)
  \/ (MayClose /\ Close) \/ CloseShareSignals
  \/ (ReapExpired \/ Tick \/ SetBack \/ Horizon) /\ UNCHANGED hub

SignalSpec == SignalInit /\ [][SignalNext]_allvars

\* Goroutines that can go on do, timers are delivered, and Close goes on.
SignalFairSpec ==
  /\ SignalSpec
  /\ \A c \in ConnIDs : WF_allvars(GiveUp(c)) /\ WF_allvars(ReadEnds(c)) /\ WF_allvars(CloseTerminal(c)) /\ WF_allvars(Unregister(c))
  /\ \A o \in OwnerIDs : WF_allvars(TimerCallback(o))
  /\ WF_allvars(CloseShareSignals)

(***************************************************************************)
(* Properties                                                              *)
(***************************************************************************)

\* The objects of the hub have their shapes.
SignalTypeOK ==
  /\ live \subseteq OwnerIDs
  /\ \A o \in OwnerIDs :
       /\ owner[o].scope \in Scopes \cup {NoScope}
       /\ owner[o].peers \in [Actors -> ConnIDs \cup {Null}]
       /\ owner[o].timer \in {"none", "armed", "fired", "ran", "stopped"}
       /\ owner[o].negotiation # Null => owner[o].negotiation.session \in IceSessions
  /\ \A c \in ConnIDs :
       /\ conn[c].phase \in {"new", "upgrading", "open", "leaving", "done"}
       /\ conn[c].actor \in Actors \cup {Null} /\ conn[c].owner \in OwnerIDs \cup {Null}
       /\ conn[c].scope \in Scopes \cup {NoScope}
       /\ conn[c].cancelled \in BOOLEAN /\ conn[c].terminal \in BOOLEAN
       /\ Len(conn[c].queue) <= QueueSize
       /\ \A i \in 1 .. Len(conn[c].queue) : conn[c].queue[i] \in Item
  /\ ice \in [GrantIDs -> [IceSessions -> Nat]]
  /\ wg \in Nat /\ closing \in BOOLEAN /\ closed \in BOOLEAN /\ frames \in Nat

\* No signaling survives the share it serves: whatever requests, reaper passes
\* and registrations interleave, every owner in the map belongs to a share that
\* is still approved (preview) or bound (transfer) for exactly its claim, task,
\* generation, manifest and plan, the moment the gate is released.
OwnersAreGranted ==
  \A o \in live :
    LET s == owner[o].scope IN Present(s.grant) /\ ScopeMatches(s, grants[s.grant])

\* The map and the handlers agree: a registered connection has a running
\* handler of that device for that very owner, and no owner without connections
\* stays in the map (it would hold one of the hub's scopes until its deadline).
NoGhostPeers ==
  \A o \in live :
    /\ PeersOf(o) # {}
    /\ \A a \in Actors : owner[o].peers[a] # Null =>
         LET c == owner[o].peers[a]
         IN  /\ conn[c].phase \in {"open", "leaving"}
             /\ conn[c].owner = o /\ conn[c].actor = a /\ conn[c].scope = owner[o].scope

\* Only its own cleanup takes a connection out of an owner that stays: an old
\* connection's cleanup never removes its replacement, and a replacement is the
\* same device's.
CleanupIsOwn ==
  [][\A o \in live \cap live', a \in Actors :
       LET c == owner[o].peers[a]
       IN  c # Null /\ owner'[o].peers[a] # c =>
             \/ conn[c].phase = "leaving" /\ conn'[c].phase = "done"
             \/ owner'[o].peers[a] # Null /\ conn'[owner'[o].peers[a]].actor = a]_allvars

\* Server.Close waits for exactly the work there is: the wait group counts the
\* handlers, and each timer from its start until it is stopped or its callback
\* has run, in every order of firing, retiring and closing.
WaitGroupBalanced ==
  wg = Cardinality(Handlers) + Cardinality({o \in OwnerIDs : owner[o].timer \in {"armed", "fired"}})

\* What a connection was last told of its peer's presence is true, however
\* arrivals, replacements, departures and heartbeats of the two interleave;
\* one that could not be told is being closed.
ReadinessIsCurrent ==
  \A o \in live, a \in Actors :
    LET c == owner[o].peers[a]
    IN  c # Null => conn[c].cancelled \/ conn[c].told = (Cardinality(PeersOf(o)) = 2)

\* A connection is never written candidates of a negotiation whose request it
\* has not seen, unless the sender was told that the request found no room or
\* uses a session's name again, which the code allows after two minutes and no
\* client does: a peer that reconnects does not meet the negotiation of its
\* former connection, nor one that overtook the request in the queue.
RequestComesFirst ==
  \A c \in ConnIDs :
    LET f == conn[c].last
    IN  f.kind \in {"candidate", "end_of_candidates"} /\ Registered(c)
          /\ conn[c].actor # grants[conn[c].scope.grant].sender =>
        f.session \in conn[c].heard \cup conn[c].excused

\* Every connection of a retired owner ends and gives its slot back.
RetiredPeersLeave ==
  \A c \in ConnIDs :
    (conn[c].phase = "open" /\ conn[c].owner \notin live) ~> (conn[c].phase = "done")

\* Close returns: once begun, the handlers and timers it waits for all end.
CloseReturns == closing ~> (wg = 0)

\* The hub's map, the shares, the handlers, the wait group and what connections
\* were told agree whenever the gate is free.
SignalInv == SignalTypeOK /\ OwnersAreGranted /\ NoGhostPeers /\ WaitGroupBalanced /\ ReadinessIsCurrent

\* Whatever ends a connection or the hub, its goroutines return.
SignalEnds == RetiredPeersLeave /\ CloseReturns
=============================================================================
