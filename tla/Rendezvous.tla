----------------------------- MODULE Rendezvous -----------------------------
(***************************************************************************)
(* How two devices that are not in one network agree on a session: the     *)
(* signaling connections of the server (internal/server/server.go) and the *)
(* dialling and listening ends of internal/app/direct.go and inbox.go.     *)
(*                                                                         *)
(* A device owns one signaling connection, which its listener parks when   *)
(* the user dials and takes back afterwards, with whatever has arrived on  *)
(* it.  A device is its place in the order of the identities.  Signatures, *)
(* expiry, rate limits, heartbeats and the count of candidates are left    *)
(* out; of the direct path only whether both ends take part in the same    *)
(* session is kept.                                                        *)
(***************************************************************************)
EXTENDS FiniteSets, Naturals, Sequences

CONSTANTS
    Identities,           \* numbers: their order matters
    MaxRequests,          \* requests ever sent
    MaxConnections,       \* signaling connections a device ever opens
    MaxSessionsPerDevice, \* protocol.MaxSessionsPerDevice
    MaxAttempts,          \* the attempts of connectWithOnlineGrace
    MeetingScenarios      \* what may go wrong: see RendezvousInit

ASSUME RendezvousAssumption ==
    /\ Identities \subseteq Nat /\ 0 \notin Identities
    /\ {MaxRequests, MaxConnections, MaxSessionsPerDevice, MaxAttempts} \subseteq Nat \ {0}

VARIABLES
    clients,  \* Server.clients: the connection of each device, 0 for none
    negs,     \* Server.sessions
    mine,     \* the connection each device owns
    made,     \* connections each device has opened
    up, down, \* messages on their way to the server, and to the device's own connection
    at,       \* what each device is doing
    asked,    \* requests sent: each has the next identifier
    chance    \* what may still go wrong

atServer == <<clients, negs>>
ends == <<mine, made, down>>
rendezvousVars == <<atServer, ends, up, at, asked, chance>>

Meetings == 1 .. MaxRequests
NoNeg == [from |-> 0, to |-> 0, accepted |-> FALSE, ended |-> {}, over |-> <<0, 0>>]
Resting == [pc |-> "off", dials |-> FALSE, peer |-> 0, ses |-> 0, leads |-> FALSE,
            sent |-> FALSE, got |-> FALSE, path |-> FALSE, tries |-> 0]
Listening == [Resting EXCEPT !.pc = "listen"]
Message(type, x, d, e) == [type |-> type, ses |-> x, from |-> d, to |-> e]
Failure(code) == [type |-> "error", ses |-> 0, from |-> 0, to |-> 0, code |-> code]

\* Session.SendEnvelope, on the connection the device owns.
Sent(d, m) == [up EXCEPT ![d] = Append(@, <<mine[d], m>>)]
\* dropNegotiationsLocked
WithoutNegs(d) == [x \in Meetings |-> IF d \in {negs[x].from, negs[x].to} THEN NoNeg ELSE negs[x]]

\* Mutant: the negotiations of the connection replaced are kept.
AdmitKeeping(d, n) == clients' = [clients EXCEPT ![d] = n] /\ UNCHANGED negs

\* Server.websocket: an authenticated connection takes the device's place, and
\* what was negotiated over the one before is forgotten.
Admit(d, n) == clients' = [clients EXCEPT ![d] = n] /\ negs' = WithoutNegs(d)

\* Client.Connect
OpenSignal(d) ==
    /\ made[d] < MaxConnections     \* bound
    /\ Admit(d, made[d] + 1)
    /\ made' = [made EXCEPT ![d] = @ + 1] /\ mine' = [mine EXCEPT ![d] = made[d] + 1]
    /\ down' = [down EXCEPT ![d] = <<>>]

\* Session.Close: the server sees it later.
Close(d) == mine' = [mine EXCEPT ![d] = 0] /\ down' = [down EXCEPT ![d] = <<>>]

-----------------------------------------------------------------------------
(* The server *)

\* A message for a connection its device has closed is lost.
Delivered(q, e, m) == IF clients[e] = mine[e] THEN [q EXCEPT ![e] = Append(@, m)] ELSE q
Sessions(table, d) == {x \in Meetings : d \in {table[x].from, table[x].to}}

\* What keeps a request from becoming a negotiation, once the request that lost
\* against it is forgotten.
Quota(table, m) == \E d \in {m.from, m.to} : Cardinality(Sessions(table, d)) >= MaxSessionsPerDevice

\* Mutant: the later request wins.
LaterWins(m) == {}

\* Simultaneous initiation keeps the request of the smaller identity.
Winner(m) == {x \in Meetings : negs[x].from = m.to /\ negs[x].to = m.from /\ negs[x].from < m.from}
Loser(m) == {x \in Meetings : negs[x].from = m.to /\ negs[x].to = m.from} \ Winner(m)

Refuse(d, code) ==
    down' = Delivered(down, d, Failure(code)) /\ UNCHANGED negs

TakeRequest(m) ==
    LET rest == [x \in Meetings |-> IF x \in Loser(m) THEN NoNeg ELSE negs[x]] IN
    IF \E x \in Meetings : negs[x].from = m.from /\ negs[x].to = m.to THEN Refuse(m.from, "SESSION_CONFLICT")
    ELSE IF Winner(m) # {}
    THEN UNCHANGED <<negs, down>>     \* coalesced: no answer
    ELSE IF Quota(rest, m) THEN Refuse(m.from, "RATE_LIMITED")
    ELSE /\ negs' = [rest EXCEPT ![m.ses] = [NoNeg EXCEPT !.from = m.from, !.to = m.to,
                                                         !.over = <<clients[m.from], clients[m.to]>>]]
         /\ down' = Delivered(down, m.to, m)

TakeOther(m) ==
    LET n == negs[m.ses]
        known == {m.from, m.to} = {n.from, n.to}
        fits == m.type # "response" \/ (m.from = n.to /\ ~n.accepted)
        ended == n.ended \cup (IF m.type = "end" THEN {m.from} ELSE {}) IN
    IF ~known \/ ~fits THEN Refuse(m.from, "INVALID_MESSAGE")
    ELSE /\ negs' = [negs EXCEPT ![m.ses] =
                       IF ended = {n.from, n.to} THEN NoNeg
                       ELSE [n EXCEPT !.accepted = @ \/ m.type = "response", !.ended = ended]]
         /\ down' = Delivered(down, m.to, m)

\* Server.forward, for the next message of a device.  A message of a connection
\* that was replaced is refused.
Forward(d) ==
    /\ up[d] # <<>> /\ up' = [up EXCEPT ![d] = Tail(@)]
    /\ LET m == Head(up[d])[2] IN
         IF Head(up[d])[1] # clients[d] THEN UNCHANGED <<negs, down>>
         ELSE IF clients[m.to] = 0 THEN Refuse(d, "PEER_OFFLINE")
         ELSE IF m.type = "request" THEN TakeRequest(m) ELSE TakeOther(m)
    /\ UNCHANGED <<clients, mine, made, at, asked, chance>>

\* The end of Server.websocket, when the device has closed the connection or it
\* broke.  The handler of a connection that was replaced leaves the new one alone.
ConnectionEnds(d) ==
    /\ clients[d] # 0 /\ clients[d] # mine[d]
    /\ clients' = [clients EXCEPT ![d] = 0] /\ negs' = WithoutNegs(d)
    /\ UNCHANGED <<ends, up, at, asked, chance>>

\* The connection breaks: the server drops it, and the device's reader fails.
ConnectionBreaks(d) ==
    /\ clients[d] # 0 /\ clients[d] = mine[d] /\ chance.break > 0
    /\ clients' = [clients EXCEPT ![d] = 0] /\ negs' = WithoutNegs(d)
    /\ down' = [down EXCEPT ![d] = Append(@, Failure("SIGNALING_UNREACHABLE"))]
    /\ chance' = [chance EXCEPT !.break = @ - 1]
    /\ UNCHANGED <<mine, made, up, at, asked>>

-----------------------------------------------------------------------------
(* A device dials *)

\* stopInbox: the listener is stopped for the dial.  A request it was answering
\* fails, and the other side is told; the connection is parked as it is.
StartDial(d, e) ==
    /\ ~at[d].dials /\ e \in chance.dial[d]
    /\ chance' = [chance EXCEPT !.dial[d] = @ \ {e}]
    /\ IF at[d].ses = 0 THEN UNCHANGED up
       ELSE ~chance.calm /\ up' = Sent(d, Message("status", at[d].ses, d, at[d].peer))
    /\ at' = [at EXCEPT ![d] = [Resting EXCEPT !.pc = "request", !.dials = TRUE, !.peer = e, !.tries = 1]]
    /\ UNCHANGED <<atServer, ends, asked>>

\* A parked connection that is gone is replaced, as is one never there; the
\* listener opens its own.
Reach(d) ==
    /\ at[d].pc \in {"request", "off"}
    /\ mine[d] = 0 \/ (at[d].pc = "request" /\ clients[d] # mine[d])
    /\ OpenSignal(d)
    /\ at' = [at EXCEPT ![d].pc = IF @ = "off" THEN "listen" ELSE @]
    /\ UNCHANGED <<up, asked, chance>>

\* ConnectDirect sends its request under a new identifier.
Request(d) ==
    /\ at[d].pc = "request" /\ mine[d] # 0
    /\ asked < MaxRequests     \* bound
    /\ asked' = asked + 1
    /\ up' = Sent(d, Message("request", asked + 1, d, at[d].peer))
    /\ at' = [at EXCEPT ![d].pc = "wait", ![d].ses = asked + 1]
    /\ UNCHANGED <<atServer, ends, chance>>

\* A dial or an answer comes to nothing: the connection is closed, and who
\* answered tells the other side.
DialFails(d, told) ==
    /\ Close(d)
    /\ up' = IF told THEN Sent(d, Message("status", at[d].ses, d, at[d].peer)) ELSE up
    /\ at' = [at EXCEPT ![d] = Resting]

\* connectWithOnlineGrace: only a peer that is offline is tried again.
TriesAgain(d) ==
    /\ Close(d) /\ UNCHANGED up
    /\ at' = [at EXCEPT ![d] = [Resting EXCEPT !.pc = "request", !.dials = TRUE, !.peer = at[d].peer, !.tries = at[d].tries + 1]]

Joins(d, m) == [Resting EXCEPT !.pc = "exchange", !.dials = at[d].dials, !.peer = m.from, !.ses = m.ses]
Accepts(d, m) ==
    /\ up' = Sent(d, Message("response", m.ses, d, m.from))
    /\ at' = [at EXCEPT ![d] = Joins(d, m)]

\* What a dial does with the next message.  Of two requests that crossed, the
\* smaller identity ignores the other's, and the larger answers it.
DialReads(d, m) ==
    LET answered == m.type = "response" /\ m.ses = at[d].ses /\ m.from = at[d].peer
        crossed == m.type = "request" /\ m.from = at[d].peer
        rest == [down EXCEPT ![d] = Tail(@)] IN
    \/ crossed /\ d < m.from /\ down' = rest /\ UNCHANGED <<mine, up, at>>
    \/ crossed /\ d > m.from /\ Accepts(d, m) /\ down' = rest /\ UNCHANGED mine
    \/ answered /\ at' = [at EXCEPT ![d].pc = "exchange", ![d].leads = TRUE] /\ down' = rest /\ UNCHANGED <<mine, up>>
    \/ /\ ~answered /\ ~crossed
       /\ IF m.type = "error" /\ m.code = "PEER_OFFLINE" /\ at[d].tries < MaxAttempts
          THEN TriesAgain(d) ELSE DialFails(d, FALSE)

\* acceptDirectOnSessionPeer waits for a request; anything else ends the connection.
ListenerReads(d, m) ==
    IF m.type = "request"
    THEN /\ at' = [at EXCEPT ![d] = [Joins(d, m) EXCEPT !.pc = "answer"]]
         /\ down' = [down EXCEPT ![d] = Tail(@)] /\ UNCHANGED <<mine, up>>
    ELSE DialFails(d, FALSE)

\* exchangeCandidateStreamWithBudget reads until the other side's end.
ExchangeReads(d, m) ==
    IF m.type = "end" /\ m.ses = at[d].ses /\ m.from = at[d].peer
    THEN /\ at' = [at EXCEPT ![d].got = TRUE]
         /\ down' = [down EXCEPT ![d] = Tail(@)] /\ UNCHANGED <<mine, up>>
    ELSE DialFails(d, ~at[d].dials)

Read(d) ==
    /\ down[d] # <<>>
    /\ LET m == Head(down[d]) IN
         \/ at[d].pc = "wait" /\ DialReads(d, m)
         \/ at[d].pc = "listen" /\ ListenerReads(d, m)
         \/ at[d].pc = "exchange" /\ ~at[d].got /\ ExchangeReads(d, m)
    /\ UNCHANGED <<atServer, made, asked, chance>>

-----------------------------------------------------------------------------
(* Both ends take part in a session *)

\* establishResponder, once the endpoint is set up.
Answer(d) ==
    /\ at[d].pc = "answer"
    /\ Accepts(d, Message("request", at[d].ses, at[d].peer, d))
    /\ UNCHANGED <<atServer, ends, asked, chance>>

SendEnd(d) ==
    /\ at[d].pc = "exchange" /\ ~at[d].sent
    /\ up' = Sent(d, Message("end", at[d].ses, d, at[d].peer))
    /\ at' = [at EXCEPT ![d].sent = TRUE]
    /\ UNCHANGED <<atServer, ends, asked, chance>>

\* The other end takes part in the same session, in the other role.
Meets(d, pcs) ==
    LET e == at[d].peer IN
    at[e].pc \in pcs /\ at[e].ses = at[d].ses /\ at[e].leads # at[d].leads

\* connectWithCandidateStream: the path is found while candidates are exchanged,
\* and both are waited for.
FindPath(d) ==
    /\ at[d].pc = "exchange" /\ ~at[d].path /\ Meets(d, {"exchange", "quic"})
    /\ at' = [at EXCEPT ![d].path = TRUE]
    /\ UNCHANGED <<atServer, ends, up, asked, chance>>
Exchanged(d) ==
    /\ at[d].pc = "exchange" /\ at[d].sent /\ at[d].got /\ at[d].path
    /\ at' = [at EXCEPT ![d].pc = "quic"]
    /\ UNCHANGED <<atServer, ends, up, asked, chance>>

\* The QUIC handshake.  The listener goes on on the same connection.
Establish(d) ==
    LET e == at[d].peer  after(x) == IF at[x].dials THEN [at[x] EXCEPT !.pc = "done"] ELSE Listening IN
    /\ at[d].pc = "quic" /\ at[d].leads /\ Meets(d, {"quic"})
    /\ at' = [at EXCEPT ![d] = after(d), ![e] = after(e)]
    /\ UNCHANGED <<atServer, ends, up, asked, chance>>

\* The dial is over; its connection goes back to the listener.
Settle(d) ==
    /\ at[d].pc = "done"
    /\ at' = [at EXCEPT ![d] = Listening]
    /\ UNCHANGED <<atServer, ends, up, asked, chance>>

\* The endpoint cannot be set up, a wait times out, or the path is not found.
GiveUp(d) ==
    /\ ~chance.calm
    /\ at[d].pc \in {"wait", "answer", "exchange", "quic"}
    /\ DialFails(d, ~at[d].dials)
    /\ UNCHANGED <<atServer, made, asked, chance>>

-----------------------------------------------------------------------------
(* The system *)

RendezvousInit ==
    /\ clients = [d \in Identities |-> 1] /\ mine = [d \in Identities |-> 1] /\ made = [d \in Identities |-> 1]
    /\ negs = [x \in Meetings |-> NoNeg]
    /\ up = [d \in Identities |-> <<>>] /\ down = [d \in Identities |-> <<>>]
    /\ at = [d \in Identities |-> Listening]
    /\ asked = 0
    /\ \E c \in MeetingScenarios : chance = c

ServerStep == \E d \in Identities : Forward(d) \/ ConnectionEnds(d)
EndStep ==
    \E d \in Identities :
      \/ Reach(d) \/ Request(d) \/ Read(d) \/ Answer(d) \/ SendEnd(d) \/ FindPath(d)
      \/ Exchanged(d) \/ Establish(d) \/ Settle(d)

RendezvousNext ==
    \/ ServerStep \/ EndStep
    \/ \E d \in Identities : ConnectionBreaks(d) \/ GiveUp(d) \/ \E e \in Identities : StartDial(d, e)

\* What goes on by itself.  Each step uses up a message, a connection or a stage
\* of a dial, so that fairness to all together is fairness to each.
RendezvousSpec ==
    RendezvousInit /\ [][RendezvousNext]_rendezvousVars /\ WF_rendezvousVars(ServerStep \/ EndStep)

-----------------------------------------------------------------------------
(* Properties *)

\* A negotiation belongs to the two connections it began on and is the only one
\* of its pair: what a connection leaves behind changes nothing for the next
\* (SECURITY.md:126), nor does the loser of two requests that crossed.
NegotiationsAreCurrent ==
    \A x \in Meetings : negs[x] # NoNeg =>
        /\ negs[x].over = <<clients[negs[x].from], clients[negs[x].to]>>
        /\ \A y \in Meetings \ {x} : {negs[y].from, negs[y].to} # {negs[x].from, negs[x].to}
        /\ \A d \in Identities : Cardinality(Sessions(negs, d)) <= MaxSessionsPerDevice

\* Where nothing fails a dial succeeds, also when the other device dials at the
\* same time and in whatever order the requests reach the server and the ends.
DialsMeet == \A d \in Identities : chance.calm /\ at[d].dials ~> at[d].pc = "done"

=============================================================================
