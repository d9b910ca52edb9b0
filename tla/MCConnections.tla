--------------------------- MODULE MCConnections ----------------------------
(***************************************************************************)
(* With whom a device connects, and its sessions, checked side by side: the*)
(* trust file (Membership) and the sessions of two devices (Sessions) share*)
(* no state, so each behaviour is one of either.                           *)
(***************************************************************************)
EXTENDS Sessions, Membership

VARIABLE part

\* Sessions: a few dials, faults and decisions.
MCDevices == {"p", "q"}
None == [d \in Devices |-> 0]
P(n) == [None EXCEPT !["p"] = n]
Q(n) == [None EXCEPT !["q"] = n]
Both == [d \in Devices |-> 1]
Calm == [dial |-> Both, file |-> None, clip |-> None, job |-> None, lease |-> None, fault |-> None,
         path |-> None, withdraw |-> None, shutdown |-> None, pause |-> None]
SessionCases ==
    { [Calm EXCEPT !.clip = Both],
      [Calm EXCEPT !.file = P(1), !.clip = Q(1)],
      [Calm EXCEPT !.dial = P(1), !.clip = P(1), !.lease = Both, !.job = P(1), !.file = Q(1)],
      [Calm EXCEPT !.dial = P(1), !.clip = P(1), !.lease = Both, !.path = P(1)],
      [Calm EXCEPT !.dial = P(1), !.clip = P(1), !.lease = Both, !.job = P(1), !.file = P(1)],
      [Calm EXCEPT !.dial = P(2), !.file = P(1), !.path = Q(1)],
      [Calm EXCEPT !.dial = P(2), !.file = P(2), !.fault = P(1)],
      [Calm EXCEPT !.dial = P(1), !.file = P(1), !.withdraw = Both],
      [Calm EXCEPT !.dial = P(1), !.clip = P(1), !.lease = Both, !.withdraw = P(1), !.job = P(1)],
      [Calm EXCEPT !.dial = P(1), !.clip = P(1), !.lease = Both, !.file = Q(1), !.shutdown = P(1)],
      [Calm EXCEPT !.dial = Q(1), !.file = Both, !.shutdown = P(1)],
      [Calm EXCEPT !.dial = P(1), !.clip = P(1), !.lease = Both, !.pause = Both] }

\* The trust file: decisions of the user, the server and the network.
Quiet == [blocks |-> 0, unblocks |-> 0, forgets |-> 0, accepts |-> 0, pairings |-> 0, trusts |-> 0, sessions |-> 0,
          revokes |-> 0, joins |-> 0, losses |-> 0, recoveries |-> 0, cancels |-> 0, continues |-> 0,
          crashes |-> 0, moves |-> 0, resets |-> 0, who |-> {"a"}, with |-> {"a"}, new |-> FALSE]
Two == [Quiet EXCEPT !.who = Peers, !.with = Peers]
MCPeers == {"a", "b"}
MemberCases ==
    { [Quiet EXCEPT !.forgets = 1, !.pairings = 1, !.sessions = 1, !.joins = 1, !.blocks = 1, !.unblocks = 1],
      [Quiet EXCEPT !.revokes = 2, !.losses = 2, !.moves = 2],
      [Quiet EXCEPT !.revokes = 1, !.losses = 1, !.joins = 1, !.moves = 1, !.crashes = 1],
      [Quiet EXCEPT !.revokes = 2, !.losses = 1, !.joins = 1, !.moves = 1],
      [Two EXCEPT !.revokes = 1, !.losses = 1, !.moves = 1],
      [Quiet EXCEPT !.blocks = 1, !.unblocks = 1, !.pairings = 1, !.accepts = 1, !.moves = 2],
      [Quiet EXCEPT !.joins = 2, !.moves = 2, !.losses = 1], [Quiet EXCEPT !.joins = 1, !.pairings = 1, !.moves = 1, !.accepts = 1],
      [Quiet EXCEPT !.new = TRUE, !.joins = 2, !.pairings = 1, !.losses = 1, !.revokes = 1],
      [Quiet EXCEPT !.with = {}, !.joins = 1, !.moves = 1, !.pairings = 1, !.sessions = 1, !.trusts = 1],
      [Quiet EXCEPT !.recoveries = 1, !.cancels = 1, !.continues = 2, !.moves = 1, !.resets = 1, !.pairings = 1, !.losses = 1],
      [Quiet EXCEPT !.recoveries = 1, !.continues = 1, !.resets = 1, !.revokes = 1, !.blocks = 1],
      [Quiet EXCEPT !.recoveries = 1, !.continues = 1, !.resets = 1, !.forgets = 1, !.trusts = 1, !.sessions = 1, !.crashes = 1] }

ConnectionsInit ==
    /\ part \in {"sessions", "members"} /\ SessionsInit /\ MembersInit
    /\ part # "sessions" => left = CHOOSE s \in SessionCases : TRUE
    /\ part # "members" => budget = CHOOSE s \in MemberCases : TRUE
ConnectionsNext ==
    \/ part = "sessions" /\ SessionsNext /\ UNCHANGED <<mbVars, part>>
    \/ part = "members" /\ MembersNext /\ UNCHANGED <<sessionVars, part>>
ConnectionsFairness ==
    /\ WF_sessionVars(part = "sessions" /\ Progress)
    /\ WF_mbVars(part = "members" /\ GoesOn)
ConnectionsSpec ==
    /\ ConnectionsInit /\ [][ConnectionsNext]_<<sessionVars, mbVars, part>> /\ ConnectionsFairness
=============================================================================
