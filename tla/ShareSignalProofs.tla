-------------------------- MODULE ShareSignalProofs -------------------------
(***************************************************************************)
(* Theorems about the share signaling hub, for every number of devices,    *)
(* shares, connections and owners, and every limit.                        *)
(*                                                                         *)
(* The parts of the inductive invariant are operators on values, not on    *)
(* the variables: a step that retires owners is then two, one that leaves  *)
(* intermediate values, and Retire, which needs the invariant only of the  *)
(* owners it leaves in the map.                                            *)
(***************************************************************************)
EXTENDS ShareSignal, ShareGrantProofs

Phases == {"new", "upgrading", "open", "leaving", "done"}
Held == {"upgrading", "open", "leaving"}
Timers == {"none", "armed", "fired", "ran", "stopped"}

NegotiationType ==
  [session : IceSessions, expires : Nat, accepted : BOOLEAN,
   counts : [Actors -> Nat], ended : SUBSET Actors]

OwnerType ==
  [scope : Scopes \cup {NoScope}, peers : [Actors -> ConnIDs \cup {Null}],
   negotiation : NegotiationType \cup {Null}, timer : Timers, deadline : Nat]

ConnType ==
  [phase : Phases, actor : Actors \cup {Null}, scope : Scopes \cup {NoScope},
   owner : OwnerIDs \cup {Null}, cancelled : BOOLEAN, terminal : BOOLEAN,
   queue : Seq(Item), told : BOOLEAN, last : Item,
   heard : SUBSET (IceSessions \cup {Null}), excused : SUBSET IceSessions]

(***************************************************************************)
(* The parts of the invariant, for owners ow, connections cn, the owners L *)
(* in the map, shares gr and a wait group w                                *)
(***************************************************************************)
PeersIn(ow, o) == {ow[o].peers[a] : a \in Actors} \ {Null}
HandlersIn(cn) == {c \in ConnIDs : cn[c].phase \in Held}
RunningIn(ow) == {o \in OwnerIDs : ow[o].timer \in {"armed", "fired"}}

Queued(cn) ==
  /\ cn \in [ConnIDs -> ConnType]
  /\ \A c \in ConnIDs : Len(cn[c].queue) <= QueueSize

Shaped(L, ow, cn) ==
  /\ Queued(cn)
  /\ ow \in [OwnerIDs -> OwnerType] /\ L \subseteq OwnerIDs
  /\ \A c \in ConnIDs : cn[c].phase \in Held => cn[c].actor \in Actors /\ cn[c].scope \in Scopes

Granted(gr, L, ow) ==
  \A o \in L :
    LET s == ow[o].scope
    IN  /\ s \in Scopes /\ gr[s.grant].state # "absent" /\ ScopeMatches(s, gr[s.grant])
        /\ ow[o].timer # "none"

Linked(L, ow, cn) ==
  \A o \in L :
    /\ \E a \in Actors : ow[o].peers[a] # Null
    /\ \A a \in Actors : ow[o].peers[a] # Null =>
         LET c == ow[o].peers[a]
         IN  /\ cn[c].phase \in {"open", "leaving"}
             /\ cn[c].owner = o /\ cn[c].actor = a /\ cn[c].scope = ow[o].scope

Balanced(ow, cn, w) ==
  /\ IsFiniteSet(HandlersIn(cn)) /\ IsFiniteSet(RunningIn(ow))
  /\ w = Cardinality(HandlersIn(cn)) + Cardinality(RunningIn(ow))

Told(L, ow, cn) ==
  \A o \in L, a \in Actors :
    LET c == ow[o].peers[a]
    IN  c # Null => cn[c].cancelled \/ cn[c].told = (Cardinality(PeersIn(ow, o)) = 2)

Good(gr, L, ow, cn, w) ==
  /\ Shaped(L, ow, cn) /\ Granted(gr, L, ow) /\ Linked(L, ow, cn)
  /\ Balanced(ow, cn, w) /\ Told(L, ow, cn)

\* The inductive invariant.
HubInv ==
  /\ TypeOK
  /\ ice \in [GrantIDs -> [IceSessions -> Nat]]
  /\ closing \in BOOLEAN /\ closed \in BOOLEAN /\ frames \in Nat
  /\ Good(grants, live, owner, conn, wg)

(***************************************************************************)
(* Queues                                                                  *)
(***************************************************************************)
\* What a handler is for does not change while items are queued and written.
SameLink(x, y) ==
  x.phase = y.phase /\ x.actor = y.actor /\ x.scope = y.scope /\ x.owner = y.owner

LEMMA ItemTypes ==
  /\ ErrorItem \in Item
  /\ \A flag \in BOOLEAN : ReadyItem(flag) \in Item
  /\ \A k \in Kinds, i \in IceSessions, c \in ConnIDs : SignalItem(k, i, c) \in Item
  BY DEF Item, ErrorItem, ReadyItem, SignalItem, Kinds

\* A connection whose queue is given up.
LEMMA EmptiedConn ==
  ASSUME NEW x \in ConnType
  PROVE  /\ Emptied(x) \in ConnType /\ Cancelled(x) \in ConnType
         /\ Emptied([x EXCEPT !.terminal = TRUE]) \in ConnType
         /\ Cancelled(x).queue = << >> /\ Emptied([x EXCEPT !.terminal = TRUE]).queue = << >>
         /\ SameLink(x, Cancelled(x)) /\ SameLink(x, Emptied([x EXCEPT !.terminal = TRUE]))
         /\ Cancelled(x).cancelled = TRUE
  <1>1. << >> \in Seq(Item) /\ TRUE \in BOOLEAN /\ FALSE \in BOOLEAN
    OBVIOUS
  <1>2. ASSUME NEW y \in ConnType
        PROVE  /\ Emptied(y) \in ConnType /\ Emptied(y).queue = << >> /\ SameLink(y, Emptied(y))
               /\ Emptied(y).cancelled = y.cancelled
    BY <1>1 DEF ConnType, Emptied, SameLink
  <1>3. /\ [x EXCEPT !.cancelled = TRUE] \in ConnType /\ SameLink(x, [x EXCEPT !.cancelled = TRUE])
        /\ [x EXCEPT !.cancelled = TRUE].cancelled = TRUE
        /\ [x EXCEPT !.terminal = TRUE] \in ConnType /\ SameLink(x, [x EXCEPT !.terminal = TRUE])
    BY <1>1 DEF ConnType, SameLink
  <1> QED BY <1>2, <1>3 DEF Cancelled, SameLink

\* An item finds room, or its connection is cancelled and told nothing.
LEMMA EnqueuedKeeps ==
  ASSUME NEW cn, Queued(cn), NEW c \in ConnIDs, NEW item \in Item
  PROVE  LET dn == Enqueued(cn, c, item)
         IN  /\ Queued(dn)
             /\ \A d \in ConnIDs : SameLink(cn[d], dn[d]) /\ (d # c => dn[d] = cn[d])
             /\ cn[c].cancelled => dn[c].cancelled
             /\ dn[c].cancelled \/ dn[c].told = (IF item.kind = "ready" THEN item.ready ELSE cn[c].told)
  <1> DEFINE told == IF item.kind = "ready" THEN item.ready ELSE cn[c].told
             more == [cn[c] EXCEPT !.queue = Append(@, item), !.told = told]
             dn == Enqueued(cn, c, item)
  <1>0. cn[c] \in ConnType /\ cn[c].queue \in Seq(Item) /\ cn[c].told \in BOOLEAN
    BY DEF Queued, ConnType
  <1>1. told \in BOOLEAN
    BY <1>0 DEF Item
  <1> HIDE DEF told
  <1>2. Append(cn[c].queue, item) \in Seq(Item) /\ Len(Append(cn[c].queue, item)) = Len(cn[c].queue) + 1
    BY <1>0
  <1>3. more \in ConnType /\ more.queue = Append(cn[c].queue, item) /\ more.told = told /\ SameLink(cn[c], more)
        /\ more.cancelled = cn[c].cancelled
    BY <1>0, <1>1, <1>2 DEF ConnType, SameLink
  <1>4. /\ Cancelled(cn[c]) \in ConnType /\ Cancelled(cn[c]).queue = << >>
        /\ Cancelled(cn[c]).cancelled = TRUE /\ SameLink(cn[c], Cancelled(cn[c]))
    BY <1>0, EmptiedConn
  <1>5. Len(<< >>) = 0 /\ QueueSize \in Nat /\ Len(cn[c].queue) \in Nat
    BY <1>0, SignalAssumption
  <1>6. CASE cn[c].cancelled
    BY <1>6 DEF Enqueued, SameLink
  <1>7. CASE ~cn[c].cancelled /\ Len(cn[c].queue) < QueueSize
    <2>1. dn = [cn EXCEPT ![c] = more]
      BY <1>7 DEF Enqueued, told, Queued
    <2> HIDE DEF more, dn
    <2>2. dn[c] = more /\ (\A d \in ConnIDs : d # c => dn[d] = cn[d]) /\ dn \in [ConnIDs -> ConnType]
      BY <2>1, <1>3 DEF Queued
    <2>3. Queued(dn)
      BY <2>2, <1>2, <1>3, <1>5, <1>7 DEF Queued
    <2> QED BY <2>2, <2>3, <1>3 DEF SameLink, told, dn
  <1>8. CASE ~cn[c].cancelled /\ ~(Len(cn[c].queue) < QueueSize)
    <2>1. dn = [cn EXCEPT ![c] = Cancelled(cn[c])]
      BY <1>8 DEF Enqueued
    <2> HIDE DEF dn
    <2>2. dn[c] = Cancelled(cn[c]) /\ (\A d \in ConnIDs : d # c => dn[d] = cn[d]) /\ dn \in [ConnIDs -> ConnType]
      BY <2>1, <1>4 DEF Queued
    <2>3. Queued(dn)
      BY <2>2, <1>4, <1>5 DEF Queued
    <2> QED BY <2>2, <2>3, <1>4 DEF SameLink, dn
  <1> QED BY <1>6, <1>7, <1>8

(***************************************************************************)
(* Steps that leave every handler and owner what it is for                 *)
(***************************************************************************)
SameOwner(x, y) ==
  x.scope = y.scope /\ x.peers = y.peers /\ (x.timer # "none" => y.timer # "none")

\* A handler goes on for the same device, scope and owner, or begins to leave.
StillLinked(x, y) ==
  /\ y.phase = x.phase \/ (x.phase = "open" /\ y.phase = "leaving")
  /\ x.actor = y.actor /\ x.scope = y.scope /\ x.owner = y.owner

\* What a connection has been told is what it was told, or has become true.
StillTold(ow, cn, dn) ==
  \A c \in ConnIDs : \/ dn[c].cancelled
                    \/ (~cn[c].cancelled /\ dn[c].told = cn[c].told)
                    \/ dn[c].told = (Cardinality(PeersIn(ow, cn[c].owner)) = 2)

LEMMA SimilarStep ==
  ASSUME NEW gr, NEW L, NEW ow, NEW cn, NEW w, Good(gr, L, ow, cn, w),
         NEW dn, Queued(dn), \A c \in ConnIDs : StillLinked(cn[c], dn[c]),
         NEW vw \in [OwnerIDs -> OwnerType], RunningIn(vw) = RunningIn(ow),
         \A o \in OwnerIDs : SameOwner(ow[o], vw[o]), StillTold(ow, cn, dn)
  PROVE  Good(gr, L, vw, dn, w)
  <1>0. /\ Queued(cn) /\ ow \in [OwnerIDs -> OwnerType] /\ L \subseteq OwnerIDs
        /\ Granted(gr, L, ow) /\ Linked(L, ow, cn) /\ Balanced(ow, cn, w) /\ Told(L, ow, cn)
    BY DEF Good, Shaped
  <1>1. Shaped(L, vw, dn)
    BY DEF Good, Shaped, StillLinked, Held
  <1>2. Granted(gr, L, vw)
    BY <1>0 DEF Granted, SameOwner
  <1>3. \A o \in L, a \in Actors : ow[o].peers[a] # Null => ow[o].peers[a] \in ConnIDs
    BY <1>0 DEF OwnerType
  <1>4. Linked(L, vw, dn)
    <2>1. \A o \in L : vw[o].scope = ow[o].scope /\ vw[o].peers = ow[o].peers
      BY <1>0 DEF SameOwner
    <2>2. \A o \in L, a \in Actors : ow[o].peers[a] # Null =>
             StillLinked(cn[ow[o].peers[a]], dn[ow[o].peers[a]])
      BY <1>3
    <2> QED BY <1>0, <2>1, <2>2 DEF Linked, StillLinked
  <1>5. HandlersIn(dn) = HandlersIn(cn)
    BY DEF HandlersIn, Held, StillLinked
  <1>6. Balanced(vw, dn, w)
    BY <1>0, <1>5 DEF Balanced
  <1>7. \A o \in L : PeersIn(vw, o) = PeersIn(ow, o)
    BY <1>0 DEF PeersIn, SameOwner
  <1>8. Told(L, vw, dn)
    <2> SUFFICES ASSUME NEW o \in L, NEW a \in Actors, vw[o].peers[a] # Null
                 PROVE  \/ dn[vw[o].peers[a]].cancelled
                        \/ dn[vw[o].peers[a]].told = (Cardinality(PeersIn(vw, o)) = 2)
      BY DEF Told
    <2> DEFINE c == ow[o].peers[a]
    <2>1. vw[o].peers[a] = c /\ c # Null /\ c \in ConnIDs /\ cn[c].owner = o
      BY <1>0, <1>3 DEF Linked, SameOwner
    <2>2. cn[c].cancelled \/ cn[c].told = (Cardinality(PeersIn(ow, o)) = 2)
      BY <1>0, <2>1 DEF Told
    <2> QED BY <2>1, <2>2, <1>7 DEF StillTold
  <1> QED BY <1>1, <1>2, <1>4, <1>6, <1>8 DEF Good

(***************************************************************************)
(* Retiring owners                                                         *)
(***************************************************************************)
\* With a reason or without.
Retires(O, cn, ow, w) == Retire(O, TRUE, cn, ow, w) \/ Retire(O, FALSE, cn, ow, w)

\* The owners that stay in the map lose nothing, and the wait group gives up
\* the timers that are stopped.
LEMMA RetireStep ==
  ASSUME NEW O, NEW cn, NEW ow, NEW w,
         Retires(O, cn, ow, w), NEW gr, O \subseteq OwnerIDs,
         Good(gr, live \ O, ow, cn, w)
  PROVE  /\ Good(gr, live', owner', conn', wg') /\ live' = live \ O
         /\ \A o \in live' : owner'[o] = ow[o]
         /\ \A c \in ConnIDs : SameLink(cn[c], conn'[c])
  <1> DEFINE L == live \ O
             S == {o \in O : ow[o].timer = "armed"}
  <1>0. /\ Queued(cn) /\ ow \in [OwnerIDs -> OwnerType] /\ L \subseteq OwnerIDs
        /\ Granted(gr, L, ow) /\ Linked(L, ow, cn) /\ Balanced(ow, cn, w) /\ Told(L, ow, cn)
    BY DEF Good, Shaped
  <1>1. live' = L
    BY DEF Retires, Retire
  <1>2. owner' \in [OwnerIDs -> OwnerType] /\ \A o \in L : owner'[o] = ow[o]
    <2>1. \A o \in OwnerIDs : Forgotten(ow[o]) \in OwnerType
      BY <1>0 DEF Forgotten, NoOwner, OwnerType, Timers
    <2> QED BY <1>0, <2>1 DEF Retires, Retire
  <1>3. /\ Queued(conn')
        /\ \A c \in ConnIDs : SameLink(cn[c], conn'[c])
        /\ \A c \in ConnIDs : cn[c].owner \notin O => conn'[c] = cn[c]
    <2>1. \A c \in ConnIDs :
            conn'[c] \in {cn[c], Cancelled(cn[c]), Emptied([cn[c] EXCEPT !.terminal = TRUE])}
      BY DEF Retires, Retire
    <2>2. conn' = [c \in ConnIDs |-> conn'[c]]
      BY DEF Retires, Retire
    <2>3. \A c \in ConnIDs : /\ conn'[c] \in ConnType /\ Len(conn'[c].queue) <= QueueSize
                            /\ SameLink(cn[c], conn'[c])
      <3> TAKE c \in ConnIDs
      <3>1. cn[c] \in ConnType /\ Len(cn[c].queue) <= QueueSize /\ SameLink(cn[c], cn[c])
        BY <1>0 DEF Queued, SameLink
      <3>2. Len(<< >>) = 0 /\ 0 <= QueueSize
        BY SignalAssumption
      <3> QED BY <2>1, <3>1, <3>2, EmptiedConn
    <2>4. Queued(conn')
      BY <2>2, <2>3 DEF Queued
    <2>5. \A c \in ConnIDs : cn[c].owner \notin O => conn'[c] = cn[c]
      BY DEF Retires, Retire
    <2> QED BY <2>3, <2>4, <2>5
  <1>4. Shaped(L, owner', conn')
    BY <1>0, <1>2, <1>3 DEF Good, Shaped, SameLink
  <1>5. Granted(gr, L, owner')
    BY <1>0, <1>2 DEF Granted
  <1>6. \A o \in L, a \in Actors :
          LET c == ow[o].peers[a]
          IN  c # Null => c \in ConnIDs /\ conn'[c] = cn[c]
    BY <1>0, <1>3 DEF OwnerType, Linked
  <1>7. Linked(L, owner', conn')
    BY <1>0, <1>2, <1>6 DEF Linked
  <1>8. Balanced(owner', conn', wg')
    <2>1. HandlersIn(conn') = HandlersIn(cn)
      BY <1>3 DEF HandlersIn, SameLink
    <2>2. RunningIn(owner') = RunningIn(ow) \ S
      <3>1. \A o \in OwnerIDs : owner'[o] = IF o \in O THEN Forgotten(ow[o]) ELSE ow[o]
        BY DEF Retires, Retire
      <3>2. \A o \in OwnerIDs : Forgotten(ow[o]).timer = IF ow[o].timer = "armed" THEN "stopped" ELSE ow[o].timer
        BY DEF Forgotten, NoOwner
      <3> QED BY <3>1, <3>2 DEF RunningIn
    <2>3. S \subseteq RunningIn(ow)
      BY DEF RunningIn
    <2>4. IsFiniteSet(RunningIn(ow)) /\ IsFiniteSet(HandlersIn(cn))
      BY <1>0 DEF Balanced
    <2>5. /\ IsFiniteSet(RunningIn(ow) \ S) /\ IsFiniteSet(S)
          /\ Cardinality(RunningIn(ow) \ S) = Cardinality(RunningIn(ow)) - Cardinality(RunningIn(ow) \cap S)
      BY <2>3, <2>4, FS_Difference, FS_Subset
    <2>6. RunningIn(ow) \cap S = S
      BY <2>3
    <2>7. /\ Cardinality(RunningIn(ow)) \in Nat /\ Cardinality(S) \in Nat
          /\ Cardinality(HandlersIn(cn)) \in Nat
      BY <2>4, <2>5, FS_CardinalityType
    <2>8. wg' = w - Cardinality(S) /\ w = Cardinality(HandlersIn(cn)) + Cardinality(RunningIn(ow))
      BY <1>0 DEF Retires, Retire, Balanced
    <2> HIDE DEF S
    <2>9. wg' = Cardinality(HandlersIn(cn)) + Cardinality(RunningIn(ow) \ S)
      <3>1. Cardinality(RunningIn(ow) \ S) = Cardinality(RunningIn(ow)) - Cardinality(S)
        BY <2>5, <2>6
      <3> QED BY <2>7, <2>8, <3>1
    <2> QED BY <2>1, <2>2, <2>4, <2>5, <2>9 DEF Balanced
  <1>9. Told(L, owner', conn')
    BY <1>0, <1>2, <1>6 DEF Told, PeersIn
  <1> QED BY <1>1, <1>2, <1>3, <1>4, <1>5, <1>7, <1>8, <1>9 DEF Good

(***************************************************************************)
(* Steps that change one owner or one handler                              *)
(***************************************************************************)
\* The owners in K and their connections have nothing to do with a change.
Untouched(K, ow, cn, vw, dn) ==
  /\ \A p \in K : vw[p] = ow[p]
  /\ \A p \in K, a \in Actors :
       ow[p].peers[a] # Null => dn[ow[p].peers[a]] = cn[ow[p].peers[a]]

LEMMA OthersStep ==
  ASSUME NEW gr, NEW L, NEW ow, NEW cn, NEW w, Good(gr, L, ow, cn, w), NEW K \in SUBSET L,
         NEW vw, NEW dn, NEW z, Shaped(K, vw, dn), Balanced(vw, dn, z), Untouched(K, ow, cn, vw, dn)
  PROVE  Good(gr, K, vw, dn, z)
  <1>1. /\ Granted(gr, L, ow) /\ Linked(L, ow, cn) /\ Told(L, ow, cn)
    BY DEF Good
  <1>2. Granted(gr, K, vw)
    BY <1>1 DEF Granted, Untouched
  <1>3. Linked(K, vw, dn)
    BY <1>1 DEF Linked, Untouched
  <1>4. Told(K, vw, dn)
    BY <1>1 DEF Told, PeersIn, Untouched
  <1> QED BY <1>2, <1>3, <1>4 DEF Good

\* Once its peers have been told of each other, an owner is as it should be.
LEMMA TellStep ==
  ASSUME NEW gr, NEW L, NEW ow, NEW cn, NEW w, NEW o \in OwnerIDs,
         Good(gr, L \ {o}, ow, cn, w), Granted(gr, {o}, ow), Linked({o}, ow, cn)
  PROVE  LET dn == AllTold(cn, PeersIn(ow, o))
         IN  /\ Good(gr, L \cup {o}, ow, dn, w)
             /\ \A d \in ConnIDs : SameLink(cn[d], dn[d])
  \* Everybody in P is told whether there are two of them, or is cancelled.
  <1>AllToldKeeps.
      ASSUME NEW bn, Queued(bn), NEW P
      PROVE  LET dn == AllTold(bn, P)
             IN  /\ Queued(dn)
                 /\ \A d \in ConnIDs : SameLink(bn[d], dn[d]) /\ (d \notin P => dn[d] = bn[d])
                 /\ \A d \in ConnIDs \cap P : dn[d].cancelled \/ dn[d].told = (Cardinality(P) = 2)
    <2> USE <1>AllToldKeeps
    <2> DEFINE item == ReadyItem(Cardinality(P) = 2)
               dn == AllTold(bn, P)
    <2>1. item \in Item /\ item.kind = "ready" /\ item.ready = (Cardinality(P) = 2)
      BY ItemTypes DEF ReadyItem
    <2>2. \A d \in ConnIDs : dn[d] = IF d \in P THEN Enqueued(bn, d, item)[d] ELSE bn[d]
      BY DEF AllTold
    <2>3. dn = [d \in ConnIDs |-> dn[d]]
      BY DEF AllTold
    <2> HIDE DEF item, dn
    <2>4. \A d \in ConnIDs :
            /\ dn[d] \in ConnType /\ Len(dn[d].queue) <= QueueSize /\ SameLink(bn[d], dn[d])
            /\ d \in P => dn[d].cancelled \/ dn[d].told = (Cardinality(P) = 2)
      <3> TAKE d \in ConnIDs
      <3> DEFINE en == Enqueued(bn, d, item)
      <3>1. CASE d \in P
        <4>1. Queued(en) /\ SameLink(bn[d], en[d]) /\ (en[d].cancelled \/ en[d].told = item.ready)
          BY <2>1, EnqueuedKeeps
        <4>2. dn[d] = en[d]
          BY <2>2, <3>1
        <4> QED BY <4>1, <4>2, <2>1 DEF Queued
      <3>2. CASE d \notin P
        BY <2>2, <3>2 DEF Queued, SameLink
      <3> QED BY <3>1, <3>2
    <2>5. Queued(dn)
      BY <2>3, <2>4 DEF Queued
    <2> QED BY <2>2, <2>4, <2>5 DEF dn
  <1> DEFINE P == PeersIn(ow, o)
             dn == AllTold(cn, P)
             K == L \ {o}
  <1>1. /\ Queued(cn) /\ ow \in [OwnerIDs -> OwnerType] /\ K \subseteq OwnerIDs
        /\ Granted(gr, K, ow) /\ Linked(K, ow, cn) /\ Balanced(ow, cn, w) /\ Told(K, ow, cn)
    BY DEF Good, Shaped
  <1>2. /\ Queued(dn)
        /\ \A d \in ConnIDs : SameLink(cn[d], dn[d]) /\ (d \notin P => dn[d] = cn[d])
        /\ \A d \in ConnIDs \cap P : dn[d].cancelled \/ dn[d].told = (Cardinality(P) = 2)
    BY <1>1, <1>AllToldKeeps
  <1> HIDE DEF dn
  <1>3. \A p \in L \cup {o}, a \in Actors : ow[p].peers[a] # Null =>
           /\ ow[p].peers[a] \in ConnIDs /\ cn[ow[p].peers[a]].owner = p
    BY <1>1 DEF OwnerType, Linked
  <1>4. \A d \in P : cn[d].owner = o /\ d \in ConnIDs
    BY <1>3 DEF PeersIn
  <1>5. Shaped(L \cup {o}, ow, dn)
    BY <1>1, <1>2 DEF Good, Shaped, SameLink
  <1>6. Granted(gr, L \cup {o}, ow)
    BY <1>1 DEF Granted
  <1>7. Linked(L \cup {o}, ow, dn)
    BY <1>1, <1>2, <1>3 DEF Linked, SameLink
  <1>8. Balanced(ow, dn, w)
    <2>1. HandlersIn(dn) = HandlersIn(cn)
      BY <1>2 DEF HandlersIn, SameLink
    <2> QED BY <1>1, <2>1 DEF Balanced
  <1>9. Told(L \cup {o}, ow, dn)
    <2> SUFFICES ASSUME NEW p \in L \cup {o}, NEW a \in Actors, ow[p].peers[a] # Null
                 PROVE  \/ dn[ow[p].peers[a]].cancelled
                        \/ dn[ow[p].peers[a]].told = (Cardinality(PeersIn(ow, p)) = 2)
      BY DEF Told
    <2> DEFINE c == ow[p].peers[a]
    <2>1. c \in ConnIDs /\ c # Null /\ cn[c].owner = p
      BY <1>3
    <2>2. CASE p = o
      <3>1. c \in P
        BY <2>1, <2>2 DEF PeersIn
      <3> QED BY <1>2, <2>1, <2>2, <3>1
    <2>3. CASE p # o
      <3>1. dn[c] = cn[c]
        BY <1>2, <1>4, <2>1, <2>3
      <3> QED BY <1>1, <2>1, <2>3, <3>1 DEF Told
    <2> QED BY <2>2, <2>3
  <1> QED BY <1>2, <1>5, <1>6, <1>7, <1>8, <1>9 DEF Good, dn

\* What a registration or an unregistration does to the peers of owners that stay.
OnlyOwnLeave(c) ==
  \A o \in live \cap live', a \in Actors :
    LET d == owner[o].peers[a]
    IN  d # Null /\ owner'[o].peers[a] # d =>
          \/ d = c /\ conn[c].phase = "leaving" /\ conn'[c].phase = "done"
          \/ owner'[o].peers[a] # Null /\ conn'[owner'[o].peers[a]].actor = a

(***************************************************************************)
(* Forwarding                                                              *)
(***************************************************************************)
\* A frame changes no handler, no owner's peers and no timer.
LEMMA SignalStep ==
  ASSUME HubInv, NEW c \in ConnIDs, NEW k \in Kinds, NEW i \in IceSessions, Signal(c, k, i)
  PROVE  /\ Good(grants, live, owner', conn', wg)
         /\ \A o \in live : owner'[o].peers = owner[o].peers
         /\ ice' \in [GrantIDs -> [IceSessions -> Nat]]
  \* Whatever a frame makes of the negotiation is one.
  <1>NegotiationStep. ASSUME Accepting(c)
                      PROVE  Negotiation(c, k, i) \in NegotiationType \cup {Null}
    <2> USE <1>NegotiationStep
    <2> DEFINE a == conn[c].actor
               o == conn[c].owner
               n == Current(c)
    <2>1. o \in OwnerIDs /\ owner[o] \in OwnerType /\ a \in Actors /\ now \in Nat
      BY DEF HubInv, Good, Shaped, Held, TypeOK, Accepting, Receiving, Registered
    <2>2. n \in NegotiationType \cup {Null}
      BY <2>1 DEF Current, OwnerType
    <2>3. NewNegotiation(i) \in NegotiationType
      <3>1. now + NegotiationTTL \in Nat
        BY <2>1, SignalAssumption
      <3> QED BY <3>1 DEF NewNegotiation, NegotiationType
    <2>4. ASSUME n \in NegotiationType, k # "connect_request"
          PROVE  Advanced(n, a, k) \in NegotiationType
      <3> HIDE DEF n, a
      <3>1. CASE k = "connect_response"
        BY <2>4, <3>1 DEF Advanced, NegotiationType
      <3>2. CASE k = "candidate"
        <4> DEFINE counts == [n.counts EXCEPT ![a] = Min2(@ + 1, MaxCandidates + 1)]
        <4>1. n.counts \in [Actors -> Nat] /\ n.counts[a] \in Nat
          BY <2>1, <2>4 DEF NegotiationType, a
        <4>2. Min2(n.counts[a] + 1, MaxCandidates + 1) \in Nat
          BY <4>1, SignalAssumption DEF Min2
        <4>3. counts \in [Actors -> Nat]
          BY <4>1, <4>2
        <4>4. Advanced(n, a, k) = [n EXCEPT !.counts = counts]
          BY <3>2 DEF Advanced
        <4> HIDE DEF counts
        <4> QED BY <2>4, <4>3, <4>4 DEF NegotiationType
      <3>3. CASE k = "end_of_candidates"
        <4>1. n.ended \cup {a} \in SUBSET Actors
          BY <2>1, <2>4 DEF NegotiationType, a
        <4>2. Advanced(n, a, k) = [n EXCEPT !.ended = n.ended \cup {a}]
          BY <3>3 DEF Advanced
        <4> QED BY <2>4, <4>1, <4>2 DEF NegotiationType
      <3> QED BY <2>4, <3>1, <3>2, <3>3 DEF Kinds
    <2>5. CASE k = "connect_request"
      BY <2>2, <2>3, <2>5 DEF Negotiation
    <2>6. CASE k # "connect_request" /\ n = Null
      BY <2>6 DEF Negotiation, MayAdvance
    <2>7. CASE k # "connect_request" /\ n \in NegotiationType
      BY <2>4, <2>7 DEF Negotiation
    <2> QED BY <2>2, <2>5, <2>6, <2>7
  <1> DEFINE o == conn[c].owner
             to == owner[o].peers[OtherParty(c)]
  <1>1. /\ Queued(conn) /\ owner \in [OwnerIDs -> OwnerType] /\ live \subseteq OwnerIDs
        /\ o \in OwnerIDs /\ owner[o] \in OwnerType /\ Good(grants, live, owner, conn, wg)
    BY DEF HubInv, Good, Shaped, Signal, Accepting, Receiving, Registered
  <1>2. /\ owner' \in [OwnerIDs -> OwnerType] /\ RunningIn(owner') = RunningIn(owner)
        /\ \A p \in OwnerIDs : SameOwner(owner[p], owner'[p])
    <2>1. CASE owner' = owner
      BY <1>1, <2>1 DEF SameOwner
    <2>2. CASE owner' = [owner EXCEPT ![o].negotiation = Negotiation(c, k, i)]
      <3> DEFINE x == [owner[o] EXCEPT !.negotiation = Negotiation(c, k, i)]
      <3>1. Negotiation(c, k, i) \in NegotiationType \cup {Null}
        BY <1>NegotiationStep DEF Signal
      <3>2. x \in OwnerType /\ SameOwner(owner[o], x) /\ x.timer = owner[o].timer
        BY <1>1, <3>1 DEF OwnerType, SameOwner
      <3>3. owner' = [owner EXCEPT ![o] = x]
        BY <2>2
      <3> HIDE DEF x
      <3>4. /\ owner' \in [OwnerIDs -> OwnerType] /\ owner'[o] = x
            /\ \A p \in OwnerIDs : p # o => owner'[p] = owner[p]
        BY <1>1, <3>2, <3>3
      <3>5. RunningIn(owner') = RunningIn(owner)
        BY <1>1, <3>2, <3>4 DEF RunningIn
      <3> QED BY <3>2, <3>4, <3>5 DEF SameOwner
    <2> QED BY <2>1, <2>2 DEF Signal
  <1> DEFINE Fine(dn) == /\ Queued(dn) /\ \A d \in ConnIDs : SameLink(conn[d], dn[d])
                         /\ StillTold(owner, conn, dn)
  <1>3. ASSUME NEW cn, Fine(cn), NEW d \in ConnIDs, NEW item \in Item, item.kind # "ready"
        PROVE  Fine(Enqueued(cn, d, item))
    <2> DEFINE dn == Enqueued(cn, d, item)
    <2>1. /\ Queued(dn)
          /\ \A e \in ConnIDs : SameLink(cn[e], dn[e]) /\ (e # d => dn[e] = cn[e])
          /\ cn[d].cancelled => dn[d].cancelled
          /\ dn[d].cancelled \/ dn[d].told = cn[d].told
      BY <1>3, EnqueuedKeeps
    <2> HIDE DEF dn
    <2>2. \A e \in ConnIDs : SameLink(conn[e], dn[e])
      BY <1>3, <2>1 DEF SameLink
    <2>3. StillTold(owner, conn, dn)
      BY <1>3, <2>1 DEF StillTold
    <2> QED BY <2>1, <2>2, <2>3 DEF dn
  <1>4. ASSUME NEW cn, Fine(cn), NEW d \in ConnIDs, NEW S \in SUBSET IceSessions
        PROVE  Fine([cn EXCEPT ![d].excused = @ \cup S])
    <2> DEFINE x == [cn[d] EXCEPT !.excused = cn[d].excused \cup S]
               dn == [cn EXCEPT ![d].excused = @ \cup S]
    <2>1. cn[d] \in ConnType /\ cn[d].excused \cup S \in SUBSET IceSessions
      BY <1>4 DEF Queued, ConnType
    <2>2. x \in ConnType /\ SameLink(cn[d], x) /\ x.queue = cn[d].queue
          /\ x.cancelled = cn[d].cancelled /\ x.told = cn[d].told
      BY <2>1 DEF ConnType, SameLink
    <2>3. dn = [cn EXCEPT ![d] = x]
      BY <1>4 DEF Queued
    <2> HIDE DEF x, dn
    <2>4. Queued(dn) /\ dn[d] = x /\ \A e \in ConnIDs : e # d => dn[e] = cn[e]
      BY <1>4, <2>2, <2>3 DEF Queued
    <2>5. \A e \in ConnIDs : SameLink(conn[e], dn[e])
      BY <1>4, <2>2, <2>4 DEF SameLink
    <2>6. StillTold(owner, conn, dn)
      BY <1>4, <2>2, <2>4 DEF StillTold
    <2> QED BY <2>4, <2>5, <2>6 DEF dn
  <1>5. Fine(conn)
    BY <1>1 DEF SameLink, StillTold
  <1>6. Fine(conn')
    <2> DEFINE item == SignalItem(k, i, c)
               request == IF item.kind = "connect_request" THEN {item.session} ELSE {}
               again == {j \in request : ice[conn[c].scope.grant][j] # 0}
               start == [conn EXCEPT ![to].excused = @ \cup again]
    <2> HIDE DEF Fine
    <2>1. /\ item \in Item /\ item.kind # "ready" /\ request \in SUBSET IceSessions
          /\ again \in SUBSET IceSessions
      BY ItemTypes DEF SignalItem, Kinds
    <2>2. ErrorItem \in Item /\ ErrorItem.kind # "ready"
      BY ItemTypes DEF ErrorItem
    <2>3. CASE conn' = Enqueued(conn, c, ErrorItem)
      BY <1>3, <1>5, <2>2, <2>3
    <2>4. CASE to # Null /\ conn' \in Forwarded(c, to, item)
      <3> HIDE DEF item, request, again
      <3>1. to \in ConnIDs
        <4> DEFINE s == conn[c].scope
                   r == grants[s.grant]
        <4>1. conn[c].scope \in Scopes
          BY DEF HubInv, Good, Shaped, Held, Signal, Accepting, Receiving
        <4>2. s.phase \in {"preview", "transfer"} /\ r \in Record
          BY <4>1 DEF Scopes, HubInv, TypeOK
        <4>3. Validate(r) /\ ScopeMatches(s, r)
          BY DEF Signal, Accepting, Authorized, AuthorizeScope
        <4>4. r.sender \in Actors /\ r.receiver \in Actors
          BY <4>2, <4>3 DEF Validate, ScopeMatches, Record, Settled
        <4>5. OtherParty(c) \in Actors
          BY <4>4 DEF OtherParty, SenderOf
        <4> QED BY <1>1, <2>4, <4>5 DEF OwnerType
      <3>2. Fine(start)
        BY <1>4, <1>5, <2>1, <3>1
      <3>3. Fine([Enqueued(start, c, ErrorItem) EXCEPT ![to].excused = @ \cup request])
        BY <1>3, <1>4, <2>1, <2>2, <3>1, <3>2
      <3>4. Fine(Enqueued(start, to, item))
        BY <1>3, <2>1, <3>1, <3>2
      <3>5. \/ conn' = start
            \/ conn' = [Enqueued(start, c, ErrorItem) EXCEPT ![to].excused = @ \cup request]
            \/ conn' = Enqueued(start, to, item)
        BY <2>4 DEF Forwarded, request, again
      <3> QED BY <3>2, <3>3, <3>4, <3>5
    <2> QED BY <2>3, <2>4 DEF Signal
  <1>7. Good(grants, live, owner', conn', wg)
    <2>1. Queued(conn') /\ StillTold(owner, conn, conn') /\ \A d \in ConnIDs : StillLinked(conn[d], conn'[d])
      BY <1>6 DEF SameLink, StillLinked
    <2> QED BY <1>1, <1>2, <2>1, SimilarStep
  <1>8. ice' \in [GrantIDs -> [IceSessions -> Nat]]
    <2>1. now + NegotiationTTL \in Nat /\ ice \in [GrantIDs -> [IceSessions -> Nat]]
      BY SignalAssumption DEF HubInv, TypeOK
    <2> QED BY <2>1 DEF Signal
  <1> QED BY <1>1, <1>2, <1>7, <1>8 DEF SameOwner

(***************************************************************************)
(* Every step                                                              *)
(***************************************************************************)
\* What CleanupIsOwn says of one step.
OwnCleanups ==
  \A o \in live \cap live', a \in Actors :
    LET c == owner[o].peers[a]
    IN  c # Null /\ owner'[o].peers[a] # c =>
          \/ conn[c].phase = "leaving" /\ conn'[c].phase = "done"
          \/ owner'[o].peers[a] # Null /\ conn'[owner'[o].peers[a]].actor = a

LEMMA HubStep ==
  ASSUME HubInv, [SignalNext]_allvars
  PROVE  Good(grants', live', owner', conn', wg') /\ OwnCleanups
  \* A connection that registers joins the owner of its scope or founds one.
  <1>RegisterStep. ASSUME HubInv, NEW c \in ConnIDs, Register(c)
                   PROVE  Good(grants, live', owner', conn', wg') /\ OnlyOwnLeave(c)
    <2> USE <1>RegisterStep
    <2> DEFINE a == conn[c].actor
               s == conn[c].scope
               r == grants[s.grant]
    <2>1. /\ Queued(conn) /\ owner \in [OwnerIDs -> OwnerType] /\ live \subseteq OwnerIDs
          /\ Linked(live, owner, conn) /\ Balanced(owner, conn, wg) /\ Granted(grants, live, owner)
          /\ Good(grants, live, owner, conn, wg)
          /\ \A d \in ConnIDs : conn[d].phase \in Held => conn[d].actor \in Actors /\ conn[d].scope \in Scopes
      BY DEF HubInv, Good, Shaped
    <2>2. a \in Actors /\ s \in Scopes /\ conn[c].phase = "upgrading" /\ c # Null /\ conn[c] \in ConnType
      BY <2>1, SignalAssumption DEF Register, Held, Queued
    <2>3. r.state # "absent" /\ ScopeMatches(s, r)
      BY DEF Register, Authorized, AuthorizeScope, Validate, States
    <2>4. \A p \in live, b \in Actors : owner[p].peers[b] # Null =>
             LET d == owner[p].peers[b]
             IN  /\ d \in ConnIDs /\ d # c /\ conn[d].owner = p /\ conn[d].actor = b
                 /\ conn[d].scope = owner[p].scope /\ conn[d].phase \in {"open", "leaving"}
      BY <2>1, <2>2 DEF Linked, OwnerType
    <2>5. ASSUME NEW o \in OwnerIDs
          PROVE  LET self == [conn EXCEPT ![c].phase = "open", ![c].owner = o]
                 IN  /\ Queued(self) /\ \A d \in ConnIDs : d # c => self[d] = conn[d]
                     /\ self[c].phase = "open" /\ self[c].owner = o
                     /\ self[c].actor = a /\ self[c].scope = s
      <3> DEFINE x == [conn[c] EXCEPT !.phase = "open", !.owner = o]
                 self == [conn EXCEPT ![c].phase = "open", ![c].owner = o]
      <3>1. x \in ConnType /\ x.phase = "open" /\ x.owner = o /\ x.actor = a /\ x.scope = s
            /\ x.queue = conn[c].queue
        BY <2>2 DEF ConnType, Phases
      <3>2. self = [conn EXCEPT ![c] = x]
        BY <2>1 DEF Queued
      <3> HIDE DEF x, self
      <3> QED BY <2>1, <3>1, <3>2 DEF Queued, self
    <2>6. ASSUME NEW o \in AtScope(s), Join(c, o)
          PROVE  Good(grants, live', owner', conn', wg') /\ OnlyOwnLeave(c)
      <3> DEFINE old == owner[o].peers[a]
                 self == [conn EXCEPT ![c].phase = "open", ![c].owner = o]
                 cn == IF old = Null THEN self ELSE [self EXCEPT ![old] = Cancelled(@)]
      <3>1. /\ o \in live /\ o \in OwnerIDs /\ owner[o].scope = s /\ owner[o] \in OwnerType
            /\ live' = live /\ wg' = wg
            /\ conn' = AllTold(cn, (PeersOf(o) \ {old}) \cup {c})
        BY <2>1, <2>6 DEF AtScope, Join
      <3>2. /\ Queued(self) /\ \A d \in ConnIDs : d # c => self[d] = conn[d]
            /\ self[c].phase = "open" /\ self[c].owner = o /\ self[c].actor = a /\ self[c].scope = s
        BY <2>5, <3>1
      <3> HIDE DEF self
      <3>3. /\ Queued(cn) /\ cn[c] = self[c] /\ \A d \in ConnIDs : d # c => SameLink(conn[d], cn[d])
            /\ \A d \in ConnIDs : d \notin {c, old} => cn[d] = conn[d]
        <4>1. CASE old = Null
          BY <3>2, <4>1 DEF SameLink
        <4>2. CASE old # Null
          <5>1. old \in ConnIDs /\ old # c
            BY <2>2, <2>4, <3>1, <4>2
          <5>2. cn = [self EXCEPT ![old] = Cancelled(self[old])]
            BY <4>2
          <5>3. self[old] \in ConnType /\ Len(<< >>) = 0 /\ 0 <= QueueSize
            BY <3>2, <5>1, SignalAssumption DEF Queued
          <5>4. /\ Cancelled(self[old]) \in ConnType /\ Cancelled(self[old]).queue = << >>
                /\ SameLink(self[old], Cancelled(self[old]))
            BY <5>3, EmptiedConn
          <5> HIDE DEF cn
          <5> QED BY <3>2, <5>1, <5>2, <5>3, <5>4 DEF Queued, SameLink
        <4> QED BY <4>1, <4>2
      <3> HIDE DEF cn
      <3>4. /\ owner' \in [OwnerIDs -> OwnerType] /\ \A p \in OwnerIDs : p # o => owner'[p] = owner[p]
            /\ owner'[o].scope = s /\ owner'[o].timer = owner[o].timer
            /\ owner'[o].peers = [owner[o].peers EXCEPT ![a] = c]
        <4> DEFINE n == IF old = Null THEN owner[o].negotiation ELSE Null
                   x == [owner[o] EXCEPT !.peers = [owner[o].peers EXCEPT ![a] = c], !.negotiation = n]
        <4>1. n \in NegotiationType \cup {Null}
          BY <3>1 DEF OwnerType
        <4>2. [owner[o].peers EXCEPT ![a] = c] \in [Actors -> ConnIDs \cup {Null}]
          BY <3>1 DEF OwnerType
        <4>3. owner' = [owner EXCEPT ![o] = x]
          BY <2>6 DEF Join
        <4> HIDE DEF n
        <4>4. /\ x \in OwnerType /\ x.scope = s /\ x.timer = owner[o].timer
              /\ x.peers = [owner[o].peers EXCEPT ![a] = c]
          BY <3>1, <4>1, <4>2 DEF OwnerType
        <4> HIDE DEF x
        <4> QED BY <2>1, <3>1, <4>3, <4>4
      <3>5. \A b \in Actors : owner'[o].peers[b] = IF b = a THEN c ELSE owner[o].peers[b]
        BY <3>1, <3>4 DEF OwnerType
      <3>6. PeersIn(owner', o) = (PeersOf(o) \ {old}) \cup {c}
        <4>1. \A b \in Actors : b # a /\ owner[o].peers[b] # Null => owner[o].peers[b] # old
          BY <2>2, <2>4, <3>1
        <4> QED BY <2>2, <3>5, <4>1 DEF PeersIn, PeersOf
      <3>7. Balanced(owner', cn, wg)
        <4>1. HandlersIn(cn) = HandlersIn(conn)
          BY <2>2, <3>2, <3>3 DEF HandlersIn, Held, SameLink
        <4>2. RunningIn(owner') = RunningIn(owner)
          BY <3>1, <3>4 DEF RunningIn
        <4> QED BY <2>1, <4>1, <4>2 DEF Balanced
      <3>8. Good(grants, live \ {o}, owner', cn, wg)
        <4>1. Untouched(live \ {o}, owner, conn, owner', cn)
          <5>1. old # Null => conn[old].owner = o
            BY <2>2, <2>4, <3>1
          <5> QED BY <2>1, <2>4, <3>3, <3>4, <5>1 DEF Untouched
        <4>2. \A d \in ConnIDs : cn[d].phase \in Held => cn[d].actor \in Actors /\ cn[d].scope \in Scopes
          <5> TAKE d \in ConnIDs
          <5>1. d # c => SameLink(conn[d], cn[d])
            BY <3>3
          <5> QED BY <2>1, <2>2, <3>2, <3>3, <5>1 DEF SameLink
        <4>3. Shaped(live \ {o}, owner', cn)
          BY <2>1, <3>3, <3>4, <4>2 DEF Shaped
        <4>4. live \ {o} \in SUBSET live
          OBVIOUS
        <4> QED BY <2>1, <3>7, <4>1, <4>3, <4>4, OthersStep
      <3>9. Granted(grants, {o}, owner') /\ Linked({o}, owner', cn)
        <4>1. Granted(grants, {o}, owner')
          BY <2>1, <2>2, <2>3, <3>1, <3>4 DEF Granted
        <4>2. Linked({o}, owner', cn)
          <5>1. \A b \in Actors : b # a /\ owner'[o].peers[b] # Null =>
                  LET d == owner'[o].peers[b]
                  IN  /\ cn[d].phase \in {"open", "leaving"} /\ cn[d].owner = o /\ cn[d].actor = b
                      /\ cn[d].scope = owner[o].scope
            BY <2>4, <3>1, <3>3, <3>5 DEF SameLink
          <5>2. owner'[o].peers[a] = c
            BY <2>2, <3>5
          <5>3. \A b \in Actors : owner'[o].peers[b] # Null =>
                  LET d == owner'[o].peers[b]
                  IN  /\ cn[d].phase \in {"open", "leaving"} /\ cn[d].owner = o /\ cn[d].actor = b
                      /\ cn[d].scope = owner'[o].scope
            <6> TAKE b \in Actors
            <6>1. CASE b = a
              BY <6>1, <3>2, <3>3, <3>4, <5>2
            <6>2. CASE b # a
              BY <6>2, <3>1, <3>4, <5>1
            <6> QED BY <6>1, <6>2
          <5> QED BY <2>2, <5>2, <5>3 DEF Linked
        <4> QED BY <4>1, <4>2
      <3>10. Good(grants, live, owner', conn', wg) /\ \A d \in ConnIDs : SameLink(cn[d], conn'[d])
        <4>1. live \cup {o} = live /\ conn' = AllTold(cn, PeersIn(owner', o))
          BY <3>1, <3>6
        <4>2. /\ Good(grants, live \cup {o}, owner', AllTold(cn, PeersIn(owner', o)), wg)
              /\ \A d \in ConnIDs : SameLink(cn[d], AllTold(cn, PeersIn(owner', o))[d])
          BY <3>1, <3>8, <3>9, TellStep
        <4> QED BY <4>1, <4>2
      <3>11. OnlyOwnLeave(c)
        <4>1. \A p \in live, b \in Actors : owner'[p].peers[b] # owner[p].peers[b] => p = o /\ b = a
          BY <2>1, <3>4, <3>5
        <4>2. owner'[o].peers[a] = c /\ conn'[c].actor = a
          BY <2>2, <3>2, <3>3, <3>5, <3>10 DEF SameLink
        <4> QED BY <2>2, <4>1, <4>2 DEF OnlyOwnLeave
      <3> QED BY <3>1, <3>10, <3>11
    <2>7. ASSUME NEW o \in OwnerIDs, owner[o].timer = "none", Found(c, o)
          PROVE  Good(grants, live', owner', conn', wg') /\ OnlyOwnLeave(c)
      <3> DEFINE cn == [conn EXCEPT ![c].phase = "open", ![c].owner = o]
                 x == [NoOwner EXCEPT !.scope = s, !.peers[a] = c, !.timer = "armed",
                                      !.deadline = ScopeDeadline(s, r)]
      <3>1. /\ live' = live \cup {o} /\ wg' = wg + 1 /\ o \notin live
            /\ conn' = AllTold(cn, {c}) /\ owner' = [owner EXCEPT ![o] = x]
        BY <2>1, <2>7 DEF Found, Granted
      <3>2. /\ Queued(cn) /\ \A d \in ConnIDs : d # c => cn[d] = conn[d]
            /\ cn[c].phase = "open" /\ cn[c].owner = o /\ cn[c].actor = a /\ cn[c].scope = s
        BY <2>5
      <3> HIDE DEF cn
      <3>3. /\ x \in OwnerType /\ x.scope = s /\ x.timer = "armed"
            /\ \A b \in Actors : x.peers[b] = IF b = a THEN c ELSE Null
        <4>1. ScopeDeadline(s, r) \in Nat
          BY <2>2 DEF HubInv, TypeOK, Record, Scopes, ScopeDeadline
        <4>2. /\ NoOwner \in OwnerType /\ NoOwner.peers = [b \in Actors |-> Null]
          BY DEF NoOwner, OwnerType, Timers
        <4> DEFINE peers == [[b \in Actors |-> Null] EXCEPT ![a] = c]
        <4>3. peers \in [Actors -> ConnIDs \cup {Null}] /\ \A b \in Actors : peers[b] = IF b = a THEN c ELSE Null
          OBVIOUS
        <4>4. x = [NoOwner EXCEPT !.scope = s, !.peers = peers, !.timer = "armed",
                                  !.deadline = ScopeDeadline(s, r)]
          BY <4>2
        <4> HIDE DEF peers, x
        <4>5. x \in OwnerType /\ x.scope = s /\ x.timer = "armed" /\ x.peers = peers
          BY <2>2, <4>1, <4>2, <4>3, <4>4 DEF OwnerType, Timers
        <4> QED BY <4>3, <4>5
      <3> HIDE DEF x
      <3>4. /\ owner' \in [OwnerIDs -> OwnerType] /\ \A p \in OwnerIDs : p # o => owner'[p] = owner[p]
            /\ owner'[o] = x
        BY <2>1, <3>1, <3>3
      <3>5. PeersIn(owner', o) = {c}
        BY <2>2, <3>3, <3>4 DEF PeersIn
      <3>6. Balanced(owner', cn, wg + 1)
        <4>1. HandlersIn(cn) = HandlersIn(conn)
          BY <2>2, <3>2 DEF HandlersIn, Held
        <4>2. RunningIn(owner') = RunningIn(owner) \cup {o} /\ o \notin RunningIn(owner)
          BY <2>7, <3>3, <3>4 DEF RunningIn
        <4>3. /\ IsFiniteSet(HandlersIn(conn)) /\ IsFiniteSet(RunningIn(owner))
              /\ wg = Cardinality(HandlersIn(conn)) + Cardinality(RunningIn(owner))
          BY <2>1 DEF Balanced
        <4>4. /\ IsFiniteSet(RunningIn(owner) \cup {o})
              /\ Cardinality(RunningIn(owner) \cup {o}) = Cardinality(RunningIn(owner)) + 1
          BY <4>2, <4>3, FS_AddElement
        <4>5. Cardinality(HandlersIn(conn)) \in Nat /\ Cardinality(RunningIn(owner)) \in Nat
          BY <4>3, FS_CardinalityType
        <4>6. wg + 1 = Cardinality(HandlersIn(conn)) + Cardinality(RunningIn(owner) \cup {o})
          BY <4>3, <4>4, <4>5
        <4> QED BY <4>1, <4>2, <4>3, <4>4, <4>6 DEF Balanced
      <3>7. Good(grants, live \ {o}, owner', cn, wg + 1)
        <4>1. Untouched(live \ {o}, owner, conn, owner', cn)
          BY <2>1, <2>4, <3>2, <3>4 DEF Untouched
        <4>2. \A d \in ConnIDs : cn[d].phase \in Held => cn[d].actor \in Actors /\ cn[d].scope \in Scopes
          BY <2>1, <2>2, <3>2
        <4>3. Shaped(live \ {o}, owner', cn)
          BY <2>1, <3>2, <3>4, <4>2 DEF Shaped
        <4>4. live \ {o} \in SUBSET live
          OBVIOUS
        <4> QED BY <2>1, <3>6, <4>1, <4>3, <4>4, OthersStep
      <3>8. Granted(grants, {o}, owner') /\ Linked({o}, owner', cn)
        <4>1. Granted(grants, {o}, owner')
          BY <2>2, <2>3, <3>3, <3>4 DEF Granted
        <4>2. Linked({o}, owner', cn)
          BY <2>2, <3>2, <3>3, <3>4 DEF Linked
        <4> QED BY <4>1, <4>2
      <3>9. Good(grants, live', owner', conn', wg')
        <4>1. Good(grants, live \cup {o}, owner', AllTold(cn, PeersIn(owner', o)), wg + 1)
          BY <3>7, <3>8, TellStep
        <4> QED BY <3>1, <3>5, <4>1
      <3>10. OnlyOwnLeave(c)
        BY <2>1, <3>1, <3>4 DEF OnlyOwnLeave
      <3> QED BY <3>9, <3>10
    <2> QED BY <2>6, <2>7 DEF Register
  \* A connection that leaves takes along its owner, its place there, or nothing.
  <1>UnregisterStep. ASSUME HubInv, NEW c \in ConnIDs, Unregister(c)
                     PROVE  Good(grants, live', owner', conn', wg') /\ OnlyOwnLeave(c)
    <2> USE <1>UnregisterStep
    <2> DEFINE a == conn[c].actor
               o == conn[c].owner
               rest == PeersOf(o) \ {c}
               left == [owner EXCEPT ![o].peers[a] = Null, ![o].negotiation = Null]
               dn == Done(conn, c)
    <2>1. /\ Queued(conn) /\ owner \in [OwnerIDs -> OwnerType] /\ live \subseteq OwnerIDs
          /\ Linked(live, owner, conn) /\ Balanced(owner, conn, wg) /\ Granted(grants, live, owner)
          /\ Good(grants, live, owner, conn, wg)
          /\ \A d \in ConnIDs : conn[d].phase \in Held => conn[d].actor \in Actors /\ conn[d].scope \in Scopes
      BY DEF HubInv, Good, Shaped
    <2>2. conn[c].phase = "leaving" /\ c # Null /\ a \in Actors
      BY <2>1, SignalAssumption DEF Unregister, Held
    <2>3. \A p \in live, b \in Actors : owner[p].peers[b] # Null =>
             LET d == owner[p].peers[b]
             IN  /\ d \in ConnIDs /\ conn[d].owner = p /\ conn[d].actor = b
                 /\ conn[d].scope = owner[p].scope /\ conn[d].phase \in {"open", "leaving"}
      BY <2>1 DEF Linked, OwnerType
    <2>4. Queued(dn) /\ dn[c].phase = "done" /\ \A d \in ConnIDs : d # c => dn[d] = conn[d]
      <3> DEFINE x == [NoConn EXCEPT !.phase = "done"]
      <3>1. x \in ConnType /\ x.phase = "done" /\ x.queue = << >>
        <4>1. << >> \in Seq(Item) /\ ErrorItem \in Item
          BY ItemTypes
        <4> QED BY <4>1 DEF NoConn, ConnType, Phases
      <3>2. dn = [conn EXCEPT ![c] = x]
        BY DEF Done
      <3>3. Len(<< >>) = 0 /\ 0 <= QueueSize
        BY SignalAssumption
      <3> HIDE DEF x, dn
      <3> QED BY <2>1, <3>1, <3>2, <3>3 DEF Queued
    <2>5. \A d \in ConnIDs : dn[d].phase \in Held => dn[d].actor \in Actors /\ dn[d].scope \in Scopes
      BY <2>1, <2>4 DEF Held
    <2> HIDE DEF dn
    <2>6. Balanced(owner, dn, wg - 1)
      <3>1. HandlersIn(dn) = HandlersIn(conn) \ {c} /\ c \in HandlersIn(conn)
        BY <2>2, <2>4 DEF HandlersIn, Held
      <3>2. /\ IsFiniteSet(HandlersIn(conn)) /\ IsFiniteSet(RunningIn(owner))
            /\ wg = Cardinality(HandlersIn(conn)) + Cardinality(RunningIn(owner))
        BY <2>1 DEF Balanced
      <3>3. /\ IsFiniteSet(HandlersIn(conn) \ {c})
            /\ Cardinality(HandlersIn(conn) \ {c}) = Cardinality(HandlersIn(conn)) - 1
        BY <3>1, <3>2, FS_RemoveElement
      <3>4. Cardinality(HandlersIn(conn)) \in Nat /\ Cardinality(RunningIn(owner)) \in Nat
        BY <3>2, FS_CardinalityType
      <3>5. wg - 1 = Cardinality(HandlersIn(conn) \ {c}) + Cardinality(RunningIn(owner))
        BY <3>2, <3>3, <3>4
      <3> QED BY <3>1, <3>2, <3>3, <3>5 DEF Balanced
    <2>7. CASE ~Registered(c)
      <3>1. conn' = dn /\ wg' = wg - 1 /\ live' = live /\ owner' = owner
        BY <2>7 DEF Unregister, dn
      <3>2. Untouched(live, owner, conn, owner, dn)
        BY <2>3, <2>4, <2>7 DEF Untouched, Registered
      <3>3. Shaped(live, owner, dn)
        BY <2>1, <2>4, <2>5 DEF Shaped
      <3>4. live \in SUBSET live
        OBVIOUS
      <3>5. Good(grants, live, owner, dn, wg - 1)
        BY <2>1, <2>6, <3>2, <3>3, <3>4, OthersStep
      <3> QED BY <3>1, <3>5 DEF OnlyOwnLeave
    <2>8. CASE Registered(c)
      <3>1. o \in live /\ o \in OwnerIDs /\ owner[o].peers[a] = c /\ owner[o] \in OwnerType
        BY <2>1, <2>8 DEF Registered
      <3>2. /\ left \in [OwnerIDs -> OwnerType] /\ \A p \in OwnerIDs : p # o => left[p] = owner[p]
            /\ left[o].scope = owner[o].scope /\ left[o].timer = owner[o].timer
            /\ \A b \in Actors : left[o].peers[b] = IF b = a THEN Null ELSE owner[o].peers[b]
        <4> DEFINE peers == [owner[o].peers EXCEPT ![a] = Null]
                   x == [owner[o] EXCEPT !.peers = peers, !.negotiation = Null]
        <4>1. /\ peers \in [Actors -> ConnIDs \cup {Null}]
              /\ \A b \in Actors : peers[b] = IF b = a THEN Null ELSE owner[o].peers[b]
          BY <3>1 DEF OwnerType
        <4>2. left = [owner EXCEPT ![o] = x]
          BY <2>1
        <4> HIDE DEF peers, left
        <4>3. x \in OwnerType /\ x.scope = owner[o].scope /\ x.timer = owner[o].timer /\ x.peers = peers
          BY <3>1, <4>1 DEF OwnerType
        <4> HIDE DEF x
        <4> QED BY <2>1, <3>1, <4>1, <4>2, <4>3
      <3> HIDE DEF left
      <3>3. Balanced(left, dn, wg - 1)
        <4>1. RunningIn(left) = RunningIn(owner)
          BY <3>1, <3>2 DEF RunningIn
        <4> QED BY <2>6, <4>1 DEF Balanced
      <3>4. Good(grants, live \ {o}, left, dn, wg - 1)
        <4>1. Untouched(live \ {o}, owner, conn, left, dn)
          BY <2>1, <2>3, <2>4, <3>2 DEF Untouched
        <4>2. Shaped(live \ {o}, left, dn)
          BY <2>1, <2>4, <2>5, <3>2 DEF Shaped
        <4>3. live \ {o} \in SUBSET live
          OBVIOUS
        <4> QED BY <2>1, <3>3, <4>1, <4>2, <4>3, OthersStep
      <3>5. PeersIn(left, o) = rest
        <4>1. \A b \in Actors : b # a /\ owner[o].peers[b] # Null => owner[o].peers[b] # c
          BY <2>3, <3>1
        <4> QED BY <2>2, <3>1, <3>2, <4>1 DEF PeersIn, PeersOf
      <3>6. CASE rest = {}
        <4>1. Retire({o}, FALSE, dn, left, wg - 1)
          BY <2>8, <3>6 DEF Unregister, dn, left
        <4>2. /\ Good(grants, live', owner', conn', wg') /\ live' = live \ {o}
              /\ \A p \in live' : owner'[p] = left[p]
          <5>1. {o} \subseteq OwnerIDs /\ Retires({o}, dn, left, wg - 1)
            BY <3>1, <4>1 DEF Retires
          <5>2. Good(grants, live', owner', conn', wg')
            BY <3>4, <5>1, RetireStep
          <5>3. live' = live \ {o}
            BY <3>4, <5>1, RetireStep
          <5>4. \A p \in live' : owner'[p] = left[p]
            BY <3>4, <5>1, RetireStep
          <5> QED BY <5>2, <5>3, <5>4
        <4> QED BY <2>1, <3>2, <4>2 DEF OnlyOwnLeave
      <3>7. CASE rest # {}
        <4>1. /\ owner' = left /\ conn' = AllTold(dn, PeersIn(left, o))
              /\ wg' = wg - 1 /\ live' = live
          BY <2>8, <3>5, <3>7 DEF Unregister, dn, left
        <4>2. Granted(grants, {o}, left)
          BY <2>1, <3>1, <3>2 DEF Granted
        <4>3. Linked({o}, left, dn)
          <5>1. \E b \in Actors : left[o].peers[b] # Null
            BY <3>5, <3>7 DEF PeersIn
          <5>2. \A b \in Actors : left[o].peers[b] # Null =>
                  LET d == left[o].peers[b]
                  IN  /\ dn[d].phase \in {"open", "leaving"} /\ dn[d].owner = o /\ dn[d].actor = b
                      /\ dn[d].scope = left[o].scope
            <6> TAKE b \in Actors
            <6>1. CASE b = a
              BY <6>1, <3>2
            <6>2. CASE b # a
              BY <6>2, <2>3, <2>4, <3>1, <3>2
            <6> QED BY <6>1, <6>2
          <5> QED BY <5>1, <5>2 DEF Linked
        <4>4. /\ Good(grants, live \cup {o}, left, AllTold(dn, PeersIn(left, o)), wg - 1)
              /\ \A d \in ConnIDs : SameLink(dn[d], AllTold(dn, PeersIn(left, o))[d])
          BY <3>1, <3>4, <4>2, <4>3, TellStep
        <4>5. live \cup {o} = live /\ conn'[c].phase = "done"
          BY <2>4, <3>1, <4>1, <4>4 DEF SameLink
        <4>6. \A p \in live, b \in Actors : owner'[p].peers[b] # owner[p].peers[b] => p = o /\ b = a
          BY <2>1, <3>2, <4>1
        <4> QED BY <2>2, <3>1, <4>1, <4>4, <4>5, <4>6 DEF OnlyOwnLeave
      <3> QED BY <3>6, <3>7
    <2> QED BY <2>7, <2>8
  \* Owners retired by requests, the reaper, a failed read or Close; those that
  \* stay belong to shares that are as they were or were looked at.
  <1>RetirementStep. ASSUME HubInv, NEW O \in SUBSET live, NEW cn, Good(grants, live, owner, cn, wg),
                            Retires(O, cn, owner, wg),
                            \A o \in live \ O :
                              LET s == owner[o].scope
                              IN  \/ grants'[s.grant] = grants[s.grant]
                                  \/ \E b, t : AuthorizeScope(s, grants'[s.grant], b, t)
                     PROVE  Good(grants', live', owner', conn', wg') /\ OwnCleanups
    <2> USE <1>RetirementStep
    <2> DEFINE K == live \ O
    <2>1. /\ live \subseteq OwnerIDs /\ O \subseteq OwnerIDs /\ K \in SUBSET live
          /\ Shaped(live, owner, cn) /\ Granted(grants, live, owner) /\ Balanced(owner, cn, wg)
      BY DEF Good, Shaped
    <2>2. Good(grants, K, owner, cn, wg)
      <3>1. Shaped(K, owner, cn) /\ Untouched(K, owner, cn, owner, cn)
        BY <2>1 DEF Shaped, Untouched
      <3> HIDE DEF K
      <3> QED BY <2>1, <3>1, OthersStep
    <2>3. Granted(grants', K, owner)
      <3> SUFFICES ASSUME NEW o \in K
                   PROVE  LET s == owner[o].scope
                          IN  /\ s \in Scopes /\ grants'[s.grant].state # "absent"
                              /\ ScopeMatches(s, grants'[s.grant]) /\ owner[o].timer # "none"
        BY DEF Granted
      <3> DEFINE s == owner[o].scope
      <3>1. /\ s \in Scopes /\ grants[s.grant].state # "absent"
            /\ ScopeMatches(s, grants[s.grant]) /\ owner[o].timer # "none"
        BY <2>1 DEF Granted
      <3>2. CASE grants'[s.grant] = grants[s.grant]
        BY <3>1, <3>2
      <3>3. CASE \E b, t : AuthorizeScope(s, grants'[s.grant], b, t)
        BY <3>1, <3>3 DEF AuthorizeScope, Validate, States
      <3> QED BY <3>2, <3>3
    <2>4. Good(grants', K, owner, cn, wg)
      BY <2>2, <2>3 DEF Good
    <2>5. Good(grants', live', owner', conn', wg')
      BY <2>1, <2>4, RetireStep
    <2>6. live' = K
      BY <2>1, <2>4, RetireStep
    <2>7. \A o \in live' : owner'[o] = owner[o]
      BY <2>1, <2>4, RetireStep
    <2> QED BY <2>5, <2>6, <2>7 DEF OwnCleanups
  <1> DEFINE Result == Good(grants', live', owner', conn', wg') /\ OwnCleanups
  <1>0. /\ Good(grants, live, owner, conn, wg) /\ TypeOK
        /\ Queued(conn) /\ owner \in [OwnerIDs -> OwnerType] /\ live \subseteq OwnerIDs
        /\ Granted(grants, live, owner) /\ Linked(live, owner, conn) /\ Balanced(owner, conn, wg)
        /\ \A c \in ConnIDs : conn[c].phase \in Held => conn[c].actor \in Actors /\ conn[c].scope \in Scopes
    BY DEF HubInv, Good, Shaped
  <1>1. ASSUME live' = live, \A o \in live : owner'[o].peers = owner[o].peers
        PROVE  OwnCleanups
    BY <1>1 DEF OwnCleanups
  <1>2. ASSUME NEW dn, Queued(dn), \A c \in ConnIDs : StillLinked(conn[c], dn[c]),
               StillTold(owner, conn, dn)
        PROVE  Good(grants, live, owner, dn, wg)
    <2>1. \A o \in OwnerIDs : SameOwner(owner[o], owner[o])
      BY DEF SameOwner
    <2> QED BY <1>0, <1>2, <2>1, SimilarStep
  <1>3. CASE ShareControl
    <2>1. PICK g \in GrantIDs : /\ grants'[g] # grants[g]
                               /\ Retire(Stale(g, grants'[g], now), TRUE, conn, owner, wg)
      BY <1>3 DEF ShareControl
    <2>2. \A h \in GrantIDs : h # g => grants'[h] = grants[h]
      BY <1>0, <1>3, <2>1, RequestsStore, StoreStep DEF ShareControl
    <2> DEFINE O == Stale(g, grants'[g], now)
    <2>3. O \in SUBSET live /\ Retires(O, conn, owner, wg)
      BY <2>1 DEF Stale, Retires
    <2>4. \A o \in live \ O :
            LET s == owner[o].scope
            IN  \/ grants'[s.grant] = grants[s.grant]
                \/ \E b, t : AuthorizeScope(s, grants'[s.grant], b, t)
      <3>1. \A o \in live : owner[o].scope.grant \in GrantIDs
        BY <1>0 DEF Granted, Scopes
      <3> QED BY <2>2, <3>1 DEF Stale
    <2> HIDE DEF O
    <2> QED BY <1>0, <2>3, <2>4, <1>RetirementStep
  <1>4. CASE ShareRead
    <2>1. PICK g \in GrantIDs : Retire(Stale(g, grants[g], now), TRUE, conn, owner, wg)
      BY <1>4 DEF ShareRead
    <2> DEFINE O == Stale(g, grants[g], now)
    <2>2. O \in SUBSET live /\ Retires(O, conn, owner, wg) /\ grants' = grants
      BY <1>4, <2>1 DEF Stale, Retires, ShareRead, vars
    <2> HIDE DEF O
    <2> QED BY <1>0, <2>2, <1>RetirementStep
  <1>5. CASE Reap
    <2> DEFINE O == UNION {Stale(g, grants'[g], tick) : g \in GrantIDs}
    <2>1. O \in SUBSET live /\ Retires(O, conn, owner, wg)
      BY <1>5 DEF Stale, Retires, Reap
    <2>2. \A o \in live \ O :
            LET s == owner[o].scope
            IN  \/ grants'[s.grant] = grants[s.grant]
                \/ \E b, t : AuthorizeScope(s, grants'[s.grant], b, t)
      <3>1. \A o \in live : owner[o].scope.grant \in GrantIDs
        BY <1>0 DEF Granted, Scopes
      <3> QED BY <3>1 DEF Stale
    <2> HIDE DEF O
    <2> QED BY <1>0, <2>1, <2>2, <1>RetirementStep
  <1>6. ASSUME NEW O \in SUBSET live, Retires(O, conn, owner, wg), grants' = grants
        PROVE  Result
    BY <1>0, <1>6, <1>RetirementStep
  <1>7. CASE CloseShareSignals \/ \E o \in OwnerIDs : StoreUnreadable(o)
    <2>1. CASE CloseShareSignals
      <3>1. live \in SUBSET live /\ Retires(live, conn, owner, wg) /\ grants' = grants
        BY <2>1 DEF CloseShareSignals, Retires, vars
      <3> QED BY <1>6, <3>1
    <2>2. ASSUME NEW o \in OwnerIDs, StoreUnreadable(o) PROVE Result
      <3>1. {o} \in SUBSET live /\ Retires({o}, conn, owner, wg) /\ grants' = grants
        BY <2>2 DEF StoreUnreadable, Retires, vars
      <3> QED BY <1>6, <3>1
    <2> QED BY <1>7, <2>1, <2>2
  <1>8. ASSUME NEW c \in ConnIDs, ForwardUnauthorized(c) PROVE Result
    <2>1. /\ {conn[c].owner} \in SUBSET live /\ Retires({conn[c].owner}, conn, owner, wg)
          /\ grants' = grants
      BY <1>8 DEF ForwardUnauthorized, Receiving, Registered, Retires, vars
    <2> QED BY <1>6, <2>1
  <1>9. ASSUME NEW o \in OwnerIDs, TimerFires(o) PROVE Result
    <2> DEFINE x == [owner[o] EXCEPT !.timer = "fired"]
    <2>1. /\ x \in OwnerType /\ x.timer = "fired" /\ x.scope = owner[o].scope /\ x.peers = owner[o].peers
          /\ owner' = [owner EXCEPT ![o] = x] /\ owner[o].timer = "armed"
          /\ live' = live /\ conn' = conn /\ wg' = wg /\ grants' = grants
      BY <1>0, <1>9 DEF TimerFires, OwnerType, Timers, vars
    <2> HIDE DEF x
    <2>2. /\ owner' \in [OwnerIDs -> OwnerType] /\ owner'[o] = x
          /\ \A p \in OwnerIDs : p # o => owner'[p] = owner[p]
      BY <1>0, <2>1
    <2>3. RunningIn(owner') = RunningIn(owner)
      BY <2>1, <2>2 DEF RunningIn
    <2>4. \A p \in OwnerIDs : SameOwner(owner[p], owner'[p])
      BY <2>1, <2>2 DEF SameOwner
    <2>5. StillTold(owner, conn, conn) /\ \A c \in ConnIDs : StillLinked(conn[c], conn[c])
      BY DEF StillTold, StillLinked
    <2>6. Good(grants, live, owner', conn, wg)
      BY <1>0, <2>2, <2>3, <2>4, <2>5, SimilarStep
    <2>7. \A p \in live : owner'[p].peers = owner[p].peers
      BY <1>0, <2>4 DEF SameOwner
    <2> QED BY <1>1, <2>1, <2>6, <2>7
  <1>10. ASSUME NEW o \in OwnerIDs, TimerCallback(o) PROVE Result
    <2> DEFINE x == [owner[o] EXCEPT !.timer = "ran"]
               vw == [owner EXCEPT ![o].timer = "ran"]
               O == {o} \cap live
               K == live \ O
    <2>1. /\ x \in OwnerType /\ x.timer = "ran" /\ vw = [owner EXCEPT ![o] = x]
          /\ owner[o].timer = "fired" /\ grants' = grants
          /\ Retires(O, conn, vw, wg - 1)
      BY <1>0, <1>10 DEF TimerCallback, OwnerType, Timers, vars, Retires
    <2> HIDE DEF x, vw
    <2>2. /\ vw \in [OwnerIDs -> OwnerType] /\ vw[o] = x
          /\ \A p \in OwnerIDs : p # o => vw[p] = owner[p]
      BY <1>0, <2>1
    <2>3. Balanced(vw, conn, wg - 1)
      <3>1. RunningIn(vw) = RunningIn(owner) \ {o} /\ o \in RunningIn(owner)
        BY <2>1, <2>2 DEF RunningIn
      <3>2. /\ IsFiniteSet(HandlersIn(conn)) /\ IsFiniteSet(RunningIn(owner))
            /\ wg = Cardinality(HandlersIn(conn)) + Cardinality(RunningIn(owner))
        BY <1>0 DEF Balanced
      <3>3. /\ IsFiniteSet(RunningIn(owner) \ {o})
            /\ Cardinality(RunningIn(owner) \ {o}) = Cardinality(RunningIn(owner)) - 1
        BY <3>1, <3>2, FS_RemoveElement
      <3>4. Cardinality(HandlersIn(conn)) \in Nat /\ Cardinality(RunningIn(owner)) \in Nat
        BY <3>2, FS_CardinalityType
      <3>5. wg - 1 = Cardinality(HandlersIn(conn)) + Cardinality(RunningIn(owner) \ {o})
        BY <3>2, <3>3, <3>4
      <3> QED BY <3>1, <3>2, <3>3, <3>5 DEF Balanced
    <2>4. Shaped(K, vw, conn) /\ Untouched(K, owner, conn, vw, conn) /\ K \in SUBSET live /\ O \subseteq OwnerIDs
      BY <1>0, <2>2 DEF Shaped, Untouched
    <2>5. Good(grants, K, vw, conn, wg - 1)
      <3> HIDE DEF K
      <3> QED BY <1>0, <2>3, <2>4, OthersStep
    <2>6. Good(grants, live', owner', conn', wg')
      BY <2>1, <2>4, <2>5, RetireStep
    <2>7. live' = K
      BY <2>1, <2>4, <2>5, RetireStep
    <2>8. \A p \in live' : owner'[p] = vw[p]
      BY <2>1, <2>4, <2>5, RetireStep
    <2> QED BY <1>0, <2>1, <2>2, <2>6, <2>7, <2>8 DEF OwnCleanups
  <1>11. ASSUME NEW c \in ConnIDs, NEW x \in ConnType, conn' = [conn EXCEPT ![c] = x],
                x.queue = << >>, x.phase \in Held => x.actor \in Actors /\ x.scope \in Scopes,
                \A p \in live, b \in Actors : owner[p].peers[b] # c,
                Balanced(owner, conn', wg'), UNCHANGED <<live, owner, grants>>
         PROVE  Result
    <2>1. Queued(conn') /\ conn'[c] = x /\ \A d \in ConnIDs : d # c => conn'[d] = conn[d]
      <3>1. Len(<< >>) = 0 /\ 0 <= QueueSize
        BY SignalAssumption
      <3> QED BY <1>0, <1>11, <3>1 DEF Queued
    <2>2. Shaped(live, owner, conn')
      BY <1>0, <1>11, <2>1 DEF Shaped
    <2>3. Untouched(live, owner, conn, owner, conn')
      <3>1. \A p \in live, b \in Actors : owner[p].peers[b] # Null => owner[p].peers[b] \in ConnIDs
        BY <1>0 DEF OwnerType
      <3> QED BY <1>11, <2>1, <3>1 DEF Untouched
    <2>4. live \in SUBSET live
      OBVIOUS
    <2>5. Good(grants, live, owner, conn', wg')
      BY <1>0, <1>11, <2>2, <2>3, <2>4, OthersStep
    <2> QED BY <1>1, <1>11, <2>5
  <1>12. ASSUME NEW c \in ConnIDs, conn[c].phase \in {"new", "upgrading"}
         PROVE  \A p \in live, b \in Actors : owner[p].peers[b] # c
    <2>1. c # Null
      BY SignalAssumption
    <2> QED BY <1>0, <1>12, <2>1 DEF Linked
  <1>13. /\ << >> \in Seq(Item) /\ ErrorItem \in Item
         /\ IsFiniteSet(HandlersIn(conn)) /\ IsFiniteSet(RunningIn(owner))
         /\ wg = Cardinality(HandlersIn(conn)) + Cardinality(RunningIn(owner))
         /\ Cardinality(HandlersIn(conn)) \in Nat /\ Cardinality(RunningIn(owner)) \in Nat
    BY <1>0, ItemTypes, FS_CardinalityType DEF Balanced
  <1>14. ASSUME NEW c \in ConnIDs, NEW b \in Actors, NEW s \in Scopes, OpenWebsocket(c, b, s)
         PROVE  Result
    <2> DEFINE x == [NoConn EXCEPT !.phase = "upgrading", !.actor = b, !.scope = s]
    <2>1. x \in ConnType /\ x.queue = << >> /\ x.phase = "upgrading" /\ x.actor = b /\ x.scope = s
      BY <1>13 DEF NoConn, ConnType, Phases
    <2>2. /\ conn' = [conn EXCEPT ![c] = x] /\ UNCHANGED <<live, owner, grants>> /\ wg' = wg + 1
          /\ conn[c].phase = "new"
      BY <1>14 DEF OpenWebsocket, vars
    <2> HIDE DEF x
    <2>3. HandlersIn(conn') = HandlersIn(conn) \cup {c} /\ c \notin HandlersIn(conn)
      BY <1>0, <2>1, <2>2 DEF HandlersIn, Held, Queued
    <2>4. /\ IsFiniteSet(HandlersIn(conn) \cup {c})
          /\ Cardinality(HandlersIn(conn) \cup {c}) = Cardinality(HandlersIn(conn)) + 1
      BY <1>13, <2>3, FS_AddElement
    <2>5. wg' = Cardinality(HandlersIn(conn) \cup {c}) + Cardinality(RunningIn(owner))
      BY <1>13, <2>2, <2>4
    <2>6. Balanced(owner, conn', wg')
      BY <1>13, <2>3, <2>4, <2>5 DEF Balanced
    <2> QED BY <1>11, <1>12, <2>1, <2>2, <2>6
  <1>15. ASSUME NEW c \in ConnIDs, GiveUp(c) PROVE Result
    <2> DEFINE x == [NoConn EXCEPT !.phase = "done"]
    <2>1. x \in ConnType /\ x.queue = << >> /\ x.phase = "done" /\ x.phase \notin Held
      BY <1>13 DEF NoConn, ConnType, Phases, Held
    <2>2. /\ conn' = [conn EXCEPT ![c] = x] /\ UNCHANGED <<live, owner, grants>> /\ wg' = wg - 1
          /\ conn[c].phase = "upgrading"
      BY <1>15 DEF GiveUp, vars
    <2> HIDE DEF x
    <2>3. HandlersIn(conn') = HandlersIn(conn) \ {c} /\ c \in HandlersIn(conn)
      BY <1>0, <2>1, <2>2 DEF HandlersIn, Held, Queued
    <2>4. /\ IsFiniteSet(HandlersIn(conn) \ {c})
          /\ Cardinality(HandlersIn(conn) \ {c}) = Cardinality(HandlersIn(conn)) - 1
      BY <1>13, <2>3, FS_RemoveElement
    <2>5. wg' = Cardinality(HandlersIn(conn) \ {c}) + Cardinality(RunningIn(owner))
      BY <1>13, <2>2, <2>4
    <2>6. Balanced(owner, conn', wg')
      BY <1>13, <2>3, <2>4, <2>5 DEF Balanced
    <2> QED BY <1>11, <1>12, <2>1, <2>2, <2>6
  <1>16. ASSUME Queued(conn'), \A c \in ConnIDs : StillLinked(conn[c], conn'[c]),
                StillTold(owner, conn, conn'), UNCHANGED <<live, owner, grants, wg>>
         PROVE  Result
    BY <1>1, <1>2, <1>16
  <1>17. ASSUME NEW c \in ConnIDs, NEW x \in ConnType, Len(x.queue) <= QueueSize, NEW dn,
                StillLinked(conn[c], x), dn = [conn EXCEPT ![c] = x],
                x.cancelled \/ (x.cancelled = conn[c].cancelled /\ x.told = conn[c].told)
         PROVE  Queued(dn) /\ (\A d \in ConnIDs : StillLinked(conn[d], dn[d])) /\ StillTold(owner, conn, dn)
    <2>1. Queued(dn) /\ dn[c] = x /\ \A d \in ConnIDs : d # c => dn[d] = conn[d]
      BY <1>0, <1>17 DEF Queued
    <2> QED BY <1>17, <2>1 DEF StillLinked, StillTold
  <1>18. Len(<< >>) = 0 /\ 0 <= QueueSize
    BY SignalAssumption
  <1>19. ASSUME NEW c \in ConnIDs, Leaves(c) PROVE Result
    <2> DEFINE x == [NoConn EXCEPT !.phase = "leaving", !.actor = conn[c].actor,
                       !.scope = conn[c].scope, !.owner = conn[c].owner, !.cancelled = TRUE]
    <2>1. x \in ConnType /\ x.queue = << >> /\ x.cancelled = TRUE /\ StillLinked(conn[c], x)
      BY <1>0, <1>13, <1>19 DEF NoConn, ConnType, Phases, Queued, StillLinked, Leaves
    <2>2. conn' = [conn EXCEPT ![c] = x] /\ UNCHANGED <<live, owner, grants, wg>>
      BY <1>19 DEF Leaves, vars
    <2> HIDE DEF x
    <2> QED BY <1>16, <1>17, <1>18, <2>1, <2>2
  <1>20. ASSUME NEW c \in ConnIDs, CloseTerminal(c) PROVE Result
    <2>1. conn' = [conn EXCEPT ![c] = Cancelled(conn[c])] /\ UNCHANGED <<live, owner, grants, wg>>
      BY <1>20 DEF CloseTerminal, vars
    <2>2. /\ Cancelled(conn[c]) \in ConnType /\ Cancelled(conn[c]).queue = << >>
          /\ Cancelled(conn[c]).cancelled = TRUE /\ StillLinked(conn[c], Cancelled(conn[c]))
      BY <1>0, EmptiedConn DEF Queued, SameLink, StillLinked
    <2> QED BY <1>16, <1>17, <1>18, <2>1, <2>2
  <1>21. CASE Close
    <2>1. /\ conn' = [c \in ConnIDs |-> conn'[c]] /\ UNCHANGED <<live, owner, grants, wg>>
          /\ \A c \in ConnIDs : conn'[c] \in {conn[c], Cancelled(conn[c])}
      BY <1>21 DEF Close, vars
    <2>2. \A c \in ConnIDs :
            /\ conn[c] \in ConnType /\ Len(conn[c].queue) <= QueueSize
            /\ Cancelled(conn[c]) \in ConnType /\ Cancelled(conn[c]).queue = << >>
            /\ Cancelled(conn[c]).cancelled = TRUE /\ SameLink(conn[c], Cancelled(conn[c]))
      BY <1>0, EmptiedConn DEF Queued
    <2>3. \A c \in ConnIDs : conn'[c] \in ConnType /\ Len(conn'[c].queue) <= QueueSize
      BY <1>18, <2>1, <2>2
    <2>4. Queued(conn')
      BY <2>1, <2>3 DEF Queued
    <2>5. \A c \in ConnIDs : StillLinked(conn[c], conn'[c])
      BY <2>1, <2>2 DEF SameLink, StillLinked
    <2>6. StillTold(owner, conn, conn')
      BY <2>1, <2>2 DEF StillTold
    <2> QED BY <1>16, <2>1, <2>4, <2>5, <2>6
  <1>22. ASSUME NEW c \in ConnIDs, Heartbeat(c) PROVE Result
    <2> DEFINE item == ReadyItem(Cardinality(PeersOf(conn[c].owner)) = 2)
               dn == Enqueued(conn, c, item)
    <2>1. /\ item \in Item /\ item.kind = "ready"
          /\ item.ready = (Cardinality(PeersIn(owner, conn[c].owner)) = 2)
      BY ItemTypes DEF ReadyItem, PeersOf, PeersIn
    <2>2. conn' = dn /\ UNCHANGED <<live, owner, grants, wg>>
      BY <1>22 DEF Heartbeat, vars
    <2> HIDE DEF item
    <2>3. /\ Queued(dn)
          /\ \A d \in ConnIDs : SameLink(conn[d], dn[d]) /\ (d # c => dn[d] = conn[d])
          /\ dn[c].cancelled \/ dn[c].told = item.ready
      BY <1>0, <2>1, EnqueuedKeeps
    <2> HIDE DEF dn
    <2>4. StillTold(owner, conn, dn) /\ \A d \in ConnIDs : StillLinked(conn[d], dn[d])
      BY <2>1, <2>3 DEF StillTold, StillLinked, SameLink
    <2> QED BY <1>16, <2>2, <2>3, <2>4
  <1>23. ASSUME NEW c \in ConnIDs, WriteNext(c) PROVE Result
    <2> DEFINE item == Head(conn[c].queue)
               x == [conn[c] EXCEPT !.queue = Tail(conn[c].queue)]
               rest == [conn EXCEPT ![c].queue = Tail(@)]
               y == [x EXCEPT !.last = IF item.source # Null THEN item ELSE conn[c].last,
                              !.heard = IF item.kind = "connect_request"
                                        THEN conn[c].heard \cup {item.session} ELSE conn[c].heard]
    <2>1. /\ conn[c] \in ConnType /\ conn[c].queue \in Seq(Item) /\ conn[c].queue # << >>
          /\ Len(conn[c].queue) <= QueueSize /\ grants' = grants
      BY <1>0, <1>23 DEF Queued, ConnType, WriteNext, vars
    <2>2. /\ item \in Item /\ Tail(conn[c].queue) \in Seq(Item)
          /\ Len(Tail(conn[c].queue)) <= QueueSize
      BY <2>1, SignalAssumption
    <2>3. /\ x \in ConnType /\ x.queue = Tail(conn[c].queue) /\ StillLinked(conn[c], x)
          /\ x.cancelled = conn[c].cancelled /\ x.told = conn[c].told
      BY <2>1, <2>2 DEF ConnType, StillLinked
    <2>4. /\ y \in ConnType /\ y.queue = x.queue /\ StillLinked(conn[c], y)
          /\ y.cancelled = conn[c].cancelled /\ y.told = conn[c].told
      <3>1. item.session \in IceSessions \cup {Null} /\ conn[c].last \in Item
            /\ conn[c].heard \in SUBSET (IceSessions \cup {Null})
        BY <2>1, <2>2 DEF Item, ConnType
      <3> HIDE DEF x, item
      <3> QED BY <2>2, <2>3, <3>1 DEF ConnType, StillLinked
    <2>5. rest = [conn EXCEPT ![c] = x]
      BY <1>0 DEF Queued
    <2>6. Written(c, item) = [conn EXCEPT ![c] = y]
      BY <1>0 DEF Queued, Written
    <2> HIDE DEF x, y, rest, item
    <2>7. /\ Queued(rest) /\ (\A d \in ConnIDs : StillLinked(conn[d], rest[d]))
          /\ StillTold(owner, conn, rest)
      BY <1>17, <2>2, <2>3, <2>5
    <2>8. CASE UNCHANGED <<live, owner, wg>> /\ conn' = rest
      BY <1>16, <2>1, <2>7, <2>8
    <2>9. CASE UNCHANGED <<live, owner, wg>> /\ conn' = Written(c, item)
      BY <1>16, <1>17, <2>1, <2>2, <2>3, <2>4, <2>6, <2>9
    <2>10. CASE Registered(c) /\ Retire({conn[c].owner}, TRUE, rest, owner, wg)
      <3>1. {conn[c].owner} \in SUBSET live /\ Retires({conn[c].owner}, rest, owner, wg)
        BY <2>10 DEF Registered, Retires
      <3>2. Good(grants, live, owner, rest, wg)
        BY <1>2, <2>7
      <3> QED BY <2>1, <3>1, <3>2, <1>RetirementStep
    <2> QED BY <1>23, <2>8, <2>9, <2>10 DEF WriteNext, rest, item
  <1>24. ASSUME NEW c \in ConnIDs, NEW k \in Kinds, NEW i \in IceSessions, Signal(c, k, i) PROVE Result
    <2>1. live' = live /\ wg' = wg /\ grants' = grants
      BY <1>24 DEF Signal, vars
    <2> QED BY <1>1, <1>24, <2>1, SignalStep
  <1>25. ASSUME NEW c \in ConnIDs, Register(c) \/ Unregister(c) PROVE Result
    <2>1. grants' = grants
      BY <1>25 DEF Register, Unregister, vars
    <2> QED BY <1>25, <2>1, <1>RegisterStep, <1>UnregisterStep DEF OnlyOwnLeave, OwnCleanups
  <1>26. CASE UNCHANGED hub /\ grants' = grants
    BY <1>0, <1>1, <1>26 DEF hub
  <1>27. CASE Connections
    BY <1>8, <1>14, <1>15, <1>19, <1>20, <1>22, <1>23, <1>24, <1>25, <1>27
       DEF Connections, ConnectionLost, ReadEnds
  <1>28. ((ReapExpired \/ Tick \/ SetBack \/ Horizon) /\ UNCHANGED hub) \/ UNCHANGED allvars
           => UNCHANGED hub /\ grants' = grants
    BY DEF ReapExpired, Tick, SetBack, Horizon, vars, hub, allvars
  <1> QED BY <1>3, <1>4, <1>5, <1>7, <1>9, <1>10, <1>21, <1>26, <1>27, <1>28 DEF SignalNext

\* Every owner in the map belongs to a share that is approved or bound for
\* exactly its scope; the map, the handlers, the wait group and what connections
\* were told agree, for any number of devices and whatever requests, reaper
\* passes, timers, replacements, lost connections and Close interleave.
THEOREM HubHolds == SignalSpec => []HubInv
  <1>1. SignalInit => HubInv
    <2> SUFFICES ASSUME SignalInit PROVE HubInv
      OBVIOUS
    <2>1. TypeOK
      BY DEF SignalInit, Init, TypeOK, Absent, Record
    <2>2. ice \in [GrantIDs -> [IceSessions -> Nat]] /\ closing \in BOOLEAN /\ closed \in BOOLEAN /\ frames \in Nat
      BY DEF SignalInit
    <2>3. NoConn \in ConnType /\ NoConn.queue = << >> /\ NoConn.phase = "new"
      <3>1. << >> \in Seq(Item) /\ ErrorItem \in Item
        BY ItemTypes
      <3> QED BY <3>1 DEF NoConn, ConnType, Phases
    <2>4. NoOwner \in OwnerType /\ NoOwner.timer = "none"
      BY DEF NoOwner, OwnerType, Timers
    <2>5. live = {} /\ owner = [o \in OwnerIDs |-> NoOwner] /\ conn = [c \in ConnIDs |-> NoConn] /\ wg = 0
      BY DEF SignalInit
    <2>6. Len(<< >>) = 0 /\ 0 <= QueueSize
      BY SignalAssumption
    <2>7. Shaped(live, owner, conn)
      BY <2>3, <2>4, <2>5, <2>6 DEF Shaped, Queued, Held
    <2>8. Balanced(owner, conn, wg)
      <3>1. HandlersIn(conn) = {} /\ RunningIn(owner) = {}
        BY <2>3, <2>4, <2>5 DEF HandlersIn, RunningIn, Held
      <3>2. /\ IsFiniteSet(HandlersIn(conn)) /\ Cardinality(HandlersIn(conn)) = 0
            /\ IsFiniteSet(RunningIn(owner)) /\ Cardinality(RunningIn(owner)) = 0
        BY <3>1, FS_EmptySet
      <3> QED BY <2>5, <3>2 DEF Balanced
    <2>9. Granted(grants, live, owner) /\ Linked(live, owner, conn) /\ Told(live, owner, conn)
      BY <2>5 DEF Granted, Linked, Told
    <2> QED BY <2>1, <2>2, <2>7, <2>8, <2>9 DEF HubInv, Good
  <1>2. HubInv /\ [SignalNext]_allvars => HubInv'
    <2> SUFFICES ASSUME HubInv, [SignalNext]_allvars PROVE HubInv'
      OBVIOUS
    <2>1. Good(grants, live, owner, conn, wg)'
      <3>1. Good(grants', live', owner', conn', wg')
        BY HubStep
      <3> QED BY <3>1
    <2>2. TypeOK'
      <3>1. [Next]_vars
        <4>1. Connections => UNCHANGED vars
          BY DEF Connections, OpenWebsocket, Register, GiveUp, ConnectionLost, ReadEnds, Leaves, CloseTerminal,
                 Unregister, ForwardUnauthorized, Heartbeat, WriteNext, Signal
        <4>2. SignalNext => Next \/ UNCHANGED vars
          BY <4>1 DEF SignalNext, Next, ShareControl, ShareRead, Reap, TimerFires, TimerCallback,
                      StoreUnreadable, Close, CloseShareSignals
        <4> QED BY <4>2 DEF allvars
      <3> QED BY <3>1, TypeStep DEF HubInv
    <2>3. ice' \in [GrantIDs -> [IceSessions -> Nat]] /\ closing' \in BOOLEAN /\ closed' \in BOOLEAN /\ frames' \in Nat
      <3> DEFINE Kept == UNCHANGED <<ice, closing, closed>> /\ (frames' = frames \/ frames' = frames + 1)
      <3>1. ASSUME NEW c \in ConnIDs, NEW k \in Kinds, NEW i \in IceSessions, Signal(c, k, i)
            PROVE  ice' \in [GrantIDs -> [IceSessions -> Nat]] /\ UNCHANGED <<closing, closed>> /\ frames' = frames + 1
        BY <3>1, SignalStep DEF Signal
      <3>2. ASSUME NEW c \in ConnIDs
            PROVE  /\ \A b \in Actors, s \in Scopes : OpenWebsocket(c, b, s) => Kept
                   /\ (\/ Register(c) \/ GiveUp(c) \/ ConnectionLost(c) \/ ReadEnds(c) \/ CloseTerminal(c)
                       \/ Unregister(c) \/ ForwardUnauthorized(c) \/ Heartbeat(c) \/ WriteNext(c)) => Kept
        BY DEF OpenWebsocket, Register, GiveUp, ConnectionLost, ReadEnds, Leaves, CloseTerminal,
               Unregister, ForwardUnauthorized, Heartbeat, WriteNext
      <3>3. ASSUME ShareControl \/ ShareRead \/ Reap \/ (\E o \in OwnerIDs : TimerFires(o) \/ TimerCallback(o) \/ StoreUnreadable(o))
            PROVE  Kept
        BY <3>3 DEF ShareControl, ShareRead, Reap, TimerFires, TimerCallback, StoreUnreadable
      <3>4. Close \/ CloseShareSignals =>
              ice' = ice /\ frames' = frames /\ closing' \in {closing, TRUE} /\ closed' \in {closed, TRUE}
        BY DEF Close, CloseShareSignals
      <3>5. UNCHANGED hub \/ UNCHANGED allvars => Kept
        BY DEF hub, allvars
      <3>6. \/ Kept
            \/ Close \/ CloseShareSignals
            \/ \E c \in ConnIDs, k \in Kinds, i \in IceSessions : Signal(c, k, i)
        <4> HIDE DEF Kept
        <4>1. CASE Connections
          BY <3>2, <4>1 DEF Connections
        <4>2. CASE ~Connections
          BY <3>3, <3>5, <4>2 DEF SignalNext
        <4> QED BY <4>1, <4>2
      <3>7. /\ ice \in [GrantIDs -> [IceSessions -> Nat]] /\ frames \in Nat
            /\ closing \in BOOLEAN /\ closed \in BOOLEAN /\ TRUE \in BOOLEAN
        BY DEF HubInv
      <3>8. CASE Kept
        BY <3>7, <3>8
      <3>9. CASE Close \/ CloseShareSignals
        BY <3>4, <3>7, <3>9
      <3>10. CASE \E c \in ConnIDs, k \in Kinds, i \in IceSessions : Signal(c, k, i)
        BY <3>1, <3>7, <3>10
      <3> HIDE DEF Kept
      <3> QED BY <3>6, <3>8, <3>9, <3>10
    <2> QED BY <2>1, <2>2, <2>3 DEF HubInv
  <1> QED BY <1>1, <1>2, PTL DEF SignalSpec

\* An owner in the map is granted, a registered peer is an open connection, the
\* wait group counts handlers and timers, and the readiness a connection was told
\* last, or has queued, is the present one, whatever interleaves (share_signal.go).
THEOREM SignalingHolds == SignalSpec => []SignalInv
  <1>1. HubInv => SignalInv
    <2> SUFFICES ASSUME HubInv PROVE SignalInv
      OBVIOUS
    <2>1. /\ Queued(conn) /\ owner \in [OwnerIDs -> OwnerType] /\ live \subseteq OwnerIDs
          /\ Granted(grants, live, owner) /\ Linked(live, owner, conn) /\ Balanced(owner, conn, wg)
          /\ Told(live, owner, conn)
      BY DEF HubInv, Good, Shaped
    <2>2. SignalTypeOK
      <3>1. \A o \in OwnerIDs :
              /\ owner[o].scope \in Scopes \cup {NoScope}
              /\ owner[o].peers \in [Actors -> ConnIDs \cup {Null}]
              /\ owner[o].timer \in {"none", "armed", "fired", "ran", "stopped"}
              /\ owner[o].negotiation # Null => owner[o].negotiation.session \in IceSessions
        BY <2>1 DEF OwnerType, NegotiationType, Timers
      <3>2. \A c \in ConnIDs :
              /\ conn[c].phase \in {"new", "upgrading", "open", "leaving", "done"}
              /\ conn[c].actor \in Actors \cup {Null} /\ conn[c].owner \in OwnerIDs \cup {Null}
              /\ conn[c].scope \in Scopes \cup {NoScope}
              /\ conn[c].cancelled \in BOOLEAN /\ conn[c].terminal \in BOOLEAN
              /\ Len(conn[c].queue) <= QueueSize /\ conn[c].queue \in Seq(Item)
        BY <2>1 DEF Queued, ConnType, Phases
      <3>3. \A c \in ConnIDs : \A i \in 1 .. Len(conn[c].queue) : conn[c].queue[i] \in Item
        BY <3>2
      <3>4. wg \in Nat
        <4>1. /\ Cardinality(HandlersIn(conn)) \in Nat /\ Cardinality(RunningIn(owner)) \in Nat
              /\ wg = Cardinality(HandlersIn(conn)) + Cardinality(RunningIn(owner))
          BY <2>1, FS_CardinalityType DEF Balanced
        <4> QED BY <4>1
      <3> QED BY <2>1, <3>1, <3>2, <3>3, <3>4 DEF SignalTypeOK, HubInv
    <2>3. OwnersAreGranted
      BY <2>1 DEF OwnersAreGranted, Granted, Present
    <2>4. NoGhostPeers
      BY <2>1 DEF NoGhostPeers, Linked, PeersOf
    <2>5. WaitGroupBalanced
      BY <2>1 DEF WaitGroupBalanced, Balanced, Handlers, HandlersIn, RunningIn, Held
    <2>6. ReadinessIsCurrent
      BY <2>1 DEF ReadinessIsCurrent, Told, PeersOf, PeersIn
    <2> QED BY <2>2, <2>3, <2>4, <2>5, <2>6 DEF SignalInv
  <1> QED BY <1>1, HubHolds, PTL

\* An old connection's cleanup never removes its replacement, and only the same
\* device's connection replaces one.
THEOREM CleanupsAreOwn == SignalSpec => CleanupIsOwn
  <1>1. HubInv /\ [SignalNext]_allvars =>
          [\A o \in live \cap live', a \in Actors :
             LET c == owner[o].peers[a]
             IN  c # Null /\ owner'[o].peers[a] # c =>
                   \/ conn[c].phase = "leaving" /\ conn'[c].phase = "done"
                   \/ owner'[o].peers[a] # Null /\ conn'[owner'[o].peers[a]].actor = a]_allvars
    BY HubStep DEF OwnCleanups
  <1> QED BY <1>1, HubHolds, PTL DEF SignalSpec, CleanupIsOwn

(***************************************************************************)
(* A request comes before its candidates                                   *)
(***************************************************************************)
\* Frames the other end may be written only after the request.
Trickled == {"candidate", "end_of_candidates"}

Known(x) == x.heard \cup x.excused

\* The request for session i, from a present peer, is ahead of every candidate.
Ahead(x, i, P) ==
  \E j \in 1 .. Len(x.queue) :
    /\ x.queue[j].kind = "connect_request" /\ x.queue[j].session = i /\ x.queue[j].source \in P
    /\ \A l \in 1 .. j - 1 : ~(x.queue[l].kind \in Trickled /\ x.queue[l].session = i)

\* What a connection x of a receiver was written and will be, where n is the
\* negotiation, P are the peers, and used says which sessions were requested.
Prepared(x, n, P, used) ==
  /\ x.last.kind \in Trickled => x.last.session \in Known(x)
  /\ \A j \in 1 .. Len(x.queue) :
       x.queue[j].kind \in Kinds => x.queue[j].session \in IceSessions /\ used[x.queue[j].session] # 0
  /\ n # Null => x.cancelled \/ n.session \in Known(x) \/ Ahead(x, n.session, P)

\* Only the parties of share r are peers of owner w, and a negotiation is
\* between the two of them.
Paired(r, w, used) ==
  /\ \A a \in Actors : w.peers[a] # Null => a \in {r.sender, r.receiver}
  /\ w.negotiation # Null =>
       w.peers[r.sender] # Null /\ w.peers[r.receiver] # Null /\ used[w.negotiation.session] # 0

Converses(r, w, cn, used) ==
  /\ Paired(r, w, used)
  /\ \A a \in Actors : w.peers[a] # Null /\ a # r.sender =>
       Prepared(cn[w.peers[a]], w.negotiation, {w.peers[b] : b \in Actors} \ {Null}, used)

Negotiated(gr, L, ow, cn, used) ==
  \A o \in L : Converses(gr[ow[o].scope.grant], ow[o], cn, used[ow[o].scope.grant])

\* A connection that is not registered yet, or is over, has nothing queued.
Fresh(cn) ==
  \A c \in ConnIDs : cn[c].phase \notin {"open", "leaving"} => cn[c].queue = << >> /\ cn[c].last = ErrorItem

\* The inductive invariant, with HubInv.
RequestIInv == Negotiated(grants, live, owner, conn, ice) /\ Fresh(conn)

\* Whether a connection lost its queue, got an item that is no frame, or nothing.
Calm(x, y) ==
  \/ y.cancelled /\ y.queue = << >> /\ y.last = ErrorItem
  \/ /\ y.last = x.last /\ x.heard \subseteq y.heard /\ x.excused \subseteq y.excused
     /\ \/ y.cancelled /\ y.queue \in {x.queue, << >>}
        \/ y.cancelled = x.cancelled /\ y.queue = x.queue
        \/ y.cancelled = x.cancelled /\ \E item \in Item : item.kind \notin Kinds /\ y.queue = Append(x.queue, item)

\* A step of one connection disturbs the owner it belongs to and no other: of the
\* other owners the peers are the same, and their queues calm.
LEMMA RequestStep ==
  ASSUME HubInv, HubInv', [SignalNext]_allvars, RequestIInv
  PROVE  RequestIInv'
  <1>0. /\ Queued(conn) /\ owner \in [OwnerIDs -> OwnerType] /\ live \subseteq OwnerIDs
        /\ Granted(grants, live, owner) /\ Linked(live, owner, conn)
        /\ Negotiated(grants, live, owner, conn, ice) /\ Fresh(conn)
        /\ \A c \in ConnIDs : conn[c].phase \in Held => conn[c].actor \in Actors /\ conn[c].scope \in Scopes
        /\ TypeOK /\ ice \in [GrantIDs -> [IceSessions -> Nat]]
    BY DEF HubInv, Good, Shaped, RequestIInv
  <1>1. /\ Queued(conn') /\ owner' \in [OwnerIDs -> OwnerType] /\ live' \subseteq OwnerIDs
        /\ Granted(grants', live', owner') /\ Linked(live', owner', conn')
    BY DEF HubInv, Good, Shaped, Queued, Granted, Linked
  <1>2. Null \notin ConnIDs /\ Null \notin OwnerIDs /\ QueueSize \in Nat \ {0} /\ NegotiationTTL \in Nat \ {0}
    BY SignalAssumption
  \* A connection's queue, item by item.
  <1>calm. ASSUME NEW x \in ConnType, NEW y \in ConnType, Calm(x, y), NEW n, NEW P, NEW used, Prepared(x, n, P, used)
           PROVE  Prepared(y, n, P, used)
    <2> USE <1>calm
    <2>0. x.queue \in Seq(Item) /\ y.queue \in Seq(Item) /\ Len(x.queue) \in Nat
      BY DEF ConnType
    <2>1. CASE y.cancelled /\ y.queue = << >> /\ y.last = ErrorItem
      BY <2>1 DEF Prepared, ErrorItem, Trickled
    <2> DEFINE More == y.last = x.last /\ x.heard \subseteq y.heard /\ x.excused \subseteq y.excused
    <2>2. CASE More /\ y.cancelled /\ y.queue \in {x.queue, << >>}
      BY <2>2 DEF Prepared, Known
    <2>3. CASE More /\ y.cancelled = x.cancelled /\ y.queue = x.queue
      BY <2>3 DEF Prepared, Known, Ahead
    <2>4. CASE More /\ y.cancelled = x.cancelled /\ \E item \in Item : item.kind \notin Kinds /\ y.queue = Append(x.queue, item)
      <3>1. PICK item \in Item : item.kind \notin Kinds /\ y.queue = Append(x.queue, item) BY <2>4
      <3>2. Len(y.queue) = Len(x.queue) + 1 /\ \A j \in 1 .. Len(x.queue) : y.queue[j] = x.queue[j]
        BY <2>0, <3>1
      <3>3. y.queue[Len(x.queue) + 1] = item BY <2>0, <3>1
      <3>4. ASSUME NEW i, Ahead(x, i, P) PROVE Ahead(y, i, P)
        <4>1. PICK j \in 1 .. Len(x.queue) :
                /\ x.queue[j].kind = "connect_request" /\ x.queue[j].session = i /\ x.queue[j].source \in P
                /\ \A l \in 1 .. j - 1 : ~(x.queue[l].kind \in Trickled /\ x.queue[l].session = i)
          BY <3>4 DEF Ahead
        <4>2. j \in 1 .. Len(y.queue) /\ \A l \in 1 .. j - 1 : l \in 1 .. Len(x.queue) BY <2>0, <3>2, <4>1
        <4> QED BY <3>2, <4>1, <4>2 DEF Ahead
      <3>5. \A j \in 1 .. Len(y.queue) :
              y.queue[j].kind \in Kinds => y.queue[j].session \in IceSessions /\ used[y.queue[j].session] # 0
        <4> TAKE j \in 1 .. Len(y.queue)
        <4>1. j \in 1 .. Len(x.queue) \/ j = Len(x.queue) + 1 BY <2>0, <3>2
        <4> QED BY <3>1, <3>2, <3>3, <4>1 DEF Prepared
      <3> QED BY <2>4, <3>4, <3>5 DEF Prepared, Known
    <2> QED BY <2>1, <2>2, <2>3, <2>4 DEF Calm
  <1>rename. ASSUME NEW x, NEW n, NEW m, NEW P, NEW used, Prepared(x, n, P, used),
                    m # Null => n # Null /\ m.session = n.session
             PROVE  Prepared(x, m, P, used)
    BY <1>rename DEF Prepared
  <1>over. ASSUME NEW x, NEW n, NEW P, NEW Q, NEW used, Prepared(x, n, P, used)
           PROVE  Prepared(x, Null, Q, used)
    BY <1>over DEF Prepared
  <1>enqueued. ASSUME NEW cn, Queued(cn), NEW c \in ConnIDs, NEW item \in Item, item.kind \notin Kinds
               PROVE  LET dn == Enqueued(cn, c, item)
                      IN  Queued(dn) /\ Calm(cn[c], dn[c]) /\ \A d \in ConnIDs : d # c => dn[d] = cn[d]
    <2> USE <1>enqueued
    <2> DEFINE dn == Enqueued(cn, c, item)
    <2>1. Queued(dn) /\ \A d \in ConnIDs : d # c => dn[d] = cn[d] BY EnqueuedKeeps
    <2>2. cn \in [ConnIDs -> ConnType] /\ cn[c] \in ConnType BY DEF Queued
    <2>3. CASE cn[c].cancelled
      BY <2>3 DEF Enqueued, Calm
    <2>4. CASE ~cn[c].cancelled /\ Len(cn[c].queue) < QueueSize
      <3>1. /\ dn[c].queue = Append(cn[c].queue, item) /\ dn[c].last = cn[c].last /\ dn[c].heard = cn[c].heard
            /\ dn[c].excused = cn[c].excused /\ dn[c].cancelled = cn[c].cancelled
        BY <2>2, <2>4 DEF Enqueued, ConnType
      <3> QED BY <2>1, <3>1 DEF Calm
    <2>5. CASE ~cn[c].cancelled /\ ~(Len(cn[c].queue) < QueueSize)
      <3>1. dn[c] = Cancelled(cn[c]) BY <2>2, <2>5 DEF Enqueued
      <3>2. /\ dn[c].queue = << >> /\ dn[c].last = cn[c].last /\ dn[c].heard = cn[c].heard
            /\ dn[c].excused = cn[c].excused /\ dn[c].cancelled = TRUE
        BY <2>2, <3>1 DEF Cancelled, Emptied, ConnType
      <3> HIDE DEF dn
      <3>3. cn[c].heard \subseteq dn[c].heard /\ cn[c].excused \subseteq dn[c].excused BY <3>2
      <3>4. Calm(cn[c], dn[c]) BY <3>2, <3>3 DEF Calm
      <3> QED BY <2>1, <3>4 DEF dn
    <2> QED BY <2>1, <2>3, <2>4, <2>5
  <1>next. [Next]_vars
    <2>1. Connections => UNCHANGED vars
      BY DEF Connections, OpenWebsocket, Register, GiveUp, ConnectionLost, ReadEnds, Leaves, CloseTerminal,
             Unregister, ForwardUnauthorized, Heartbeat, WriteNext, Signal
    <2>2. SignalNext => Next \/ UNCHANGED vars
      BY <2>1 DEF SignalNext, Next, ShareControl, ShareRead, Reap, TimerFires, TimerCallback,
                  StoreUnreadable, Close, CloseShareSignals
    <2> QED BY <2>2 DEF allvars
  \* While an owner stays, its share keeps its two parties.
  <1>parties. ASSUME NEW o \in live, o \in live', owner'[o].scope = owner[o].scope
              PROVE  LET g == owner[o].scope.grant
                     IN  g \in GrantIDs /\ grants'[g].sender = grants[g].sender /\ grants'[g].receiver = grants[g].receiver
    <2> USE <1>parties
    <2> DEFINE s == owner[o].scope
               g == s.grant
    <2>1. s \in Scopes /\ g \in GrantIDs /\ s.phase \in {"preview", "transfer"}
      BY <1>0 DEF Granted, Scopes
    <2>2. grants[g] \in Record /\ RecordStep(grants[g], grants'[g])
      BY <1>0, <1>next, <2>1, StepsAreRecordSteps DEF TypeOK
    <2>3. grants[g].state \in {"approved", "bound"} /\ grants'[g].state \in {"approved", "bound"}
      BY <1>0, <1>1, <2>1 DEF Granted, ScopeMatches
    <2> HIDE DEF g
    <2>4. PICK r \in Record : r = grants[g] BY <2>2
    <2>5. PICK q : q = grants'[g] OBVIOUS
    <2>6. RecordStep(r, q) /\ r.state \in {"approved", "bound"} /\ q.state \in {"approved", "bound"}
      BY <2>2, <2>3, <2>4, <2>5
    <2>7. q.sender = r.sender /\ q.receiver = r.receiver
      <3>1. CASE q = r BY <3>1
      <3>2. ASSUME NEW p \in Plans, q = BoundRecord(r, p) PROVE q.sender = r.sender /\ q.receiver = r.receiver
        BY <3>2 DEF BoundRecord, Bumped, Record
      <3>3. q # Absent /\ r.state # "absent" /\ ~Terminal(r) BY <2>6 DEF Absent, Terminal
      <3>4. q # CompletedRecord(r) /\ q # RevokedRecord(r) /\ q # ExpiredRecord(r, tick)
        BY <2>6 DEF CompletedRecord, RevokedRecord, ExpiredRecord, Bumped, Record
      <3>5. Reconciled(r, tick) \in {r, ExpiredRecord(r, tick)} BY <2>6 DEF Reconciled
      <3> QED BY <2>6, <3>1, <3>2, <3>3, <3>4, <3>5 DEF RecordStep, ClaimApplies, ApproveApplies, DenyApplies
    <2> QED BY <2>1, <2>4, <2>5, <2>7 DEF g
  <1> DEFINE Peers(w) == {w.peers[b] : b \in Actors} \ {Null}
             \* What is shown of every owner in the map.
             Goes(o) == Converses(grants'[owner'[o].scope.grant], owner'[o], conn', ice'[owner'[o].scope.grant])
             \* Nothing happened to an owner but what leaves its negotiation as it is, or ends it.
             Rests(o) ==
               /\ o \in live /\ owner'[o].scope = owner[o].scope /\ owner'[o].peers = owner[o].peers
               /\ owner'[o].negotiation \in {owner[o].negotiation, Null}
               /\ \A a \in Actors : owner[o].peers[a] # Null => Calm(conn[owner[o].peers[a]], conn'[owner[o].peers[a]])
             Settles == /\ \A o \in live' : Goes(o)
                        /\ Fresh(conn')
  \* The peers of an owner in the map.
  <1>linked. ASSUME NEW o \in live, NEW a \in Actors, owner[o].peers[a] # Null
             PROVE  LET c == owner[o].peers[a]
                    IN  /\ o \in OwnerIDs /\ c \in ConnIDs /\ conn[c] \in ConnType /\ conn'[c] \in ConnType
                        /\ conn[c].phase \in {"open", "leaving"} /\ conn[c].owner = o /\ conn[c].actor = a
                        /\ conn[c].scope = owner[o].scope
    BY <1>0, <1>1, <1>linked DEF Linked, OwnerType, Queued
  \* An owner whose share and peers stay, whose negotiation goes on or ends, and
  \* whose peers are sent no frame.
  <1>grows. ASSUME NEW o \in live', o \in live, owner'[o].scope = owner[o].scope, owner'[o].peers = owner[o].peers,
                   owner'[o].negotiation # Null => /\ owner[o].negotiation # Null
                                                   /\ owner'[o].negotiation.session = owner[o].negotiation.session,
                   \A a \in Actors : owner[o].peers[a] # Null => Calm(conn[owner[o].peers[a]], conn'[owner[o].peers[a]]),
                   \A g \in GrantIDs, i \in IceSessions : ice[g][i] # 0 => ice'[g][i] # 0
            PROVE  Goes(o)
    <2> USE <1>grows
    <2>1. PICK w \in OwnerType, v \in OwnerType : w = owner[o] /\ v = owner'[o] BY <1>0, <1>1
    <2>2. PICK g \in GrantIDs : g = w.scope.grant BY <1>parties, <2>1
    <2>3. grants'[g].sender = grants[g].sender /\ grants'[g].receiver = grants[g].receiver BY <1>parties, <2>1, <2>2
    <2>4. Converses(grants[g], w, conn, ice[g]) BY <1>0, <2>1, <2>2 DEF Negotiated
    <2>5. /\ v.scope = w.scope /\ v.peers = w.peers
          /\ v.negotiation # Null => w.negotiation # Null /\ v.negotiation.session = w.negotiation.session
      BY <2>1
    <2>6. \A i \in IceSessions : ice[g][i] # 0 => ice'[g][i] # 0 OBVIOUS
    <2>7. w.negotiation # Null => w.negotiation.session \in IceSessions BY DEF OwnerType, NegotiationType
    <2>8. Paired(grants'[g], v, ice'[g]) BY <2>3, <2>4, <2>5, <2>6, <2>7 DEF Paired, Converses
    <2>9. ASSUME NEW a \in Actors, v.peers[a] # Null, a # grants'[g].sender
          PROVE  Prepared(conn'[v.peers[a]], v.negotiation, Peers(v), ice'[g])
      <3>1. PICK c : c = w.peers[a] OBVIOUS
      <3>2. c \in ConnIDs /\ conn[c] \in ConnType /\ conn'[c] \in ConnType /\ Calm(conn[c], conn'[c])
        BY <1>linked, <2>1, <2>5, <2>9, <3>1
      <3>3. Prepared(conn[c], w.negotiation, Peers(w), ice[g]) BY <2>3, <2>4, <2>5, <2>9, <3>1 DEF Converses
      <3>4. Prepared(conn'[c], w.negotiation, Peers(w), ice[g]) BY <1>calm, <3>2, <3>3
      <3>5. Prepared(conn'[c], v.negotiation, Peers(w), ice[g]) BY <1>rename, <2>5, <3>4
      <3>6. Prepared(conn'[c], v.negotiation, Peers(w), ice'[g]) BY <2>6, <3>5 DEF Prepared
      <3> QED BY <2>5, <3>1, <3>6
    <2>10. Converses(grants'[g], v, conn', ice'[g]) BY <2>8, <2>9 DEF Converses
    <2> QED BY <2>1, <2>2, <2>5, <2>10
  <1>rests. ASSUME NEW o \in live', Rests(o), ice' = ice PROVE Goes(o)
    BY <1>rests, <1>grows
  <1>fresh. ASSUME \A c \in ConnIDs :
                     \/ conn'[c].phase \in {"open", "leaving"}
                     \/ conn'[c].queue = << >> /\ conn'[c].last = ErrorItem
                     \/ conn'[c].phase = conn[c].phase /\ conn'[c].last = conn[c].last /\ conn'[c].queue \in {conn[c].queue, << >>}
            PROVE  Fresh(conn')
    BY <1>0, <1>fresh DEF Fresh
  <1>same. \A x : Calm(x, x) BY DEF Calm
  \* Steps that leave every owner as it is, and the queues of those registered.
  <1>ordinary. ASSUME live' = live, ice' = ice,
                      \A o \in live : /\ owner'[o].scope = owner[o].scope /\ owner'[o].peers = owner[o].peers
                                      /\ owner'[o].negotiation = owner[o].negotiation,
                      \A c \in ConnIDs : Registered(c) /\ conn[c].phase \in {"open", "leaving"} => Calm(conn[c], conn'[c])
               PROVE  \A o \in live' : Goes(o)
    <2> USE <1>ordinary
    <2> SUFFICES ASSUME NEW o \in live' PROVE Goes(o) OBVIOUS
    <2>1. \A a \in Actors : owner[o].peers[a] # Null => Calm(conn[owner[o].peers[a]], conn'[owner[o].peers[a]])
      BY <1>linked DEF Registered
    <2> QED BY <1>rests, <2>1
  \* Owners are retired, after what happened to them and their connections alone.
  <1>retires. ASSUME NEW O, NEW b \in BOOLEAN, NEW cn, NEW ow, NEW w, Retire(O, b, cn, ow, w), ice' = ice,
                     \A p \in live \ O : /\ ow[p].scope = owner[p].scope /\ ow[p].peers = owner[p].peers
                                         /\ ow[p].negotiation = owner[p].negotiation,
                     \A c \in ConnIDs : \/ cn[c] = conn[c]
                                        \/ /\ conn[c].owner \in O \/ conn[c].phase \notin {"open", "leaving"}
                                           /\ cn[c].phase \in {"open", "leaving"} \/ (cn[c].queue = << >> /\ cn[c].last = ErrorItem)
              PROVE  Settles
    <2> USE <1>retires
    <2>1. live' = live \ O BY DEF Retire
    <2>2. \A p \in OwnerIDs \ O : owner'[p] = ow[p] BY DEF Retire
    <2>3. \A c \in ConnIDs : cn[c].owner \notin O => conn'[c] = cn[c] BY DEF Retire
    <2>4. ASSUME NEW o \in live' PROVE Goes(o)
      <3>1. o \in live /\ o \notin O /\ o \in OwnerIDs BY <1>0, <2>1, <2>4
      <3>2. owner'[o] = ow[o] BY <2>2, <3>1
      <3>3. ASSUME NEW a \in Actors, owner[o].peers[a] # Null
            PROVE  Calm(conn[owner[o].peers[a]], conn'[owner[o].peers[a]])
        <4>1. PICK c : c = owner[o].peers[a] OBVIOUS
        <4>2. c \in ConnIDs /\ conn[c].owner = o /\ conn[c].phase \in {"open", "leaving"} BY <1>linked, <3>1, <3>3, <4>1
        <4>3. cn[c] = conn[c] BY <3>1, <4>2
        <4>4. conn'[c] = conn[c] BY <2>3, <3>1, <4>2, <4>3
        <4> QED BY <1>same, <4>1, <4>4
      <3>4. Rests(o) BY <3>1, <3>2, <3>3
      <3> QED BY <1>rests, <2>4, <3>4
    <2>5. Fresh(conn')
      <3>1. \A c \in ConnIDs : conn'[c] \in {cn[c], Cancelled(cn[c]), Emptied([cn[c] EXCEPT !.terminal = TRUE])}
        BY DEF Retire
      <3>2. ASSUME NEW c \in ConnIDs, conn'[c] # cn[c]
            PROVE  conn'[c].queue = << >> /\ conn'[c].last = cn[c].last /\ conn'[c].phase = cn[c].phase
        <4>1. conn'[c] \in ConnType BY <1>1 DEF Queued
        <4>2. CASE conn'[c] = Cancelled(cn[c])
          <5>1. PICK x : x = cn[c] OBVIOUS
          <5> QED BY <4>1, <4>2, <5>1 DEF Cancelled, Emptied, ConnType
        <4>3. CASE conn'[c] = Emptied([cn[c] EXCEPT !.terminal = TRUE])
          <5>1. PICK x : x = cn[c] OBVIOUS
          <5> QED BY <4>1, <4>3, <5>1 DEF Emptied, ConnType
        <4> QED BY <3>1, <3>2, <4>2, <4>3
      <3>3. \A c \in ConnIDs : conn'[c].queue \in {cn[c].queue, << >>} /\ conn'[c].last = cn[c].last /\ conn'[c].phase = cn[c].phase
        BY <3>2
      <3> QED BY <1>fresh, <3>3
    <2> QED BY <2>4, <2>5
  <1>requests. ASSUME ShareControl \/ ShareRead \/ Reap \/ CloseShareSignals \/ \E o \in OwnerIDs : StoreUnreadable(o)
               PROVE  Settles
    <2> DEFINE R(O, b) == Retire(O, b, conn, owner, wg) /\ ice' = ice
    <2>1. ASSUME NEW O, NEW b \in BOOLEAN, R(O, b) PROVE Settles
      BY <1>retires, <2>1
    <2>2. ASSUME ShareControl PROVE Settles
      <3>1. PICK g \in GrantIDs : Retire(Stale(g, grants'[g], now), TRUE, conn, owner, wg) BY <2>2 DEF ShareControl
      <3>2. R(Stale(g, grants'[g], now), TRUE) BY <2>2, <3>1 DEF ShareControl
      <3> QED BY <2>1, <3>2
    <2>3. ASSUME ShareRead PROVE Settles
      <3>1. PICK g \in GrantIDs : Retire(Stale(g, grants[g], now), TRUE, conn, owner, wg) BY <2>3 DEF ShareRead
      <3>2. R(Stale(g, grants[g], now), TRUE) BY <2>3, <3>1 DEF ShareRead
      <3> QED BY <2>1, <3>2
    <2>4. ASSUME Reap PROVE Settles
      <3>1. R(UNION {Stale(g, grants'[g], tick) : g \in GrantIDs}, TRUE) BY <2>4 DEF Reap
      <3> QED BY <2>1, <3>1
    <2>5. ASSUME CloseShareSignals PROVE Settles
      <3>1. R(live, FALSE) BY <2>5 DEF CloseShareSignals
      <3> QED BY <2>1, <3>1
    <2>6. ASSUME NEW o \in OwnerIDs, StoreUnreadable(o) PROVE Settles
      <3>1. R({o}, FALSE) BY <2>6 DEF StoreUnreadable
      <3> QED BY <2>1, <3>1
    <2> QED BY <1>requests, <2>2, <2>3, <2>4, <2>5, <2>6
  <1>timer. ASSUME NEW o \in OwnerIDs, TimerFires(o) \/ TimerCallback(o) PROVE Settles
    <2>1. CASE TimerFires(o)
      <3>1. PICK w \in OwnerType : w = owner[o] BY <1>0
      <3>2. owner' = [owner EXCEPT ![o] = [w EXCEPT !.timer = "fired"]] BY <2>1, <3>1 DEF TimerFires
      <3>3. PICK v : v = [w EXCEPT !.timer = "fired"] OBVIOUS
      <3>4. v.scope = w.scope /\ v.peers = w.peers /\ v.negotiation = w.negotiation BY <3>3 DEF OwnerType
      <3>5. \A p \in OwnerIDs : owner'[p] = IF p = o THEN v ELSE owner[p] BY <1>0, <3>2, <3>3
      <3>6. \A p \in live : /\ owner'[p].scope = owner[p].scope /\ owner'[p].peers = owner[p].peers
                            /\ owner'[p].negotiation = owner[p].negotiation
        BY <1>0, <3>1, <3>4, <3>5
      <3>7. live' = live /\ ice' = ice /\ conn' = conn BY <2>1 DEF TimerFires
      <3>8. \A p \in live' : Goes(p) BY <1>ordinary, <1>same, <3>6, <3>7
      <3>9. Fresh(conn') BY <1>0, <3>7
      <3> QED BY <3>8, <3>9
    <2>2. CASE TimerCallback(o)
      <3>1. PICK w \in OwnerType : w = owner[o] BY <1>0
      <3>2. PICK v : v = [w EXCEPT !.timer = "ran"] OBVIOUS
      <3>3. v.scope = w.scope /\ v.peers = w.peers /\ v.negotiation = w.negotiation BY <3>2 DEF OwnerType
      <3>4. PICK ow : ow = [owner EXCEPT ![o].timer = "ran"] OBVIOUS
      <3>5. \A p \in OwnerIDs : ow[p] = IF p = o THEN v ELSE owner[p] BY <1>0, <3>1, <3>2, <3>4
      <3>6. \A p \in live : /\ ow[p].scope = owner[p].scope /\ ow[p].peers = owner[p].peers
                            /\ ow[p].negotiation = owner[p].negotiation
        BY <1>0, <3>1, <3>3, <3>5
      <3>7. Retire({o} \cap live, TRUE, conn, ow, wg - 1) /\ ice' = ice BY <2>2, <3>4 DEF TimerCallback
      <3> DEFINE R(O, b, w1) == Retire(O, b, conn, ow, w1)
      <3>8. R({o} \cap live, TRUE, wg - 1) BY <3>7
      <3> HIDE DEF R
      <3>9. PICK b \in BOOLEAN : b = TRUE OBVIOUS
      <3>10. PICK O, w1 : R(O, b, w1) BY <3>8, <3>9
      <3>11. Retire(O, b, conn, ow, w1) BY <3>10 DEF R
      <3>12. \A p \in live \ O : /\ ow[p].scope = owner[p].scope /\ ow[p].peers = owner[p].peers
                                /\ ow[p].negotiation = owner[p].negotiation
        BY <3>6
      <3>13. ice' = ice BY <3>7
      <3> QED BY <1>retires, <3>11, <3>12, <3>13
    <2> QED BY <1>timer, <2>1, <2>2
  \* One connection or all of them change, and no owner.
  <1>alone. ASSUME live' = live, ice' = ice, owner' = owner,
                   \A c \in ConnIDs :
                     /\ Registered(c) /\ conn[c].phase \in {"open", "leaving"} => Calm(conn[c], conn'[c])
                     /\ \/ conn'[c].phase \in {"open", "leaving"}
                        \/ conn'[c].queue = << >> /\ conn'[c].last = ErrorItem
                        \/ conn'[c].phase = conn[c].phase /\ conn'[c].last = conn[c].last /\ conn'[c].queue \in {conn[c].queue, << >>}
            PROVE  Settles
    BY <1>alone, <1>ordinary, <1>fresh
  <1>cancel. ASSUME NEW x \in ConnType
             PROVE  LET y == Cancelled(x)
                    IN  Calm(x, y) /\ y.phase = x.phase /\ y.last = x.last /\ y.queue = << >>
    <2>1. PICK y : y = Cancelled(x) OBVIOUS
    <2>2. /\ y.queue = << >> /\ y.last = x.last /\ y.heard = x.heard /\ y.phase = x.phase
          /\ y.excused = x.excused /\ y.cancelled = TRUE
      BY <2>1 DEF Cancelled, Emptied, ConnType
    <2>3. Calm(x, y) BY <2>2 DEF Calm
    <2> QED BY <2>1, <2>2, <2>3
  <1>noConn. NoConn.queue = << >> /\ NoConn.last = ErrorItem BY DEF NoConn
  \* One connection changes.
  <1>put. ASSUME NEW c \in ConnIDs, NEW y, conn' = [conn EXCEPT ![c] = y], live' = live, ice' = ice, owner' = owner,
                 Registered(c) /\ conn[c].phase \in {"open", "leaving"} => Calm(conn[c], y),
                 \/ y.phase \in {"open", "leaving"}
                 \/ y.queue = << >> /\ y.last = ErrorItem
          PROVE  Settles
    <2>1. \A d \in ConnIDs : conn'[d] = IF d = c THEN y ELSE conn[d] BY <1>0, <1>put DEF Queued
    <2>2. \A d \in ConnIDs : /\ Registered(d) /\ conn[d].phase \in {"open", "leaving"} => Calm(conn[d], conn'[d])
                             /\ \/ conn'[d].phase \in {"open", "leaving"}
                                \/ conn'[d].queue = << >> /\ conn'[d].last = ErrorItem
                                \/ conn'[d].phase = conn[d].phase /\ conn'[d].last = conn[d].last /\ conn'[d].queue \in {conn[d].queue, << >>}
      BY <1>same, <1>put, <2>1
    <2> QED BY <1>alone, <1>put, <2>2
  <1>one. ASSUME NEW c \in ConnIDs,
                 \/ \E a \in Actors, s \in Scopes : OpenWebsocket(c, a, s)
                 \/ GiveUp(c) \/ ConnectionLost(c) \/ ReadEnds(c) \/ CloseTerminal(c) \/ Heartbeat(c)
          PROVE  Settles
    <2> USE <1>one
    <2>0. PICK x \in ConnType : x = conn[c] BY <1>0 DEF Queued
    <2> HIDE <1>one
    <2>2. ASSUME NEW a \in Actors, NEW s \in Scopes, OpenWebsocket(c, a, s) PROVE Settles
      <3>1. PICK y : y = [NoConn EXCEPT !.phase = "upgrading", !.actor = a, !.scope = s] OBVIOUS
      <3>2. y.queue = << >> /\ y.last = ErrorItem BY <3>1 DEF NoConn
      <3>3. x.phase = "new" /\ conn' = [conn EXCEPT ![c] = y] /\ live' = live /\ ice' = ice /\ owner' = owner
        BY <2>0, <2>2, <3>1 DEF OpenWebsocket
      <3> QED BY <1>put, <2>0, <3>2, <3>3
    <2>3. ASSUME GiveUp(c) PROVE Settles
      <3>1. PICK y : y = [NoConn EXCEPT !.phase = "done"] OBVIOUS
      <3>2. y.queue = << >> /\ y.last = ErrorItem BY <3>1 DEF NoConn
      <3>3. x.phase = "upgrading" /\ conn' = [conn EXCEPT ![c] = y] /\ live' = live /\ ice' = ice /\ owner' = owner
        BY <2>0, <2>3, <3>1 DEF GiveUp
      <3> QED BY <1>put, <2>0, <3>2, <3>3
    <2>4. ASSUME Leaves(c) PROVE Settles
      <3>1. PICK y : y = [NoConn EXCEPT !.phase = "leaving", !.actor = conn[c].actor, !.scope = conn[c].scope,
                                        !.owner = conn[c].owner, !.cancelled = TRUE] OBVIOUS
      <3>2. y.queue = << >> /\ y.last = ErrorItem /\ y.cancelled = TRUE BY <3>1 DEF NoConn
      <3>3. conn' = [conn EXCEPT ![c] = y] /\ live' = live /\ ice' = ice /\ owner' = owner
        BY <2>4, <3>1 DEF Leaves
      <3>4. Calm(x, y) BY <3>2 DEF Calm
      <3> QED BY <1>put, <2>0, <3>2, <3>3, <3>4
    <2>5. ASSUME CloseTerminal(c) PROVE Settles
      <3>1. PICK y : y = Cancelled(x) OBVIOUS
      <3>2. Calm(x, y) /\ y.phase = x.phase BY <1>cancel, <3>1
      <3>3. conn' = [conn EXCEPT ![c] = y] /\ live' = live /\ ice' = ice /\ owner' = owner /\ x.phase = "open"
        BY <2>0, <2>5, <3>1 DEF CloseTerminal
      <3> QED BY <1>put, <2>0, <3>2, <3>3
    <2>6. ASSUME Heartbeat(c) PROVE Settles
      <3>1. PICK item : item = ReadyItem(Cardinality(PeersOf(conn[c].owner)) = 2) OBVIOUS
      <3>2. item \in Item /\ item.kind \notin Kinds BY <3>1, ItemTypes DEF ReadyItem, Kinds
      <3>3. conn' = Enqueued(conn, c, item) /\ live' = live /\ ice' = ice /\ owner' = owner /\ x.phase = "open"
        BY <2>0, <2>6, <3>1 DEF Heartbeat, Accepting, Receiving
      <3>4. Calm(x, conn'[c]) /\ \A d \in ConnIDs : d # c => conn'[d] = conn[d] BY <1>0, <1>enqueued, <2>0, <3>2, <3>3
      <3>5. conn'[c].phase = "open" BY <1>0, <2>0, <3>2, <3>3, EnqueuedKeeps DEF SameLink
      <3>6. conn' = [conn EXCEPT ![c] = conn'[c]] BY <1>0, <1>1, <3>4 DEF Queued
      <3>7. PICK y : y = conn'[c] OBVIOUS
      <3> QED BY <1>put, <2>0, <3>3, <3>4, <3>5, <3>6, <3>7
    <2> QED BY <1>one, <2>2, <2>3, <2>4, <2>5, <2>6 DEF ConnectionLost, ReadEnds
  <1>close. ASSUME Close PROVE Settles
    <2>1. live' = live /\ ice' = ice /\ owner' = owner BY <1>close DEF Close
    <2>2. \A c \in ConnIDs : conn'[c] \in {conn[c], Cancelled(conn[c])} BY <1>close DEF Close
    <2>3. \A c \in ConnIDs : LET y == Cancelled(conn[c])
                             IN  Calm(conn[c], y) /\ y.phase = conn[c].phase /\ y.last = conn[c].last /\ y.queue = << >>
      BY <1>0, <1>cancel DEF Queued
    <2> QED BY <1>alone, <1>same, <2>1, <2>2, <2>3
  <1>idle. ASSUME UNCHANGED hub PROVE Settles
    <2>1. live' = live /\ ice' = ice /\ owner' = owner /\ conn' = conn BY <1>idle DEF hub
    <2> QED BY <1>alone, <1>same, <2>1
  \* Everybody in P is told who is there.
  <1>told. ASSUME NEW cn, Queued(cn), NEW P, conn' = AllTold(cn, P), NEW d \in ConnIDs
           PROVE  /\ Calm(cn[d], conn'[d]) /\ conn'[d].phase = cn[d].phase
                  /\ d \notin P => conn'[d] = cn[d]
    <2>1. PICK item : item = ReadyItem(Cardinality(P) = 2) OBVIOUS
    <2>2. item \in Item /\ item.kind \notin Kinds BY <2>1, ItemTypes DEF ReadyItem, Kinds
    <2>3. conn'[d] = IF d \in P THEN Enqueued(cn, d, item)[d] ELSE cn[d] BY <1>told, <2>1 DEF AllTold
    <2>4. Calm(cn[d], Enqueued(cn, d, item)[d]) BY <1>told, <1>enqueued, <2>2
    <2>5. Enqueued(cn, d, item)[d].phase = cn[d].phase BY <1>told, <2>2, EnqueuedKeeps DEF SameLink
    <2> QED BY <1>same, <2>3, <2>4, <2>5
  \* An owner whose peers wait for a new negotiation.
  <1>clear. ASSUME NEW o \in live', NEW v, v = owner'[o], v.negotiation = Null,
                   LET g == v.scope.grant
                   IN  \A a \in Actors : v.peers[a] # Null =>
                         /\ a \in {grants'[g].sender, grants'[g].receiver}
                         /\ a # grants'[g].sender => Prepared(conn'[v.peers[a]], Null, {}, ice'[g])
            PROVE  Goes(o)
    <2>1. PICK g : g = v.scope.grant OBVIOUS
    <2>2. PICK r : r = grants'[g] OBVIOUS
    <2>3. PICK used : used = ice'[g] OBVIOUS
    <2>4. \A a \in Actors : v.peers[a] # Null =>
            /\ a \in {r.sender, r.receiver}
            /\ a # r.sender => Prepared(conn'[v.peers[a]], Null, {}, used)
      BY <1>clear, <2>1, <2>2, <2>3
    <2>5. Paired(r, v, used) BY <1>clear, <2>4 DEF Paired
    <2>6. \A a \in Actors : v.peers[a] # Null /\ a # r.sender => Prepared(conn'[v.peers[a]], Null, Peers(v), used)
      BY <1>over, <2>4
    <2>7. Converses(r, v, conn', used) BY <1>clear, <2>5, <2>6 DEF Converses
    <2> QED BY <1>clear, <2>1, <2>2, <2>3, <2>7
  \* A peer that stays, of an owner whose negotiation may end.
  <1>stays. ASSUME NEW o \in live, grants' = grants, ice' = ice,
                   NEW a \in Actors, owner[o].peers[a] # Null, Calm(conn[owner[o].peers[a]], conn'[owner[o].peers[a]])
            PROVE  LET g == owner[o].scope.grant
                   IN  /\ a \in {grants'[g].sender, grants'[g].receiver}
                       /\ a # grants'[g].sender => Prepared(conn'[owner[o].peers[a]], Null, {}, ice'[g])
    <2>1. PICK w : w = owner[o] OBVIOUS
    <2>2. PICK r : r = grants[w.scope.grant] OBVIOUS
    <2>3. PICK used : used = ice[w.scope.grant] OBVIOUS
    <2>4. Converses(r, w, conn, used) BY <1>0, <1>stays, <2>1, <2>2, <2>3 DEF Negotiated
    <2>5. PICK c : c = w.peers[a] OBVIOUS
    <2>6. a \in {r.sender, r.receiver} /\ (a # r.sender => Prepared(conn[c], w.negotiation, Peers(w), used))
      BY <1>stays, <2>1, <2>4, <2>5 DEF Converses, Paired
    <2>7. conn[c] \in ConnType /\ conn'[c] \in ConnType /\ Calm(conn[c], conn'[c]) BY <1>linked, <1>stays, <2>1, <2>5
    <2>8. a # r.sender => Prepared(conn'[c], Null, {}, used) BY <1>calm, <1>over, <2>6, <2>7
    <2> QED BY <1>stays, <2>1, <2>2, <2>3, <2>5, <2>6, <2>8
  <1>unregister. ASSUME NEW c \in ConnIDs, Unregister(c) PROVE Settles
    <2>0. PICK x \in ConnType : x = conn[c] BY <1>0 DEF Queued
    <2>1. x.phase = "leaving" /\ grants' = grants /\ ice' = ice BY <1>unregister, <2>0 DEF Unregister, vars
    <2>2. PICK y : y = [NoConn EXCEPT !.phase = "done"] OBVIOUS
    <2>3. y.queue = << >> /\ y.last = ErrorItem /\ y.phase = "done" /\ y \in ConnType
      <3>1. << >> \in Seq(Item) /\ ErrorItem \in Item BY ItemTypes
      <3> QED BY <2>2, <3>1 DEF NoConn, ConnType, Phases
    <2>4. PICK cn : cn = Done(conn, c) OBVIOUS
    <2>5. cn = [conn EXCEPT ![c] = y] /\ \A d \in ConnIDs : cn[d] = IF d = c THEN y ELSE conn[d]
      BY <1>0, <2>2, <2>4 DEF Done, Queued
    <2>6. CASE ~Registered(c)
      <3>1. conn' = [conn EXCEPT ![c] = y] /\ live' = live /\ owner' = owner BY <1>unregister, <2>4, <2>5, <2>6 DEF Unregister
      <3> QED BY <1>put, <2>1, <2>3, <2>6, <3>1
    <2>7. CASE Registered(c)
      <3>1. PICK o \in OwnerIDs : o = conn[c].owner /\ o \in live BY <1>0, <2>7 DEF Registered
      <3>2. PICK a \in Actors : a = conn[c].actor BY <1>0, <2>0, <2>1 DEF Held
      <3>3. PICK w \in OwnerType : w = owner[o] BY <1>0
      <3>4. PICK v : v = [w EXCEPT !.peers[a] = Null, !.negotiation = Null] OBVIOUS
      <3>5. v.scope = w.scope /\ v.negotiation = Null /\ \A b \in Actors : v.peers[b] = IF b = a THEN Null ELSE w.peers[b]
        BY <3>3, <3>4 DEF OwnerType
      <3>6. PICK ow : ow = [owner EXCEPT ![o].peers[a] = Null, ![o].negotiation = Null] OBVIOUS
      <3>7. \A p \in OwnerIDs : ow[p] = IF p = o THEN v ELSE owner[p] BY <1>0, <3>3, <3>4, <3>6
      <3>8. w.peers[a] = c BY <2>7, <3>1, <3>2, <3>3 DEF Registered
      <3>9. CASE PeersOf(o) \ {c} = {}
        <4>1. Retire({o}, FALSE, cn, ow, wg - 1) BY <1>unregister, <2>4, <2>7, <3>1, <3>2, <3>6, <3>9 DEF Unregister
        <4> DEFINE R(O, b, w1) == Retire(O, b, cn, ow, w1)
        <4>2. R({o}, FALSE, wg - 1) BY <4>1
        <4> HIDE DEF R
        <4>3. PICK b \in BOOLEAN : b = FALSE OBVIOUS
        <4>4. PICK w1 : R({o}, b, w1) BY <4>2, <4>3
        <4>5. Retire({o}, b, cn, ow, w1) BY <4>4 DEF R
        <4>6. \A p \in live \ {o} : ow[p].scope = owner[p].scope /\ ow[p].peers = owner[p].peers /\ ow[p].negotiation = owner[p].negotiation
          BY <1>0, <3>7
        <4>7. \A d \in ConnIDs : \/ cn[d] = conn[d]
                                 \/ /\ conn[d].owner \in {o} \/ conn[d].phase \notin {"open", "leaving"}
                                    /\ cn[d].phase \in {"open", "leaving"} \/ (cn[d].queue = << >> /\ cn[d].last = ErrorItem)
          BY <2>3, <2>5, <3>1
        <4> QED BY <1>retires, <2>1, <4>5, <4>6, <4>7
      <3>10. CASE PeersOf(o) \ {c} # {}
        <4>1. live' = live /\ owner' = ow /\ conn' = AllTold(cn, PeersOf(o) \ {c})
          BY <1>unregister, <2>4, <2>7, <3>1, <3>2, <3>6, <3>10 DEF Unregister
        <4>2. Queued(cn)
          <5>1. Len(<< >>) = 0 /\ 0 <= QueueSize BY <1>2
          <5>2. cn \in [ConnIDs -> ConnType] BY <1>0, <2>3, <2>5 DEF Queued
          <5> QED BY <1>0, <2>3, <2>5, <5>1, <5>2 DEF Queued
        <4>3. \A d \in ConnIDs : /\ Calm(cn[d], conn'[d]) /\ conn'[d].phase = cn[d].phase
                                 /\ d \notin PeersOf(o) \ {c} => conn'[d] = cn[d]
          BY <1>told, <4>1, <4>2
        <4>4. \A d \in ConnIDs : d # c => Calm(conn[d], conn'[d]) BY <2>5, <4>3
        <4>5. Goes(o)
          <5>1. v = owner'[o] BY <3>7, <4>1
          <5>2. ASSUME NEW b \in Actors, v.peers[b] # Null
                PROVE  /\ b \in {grants'[w.scope.grant].sender, grants'[w.scope.grant].receiver}
                       /\ b # grants'[w.scope.grant].sender => Prepared(conn'[v.peers[b]], Null, {}, ice'[w.scope.grant])
            <6>1. b # a /\ v.peers[b] = w.peers[b] BY <3>5, <5>2
            <6>2. PICK d : d = w.peers[b] OBVIOUS
            <6>3. d \in ConnIDs /\ conn[d].actor = b BY <1>linked, <3>1, <3>3, <5>2, <6>1, <6>2
            <6>4. Calm(conn[d], conn'[d]) BY <3>2, <4>4, <6>1, <6>3
            <6> QED BY <1>stays, <2>1, <3>1, <3>3, <5>2, <6>1, <6>2, <6>4
          <5>3. o \in live' /\ v.scope.grant = w.scope.grant /\ v.negotiation = Null BY <3>1, <3>5, <4>1
          <5>4. \A b \in Actors : v.peers[b] # Null =>
                  /\ b \in {grants'[v.scope.grant].sender, grants'[v.scope.grant].receiver}
                  /\ b # grants'[v.scope.grant].sender => Prepared(conn'[v.peers[b]], Null, {}, ice'[v.scope.grant])
            BY <5>2, <5>3
          <5> QED BY <1>clear, <5>1, <5>3, <5>4
        <4>6. ASSUME NEW p \in live', p # o PROVE Goes(p)
          <5>1. owner'[p] = owner[p] /\ p \in live BY <1>0, <3>7, <4>1, <4>6
          <5>2. \A b \in Actors : owner[p].peers[b] # Null => Calm(conn[owner[p].peers[b]], conn'[owner[p].peers[b]])
            BY <1>linked, <3>1, <4>4, <4>6, <5>1
          <5> QED BY <1>rests, <2>1, <4>6, <5>1, <5>2
        <4>7. Fresh(conn')
          <5>1. ASSUME NEW d \in ConnIDs
                PROVE  \/ conn'[d].phase \in {"open", "leaving"}
                       \/ conn'[d].queue = << >> /\ conn'[d].last = ErrorItem
                       \/ conn'[d].phase = conn[d].phase /\ conn'[d].last = conn[d].last /\ conn'[d].queue \in {conn[d].queue, << >>}
            <6>1. CASE d = c BY <2>3, <2>5, <4>3, <6>1
            <6>2. CASE d # c /\ d \in PeersOf(o)
              <7>1. conn[d].phase \in {"open", "leaving"} BY <1>linked, <3>1, <6>2 DEF PeersOf
              <7> QED BY <2>5, <4>3, <6>2, <7>1
            <6>3. CASE d # c /\ d \notin PeersOf(o) BY <2>5, <4>3, <6>3
            <6> QED BY <6>1, <6>2, <6>3
          <5> QED BY <1>fresh, <5>1
        <4> QED BY <4>5, <4>6, <4>7
      <3> QED BY <3>9, <3>10
    <2> QED BY <2>6, <2>7
  <1>register. ASSUME NEW c \in ConnIDs, Register(c) PROVE Settles
    <2>0. PICK x \in ConnType : x = conn[c] BY <1>0 DEF Queued
    <2>1. /\ x.phase = "upgrading" /\ grants' = grants /\ ice' = ice /\ x.actor \in Actors /\ x.scope \in Scopes
          /\ x.queue = << >> /\ x.last = ErrorItem /\ Authorized(x.scope, x.actor)
      BY <1>0, <1>register, <2>0 DEF Register, vars, Held, Fresh
    <2>2. PICK a \in Actors : a = x.actor BY <2>1
    <2>3. PICK g : g = x.scope.grant OBVIOUS
    <2>4. a \in {grants'[g].sender, grants'[g].receiver} BY <2>1, <2>2, <2>3 DEF Authorized, AuthorizeScope, IsParty
    <2>5. /\ \/ \E o \in AtScope(x.scope) : Join(c, o)
             \/ \E o \in OwnerIDs : owner[o].timer = "none" /\ Found(c, o)
      BY <1>register, <2>0 DEF Register
    \* The newcomer, registered with owner o.
    <2>6. ASSUME NEW o \in OwnerIDs, NEW y, y = [x EXCEPT !.phase = "open", !.owner = o], Calm(y, conn'[c])
          PROVE  Prepared(conn'[c], Null, {}, ice'[g])
      <3>1. y \in ConnType /\ y.queue = << >> /\ y.last = ErrorItem BY <2>1, <2>6 DEF ConnType, Phases
      <3>2. conn'[c] \in ConnType BY <1>1 DEF Queued
      <3>3. Len(y.queue) = 0 BY <3>1
      <3>4. Prepared(y, Null, {}, ice'[g]) BY <3>1, <3>3 DEF Prepared, ErrorItem, Trickled
      <3> QED BY <1>calm, <2>6, <3>1, <3>2, <3>4
    <2>7. ASSUME NEW o \in AtScope(x.scope), Join(c, o) PROVE Settles
      <3>1. o \in live /\ o \in OwnerIDs /\ owner[o].scope = x.scope BY <1>0, <2>7 DEF AtScope
      <3>2. PICK w \in OwnerType : w = owner[o] BY <1>0, <3>1
      <3>3. PICK old : old = w.peers[a] OBVIOUS
      <3>4. PICK y \in ConnType : y = [x EXCEPT !.phase = "open", !.owner = o]
        <4>1. [x EXCEPT !.phase = "open", !.owner = o] \in ConnType BY <3>1 DEF ConnType, Phases
        <4> QED BY <4>1
      <3>5. PICK self : self = [conn EXCEPT ![c].phase = "open", ![c].owner = o] OBVIOUS
      <3>6. \A d \in ConnIDs : self[d] = IF d = c THEN y ELSE conn[d]
        <4>1. self = [conn EXCEPT ![c] = y] BY <1>0, <2>0, <3>4, <3>5 DEF Queued
        <4> QED BY <1>0, <4>1 DEF Queued
      <3>7. self \in [ConnIDs -> ConnType]
        <4>1. self = [d \in ConnIDs |-> self[d]] BY <1>0, <3>5 DEF Queued
        <4> QED BY <1>0, <3>4, <3>6, <4>1 DEF Queued
      <3>8. PICK cn : cn = IF old = Null THEN self ELSE [self EXCEPT ![old] = Cancelled(@)] OBVIOUS
      <3>9. old # Null => old \in ConnIDs /\ old # c /\ conn[old].phase \in {"open", "leaving"} /\ conn[old].actor = a
                          /\ conn[old].owner = o
        BY <1>linked, <2>0, <2>1, <3>1, <3>2, <3>3
      <3>10. /\ cn[c] = y
             /\ \A d \in ConnIDs : d # c /\ d # old => cn[d] = conn[d]
             /\ old # Null => cn[old] = Cancelled(conn[old])
        BY <3>6, <3>7, <3>8, <3>9
      <3>11. Queued(cn)
        <4>1. old # Null => Cancelled(conn[old]) \in ConnType /\ Cancelled(conn[old]).queue = << >>
          BY <1>0, <3>9, EmptiedConn DEF Queued
        <4>2. cn = [d \in ConnIDs |-> cn[d]] BY <3>7, <3>8
        <4>3. Len(<< >>) = 0 /\ 0 <= QueueSize BY <1>2
        <4>4. y.queue = << >> BY <2>1, <3>4 DEF ConnType
        <4>5. ASSUME NEW d \in ConnIDs PROVE cn[d] \in ConnType /\ Len(cn[d].queue) <= QueueSize
          <5>1. CASE d = c BY <3>4, <3>10, <4>3, <4>4, <5>1
          <5>2. CASE d # c /\ d = old
            <6>1. old # Null BY <1>2, <5>2
            <6> QED BY <3>10, <4>1, <4>3, <5>2, <6>1
          <5>3. CASE d # c /\ d # old BY <1>0, <3>10, <5>3 DEF Queued
          <5> QED BY <5>1, <5>2, <5>3
        <4> QED BY <4>2, <4>5 DEF Queued
      <3>12. PICK P : P = (PeersOf(o) \ {old}) \cup {c} OBVIOUS
      <3>13. conn' = AllTold(cn, P) /\ live' = live /\ owner' = [owner EXCEPT ![o].peers[a] = c, ![o].negotiation = IF old = Null THEN @ ELSE Null]
        BY <2>0, <2>2, <2>7, <3>2, <3>3, <3>5, <3>8, <3>12 DEF Join
      <3>14. \A d \in ConnIDs : /\ Calm(cn[d], conn'[d]) /\ conn'[d].phase = cn[d].phase
                                /\ d \notin P => conn'[d] = cn[d]
        BY <1>told, <3>11, <3>13
      <3>15. PICK v : v = [w EXCEPT !.peers[a] = c, !.negotiation = IF old = Null THEN @ ELSE Null] OBVIOUS
      <3>16. \A p \in OwnerIDs : owner'[p] = IF p = o THEN v ELSE owner[p] BY <1>0, <3>1, <3>2, <3>13, <3>15
      <3>17. v.scope = w.scope /\ \A b \in Actors : v.peers[b] = IF b = a THEN c ELSE w.peers[b] BY <3>2, <3>15 DEF OwnerType
      <3>18. v.negotiation = Null
        <4>1. v.negotiation = IF old = Null THEN w.negotiation ELSE Null BY <3>2, <3>15 DEF OwnerType
        <4>2. Paired(grants[g], w, ice[g]) BY <1>0, <2>3, <3>1, <3>2 DEF Negotiated, Converses
        <4>3. w.negotiation # Null => w.peers[a] # Null BY <2>1, <2>4, <4>2 DEF Paired
        <4> QED BY <3>3, <4>1, <4>3
      <3>19. ASSUME NEW b \in Actors, v.peers[b] # Null
             PROVE  /\ b \in {grants'[g].sender, grants'[g].receiver}
                    /\ b # grants'[g].sender => Prepared(conn'[v.peers[b]], Null, {}, ice'[g])
        <4>1. CASE b = a
          <5>1. Calm(y, conn'[c]) BY <3>10, <3>14
          <5> QED BY <2>4, <2>6, <3>1, <3>4, <3>17, <4>1, <5>1
        <4>2. CASE b # a
          <5>1. PICK d : d = w.peers[b] OBVIOUS
          <5>2. d \in ConnIDs /\ conn[d].actor = b /\ conn[d].phase \in {"open", "leaving"} BY <1>linked, <3>1, <3>2, <3>17, <3>19, <4>2, <5>1
          <5>3. d # c /\ d # old BY <2>0, <2>1, <1>2, <3>9, <4>2, <5>2
          <5>4. Calm(conn[d], conn'[d]) BY <3>10, <3>14, <5>2, <5>3
          <5> QED BY <1>stays, <2>1, <2>3, <3>1, <3>2, <3>17, <3>19, <4>2, <5>1, <5>4
        <4> QED BY <4>1, <4>2
      <3>20. Goes(o)
        <4>1. o \in live' /\ v = owner'[o] /\ v.scope.grant = g BY <2>3, <3>1, <3>2, <3>13, <3>16, <3>17
        <4>2. \A b \in Actors : v.peers[b] # Null =>
                /\ b \in {grants'[v.scope.grant].sender, grants'[v.scope.grant].receiver}
                /\ b # grants'[v.scope.grant].sender => Prepared(conn'[v.peers[b]], Null, {}, ice'[v.scope.grant])
          BY <3>19, <4>1
        <4> QED BY <1>clear, <3>18, <4>1, <4>2
      <3>21. \A d \in P : d = c \/ (d \in ConnIDs /\ conn[d].owner = o /\ conn[d].phase \in {"open", "leaving"} /\ d # old)
        BY <1>linked, <3>1, <3>12 DEF PeersOf
      <3>22. ASSUME NEW p \in live', p # o PROVE Goes(p)
        <4>1. owner'[p] = owner[p] /\ p \in live BY <1>0, <3>13, <3>16, <3>22
        <4>2. ASSUME NEW b \in Actors, owner[p].peers[b] # Null
              PROVE  Calm(conn[owner[p].peers[b]], conn'[owner[p].peers[b]])
          <5>1. PICK d : d = owner[p].peers[b] OBVIOUS
          <5>2. d \in ConnIDs /\ conn[d].owner = p /\ conn[d].phase \in {"open", "leaving"} BY <1>linked, <4>1, <4>2, <5>1
          <5>3. d # c /\ d # old /\ d \notin P BY <1>2, <2>0, <2>1, <3>9, <3>21, <3>22, <5>2
          <5> QED BY <1>same, <3>10, <3>14, <5>1, <5>2, <5>3
        <4> QED BY <1>rests, <2>1, <3>22, <4>1, <4>2
      <3>23. Fresh(conn')
        <4>1. ASSUME NEW d \in ConnIDs
              PROVE  \/ conn'[d].phase \in {"open", "leaving"}
                     \/ conn'[d].queue = << >> /\ conn'[d].last = ErrorItem
                     \/ conn'[d].phase = conn[d].phase /\ conn'[d].last = conn[d].last /\ conn'[d].queue \in {conn[d].queue, << >>}
          <5>1. CASE d = c
            <6>1. y.phase = "open" BY <3>4 DEF ConnType
            <6> QED BY <3>10, <3>14, <5>1, <6>1
          <5>2. CASE d # c /\ d \in P BY <3>10, <3>14, <3>21, <5>2
          <5>3. CASE d = old /\ d # c /\ d \notin P
            <6>1. old # Null BY <1>2, <5>3
            <6>2. conn'[d] = Cancelled(conn[d]) BY <3>10, <3>14, <5>3, <6>1
            <6> QED BY <1>0, <1>cancel, <3>9, <5>3, <6>1, <6>2 DEF Queued
          <5>4. CASE d # old /\ d # c /\ d \notin P BY <3>10, <3>14, <5>4
          <5> QED BY <5>1, <5>2, <5>3, <5>4
        <4> QED BY <1>fresh, <4>1
      <3> QED BY <3>20, <3>22, <3>23
    <2>8. ASSUME NEW o \in OwnerIDs, owner[o].timer = "none", Found(c, o) PROVE Settles
      <3>1. o \notin live BY <1>0, <2>8 DEF Granted
      <3>2. PICK y \in ConnType : y = [x EXCEPT !.phase = "open", !.owner = o]
        <4>1. [x EXCEPT !.phase = "open", !.owner = o] \in ConnType BY DEF ConnType, Phases
        <4> QED BY <4>1
      <3>3. PICK cn : cn = [conn EXCEPT ![c].phase = "open", ![c].owner = o] OBVIOUS
      <3>4. \A d \in ConnIDs : cn[d] = IF d = c THEN y ELSE conn[d]
        <4>1. cn = [conn EXCEPT ![c] = y] BY <1>0, <2>0, <3>2, <3>3 DEF Queued
        <4> QED BY <1>0, <4>1 DEF Queued
      <3>5. Queued(cn)
        <4>1. cn = [d \in ConnIDs |-> cn[d]] BY <1>0, <3>3 DEF Queued
        <4>2. Len(<< >>) = 0 /\ 0 <= QueueSize BY <1>2
        <4>3. y.queue = << >> BY <2>1, <3>2 DEF ConnType
        <4>4. ASSUME NEW d \in ConnIDs PROVE cn[d] \in ConnType /\ Len(cn[d].queue) <= QueueSize
          BY <1>0, <3>2, <3>4, <4>2, <4>3 DEF Queued
        <4> QED BY <4>1, <4>4 DEF Queued
      <3>6. PICK v : v = [NoOwner EXCEPT !.scope = x.scope, !.peers[a] = c, !.timer = "armed",
                                         !.deadline = ScopeDeadline(x.scope, grants[x.scope.grant])] OBVIOUS
      <3>7. live' = live \cup {o} /\ owner' = [owner EXCEPT ![o] = v] /\ conn' = AllTold(cn, {c})
        BY <2>0, <2>2, <2>8, <3>3, <3>6 DEF Found
      <3>8. v.scope = x.scope /\ v.negotiation = Null /\ \A b \in Actors : v.peers[b] = IF b = a THEN c ELSE Null
        BY <3>6 DEF NoOwner
      <3>9. \A d \in ConnIDs : /\ Calm(cn[d], conn'[d]) /\ conn'[d].phase = cn[d].phase
                               /\ d # c => conn'[d] = cn[d]
        BY <1>told, <3>5, <3>7
      <3>10. \A p \in OwnerIDs : owner'[p] = IF p = o THEN v ELSE owner[p] BY <1>0, <3>7
      <3>11. Goes(o)
        <4>1. o \in live' /\ v = owner'[o] /\ v.scope.grant = g BY <2>3, <3>7, <3>8, <3>10
        <4>2. Prepared(conn'[c], Null, {}, ice'[g])
          <5>1. Calm(y, conn'[c]) BY <3>4, <3>9
          <5> QED BY <2>6, <3>2, <5>1
        <4>3. \A b \in Actors : v.peers[b] # Null =>
                /\ b \in {grants'[v.scope.grant].sender, grants'[v.scope.grant].receiver}
                /\ b # grants'[v.scope.grant].sender => Prepared(conn'[v.peers[b]], Null, {}, ice'[v.scope.grant])
          BY <2>4, <3>8, <4>1, <4>2
        <4> QED BY <1>clear, <3>8, <4>1, <4>3
      <3>12. ASSUME NEW p \in live', p # o PROVE Goes(p)
        <4>1. owner'[p] = owner[p] /\ p \in live BY <1>0, <3>7, <3>10, <3>12
        <4>2. ASSUME NEW b \in Actors, owner[p].peers[b] # Null
              PROVE  Calm(conn[owner[p].peers[b]], conn'[owner[p].peers[b]])
          <5>1. PICK d : d = owner[p].peers[b] OBVIOUS
          <5>2. d \in ConnIDs /\ d # c BY <1>linked, <2>0, <2>1, <4>1, <4>2, <5>1
          <5> QED BY <1>same, <3>4, <3>9, <5>1, <5>2
        <4> QED BY <1>rests, <2>1, <3>12, <4>1, <4>2
      <3>13. Fresh(conn')
        <4>1. conn'[c].phase = "open"
          <5>1. y.phase = "open" BY <3>2 DEF ConnType
          <5> QED BY <3>4, <3>9, <5>1
        <4>2. \A d \in ConnIDs : d # c => conn'[d] = conn[d] BY <3>4, <3>9
        <4> QED BY <1>fresh, <4>1, <4>2
      <3> QED BY <3>11, <3>12, <3>13
    <2> QED BY <2>5, <2>7, <2>8
  \* The writer takes the next item: it writes it if it is current, and drops it if not.
  <1>written. ASSUME NEW x \in ConnType, NEW y \in ConnType, NEW n, NEW P, NEW used, Prepared(x, n, P, used), Null \notin P,
                     x.queue # << >>, ~x.cancelled, y.queue = Tail(x.queue), x.excused \subseteq y.excused, NEW item, item = Head(x.queue),
                     NEW current \in BOOLEAN, current <=> (item.source # Null => item.source \in P /\ n # Null /\ item.session = n.session),
                     current => /\ y.last = IF item.source # Null THEN item ELSE x.last
                                /\ y.heard = IF item.kind = "connect_request" THEN x.heard \cup {item.session} ELSE x.heard,
                     ~current => y.last = x.last /\ y.heard = x.heard
              PROVE  Prepared(y, n, P, used)
    <2> USE <1>written
    <2>0. x.queue \in Seq(Item) /\ Len(x.queue) \in Nat \ {0} /\ y.queue \in Seq(Item) BY DEF ConnType
    <2>1. /\ Len(y.queue) = Len(x.queue) - 1 /\ item = x.queue[1]
          /\ \A j \in 1 .. Len(y.queue) : j + 1 \in 1 .. Len(x.queue) /\ y.queue[j] = x.queue[j + 1]
      BY <2>0
    <2>2. x.heard \subseteq y.heard /\ Known(x) \subseteq Known(y) BY DEF Known
    <2>3. n # Null => n.session \in Known(x) \/ Ahead(x, n.session, P) BY DEF Prepared
    <2>4. y.last.kind \in Trickled => y.last.session \in Known(y)
      <3>1. CASE y.last = x.last BY <2>2, <3>1 DEF Prepared
      <3>2. CASE current /\ item.source # Null /\ item.kind \in Trickled
        <4>1. n # Null /\ item.session = n.session /\ y.last = item BY <3>2
        <4>2. ~Ahead(x, n.session, P)
          <5>1. SUFFICES ASSUME NEW j \in 1 .. Len(x.queue), x.queue[j].kind = "connect_request",
                                \A l \in 1 .. j - 1 : ~(x.queue[l].kind \in Trickled /\ x.queue[l].session = n.session)
                         PROVE  FALSE
            BY DEF Ahead
          <5>2. j = 1 \/ 1 \in 1 .. j - 1 BY <2>0
          <5> QED BY <2>1, <3>2, <4>1, <5>1, <5>2 DEF Trickled
        <4> QED BY <2>2, <2>3, <4>1, <4>2
      <3> QED BY <3>1, <3>2
    <2>5. \A j \in 1 .. Len(y.queue) :
            y.queue[j].kind \in Kinds => y.queue[j].session \in IceSessions /\ used[y.queue[j].session] # 0
      BY <2>1 DEF Prepared
    <2>6. ASSUME n # Null PROVE n.session \in Known(y) \/ Ahead(y, n.session, P)
      <3>1. CASE n.session \in Known(x) BY <2>2, <3>1
      <3>2. CASE Ahead(x, n.session, P)
        <4>1. PICK j \in 1 .. Len(x.queue) :
                /\ x.queue[j].kind = "connect_request" /\ x.queue[j].session = n.session /\ x.queue[j].source \in P
                /\ \A l \in 1 .. j - 1 : ~(x.queue[l].kind \in Trickled /\ x.queue[l].session = n.session)
          BY <3>2 DEF Ahead
        <4>2. CASE j = 1
          <5>1. item.kind = "connect_request" /\ item.session = n.session /\ item.source \in P BY <2>1, <4>1, <4>2
          <5>2. current BY <2>6, <5>1
          <5> QED BY <5>1, <5>2 DEF Known
        <4>3. CASE j # 1
          <5>1. PICK k \in 1 .. Len(y.queue) : k = j - 1
            <6>1. j - 1 \in 1 .. Len(y.queue) BY <2>0, <2>1, <4>1, <4>3
            <6> QED BY <6>1
          <5>2. y.queue[k] = x.queue[j]
            <6>1. k + 1 = j BY <2>0, <5>1
            <6> QED BY <2>1, <6>1
          <5>3. ASSUME NEW l \in 1 .. k - 1 PROVE ~(y.queue[l].kind \in Trickled /\ y.queue[l].session = n.session)
            <6>1. l \in 1 .. Len(y.queue) /\ l + 1 \in 1 .. j - 1 BY <2>0, <2>1, <4>1, <5>1, <5>3
            <6> QED BY <2>1, <4>1, <6>1
          <5> QED BY <4>1, <5>1, <5>2, <5>3 DEF Ahead
        <4> QED BY <4>2, <4>3
      <3> QED BY <2>3, <2>6, <3>1, <3>2
    <2> QED BY <2>4, <2>5, <2>6 DEF Prepared
  <1>writeNext. ASSUME NEW c \in ConnIDs, WriteNext(c) PROVE Settles
    <2>0. PICK x \in ConnType : x = conn[c] BY <1>0 DEF Queued
    <2>1. /\ x.phase = "open" /\ grants' = grants /\ ice' = ice /\ ~x.cancelled /\ x.queue # << >>
      BY <1>writeNext, <2>0 DEF WriteNext, vars
    <2>2. PICK item : item = Head(x.queue) OBVIOUS
    <2>3. item \in Item /\ Tail(x.queue) \in Seq(Item) BY <2>1, <2>2 DEF ConnType
    <2>4. PICK z \in ConnType : z = [x EXCEPT !.queue = Tail(@)]
      <3>1. [x EXCEPT !.queue = Tail(@)] \in ConnType BY <2>3 DEF ConnType
      <3> QED BY <3>1
    <2>5. PICK rest : rest = [conn EXCEPT ![c].queue = Tail(@)] OBVIOUS
    <2>6. rest = [conn EXCEPT ![c] = z] /\ \A d \in ConnIDs : rest[d] = IF d = c THEN z ELSE conn[d]
      BY <1>0, <2>0, <2>4, <2>5 DEF Queued
    <2>7. z.phase = "open" /\ z.queue = Tail(x.queue) /\ z.last = x.last /\ z.heard = x.heard /\ z.excused = x.excused
          /\ z.cancelled = x.cancelled
      BY <2>1, <2>4 DEF ConnType
    <2>8. CASE ~Registered(c)
      <3>1. conn' = [conn EXCEPT ![c] = z] /\ live' = live /\ owner' = owner
        BY <1>writeNext, <2>0, <2>5, <2>6, <2>8 DEF WriteNext
      <3> QED BY <1>put, <2>1, <2>7, <2>8, <3>1
    <2>9. CASE Registered(c) /\ ~Authorized(conn[c].scope, conn[c].actor)
      <3>1. Retire({conn[c].owner}, TRUE, rest, owner, wg) BY <1>writeNext, <2>0, <2>5, <2>9 DEF WriteNext
      <3>2. \A d \in ConnIDs : \/ rest[d] = conn[d]
                               \/ /\ conn[d].owner \in {conn[c].owner} \/ conn[d].phase \notin {"open", "leaving"}
                                  /\ rest[d].phase \in {"open", "leaving"} \/ (rest[d].queue = << >> /\ rest[d].last = ErrorItem)
        BY <2>6, <2>7
      <3> DEFINE R(O, b) == Retire(O, b, rest, owner, wg)
      <3>3. R({conn[c].owner}, TRUE) BY <3>1
      <3> HIDE DEF R
      <3>4. PICK b \in BOOLEAN : b = TRUE OBVIOUS
      <3>5. PICK O : O = {conn[c].owner} OBVIOUS
      <3>6. Retire(O, b, rest, owner, wg) BY <3>3, <3>4, <3>5 DEF R
      <3> QED BY <1>retires, <2>1, <3>2, <3>5, <3>6
    <2>10. CASE Registered(c) /\ Authorized(conn[c].scope, conn[c].actor)
      <3>1. /\ conn' = IF StillCurrent(c, item) THEN Written(c, item) ELSE rest
            /\ live' = live /\ owner' = owner
        BY <1>writeNext, <2>0, <2>2, <2>5, <2>10 DEF WriteNext
      <3>2. PICK o \in OwnerIDs : o = conn[c].owner /\ o \in live BY <1>0, <2>10 DEF Registered
      <3>3. PICK w \in OwnerType : w = owner[o] BY <1>0
      <3>4. PICK a \in Actors : a = conn[c].actor BY <1>0, <2>0, <2>1 DEF Held
      <3>5. w.peers[a] = c BY <2>10, <3>2, <3>3, <3>4 DEF Registered
      <3>6. PICK n : n = w.negotiation OBVIOUS
      <3>6a. Null \notin Peers(w) OBVIOUS
      <3>6b. PICK P : P = Peers(w) OBVIOUS
      <3>7. P = Peers(w) /\ Null \notin P BY <3>6a, <3>6b
      <3>8. PICK current \in BOOLEAN : current <=> StillCurrent(c, item) OBVIOUS
      <3>9. current <=> (item.source # Null => item.source \in P /\ n # Null /\ item.session = n.session)
        BY <3>2, <3>3, <3>6, <3>7, <3>8 DEF StillCurrent
      <3>10. PICK u : u = [x EXCEPT !.queue = Tail(@), !.last = IF item.source # Null THEN item ELSE @,
                                    !.heard = IF item.kind = "connect_request" THEN @ \cup {item.session} ELSE @]
        OBVIOUS
      <3>11. /\ u.phase = "open" /\ u.queue = Tail(x.queue) /\ u.excused = x.excused /\ u.cancelled = x.cancelled
             /\ u.last = IF item.source # Null THEN item ELSE x.last
             /\ u.heard = IF item.kind = "connect_request" THEN x.heard \cup {item.session} ELSE x.heard
        BY <2>1, <3>10 DEF ConnType
      <3>12. PICK y : y = IF current THEN u ELSE z OBVIOUS
      <3>13. conn' = [conn EXCEPT ![c] = y]
        <4>1. Written(c, item) = [conn EXCEPT ![c] = u] BY <1>0, <2>0, <3>10 DEF Written, Queued
        <4> QED BY <2>6, <3>1, <3>8, <3>12, <4>1
      <3>14. conn'[c] = y /\ \A d \in ConnIDs : d # c => conn'[d] = conn[d] BY <1>0, <3>13 DEF Queued
      <3>15. y \in ConnType BY <1>1, <3>14 DEF Queued
      <3>16. \A m, Q, used : m = n /\ Q = P /\ Prepared(x, m, Q, used) => Prepared(y, m, Q, used)
        <4>1. ASSUME NEW used, Prepared(x, n, P, used) PROVE Prepared(y, n, P, used)
          <5>1. y.queue = Tail(x.queue) /\ x.excused \subseteq y.excused BY <2>7, <3>11, <3>12
          <5>2. current => /\ y.last = IF item.source # Null THEN item ELSE x.last
                           /\ y.heard = IF item.kind = "connect_request" THEN x.heard \cup {item.session} ELSE x.heard
            BY <3>11, <3>12
          <5>3. ~current => y.last = x.last /\ y.heard = x.heard BY <2>7, <3>12
          <5> QED BY <1>written, <2>1, <2>2, <3>7, <3>9, <3>15, <4>1, <5>1, <5>2, <5>3
        <4> QED BY <4>1
      <3>17. Goes(o)
        <4>1. PICK r : r = grants[w.scope.grant] OBVIOUS
        <4>2. PICK used : used = ice[w.scope.grant] OBVIOUS
        <4>3. Converses(r, w, conn, used) BY <1>0, <3>2, <3>3, <4>1, <4>2 DEF Negotiated
        <4>4. ASSUME NEW b \in Actors, w.peers[b] # Null, b # r.sender
              PROVE  Prepared(conn'[w.peers[b]], w.negotiation, Peers(w), used)
          <5>1. PICK d : d = w.peers[b] OBVIOUS
          <5>2. d \in ConnIDs /\ Prepared(conn[d], w.negotiation, Peers(w), used)
            BY <1>linked, <3>2, <3>3, <4>3, <4>4, <5>1 DEF Converses
          <5>3. CASE d = c BY <2>0, <3>6, <3>7, <3>14, <3>16, <5>1, <5>2, <5>3
          <5>4. CASE d # c BY <3>14, <5>1, <5>2, <5>4
          <5> QED BY <5>3, <5>4
        <4>5. Converses(r, w, conn', used) BY <4>3, <4>4 DEF Converses
        <4> QED BY <2>1, <3>1, <3>3, <4>1, <4>2, <4>5
      <3>18. ASSUME NEW p \in live', p # o PROVE Goes(p)
        <4>1. owner'[p] = owner[p] /\ p \in live BY <3>1, <3>18
        <4>2. ASSUME NEW b \in Actors, owner[p].peers[b] # Null
              PROVE  Calm(conn[owner[p].peers[b]], conn'[owner[p].peers[b]])
          <5>1. PICK d : d = owner[p].peers[b] OBVIOUS
          <5>2. d \in ConnIDs /\ d # c BY <1>linked, <3>2, <3>18, <4>1, <4>2, <5>1
          <5> QED BY <1>same, <3>14, <5>1, <5>2
        <4> QED BY <1>rests, <2>1, <3>18, <4>1, <4>2
      <3>19. Fresh(conn')
        <4>1. conn'[c].phase = "open" BY <2>7, <3>11, <3>12, <3>14
        <4> QED BY <1>fresh, <3>14, <4>1
      <3> QED BY <3>17, <3>18, <3>19
    <2> QED BY <2>8, <2>9, <2>10
  \* A frame that finds room in a queue.
  <1>frame. ASSUME NEW x \in ConnType, NEW y, NEW n, NEW P, NEW used, Prepared(x, n, P, used),
                   NEW item \in Item, item.session \in IceSessions, used[item.session] # 0,
                   y.queue = Append(x.queue, item), y.last = x.last, y.cancelled = x.cancelled,
                   x.heard \subseteq y.heard, x.excused \subseteq y.excused
            PROVE  Prepared(y, n, P, used)
    <2> USE <1>frame
    <2>0. x.queue \in Seq(Item) /\ Len(x.queue) \in Nat BY DEF ConnType
    <2>1. /\ Len(y.queue) = Len(x.queue) + 1 /\ \A j \in 1 .. Len(x.queue) : y.queue[j] = x.queue[j]
          /\ y.queue[Len(x.queue) + 1] = item
      BY <2>0
    <2>2. ASSUME NEW i, Ahead(x, i, P) PROVE Ahead(y, i, P)
      <3>1. PICK j \in 1 .. Len(x.queue) :
              /\ x.queue[j].kind = "connect_request" /\ x.queue[j].session = i /\ x.queue[j].source \in P
              /\ \A l \in 1 .. j - 1 : ~(x.queue[l].kind \in Trickled /\ x.queue[l].session = i)
        BY <2>2 DEF Ahead
      <3>2. j \in 1 .. Len(y.queue) /\ \A l \in 1 .. j - 1 : l \in 1 .. Len(x.queue) BY <2>0, <2>1, <3>1
      <3> QED BY <2>1, <3>1, <3>2 DEF Ahead
    <2>3. \A j \in 1 .. Len(y.queue) :
            y.queue[j].kind \in Kinds => y.queue[j].session \in IceSessions /\ used[y.queue[j].session] # 0
      <3> TAKE j \in 1 .. Len(y.queue)
      <3>1. j \in 1 .. Len(x.queue) \/ j = Len(x.queue) + 1 BY <2>0, <2>1
      <3> QED BY <2>1, <3>1 DEF Prepared
    <2>4. Known(x) \subseteq Known(y) BY DEF Known
    <2> QED BY <2>2, <2>3, <2>4 DEF Prepared
  \* A request that is the first frame of its session in the queue.
  <1>first. ASSUME NEW x \in ConnType, NEW y, NEW used, NEW P, NEW n, Prepared(x, n, P, used), NEW item,
                   item.kind = "connect_request", item.source \in P, used[item.session] = 0,
                   y.queue = Append(x.queue, item)
            PROVE  Ahead(y, item.session, P)
    <2> USE <1>first
    <2>0. x.queue \in Seq(Item) /\ Len(x.queue) \in Nat BY DEF ConnType
    <2>1. /\ Len(y.queue) = Len(x.queue) + 1 /\ \A j \in 1 .. Len(x.queue) : y.queue[j] = x.queue[j]
          /\ y.queue[Len(x.queue) + 1] = item
      BY <2>0
    <2>2. PICK j \in 1 .. Len(y.queue) : j = Len(x.queue) + 1 BY <2>0, <2>1
    <2>3. ASSUME NEW l \in 1 .. j - 1 PROVE ~(y.queue[l].kind \in Trickled /\ y.queue[l].session = item.session)
      <3>1. l \in 1 .. Len(x.queue) BY <2>0, <2>2
      <3> QED BY <2>1, <3>1 DEF Prepared, Trickled, Kinds
    <2> QED BY <2>1, <2>2, <2>3 DEF Ahead
  <1>begun. ASSUME NEW y, NEW P, NEW Q, NEW n, NEW used, Prepared(y, Null, Q, used),
                   n # Null => y.cancelled \/ n.session \in Known(y) \/ Ahead(y, n.session, P)
            PROVE  Prepared(y, n, P, used)
    BY <1>begun DEF Prepared
  \* Excusing a session, before or after something else happens to the queue.
  <1>excuse. ASSUME NEW x, NEW z, NEW y, z.queue = x.queue, z.last = x.last, z.heard = x.heard,
                    x.excused \subseteq z.excused, z.cancelled = x.cancelled
             PROVE  (Calm(z, y) => Calm(x, y)) /\ (Calm(y, x) => Calm(y, z))
    <2>1. Calm(z, y) => Calm(x, y) BY <1>excuse DEF Calm
    <2>2. Calm(y, x) => Calm(y, z) BY <1>excuse DEF Calm
    <2> QED BY <2>1, <2>2
  \* A connection is answered with an item that is no frame.
  <1>answer. ASSUME NEW c \in ConnIDs, NEW item \in Item, item.kind \notin Kinds, conn' = Enqueued(conn, c, item),
                    live' = live, conn[c].phase = "open"
             PROVE  /\ \A d \in ConnIDs : Calm(conn[d], conn'[d])
                    /\ Fresh(conn')
    <2>1. Calm(conn[c], conn'[c]) /\ \A d \in ConnIDs : d # c => conn'[d] = conn[d] BY <1>0, <1>enqueued, <1>answer
    <2>2. conn'[c].phase = "open" BY <1>0, <1>answer, EnqueuedKeeps DEF SameLink
    <2>3. Fresh(conn') BY <1>fresh, <2>1, <2>2
    <2> QED BY <1>same, <2>1, <2>3
  \* What a queue is given does not change what its connection has been sent.
  <1>keeps. ASSUME NEW cn, Queued(cn), NEW c \in ConnIDs, NEW item \in Item
            PROVE  LET y == Enqueued(cn, c, item)[c]
                   IN  y.excused = cn[c].excused /\ y.heard = cn[c].heard /\ y.last = cn[c].last
    <2> USE <1>keeps
    <2>1. cn \in [ConnIDs -> ConnType] /\ cn[c] \in ConnType BY DEF Queued
    <2>2. CASE cn[c].cancelled BY <2>2 DEF Enqueued
    <2>3. CASE ~cn[c].cancelled /\ Len(cn[c].queue) < QueueSize BY <2>1, <2>3 DEF Enqueued, ConnType
    <2>4. CASE ~cn[c].cancelled /\ ~(Len(cn[c].queue) < QueueSize)
      <3>1. Enqueued(cn, c, item)[c] = Cancelled(cn[c]) BY <2>1, <2>4 DEF Enqueued
      <3> QED BY <2>1, <3>1 DEF Cancelled, Emptied, ConnType
    <2> QED BY <2>2, <2>3, <2>4
  <1>signal. ASSUME NEW c \in ConnIDs, NEW k \in Kinds, NEW i \in IceSessions, Signal(c, k, i) PROVE Settles
    <2>0. PICK x \in ConnType : x = conn[c] BY <1>0 DEF Queued
    <2>1. /\ x.phase = "open" /\ Registered(c) /\ Authorized(conn[c].scope, conn[c].actor) /\ grants' = grants /\ live' = live
          /\ frames' = frames + 1
      BY <1>signal, <2>0 DEF Signal, Accepting, Receiving, vars
    <2>2. PICK o \in OwnerIDs : o = conn[c].owner /\ o \in live BY <1>0, <2>1 DEF Registered
    <2>3. PICK w \in OwnerType : w = owner[o] BY <1>0
    <2>4. PICK a \in Actors : a = conn[c].actor BY <1>0, <2>0, <2>1 DEF Held
    <2>5. w.peers[a] = c /\ c # Null BY <1>2, <2>1, <2>2, <2>3, <2>4 DEF Registered
    <2>6. PICK g \in GrantIDs : g = w.scope.grant /\ g = conn[c].scope.grant
      <3>1. w.scope \in Scopes BY <1>0, <2>2, <2>3 DEF Granted
      <3>2. conn[c].scope = w.scope BY <1>linked, <2>2, <2>3, <2>5
      <3> QED BY <3>1, <3>2 DEF Scopes
    <2>7. PICK r \in Record : r = grants[g] BY <1>0 DEF TypeOK
    <2>8. PICK used \in [IceSessions -> Nat] : used = ice[g] BY <1>0
    <2>9. Converses(r, w, conn, used) BY <1>0, <2>2, <2>3, <2>6, <2>7, <2>8 DEF Negotiated
    <2>10. r.sender \in Actors /\ r.receiver \in Actors
      <3>1. Validate(r) /\ ScopeMatches(w.scope, r)
        <4>1. conn[c].scope = w.scope BY <1>linked, <2>2, <2>3, <2>5
        <4> QED BY <2>1, <2>6, <2>7, <4>1 DEF Authorized, AuthorizeScope
      <3>2. w.scope.phase \in {"preview", "transfer"} BY <1>0, <2>2, <2>3 DEF Granted, Scopes
      <3> QED BY <2>7, <3>1, <3>2 DEF Validate, ScopeMatches, Record, Settled
    <2>11. PICK b \in Actors : b = OtherParty(c) BY <2>6, <2>7, <2>10 DEF OtherParty, SenderOf
    <2>12. PICK to : to = w.peers[b] OBVIOUS
    <2>13. PICK item : item = SignalItem(k, i, c) OBVIOUS
    <2>14. item \in Item /\ item.kind = k /\ item.session = i /\ item.source = c
      BY <2>13, ItemTypes DEF SignalItem
    <2>15. ErrorItem \in Item /\ ErrorItem.kind \notin Kinds BY ItemTypes DEF ErrorItem, Kinds
    <2>16. CASE to = Null
      <3>1. conn' = Enqueued(conn, c, ErrorItem) /\ owner' = owner /\ ice' = ice
        BY <1>signal, <2>2, <2>3, <2>11, <2>12, <2>16 DEF Signal
      <3>2. (\A d \in ConnIDs : Calm(conn[d], conn'[d])) /\ Fresh(conn') BY <1>answer, <2>0, <2>1, <2>15, <3>1
      <3>3. \A p \in live' : Goes(p) BY <1>ordinary, <2>1, <3>1, <3>2
      <3> QED BY <3>2, <3>3
    <2>17. CASE to # Null
      <3> DEFINE ok == IF k = "connect_request" THEN MayRequest(c, i) ELSE MayAdvance(c, k, i)
                 begins == ok /\ k = "connect_request"
      <3>1. /\ owner' = [owner EXCEPT ![o].negotiation = Negotiation(c, k, i)]
            /\ conn' \in IF ok THEN Forwarded(c, to, item) ELSE {Enqueued(conn, c, ErrorItem)}
            /\ ice' = IF ok /\ k = "connect_request" THEN [ice EXCEPT ![g][i] = now + NegotiationTTL] ELSE ice
        BY <1>signal, <2>2, <2>3, <2>6, <2>11, <2>12, <2>13, <2>17 DEF Signal
      <3>2. to \in ConnIDs /\ conn[to] \in ConnType /\ conn'[to] \in ConnType /\ conn[to].phase \in {"open", "leaving"}
        BY <1>linked, <2>2, <2>3, <2>12, <2>17
      <3>3. PICK m : m = Negotiation(c, k, i) OBVIOUS
      <3>4. PICK n : n = w.negotiation OBVIOUS
      <3>5. PICK cur : cur = Current(c) OBVIOUS
      <3>6. cur # Null => cur = n BY <2>2, <2>3, <3>4, <3>5 DEF Current
      <3>7. PICK v : v = [w EXCEPT !.negotiation = m] OBVIOUS
      <3>8. v.scope = w.scope /\ v.peers = w.peers /\ v.negotiation = m BY <3>7 DEF OwnerType
      <3>9. \A p \in OwnerIDs : owner'[p] = IF p = o THEN v ELSE owner[p]
        <4>1. owner' = [owner EXCEPT ![o] = v] BY <1>0, <2>3, <3>1, <3>3, <3>7
        <4> QED BY <1>0, <4>1
      <3>10. \A h \in GrantIDs, j \in IceSessions : ice[h][j] # 0 => ice'[h][j] # 0
        <4>1. PICK t \in Nat : t = now + NegotiationTTL /\ t # 0
          <5>1. now \in Nat BY <1>0 DEF TypeOK
          <5>2. now + NegotiationTTL \in Nat /\ now + NegotiationTTL # 0 BY <1>2, <5>1
          <5> QED BY <5>2
        <4>2. \A h \in GrantIDs, j \in IceSessions : ice'[h][j] \in {ice[h][j], t} BY <1>0, <3>1, <4>1
        <4> QED BY <4>1, <4>2
      \* What the negotiation was, unless this frame begins one.
      <3>11. ASSUME ~begins, m # Null PROVE n # Null /\ m.session = n.session
        <4>1. \/ m = cur
              \/ k # "connect_request" /\ cur # Null /\ m = Advanced(cur, conn[c].actor, k)
          BY <3>3, <3>5, <3>11 DEF Negotiation, MayAdvance
        <4>2. CASE m = cur BY <3>6, <3>11, <4>2
        <4>3. CASE k # "connect_request" /\ cur # Null /\ m = Advanced(cur, conn[c].actor, k)
          <5>1. n \in NegotiationType /\ cur = n BY <3>4, <3>6, <4>3 DEF OwnerType
          <5>2. k \in {"connect_response", "candidate", "end_of_candidates"} BY <4>3 DEF Kinds
          <5>3. m.session = n.session BY <4>3, <5>1, <5>2 DEF Advanced, NegotiationType
          <5> QED BY <3>6, <4>3, <5>3
        <4> QED BY <4>1, <4>2, <4>3
      <3>12. CASE ~ok
        <4>1. conn' = Enqueued(conn, c, ErrorItem) BY <3>1, <3>12
        <4>2. (\A d \in ConnIDs : Calm(conn[d], conn'[d])) /\ Fresh(conn') BY <1>answer, <2>0, <2>1, <2>15, <4>1
        <4>3. \A p \in live' :
                /\ owner'[p].scope = owner[p].scope /\ owner'[p].peers = owner[p].peers
                /\ owner'[p].negotiation # Null => /\ owner[p].negotiation # Null
                                                   /\ owner'[p].negotiation.session = owner[p].negotiation.session
          BY <1>0, <2>1, <2>3, <3>4, <3>8, <3>9, <3>11, <3>12
        <4>4. \A p \in live, d \in Actors : owner[p].peers[d] # Null => owner[p].peers[d] \in ConnIDs BY <1>linked
        <4>5. \A p \in live' : Goes(p) BY <1>grows, <2>1, <3>10, <4>2, <4>3, <4>4
        <4> QED BY <4>2, <4>5
      <3>13. CASE ok
        \* What the receiving connection has, and every other.
        <4> DEFINE request == IF item.kind = "connect_request" THEN {item.session} ELSE {}
                   again == {j \in request : used[j] # 0}
                   start == [conn EXCEPT ![to].excused = @ \cup again]
                   Sent(y) == /\ y.queue = Append(conn[to].queue, item) /\ y.last = conn[to].last
                              /\ y.heard = conn[to].heard /\ conn[to].excused \cup again \subseteq y.excused
                              /\ y.cancelled = conn[to].cancelled
                   Spared(y) == Calm(conn[to], y) /\ again \subseteq y.excused /\ (y.cancelled \/ request \subseteq y.excused)
        <4>1. /\ \A d \in ConnIDs : d # to => Calm(conn[d], conn'[d])
              /\ \A d \in ConnIDs : d # to /\ d # c => conn'[d] = conn[d]
              /\ Spared(conn'[to]) \/ Sent(conn'[to])
          <5>1. request \subseteq IceSessions /\ again \subseteq IceSessions BY <2>14
          <5>2. \/ conn[to].cancelled /\ conn' = start
                \/ conn' = [Enqueued(start, c, ErrorItem) EXCEPT ![to].excused = @ \cup request]
                \/ ~conn[to].cancelled /\ Len(conn[to].queue) # QueueSize /\ conn' = Enqueued(start, to, item)
            BY <2>6, <2>8, <3>1, <3>13 DEF Forwarded
          <5>3. PICK R \in SUBSET IceSessions, A \in SUBSET IceSessions : R = request /\ A = again BY <5>1
          <5>4. PICK q \in ConnType : q = conn[to] BY <3>2
          <5>5. PICK z \in ConnType : z = [q EXCEPT !.excused = @ \cup A]
            <6>1. q.excused \cup A \in SUBSET IceSessions BY <5>3 DEF ConnType
            <6> QED BY <6>1 DEF ConnType
          <5>6. /\ z.queue = q.queue /\ z.last = q.last /\ z.heard = q.heard /\ z.excused = q.excused \cup A
                /\ z.cancelled = q.cancelled
            BY <5>5 DEF ConnType
          <5>7. PICK cn : cn = start OBVIOUS
          <5>8. cn = [conn EXCEPT ![to] = z] /\ \A d \in ConnIDs : cn[d] = IF d = to THEN z ELSE conn[d]
            BY <1>0, <3>2, <5>3, <5>4, <5>5, <5>7 DEF Queued
          <5>9. Queued(cn)
            <6>1. Len(z.queue) <= QueueSize BY <1>0, <3>2, <5>4, <5>6 DEF Queued
            <6> QED BY <1>0, <5>8, <6>1 DEF Queued
          <5>10. Calm(q, z) BY <1>same, <1>excuse, <5>6
          <5> HIDE DEF start
          <5>11. CASE conn[to].cancelled /\ conn' = cn
            <6>1. Spared(conn'[to]) BY <3>2, <5>3, <5>4, <5>6, <5>8, <5>10, <5>11
            <6> QED BY <1>same, <5>8, <5>11, <6>1
          <5>12. CASE conn' = [Enqueued(cn, c, ErrorItem) EXCEPT ![to].excused = @ \cup request]
            <6>1. PICK dn : dn = Enqueued(cn, c, ErrorItem) OBVIOUS
            <6>2. Queued(dn) /\ Calm(cn[c], dn[c]) /\ \A d \in ConnIDs : d # c => dn[d] = cn[d]
              BY <1>enqueued, <2>15, <5>9, <6>1
            <6>3. dn[c].excused = cn[c].excused BY <1>keeps, <2>15, <5>9, <6>1
            <6>4. PICK u \in ConnType : u = dn[to] BY <3>2, <6>2 DEF Queued
            <6>5. PICK y : y = [u EXCEPT !.excused = @ \cup R] OBVIOUS
            <6>6. /\ y.queue = u.queue /\ y.last = u.last /\ y.heard = u.heard /\ y.excused = u.excused \cup R
                  /\ y.cancelled = u.cancelled
              BY <6>5 DEF ConnType
            <6>7. \A d \in ConnIDs : conn'[d] = IF d = to THEN y ELSE dn[d]
              <7>1. conn' = [dn EXCEPT ![to].excused = @ \cup R] BY <5>3, <5>12, <6>1
              <7>2. dn \in [ConnIDs -> ConnType] BY <6>2 DEF Queued
              <7> QED BY <3>2, <6>4, <6>5, <7>1, <7>2
            <6>8. Calm(z, u) /\ u.excused = z.excused BY <1>same, <3>2, <5>8, <6>2, <6>3, <6>4
            <6>9. Calm(q, y)
              <7>1. Calm(q, u) BY <1>excuse, <5>6, <6>8
              <7> QED BY <1>excuse, <6>6, <7>1
            <6>10. Spared(conn'[to]) BY <3>2, <5>3, <5>4, <5>6, <6>6, <6>7, <6>8, <6>9
            <6>11. \A d \in ConnIDs : d # to => Calm(conn[d], conn'[d]) /\ (d # c => conn'[d] = conn[d])
              BY <1>same, <5>8, <6>2, <6>7
            <6> QED BY <6>10, <6>11
          <5>13. CASE ~conn[to].cancelled /\ Len(conn[to].queue) # QueueSize /\ conn' = Enqueued(cn, to, item)
            <6>1. Len(z.queue) < QueueSize /\ ~z.cancelled
              <7>1. Len(z.queue) \in Nat /\ Len(z.queue) <= QueueSize /\ Len(z.queue) # QueueSize
                BY <1>0, <3>2, <5>4, <5>6, <5>13 DEF Queued, ConnType
              <7> QED BY <1>2, <5>4, <5>6, <5>13, <7>1
            <6>2. PICK y : y = [z EXCEPT !.queue = Append(@, item), !.told = IF item.kind = "ready" THEN item.ready ELSE @]
              OBVIOUS
            <6>3. y.queue = Append(z.queue, item) /\ y.last = z.last /\ y.heard = z.heard /\ y.excused = z.excused
                  /\ y.cancelled = z.cancelled
              BY <6>2 DEF ConnType
            <6>4. conn' = [cn EXCEPT ![to] = y]
              <7>1. cn[to] = z BY <3>2, <5>8
              <7> QED BY <3>2, <5>9, <5>13, <6>1, <6>2, <7>1 DEF Enqueued, Queued
            <6>5. \A d \in ConnIDs : conn'[d] = IF d = to THEN y ELSE conn[d] BY <5>8, <5>9, <6>4 DEF Queued
            <6>6. Sent(conn'[to]) BY <3>2, <5>3, <5>4, <5>6, <6>3, <6>5
            <6> QED BY <1>same, <6>5, <6>6
          <5> QED BY <5>2, <5>7, <5>11, <5>12, <5>13
        <4>2. Fresh(conn')
          <5>1. conn'[to].phase \in {"open", "leaving"} /\ conn'[c].phase \in {"open", "leaving"}
            <6>1. o \in live' /\ owner'[o].peers[a] # Null /\ owner'[o].peers[a] = c /\ owner'[o].peers[b] # Null /\ owner'[o].peers[b] = to
              BY <2>1, <2>2, <2>5, <2>12, <2>17, <3>8, <3>9
            <6> QED BY <1>1, <6>1 DEF Linked
          <5> QED BY <1>fresh, <4>1, <5>1
        <4>3. ASSUME NEW p \in live', p # o PROVE Goes(p)
          <5>1. owner'[p] = owner[p] /\ p \in live BY <1>0, <2>1, <3>9, <4>3
          <5>2. ASSUME NEW e \in Actors, owner[p].peers[e] # Null
                PROVE  Calm(conn[owner[p].peers[e]], conn'[owner[p].peers[e]])
            <6>1. PICK d : d = owner[p].peers[e] OBVIOUS
            <6>2. d \in ConnIDs /\ conn[d].owner = p BY <1>linked, <5>1, <5>2, <6>1
            <6>3. d # to BY <1>linked, <2>2, <2>3, <2>12, <2>17, <4>3, <6>2
            <6> QED BY <4>1, <6>1, <6>2, <6>3
          <5> QED BY <1>grows, <3>10, <4>3, <5>1, <5>2
        <4>4. Goes(o)
          <5>1. PICK P : P = Peers(w) OBVIOUS
          <5>2. PICK after : after = ice'[g] OBVIOUS
          <5>3. \A j \in IceSessions : used[j] # 0 => after[j] # 0 BY <2>8, <3>10, <5>2
          <5>4. n # Null => n.session \in IceSessions BY <3>4 DEF OwnerType, NegotiationType
          <5>5. Paired(r, w, used) BY <2>9 DEF Converses
          <5>6. begins => /\ a = r.sender /\ b = r.receiver /\ m.session = i /\ after[i] # 0
            <6> SUFFICES ASSUME begins PROVE a = r.sender /\ b = r.receiver /\ m.session = i /\ after[i] # 0
              OBVIOUS
            <6>1. MayRequest(c, i) /\ k = "connect_request" OBVIOUS
            <6>2. a = r.sender /\ b = r.receiver
              BY <2>4, <2>6, <2>7, <2>11, <6>1 DEF MayRequest, SenderOf, OtherParty
            <6>3. m = NewNegotiation(i) BY <3>3, <6>1 DEF Negotiation
            <6>4. m.session = i BY <6>3 DEF NewNegotiation
            <6>7. after[i] # 0
              <7>1. ice' = [ice EXCEPT ![g][i] = now + NegotiationTTL] BY <3>1, <6>1
              <7>2. now \in Nat BY <1>0 DEF TypeOK
              <7>3. after[i] = now + NegotiationTTL BY <1>0, <5>2, <7>1
              <7> QED BY <1>2, <7>2, <7>3
            <6> QED BY <6>2, <6>4, <6>7
          <5>7. Paired(r, v, after)
            <6>1. CASE begins BY <2>5, <2>12, <2>17, <3>8, <5>5, <5>6, <6>1 DEF Paired
            <6>2. CASE ~begins BY <3>4, <3>8, <3>11, <5>3, <5>4, <5>5, <6>2 DEF Paired
            <6> QED BY <6>1, <6>2
          <5>8. ASSUME NEW e \in Actors, w.peers[e] # Null, e # r.sender
                PROVE  Prepared(conn'[w.peers[e]], m, P, after)
            <6>1. PICK d : d = w.peers[e] OBVIOUS
            <6>2. d \in ConnIDs /\ conn[d] \in ConnType /\ conn'[d] \in ConnType BY <1>linked, <2>2, <2>3, <5>8, <6>1
            <6>3. Prepared(conn[d], n, P, used) BY <2>9, <3>4, <5>1, <5>8, <6>1 DEF Converses
            <6>4. Prepared(conn[d], n, P, after) BY <5>3, <6>3 DEF Prepared
            <6>5. Calm(conn[d], conn'[d]) => Prepared(conn'[d], n, P, after) BY <1>calm, <6>2, <6>4
            <6>6. CASE ~begins
              <7>1. Prepared(conn'[d], n, P, after)
                <8>1. CASE d # to \/ Spared(conn'[to]) BY <4>1, <6>2, <6>5, <8>1
                <8>2. CASE d = to /\ Sent(conn'[to])
                  <9>1. MayAdvance(c, k, i) BY <3>13, <6>6
                  <9>2. n # Null /\ i = n.session BY <3>5, <3>6, <9>1 DEF MayAdvance
                  <9>3. after[i] # 0 BY <3>4, <5>3, <5>5, <9>2 DEF Paired
                  <9>4. PICK x1 \in ConnType, y1 \in ConnType : x1 = conn[d] /\ y1 = conn'[d] BY <6>2
                  <9>5. /\ y1.queue = Append(x1.queue, item) /\ y1.last = x1.last /\ y1.cancelled = x1.cancelled
                        /\ x1.heard \subseteq y1.heard /\ x1.excused \subseteq y1.excused
                    BY <8>2, <9>4
                  <9> QED BY <1>frame, <2>14, <6>4, <9>3, <9>4, <9>5
                <8> QED BY <4>1, <8>1, <8>2
              <7> QED BY <1>rename, <3>11, <6>1, <6>6, <7>1
            <6>7. CASE begins
              <7>1. d = to BY <2>12, <5>5, <5>6, <5>8, <6>1, <6>7 DEF Paired
              <7>2. item.kind = "connect_request" /\ item.session = i /\ m.session = i /\ request = {i} /\ after[i] # 0
                BY <2>14, <5>6, <6>7
              <7>3. CASE Spared(conn'[to])
                <8>1. Prepared(conn'[d], Null, P, after) BY <1>over, <6>5, <7>1, <7>3
                <8>2. conn'[d].cancelled \/ m.session \in Known(conn'[d]) BY <7>1, <7>2, <7>3 DEF Known
                <8> QED BY <1>begun, <6>1, <8>1, <8>2
              <7>4. CASE Sent(conn'[to])
                <8>1. PICK x1 \in ConnType, y1 \in ConnType : x1 = conn[d] /\ y1 = conn'[d] BY <6>2
                <8>2. /\ y1.queue = Append(x1.queue, item) /\ y1.last = x1.last /\ y1.cancelled = x1.cancelled
                      /\ x1.heard \subseteq y1.heard /\ x1.excused \subseteq y1.excused /\ again \subseteq y1.excused
                  BY <7>1, <7>4, <8>1
                <8>3. Prepared(y1, n, P, after) BY <1>frame, <2>14, <6>4, <7>2, <8>1, <8>2
                <8>4. Prepared(y1, Null, P, after) BY <1>over, <8>3
                <8>5. m.session \in Known(y1) \/ Ahead(y1, m.session, P)
                  <9>1. CASE used[i] # 0 BY <7>2, <8>2, <9>1 DEF Known
                  <9>2. CASE used[i] = 0
                    <10>1. c \in P BY <2>5, <5>1
                    <10> QED BY <1>first, <2>14, <6>3, <7>2, <8>1, <8>2, <9>2, <10>1
                  <9> QED BY <9>1, <9>2
                <8> QED BY <1>begun, <6>1, <8>1, <8>4, <8>5
              <7> QED BY <4>1, <7>3, <7>4
            <6> QED BY <6>6, <6>7
          <5>9. Converses(r, v, conn', after) BY <3>8, <5>1, <5>7, <5>8 DEF Converses
          <5>10. o \in live' /\ owner'[o] = v /\ grants'[v.scope.grant] = r /\ ice'[v.scope.grant] = after
            BY <2>1, <2>2, <2>6, <2>7, <3>8, <3>9, <5>2
          <5> QED BY <5>9, <5>10
        <4> QED BY <4>2, <4>3, <4>4
      <3> QED BY <3>12, <3>13
    <2> QED BY <2>16, <2>17
  <1>refused. ASSUME NEW c \in ConnIDs, ForwardUnauthorized(c) PROVE Settles
    <2> DEFINE R(O, b) == Retire(O, b, conn, owner, wg) /\ ice' = ice
    <2>1. ASSUME NEW O, NEW b \in BOOLEAN, R(O, b) PROVE Settles
      BY <1>retires, <2>1
    <2>2. R({conn[c].owner}, FALSE) \/ R({conn[c].owner}, TRUE) BY <1>refused DEF ForwardUnauthorized
    <2> QED BY <2>1, <2>2
  <1>connections. ASSUME Connections PROVE Settles
    BY <1>connections, <1>one, <1>register, <1>unregister, <1>refused, <1>writeNext, <1>signal DEF Connections
  <1>quiet. ASSUME ((ReapExpired \/ Tick \/ SetBack \/ Horizon) /\ UNCHANGED hub) \/ UNCHANGED allvars PROVE Settles
    BY <1>quiet, <1>idle DEF allvars
  <1>settled. Settles
    BY <1>requests, <1>timer, <1>close, <1>connections, <1>quiet DEF SignalNext
  <1> QED BY <1>settled DEF RequestIInv, Negotiated

\* The connection of a receiver is written the candidates of a negotiation only
\* after its request, unless the sender was told that the request found no room
\* or asked again under the same name: however the two devices connect, replace
\* each other's connections, negotiate and leave, and wherever a frame waits.
THEOREM RequestsComeFirst == SignalSpec => []RequestComesFirst
  <1>1. SignalInit => RequestIInv
    BY DEF SignalInit, RequestIInv, Negotiated, Fresh, NoConn
  <1>2. HubInv /\ HubInv' /\ RequestIInv /\ [SignalNext]_allvars => RequestIInv'
    BY RequestStep
  <1>3. HubInv /\ RequestIInv => RequestComesFirst
    <2> SUFFICES ASSUME HubInv, RequestIInv, NEW c \in ConnIDs, conn[c].last.kind \in Trickled, Registered(c),
                        conn[c].actor # grants[conn[c].scope.grant].sender
                 PROVE  conn[c].last.session \in conn[c].heard \cup conn[c].excused
      BY DEF RequestComesFirst, Trickled
    <2>1. /\ Linked(live, owner, conn) /\ Negotiated(grants, live, owner, conn, ice) /\ Fresh(conn)
          /\ \A d \in ConnIDs : conn[d].phase \in Held => conn[d].actor \in Actors /\ conn[d].scope \in Scopes
      BY DEF HubInv, Good, Shaped, RequestIInv
    <2>2. conn[c].phase \in {"open", "leaving"}
      BY <2>1 DEF Fresh, ErrorItem, Trickled
    <2>3. PICK o \in live, a \in Actors : o = conn[c].owner /\ a = conn[c].actor /\ owner[o].peers[a] = c
      BY <2>1, <2>2 DEF Registered, Held
    <2>4. c # Null
      BY SignalAssumption
    <2>5. conn[c].scope = owner[o].scope
      BY <2>1, <2>3, <2>4 DEF Linked
    <2>6. PICK P, used : Prepared(conn[c], owner[o].negotiation, P, used)
      BY <2>1, <2>3, <2>4, <2>5 DEF Negotiated, Converses
    <2> QED BY <2>6 DEF Prepared, Known
  <1> QED BY <1>1, <1>2, <1>3, HubHolds, PTL DEF SignalSpec
=============================================================================
