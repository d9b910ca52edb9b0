-------------------------- MODULE CrossingsProofs --------------------------
(***************************************************************************)
(* What crosses on its way between devices.                                *)
(*                                                                         *)
(* What leaves a device is what its user copied there while the clipboard  *)
(* was not paused: a peer's write is recognized when its report comes, how *)
(* late that may be and whatever reset the core in between.                *)
(* A peer's copy replaces only what is older in the order of all copies:   *)
(* the core knows what is on the clipboard while it holds its generation,  *)
(* and knows nothing later than what it committed.                         *)
(* After an edit of the permission to send has returned, nothing bound to  *)
(* a lease from before it passes its last look: while a job could be       *)
(* written, its lease or a later one is there for the edit to find.        *)
(*                                                                         *)
(* The server keeps at most one negotiation of a pair, on the connections  *)
(* the two have now, and no more of a device than its quota, whatever its  *)
(* clients send, lose and repeat.                                          *)
(***************************************************************************)
EXTENDS Clipboard, Rendezvous, FiniteSetTheorems, TLAPS

(***************************************************************************)
(* The inductive invariant of copies                                       *)
(***************************************************************************)
Contents == (ClipDevices \cup {0}) \X Nat
CoreFields ==
    {"boot", "seq", "lamport", "revision", "osGen", "paused", "high", "committed", "pending", "pendingRevision",
     "pendingLease", "suppressed"}
ReadFields == {"pc", "gen", "revision", "key", "content", "rest", "jobs", "now"}
EventFields == {"type", "lease", "revision", "sender", "key", "content"}

\* Where an owner may be while it works on a copy.
Working == {"observed", "granted", "read", "prepared", "bound"}

\* The shapes of what the argument looks at.
ClipTypeOK ==
    /\ left \in ClipBounds
    /\ board \in [ClipDevices -> [gen : Nat, content : Contents]] /\ notice \in [ClipDevices -> Nat]
    /\ DOMAIN core = ClipDevices
    /\ \A d \in ClipDevices : DOMAIN core[d] = CoreFields /\ core[d].revision \in Nat
    /\ DOMAIN owner = ClipDevices /\ DOMAIN box = Links /\ DOMAIN streams = Links /\ DOMAIN reading = Links
    /\ DOMAIN past = {"known", "private"} /\ past.private \subseteq Contents

\* A copy is numbered by the generation it replaced, so that no two are the same.
Past(c) == c \in Contents /\ (c[1] # 0 => c[2] < board[c[1]].gen)
Public(c) == Past(c) /\ c \notin past.private

\* The core tells by the generation that a peer wrote the content.
Recognized(d, gen, c) == c[1] = d \/ core[d].suppressed = <<gen, c>>

\* A change that the watcher reports, and that is still on the clipboard, was
\* made while the watcher ran, by the user or by a write the core recognizes.
NoticeAgrees(d) ==
    /\ Past(board[d].content) /\ notice[d] <= board[d].gen
    /\ notice[d] # 0 /\ notice[d] = board[d].gen =>
          Public(board[d].content) /\ Recognized(d, board[d].gen, board[d].content)

\* The same of the change the owner observed and of the payload it read, until
\* something else became current; what it prepared is the user's.
OwnerAgrees(d) ==
    /\ owner[d].pc \in Working \cup {"none", "reset"}
    /\ owner[d].pc \in Working =>
          /\ DOMAIN owner[d] = ReadFields
          /\ owner[d].gen \in Nat /\ owner[d].gen <= board[d].gen
          /\ notice[d] = 0 \/ notice[d] > owner[d].gen
          /\ owner[d].revision \in Nat /\ owner[d].revision <= core[d].revision
    /\ owner[d].pc \in {"observed", "granted"} /\ owner[d].gen = board[d].gen =>
          Public(board[d].content) /\ Recognized(d, board[d].gen, board[d].content)
    /\ owner[d].pc \in {"read", "prepared", "bound"} => Public(owner[d].content)
    /\ owner[d].pc = "read" =>
          Recognized(d, owner[d].gen, owner[d].content) \/ owner[d].revision < core[d].revision
    /\ owner[d].pc \in {"prepared", "bound"} => owner[d].content[1] = d

\* Jobs, events on their way and candidates are copies of the device they come from.
LinkAgrees(l) ==
    /\ box[l].pc = "job" => Public(box[l].content) /\ box[l].content[1] = l[1]
    /\ \A m \in streams[l] :
          m.type # "lease" => DOMAIN m = EventFields /\ Public(m.content) /\ m.content[1] = l[1]
    /\ reading[l].pc \in {"header", "candidate"} =>
          Public(reading[l].event.content) /\ reading[l].event.content[1] = l[1]

CopiesAgree ==
    /\ \A d \in ClipDevices : NoticeAgrees(d) /\ OwnerAgrees(d)
    /\ \A l \in Links : LinkAgrees(l)
    /\ \A c \in past.private : Past(c)

ClipIInv == ClipTypeOK /\ CopiesAgree

(***************************************************************************)
(* What travels                                                            *)
(***************************************************************************)
\* What travels is what a user copied on the device it comes from while the
\* clipboard was not paused: for every number of devices, copies, pauses, edits of
\* the permissions, losses and restarts.
THEOREM CopiesAreOwn == ClipSpec => [](ClipIInv /\ OnlyOwnCopiesTravel)
  \* Every step keeps the shapes.
  <1>ClipTypeStep. ASSUME ClipTypeOK, CopiesAgree, [ClipNext]_clipVars PROVE ClipTypeOK'
    <2> USE <1>ClipTypeStep
    <2>1. ASSUME NEW what \in {"copies", "lapses", "losses", "edits", "revocations", "pauses", "restarts"}, Spends(what)
          PROVE  left' \in ClipBounds
      BY <2>1 DEF Spends, ClipBounds, ClipTypeOK
    <2>2. ASSUME NEW d \in ClipDevices, NEW c, core' = [core EXCEPT ![d] = c], DOMAIN c = CoreFields, c.revision \in Nat
          PROVE  DOMAIN core' = ClipDevices /\ \A e \in ClipDevices : DOMAIN core'[e] = CoreFields /\ core'[e].revision \in Nat
      BY <2>2 DEF ClipTypeOK
    <2>3. ASSUME NEW c, DOMAIN c = CoreFields
          PROVE  /\ DOMAIN NoPending(c) = CoreFields /\ NoPending(c).revision = c.revision
                 /\ NoPending(c).suppressed = c.suppressed
      BY <2>3 DEF NoPending, CoreFields
    <2>4. ASSUME NEW d \in ClipDevices, NEW c \in Contents, Changed(d, c)
          PROVE  /\ board' \in [ClipDevices -> [gen : Nat, content : Contents]] /\ notice' \in [ClipDevices -> Nat]
      BY <2>4 DEF Changed, ClipTypeOK
    <2>5. \A d \in ClipDevices : DOMAIN core[d] = CoreFields /\ core[d].revision \in Nat
      BY DEF ClipTypeOK
    <2>6. ASSUME NEW d \in ClipDevices, UserCopies(d) PROVE ClipTypeOK'
      <3>1. <<d, board[d].gen>> \in Contents
        BY DEF ClipTypeOK, Contents
      <3>2. past'.private \subseteq Contents /\ DOMAIN past' = {"known", "private"}
        BY <2>6, <3>1 DEF UserCopies, ClipTypeOK
      <3> QED BY <2>1, <2>4, <2>6, <3>1, <3>2 DEF UserCopies, ClipTypeOK
    <2>7. ASSUME NEW d \in ClipDevices, ObserveLocalEvent(d) PROVE ClipTypeOK'
      <3>1. /\ DOMAIN Observed(d, notice[d]) = CoreFields
            /\ Observed(d, notice[d]).revision = core[d].revision + 1
        BY <2>3, <2>5 DEF Observed, CoreFields
      <3>2. core' = [core EXCEPT ![d] = Observed(d, notice[d])]
        BY <2>7 DEF ObserveLocalEvent
      <3>3. DOMAIN core' = ClipDevices /\ \A e \in ClipDevices : DOMAIN core'[e] = CoreFields /\ core'[e].revision \in Nat
        <4>1. core[d].revision + 1 \in Nat
          BY <2>5
        <4> QED BY <2>2, <3>1, <3>2, <4>1
      <3>4. DOMAIN past' = {"known", "private"} /\ past'.private = past.private
        BY <2>7 DEF ObserveLocalEvent, ClipTypeOK
      <3> QED BY <2>7, <3>3, <3>4 DEF ObserveLocalEvent, ClipTypeOK, Cancelled
    <2>8. ASSUME NEW d \in ClipDevices,
                 \/ Expire(d) \/ NotAChange(d) \/ ReadPayload(d) \/ GrantIsSet(d) \/ SetClipboardSuspended(d)
                 \/ OutboundForObservation(d) \/ BindScoped(d)
          PROVE  ClipTypeOK'
      <3>1. CASE Expire(d)
        BY <2>1, <3>1 DEF Expire, ClipTypeOK
      <3>2. CASE NotAChange(d)
        BY <3>2 DEF NotAChange, ClipTypeOK
      <3>3. CASE ReadPayload(d)
        BY <3>3 DEF ReadPayload, ClipTypeOK
      <3>4. CASE GrantIsSet(d)
        <4>1. \A gone : Invalidated(d, gone) =>
                DOMAIN core' = ClipDevices /\ \A e \in ClipDevices : DOMAIN core'[e] = CoreFields /\ core'[e].revision \in Nat
          <5> SUFFICES ASSUME NEW gone, Invalidated(d, gone)
                       PROVE  /\ DOMAIN core' = ClipDevices
                              /\ \A e \in ClipDevices : DOMAIN core'[e] = CoreFields /\ core'[e].revision \in Nat
            OBVIOUS
          <5> DEFINE c == [core[d] EXCEPT !.revision = @ + 1]
          <5>1. DOMAIN c = CoreFields /\ c.revision \in Nat
            BY <2>5 DEF CoreFields
          <5>2. core' = core \/ core' = [core EXCEPT ![d] = NoPending(c)]
            BY DEF Invalidated
          <5> HIDE DEF c
          <5> QED BY <2>2, <2>3, <2>5, <5>1, <5>2 DEF ClipTypeOK
        <4> QED BY <3>4, <4>1 DEF GrantIsSet, ClipTypeOK, Cancelled
      <3>5. CASE SetClipboardSuspended(d)
        BY <2>1, <3>5 DEF SetClipboardSuspended, Known, ClipTypeOK
      <3>6. CASE OutboundForObservation(d)
        BY <3>6 DEF OutboundForObservation, ClipTypeOK
      <3>7. CASE BindScoped(d)
        BY <3>7 DEF BindScoped, ClipTypeOK
      <3> QED BY <2>8, <3>1, <3>2, <3>3, <3>4, <3>5, <3>6, <3>7
    <2>9. ASSUME NEW d \in ClipDevices, PrepareObserved(d) PROVE ClipTypeOK'
      <3>1. PICK c : c = [core[d] EXCEPT !.suppressed = IF <<owner[d].gen, owner[d].content>> = @ THEN <<>> ELSE @]
        OBVIOUS
      <3>2. core' = [core EXCEPT ![d] = c]
        BY <2>9, <3>1 DEF PrepareObserved, ClipTypeOK
      <3>3. DOMAIN c = CoreFields /\ c.revision \in Nat
        BY <2>5, <3>1 DEF CoreFields
      <3> QED BY <2>2, <2>9, <3>2, <3>3 DEF PrepareObserved, ClipTypeOK
    <2>10. ASSUME NEW d \in ClipDevices, NEW paused, NEW gen, ResetClipboard(d, paused, gen)
           PROVE  /\ DOMAIN core' = ClipDevices
                  /\ \A e \in ClipDevices : DOMAIN core'[e] = CoreFields /\ core'[e].revision \in Nat
                  /\ DOMAIN box' = Links
      <3>1. PICK c : c = [core[d] EXCEPT !.paused = paused, !.osGen = gen, !.revision = @ + 1]
        OBVIOUS
      <3>2. DOMAIN c = CoreFields /\ c.revision \in Nat
        BY <2>5, <3>1 DEF CoreFields
      <3>3. core' = [core EXCEPT ![d] = NoPending(c)]
        BY <2>10, <3>1 DEF ResetClipboard
      <3> QED BY <2>2, <2>3, <2>10, <3>2, <3>3 DEF ResetClipboard, Cancelled
    <2>11. ASSUME NEW d \in ClipDevices, GrantsAreCleared(d) \/ Suspended(d) \/ RestartClipboard(d) PROVE ClipTypeOK'
      <3>1. CASE GrantsAreCleared(d)
        BY <2>10, <3>1 DEF GrantsAreCleared, ClipTypeOK
      <3>2. CASE Suspended(d)
        BY <2>10, <3>2 DEF Suspended, ClipTypeOK
      <3>3. CASE RestartClipboard(d)
        <4>1. DOMAIN NewCore(core[d].boot + 1, board[d].gen) = CoreFields /\ NewCore(core[d].boot + 1, board[d].gen).revision = 1
          BY DEF NewCore, CoreFields
        <4>2. DOMAIN core' = ClipDevices /\ \A e \in ClipDevices : DOMAIN core'[e] = CoreFields /\ core'[e].revision \in Nat
          <5>1. PICK c : c = NewCore(core[d].boot + 1, board[d].gen)
            OBVIOUS
          <5>2. core' = [core EXCEPT ![d] = c]
            BY <3>3, <5>1 DEF RestartClipboard
          <5>3. DOMAIN c = CoreFields /\ c.revision \in Nat
            BY <4>1, <5>1
          <5> QED BY <2>2, <5>2, <5>3
        <4> QED BY <2>1, <3>3, <4>2 DEF RestartClipboard, ClipTypeOK
      <3> QED BY <2>11, <3>1, <3>2, <3>3
    <2>12. ASSUME NEW d \in ClipDevices, NEW p \in ClipDevices,
                  \/ SendLease(d, p) \/ InstallLease(d, p) \/ Enqueue(d, p) \/ SendJob(d, p) \/ WriteJob(d, p)
                  \/ ClipboardGrant(d, p) \/ ReadBaseline(d, p) \/ \E m \in streams[<<p, d>>] : ReadLease(d, p, m)
           PROVE  ClipTypeOK'
      <3>1. CASE SendLease(d, p)
        <4>1. left' \in ClipBounds
          <5>1. left \in ClipBounds /\ left.leases \in [ClipDevices -> Nat] /\ left.leases[d] - 1 \in Nat
            BY <3>1 DEF SendLease, ClipTypeOK, ClipBounds
          <5>2. [left.leases EXCEPT ![d] = left.leases[d] - 1] \in [ClipDevices -> Nat]
            BY <5>1
          <5>3. left' = [left EXCEPT !.leases = [left.leases EXCEPT ![d] = left.leases[d] - 1]]
            BY <3>1 DEF SendLease
          <5> QED BY <5>1, <5>2, <5>3 DEF ClipBounds
        <4> QED BY <3>1, <4>1 DEF SendLease, ClipTypeOK
      <3>2. CASE InstallLease(d, p)
        <4>1. PICK x : UNCHANGED core \/ core' = [core EXCEPT ![d].lamport = x]
          BY <3>2 DEF InstallLease
        <4>2. DOMAIN core' = ClipDevices /\ \A e \in ClipDevices : DOMAIN core'[e] = CoreFields /\ core'[e].revision \in Nat
          BY <2>5, <4>1 DEF ClipTypeOK, CoreFields
        <4> QED BY <3>2, <4>2 DEF InstallLease, ClipTypeOK
      <3>3. CASE Enqueue(d, p)
        BY <3>3 DEF Enqueue, ClipTypeOK
      <3>4. CASE SendJob(d, p)
        BY <3>4 DEF SendJob, ClipTypeOK
      <3>5. CASE \E m \in streams[<<p, d>>] : ReadLease(d, p, m)
        BY <3>5 DEF ReadLease, ClipTypeOK
      <3>6. CASE WriteJob(d, p)
        BY <3>6 DEF WriteJob, ClipTypeOK
      <3>7. CASE ClipboardGrant(d, p)
        BY <3>7 DEF ClipboardGrant, ClipTypeOK
      <3>8. CASE ReadBaseline(d, p)
        BY <3>8 DEF ReadBaseline, ClipTypeOK
      <3> QED BY <2>12, <3>1, <3>2, <3>3, <3>4, <3>5, <3>6, <3>7, <3>8
    <2>13. ASSUME NEW l \in Links, LoseMessage(l) PROVE ClipTypeOK'
      BY <2>1, <2>13 DEF LoseMessage, ClipTypeOK
    <2>14. ASSUME NEW d \in ClipDevices, NEW p \in ClipDevices, <<p, d>> \in Links,
                  Commit(p, d) \/ BeginHeader(p, d) \/ \E m \in streams[<<p, d>>] : ReadHeader(p, d, m)
           PROVE  ClipTypeOK'
      <3>1. CASE BeginHeader(p, d)
        <4>1. PICK m :
              \/ UNCHANGED core
              \/ core' = [core EXCEPT ![d].pending = m.key, ![d].pendingRevision = core[d].revision,
                                      ![d].pendingLease = m.lease]
          BY <3>1 DEF BeginHeader
        <4>2. DOMAIN core' = ClipDevices /\ \A e \in ClipDevices : DOMAIN core'[e] = CoreFields /\ core'[e].revision \in Nat
          BY <2>5, <4>1 DEF ClipTypeOK, CoreFields
        <4> QED BY <3>1, <4>2 DEF BeginHeader, ClipTypeOK
      <3>2. CASE Commit(p, d)
        <4>1. CASE UNCHANGED <<core, board, notice, past>>
          BY <3>2, <4>1 DEF Commit, ClipTypeOK
        <4>2. CASE /\ core' = [core EXCEPT ![d] = Committed(d, p, reading[<<p, d>>].event)]
                   /\ Changed(d, reading[<<p, d>>].event.content)
                   /\ past' = [past EXCEPT !.known[d] = [content |-> reading[<<p, d>>].event.content,
                                                         key |-> reading[<<p, d>>].event.key]]
          <5>1. PICK m : m = reading[<<p, d>>].event
            OBVIOUS
          <5>2. m.content \in Contents
            BY <3>2, <5>1, <2>14 DEF Commit, CopiesAgree, LinkAgrees, Public, Past
          <5>3. DOMAIN Committed(d, p, m) = CoreFields /\ Committed(d, p, m).revision = core[d].revision + 1
            BY <2>3, <2>5 DEF Committed, CoreFields
          <5>4. DOMAIN core' = ClipDevices /\ \A e \in ClipDevices : DOMAIN core'[e] = CoreFields /\ core'[e].revision \in Nat
            <6>1. core[d].revision + 1 \in Nat
              BY <2>5
            <6> QED BY <2>2, <4>2, <5>1, <5>3, <6>1
          <5>5. board' \in [ClipDevices -> [gen : Nat, content : Contents]] /\ notice' \in [ClipDevices -> Nat]
            BY <2>4, <4>2, <5>1, <5>2
          <5>6. DOMAIN past' = {"known", "private"} /\ past'.private \subseteq Contents
            BY <4>2 DEF ClipTypeOK
          <5> QED BY <3>2, <5>4, <5>5, <5>6 DEF Commit, ClipTypeOK
        <4> QED BY <3>2, <4>1, <4>2 DEF Commit
      <3>3. CASE \E m \in streams[<<p, d>>] : ReadHeader(p, d, m)
        BY <3>3 DEF ReadHeader, ClipTypeOK
      <3> QED BY <2>14, <3>1, <3>2, <3>3
    <2>15. ASSUME NEW d, NEW p, SetClipboardGrant(d, p, "send") \/ SetClipboardGrant(d, p, "receive") \/ ClearClipboardGrants(d, p)
           PROVE  ClipTypeOK'
      BY <2>1, <2>15 DEF SetClipboardGrant, ClearClipboardGrants, Known, ClipTypeOK
    <2>16. CASE UNCHANGED clipVars
      BY <2>16 DEF clipVars, ClipTypeOK
    <2>17. \A l \in left.links : l \in Links /\ l[1] \in ClipDevices /\ l[2] \in ClipDevices /\ l = <<l[1], l[2]>>
      BY DEF ClipTypeOK, ClipBounds, Links
    <2> QED BY <2>6, <2>7, <2>8, <2>9, <2>11, <2>12, <2>13, <2>14, <2>15, <2>16, <2>17 DEF ClipNext
  \* Every step keeps what is said of notices, owners and copies.
  <1>ClipStep. ASSUME ClipIInv, ClipTypeOK', [ClipNext]_clipVars
               PROVE  CopiesAgree'
    <2> USE <1>ClipStep
    <2>1. /\ \A d \in ClipDevices : board[d].gen \in Nat /\ notice[d] \in Nat /\ core[d].revision \in Nat
          /\ \A d \in ClipDevices : board'[d].gen \in Nat /\ notice'[d] \in Nat /\ core'[d].revision \in Nat
          /\ \A d \in ClipDevices : DOMAIN core[d] = CoreFields
          /\ DOMAIN core = ClipDevices /\ DOMAIN owner = ClipDevices /\ DOMAIN past = {"known", "private"}
          /\ DOMAIN box = Links /\ DOMAIN streams = Links /\ DOMAIN reading = Links
          /\ \A c \in Contents : c[1] \in ClipDevices \cup {0} /\ c[2] \in Nat
          /\ 0 \notin ClipDevices
      BY ClipAssumption DEF ClipIInv, ClipTypeOK, Contents
    \* A copy stays a copy of the past while generations grow.
    <2>2. ASSUME \A d \in ClipDevices : board'[d].gen >= board[d].gen
          PROVE  /\ \A c : Past(c) => Past(c)'
                 /\ past'.private = past.private => \A c : Public(c) => Public(c)'
      <3>1. \A c : Past(c) => Past(c)'
        BY <2>1, <2>2 DEF Past
      <3> QED BY <3>1 DEF Public
    \* What a device has noticed and observed while its clipboard is not written.
    <2>3. ASSUME NEW d \in ClipDevices, \A c : Past(c) => Past(c)', \A c : Public(c) => Public(c)',
                 board'[d] = board[d], notice'[d] \in {0, notice[d]},
                 core'[d].suppressed = core[d].suppressed \/ notice'[d] = 0
          PROVE  NoticeAgrees(d)'
      <3>1. NoticeAgrees(d)
        BY DEF ClipIInv, CopiesAgree
      <3> QED BY <2>1, <2>3, <3>1 DEF NoticeAgrees, Recognized
    <2>4. ASSUME NEW d \in ClipDevices, \A c : Public(c) => Public(c)', owner'[d] = owner[d],
                 board'[d] = board[d] \/ board'[d].gen > board[d].gen,
                 notice'[d] \in {0, notice[d]} \/ notice'[d] > board[d].gen,
                 \/ core'[d].suppressed = core[d].suppressed /\ core'[d].revision >= core[d].revision
                 \/ board'[d].gen > board[d].gen /\ core'[d].revision > core[d].revision
          PROVE  OwnerAgrees(d)'
      <3>1. OwnerAgrees(d)
        BY DEF ClipIInv, CopiesAgree
      <3>2. CASE owner[d].pc \in {"observed", "granted"}
        BY <2>1, <2>4, <3>1, <3>2 DEF OwnerAgrees, Recognized, Working
      <3>3. CASE owner[d].pc = "read"
        BY <2>1, <2>4, <3>1, <3>3 DEF OwnerAgrees, Recognized, Working
      <3>4. CASE owner[d].pc \in {"prepared", "bound"}
        BY <2>1, <2>4, <3>1, <3>4 DEF OwnerAgrees, Working
      <3>5. CASE owner[d].pc \in {"none", "reset"}
        BY <2>1, <2>4, <3>1, <3>5 DEF OwnerAgrees, Working
      <3> QED BY <3>1, <3>2, <3>3, <3>4, <3>5 DEF OwnerAgrees, Working
    <2>5. ASSUME NEW d \in ClipDevices, owner'[d].pc \in {"none", "reset"} PROVE OwnerAgrees(d)'
      BY <2>5 DEF OwnerAgrees, Working
    <2>6. ASSUME NEW l \in Links, \A c : Public(c) => Public(c)',
                 box'[l] = box[l] \/ box'[l].pc = "none",
                 \A m \in streams'[l] : m \in streams[l] \/ m.type = "lease",
                 reading'[l] = reading[l] \/ reading'[l].pc \in {"none", "admitted", "lease"}
          PROVE  LinkAgrees(l)'
      <3>1. LinkAgrees(l)
        BY DEF ClipIInv, CopiesAgree
      <3> QED BY <2>6, <3>1 DEF LinkAgrees
    \* Nothing is written, and what is current may only be given up.
    <2>7. ASSUME UNCHANGED board, past'.private = past.private,
                 \A d \in ClipDevices :
                   /\ notice'[d] \in {0, notice[d]}
                   /\ owner'[d] = owner[d] \/ owner'[d].pc \in {"none", "reset"}
                   /\ \/ core'[d].suppressed = core[d].suppressed /\ core'[d].revision >= core[d].revision
                      \/ notice'[d] = 0 /\ owner'[d].pc = "none",
                 \A l \in Links :
                   /\ box'[l] = box[l] \/ box'[l].pc = "none"
                   /\ \A m \in streams'[l] : m \in streams[l] \/ m.type = "lease"
                   /\ reading'[l] = reading[l] \/ reading'[l].pc \in {"none", "admitted", "lease"}
          PROVE  CopiesAgree'
      <3>1. \A c : (Past(c) => Past(c)') /\ (Public(c) => Public(c)')
        BY <2>7 DEF Past, Public
      <3>2. ASSUME NEW d \in ClipDevices PROVE NoticeAgrees(d)' /\ OwnerAgrees(d)'
        <4>1. NoticeAgrees(d)'
          BY <2>3, <2>7, <3>1
        <4>2. CASE owner'[d].pc \in {"none", "reset"}
          BY <2>5, <4>1, <4>2
        <4>3. CASE owner'[d].pc \notin {"none", "reset"}
          <5>1. /\ owner'[d] = owner[d] /\ board'[d] = board[d] /\ notice'[d] \in {0, notice[d]}
                /\ core'[d].suppressed = core[d].suppressed /\ core'[d].revision >= core[d].revision
            BY <2>7, <4>3
          <5> QED BY <2>4, <3>1, <4>1, <5>1
        <4> QED BY <4>2, <4>3
      <3>3. \A l \in Links : LinkAgrees(l)'
        BY <2>6, <2>7, <3>1
      <3>4. \A c \in past'.private : Past(c)'
        BY <2>7, <3>1 DEF ClipIInv, CopiesAgree
      <3> QED BY <3>2, <3>3, <3>4 DEF CopiesAgree
    <2>8. ASSUME NEW c, DOMAIN c = CoreFields
          PROVE  NoPending(c).revision = c.revision /\ NoPending(c).suppressed = c.suppressed
      BY <2>8 DEF NoPending, CoreFields
    <2>9. ASSUME NEW d \in ClipDevices, NEW c, core' = [core EXCEPT ![d] = c],
                 c.suppressed = core[d].suppressed, c.revision >= core[d].revision
          PROVE  \A e \in ClipDevices : core'[e].suppressed = core[e].suppressed /\ core'[e].revision >= core[e].revision
      BY <2>1, <2>9
    <2>10. ASSUME NEW d \in ClipDevices, NEW peers, Cancelled(d, peers)
           PROVE  \A l \in Links : box'[l] = box[l] \/ box'[l].pc = "none"
      BY <2>10 DEF Cancelled, Nothing
    <2>11. Nothing.pc = "none"
      BY DEF Nothing
    <2>12. ASSUME NEW d \in ClipDevices, Expire(d) \/ NotAChange(d) PROVE CopiesAgree'
      <3>1. \A e \in ClipDevices : notice'[e] \in {0, notice[e]}
        BY <2>1, <2>12 DEF Expire, NotAChange, ClipIInv, ClipTypeOK
      <3> QED BY <2>1, <2>7, <2>12, <3>1 DEF Expire, NotAChange
    <2>13. ASSUME NEW d \in ClipDevices, NEW p \in ClipDevices, SendLease(d, p) PROVE CopiesAgree'
      <3>1. \A l \in Links : \A m \in streams'[l] : m \in streams[l] \/ m.type = "lease"
        BY <2>1, <2>13 DEF SendLease
      <3> QED BY <2>1, <2>7, <2>13, <3>1 DEF SendLease
    <2>14. ASSUME NEW d \in ClipDevices, NEW p \in ClipDevices, NEW m, ReadLease(d, p, m) PROVE CopiesAgree'
      <3>1. \A l \in Links : \A n \in streams'[l] : n \in streams[l]
        BY <2>1, <2>14 DEF ReadLease
      <3>2. \A l \in Links : reading'[l] = reading[l] \/ reading'[l].pc \in {"none", "admitted", "lease"}
        BY <2>1, <2>11, <2>14 DEF ReadLease
      <3> QED BY <2>1, <2>7, <2>14, <3>1, <3>2 DEF ReadLease
    <2>36. ASSUME NEW d \in ClipDevices, NEW p \in ClipDevices, ReadBaseline(d, p) PROVE CopiesAgree'
      <3>1. \A l \in Links : reading'[l] = reading[l] \/ reading'[l].pc = "lease"
        BY <2>1, <2>36 DEF ReadBaseline
      <3> QED BY <2>1, <2>7, <2>36, <3>1 DEF ReadBaseline
    <2>15. ASSUME NEW d \in ClipDevices, NEW p \in ClipDevices, InstallLease(d, p) PROVE CopiesAgree'
      <3>1. PICK x : UNCHANGED core \/ core' = [core EXCEPT ![d].lamport = x]
        BY <2>15 DEF InstallLease
      <3>2. \A e \in ClipDevices : core'[e].suppressed = core[e].suppressed /\ core'[e].revision >= core[e].revision
        BY <2>1, <3>1 DEF CoreFields
      <3>3. \A l \in Links : reading'[l] = reading[l] \/ reading'[l].pc = "none"
        BY <2>1, <2>11, <2>15 DEF InstallLease
      <3> QED BY <2>7, <2>15, <3>2, <3>3 DEF InstallLease
    <2>16. ASSUME NEW l \in Links, LoseMessage(l) PROVE CopiesAgree'
      <3>1. \A k \in Links : \A n \in streams'[k] : n \in streams[k]
        BY <2>1, <2>16 DEF LoseMessage
      <3>2. \A k \in Links : reading'[k] = reading[k] \/ reading'[k].pc = "none"
        BY <2>1, <2>11, <2>16 DEF LoseMessage
      <3> QED BY <2>1, <2>7, <2>16, <3>1, <3>2 DEF LoseMessage
    <2>17. ASSUME NEW d, NEW p,
                  SetClipboardGrant(d, p, "send") \/ SetClipboardGrant(d, p, "receive") \/ ClearClipboardGrants(d, p)
           PROVE  CopiesAgree'
      <3>1. past'.private = past.private
        BY <2>1, <2>17 DEF SetClipboardGrant, ClearClipboardGrants, Known
      <3> QED BY <2>1, <2>7, <2>17, <3>1 DEF SetClipboardGrant, ClearClipboardGrants
    <2>18. ASSUME NEW d \in ClipDevices, GrantIsSet(d) PROVE CopiesAgree'
      <3>1. PICK c : c = [core[d] EXCEPT !.revision = @ + 1]
        OBVIOUS
      <3>2. DOMAIN c = CoreFields /\ c.revision = core[d].revision + 1 /\ c.suppressed = core[d].suppressed
        BY <2>1, <3>1 DEF CoreFields
      <3>3. UNCHANGED core \/ core' = [core EXCEPT ![d] = NoPending(c)]
        BY <2>18, <3>1 DEF GrantIsSet, Invalidated
      <3>4. \A e \in ClipDevices : core'[e].suppressed = core[e].suppressed /\ core'[e].revision >= core[e].revision
        BY <2>1, <2>8, <2>9, <3>2, <3>3
      <3> QED BY <2>7, <2>10, <2>18, <3>4 DEF GrantIsSet
    <2>19. ASSUME NEW d \in ClipDevices, NEW paused, NEW gen, ResetClipboard(d, paused, gen)
           PROVE  /\ \A e \in ClipDevices : core'[e].suppressed = core[e].suppressed
                                            /\ core'[e].revision >= core[e].revision
                  /\ \A l \in Links : box'[l] = box[l] \/ box'[l].pc = "none"
      <3>1. PICK c : c = [core[d] EXCEPT !.paused = paused, !.osGen = gen, !.revision = @ + 1]
        OBVIOUS
      <3>2. DOMAIN c = CoreFields /\ c.revision = core[d].revision + 1 /\ c.suppressed = core[d].suppressed
        BY <2>1, <3>1 DEF CoreFields
      <3>3. core' = [core EXCEPT ![d] = NoPending(c)]
        BY <2>19, <3>1 DEF ResetClipboard
      <3> QED BY <2>1, <2>8, <2>9, <2>10, <2>19, <3>2, <3>3 DEF ResetClipboard
    <2>20. ASSUME NEW d \in ClipDevices, GrantsAreCleared(d) PROVE CopiesAgree'
      <3>1. PICK paused, gen : ResetClipboard(d, paused, gen)
        BY <2>20 DEF GrantsAreCleared
      <3> QED BY <2>7, <2>19, <2>20, <3>1 DEF GrantsAreCleared
    <2>21. ASSUME NEW d \in ClipDevices, SetClipboardSuspended(d) PROVE CopiesAgree'
      <3>1. past'.private = past.private
        BY <2>1, <2>21 DEF SetClipboardSuspended, Known
      <3>2. \A e \in ClipDevices : owner'[e] = owner[e] \/ owner'[e].pc = "reset"
        BY <2>1, <2>21 DEF SetClipboardSuspended
      <3> QED BY <2>1, <2>7, <2>21, <3>1, <3>2 DEF SetClipboardSuspended
    <2>22. ASSUME NEW d \in ClipDevices, Suspended(d) PROVE CopiesAgree'
      <3>1. PICK paused, gen : ResetClipboard(d, paused, gen)
        BY <2>22 DEF Suspended
      <3>2. \A e \in ClipDevices : owner'[e] = owner[e] \/ owner'[e].pc = "none"
        BY <2>1, <2>11, <2>22 DEF Suspended
      <3> QED BY <2>7, <2>19, <2>22, <3>1, <3>2 DEF Suspended
    <2>23. ASSUME NEW d \in ClipDevices, RestartClipboard(d) PROVE CopiesAgree'
      <3>1. past'.private = past.private
        BY <2>1, <2>23 DEF RestartClipboard
      <3>2. ASSUME NEW e \in ClipDevices
            PROVE  /\ notice'[e] \in {0, notice[e]}
                   /\ owner'[e] = owner[e] \/ owner'[e].pc = "none"
                   /\ \/ core'[e].suppressed = core[e].suppressed /\ core'[e].revision >= core[e].revision
                      \/ notice'[e] = 0 /\ owner'[e].pc = "none"
        <4>1. CASE e = d
          BY <2>1, <2>11, <2>23, <4>1 DEF RestartClipboard, ClipIInv, ClipTypeOK
        <4>2. CASE e # d
          BY <2>1, <2>23, <4>2 DEF RestartClipboard, ClipIInv, ClipTypeOK
        <4> QED BY <4>1, <4>2
      <3>3. \A l \in Links : /\ box'[l] = box[l] \/ box'[l].pc = "none"
                             /\ \A m \in streams'[l] : m \in streams[l]
                             /\ reading'[l] = reading[l] \/ reading'[l].pc = "none"
        BY <2>11, <2>23 DEF RestartClipboard
      <3> QED BY <2>7, <2>23, <3>1, <3>2, <3>3 DEF RestartClipboard
    <2>24. ASSUME NEW d \in ClipDevices, UserCopies(d) PROVE CopiesAgree'
      <3>1. PICK c : c = <<d, board[d].gen>>
        OBVIOUS
      <3>2. /\ board' = [board EXCEPT ![d] = [gen |-> board[d].gen + 1, content |-> c]]
            /\ notice' = [notice EXCEPT ![d] = IF held[d] THEN @ ELSE board[d].gen + 1]
            /\ past'.private = IF held[d] THEN past.private \cup {c} ELSE past.private
            /\ UNCHANGED <<core, owner, box, streams, reading>>
        BY <2>1, <2>24, <3>1 DEF UserCopies, Changed, ClipIInv, ClipTypeOK
      <3>3. /\ board'[d] = [gen |-> board[d].gen + 1, content |-> c]
            /\ notice'[d] = IF held[d] THEN notice[d] ELSE board[d].gen + 1
            /\ \A e \in ClipDevices : e # d => board'[e] = board[e] /\ notice'[e] = notice[e]
        BY <3>2 DEF ClipIInv, ClipTypeOK
      <3>4. /\ \A e \in ClipDevices : board'[e].gen >= board[e].gen
            /\ c \in Contents /\ c[1] = d /\ c[2] = board[d].gen
        BY <2>1, <3>1, <3>3 DEF Contents
      <3>5. ~Past(c) /\ Past(c)'
        BY <2>1, <3>3, <3>4 DEF Past
      <3>6. (\A x : Past(x) => Past(x)') /\ (\A x : Public(x) => Public(x)')
        BY <2>2, <3>2, <3>4, <3>5 DEF Public
      <3>7. ASSUME NEW e \in ClipDevices PROVE NoticeAgrees(e)' /\ OwnerAgrees(e)'
        <4>1. CASE e # d
          <5>1. board'[e] = board[e] /\ notice'[e] = notice[e] /\ core'[e] = core[e] /\ owner'[e] = owner[e]
            BY <3>2, <3>3, <4>1
          <5> QED BY <2>1, <2>3, <2>4, <3>6, <5>1
        <4>2. CASE e = d
          <5>1. NoticeAgrees(d) /\ board'[d].gen = board[d].gen + 1 /\ board'[d].content = c
            BY <3>3 DEF ClipIInv, CopiesAgree
          <5>2. c \notin past.private
            BY <3>5 DEF ClipIInv, CopiesAgree
          <5>3. NoticeAgrees(d)'
            BY <2>1, <3>2, <3>3, <3>4, <3>5, <5>1, <5>2 DEF NoticeAgrees, Public, Recognized
          <5>4. notice'[d] = notice[d] \/ notice'[d] > board[d].gen
            BY <2>1, <3>3
          <5>5. board'[d].gen > board[d].gen /\ core'[d] = core[d] /\ owner'[d] = owner[d]
            BY <2>1, <3>2, <5>1
          <5>6. OwnerAgrees(d)'
            BY <2>1, <2>4, <3>6, <5>4, <5>5
          <5> QED BY <4>2, <5>3, <5>6
        <4> QED BY <4>1, <4>2
      <3>8. \A l \in Links : LinkAgrees(l)'
        BY <2>6, <3>2, <3>6
      <3>9. \A x \in past'.private : Past(x)'
        BY <3>2, <3>5, <3>6 DEF ClipIInv, CopiesAgree
      <3> QED BY <3>7, <3>8, <3>9 DEF CopiesAgree
    \* Only the owner of one device goes on.
    <2>25. ASSUME UNCHANGED <<board, notice, streams, reading>>, past'.private = past.private,
                  NEW d \in ClipDevices, OwnerAgrees(d)', NoticeAgrees(d)',
                  \A e \in ClipDevices : e # d => owner'[e] = owner[e] /\ core'[e] = core[e],
                  \A l \in Links : box'[l] = box[l] \/ LinkAgrees(l)'
           PROVE  CopiesAgree'
      <3>1. \A x : (Past(x) => Past(x)') /\ (Public(x) => Public(x)')
        BY <2>25 DEF Past, Public
      <3>2. ASSUME NEW e \in ClipDevices, e # d PROVE NoticeAgrees(e)' /\ OwnerAgrees(e)'
        BY <2>1, <2>3, <2>4, <2>25, <3>1, <3>2
      <3>3. \A l \in Links : LinkAgrees(l)'
        BY <2>6, <2>25, <3>1
      <3>4. \A x \in past'.private : Past(x)'
        BY <2>25, <3>1 DEF ClipIInv, CopiesAgree
      <3> QED BY <2>25, <3>2, <3>3, <3>4 DEF CopiesAgree
    <2>26. ASSUME NEW d \in ClipDevices, ReadPayload(d) PROVE CopiesAgree'
      <3>1. OwnerAgrees(d) /\ NoticeAgrees(d) /\ owner[d].pc = "observed" /\ DOMAIN owner[d] = ReadFields
        BY <2>26 DEF ReadPayload, ClipIInv, CopiesAgree, OwnerAgrees, Working
      <3>2. UNCHANGED <<board, notice, streams, reading, past, core, box>>
        BY <2>26 DEF ReadPayload
      <3>3. NoticeAgrees(d)'
        BY <3>1, <3>2 DEF NoticeAgrees, Past, Public, Recognized
      <3>4. PICK o : o = [owner[d] EXCEPT !.pc = "read", !.content = board[d].content]
        OBVIOUS
      <3>5. \/ owner' = [owner EXCEPT ![d] = Nothing]
            \/ board[d].gen = owner[d].gen /\ owner' = [owner EXCEPT ![d] = o]
        BY <2>1, <2>26, <3>4 DEF ReadPayload
      <3>6. OwnerAgrees(d)'
        <4>1. CASE owner' = [owner EXCEPT ![d] = Nothing]
          BY <2>1, <2>5, <2>11, <4>1
        <4>2. CASE board[d].gen = owner[d].gen /\ owner' = [owner EXCEPT ![d] = o]
          <5>1. /\ o.pc = "read" /\ o.gen = owner[d].gen /\ o.revision = owner[d].revision
                /\ o.content = board[d].content /\ DOMAIN o = ReadFields
            BY <3>1, <3>4 DEF ReadFields
          <5>2. owner'[d] = o
            BY <2>1, <4>2
          <5>3. Public(board[d].content) /\ Recognized(d, board[d].gen, board[d].content)
            BY <3>1, <4>2 DEF OwnerAgrees
          <5>4. Public(owner[d].content)' /\ Recognized(d, owner[d].gen, owner[d].content)'
            BY <3>2, <4>2, <5>1, <5>2, <5>3 DEF Public, Past, Recognized
          <5> QED BY <3>1, <3>2, <5>1, <5>2, <5>4 DEF OwnerAgrees, Working
        <4> QED BY <3>5, <4>1, <4>2
      <3> QED BY <2>1, <2>25, <2>26, <3>2, <3>3, <3>6 DEF ReadPayload
    <2>27. ASSUME NEW d \in ClipDevices, PrepareObserved(d) PROVE CopiesAgree'
      <3>1. OwnerAgrees(d) /\ NoticeAgrees(d) /\ owner[d].pc = "read"
        BY <2>27 DEF PrepareObserved, ClipIInv, CopiesAgree
      <3>2. UNCHANGED <<board, notice, streams, reading, past, box>>
        BY <2>27 DEF PrepareObserved
      <3>3. PICK e : e = owner[d]
        OBVIOUS
      <3>4. PICK sup : core' = [core EXCEPT ![d].suppressed = sup]
                       /\ sup = IF <<e.gen, e.content>> = core[d].suppressed THEN <<>> ELSE core[d].suppressed
        BY <2>27, <3>3 DEF PrepareObserved
      <3>5. /\ core'[d].suppressed = sup /\ core'[d].revision = core[d].revision
            /\ \A x \in ClipDevices : x # d => core'[x] = core[x] /\ owner'[x] = owner[x]
        BY <2>1, <2>27, <3>4 DEF CoreFields, PrepareObserved
      <3>6. /\ DOMAIN e = ReadFields /\ Public(e.content)
            /\ e.gen \in Nat /\ e.gen <= board[d].gen /\ (notice[d] = 0 \/ notice[d] > e.gen)
            /\ Recognized(d, e.gen, e.content) \/ e.revision < core[d].revision
            /\ e.revision \in Nat /\ e.revision <= core[d].revision
        BY <3>1, <3>3 DEF OwnerAgrees, Working
      <3>7. NoticeAgrees(d)'
        <4>1. CASE sup = core[d].suppressed
          BY <3>1, <3>2, <3>5, <4>1 DEF NoticeAgrees, Past, Public, Recognized
        <4>2. CASE core[d].suppressed = <<e.gen, e.content>>
          <5>1. notice[d] # 0 /\ notice[d] = board[d].gen => board[d].content[1] = d
            <6> SUFFICES ASSUME notice[d] # 0, notice[d] = board[d].gen PROVE board[d].content[1] = d
              OBVIOUS
            <6>1. Recognized(d, board[d].gen, board[d].content) /\ board[d].gen # e.gen
              BY <2>1, <3>1, <3>6 DEF NoticeAgrees
            <6> QED BY <4>2, <6>1 DEF Recognized
          <5> QED BY <3>1, <3>2, <5>1 DEF NoticeAgrees, Past, Public, Recognized
        <4> QED BY <3>4, <4>1, <4>2
      <3>8. OwnerAgrees(d)'
        <4>1. CASE owner' = [owner EXCEPT ![d] = Nothing]
          BY <2>1, <2>5, <2>11, <4>1
        <4>2. CASE Prepared(d, e) /\ owner' = [owner EXCEPT ![d] = [e EXCEPT !.pc = "prepared"]]
          <5>1. PICK o : o = [e EXCEPT !.pc = "prepared"]
            OBVIOUS
          <5>2. /\ o.pc = "prepared" /\ o.content = e.content /\ DOMAIN o = ReadFields
                /\ o.gen = e.gen /\ o.revision = e.revision
            BY <3>6, <5>1 DEF ReadFields
          <5>3. owner'[d] = o
            BY <2>1, <4>2, <5>1
          <5>4. e.content[1] = d
            BY <2>1, <4>2, <3>6 DEF Prepared, LocalCurrent, Recognized
          <5>5. Public(owner[d].content)'
            BY <3>2, <3>6, <5>2, <5>3 DEF Public, Past
          <5> QED BY <3>2, <3>5, <3>6, <5>2, <5>3, <5>4, <5>5 DEF OwnerAgrees, Working
        <4> QED BY <2>27, <3>3, <4>1, <4>2 DEF PrepareObserved
      <3> QED BY <2>25, <3>2, <3>5, <3>7, <3>8
    \* Only the owner's place, targets and jobs change.
    <2>37. ASSUME NEW d \in ClipDevices, UNCHANGED <<board, notice, streams, reading, past, core>>,
                  owner[d].pc \in Working,
                  \A x \in ClipDevices : x # d => owner'[x] = owner[x],
                  \/ owner'[d].pc = "none"
                  \/ /\ DOMAIN owner'[d] = ReadFields /\ owner'[d].gen = owner[d].gen
                     /\ owner'[d].revision = owner[d].revision /\ owner'[d].content = owner[d].content
                     /\ \/ owner[d].pc \in {"observed", "granted"} /\ owner'[d].pc \in {"observed", "granted"}
                        \/ owner[d].pc \in {"prepared", "bound"} /\ owner'[d].pc \in {"prepared", "bound"},
                  \A l \in Links : box'[l] = box[l] \/ LinkAgrees(l)'
           PROVE  CopiesAgree'
      <3>1. OwnerAgrees(d) /\ NoticeAgrees(d)
        BY DEF ClipIInv, CopiesAgree
      <3>2. NoticeAgrees(d)'
        BY <2>37, <3>1 DEF NoticeAgrees, Past, Public, Recognized
      <3>3. \A c : Public(c) => Public(c)'
        BY <2>37 DEF Public, Past
      <3>4. OwnerAgrees(d)'
        <4>1. CASE owner'[d].pc = "none"
          BY <2>5, <4>1
        <4>2. CASE owner[d].pc \in {"observed", "granted"} /\ owner'[d].pc \in {"observed", "granted"}
          BY <2>37, <3>1, <3>3, <4>2 DEF OwnerAgrees, Recognized, Working
        <4>3. CASE owner[d].pc \in {"prepared", "bound"} /\ owner'[d].pc \in {"prepared", "bound"}
          BY <2>37, <3>1, <3>3, <4>3 DEF OwnerAgrees, Working
        <4> QED BY <2>37, <4>1, <4>2, <4>3
      <3> QED BY <2>1, <2>25, <2>37, <3>2, <3>4
    <2>38. ASSUME NEW d \in ClipDevices, owner[d].pc \in Working PROVE DOMAIN owner[d] = ReadFields
      BY <2>38 DEF ClipIInv, CopiesAgree, OwnerAgrees
    <2>39. ASSUME NEW d \in ClipDevices, NEW p \in ClipDevices, ClipboardGrant(d, p) PROVE CopiesAgree'
      <3>1. owner[d].pc = "observed" /\ DOMAIN owner[d] = ReadFields
        BY <2>38, <2>39 DEF ClipboardGrant, Working
      <3>2. PICK rest, now : owner' = [owner EXCEPT ![d] = [owner[d] EXCEPT !.pc = "granted", !.rest = rest, !.now = now]]
        BY <2>39 DEF ClipboardGrant
      <3>3. PICK o : o = [owner[d] EXCEPT !.pc = "granted", !.rest = rest, !.now = now]
        OBVIOUS
      <3>4. /\ o.pc = "granted" /\ o.gen = owner[d].gen /\ o.revision = owner[d].revision
            /\ o.content = owner[d].content /\ DOMAIN o = ReadFields
        BY <3>1, <3>3 DEF ReadFields
      <3>5. owner'[d] = o /\ \A x \in ClipDevices : x # d => owner'[x] = owner[x]
        BY <2>1, <3>2, <3>3
      <3> QED BY <2>37, <2>39, <3>1, <3>4, <3>5 DEF ClipboardGrant, Working
    <2>40. ASSUME NEW d \in ClipDevices, OutboundForObservation(d) PROVE CopiesAgree'
      <3>1. owner[d].pc = "granted" /\ DOMAIN owner[d] = ReadFields
        BY <2>38, <2>40 DEF OutboundForObservation, Working
      <3>2. PICK jobs : owner' = [owner EXCEPT ![d] =
                                     [owner[d] EXCEPT !.pc = "observed", !.now = Nothing, !.jobs = jobs]]
        BY <2>40 DEF OutboundForObservation
      <3>3. PICK o : o = [owner[d] EXCEPT !.pc = "observed", !.now = Nothing, !.jobs = jobs]
        OBVIOUS
      <3>4. /\ o.pc = "observed" /\ o.gen = owner[d].gen /\ o.revision = owner[d].revision
            /\ o.content = owner[d].content /\ DOMAIN o = ReadFields
        BY <3>1, <3>3 DEF ReadFields
      <3>5. owner'[d] = o /\ \A x \in ClipDevices : x # d => owner'[x] = owner[x]
        BY <2>1, <3>2, <3>3
      <3> QED BY <2>37, <2>40, <3>1, <3>4, <3>5 DEF OutboundForObservation, Working
    <2>41. ASSUME NEW e, NEW jobs, DOMAIN e = ReadFields
           PROVE  \/ Without(e, jobs).pc = "none"
                  \/ /\ Without(e, jobs).pc = "prepared" /\ Without(e, jobs).gen = e.gen
                     /\ Without(e, jobs).revision = e.revision /\ Without(e, jobs).content = e.content
                     /\ DOMAIN Without(e, jobs) = ReadFields
      BY <2>11, <2>41 DEF Without, ReadFields
    <2>42. ASSUME NEW d \in ClipDevices, BindScoped(d) PROVE CopiesAgree'
      <3>1. owner[d].pc = "prepared" /\ DOMAIN owner[d] = ReadFields
        BY <2>38, <2>42 DEF BindScoped, Working
      <3>2. PICK j, jobs : \/ owner' = [owner EXCEPT ![d] = [owner[d] EXCEPT !.pc = "bound", !.jobs = jobs, !.now = j]]
                           \/ owner' = [owner EXCEPT ![d] = Without(owner[d], jobs)]
        BY <2>42 DEF BindScoped
      <3>3. PICK o : o = [owner[d] EXCEPT !.pc = "bound", !.jobs = jobs, !.now = j]
        OBVIOUS
      <3>4. /\ o.pc = "bound" /\ o.gen = owner[d].gen /\ o.revision = owner[d].revision
            /\ o.content = owner[d].content /\ DOMAIN o = ReadFields
        BY <3>1, <3>3 DEF ReadFields
      <3>5. /\ owner'[d] = o \/ owner'[d] = Without(owner[d], jobs)
            /\ \A x \in ClipDevices : x # d => owner'[x] = owner[x]
        BY <2>1, <3>2, <3>3
      <3>6. CASE owner'[d] = o
        BY <2>37, <2>42, <3>1, <3>4, <3>5, <3>6 DEF BindScoped, Working
      <3>7. CASE owner'[d] = Without(owner[d], jobs)
        BY <2>37, <2>41, <2>42, <3>1, <3>5, <3>7 DEF BindScoped, Working
      <3> QED BY <3>5, <3>6, <3>7
    <2>28. ASSUME NEW d \in ClipDevices, ObserveLocalEvent(d) PROVE CopiesAgree'
      <3>1. NoticeAgrees(d) /\ notice[d] # 0
        BY <2>28 DEF ObserveLocalEvent, ClipIInv, CopiesAgree
      <3>2. PICK c : c = [core[d] EXCEPT !.seq = @ + 1, !.lamport = @ + 1, !.osGen = notice[d], !.revision = @ + 1,
                                         !.committed = <<core[d].lamport + 1, d, core[d].boot, core[d].seq + 1>>]
        OBVIOUS
      <3>3. DOMAIN c = CoreFields /\ c.revision = core[d].revision + 1 /\ c.suppressed = core[d].suppressed
        BY <2>1, <3>2 DEF CoreFields
      <3>4. core' = [core EXCEPT ![d] = NoPending(c)]
        BY <2>28, <3>2 DEF ObserveLocalEvent, Observed
      <3>5. /\ core'[d].revision = core[d].revision + 1 /\ core'[d].suppressed = core[d].suppressed
            /\ \A e \in ClipDevices : e # d => core'[e] = core[e]
        BY <2>1, <2>8, <3>3, <3>4
      <3>6. /\ UNCHANGED <<board, streams, reading>> /\ past'.private = past.private
            /\ notice'[d] = 0 /\ \A e \in ClipDevices : e # d => notice'[e] = notice[e]
        BY <2>1, <2>28 DEF ObserveLocalEvent, ClipIInv, ClipTypeOK
      <3>7. /\ owner'[d].pc = "observed" /\ owner'[d].gen = notice[d] /\ owner'[d].revision = core'[d].revision
            /\ DOMAIN owner'[d] = ReadFields /\ \A e \in ClipDevices : e # d => owner'[e] = owner[e]
        BY <2>1, <2>28 DEF ObserveLocalEvent, ReadFields
      <3>8. \A x : (Past(x) => Past(x)') /\ (Public(x) => Public(x)')
        BY <3>6 DEF Past, Public
      <3>9. OwnerAgrees(d)'
        <4>1. notice[d] <= board[d].gen
          BY <3>1 DEF NoticeAgrees
        <4>2. notice[d] = board[d].gen =>
                Public(board[d].content)' /\ Recognized(d, board[d].gen, board[d].content)'
          BY <3>1, <3>5, <3>6, <3>8 DEF NoticeAgrees, Recognized
        <4> QED BY <2>1, <3>6, <3>7, <4>1, <4>2 DEF OwnerAgrees, Working
      <3>10. ASSUME NEW e \in ClipDevices PROVE NoticeAgrees(e)' /\ OwnerAgrees(e)'
        <4>1. NoticeAgrees(e)'
          BY <2>3, <3>5, <3>6, <3>8
        <4>2. CASE e # d
          BY <2>1, <2>4, <3>5, <3>6, <3>7, <3>8, <4>1, <4>2
        <4> QED BY <3>9, <4>1, <4>2
      <3>11. \A l \in Links : LinkAgrees(l)'
        BY <2>6, <2>10, <2>28, <3>6, <3>8 DEF ObserveLocalEvent
      <3>12. \A x \in past'.private : Past(x)'
        BY <3>6, <3>8 DEF ClipIInv, CopiesAgree
      <3> QED BY <3>10, <3>11, <3>12 DEF CopiesAgree
    <2>29. ASSUME NEW d \in ClipDevices, NEW p \in ClipDevices, Enqueue(d, p) PROVE CopiesAgree'
      <3>1. owner[d].pc = "bound" /\ DOMAIN owner[d] = ReadFields
        BY <2>29, <2>38 DEF Enqueue, Working
      <3>2. Public(owner[d].content) /\ owner[d].content[1] = d
        BY <3>1 DEF ClipIInv, CopiesAgree, OwnerAgrees
      <3>3. UNCHANGED <<board, notice, streams, reading, past, core>>
        BY <2>29 DEF Enqueue
      <3>4. /\ owner'[d] = Without(owner[d], owner[d].jobs)
            /\ \A x \in ClipDevices : x # d => owner'[x] = owner[x]
        BY <2>1, <2>29 DEF Enqueue
      <3>5. \A x : (Past(x) => Past(x)') /\ (Public(x) => Public(x)')
        BY <3>3 DEF Past, Public
      <3>6. ASSUME NEW l \in Links PROVE box'[l] = box[l] \/ LinkAgrees(l)'
        <4>1. CASE l # <<d, p>>
          BY <2>1, <2>29, <4>1 DEF Enqueue
        <4>2. CASE l = <<d, p>>
          <5>1. box'[l].content = owner[d].content
            BY <2>1, <2>29, <4>2 DEF Enqueue
          <5>2. Public(box[l].content)' /\ box'[l].content[1] = l[1]
            BY <3>2, <3>3, <4>2, <5>1 DEF Public, Past
          <5>3. LinkAgrees(l)
            BY DEF ClipIInv, CopiesAgree
          <5> QED BY <3>3, <3>5, <5>2, <5>3 DEF LinkAgrees
        <4> QED BY <4>1, <4>2
      <3> QED BY <2>37, <2>41, <3>1, <3>3, <3>4, <3>6 DEF Working
    \* What is on its way changes, and no device.
    <2>30. ASSUME UNCHANGED <<board, notice, owner, past>>,
                  \A e \in ClipDevices : core'[e].suppressed = core[e].suppressed /\ core'[e].revision = core[e].revision,
                  \A l \in Links : LinkAgrees(l)'
           PROVE  CopiesAgree'
      <3>1. \A x : (Past(x) => Past(x)') /\ (Public(x) => Public(x)')
        BY <2>30 DEF Past, Public
      <3>2. ASSUME NEW e \in ClipDevices PROVE NoticeAgrees(e)' /\ OwnerAgrees(e)'
        BY <2>1, <2>3, <2>4, <2>30, <3>1, <3>2
      <3>3. \A x \in past'.private : Past(x)'
        BY <2>30, <3>1 DEF ClipIInv, CopiesAgree
      <3> QED BY <2>30, <3>2, <3>3 DEF CopiesAgree
    <2>31. ASSUME NEW d \in ClipDevices, NEW p \in ClipDevices, <<d, p>> \in Links, SendJob(d, p) PROVE CopiesAgree'
      <3>1. LinkAgrees(<<d, p>>) /\ box[<<d, p>>].pc = "job"
        BY <2>31 DEF SendJob, ClipIInv, CopiesAgree
      <3>2. UNCHANGED <<board, notice, reading, past, core, owner>>
        BY <2>31 DEF SendJob
      <3>3. \A x : (Past(x) => Past(x)') /\ (Public(x) => Public(x)')
        BY <3>2 DEF Past, Public
      <3>4. ASSUME NEW l \in Links PROVE LinkAgrees(l)'
        <4>1. box'[l] = box[l] \/ box'[l].pc = "none"
          BY <2>1, <2>11, <2>31 DEF SendJob
        <4>2. LinkAgrees(l)
          BY DEF ClipIInv, CopiesAgree
        <4>3. ASSUME NEW m \in streams'[l], m.type # "lease"
              PROVE  DOMAIN m = EventFields /\ Public(m.content)' /\ m.content[1] = l[1]
          <5>1. CASE m \in streams[l]
            BY <3>3, <4>2, <4>3, <5>1 DEF LinkAgrees
          <5>2. CASE m \notin streams[l]
            <6>1. l = <<d, p>> /\ m.content = box[<<d, p>>].content /\ DOMAIN m = EventFields
              BY <2>1, <2>31, <4>3, <5>2 DEF SendJob, EventFields
            <6> QED BY <3>1, <3>3, <6>1 DEF LinkAgrees
          <5> QED BY <5>1, <5>2
        <4> QED BY <3>2, <3>3, <4>1, <4>2, <4>3 DEF LinkAgrees
      <3> QED BY <2>1, <2>30, <3>2, <3>4
    <2>43. ASSUME NEW d \in ClipDevices, NEW p \in ClipDevices, <<d, p>> \in Links, WriteJob(d, p) PROVE CopiesAgree'
      <3>1. UNCHANGED <<board, notice, reading, past, core, owner, box>>
        BY <2>43 DEF WriteJob
      <3>2. \A x : (Past(x) => Past(x)') /\ (Public(x) => Public(x)')
        BY <3>1 DEF Past, Public
      <3>3. PICK m, n, sent :
              /\ m \in streams[<<d, p>>] /\ m.type = "open" /\ n = [m EXCEPT !.type = "event"] /\ sent \in {{}, {n}}
              /\ streams' = [streams EXCEPT ![<<d, p>>] = (@ \ {m}) \cup sent]
        BY <2>43 DEF WriteJob
      <3>4. \A l \in Links : \A k \in streams'[l] : k \in streams[l] \/ (l = <<d, p>> /\ k = n)
        BY <2>1, <3>3
      <3>5. DOMAIN m = EventFields /\ Public(m.content) /\ m.content[1] = d
        BY <2>43, <3>3 DEF ClipIInv, CopiesAgree, LinkAgrees
      <3>6. DOMAIN n = EventFields /\ n.content = m.content
        BY <3>3, <3>5 DEF EventFields
      <3>7. ASSUME NEW l \in Links PROVE LinkAgrees(l)'
        <4>1. LinkAgrees(l)
          BY DEF ClipIInv, CopiesAgree
        <4>2. ASSUME NEW k \in streams'[l], k.type # "lease"
              PROVE  DOMAIN k = EventFields /\ Public(k.content)' /\ k.content[1] = l[1]
          BY <3>2, <3>4, <3>5, <3>6, <4>1, <4>2 DEF LinkAgrees
        <4> QED BY <3>1, <3>2, <4>1, <4>2 DEF LinkAgrees
      <3> QED BY <2>1, <2>30, <3>1, <3>7
    \* A reader takes up a header or begins with it.
    <2>44. ASSUME NEW d \in ClipDevices, NEW p \in ClipDevices, <<p, d>> \in Links, NEW m,
                  Public(m.content), m.content[1] = p, UNCHANGED <<board, notice, box, past, owner>>,
                  \A e \in ClipDevices : core'[e].suppressed = core[e].suppressed /\ core'[e].revision = core[e].revision,
                  \A l \in Links : \A n \in streams'[l] : n \in streams[l],
                  \A l \in Links : \/ reading'[l] = reading[l] \/ reading'[l].pc = "none"
                                   \/ l = <<p, d>> /\ reading'[l].event = m
           PROVE  CopiesAgree'
      <3>1. \A x : (Past(x) => Past(x)') /\ (Public(x) => Public(x)')
        BY <2>44 DEF Past, Public
      <3>2. ASSUME NEW l \in Links PROVE LinkAgrees(l)'
        <4>1. LinkAgrees(l)
          BY DEF ClipIInv, CopiesAgree
        <4>2. reading'[l].pc \in {"header", "candidate"} =>
                Public(reading[l].event.content)' /\ reading'[l].event.content[1] = l[1]
          <5>1. CASE reading'[l] = reading[l]
            BY <3>1, <4>1, <5>1 DEF LinkAgrees, Public, Past
          <5>2. CASE reading'[l].pc = "none"
            BY <5>2
          <5>3. CASE l = <<p, d>> /\ reading'[l].event = m
            BY <2>44, <3>1, <5>3 DEF Public, Past
          <5> QED BY <2>44, <5>1, <5>2, <5>3
        <4> QED BY <2>44, <3>1, <4>1, <4>2 DEF LinkAgrees
      <3> QED BY <2>30, <2>44, <3>2
    <2>32. ASSUME NEW d \in ClipDevices, NEW p \in ClipDevices, <<p, d>> \in Links, BeginHeader(p, d) PROVE CopiesAgree'
      <3>1. PICK m : m = reading[<<p, d>>].event
        OBVIOUS
      <3>2. Public(m.content) /\ m.content[1] = p
        BY <2>32, <3>1 DEF BeginHeader, ClipIInv, CopiesAgree, LinkAgrees
      <3>3. PICK x :
              /\ x.pc = "none" \/ x.event = m
              /\ reading' = [reading EXCEPT ![<<p, d>>] = x]
              /\ \/ UNCHANGED core
                 \/ core' = [core EXCEPT ![d].pending = m.key, ![d].pendingRevision = core[d].revision,
                                         ![d].pendingLease = m.lease]
        <4>1. PICK x : x = [pc |-> "candidate", event |-> m, revision |-> core[d].revision, baseline |-> core[d].osGen]
          OBVIOUS
        <4>2. x.event = m
          BY <4>1
        <4> QED BY <2>11, <2>32, <3>1, <4>1, <4>2 DEF BeginHeader
      <3>4. \A e \in ClipDevices : core'[e].suppressed = core[e].suppressed /\ core'[e].revision = core[e].revision
        BY <2>1, <3>3 DEF CoreFields
      <3>5. \A l \in Links : \/ reading'[l] = reading[l] \/ reading'[l].pc = "none"
                             \/ l = <<p, d>> /\ reading'[l].event = m
        BY <2>1, <3>3
      <3>6. UNCHANGED <<board, notice, box, past, owner, streams>>
        BY <2>32 DEF BeginHeader
      <3> QED BY <2>32, <2>44, <3>2, <3>4, <3>5, <3>6
    <2>45. ASSUME NEW d \in ClipDevices, NEW p \in ClipDevices, NEW m \in streams[<<p, d>>], <<p, d>> \in Links,
                  ReadHeader(p, d, m)
           PROVE  CopiesAgree'
      <3>1. Public(m.content) /\ m.content[1] = p
        BY <2>45 DEF ReadHeader, ClipIInv, CopiesAgree, LinkAgrees
      <3>2. PICK x : (x.pc = "none" \/ x.event = m) /\ reading' = [reading EXCEPT ![<<p, d>>] = x]
        <4>1. PICK x : x = [pc |-> "header", event |-> m]
          OBVIOUS
        <4>2. x.event = m
          BY <4>1
        <4> QED BY <2>11, <2>45, <4>1, <4>2 DEF ReadHeader
      <3>3. \A l \in Links : \/ reading'[l] = reading[l] \/ reading'[l].pc = "none"
                             \/ l = <<p, d>> /\ reading'[l].event = m
        BY <2>1, <3>2
      <3>4. \A l \in Links : \A n \in streams'[l] : n \in streams[l]
        BY <2>1, <2>45 DEF ReadHeader
      <3>5. UNCHANGED <<board, notice, box, past, owner, core>>
        BY <2>45 DEF ReadHeader
      <3> QED BY <2>44, <2>45, <3>1, <3>3, <3>4, <3>5
    <2>33. ASSUME NEW d \in ClipDevices, NEW p \in ClipDevices, <<p, d>> \in Links, Commit(p, d) PROVE CopiesAgree'
      <3>1. LinkAgrees(<<p, d>>) /\ reading[<<p, d>>].pc = "candidate"
        BY <2>33 DEF Commit, ClipIInv, CopiesAgree
      <3>2. UNCHANGED <<owner, box, streams>> /\ \A l \in Links : reading'[l] = reading[l] \/ reading'[l].pc = "none"
        BY <2>1, <2>11, <2>33 DEF Commit
      <3>3. CASE UNCHANGED <<core, board, notice, past>>
        BY <2>1, <2>7, <3>2, <3>3
      <3>4. CASE /\ core' = [core EXCEPT ![d] = Committed(d, p, reading[<<p, d>>].event)]
                 /\ Changed(d, reading[<<p, d>>].event.content)
                 /\ past' = [past EXCEPT !.known[d] = [content |-> reading[<<p, d>>].event.content,
                                                       key |-> reading[<<p, d>>].event.key]]
        <4>1. PICK m : m = reading[<<p, d>>].event
          OBVIOUS
        <4>2. Public(m.content) /\ m.content[1] = p
          BY <3>1, <4>1 DEF LinkAgrees
        <4>3. past'.private = past.private
          BY <2>1, <3>4
        <4>4. /\ board' = [board EXCEPT ![d] = [gen |-> board[d].gen + 1, content |-> m.content]]
              /\ notice' = [notice EXCEPT ![d] = IF held[d] THEN @ ELSE board[d].gen + 1]
          BY <3>4, <4>1 DEF Changed, ClipIInv, ClipTypeOK
        <4>5. /\ board'[d].gen = board[d].gen + 1 /\ board'[d].content = m.content
              /\ notice'[d] = IF held[d] THEN notice[d] ELSE board[d].gen + 1
              /\ \A e \in ClipDevices : e # d => board'[e] = board[e] /\ notice'[e] = notice[e]
          BY <4>4 DEF ClipIInv, ClipTypeOK
        <4>6. /\ Committed(d, p, m).revision = core[d].revision + 1
              /\ Committed(d, p, m).suppressed = <<board[d].gen + 1, m.content>>
          <5>1. PICK c, x : /\ Committed(d, p, m) = NoPending(c)
                            /\ c = [core[d] EXCEPT !.osGen = board[d].gen + 1, !.revision = @ + 1, !.high[p] = m.key,
                                     !.committed = m.key, !.suppressed = <<board[d].gen + 1, m.content>>, !.lamport = x]
            BY DEF Committed
          <5>2. /\ DOMAIN c = CoreFields /\ c.revision = core[d].revision + 1
                /\ c.suppressed = <<board[d].gen + 1, m.content>>
            BY <2>1, <5>1 DEF CoreFields
          <5> QED BY <2>8, <5>1, <5>2
        <4>7. /\ core'[d].revision = core[d].revision + 1 /\ core'[d].suppressed = <<board[d].gen + 1, m.content>>
              /\ \A e \in ClipDevices : e # d => core'[e] = core[e]
          BY <2>1, <3>4, <4>1, <4>6
        <4>8. \A e \in ClipDevices : board'[e].gen >= board[e].gen
          BY <2>1, <4>5
        <4>9. (\A x : Past(x) => Past(x)') /\ (\A x : Public(x) => Public(x)')
          BY <2>2, <4>3, <4>8
        <4>10. ASSUME NEW e \in ClipDevices PROVE NoticeAgrees(e)' /\ OwnerAgrees(e)'
          <5>1. CASE e # d
            <6>1. board'[e] = board[e] /\ notice'[e] = notice[e] /\ core'[e] = core[e] /\ owner'[e] = owner[e]
              BY <3>2, <4>5, <4>7, <5>1
            <6> QED BY <2>1, <2>3, <2>4, <4>9, <6>1
          <5>2. CASE e = d
            <6>1. notice[d] <= board[d].gen
              BY DEF ClipIInv, CopiesAgree, NoticeAgrees
            <6>2. Public(m.content)' /\ Past(m.content)'
              BY <4>2, <4>9 DEF Public
            <6>3. Public(board[d].content)' /\ Past(board[d].content)'
              BY <4>5, <6>2 DEF Public, Past
            <6>4. Recognized(d, board[d].gen, board[d].content)'
              BY <4>5, <4>7 DEF Recognized
            <6>5. notice'[d] <= board'[d].gen
              BY <2>1, <4>5, <6>1
            <6>6. NoticeAgrees(d)'
              BY <6>3, <6>4, <6>5 DEF NoticeAgrees
            <6>7. notice'[d] = notice[d] \/ notice'[d] > board[d].gen
              BY <2>1, <4>5
            <6>8. board'[d].gen > board[d].gen /\ core'[d].revision > core[d].revision /\ owner'[d] = owner[d]
              BY <2>1, <3>2, <4>5, <4>7
            <6>9. OwnerAgrees(d)'
              BY <2>4, <4>9, <6>7, <6>8
            <6> QED BY <5>2, <6>6, <6>9
          <5> QED BY <5>1, <5>2
        <4>11. \A l \in Links : LinkAgrees(l)'
          BY <2>6, <3>2, <4>9
        <4>12. \A x \in past'.private : Past(x)'
          BY <4>3, <4>9 DEF ClipIInv, CopiesAgree
        <4> QED BY <4>10, <4>11, <4>12 DEF CopiesAgree
      <3> QED BY <2>33, <3>3, <3>4 DEF Commit
    <2>34. CASE UNCHANGED clipVars
      BY <2>1, <2>7, <2>34 DEF clipVars
    <2>35. \A l \in left.links : l \in Links /\ l[1] \in ClipDevices /\ l[2] \in ClipDevices /\ l = <<l[1], l[2]>>
      BY DEF ClipIInv, ClipTypeOK, ClipBounds, Links
    <2> QED BY <2>12, <2>13, <2>14, <2>15, <2>16, <2>17, <2>18, <2>20, <2>21, <2>22, <2>23, <2>24, <2>26, <2>27, <2>28,
               <2>29, <2>31, <2>32, <2>33, <2>34, <2>35, <2>36, <2>39, <2>40, <2>42, <2>43, <2>45 DEF ClipNext
  <1>1. ClipInit => ClipIInv
    <2> SUFFICES ASSUME ClipInit PROVE ClipIInv
      OBVIOUS
    <2>1. left \in ClipBounds
      BY ScenarioAssumption DEF ClipInit
    <2>2. /\ \A d \in ClipDevices : board[d] = [gen |-> 1, content |-> <<0, 0>>] /\ notice[d] = 0
          /\ \A d \in ClipDevices : owner[d].pc = "none" /\ core[d] = NewCore(1, 1)
          /\ \A l \in Links : box[l].pc = "none" /\ streams[l] = {} /\ reading[l].pc = "none"
          /\ past.private = {}
      BY DEF ClipInit, Nothing
    <2>3. board \in [ClipDevices -> [gen : Nat, content : Contents]] /\ notice \in [ClipDevices -> Nat]
      BY DEF ClipInit, Contents
    <2>4. \A d \in ClipDevices : DOMAIN core[d] = CoreFields /\ core[d].revision \in Nat
      BY <2>2 DEF NewCore, CoreFields
    <2>5. DOMAIN past = {"known", "private"}
      BY DEF ClipInit
    <2>6. ClipTypeOK
      BY <2>1, <2>2, <2>3, <2>4, <2>5 DEF ClipInit, ClipTypeOK
    <2>7. CopiesAgree
      BY <2>2 DEF CopiesAgree, NoticeAgrees, OwnerAgrees, LinkAgrees, Past, Contents, Working
    <2> QED BY <2>6, <2>7 DEF ClipIInv
  <1>2. ClipIInv /\ [ClipNext]_clipVars => ClipIInv'
    BY <1>ClipTypeStep, <1>ClipStep DEF ClipIInv
  <1>3. ClipIInv => OnlyOwnCopiesTravel
    BY DEF ClipIInv, CopiesAgree, LinkAgrees, Public, OnlyOwnCopiesTravel
  <1> QED BY <1>1, <1>2, <1>3, PTL DEF ClipSpec

(***************************************************************************)
(* The order of copies                                                     *)
(***************************************************************************)
\* The keys of events, and their order with what is no event.
Keys == Nat \X Nat \X Nat \X Nat
NotAfter(j, k) == j = k \/ Before(j, k)

\* A generation of the clipboard b is past, or what is known is on it.
Knows(gen, b, known) == gen \in Nat /\ gen <= b.gen /\ (gen = b.gen => b.content = known.content)

\* What a core knows of is no later than what it committed, and its clock no
\* earlier; the generation it holds is one it knows.
Ordered(c, b, known) ==
    /\ c.committed \in Keys /\ known.key \in Keys
    /\ c.lamport \in Nat /\ c.boot \in Nat /\ c.seq \in Nat
    /\ c.committed[1] <= c.lamport /\ NotAfter(known.key, c.committed)
    /\ Knows(c.osGen, b, known)

\* So is the generation that an edit or a pause has read and will store; the
\* change that the owner works on has a key.
DeviceOrdered(d) ==
    /\ Ordered(core[d], board[d], past.known[d])
    /\ editing[d].pc = "clear" => Knows(editing[d].gen, board[d], past.known[d])
    /\ owner[d].pc = "reset" => Knows(owner[d].gen, board[d], past.known[d])
    /\ owner[d].pc \in Working => owner[d].key \in Keys

\* Every event on its way has a key, and every lease the clock of its receiver.
LinkOrdered(l) ==
    /\ box[l].pc = "job" => box[l].key \in Keys
    /\ \A m \in streams[l] : /\ m.type # "lease" => m.key \in Keys
                             /\ m.type = "lease" => m.lamport \in Nat
    /\ reading[l].pc \in {"header", "candidate"} => reading[l].event.key \in Keys
    /\ reading[l].pc \in {"admitted", "lease"} => reading[l].lease.lamport \in Nat

OrderIInv ==
    /\ DOMAIN past.known = ClipDevices /\ DOMAIN editing = ClipDevices
    /\ \A d \in ClipDevices : DeviceOrdered(d)
    /\ \A l \in Links : LinkOrdered(l)

\* A peer's event replaces only what is older in the order of all copies, and
\* never a copy that nobody has observed: for every number of devices, copies,
\* pauses, edits of the permissions, losses and restarts.
THEOREM NewestCopyWins == ClipSpec => NewestWins
  \* The order of keys.
  <1>Order. ASSUME NEW j \in Keys, NEW k \in Keys
            PROVE  Before(j, k) <=> \/ j[1] < k[1]
                                    \/ j[1] = k[1] /\ j[2] < k[2]
                                    \/ j[1] = k[1] /\ j[2] = k[2] /\ j[3] < k[3]
                                    \/ j[1] = k[1] /\ j[2] = k[2] /\ j[3] = k[3] /\ j[4] < k[4]
    <2>1. \A h : /\ h \notin 1 .. (1 - 1) /\ (h \in 1 .. (2 - 1) <=> h = 1) /\ (h \in 1 .. (3 - 1) <=> h \in {1, 2})
                 /\ (h \in 1 .. (4 - 1) <=> h \in {1, 2, 3}) /\ (h \in 1 .. 4 <=> h \in {1, 2, 3, 4})
      OBVIOUS
    <2> QED BY <2>1 DEF Before
  <1>Sides. \A k \in Keys : k[1] \in Nat /\ k[2] \in Nat /\ k[3] \in Nat /\ k[4] \in Nat /\ k = <<k[1], k[2], k[3], k[4]>>
    BY DEF Keys
  <1>Follows. ASSUME NEW i \in Keys, NEW j \in Keys, NEW k \in Keys, NotAfter(i, j), Before(j, k)
              PROVE  Before(i, k)
    <2>1. CASE i = j
      BY <1>Follows, <2>1
    <2>2. CASE Before(i, j)
      BY <1>Follows, <2>2, <1>Order, <1>Sides
    <2> QED BY <1>Follows, <2>1, <2>2 DEF NotAfter
  <1>First. NoKey \in Keys /\ \A k \in Keys : NotAfter(NoKey, k)
    <2>1. NoKey \in Keys /\ NoKey[1] = 0 /\ NoKey[2] = 0 /\ NoKey[3] = 0 /\ NoKey[4] = 0
      BY DEF NoKey, Keys
    <2>2. ASSUME NEW k \in Keys PROVE NotAfter(NoKey, k)
      <3>1. CASE k[1] = 0 /\ k[2] = 0 /\ k[3] = 0 /\ k[4] = 0
        <4>1. k = NoKey
          BY <3>1, <1>Sides DEF NoKey
        <4> QED BY <4>1 DEF NotAfter
      <3>2. CASE ~(k[1] = 0 /\ k[2] = 0 /\ k[3] = 0 /\ k[4] = 0)
        BY <2>1, <3>2, <1>Order, <1>Sides DEF NotAfter
      <3> QED BY <3>1, <3>2
    <2> QED BY <2>1, <2>2
  <1>Later. ASSUME NEW a \in Nat, NEW b \in Nat
            PROVE  Max({a, b}) \in Nat /\ Max({a, b}) >= a /\ Max({a, b}) >= b
    <2>1. \E x \in {a, b} : \A y \in {a, b} : x >= y
      OBVIOUS
    <2>2. Max({a, b}) \in {a, b} /\ \A y \in {a, b} : Max({a, b}) >= y
      BY <2>1 DEF Max
    <2> QED BY <2>2
  <1>1. ClipInit => OrderIInv
    <2> SUFFICES ASSUME ClipInit PROVE OrderIInv
      OBVIOUS
    <2>1. /\ \A d \in ClipDevices : board[d] = [gen |-> 1, content |-> <<0, 0>>]
          /\ \A d \in ClipDevices : past.known[d] = [content |-> <<0, 0>>, key |-> NoKey]
          /\ \A d \in ClipDevices : owner[d].pc = "none" /\ editing[d].pc = "none" /\ core[d] = NewCore(1, 1)
          /\ \A l \in Links : box[l].pc = "none" /\ streams[l] = {} /\ reading[l].pc = "none"
      BY DEF ClipInit, Nothing
    <2>2. ASSUME NEW d \in ClipDevices PROVE DeviceOrdered(d)
      <3>1. /\ core[d].committed = NoKey /\ core[d].lamport = 0 /\ core[d].boot = 1 /\ core[d].seq = 0 /\ core[d].osGen = 1
            /\ NoKey[1] = 0
        BY <2>1 DEF NewCore, NoKey
      <3>2. Ordered(core[d], board[d], past.known[d])
        BY <2>1, <3>1, <1>First DEF Ordered, Knows
      <3> QED BY <2>1, <3>2 DEF DeviceOrdered, Working
    <2>3. DOMAIN past.known = ClipDevices /\ DOMAIN editing = ClipDevices
      BY DEF ClipInit
    <2> QED BY <2>1, <2>2, <2>3 DEF OrderIInv, LinkOrdered
  \* Every step keeps the order.
  <1>2. ASSUME ClipIInv, ClipIInv', OrderIInv, [ClipNext]_clipVars PROVE OrderIInv'
    <2> USE <1>2
    <2>1. /\ \A d \in ClipDevices : board[d].gen \in Nat /\ board'[d].gen \in Nat /\ notice[d] \in Nat
          /\ \A d \in ClipDevices : DOMAIN core[d] = CoreFields /\ d \in Nat
          /\ DOMAIN core = ClipDevices /\ DOMAIN owner = ClipDevices /\ DOMAIN editing = ClipDevices
          /\ DOMAIN board = ClipDevices
          /\ DOMAIN past = {"known", "private"} /\ DOMAIN past.known = ClipDevices
          /\ DOMAIN box = Links /\ DOMAIN streams = Links /\ DOMAIN reading = Links
          /\ \A l \in Links : l[1] \in ClipDevices /\ l[2] \in ClipDevices /\ l = <<l[1], l[2]>>
      BY ClipAssumption DEF ClipIInv, ClipTypeOK, OrderIInv, Links
    <2>2. /\ \A d \in ClipDevices : DeviceOrdered(d) /\ NoticeAgrees(d) /\ OwnerAgrees(d)
          /\ \A l \in Links : LinkOrdered(l)
      BY DEF ClipIInv, CopiesAgree, OrderIInv
    <2>3. Nothing.pc = "none"
      BY DEF Nothing
    <2>4. ASSUME NEW c, DOMAIN c = CoreFields
          PROVE  /\ NoPending(c).committed = c.committed /\ NoPending(c).lamport = c.lamport /\ NoPending(c).boot = c.boot
                 /\ NoPending(c).seq = c.seq /\ NoPending(c).osGen = c.osGen
      BY <2>4 DEF NoPending, CoreFields
    \* What is known stays known while generations grow.
    <2>5. ASSUME NEW d \in ClipDevices, NEW gen, Knows(gen, board[d], past.known[d]),
                 board'[d] = board[d] \/ board'[d].gen > board[d].gen,
                 past'.known[d] = past.known[d] \/ past'.known[d].content = board'[d].content
          PROVE  Knows(gen, board'[d], past'.known[d])
      BY <2>1, <2>5 DEF Knows
    \* A device whose core keeps its place in the order.
    <2>6. ASSUME NEW d \in ClipDevices,
                 board'[d] = board[d] \/ board'[d].gen > board[d].gen,
                 \/ past'.known[d] = past.known[d]
                 \/ past'.known[d].content = board'[d].content /\ past'.known[d].key \in {past.known[d].key, NoKey},
                 core'[d].committed = core[d].committed, core'[d].boot = core[d].boot, core'[d].seq = core[d].seq,
                 core'[d].osGen = core[d].osGen \/ Knows(core'[d].osGen, board'[d], past'.known[d]),
                 core'[d].lamport \in Nat /\ core'[d].lamport >= core[d].lamport
          PROVE  Ordered(core'[d], board'[d], past'.known[d])
      <3>1. Ordered(core[d], board[d], past.known[d])
        BY <2>2 DEF DeviceOrdered
      <3>2. Knows(core'[d].osGen, board'[d], past'.known[d])
        BY <2>5, <2>6, <3>1 DEF Ordered
      <3>3. past'.known[d].key \in Keys /\ NotAfter(past'.known[d].key, core'[d].committed)
        BY <2>6, <3>1, <1>First DEF Ordered
      <3>4. core'[d].committed[1] \in Nat /\ core'[d].lamport \in Nat /\ core'[d].committed[1] <= core'[d].lamport
        BY <2>6, <3>1, <1>Sides DEF Ordered
      <3> QED BY <2>6, <3>1, <3>2, <3>3, <3>4 DEF Ordered
    \* A device whose edit and owner go on, or begin.
    <2>7. ASSUME NEW d \in ClipDevices, Ordered(core'[d], board'[d], past'.known[d]),
                 board'[d] = board[d] \/ board'[d].gen > board[d].gen,
                 past'.known[d] = past.known[d] \/ past'.known[d].content = board'[d].content,
                 editing'[d] = editing[d] \/ editing'[d].pc # "clear" \/ Knows(editing'[d].gen, board'[d], past'.known[d]),
                 \/ owner'[d] = owner[d] \/ owner'[d].pc = "none"
                 \/ owner'[d].pc = "reset" /\ Knows(owner'[d].gen, board'[d], past'.known[d])
                 \/ owner'[d].pc \in Working /\ owner'[d].key \in Keys
          PROVE  DeviceOrdered(d)'
      <3>1. editing[d].pc = "clear" => Knows(editing[d].gen, board'[d], past'.known[d])
        BY <2>2, <2>5, <2>7 DEF DeviceOrdered
      <3>2. owner[d].pc = "reset" => Knows(owner[d].gen, board'[d], past'.known[d])
        BY <2>2, <2>5, <2>7 DEF DeviceOrdered
      <3>3. owner[d].pc \in Working => owner[d].key \in Keys
        BY <2>2 DEF DeviceOrdered
      <3> QED BY <2>7, <3>1, <3>2, <3>3 DEF DeviceOrdered, Working
    <2>8. ASSUME NEW d \in ClipDevices, board'[d] = board[d], past'.known[d] = past.known[d], core'[d] = core[d],
                 editing'[d] = editing[d], owner'[d] = owner[d]
          PROVE  DeviceOrdered(d)'
      BY <2>2, <2>8 DEF DeviceOrdered
    <2>9. ASSUME NEW l \in Links,
                 box'[l] = box[l] \/ box'[l].pc = "none" \/ box'[l].key \in Keys,
                 \A m \in streams'[l] : \/ m \in streams[l]
                                        \/ m.type = "lease" /\ m.lamport \in Nat
                                        \/ m.type # "lease" /\ m.key \in Keys,
                 \/ reading'[l] = reading[l] \/ reading'[l].pc = "none"
                 \/ reading'[l].pc \in {"header", "candidate"} /\ reading'[l].event.key \in Keys
                 \/ reading'[l].pc \in {"admitted", "lease"} /\ reading'[l].lease.lamport \in Nat
          PROVE  LinkOrdered(l)'
      <3>1. LinkOrdered(l)
        BY <2>2
      <3>2. box'[l].pc = "job" => box'[l].key \in Keys
        BY <2>9, <3>1 DEF LinkOrdered
      <3>3. \A m \in streams'[l] : (m.type # "lease" => m.key \in Keys) /\ (m.type = "lease" => m.lamport \in Nat)
        BY <2>9, <3>1 DEF LinkOrdered
      <3>4. /\ reading'[l].pc \in {"header", "candidate"} => reading'[l].event.key \in Keys
            /\ reading'[l].pc \in {"admitted", "lease"} => reading'[l].lease.lamport \in Nat
        BY <2>9, <3>1 DEF LinkOrdered
      <3> QED BY <3>2, <3>3, <3>4 DEF LinkOrdered
    <2>10. ASSUME NEW d \in ClipDevices, NEW peers, Cancelled(d, peers)
           PROVE  \A l \in Links : box'[l] = box[l] \/ box'[l].pc = "none"
      BY <2>3, <2>10 DEF Cancelled
    \* Nothing that is ordered changes but the links.
    <2>11. ASSUME UNCHANGED <<board, core, past, editing, owner>>, \A l \in Links : LinkOrdered(l)' PROVE OrderIInv'
      BY <2>1, <2>8, <2>11 DEF OrderIInv
    \* Only one device changes.
    <2>12. ASSUME NEW d \in ClipDevices, DeviceOrdered(d)', \A l \in Links : LinkOrdered(l)',
                  DOMAIN past'.known = ClipDevices, DOMAIN editing' = ClipDevices,
                  \A e \in ClipDevices : e # d =>
                     /\ board'[e] = board[e] /\ past'.known[e] = past.known[e] /\ core'[e] = core[e]
                     /\ editing'[e] = editing[e] /\ owner'[e] = owner[e]
           PROVE  OrderIInv'
      <3>1. ASSUME NEW e \in ClipDevices PROVE DeviceOrdered(e)'
        <4>1. CASE e = d
          BY <2>12, <4>1
        <4>2. CASE e # d
          BY <2>8, <2>12, <4>2
        <4> QED BY <4>1, <4>2
      <3> QED BY <2>12, <3>1 DEF OrderIInv
    <2>13. ASSUME NEW d \in ClipDevices, UserCopies(d) PROVE OrderIInv'
      <3>1. /\ board'[d].gen = board[d].gen + 1 /\ past'.known = past.known
            /\ \A e \in ClipDevices : e # d => board'[e] = board[e]
        BY <2>1, <2>13 DEF UserCopies, Changed
      <3>2. UNCHANGED <<core, editing, owner, box, streams, reading>>
        BY <2>13 DEF UserCopies
      <3>3. board'[d].gen > board[d].gen
        BY <2>1, <3>1
      <3>4. DeviceOrdered(d)'
        <4>1. core'[d].lamport \in Nat
          BY <2>2, <2>13, <3>2 DEF DeviceOrdered, Ordered
        <4> QED BY <2>6, <2>7, <2>13, <3>1, <3>2, <3>3, <4>1
      <3>5. \A l \in Links : LinkOrdered(l)'
        BY <2>9, <3>2
      <3> QED BY <2>1, <2>12, <3>1, <3>2, <3>4, <3>5
    <2>14. ASSUME NEW d \in ClipDevices, Expire(d) \/ NotAChange(d) PROVE OrderIInv'
      <3>1. UNCHANGED <<board, core, past, editing, owner, box, streams, reading>>
        BY <2>14 DEF Expire, NotAChange
      <3> QED BY <2>9, <2>11, <3>1
    <2>15. ASSUME NEW d \in ClipDevices, NEW p \in ClipDevices, SendLease(d, p) PROVE OrderIInv'
      <3>1. PICK n : n.type = "lease" /\ n.lamport = core[d].lamport /\ streams' = [streams EXCEPT ![<<d, p>>] = @ \cup {n}]
        BY <2>15 DEF SendLease
      <3>2. n.lamport \in Nat /\ \A l \in Links : \A m \in streams'[l] : m \in streams[l] \/ m = n
        BY <2>1, <2>2, <2>15, <3>1 DEF DeviceOrdered, Ordered
      <3>3. UNCHANGED <<board, core, past, editing, owner, box, reading>>
        BY <2>15 DEF SendLease
      <3> QED BY <2>9, <2>11, <3>1, <3>2, <3>3
    <2>16. ASSUME NEW d \in ClipDevices, NEW p \in ClipDevices, <<p, d>> \in Links, NEW m, ReadLease(d, p, m) PROVE OrderIInv'
      <3>1. \A l \in Links : \A n \in streams'[l] : n \in streams[l]
        BY <2>1, <2>16 DEF ReadLease
      <3>2. PICK x : /\ x = Nothing \/ (x.pc = "admitted" /\ x.lease = m)
                     /\ reading' = [reading EXCEPT ![<<p, d>>] = x]
        BY <2>16 DEF ReadLease
      <3>3. m.lamport \in Nat
        BY <2>2, <2>16 DEF ReadLease, LinkOrdered
      <3>4. UNCHANGED <<board, core, past, editing, owner, box>>
        BY <2>16 DEF ReadLease
      <3>5. \A l \in Links : \/ reading'[l] = reading[l] \/ reading'[l].pc = "none"
                             \/ reading'[l].pc = "admitted" /\ reading'[l].lease.lamport \in Nat
        BY <2>1, <2>3, <3>2, <3>3
      <3> QED BY <2>9, <2>11, <3>1, <3>4, <3>5
    <2>40. ASSUME NEW d \in ClipDevices, NEW p \in ClipDevices, <<p, d>> \in Links, ReadBaseline(d, p) PROVE OrderIInv'
      <3>1. PICK x : x = [pc |-> "lease", lease |-> reading[<<p, d>>].lease, baseline |-> board[d].gen]
        OBVIOUS
      <3>2. x.pc = "lease" /\ x.lease = reading[<<p, d>>].lease
        BY <3>1
      <3>3. x.lease.lamport \in Nat
        BY <2>2, <2>40, <3>2 DEF ReadBaseline, LinkOrdered
      <3>4. reading' = [reading EXCEPT ![<<p, d>>] = x] /\ UNCHANGED <<board, core, past, editing, owner, box, streams>>
        BY <2>40, <3>1 DEF ReadBaseline
      <3>5. \A l \in Links : reading'[l] = reading[l] \/ (reading'[l].pc = "lease" /\ reading'[l].lease.lamport \in Nat)
        BY <2>1, <3>2, <3>3, <3>4
      <3> QED BY <2>9, <2>11, <3>4, <3>5
    <2>17. ASSUME NEW d \in ClipDevices, NEW p \in ClipDevices, <<p, d>> \in Links, InstallLease(d, p) PROVE OrderIInv'
      <3>1. \A l \in Links : reading'[l] = reading[l] \/ reading'[l].pc = "none"
        BY <2>1, <2>3, <2>17 DEF InstallLease
      <3>2. UNCHANGED <<board, past, editing, owner, box, streams>>
        BY <2>17 DEF InstallLease
      <3>3. PICK m : m = reading[<<p, d>>].lease
        OBVIOUS
      <3>4. m.lamport \in Nat /\ core[d].lamport \in Nat
        BY <2>2, <2>17, <3>3 DEF InstallLease, LinkOrdered, DeviceOrdered, Ordered
      <3>5. PICK x : /\ x = core[d].lamport \/ x = Max({core[d].lamport, m.lamport}) + 1
                     /\ core' = core \/ core' = [core EXCEPT ![d].lamport = x]
        BY <2>17, <3>3 DEF InstallLease
      <3>6. x \in Nat /\ x >= core[d].lamport
        <4>1. PICK y : y = Max({core[d].lamport, m.lamport})
          OBVIOUS
        <4>2. y \in Nat /\ y >= core[d].lamport
          BY <3>4, <4>1, <1>Later
        <4> QED BY <3>4, <3>5, <4>1, <4>2
      <3>7. /\ core'[d].committed = core[d].committed /\ core'[d].boot = core[d].boot /\ core'[d].seq = core[d].seq
            /\ core'[d].osGen = core[d].osGen /\ core'[d].lamport \in {core[d].lamport, x}
            /\ \A e \in ClipDevices : e # d => core'[e] = core[e]
        BY <2>1, <3>5 DEF CoreFields
      <3>8. DeviceOrdered(d)'
        BY <2>6, <2>7, <2>17, <3>2, <3>4, <3>6, <3>7
      <3>9. \A l \in Links : LinkOrdered(l)'
        BY <2>9, <3>1, <3>2
      <3> QED BY <2>1, <2>12, <3>2, <3>7, <3>8, <3>9
    <2>18. ASSUME NEW l \in Links, LoseMessage(l) PROVE OrderIInv'
      <3>1. \A k \in Links : \A n \in streams'[k] : n \in streams[k]
        BY <2>1, <2>18 DEF LoseMessage
      <3>2. \A k \in Links : reading'[k] = reading[k] \/ reading'[k].pc = "none"
        BY <2>1, <2>3, <2>18 DEF LoseMessage
      <3>3. UNCHANGED <<board, core, past, editing, owner, box>>
        BY <2>18 DEF LoseMessage
      <3> QED BY <2>9, <2>11, <3>1, <3>2, <3>3
    <2>19. ASSUME NEW d \in ClipDevices, NEW k, past' = [past EXCEPT !.known[d] = k]
           PROVE  /\ DOMAIN past'.known = ClipDevices /\ past'.known[d] = k
                  /\ \A e \in ClipDevices : e # d => past'.known[e] = past.known[e]
      BY <2>1, <2>19
    <2>20. ASSUME NEW d \in ClipDevices, NEW c, core' = [core EXCEPT ![d] = c]
           PROVE  core'[d] = c /\ \A e \in ClipDevices : e # d => core'[e] = core[e]
      BY <2>1, <2>20
    <2>21. ASSUME NEW d \in ClipDevices, ObserveLocalEvent(d) PROVE OrderIInv'
      <3>1. Ordered(core[d], board[d], past.known[d]) /\ notice[d] <= board[d].gen
        BY <2>2, <2>21 DEF DeviceOrdered, NoticeAgrees
      <3>2. PICK key : key = <<core[d].lamport + 1, d, core[d].boot, core[d].seq + 1>>
        OBVIOUS
      <3>3. PICK c : c = [core[d] EXCEPT !.seq = @ + 1, !.lamport = @ + 1, !.osGen = notice[d], !.revision = @ + 1,
                                         !.committed = key]
        OBVIOUS
      <3>4. core' = [core EXCEPT ![d] = NoPending(c)]
        BY <2>21, <3>2, <3>3 DEF ObserveLocalEvent, Observed
      <3>5. /\ DOMAIN c = CoreFields /\ c.committed = key /\ c.lamport = core[d].lamport + 1 /\ c.boot = core[d].boot
            /\ c.seq = core[d].seq + 1 /\ c.osGen = notice[d]
        BY <2>1, <2>21, <3>3 DEF CoreFields
      <3>6. /\ core'[d].committed = key /\ core'[d].lamport = core[d].lamport + 1 /\ core'[d].boot = core[d].boot
            /\ core'[d].seq = core[d].seq + 1 /\ core'[d].osGen = notice[d]
            /\ \A e \in ClipDevices : e # d => core'[e] = core[e]
        <4>1. core'[d] = NoPending(c) /\ \A e \in ClipDevices : e # d => core'[e] = core[e]
          BY <2>20, <2>21, <3>4
        <4> QED BY <2>4, <3>5, <4>1
      <3>7. PICK k : /\ k = IF board[d].gen = notice[d] THEN [content |-> board[d].content, key |-> key] ELSE past.known[d]
                     /\ past' = [past EXCEPT !.known[d] = k]
        BY <2>21, <3>6 DEF ObserveLocalEvent
      <3>8. /\ DOMAIN past'.known = ClipDevices /\ past'.known[d] = k
            /\ \A e \in ClipDevices : e # d => past'.known[e] = past.known[e]
        BY <2>19, <2>21, <3>7
      <3>9. /\ UNCHANGED <<board, editing, streams, reading>>
            /\ \A e \in ClipDevices : e # d => owner'[e] = owner[e]
            /\ owner'[d].pc \in Working /\ owner'[d].key = key
        BY <2>1, <2>21, <3>6 DEF ObserveLocalEvent, Working
      <3>10. key \in Keys /\ key[1] = core[d].lamport + 1
        BY <2>1, <2>21, <3>1, <3>2 DEF Ordered, Keys
      \* What was known before is before the new event.
      <3>11. NotAfter(past.known[d].key, key)
        <4>1. core[d].committed \in Keys /\ core[d].committed[1] < key[1]
          BY <3>1, <3>10, <1>Sides DEF Ordered
        <4>2. Before(core[d].committed, key)
          BY <3>10, <4>1, <1>Order
        <4> QED BY <3>1, <3>10, <4>1, <4>2, <1>Follows DEF Ordered, NotAfter
      <3>12. k.key \in Keys /\ NotAfter(k.key, key)
        BY <3>1, <3>7, <3>10, <3>11 DEF Ordered, NotAfter
      <3>13. Knows(notice[d], board[d], k)
        BY <2>1, <2>21, <3>1, <3>7 DEF Knows
      <3>14. Ordered(core'[d], board'[d], past'.known[d])
        BY <3>1, <3>6, <3>8, <3>9, <3>10, <3>12, <3>13 DEF Ordered
      <3>15. past'.known[d] = past.known[d] \/ past'.known[d].content = board'[d].content
        BY <3>7, <3>8, <3>9
      <3>16. DeviceOrdered(d)'
        BY <2>7, <2>21, <3>9, <3>10, <3>14, <3>15
      <3>17. \A l \in Links : LinkOrdered(l)'
        BY <2>9, <2>10, <2>21, <3>9 DEF ObserveLocalEvent
      <3> QED BY <2>1, <2>12, <2>21, <3>6, <3>8, <3>9, <3>16, <3>17
    \* Only the owner of a device goes on.
    <2>22. ASSUME NEW d \in ClipDevices, UNCHANGED <<board, past, editing, streams, reading>>,
                  core'[d].committed = core[d].committed, core'[d].boot = core[d].boot, core'[d].seq = core[d].seq,
                  core'[d].osGen = core[d].osGen, core'[d].lamport = core[d].lamport,
                  \A e \in ClipDevices : e # d => core'[e] = core[e] /\ owner'[e] = owner[e],
                  \/ owner'[d].pc = "none"
                  \/ owner'[d].pc \in Working /\ owner'[d].key \in Keys,
                  \A l \in Links : box'[l] = box[l] \/ box'[l].key \in Keys
           PROVE  OrderIInv'
      <3>1. core[d].lamport \in Nat
        BY <2>2, <2>22 DEF DeviceOrdered, Ordered
      <3>2. DeviceOrdered(d)'
        BY <2>6, <2>7, <2>22, <3>1
      <3>3. \A l \in Links : LinkOrdered(l)'
        BY <2>9, <2>22
      <3> QED BY <2>1, <2>12, <2>22, <3>2, <3>3
    <2>41. ASSUME NEW d \in ClipDevices, owner[d].pc \in Working
           PROVE  owner[d].key \in Keys /\ DOMAIN owner[d] = ReadFields
      BY <2>2, <2>41 DEF DeviceOrdered, OwnerAgrees
    <2>23. ASSUME NEW d \in ClipDevices, ReadPayload(d) PROVE OrderIInv'
      <3>1. UNCHANGED <<board, past, editing, streams, reading, core, box>>
        BY <2>23 DEF ReadPayload
      <3>2. owner[d].key \in Keys /\ DOMAIN owner[d] = ReadFields
        BY <2>23, <2>41 DEF ReadPayload, Working
      <3>3. PICK o : o = [owner[d] EXCEPT !.pc = "read", !.content = board[d].content]
        OBVIOUS
      <3>4. o.pc = "read" /\ o.key = owner[d].key
        BY <3>2, <3>3 DEF ReadFields
      <3>5. /\ owner'[d] = Nothing \/ owner'[d] = o
            /\ \A e \in ClipDevices : e # d => owner'[e] = owner[e]
        BY <2>1, <2>23, <3>3 DEF ReadPayload
      <3> QED BY <2>3, <2>22, <2>23, <3>1, <3>2, <3>4, <3>5 DEF Working
    <2>24. ASSUME NEW d \in ClipDevices, PrepareObserved(d) PROVE OrderIInv'
      <3>1. UNCHANGED <<board, past, editing, streams, reading, box>>
        BY <2>24 DEF PrepareObserved
      <3>2. owner[d].key \in Keys /\ DOMAIN owner[d] = ReadFields
        BY <2>24, <2>41 DEF PrepareObserved, Working
      <3>3. PICK o : o = [owner[d] EXCEPT !.pc = "prepared"]
        OBVIOUS
      <3>4. o.pc = "prepared" /\ o.key = owner[d].key
        BY <3>2, <3>3 DEF ReadFields
      <3>5. /\ owner'[d] = Nothing \/ owner'[d] = o
            /\ \A e \in ClipDevices : e # d => owner'[e] = owner[e]
        BY <2>1, <2>24, <3>3 DEF PrepareObserved
      <3>6. PICK sup : core' = [core EXCEPT ![d].suppressed = sup]
        BY <2>24 DEF PrepareObserved
      <3>7. /\ core'[d].committed = core[d].committed /\ core'[d].boot = core[d].boot /\ core'[d].seq = core[d].seq
            /\ core'[d].osGen = core[d].osGen /\ core'[d].lamport = core[d].lamport
            /\ \A e \in ClipDevices : e # d => core'[e] = core[e]
        BY <2>1, <2>24, <3>6 DEF CoreFields
      <3> QED BY <2>3, <2>22, <2>24, <3>1, <3>2, <3>4, <3>5, <3>7 DEF Working
    <2>42. ASSUME NEW d \in ClipDevices, NEW p, ClipboardGrant(d, p) PROVE OrderIInv'
      <3>1. UNCHANGED <<board, past, editing, streams, reading, core, box>>
        BY <2>42 DEF ClipboardGrant
      <3>2. owner[d].key \in Keys /\ DOMAIN owner[d] = ReadFields
        BY <2>41, <2>42 DEF ClipboardGrant, Working
      <3>3. PICK rest, now : owner' = [owner EXCEPT ![d] = [owner[d] EXCEPT !.pc = "granted", !.rest = rest, !.now = now]]
        BY <2>42 DEF ClipboardGrant
      <3>4. PICK o : o = [owner[d] EXCEPT !.pc = "granted", !.rest = rest, !.now = now]
        OBVIOUS
      <3>5. o.pc = "granted" /\ o.key = owner[d].key
        BY <3>2, <3>4 DEF ReadFields
      <3>6. owner'[d] = o /\ \A e \in ClipDevices : e # d => owner'[e] = owner[e]
        BY <2>1, <2>42, <3>3, <3>4
      <3> QED BY <2>22, <2>42, <3>1, <3>2, <3>5, <3>6 DEF Working
    <2>43. ASSUME NEW d \in ClipDevices, OutboundForObservation(d) PROVE OrderIInv'
      <3>1. UNCHANGED <<board, past, editing, streams, reading, core, box>>
        BY <2>43 DEF OutboundForObservation
      <3>2. owner[d].key \in Keys /\ DOMAIN owner[d] = ReadFields
        BY <2>41, <2>43 DEF OutboundForObservation, Working
      <3>3. PICK jobs : owner' = [owner EXCEPT ![d] =
                                     [owner[d] EXCEPT !.pc = "observed", !.now = Nothing, !.jobs = jobs]]
        BY <2>43 DEF OutboundForObservation
      <3>4. PICK o : o = [owner[d] EXCEPT !.pc = "observed", !.now = Nothing, !.jobs = jobs]
        OBVIOUS
      <3>5. o.pc = "observed" /\ o.key = owner[d].key
        BY <3>2, <3>4 DEF ReadFields
      <3>6. owner'[d] = o /\ \A e \in ClipDevices : e # d => owner'[e] = owner[e]
        BY <2>1, <2>43, <3>3, <3>4
      <3> QED BY <2>22, <2>43, <3>1, <3>2, <3>5, <3>6 DEF Working
    <2>44. ASSUME NEW e, NEW jobs, DOMAIN e = ReadFields
           PROVE  \/ Without(e, jobs).pc = "none"
                  \/ Without(e, jobs).pc = "prepared" /\ Without(e, jobs).key = e.key
      BY <2>3, <2>44 DEF Without, ReadFields
    <2>45. ASSUME NEW d \in ClipDevices, BindScoped(d) PROVE OrderIInv'
      <3>1. UNCHANGED <<board, past, editing, streams, reading, core, box>>
        BY <2>45 DEF BindScoped
      <3>2. owner[d].key \in Keys /\ DOMAIN owner[d] = ReadFields
        BY <2>41, <2>45 DEF BindScoped, Working
      <3>3. PICK j, jobs : \/ owner' = [owner EXCEPT ![d] = [owner[d] EXCEPT !.pc = "bound", !.jobs = jobs, !.now = j]]
                           \/ owner' = [owner EXCEPT ![d] = Without(owner[d], jobs)]
        BY <2>45 DEF BindScoped
      <3>4. PICK o : o = [owner[d] EXCEPT !.pc = "bound", !.jobs = jobs, !.now = j]
        OBVIOUS
      <3>5. o.pc = "bound" /\ o.key = owner[d].key
        BY <3>2, <3>4 DEF ReadFields
      <3>6. /\ owner'[d] = o \/ owner'[d] = Without(owner[d], jobs)
            /\ \A e \in ClipDevices : e # d => owner'[e] = owner[e]
        BY <2>1, <2>45, <3>3, <3>4
      <3>7. owner'[d].pc = "none" \/ (owner'[d].pc \in Working /\ owner'[d].key \in Keys)
        BY <2>44, <3>2, <3>5, <3>6 DEF Working
      <3> QED BY <2>22, <2>45, <3>1, <3>6, <3>7
    <2>25. ASSUME NEW d \in ClipDevices, NEW p \in ClipDevices, Enqueue(d, p) PROVE OrderIInv'
      <3>1. UNCHANGED <<board, past, editing, streams, reading, core>>
        BY <2>25 DEF Enqueue
      <3>2. PICK j : box' = [box EXCEPT ![<<d, p>>] = j] /\ j.key = owner[d].key
        <4>1. PICK j : j = [pc |-> "job", gen |-> owner[d].gen, revision |-> owner[d].revision, key |-> owner[d].key,
                            content |-> owner[d].content, lease |-> owner[d].now.lease, sender |-> owner[d].now.sender]
          OBVIOUS
        <4>2. j.key = owner[d].key
          BY <4>1
        <4> QED BY <2>25, <4>1, <4>2 DEF Enqueue
      <3>3. owner[d].key \in Keys /\ DOMAIN owner[d] = ReadFields
        BY <2>25, <2>41 DEF Enqueue, Working
      <3>4. /\ owner'[d] = Without(owner[d], owner[d].jobs)
            /\ \A e \in ClipDevices : e # d => owner'[e] = owner[e]
        BY <2>1, <2>25 DEF Enqueue
      <3>5. owner'[d].pc = "none" \/ (owner'[d].pc \in Working /\ owner'[d].key \in Keys)
        BY <2>44, <3>3, <3>4 DEF Working
      <3>6. \A l \in Links : box'[l] = box[l] \/ box'[l].key \in Keys
        BY <2>1, <3>2, <3>3
      <3> QED BY <2>22, <2>25, <3>1, <3>4, <3>5, <3>6
    <2>26. ASSUME NEW d \in ClipDevices, NEW p \in ClipDevices, <<d, p>> \in Links, SendJob(d, p) PROVE OrderIInv'
      <3>1. UNCHANGED <<board, core, past, editing, owner, reading>>
        BY <2>26 DEF SendJob
      <3>2. \A l \in Links : box'[l] = box[l] \/ box'[l].pc = "none"
        BY <2>1, <2>3, <2>26 DEF SendJob
      <3>3. box[<<d, p>>].key \in Keys
        BY <2>2, <2>26 DEF SendJob, LinkOrdered
      <3>4. PICK n : /\ n.type = "open" /\ n.key = box[<<d, p>>].key
                     /\ streams' = streams \/ streams' = [streams EXCEPT ![<<d, p>>] = @ \cup {n}]
        <4>1. PICK n : n = [type |-> "open", lease |-> box[<<d, p>>].lease.id, revision |-> box[<<d, p>>].lease.revision,
                            sender |-> box[<<d, p>>].sender, key |-> box[<<d, p>>].key, content |-> box[<<d, p>>].content]
          OBVIOUS
        <4>2. n.type = "open" /\ n.key = box[<<d, p>>].key
          BY <4>1
        <4>3. streams' = streams \/ streams' = [streams EXCEPT ![<<d, p>>] = @ \cup {n}]
          BY <2>26, <4>1 DEF SendJob
        <4> QED BY <4>2, <4>3
      <3>5. \A l \in Links : \A m \in streams'[l] : m \in streams[l] \/ m = n
        BY <2>1, <3>4
      <3> QED BY <2>9, <2>11, <3>1, <3>2, <3>3, <3>4, <3>5
    <2>46. ASSUME NEW d \in ClipDevices, NEW p \in ClipDevices, <<d, p>> \in Links, WriteJob(d, p) PROVE OrderIInv'
      <3>1. UNCHANGED <<board, core, past, editing, owner, reading, box>>
        BY <2>46 DEF WriteJob
      <3>2. PICK m, n, sent :
              /\ m \in streams[<<d, p>>] /\ m.type = "open" /\ n = [m EXCEPT !.type = "event"] /\ sent \in {{}, {n}}
              /\ streams' = [streams EXCEPT ![<<d, p>>] = (@ \ {m}) \cup sent]
        BY <2>46 DEF WriteJob
      <3>3. m.key \in Keys /\ DOMAIN m = EventFields
        BY <2>2, <2>46, <3>2 DEF LinkOrdered, ClipIInv, CopiesAgree, LinkAgrees
      <3>4. n.type = "event" /\ n.key = m.key
        BY <3>2, <3>3 DEF EventFields
      <3>5. \A l \in Links : \A k \in streams'[l] : k \in streams[l] \/ k = n
        BY <2>1, <3>2
      <3> QED BY <2>9, <2>11, <3>1, <3>3, <3>4, <3>5
    <2>47. ASSUME NEW d \in ClipDevices, NEW p \in ClipDevices, <<p, d>> \in Links, NEW m, ReadHeader(p, d, m)
           PROVE  OrderIInv'
      <3>1. UNCHANGED <<board, core, past, editing, owner, box>>
        BY <2>47 DEF ReadHeader
      <3>2. \A l \in Links : \A n \in streams'[l] : n \in streams[l]
        BY <2>1, <2>47 DEF ReadHeader
      <3>3. PICK x : /\ x = Nothing \/ (x.pc = "header" /\ x.event = m)
                     /\ reading' = [reading EXCEPT ![<<p, d>>] = x]
        BY <2>47 DEF ReadHeader
      <3>4. m.key \in Keys
        BY <2>2, <2>47 DEF ReadHeader, LinkOrdered
      <3>5. \A l \in Links : \/ reading'[l] = reading[l] \/ reading'[l].pc = "none"
                             \/ reading'[l].pc = "header" /\ reading'[l].event.key \in Keys
        BY <2>1, <2>3, <3>3, <3>4
      <3> QED BY <2>9, <2>11, <3>1, <3>2, <3>5
    <2>27. ASSUME NEW d \in ClipDevices, NEW p \in ClipDevices, <<p, d>> \in Links, BeginHeader(p, d) PROVE OrderIInv'
      <3>1. UNCHANGED <<board, past, editing, owner, box, streams>>
        BY <2>27 DEF BeginHeader
      <3>2. PICK m : m = reading[<<p, d>>].event
        OBVIOUS
      <3>3. m.key \in Keys
        BY <2>2, <2>27, <3>2 DEF BeginHeader, LinkOrdered
      <3>4. PICK x :
              /\ x.pc = "candidate" /\ x.event = m
              /\ \/ UNCHANGED core /\ reading' = [reading EXCEPT ![<<p, d>>] = Nothing]
                 \/ /\ reading' = [reading EXCEPT ![<<p, d>>] = x]
                    /\ core' = [core EXCEPT ![d].pending = m.key, ![d].pendingRevision = core[d].revision,
                                           ![d].pendingLease = m.lease]
        <4>1. PICK x : x = [pc |-> "candidate", event |-> m, revision |-> core[d].revision, baseline |-> core[d].osGen]
          OBVIOUS
        <4>2. x.pc = "candidate" /\ x.event = m
          BY <4>1
        <4> QED BY <2>27, <3>2, <4>1, <4>2 DEF BeginHeader
      <3>5. \A l \in Links : \/ reading'[l] = reading[l] \/ reading'[l].pc = "none"
                             \/ reading'[l].pc = "candidate" /\ reading'[l].event.key \in Keys
        BY <2>1, <2>3, <3>3, <3>4
      <3>6. /\ core'[d].committed = core[d].committed /\ core'[d].boot = core[d].boot /\ core'[d].seq = core[d].seq
            /\ core'[d].osGen = core[d].osGen /\ core'[d].lamport = core[d].lamport
            /\ \A e \in ClipDevices : e # d => core'[e] = core[e]
        BY <2>1, <2>27, <3>4 DEF CoreFields
      <3>7. core[d].lamport \in Nat
        BY <2>2, <2>27 DEF DeviceOrdered, Ordered
      <3>8. DeviceOrdered(d)'
        BY <2>6, <2>7, <2>27, <3>1, <3>6, <3>7
      <3>9. \A l \in Links : LinkOrdered(l)'
        BY <2>9, <3>1, <3>5
      <3> QED BY <2>1, <2>12, <2>27, <3>1, <3>6, <3>8, <3>9
    <2>28. ASSUME NEW d \in ClipDevices, NEW p \in ClipDevices, <<p, d>> \in Links, Commit(p, d) PROVE OrderIInv'
      <3>1. UNCHANGED <<editing, owner, box, streams>> /\ \A l \in Links : reading'[l] = reading[l] \/ reading'[l].pc = "none"
        BY <2>1, <2>3, <2>28 DEF Commit
      <3>2. \A l \in Links : LinkOrdered(l)'
        BY <2>9, <3>1
      <3>3. CASE UNCHANGED <<core, board, notice, past>>
        BY <2>11, <3>1, <3>2, <3>3
      <3>4. CASE /\ core' = [core EXCEPT ![d] = Committed(d, p, reading[<<p, d>>].event)]
                 /\ Changed(d, reading[<<p, d>>].event.content)
                 /\ past' = [past EXCEPT !.known[d] = [content |-> reading[<<p, d>>].event.content,
                                                       key |-> reading[<<p, d>>].event.key]]
        <4>1. PICK m : m = reading[<<p, d>>].event
          OBVIOUS
        <4>2. m.key \in Keys
          BY <2>2, <2>28, <4>1 DEF Commit, LinkOrdered
        <4>3. Ordered(core[d], board[d], past.known[d])
          BY <2>2, <2>28 DEF DeviceOrdered
        <4>4. PICK x : x = Max({core[d].lamport, m.key[1]})
          OBVIOUS
        <4>5. x \in Nat /\ x >= m.key[1]
          BY <4>2, <4>3, <4>4, <1>Later, <1>Sides DEF Ordered
        <4>6. PICK c, sup : /\ core' = [core EXCEPT ![d] = NoPending(c)]
                            /\ c = [core[d] EXCEPT !.osGen = board[d].gen + 1, !.revision = @ + 1, !.high[p] = m.key,
                                     !.committed = m.key, !.suppressed = sup, !.lamport = x + 1]
          BY <3>4, <4>1, <4>4 DEF Committed
        <4>7. /\ DOMAIN c = CoreFields /\ c.committed = m.key /\ c.lamport = x + 1 /\ c.boot = core[d].boot
              /\ c.seq = core[d].seq /\ c.osGen = board[d].gen + 1
          BY <2>1, <2>28, <4>6 DEF CoreFields
        <4>8. /\ core'[d].committed = m.key /\ core'[d].lamport = x + 1 /\ core'[d].boot = core[d].boot
              /\ core'[d].seq = core[d].seq /\ core'[d].osGen = board[d].gen + 1
              /\ \A e \in ClipDevices : e # d => core'[e] = core[e]
          <5>1. core'[d] = NoPending(c) /\ \A e \in ClipDevices : e # d => core'[e] = core[e]
            BY <2>20, <2>28, <4>6
          <5> QED BY <2>4, <4>7, <5>1
        <4>9. PICK k : k = [content |-> m.content, key |-> m.key] /\ past' = [past EXCEPT !.known[d] = k]
          BY <3>4, <4>1
        <4>10. /\ DOMAIN past'.known = ClipDevices /\ past'.known[d].content = m.content /\ past'.known[d].key = m.key
               /\ \A e \in ClipDevices : e # d => past'.known[e] = past.known[e]
          BY <2>19, <2>28, <4>9
        <4>11. /\ board'[d].gen = board[d].gen + 1 /\ board'[d].content = m.content
               /\ \A e \in ClipDevices : e # d => board'[e] = board[e]
          BY <2>1, <2>28, <3>4, <4>1 DEF Changed
        <4>12. Knows(board[d].gen + 1, board'[d], past'.known[d])
          BY <2>1, <2>28, <4>10, <4>11 DEF Knows
        <4>13. m.key[1] \in Nat /\ m.key[1] <= x + 1
          BY <4>2, <4>5, <1>Sides
        <4>14. Ordered(core'[d], board'[d], past'.known[d])
          BY <4>2, <4>3, <4>5, <4>8, <4>10, <4>12, <4>13 DEF Ordered, NotAfter
        <4>15. board'[d].gen > board[d].gen /\ past'.known[d].content = board'[d].content
          BY <2>1, <2>28, <4>10, <4>11
        <4>16. DeviceOrdered(d)'
          BY <2>7, <2>28, <3>1, <4>14, <4>15
        <4> QED BY <2>1, <2>12, <2>28, <3>1, <3>2, <4>8, <4>10, <4>11, <4>16
      <3> QED BY <2>28, <3>3, <3>4 DEF Commit
    <2>29. ASSUME NEW d \in ClipDevices, NEW p \in ClipDevices, NEW dir, SetClipboardGrant(d, p, dir) PROVE OrderIInv'
      <3>1. UNCHANGED <<board, core, past, owner, box, streams, reading>>
        BY <2>29 DEF SetClipboardGrant
      <3>2. /\ editing'[d].pc = "set" /\ DOMAIN editing' = ClipDevices
            /\ \A e \in ClipDevices : e # d => editing'[e] = editing[e]
        BY <2>1, <2>29 DEF SetClipboardGrant
      <3>3. core[d].lamport \in Nat
        BY <2>2, <2>29 DEF DeviceOrdered, Ordered
      <3>4. DeviceOrdered(d)'
        BY <2>6, <2>7, <2>29, <3>1, <3>2, <3>3
      <3>5. \A l \in Links : LinkOrdered(l)'
        BY <2>9, <3>1
      <3> QED BY <2>1, <2>12, <2>29, <3>1, <3>2, <3>4, <3>5
    <2>30. ASSUME NEW d \in ClipDevices, GrantIsSet(d) PROVE OrderIInv'
      <3>1. UNCHANGED <<board, past, owner, streams, reading>>
        BY <2>30 DEF GrantIsSet
      <3>2. /\ editing'[d].pc = "none" /\ DOMAIN editing' = ClipDevices
            /\ \A e \in ClipDevices : e # d => editing'[e] = editing[e]
        BY <2>1, <2>3, <2>30 DEF GrantIsSet
      <3>3. PICK c : c = [core[d] EXCEPT !.revision = @ + 1]
        OBVIOUS
      <3>4. core' = core \/ core' = [core EXCEPT ![d] = NoPending(c)]
        BY <2>30, <3>3 DEF GrantIsSet, Invalidated
      <3>5. /\ DOMAIN c = CoreFields /\ c.committed = core[d].committed /\ c.boot = core[d].boot /\ c.seq = core[d].seq
            /\ c.osGen = core[d].osGen /\ c.lamport = core[d].lamport
        BY <2>1, <2>30, <3>3 DEF CoreFields
      <3>6. /\ core'[d].committed = core[d].committed /\ core'[d].boot = core[d].boot /\ core'[d].seq = core[d].seq
            /\ core'[d].osGen = core[d].osGen /\ core'[d].lamport = core[d].lamport
            /\ \A e \in ClipDevices : e # d => core'[e] = core[e]
        BY <2>4, <2>20, <2>30, <3>4, <3>5
      <3>7. core[d].lamport \in Nat
        BY <2>2, <2>30 DEF DeviceOrdered, Ordered
      <3>8. DeviceOrdered(d)'
        BY <2>6, <2>7, <2>30, <3>1, <3>2, <3>6, <3>7
      <3>9. \A l \in Links : LinkOrdered(l)'
        BY <2>9, <2>10, <2>30, <3>1 DEF GrantIsSet
      <3> QED BY <2>1, <2>12, <2>30, <3>1, <3>2, <3>6, <3>8, <3>9
    \* The content that is on the clipboard when its generation is read is known.
    <2>31. ASSUME NEW d \in ClipDevices, Known(d), board' = board
           PROVE  /\ DOMAIN past'.known = ClipDevices
                  /\ \A e \in ClipDevices : e # d => past'.known[e] = past.known[e]
                  /\ \/ past'.known[d] = past.known[d]
                     \/ past'.known[d].content = board'[d].content /\ past'.known[d].key = NoKey
                  /\ Knows(board[d].gen, board'[d], past'.known[d])
      <3>1. PICK k : /\ k = IF past.known[d].content = board[d].content THEN past.known[d]
                            ELSE [content |-> board[d].content, key |-> NoKey]
                     /\ past' = [past EXCEPT !.known[d] = k]
        BY <2>31 DEF Known
      <3>2. /\ DOMAIN past'.known = ClipDevices /\ past'.known[d] = k
            /\ \A e \in ClipDevices : e # d => past'.known[e] = past.known[e]
        BY <2>19, <2>31, <3>1
      <3> QED BY <2>1, <2>31, <3>1, <3>2 DEF Knows
    <2>32. ASSUME NEW d \in ClipDevices, NEW p \in ClipDevices, ClearClipboardGrants(d, p) PROVE OrderIInv'
      <3>1. UNCHANGED <<board, core, owner, box, streams, reading>> /\ Known(d)
        BY <2>32 DEF ClearClipboardGrants
      <3>2. /\ editing'[d].pc = "clear" /\ editing'[d].gen = board[d].gen /\ DOMAIN editing' = ClipDevices
            /\ \A e \in ClipDevices : e # d => editing'[e] = editing[e]
        BY <2>1, <2>32 DEF ClearClipboardGrants
      <3>3. core[d].lamport \in Nat
        BY <2>2, <2>32 DEF DeviceOrdered, Ordered
      <3>4. DeviceOrdered(d)'
        BY <2>6, <2>7, <2>31, <2>32, <3>1, <3>2, <3>3
      <3>5. \A l \in Links : LinkOrdered(l)'
        BY <2>9, <3>1
      <3> QED BY <2>1, <2>12, <2>31, <2>32, <3>1, <3>2, <3>4, <3>5
    <2>33. ASSUME NEW d \in ClipDevices, NEW paused, NEW gen, ResetClipboard(d, paused, gen)
           PROVE  /\ core'[d].committed = core[d].committed /\ core'[d].boot = core[d].boot /\ core'[d].seq = core[d].seq
                  /\ core'[d].osGen = gen /\ core'[d].lamport = core[d].lamport /\ core[d].lamport \in Nat
                  /\ \A e \in ClipDevices : e # d => core'[e] = core[e]
                  /\ \A l \in Links : box'[l] = box[l] \/ box'[l].pc = "none"
      <3>1. PICK c : c = [core[d] EXCEPT !.paused = paused, !.osGen = gen, !.revision = @ + 1]
        OBVIOUS
      <3>2. /\ DOMAIN c = CoreFields /\ c.committed = core[d].committed /\ c.boot = core[d].boot /\ c.seq = core[d].seq
            /\ c.osGen = gen /\ c.lamport = core[d].lamport
        BY <2>1, <2>33, <3>1 DEF CoreFields
      <3>3. core' = [core EXCEPT ![d] = NoPending(c)]
        BY <2>33, <3>1 DEF ResetClipboard
      <3>4. core[d].lamport \in Nat
        BY <2>2, <2>33 DEF DeviceOrdered, Ordered
      <3>5. \A l \in Links : box'[l] = box[l] \/ box'[l].pc = "none"
        BY <2>10, <2>33 DEF ResetClipboard
      <3>6. core'[d] = NoPending(c) /\ \A e \in ClipDevices : e # d => core'[e] = core[e]
        BY <2>20, <2>33, <3>3
      <3>7. /\ core'[d].committed = c.committed /\ core'[d].boot = c.boot /\ core'[d].seq = c.seq
            /\ core'[d].osGen = c.osGen /\ core'[d].lamport = c.lamport
        BY <2>4, <3>2, <3>6
      <3> QED BY <3>2, <3>4, <3>5, <3>6, <3>7
    <2>34. ASSUME NEW d \in ClipDevices, GrantsAreCleared(d) PROVE OrderIInv'
      <3>1. UNCHANGED <<board, past, owner, streams, reading>>
        BY <2>34 DEF GrantsAreCleared
      <3>2. /\ editing'[d].pc = "none" /\ DOMAIN editing' = ClipDevices
            /\ \A e \in ClipDevices : e # d => editing'[e] = editing[e]
        BY <2>1, <2>3, <2>34 DEF GrantsAreCleared
      <3>3. PICK paused, gen : ResetClipboard(d, paused, gen) /\ gen = editing[d].gen
        BY <2>34 DEF GrantsAreCleared
      <3>4. Knows(gen, board[d], past.known[d])
        BY <2>2, <2>34, <3>3 DEF GrantsAreCleared, DeviceOrdered
      <3>5. DeviceOrdered(d)'
        BY <2>6, <2>7, <2>33, <2>34, <3>1, <3>2, <3>3, <3>4
      <3>6. \A l \in Links : LinkOrdered(l)'
        BY <2>9, <2>33, <2>34, <3>1, <3>3
      <3> QED BY <2>1, <2>12, <2>33, <2>34, <3>1, <3>2, <3>3, <3>5, <3>6
    <2>35. ASSUME NEW d \in ClipDevices, SetClipboardSuspended(d) PROVE OrderIInv'
      <3>1. UNCHANGED <<board, core, editing, box, streams, reading>> /\ Known(d)
        BY <2>35 DEF SetClipboardSuspended
      <3>2. /\ owner'[d].pc = "reset" /\ owner'[d].gen = board[d].gen
            /\ \A e \in ClipDevices : e # d => owner'[e] = owner[e]
        BY <2>1, <2>35 DEF SetClipboardSuspended
      <3>3. core[d].lamport \in Nat
        BY <2>2, <2>35 DEF DeviceOrdered, Ordered
      <3>4. DeviceOrdered(d)'
        BY <2>6, <2>7, <2>31, <2>35, <3>1, <3>2, <3>3
      <3>5. \A l \in Links : LinkOrdered(l)'
        BY <2>9, <3>1
      <3> QED BY <2>1, <2>12, <2>31, <2>35, <3>1, <3>2, <3>4, <3>5
    <2>36. ASSUME NEW d \in ClipDevices, Suspended(d) PROVE OrderIInv'
      <3>1. UNCHANGED <<board, past, editing, streams, reading>>
        BY <2>36 DEF Suspended
      <3>2. owner'[d].pc = "none" /\ \A e \in ClipDevices : e # d => owner'[e] = owner[e]
        BY <2>1, <2>3, <2>36 DEF Suspended
      <3>3. PICK paused, gen : ResetClipboard(d, paused, gen) /\ gen = owner[d].gen
        BY <2>36 DEF Suspended
      <3>4. Knows(gen, board[d], past.known[d])
        BY <2>2, <2>36, <3>3 DEF Suspended, DeviceOrdered
      <3>5. DeviceOrdered(d)'
        BY <2>6, <2>7, <2>33, <2>36, <3>1, <3>2, <3>3, <3>4
      <3>6. \A l \in Links : LinkOrdered(l)'
        BY <2>9, <2>33, <2>36, <3>1, <3>3
      <3> QED BY <2>1, <2>12, <2>33, <2>36, <3>1, <3>2, <3>3, <3>5, <3>6
    \* A restart forgets the order: what is on the clipboard precedes every event.
    <2>37. ASSUME NEW d \in ClipDevices, RestartClipboard(d) PROVE OrderIInv'
      <3>1. UNCHANGED <<board, editing>>
        BY <2>37 DEF RestartClipboard
      <3>2. owner'[d].pc = "none" /\ \A e \in ClipDevices : e # d => owner'[e] = owner[e]
        BY <2>1, <2>3, <2>37 DEF RestartClipboard
      <3>3. PICK c : c = NewCore(core[d].boot + 1, board[d].gen) /\ core' = [core EXCEPT ![d] = c]
        BY <2>37 DEF RestartClipboard
      <3>4. /\ c.committed = NoKey /\ c.lamport = 0 /\ c.boot = core[d].boot + 1 /\ c.seq = 0 /\ c.osGen = board[d].gen
            /\ NoKey[1] = 0
        BY <3>3 DEF NewCore, NoKey
      <3>5. PICK k : k = [content |-> board[d].content, key |-> NoKey] /\ past' = [past EXCEPT !.known[d] = k]
        BY <2>37 DEF RestartClipboard
      <3>6. /\ DOMAIN past'.known = ClipDevices /\ past'.known[d].content = board[d].content /\ past'.known[d].key = NoKey
            /\ \A e \in ClipDevices : e # d => past'.known[e] = past.known[e]
        BY <2>19, <2>37, <3>5
      <3>7. core'[d] = c /\ \A e \in ClipDevices : e # d => core'[e] = core[e]
        BY <2>20, <2>37, <3>3
      <3>8. core[d].boot \in Nat
        BY <2>2, <2>37 DEF DeviceOrdered, Ordered
      <3>9. Ordered(core'[d], board'[d], past'.known[d])
        BY <2>1, <2>37, <3>1, <3>4, <3>6, <3>7, <3>8, <1>First DEF Ordered, Knows
      <3>10. DeviceOrdered(d)'
        BY <2>7, <2>37, <3>1, <3>2, <3>6, <3>9
      <3>11. \A l \in Links : /\ box'[l] = box[l] \/ box'[l].pc = "none"
                              /\ \A m \in streams'[l] : m \in streams[l]
                              /\ reading'[l] = reading[l] \/ reading'[l].pc = "none"
        BY <2>3, <2>37 DEF RestartClipboard
      <3>12. \A l \in Links : LinkOrdered(l)'
        BY <2>9, <3>11
      <3> QED BY <2>1, <2>12, <2>37, <3>1, <3>2, <3>6, <3>7, <3>10, <3>12
    <2>38. CASE UNCHANGED clipVars
      <3>1. UNCHANGED <<board, core, past, editing, owner, box, streams, reading>>
        BY <2>38 DEF clipVars
      <3> QED BY <2>9, <2>11, <3>1
    <2>39. \A l \in left.links : /\ l \in Links /\ l[1] \in ClipDevices /\ l[2] \in ClipDevices
                                 /\ <<l[1], l[2]>> \in Links /\ <<l[2], l[1]>> \in Links
      BY DEF ClipIInv, ClipTypeOK, ClipBounds, Links
    <2> QED BY <2>13, <2>14, <2>15, <2>16, <2>17, <2>18, <2>21, <2>23, <2>24, <2>25, <2>26, <2>27, <2>28, <2>29, <2>30,
               <2>32, <2>34, <2>35, <2>36, <2>37, <2>38, <2>39, <2>40, <2>42, <2>43, <2>45, <2>46, <2>47 DEF ClipNext
  \* A write of a peer's content is a commit, over what the core knows.
  <1>3. ASSUME ClipIInv, ClipIInv', OrderIInv, ClipNext,
               NEW d \in ClipDevices, board'[d].gen > board[d].gen, board'[d].content[1] # d
        PROVE  board[d].content = past.known[d].content /\ Before(past.known[d].key, past'.known[d].key)
    <2> USE <1>3
    <2>1. /\ \A e \in ClipDevices : board[e].gen \in Nat /\ DOMAIN board = ClipDevices
          /\ DOMAIN past = {"known", "private"} /\ DOMAIN past.known = ClipDevices
          /\ \A l \in left.links : l \in Links /\ l[1] \in ClipDevices /\ l[2] \in ClipDevices /\ l = <<l[1], l[2]>>
      BY DEF ClipIInv, ClipTypeOK, OrderIInv, ClipBounds, Links
    <2>2. ASSUME NEW e \in ClipDevices, UserCopies(e) PROVE FALSE
      <3>1. PICK c : c[1] = e /\ board' = [board EXCEPT ![e] = [gen |-> board[e].gen + 1, content |-> c]]
        BY <2>2 DEF UserCopies, Changed
      <3>2. CASE e = d
        BY <2>1, <3>1, <3>2
      <3>3. CASE e # d
        BY <2>1, <3>1, <3>3
      <3> QED BY <3>2, <3>3
    <2>3. board' # board
      BY <2>1
    <2>4. PICK l \in left.links : Commit(l[1], l[2])
      <3>1. ASSUME NEW e, \/ Expire(e) \/ ObserveLocalEvent(e) \/ NotAChange(e) \/ OutboundForObservation(e)
                          \/ ReadPayload(e) \/ PrepareObserved(e) \/ BindScoped(e) \/ GrantIsSet(e) \/ GrantsAreCleared(e) \/ SetClipboardSuspended(e) \/ Suspended(e)
                          \/ RestartClipboard(e)
            PROVE  UNCHANGED board
        BY <3>1 DEF Expire, ObserveLocalEvent, NotAChange, OutboundForObservation, ReadPayload, PrepareObserved, BindScoped,
              GrantIsSet, GrantsAreCleared, SetClipboardSuspended, Suspended, RestartClipboard
      <3>2. ASSUME NEW e, NEW p, \/ SendLease(e, p) \/ LoseMessage(e) \/ Enqueue(e, p) \/ SendJob(e, p) \/ InstallLease(e, p)
                                 \/ ClipboardGrant(e, p) \/ WriteJob(e, p) \/ ReadBaseline(e, p) \/ BeginHeader(e, p)
                                 \/ \E m : ReadLease(e, p, m) \/ ReadHeader(e, p, m)
                                 \/ \E dir : SetClipboardGrant(e, p, dir)
                                 \/ ClearClipboardGrants(e, p)
            PROVE  UNCHANGED board
        BY <3>2 DEF SendLease, LoseMessage, Enqueue, SendJob, ReadLease, InstallLease, BeginHeader, SetClipboardGrant,
              ClearClipboardGrants, ClipboardGrant, WriteJob, ReadBaseline, ReadHeader
      <3> QED BY <2>2, <2>3, <3>1, <3>2 DEF ClipNext
    <2>5. PICK c : c = reading[l]
      OBVIOUS
    <2>6. /\ l = <<l[1], l[2]>> /\ l \in Links /\ l[2] \in ClipDevices
          /\ c.pc = "candidate" /\ Committable(l[2], l[1], c) /\ Changed(l[2], c.event.content)
          /\ past' = [past EXCEPT !.known[l[2]] = [content |-> c.event.content, key |-> c.event.key]]
      BY <2>1, <2>3, <2>4, <2>5 DEF Commit
    <2>7. l[2] = d
      BY <2>1, <2>6 DEF Changed
    <2>8. past'.known[d].key = c.event.key
      BY <2>1, <2>6, <2>7
    <2>9. DeviceOrdered(d) /\ c.event.key \in Keys
      BY <2>5, <2>6 DEF OrderIInv, LinkOrdered
    <2>10. board[d].gen = core[d].osGen /\ Before(core[d].committed, c.event.key)
      BY <2>6, <2>7 DEF Committable
    <2> QED BY <2>8, <2>9, <2>10, <1>Follows DEF DeviceOrdered, Ordered, Knows
  <1>4. ClipIInv /\ ClipIInv' /\ OrderIInv /\ [ClipNext]_clipVars
          => [\A d \in ClipDevices :
                board'[d].gen > board[d].gen /\ board'[d].content[1] # d =>
                  /\ board[d].content = past.known[d].content
                  /\ Before(past.known[d].key, past'.known[d].key)]_clipVars
    BY <1>3
  <1>5. ClipSpec => []ClipIInv
    BY CopiesAreOwn, PTL
  <1>6. ClipIInv /\ ClipIInv' /\ OrderIInv /\ [ClipNext]_clipVars => OrderIInv'
    BY <1>2
  <1> QED BY <1>1, <1>4, <1>5, <1>6, PTL DEF ClipSpec, NewestWins

(***************************************************************************)
(* Permissions to send                                                     *)
(***************************************************************************)
Grants == [on : BOOLEAN, revision : Nat]
Policies == [ClipDevices -> [ClipDevices -> [send : Grants, receive : Grants]]]

\* What a device decides by when it sends.
Side(d) == [core |-> core[d], leases |-> leases[d], lapsed |-> lapsed[d], policy |-> policy[d], editing |-> editing[d]]

\* The leases of a side v to send to p, and those that are over when these are.
Open(v, p) == UpTo({l \in v.leases : l.peer = p /\ l.outbound = TRUE})

\* The permission of p is being edited.
Edited(v, p) ==
    \/ v.editing.pc = "clear"
    \/ v.editing.pc = "set" /\ v.editing.peer = p /\ v.editing.dir = "send"

\* The lease came under the permission there is, and what was looked at under it
\* is permitted; or that is being edited.
Permitted(v, p, lease, sender) ==
    \/ /\ lease.under = v.policy[p].send.revision
       /\ sender = v.policy[p].send.revision => v.policy[p].send.on
    \/ Edited(v, p)

\* While a job e to p could be written, its lease or one that came after is
\* there, so that an edit will find it, and it is permitted.
Bound(v, p, e, lease, sender) ==
    /\ e.revision \in Nat /\ e.revision <= v.core.revision
    /\ ~v.core.paused /\ e.revision = v.core.revision /\ e.gen = v.core.osGen /\ lease.id \notin v.lapsed
          => lease.id \in Open(v, p) /\ Permitted(v, p, lease, sender)

\* A permission that was looked at: the one there is, or one before it.
Seen(v, p, grant) ==
    /\ grant \in Grants /\ grant.revision <= v.policy[p].send.revision
    /\ grant.revision = v.policy[p].send.revision => grant = v.policy[p].send

OwnerBound(v, o) ==
    /\ o.pc \in Working => \A j \in o.jobs : j.peer \in ClipDevices /\ Bound(v, j.peer, o, j.lease, j.sender)
    /\ o.pc = "bound" => o.now.peer \in ClipDevices /\ Bound(v, o.now.peer, o, o.now.lease, o.now.sender)
    /\ o.pc = "granted" => o.now.peer \in ClipDevices /\ Seen(v, o.now.peer, o.now.send)
BoxBound(v, p, b) == b.pc = "job" => Bound(v, p, b, b.lease, b.sender)

\* Every lease to send came under the permission there is, or that is being edited.
LeasesCurrent(v) ==
    \A k \in v.leases : k.outbound = TRUE => Edited(v, k.peer) \/ k.under = v.policy[k.peer].send.revision

PermitIInv ==
    /\ policy \in Policies /\ DOMAIN editing = ClipDevices
    /\ DOMAIN leases = ClipDevices /\ DOMAIN lapsed = ClipDevices
    /\ \A d \in ClipDevices : OwnerBound(Side(d), owner[d]) /\ LeasesCurrent(Side(d))
    /\ \A l \in Links : BoxBound(Side(l[1]), l[2], box[l])

\* From v to w permissions only advance; and nothing is current any more, or no
\* job to p loses its lease and its permission before it can no longer be written.
Keeps(v, w, p) ==
    /\ w.policy[p].send = v.policy[p].send \/ w.policy[p].send.revision > v.policy[p].send.revision
    /\ \/ v.core.revision < w.core.revision
       \/ /\ w.core.revision = v.core.revision /\ w.core.paused = v.core.paused /\ w.core.osGen = v.core.osGen
          /\ v.lapsed \subseteq w.lapsed
          /\ \A id \in Open(v, p) : /\ id \in Open(w, p) \cup w.lapsed
                                    /\ \A k, s : Permitted(v, p, k, s) => Permitted(w, p, k, s)

\* After an edit of the permission to send has returned, nothing that is bound to
\* a lease from before the edit passes its last look, and nothing that was looked
\* at since when the edit withdrew the permission: for every number of devices,
\* copies, edits, pauses, lapses of leases and restarts.
THEOREM WithdrawnStaysQuiet == ClipSpec => WithdrawnLeasesAreQuiet
  <1>Kept. ASSUME NEW v, NEW w, NEW p, NEW e, NEW k, NEW s, v.core.revision \in Nat, w.core.revision \in Nat,
                  Keeps(v, w, p), Bound(v, p, e, k, s)
           PROVE  Bound(w, p, e, k, s)
    BY <1>Kept DEF Keeps, Bound
  <1>Same. ASSUME NEW v, NEW p, NEW e, NEW f, NEW k, NEW s, f.revision = e.revision, f.gen = e.gen, Bound(v, p, e, k, s)
           PROVE  Bound(v, p, f, k, s)
    BY <1>Same DEF Bound
  <1>Sight. ASSUME NEW v, NEW w, NEW p, NEW g, v.policy[p].send \in Grants, w.policy[p].send \in Grants,
                   Keeps(v, w, p), Seen(v, p, g)
            PROVE  Seen(w, p, g)
    BY <1>Sight DEF Keeps, Seen, Grants
  <1>1. ClipInit => PermitIInv
    <2> SUFFICES ASSUME ClipInit PROVE PermitIInv
      OBVIOUS
    <2>1. policy \in Policies
      BY DEF ClipInit, Policies, Grants
    <2>2. /\ \A d \in ClipDevices : owner[d].pc = "none"
          /\ \A d \in ClipDevices : leases[d] = {}
          /\ \A l \in Links : box[l].pc = "none"
          /\ DOMAIN editing = ClipDevices /\ DOMAIN leases = ClipDevices /\ DOMAIN lapsed = ClipDevices
      BY DEF ClipInit, Nothing
    <2> QED BY <2>1, <2>2 DEF PermitIInv, OwnerBound, BoxBound, LeasesCurrent, Side, Working
  \* Every step keeps what is bound.
  <1>2. ASSUME ClipIInv, ClipIInv', PermitIInv, [ClipNext]_clipVars PROVE PermitIInv'
    <2> USE <1>2
    <2>1. /\ \A d \in ClipDevices : core[d].revision \in Nat /\ core'[d].revision \in Nat /\ DOMAIN core[d] = CoreFields
          /\ DOMAIN core = ClipDevices /\ DOMAIN owner = ClipDevices /\ DOMAIN editing = ClipDevices
          /\ DOMAIN leases = ClipDevices /\ DOMAIN lapsed = ClipDevices /\ DOMAIN box = Links
          /\ \A l \in Links : l[1] \in ClipDevices /\ l[2] \in Peers(l[1]) /\ l[2] \in ClipDevices /\ l = <<l[1], l[2]>>
          /\ policy \in Policies /\ \A d, p \in ClipDevices : policy[d][p].send \in Grants
      BY DEF ClipIInv, ClipTypeOK, PermitIInv, Links, Peers, Policies
    <2>2. /\ \A d \in ClipDevices : OwnerBound(Side(d), owner[d]) /\ OwnerAgrees(d) /\ LeasesCurrent(Side(d))
          /\ \A l \in Links : BoxBound(Side(l[1]), l[2], box[l])
      BY DEF PermitIInv, ClipIInv, CopiesAgree
    <2>3. Nothing.pc = "none"
      BY DEF Nothing
    <2>4. \A d : /\ Side(d).core = core[d] /\ Side(d).leases = leases[d] /\ Side(d).lapsed = lapsed[d]
                 /\ Side(d).policy = policy[d] /\ Side(d).editing = editing[d]
                 /\ Side(d)'.core = core'[d] /\ Side(d)'.leases = leases'[d] /\ Side(d)'.lapsed = lapsed'[d]
                 /\ Side(d)'.policy = policy'[d] /\ Side(d)'.editing = editing'[d]
      BY DEF Side
    <2>5. ASSUME NEW c, DOMAIN c = CoreFields
          PROVE  /\ NoPending(c).revision = c.revision /\ NoPending(c).osGen = c.osGen /\ NoPending(c).paused = c.paused
      BY <2>5 DEF NoPending, CoreFields
    <2>6. ASSUME NEW d \in ClipDevices, NEW c, core' = [core EXCEPT ![d] = c]
          PROVE  core'[d] = c /\ \A e \in ClipDevices : e # d => core'[e] = core[e]
      BY <2>1, <2>6
    \* The ways to keep what is bound: nothing changes,
    <2>7. ASSUME NEW d \in ClipDevices, NEW p,
                 core'[d].revision = core[d].revision, core'[d].paused = core[d].paused, core'[d].osGen = core[d].osGen,
                 leases'[d] = leases[d], lapsed'[d] = lapsed[d], policy'[d] = policy[d], editing'[d] = editing[d]
          PROVE  Keeps(Side(d), Side(d)', p)
      BY <2>4, <2>7 DEF Keeps, Open, Permitted, Edited
    \* something else becomes current,
    <2>8. ASSUME NEW d \in ClipDevices, NEW p, core'[d].revision > core[d].revision, policy'[d] = policy[d]
          PROVE  Keeps(Side(d), Side(d)', p)
      BY <2>1, <2>4, <2>8 DEF Keeps
    \* a lease goes when one that lasts longer came, or with what it holds,
    <2>9. ASSUME NEW d \in ClipDevices, NEW p,
                 core'[d].revision = core[d].revision, core'[d].paused = core[d].paused, core'[d].osGen = core[d].osGen,
                 lapsed[d] \subseteq lapsed'[d], policy'[d] = policy[d], editing'[d] = editing[d],
                 \A id \in Open(Side(d), p) : id \in Open(Side(d)', p) \cup lapsed'[d]
          PROVE  Keeps(Side(d), Side(d)', p)
      BY <2>4, <2>9 DEF Keeps, Permitted, Edited
    \* or the permission of what has a lease stays or is being edited.
    <2>10. ASSUME NEW d \in ClipDevices, NEW p,
                  core'[d].revision = core[d].revision, core'[d].paused = core[d].paused, core'[d].osGen = core[d].osGen,
                  leases'[d] = leases[d], lapsed'[d] = lapsed[d],
                  policy'[d][p].send = policy[d][p].send \/ policy'[d][p].send.revision > policy[d][p].send.revision,
                  Open(Side(d), p) = {} \/ \A k, s : Permitted(Side(d), p, k, s) => Permitted(Side(d)', p, k, s)
           PROVE  Keeps(Side(d), Side(d)', p)
      <3>1. Open(Side(d), p) = Open(Side(d)', p)
        BY <2>4, <2>10 DEF Open
      <3> QED BY <2>4, <2>10, <3>1 DEF Keeps
    \* What every step comes to.
    <2>11. ASSUME policy' \in Policies, DOMAIN editing' = ClipDevices, DOMAIN leases' = ClipDevices, DOMAIN lapsed' = ClipDevices,
                  \A d \in ClipDevices :
                     \/ \A p \in ClipDevices : Keeps(Side(d), Side(d)', p)
                     \/ owner'[d].pc = "none" /\ \A l \in Links : l[1] = d => box'[l].pc = "none",
                  \A d \in ClipDevices :
                     \/ leases'[d] \subseteq leases[d] /\ policy'[d] = policy[d] /\ editing'[d] = editing[d]
                     \/ LeasesCurrent(Side(d)'),
                  \A d \in ClipDevices : \/ owner'[d] = owner[d] \/ owner'[d].pc \notin Working
                                         \/ OwnerBound(Side(d)', owner'[d]),
                  \A l \in Links : \/ box'[l] = box[l] \/ box'[l].pc = "none"
                                   \/ BoxBound(Side(l[1])', l[2], box'[l])
           PROVE  PermitIInv'
      <3>1. ASSUME NEW d \in ClipDevices PROVE OwnerBound(Side(d)', owner'[d])
        <4>1. CASE owner'[d] = owner[d] /\ \A p \in ClipDevices : Keeps(Side(d), Side(d)', p)
          <5>1. OwnerBound(Side(d), owner[d])
            BY <2>2
          <5>2. Side(d).core.revision \in Nat /\ Side(d)'.core.revision \in Nat
            BY <2>1, <2>4
          <5>3. \A p \in ClipDevices : Side(d).policy[p].send \in Grants /\ Side(d)'.policy[p].send \in Grants
            BY <2>1, <2>4, <2>11 DEF Policies
          <5>4. owner[d].pc \in Working =>
                  \A j \in owner[d].jobs : j.peer \in ClipDevices /\ Bound(Side(d)', j.peer, owner[d], j.lease, j.sender)
            BY <4>1, <5>1, <5>2, <1>Kept DEF OwnerBound
          <5>5. owner[d].pc = "bound" =>
                  owner[d].now.peer \in ClipDevices
                  /\ Bound(Side(d)', owner[d].now.peer, owner[d], owner[d].now.lease, owner[d].now.sender)
            BY <4>1, <5>1, <5>2, <1>Kept DEF OwnerBound
          <5>6. owner[d].pc = "granted" =>
                  owner[d].now.peer \in ClipDevices /\ Seen(Side(d)', owner[d].now.peer, owner[d].now.send)
            BY <4>1, <5>1, <5>3, <1>Sight DEF OwnerBound
          <5> QED BY <4>1, <5>4, <5>5, <5>6 DEF OwnerBound
        <4>2. CASE owner'[d].pc \notin Working
          BY <4>2 DEF OwnerBound, Working
        <4>3. CASE owner'[d].pc = "none"
          BY <4>3 DEF OwnerBound, Working
        <4> QED BY <2>11, <4>1, <4>2, <4>3
      <3>4. ASSUME NEW d \in ClipDevices PROVE LeasesCurrent(Side(d)')
        <4>1. CASE leases'[d] \subseteq leases[d] /\ policy'[d] = policy[d] /\ editing'[d] = editing[d]
          BY <2>2, <2>4, <4>1 DEF LeasesCurrent, Edited
        <4> QED BY <2>11, <4>1
      <3>2. ASSUME NEW l \in Links PROVE BoxBound(Side(l[1])', l[2], box'[l])
        <4>1. CASE box'[l] = box[l] /\ \A p \in ClipDevices : Keeps(Side(l[1]), Side(l[1])', p)
          <5>1. BoxBound(Side(l[1]), l[2], box[l]) /\ l[2] \in ClipDevices
            BY <2>1, <2>2
          <5>2. Side(l[1]).core.revision \in Nat /\ Side(l[1])'.core.revision \in Nat
            BY <2>1, <2>4
          <5> QED BY <4>1, <5>1, <5>2, <1>Kept DEF BoxBound
        <4>2. CASE box'[l].pc = "none"
          BY <4>2 DEF BoxBound
        <4> QED BY <2>1, <2>11, <4>1, <4>2
      <3> QED BY <2>11, <3>1, <3>2, <3>4 DEF PermitIInv
    \* Only one device keeps in a way of its own.
    <2>12. ASSUME NEW d \in ClipDevices, policy' \in Policies,
                  DOMAIN editing' = ClipDevices, DOMAIN leases' = ClipDevices, DOMAIN lapsed' = ClipDevices,
                  \A p \in ClipDevices : Keeps(Side(d), Side(d)', p),
                  \A e \in ClipDevices : e # d =>
                     /\ core'[e] = core[e] /\ leases'[e] = leases[e] /\ lapsed'[e] = lapsed[e]
                     /\ policy'[e] = policy[e] /\ editing'[e] = editing[e] /\ owner'[e] = owner[e],
                  \/ leases'[d] \subseteq leases[d] /\ policy'[d] = policy[d] /\ editing'[d] = editing[d]
                  \/ LeasesCurrent(Side(d)'),
                  owner'[d] = owner[d] \/ owner'[d].pc \notin Working \/ OwnerBound(Side(d)', owner'[d]),
                  \A l \in Links : \/ box'[l] = box[l] \/ box'[l].pc = "none"
                                   \/ BoxBound(Side(l[1])', l[2], box'[l])
           PROVE  PermitIInv'
      <3>1. ASSUME NEW e \in ClipDevices, NEW p \in ClipDevices PROVE Keeps(Side(e), Side(e)', p)
        <4>1. CASE e = d
          BY <2>12, <4>1
        <4>2. CASE e # d
          BY <2>7, <2>12, <4>2
        <4> QED BY <4>1, <4>2
      <3>2. \A e \in ClipDevices : \/ owner'[e] = owner[e] \/ owner'[e].pc \notin Working
                                   \/ OwnerBound(Side(e)', owner'[e])
        BY <2>12
      <3>3. \A e \in ClipDevices : \/ leases'[e] \subseteq leases[e] /\ policy'[e] = policy[e] /\ editing'[e] = editing[e]
                                   \/ LeasesCurrent(Side(e)')
        BY <2>12
      <3> QED BY <2>11, <2>12, <3>1, <3>2, <3>3
    <2>13. ASSUME NEW d \in ClipDevices, NEW peers, Cancelled(d, peers)
           PROVE  \A l \in Links : box'[l] = box[l] \/ box'[l].pc = "none"
      BY <2>3, <2>13 DEF Cancelled
    \* Steps that touch none of it but the owner, a job or what is not current.
    <2>14. ASSUME NEW d \in ClipDevices, UserCopies(d) \/ NotAChange(d) \/ SetClipboardSuspended(d) PROVE PermitIInv'
      <3>1. /\ UNCHANGED <<core, leases, lapsed, policy, editing, box>>
            /\ \A e \in ClipDevices : owner'[e] = owner[e] \/ owner'[e].pc = "reset"
        BY <2>1, <2>14 DEF UserCopies, NotAChange, SetClipboardSuspended
      <3> QED BY <2>1, <2>7, <2>11, <3>1 DEF Working
    <2>15. ASSUME NEW d, NEW p, NEW l \in Links, NEW m,
                  \/ LoseMessage(l) \/ ReadLease(d, p, m) \/ ReadBaseline(d, p) \/ ReadHeader(d, p, m) \/ WriteJob(d, p)
           PROVE  PermitIInv'
      <3>1. UNCHANGED <<core, leases, lapsed, policy, editing, box, owner>>
        BY <2>15 DEF LoseMessage, ReadLease, ReadBaseline, ReadHeader, WriteJob
      <3> QED BY <2>1, <2>7, <2>11, <3>1
    <2>16. ASSUME NEW d, NEW p, SendJob(d, p) PROVE PermitIInv'
      <3>1. /\ UNCHANGED <<core, leases, lapsed, policy, editing, owner>>
            /\ \A l \in Links : box'[l] = box[l] \/ box'[l].pc = "none"
        BY <2>1, <2>3, <2>16 DEF SendJob
      <3> QED BY <2>1, <2>7, <2>11, <3>1
    <2>17. ASSUME NEW d \in ClipDevices, NEW p, BeginHeader(p, d) PROVE PermitIInv'
      <3>0. PICK m : m = reading[<<p, d>>].event
        OBVIOUS
      <3>1. /\ UNCHANGED <<leases, lapsed, policy, editing, owner, box>>
            /\ \/ UNCHANGED core
               \/ core' = [core EXCEPT ![d].pending = m.key, ![d].pendingRevision = core[d].revision,
                                       ![d].pendingLease = m.lease]
        BY <2>17, <3>0 DEF BeginHeader
      <3>2. \A e \in ClipDevices : /\ core'[e].revision = core[e].revision /\ core'[e].paused = core[e].paused
                                   /\ core'[e].osGen = core[e].osGen
        BY <2>1, <3>1 DEF CoreFields
      <3> QED BY <2>1, <2>7, <2>11, <3>1, <3>2
    \* Leases come and go.
    <2>18. ASSUME NEW d \in ClipDevices, Expire(d) PROVE PermitIInv'
      <3>1. PICK l \in leases[d] :
              LET gone == {k \in leases[d] : k.id \in UpTo({l})} IN
              /\ lapsed' = [lapsed EXCEPT ![d] = @ \cup UpTo(gone)]
              /\ leases' = [leases EXCEPT ![d] = @ \ gone]
        BY <2>18 DEF Expire
      <3>2. PICK gone : /\ lapsed' = [lapsed EXCEPT ![d] = @ \cup UpTo(gone)]
                        /\ leases' = [leases EXCEPT ![d] = @ \ gone]
        BY <3>1
      <3>3. /\ UNCHANGED <<core, policy, editing, owner, box>>
            /\ lapsed'[d] = lapsed[d] \cup UpTo(gone) /\ leases'[d] = leases[d] \ gone
            /\ \A e \in ClipDevices : e # d => lapsed'[e] = lapsed[e] /\ leases'[e] = leases[e]
            /\ DOMAIN leases' = ClipDevices /\ DOMAIN lapsed' = ClipDevices
        BY <2>1, <2>18, <3>2 DEF Expire
      <3>4. ASSUME NEW p, NEW id \in Open(Side(d), p) PROVE id \in Open(Side(d)', p) \cup lapsed'[d]
        <4>1. PICK k \in leases[d] : k.peer = p /\ k.outbound = TRUE /\ id \in {k.id} \cup k.earlier
          BY <2>4, <3>4 DEF Open, UpTo
        <4>2. CASE k \in gone
          BY <3>3, <4>1, <4>2 DEF UpTo
        <4>3. CASE k \notin gone
          BY <2>4, <3>3, <4>1, <4>3 DEF Open, UpTo
        <4> QED BY <4>2, <4>3
      <3>5. \A p \in ClipDevices : Keeps(Side(d), Side(d)', p)
        BY <2>9, <2>18, <3>3, <3>4
      <3> QED BY <2>1, <2>12, <2>18, <3>3, <3>5
    <2>19. ASSUME NEW d \in ClipDevices, NEW p, SendLease(d, p) PROVE PermitIInv'
      <3>1. /\ UNCHANGED <<core, lapsed, policy, editing, owner, box>>
            /\ leases[d] \subseteq leases'[d] /\ DOMAIN leases' = ClipDevices
            /\ \A e \in ClipDevices : e # d => leases'[e] = leases[e]
        BY <2>1, <2>19 DEF SendLease
      <3>2. \A q : \A id \in Open(Side(d), q) : id \in Open(Side(d)', q)
        BY <2>4, <3>1 DEF Open, UpTo
      <3>3. \A q \in ClipDevices : Keeps(Side(d), Side(d)', q)
        BY <2>9, <2>19, <3>1, <3>2
      <3>4. LeasesCurrent(Side(d)')
        <4>1. PICK k : k.outbound = FALSE /\ leases'[d] = leases[d] \cup {k}
          <5>1. PICK k : /\ k = [id |-> <<d, p, left.leases[d]>>, peer |-> p, outbound |-> FALSE,
                                revision |-> policy[d][p].receive.revision, baseline |-> core[d].osGen,
                                earlier |-> UpTo(Of(d, p, FALSE)), under |-> 0]
                         /\ leases' = [leases EXCEPT ![d] = @ \cup {k}]
            BY <2>19 DEF SendLease
          <5>2. k.outbound = FALSE
            BY <5>1
          <5> QED BY <2>1, <2>19, <5>1, <5>2
        <4> QED BY <2>2, <2>4, <2>19, <3>1, <4>1 DEF LeasesCurrent, Edited
      <3> QED BY <2>1, <2>12, <2>19, <3>1, <3>3, <3>4
    <2>20. ASSUME NEW d \in ClipDevices, NEW p, InstallLease(d, p) PROVE PermitIInv'
      <3>1. PICK m : m = reading[<<p, d>>].lease
        OBVIOUS
      <3>2. PICK lease : lease = [id |-> m.id, peer |-> p, outbound |-> TRUE, revision |-> m.revision,
                                  baseline |-> reading[<<p, d>>].baseline, earlier |-> UpTo(Of(d, p, TRUE)),
                                  under |-> policy[d][p].send.revision]
        OBVIOUS
      <3>3. /\ lease.peer = p /\ lease.outbound = TRUE /\ lease.earlier = UpTo(Of(d, p, TRUE))
            /\ lease.under = policy[d][p].send.revision
        BY <3>2
      <3>4. PICK x, kept :
              \/ UNCHANGED <<leases, core>>
              \/ /\ leases' = [leases EXCEPT ![d] = (@ \ (Of(d, p, TRUE) \ kept)) \cup {lease}]
                 /\ core' = [core EXCEPT ![d].lamport = x]
        BY <2>20, <3>1, <3>2 DEF InstallLease
      <3>5. UNCHANGED <<lapsed, policy, editing, owner, box>>
        BY <2>20 DEF InstallLease
      <3>6. CASE UNCHANGED <<leases, core>>
        BY <2>1, <2>7, <2>11, <3>5, <3>6
      <3>7. CASE /\ leases' = [leases EXCEPT ![d] = (@ \ (Of(d, p, TRUE) \ kept)) \cup {lease}]
                 /\ core' = [core EXCEPT ![d].lamport = x]
        <4>1. /\ leases'[d] = (leases[d] \ (Of(d, p, TRUE) \ kept)) \cup {lease} /\ DOMAIN leases' = ClipDevices
              /\ \A e \in ClipDevices : e # d => leases'[e] = leases[e] /\ core'[e] = core[e]
              /\ core'[d].revision = core[d].revision /\ core'[d].paused = core[d].paused /\ core'[d].osGen = core[d].osGen
          BY <2>1, <2>20, <3>7 DEF CoreFields
        <4>2. ASSUME NEW q, NEW id \in Open(Side(d), q) PROVE id \in Open(Side(d)', q)
          <5>1. PICK k \in leases[d] : k.peer = q /\ k.outbound = TRUE /\ id \in {k.id} \cup k.earlier
            BY <2>4, <4>2 DEF Open, UpTo
          <5>2. CASE k \in leases'[d]
            BY <2>4, <5>1, <5>2 DEF Open, UpTo
          <5>3. CASE k \notin leases'[d]
            <6>1. k \in Of(d, p, TRUE)
              BY <4>1, <5>1, <5>3
            <6>2. q = p /\ id \in lease.earlier
              BY <3>3, <5>1, <6>1 DEF Of, UpTo
            <6>3. lease \in leases'[d]
              BY <4>1
            <6>4. lease.peer = p /\ lease.outbound = TRUE
              BY <3>3
            <6>5. lease \in {l \in Side(d)'.leases : l.peer = q /\ l.outbound = TRUE}
              BY <2>4, <6>2, <6>3, <6>4
            <6> QED BY <6>2, <6>5 DEF Open, UpTo
          <5> QED BY <5>2, <5>3
        <4>3. \A q \in ClipDevices : Keeps(Side(d), Side(d)', q)
          BY <2>9, <2>20, <3>5, <4>1, <4>2
        <4>4. LeasesCurrent(Side(d)')
          <5>1. ASSUME NEW k \in leases'[d], k.outbound = TRUE
                PROVE  Edited(Side(d), k.peer) \/ k.under = policy[d][k.peer].send.revision
            <6>1. CASE k = lease
              BY <3>3, <6>1
            <6>2. CASE k # lease
              <7>1. k \in leases[d]
                BY <4>1, <5>1, <6>2
              <7> QED BY <2>2, <2>4, <2>20, <5>1, <7>1 DEF LeasesCurrent
            <6> QED BY <6>1, <6>2
          <5>2. ASSUME NEW k \in leases'[d], k.outbound = TRUE
                PROVE  Edited(Side(d)', k.peer) \/ k.under = policy'[d][k.peer].send.revision
            <6>1. Edited(Side(d), k.peer) => Edited(Side(d)', k.peer)
              BY <2>4, <3>5 DEF Edited
            <6>2. policy'[d] = policy[d]
              BY <3>5
            <6> QED BY <5>1, <5>2, <6>1, <6>2, Zenon
          <5>3. Side(d)'.leases = leases'[d] /\ Side(d)'.policy = policy'[d]
            BY <2>4
          <5> QED BY <5>2, <5>3, Zenon DEF LeasesCurrent
        <4> QED BY <2>1, <2>12, <2>20, <3>5, <4>1, <4>3, <4>4
      <3> QED BY <3>4, <3>6, <3>7
    \* Something else becomes current.
    <2>21. ASSUME NEW d \in ClipDevices, ObserveLocalEvent(d) PROVE PermitIInv'
      <3>1. PICK c : c = [core[d] EXCEPT !.seq = @ + 1, !.lamport = @ + 1, !.osGen = notice[d], !.revision = @ + 1,
                                         !.committed = <<core[d].lamport + 1, d, core[d].boot, core[d].seq + 1>>]
        OBVIOUS
      <3>2. core' = [core EXCEPT ![d] = NoPending(c)] /\ DOMAIN c = CoreFields /\ c.revision = core[d].revision + 1
        BY <2>1, <2>21, <3>1 DEF ObserveLocalEvent, Observed, CoreFields
      <3>3. core'[d].revision > core[d].revision /\ \A e \in ClipDevices : e # d => core'[e] = core[e]
        BY <2>1, <2>5, <2>6, <2>21, <3>2
      <3>4. /\ UNCHANGED <<leases, lapsed, policy, editing>> /\ owner'[d].pc = "observed" /\ owner'[d].jobs = {}
            /\ \A e \in ClipDevices : e # d => owner'[e] = owner[e]
            /\ \A l \in Links : box'[l] = box[l] \/ box'[l].pc = "none"
        BY <2>1, <2>13, <2>21 DEF ObserveLocalEvent
      <3>5. OwnerBound(Side(d)', owner'[d])
        BY <3>4 DEF OwnerBound
      <3> QED BY <2>1, <2>8, <2>12, <2>21, <3>3, <3>4, <3>5
    <2>22. ASSUME NEW d \in ClipDevices, NEW p, Commit(p, d) PROVE PermitIInv'
      <3>1. UNCHANGED <<leases, lapsed, policy, editing, owner, box>>
        BY <2>22 DEF Commit
      <3>2. CASE UNCHANGED core
        BY <2>1, <2>7, <2>11, <3>1, <3>2
      <3>3. CASE core' # core
        <4>1. PICK m : core' = [core EXCEPT ![d] = Committed(d, p, m)]
          BY <2>22, <3>3 DEF Commit
        <4>2. PICK c : /\ c = [core[d] EXCEPT !.osGen = board[d].gen + 1, !.revision = @ + 1, !.high[p] = m.key,
                                              !.committed = m.key, !.suppressed = <<board[d].gen + 1, m.content>>,
                                              !.lamport = Max({@, m.key[1]}) + 1]
                       /\ core' = [core EXCEPT ![d] = NoPending(c)]
          BY <4>1 DEF Committed
        <4>3. DOMAIN c = CoreFields /\ c.revision = core[d].revision + 1
          BY <2>1, <2>22, <4>2 DEF CoreFields
        <4>4. core'[d] = NoPending(c) /\ \A e \in ClipDevices : e # d => core'[e] = core[e]
          BY <2>6, <2>22, <4>2
        <4>5. core'[d].revision > core[d].revision
          BY <2>1, <2>5, <2>22, <4>3, <4>4
        <4> QED BY <2>1, <2>8, <2>12, <2>22, <3>1, <4>4, <4>5
      <3> QED BY <3>2, <3>3
    <2>23. ASSUME NEW d \in ClipDevices, NEW paused, NEW gen, ResetClipboard(d, paused, gen),
                  UNCHANGED <<lapsed, policy>>, DOMAIN editing' = ClipDevices,
                  \A e \in ClipDevices : e # d => editing'[e] = editing[e] /\ owner'[e] = owner[e],
                  owner'[d] = owner[d] \/ owner'[d].pc = "none"
           PROVE  PermitIInv'
      <3>1. PICK c : c = [core[d] EXCEPT !.paused = paused, !.osGen = gen, !.revision = @ + 1]
        OBVIOUS
      <3>2. core' = [core EXCEPT ![d] = NoPending(c)] /\ DOMAIN c = CoreFields /\ c.revision = core[d].revision + 1
        BY <2>1, <2>23, <3>1 DEF ResetClipboard, CoreFields
      <3>3. core'[d].revision > core[d].revision /\ \A e \in ClipDevices : e # d => core'[e] = core[e]
        BY <2>1, <2>5, <2>6, <2>23, <3>2
      <3>4. /\ DOMAIN leases' = ClipDevices /\ \A e \in ClipDevices : e # d => leases'[e] = leases[e]
            /\ \A l \in Links : box'[l] = box[l] \/ box'[l].pc = "none"
        BY <2>1, <2>13, <2>23 DEF ResetClipboard
      <3>5. \A p \in ClipDevices : Keeps(Side(d), Side(d)', p)
        BY <2>8, <2>23, <3>3
      <3>6. LeasesCurrent(Side(d)')
        <4>1. leases'[d] = {}
          BY <2>1, <2>23 DEF ResetClipboard
        <4> QED BY <2>4, <4>1 DEF LeasesCurrent
      <3> QED BY <2>1, <2>12, <2>23, <3>3, <3>4, <3>5, <3>6 DEF Working
    <2>24. ASSUME NEW d \in ClipDevices, GrantsAreCleared(d) \/ Suspended(d) PROVE PermitIInv'
      <3>1. CASE GrantsAreCleared(d)
        <4>1. /\ ResetClipboard(d, editing[d].paused, editing[d].gen) /\ UNCHANGED <<lapsed, policy, owner>>
              /\ DOMAIN editing' = ClipDevices /\ \A e \in ClipDevices : e # d => editing'[e] = editing[e]
          BY <2>1, <3>1 DEF GrantsAreCleared
        <4> QED BY <2>23, <2>24, <4>1
      <3>2. CASE Suspended(d)
        <4>1. /\ ResetClipboard(d, held[d], owner[d].gen) /\ UNCHANGED <<lapsed, policy, editing>>
              /\ owner'[d].pc = "none" /\ \A e \in ClipDevices : e # d => owner'[e] = owner[e]
          BY <2>1, <2>3, <2>24, <3>2 DEF Suspended
        <4> QED BY <2>1, <2>23, <2>24, <4>1
      <3> QED BY <2>24, <3>1, <3>2
    <2>25. ASSUME NEW d \in ClipDevices, RestartClipboard(d) PROVE PermitIInv'
      <3>1. /\ UNCHANGED <<policy, editing>> /\ owner'[d].pc = "none"
            /\ \A e \in ClipDevices : e # d => core'[e] = core[e] /\ owner'[e] = owner[e]
            /\ \A l \in Links : box'[l] = (IF d \in {l[1], l[2]} THEN Nothing ELSE box[l])
        BY <2>1, <2>3, <2>25 DEF RestartClipboard
      <3>2. /\ DOMAIN leases' = ClipDevices /\ DOMAIN lapsed' = ClipDevices
            /\ leases'[d] = {}
            /\ \A e \in ClipDevices : e # d =>
                  /\ leases'[e] = {l \in leases[e] : l.peer # d}
                  /\ lapsed'[e] = lapsed[e] \cup UpTo({l \in leases[e] : e # d /\ l.peer = d /\ l.outbound})
        BY <2>25 DEF RestartClipboard
      <3>3. ASSUME NEW e \in ClipDevices, e # d, NEW p, NEW id \in Open(Side(e), p)
            PROVE  id \in Open(Side(e)', p) \cup lapsed'[e]
        <4>1. PICK k \in leases[e] : k.peer = p /\ k.outbound = TRUE /\ id \in {k.id} \cup k.earlier
          BY <2>4, <3>3 DEF Open, UpTo
        <4>2. CASE p = d
          <5>1. k \in {l \in leases[e] : e # d /\ l.peer = d /\ l.outbound}
            BY <3>3, <4>1, <4>2
          <5>2. lapsed'[e] = lapsed[e] \cup UpTo({l \in leases[e] : e # d /\ l.peer = d /\ l.outbound})
            BY <3>2, <3>3
          <5> QED BY <4>1, <5>1, <5>2 DEF UpTo
        <4>3. CASE p # d
          <5>1. k \in leases'[e]
            BY <3>2, <3>3, <4>1, <4>3
          <5> QED BY <2>4, <4>1, <5>1 DEF Open, UpTo
        <4> QED BY <4>2, <4>3
      <3>4. ASSUME NEW e \in ClipDevices, e # d, NEW p \in ClipDevices PROVE Keeps(Side(e), Side(e)', p)
        <4>1. /\ core'[e] = core[e] /\ policy'[e] = policy[e] /\ editing'[e] = editing[e]
              /\ lapsed[e] \subseteq lapsed'[e]
          BY <3>1, <3>2, <3>4
        <4>2. \A id \in Open(Side(e), p) : id \in Open(Side(e)', p) \cup lapsed'[e]
          BY <3>3, <3>4
        <4> QED BY <2>9, <3>4, <4>1, <4>2
      <3>5. \A l \in Links : (l[1] = d => box'[l].pc = "none") /\ (box'[l] = box[l] \/ box'[l].pc = "none")
        BY <2>3, <3>1
      <3>6. \A e \in ClipDevices : leases'[e] \subseteq leases[e] /\ policy'[e] = policy[e] /\ editing'[e] = editing[e]
        BY <3>1, <3>2
      <3>7. ASSUME NEW e \in ClipDevices
            PROVE  \/ \A p \in ClipDevices : Keeps(Side(e), Side(e)', p)
                   \/ owner'[e].pc = "none" /\ \A l \in Links : l[1] = e => box'[l].pc = "none"
        BY <3>1, <3>4, <3>5
      <3>8. policy' \in Policies /\ DOMAIN editing' = ClipDevices
        BY <2>1, <3>1
      <3>9. \A e \in ClipDevices : owner'[e] = owner[e] \/ owner'[e].pc \notin Working
        BY <3>1 DEF Working
      <3> QED BY <2>11, <3>2, <3>5, <3>6, <3>7, <3>8, <3>9
    \* The permissions are edited.
    <2>26. ASSUME NEW d \in ClipDevices, NEW q \in ClipDevices, NEW dir \in {"send", "receive"}, SetClipboardGrant(d, q, dir)
           PROVE  PermitIInv'
      <3>1. PICK on \in BOOLEAN : policy' = [policy EXCEPT ![d][q][dir] = [on |-> on, revision |-> @.revision + 1]]
        BY <2>26 DEF SetClipboardGrant
      <3>2. policy' \in Policies
        <4>1. [on |-> on, revision |-> policy[d][q][dir].revision + 1] \in Grants
          BY <2>1, <2>26 DEF Policies, Grants
        <4>2. policy \in Policies /\ policy[d] \in [ClipDevices -> [send : Grants, receive : Grants]]
          BY <2>1, <2>26 DEF Policies
        <4>3. PICK g \in Grants : policy' = [policy EXCEPT ![d] = [policy[d] EXCEPT ![q] = [policy[d][q] EXCEPT ![dir] = g]]]
          BY <3>1, <4>1
        <4>4. [policy[d][q] EXCEPT ![dir] = g] \in [send : Grants, receive : Grants]
          <5>1. policy[d][q] \in [send : Grants, receive : Grants]
            BY <2>26, <4>2
          <5>2. CASE dir = "send"
            BY <4>3, <5>1, <5>2
          <5>3. CASE dir = "receive"
            BY <4>3, <5>1, <5>3
          <5> QED BY <2>26, <5>2, <5>3
        <4>5. [policy[d] EXCEPT ![q] = [policy[d][q] EXCEPT ![dir] = g]] \in [ClipDevices -> [send : Grants, receive : Grants]]
          BY <2>26, <4>2, <4>4
        <4> QED BY <2>26, <4>2, <4>3, <4>5 DEF Policies
      <3>3. /\ \A e \in ClipDevices : e # d => policy'[e] = policy[e]
            /\ \A p \in ClipDevices : p # q \/ dir = "receive" => policy'[d][p].send = policy[d][p].send
            /\ dir = "send" => policy'[d][q].send.revision = policy[d][q].send.revision + 1
        BY <2>1, <2>26, <3>1 DEF Policies
      <3>4. /\ UNCHANGED <<core, leases, lapsed, owner, box>> /\ DOMAIN editing' = ClipDevices
            /\ \A e \in ClipDevices : e # d => editing'[e] = editing[e]
            /\ editing'[d] = [pc |-> "set", peer |-> q, dir |-> dir] /\ editing[d].pc = "none"
        BY <2>1, <2>26 DEF SetClipboardGrant, Unlocked
      <3>5. ASSUME NEW p \in ClipDevices, NEW k, NEW s, Permitted(Side(d), p, k, s) PROVE Permitted(Side(d)', p, k, s)
        <4>1. ~Edited(Side(d), p)
          BY <2>4, <3>4 DEF Edited
        <4>2. CASE p = q /\ dir = "send"
          BY <2>4, <3>4, <4>2 DEF Permitted, Edited
        <4>3. CASE p # q \/ dir = "receive"
          BY <2>4, <3>3, <3>5, <4>1, <4>3 DEF Permitted
        <4> QED BY <2>26, <4>2, <4>3
      <3>6. ASSUME NEW p \in ClipDevices
            PROVE  policy'[d][p].send = policy[d][p].send \/ policy'[d][p].send.revision > policy[d][p].send.revision
        <4>1. policy[d][p].send.revision \in Nat
          BY <2>1, <2>26, <3>6 DEF Grants
        <4> QED BY <2>26, <3>3, <4>1
      <3>7. \A p \in ClipDevices : Keeps(Side(d), Side(d)', p)
        BY <2>10, <2>26, <3>4, <3>5, <3>6
      <3>8. LeasesCurrent(Side(d)')
        <4>1. ASSUME NEW k \in leases'[d], k.outbound = TRUE
              PROVE  Edited(Side(d)', k.peer) \/ k.under = policy'[d][k.peer].send.revision
          <5>1. k.under = policy[d][k.peer].send.revision
            BY <2>2, <2>4, <2>26, <3>4, <4>1 DEF LeasesCurrent, Edited
          <5>2. CASE k.peer = q /\ dir = "send"
            BY <2>4, <3>4, <5>2 DEF Edited
          <5>3. CASE k.peer # q \/ dir = "receive"
            <6>1. policy'[d][k.peer].send = policy[d][k.peer].send
              BY <2>1, <2>26, <3>1, <5>3 DEF Policies
            <6> QED BY <5>1, <6>1
          <5> QED BY <2>26, <5>2, <5>3
        <4>2. Side(d)'.leases = leases'[d] /\ Side(d)'.policy = policy'[d]
          BY <2>4
        <4> QED BY <4>1, <4>2, Zenon DEF LeasesCurrent
      <3> QED BY <2>1, <2>12, <2>26, <3>2, <3>3, <3>4, <3>7, <3>8
    <2>27. ASSUME NEW d \in ClipDevices, GrantIsSet(d) PROVE PermitIInv'
      <3>1. PICK q, gone : /\ q = editing[d].peer /\ gone = Of(d, q, editing[d].dir = "send")
                           /\ leases' = [leases EXCEPT ![d] = @ \ gone] /\ Invalidated(d, gone)
                           /\ Cancelled(d, {q})
        BY <2>27 DEF GrantIsSet
      <3>2. /\ UNCHANGED <<lapsed, policy, owner>> /\ editing[d].pc = "set" /\ DOMAIN editing' = ClipDevices
            /\ editing'[d].pc = "none" /\ \A e \in ClipDevices : e # d => editing'[e] = editing[e]
        BY <2>1, <2>3, <2>27 DEF GrantIsSet
      <3>3. /\ DOMAIN leases' = ClipDevices /\ leases'[d] = leases[d] \ gone
            /\ \A e \in ClipDevices : e # d => leases'[e] = leases[e]
            /\ \A l \in Links : box'[l] = box[l] \/ box'[l].pc = "none"
        BY <2>1, <2>13, <2>27, <3>1
      <3>6. LeasesCurrent(Side(d)')
        <4> SUFFICES ASSUME NEW k \in leases'[d], k.outbound = TRUE
                     PROVE  k.under = policy[d][k.peer].send.revision
          BY <2>4, <3>2 DEF LeasesCurrent
        <4>1. k \in leases[d] /\ k \notin gone
          BY <3>3
        <4>2. ~Edited(Side(d), k.peer)
          <5>1. CASE k.peer = q /\ editing[d].dir = "send"
            <6>1. (editing[d].dir = "send") = TRUE
              BY <5>1
            <6> QED BY <3>1, <4>1, <5>1, <6>1 DEF Of
          <5>2. CASE ~(k.peer = q /\ editing[d].dir = "send")
            BY <2>4, <3>1, <3>2, <5>2 DEF Edited
          <5> QED BY <5>1, <5>2
        <4> QED BY <2>2, <2>4, <2>27, <4>1, <4>2 DEF LeasesCurrent
      <3>4. CASE gone = {}
        <4>1. core' = core /\ leases'[d] = leases[d]
          BY <3>1, <3>3, <3>4 DEF Invalidated
        <4>2. ASSUME NEW p \in ClipDevices
              PROVE  Open(Side(d), p) = {} \/ \A k, s : Permitted(Side(d), p, k, s) => Permitted(Side(d)', p, k, s)
          <5>1. CASE p = q /\ editing[d].dir = "send"
            <6>1. (editing[d].dir = "send") = TRUE
              BY <5>1
            <6>2. Of(d, p, TRUE) = {}
              BY <3>1, <3>4, <5>1, <6>1
            <6> QED BY <2>4, <6>2 DEF Of, Open, UpTo
          <5>2. CASE p # q \/ editing[d].dir # "send"
            BY <2>4, <3>1, <3>2, <5>2 DEF Permitted, Edited
          <5> QED BY <5>1, <5>2
        <4>3. \A p \in ClipDevices : Keeps(Side(d), Side(d)', p)
          BY <2>10, <2>27, <3>2, <4>1, <4>2
        <4> QED BY <2>1, <2>12, <2>27, <3>2, <3>3, <3>6, <4>1, <4>3
      <3>5. CASE gone # {}
        <4>1. PICK c : c = [core[d] EXCEPT !.revision = @ + 1]
          OBVIOUS
        <4>2. core' = [core EXCEPT ![d] = NoPending(c)] /\ DOMAIN c = CoreFields /\ c.revision = core[d].revision + 1
          BY <2>1, <2>27, <3>1, <3>5, <4>1 DEF Invalidated, CoreFields
        <4>3. core'[d].revision > core[d].revision /\ \A e \in ClipDevices : e # d => core'[e] = core[e]
          BY <2>1, <2>5, <2>6, <2>27, <4>2
        <4>4. \A p \in ClipDevices : Keeps(Side(d), Side(d)', p)
          BY <2>8, <2>27, <3>2, <4>3
        <4> QED BY <2>1, <2>12, <2>27, <3>2, <3>3, <3>6, <4>3, <4>4
      <3> QED BY <3>4, <3>5
    <2>28. ASSUME NEW d \in ClipDevices, NEW q \in ClipDevices, ClearClipboardGrants(d, q) PROVE PermitIInv'
      <3>1. policy' = [policy EXCEPT ![d][q] = [send |-> [on |-> FALSE, revision |-> @.send.revision + 1],
                                                receive |-> [on |-> FALSE, revision |-> @.receive.revision + 1]]]
        BY <2>28 DEF ClearClipboardGrants
      <3>2. /\ policy' \in Policies /\ \A e \in ClipDevices : e # d => policy'[e] = policy[e]
            /\ \A p \in ClipDevices : \/ policy'[d][p].send = policy[d][p].send
                                      \/ policy'[d][p].send.revision > policy[d][p].send.revision
        <4>1. policy[d][q].send.revision + 1 \in Nat /\ policy[d][q].receive.revision + 1 \in Nat
          BY <2>1, <2>28 DEF Policies, Grants
        <4> QED BY <2>1, <2>28, <3>1, <4>1 DEF Policies, Grants
      <3>3. /\ UNCHANGED <<core, leases, lapsed, owner, box>> /\ DOMAIN editing' = ClipDevices
            /\ \A e \in ClipDevices : e # d => editing'[e] = editing[e]
            /\ editing'[d].pc = "clear"
        BY <2>1, <2>28 DEF ClearClipboardGrants
      <3>4. /\ \A p, k, s : Permitted(Side(d)', p, k, s)
            /\ LeasesCurrent(Side(d)')
        BY <2>4, <3>3 DEF Permitted, Edited, LeasesCurrent
      <3>5. \A p \in ClipDevices : Keeps(Side(d), Side(d)', p)
        BY <2>10, <2>28, <3>2, <3>3, <3>4
      <3> QED BY <2>1, <2>12, <2>28, <3>2, <3>3, <3>4, <3>5
    \* The owner looks at a permission and a lease, reads, binds and queues.
    <2>34. ASSUME NEW d \in ClipDevices, owner[d].pc \in Working
           PROVE  /\ DOMAIN owner[d] = ReadFields
                  /\ owner[d].revision \in Nat /\ owner[d].revision <= core[d].revision
      BY <2>2, <2>34 DEF OwnerAgrees
    \* What a device decides by stays, and its owner keeps some of its jobs.
    <2>35. ASSUME NEW d \in ClipDevices, UNCHANGED <<leases, lapsed, policy, editing>>,
                  core'[d].revision = core[d].revision, core'[d].paused = core[d].paused, core'[d].osGen = core[d].osGen,
                  \A e \in ClipDevices : e # d => core'[e] = core[e] /\ owner'[e] = owner[e],
                  owner[d].pc \in Working, NEW o, owner'[d] = o \/ owner'[d].pc = "none",
                  o.revision = owner[d].revision, o.gen = owner[d].gen, o.jobs \subseteq owner[d].jobs,
                  o.pc # "granted", o.pc = "bound" => o.now \in owner[d].jobs,
                  \A l \in Links : box'[l] = box[l] \/ BoxBound(Side(l[1])', l[2], box'[l])
           PROVE  PermitIInv'
      <3>1. \A p \in ClipDevices : Keeps(Side(d), Side(d)', p)
        BY <2>7, <2>35
      <3>2. OwnerBound(Side(d)', o)
        <4>1. OwnerBound(Side(d), owner[d])
          BY <2>2
        <4>2. Side(d).core.revision \in Nat /\ Side(d)'.core.revision \in Nat
          BY <2>1, <2>4
        <4>3. ASSUME NEW j \in owner[d].jobs PROVE j.peer \in ClipDevices /\ Bound(Side(d)', j.peer, o, j.lease, j.sender)
          <5>1. j.peer \in ClipDevices /\ Bound(Side(d), j.peer, owner[d], j.lease, j.sender)
            BY <2>35, <4>1, <4>3 DEF OwnerBound
          <5>2. Bound(Side(d), j.peer, o, j.lease, j.sender)
            BY <1>Same, <2>35, <5>1
          <5> QED BY <1>Kept, <3>1, <4>2, <5>1, <5>2
        <4> QED BY <2>35, <4>3 DEF OwnerBound
      <3> QED BY <2>1, <2>12, <2>35, <3>1, <3>2 DEF Working
    <2>29. ASSUME NEW d \in ClipDevices, ReadPayload(d) PROVE PermitIInv'
      <3>1. /\ UNCHANGED <<core, leases, lapsed, policy, editing, box>> /\ owner[d].pc = "observed"
            /\ \A e \in ClipDevices : e # d => owner'[e] = owner[e]
        BY <2>1, <2>29 DEF ReadPayload
      <3>2. PICK o : o = [owner[d] EXCEPT !.pc = "read", !.content = board[d].content]
        OBVIOUS
      <3>3. owner'[d] = Nothing \/ owner'[d] = o
        BY <2>1, <2>29, <3>2 DEF ReadPayload
      <3>4. DOMAIN owner[d] = ReadFields
        BY <2>29, <2>34, <3>1 DEF Working
      <3>5. o.pc = "read" /\ o.revision = owner[d].revision /\ o.gen = owner[d].gen /\ o.jobs = owner[d].jobs
        BY <3>2, <3>4 DEF ReadFields
      <3> QED BY <2>3, <2>29, <2>35, <3>1, <3>3, <3>5 DEF Working
    <2>30. ASSUME NEW d \in ClipDevices, PrepareObserved(d) PROVE PermitIInv'
      <3>1. /\ UNCHANGED <<leases, lapsed, policy, editing, box>> /\ owner[d].pc = "read"
            /\ \A e \in ClipDevices : e # d => owner'[e] = owner[e]
        BY <2>1, <2>30 DEF PrepareObserved
      <3>2. PICK x : core' = [core EXCEPT ![d].suppressed = x]
        BY <2>30 DEF PrepareObserved
      <3>3. /\ core'[d].revision = core[d].revision /\ core'[d].paused = core[d].paused /\ core'[d].osGen = core[d].osGen
            /\ \A e \in ClipDevices : e # d => core'[e] = core[e]
        BY <2>1, <2>30, <3>2 DEF CoreFields
      <3>4. PICK o : o = [owner[d] EXCEPT !.pc = "prepared"]
        OBVIOUS
      <3>5. owner'[d] = Nothing \/ owner'[d] = o
        BY <2>1, <2>30, <3>4 DEF PrepareObserved
      <3>6. DOMAIN owner[d] = ReadFields
        BY <2>30, <2>34, <3>1 DEF Working
      <3>7. o.pc = "prepared" /\ o.revision = owner[d].revision /\ o.gen = owner[d].gen /\ o.jobs = owner[d].jobs
        BY <3>4, <3>6 DEF ReadFields
      <3> QED BY <2>3, <2>30, <2>35, <3>1, <3>3, <3>5, <3>7 DEF Working
    <2>36. ASSUME NEW d \in ClipDevices, NEW jobs \in SUBSET owner[d].jobs, DOMAIN owner[d] = ReadFields
           PROVE  \/ Without(owner[d], jobs) = Nothing
                  \/ /\ Without(owner[d], jobs).pc = "prepared" /\ Without(owner[d], jobs).revision = owner[d].revision
                     /\ Without(owner[d], jobs).gen = owner[d].gen /\ Without(owner[d], jobs).jobs = jobs
      BY <2>36 DEF Without, ReadFields
    <2>37. ASSUME NEW d \in ClipDevices, BindScoped(d) PROVE PermitIInv'
      <3>1. /\ UNCHANGED <<core, leases, lapsed, policy, editing, box>> /\ owner[d].pc = "prepared"
            /\ \A e \in ClipDevices : e # d => owner'[e] = owner[e]
        BY <2>1, <2>37 DEF BindScoped
      <3>2. DOMAIN owner[d] = ReadFields
        BY <2>34, <2>37, <3>1 DEF Working
      <3>3. PICK j \in owner[d].jobs :
              \/ owner'[d] = [owner[d] EXCEPT !.pc = "bound", !.jobs = owner[d].jobs \ {j}, !.now = j]
              \/ owner'[d] = Without(owner[d], owner[d].jobs \ {j})
        BY <2>1, <2>37, <3>2 DEF BindScoped, ReadFields
      <3>4. CASE owner'[d] = [owner[d] EXCEPT !.pc = "bound", !.jobs = owner[d].jobs \ {j}, !.now = j]
        <4>1. PICK o : o = [owner[d] EXCEPT !.pc = "bound", !.jobs = owner[d].jobs \ {j}, !.now = j]
          OBVIOUS
        <4>2. /\ o.pc = "bound" /\ o.revision = owner[d].revision /\ o.gen = owner[d].gen
              /\ o.jobs = owner[d].jobs \ {j} /\ o.now = j
          BY <3>2, <4>1 DEF ReadFields
        <4>3. owner'[d] = o
          BY <3>4, <4>1
        <4> QED BY <2>35, <2>37, <3>1, <4>2, <4>3 DEF Working
      <3>5. CASE owner'[d] = Without(owner[d], owner[d].jobs \ {j})
        <4>1. CASE Without(owner[d], owner[d].jobs \ {j}) = Nothing
          BY <2>1, <2>3, <2>7, <2>12, <2>37, <3>1, <3>5, <4>1 DEF Working
        <4>2. CASE Without(owner[d], owner[d].jobs \ {j}) # Nothing
          BY <2>35, <2>36, <2>37, <3>1, <3>2, <3>5, <4>2 DEF Working
        <4> QED BY <4>1, <4>2
      <3> QED BY <3>3, <3>4, <3>5
    <2>31. ASSUME NEW d \in ClipDevices, NEW p \in ClipDevices, <<d, p>> \in Links, Enqueue(d, p) PROVE PermitIInv'
      <3>1. /\ UNCHANGED <<core, leases, lapsed, policy, editing>> /\ owner[d].pc = "bound" /\ owner[d].now.peer = p
            /\ owner'[d] = Without(owner[d], owner[d].jobs)
            /\ \A e \in ClipDevices : e # d => owner'[e] = owner[e]
        BY <2>1, <2>31 DEF Enqueue
      <3>2. DOMAIN owner[d] = ReadFields
        BY <2>31, <2>34, <3>1 DEF Working
      <3>3. PICK b : b = [pc |-> "job", gen |-> owner[d].gen, revision |-> owner[d].revision, key |-> owner[d].key,
                          content |-> owner[d].content, lease |-> owner[d].now.lease, sender |-> owner[d].now.sender]
        OBVIOUS
      <3>4. \A l \in Links : box'[l] = box[l] \/ (l = <<d, p>> /\ box'[l] = b)
        BY <2>1, <2>31, <3>3 DEF Enqueue
      <3>5. \A q \in ClipDevices : Keeps(Side(d), Side(d)', q)
        BY <2>7, <2>31, <3>1
      <3>6. BoxBound(Side(d)', p, b)
        <4>1. Side(d).core.revision \in Nat /\ Side(d)'.core.revision \in Nat
          BY <2>1, <2>4, <2>31
        <4>2. /\ b.revision = owner[d].revision /\ b.gen = owner[d].gen /\ b.lease = owner[d].now.lease
              /\ b.sender = owner[d].now.sender
          BY <3>3
        <4>3. Bound(Side(d), p, owner[d], b.lease, b.sender)
          BY <2>2, <2>31, <3>1, <4>2 DEF OwnerBound
        <4>4. Bound(Side(d), p, b, b.lease, b.sender)
          BY <1>Same, <4>2, <4>3
        <4> QED BY <1>Kept, <2>31, <3>5, <4>1, <4>4 DEF BoxBound
      <3>7. \A l \in Links : box'[l] = box[l] \/ BoxBound(Side(l[1])', l[2], box'[l])
        BY <3>4, <3>6
      <3>8. CASE Without(owner[d], owner[d].jobs) = Nothing
        BY <2>1, <2>3, <2>12, <2>31, <3>1, <3>5, <3>7, <3>8 DEF Working
      <3>9. CASE Without(owner[d], owner[d].jobs) # Nothing
        BY <2>35, <2>36, <2>31, <3>1, <3>2, <3>7, <3>9 DEF Working
      <3> QED BY <3>8, <3>9
    <2>38. ASSUME NEW d \in ClipDevices, NEW p \in ClipDevices, ClipboardGrant(d, p) PROVE PermitIInv'
      <3>1. /\ UNCHANGED <<core, leases, lapsed, policy, editing, box>> /\ owner[d].pc = "observed"
            /\ \A e \in ClipDevices : e # d => owner'[e] = owner[e]
        BY <2>1, <2>38 DEF ClipboardGrant
      <3>2. DOMAIN owner[d] = ReadFields
        BY <2>34, <2>38, <3>1 DEF Working
      <3>3. PICK now : now = [peer |-> p, send |-> policy[d][p].send]
        OBVIOUS
      <3>4. PICK o : o = [owner[d] EXCEPT !.pc = "granted", !.rest = owner[d].rest \ {p}, !.now = now]
        OBVIOUS
      <3>5. owner'[d] = o
        BY <2>1, <2>38, <3>2, <3>3, <3>4 DEF ClipboardGrant, ReadFields
      <3>6. /\ o.pc = "granted" /\ o.revision = owner[d].revision /\ o.gen = owner[d].gen /\ o.jobs = owner[d].jobs
            /\ o.now.peer = p /\ o.now.send = policy[d][p].send
        BY <3>2, <3>3, <3>4 DEF ReadFields
      <3>7. \A q \in ClipDevices : Keeps(Side(d), Side(d)', q)
        BY <2>7, <2>38, <3>1
      <3>8. Seen(Side(d)', p, policy[d][p].send)
        <4>1. policy[d][p].send \in Grants /\ policy[d][p].send.revision \in Nat
          BY <2>1, <2>38 DEF Grants
        <4> QED BY <2>4, <3>1, <4>1 DEF Seen
      <3>9. ASSUME NEW j \in owner[d].jobs PROVE j.peer \in ClipDevices /\ Bound(Side(d)', j.peer, o, j.lease, j.sender)
        <4>1. Side(d).core.revision \in Nat /\ Side(d)'.core.revision \in Nat
          BY <2>1, <2>4, <2>38
        <4>2. j.peer \in ClipDevices /\ Bound(Side(d), j.peer, owner[d], j.lease, j.sender)
          BY <2>2, <2>38, <3>1, <3>9 DEF OwnerBound, Working
        <4>3. Bound(Side(d), j.peer, o, j.lease, j.sender)
          BY <1>Same, <3>6, <4>2
        <4> QED BY <1>Kept, <3>7, <4>1, <4>2, <4>3
      <3>10. OwnerBound(Side(d)', o)
        BY <2>38, <3>6, <3>8, <3>9 DEF OwnerBound
      <3> QED BY <2>1, <2>12, <2>38, <3>1, <3>5, <3>7, <3>10
    <2>39. ASSUME NEW d \in ClipDevices, OutboundForObservation(d) PROVE PermitIInv'
      <3>1. /\ UNCHANGED <<core, leases, lapsed, policy, editing, box>> /\ owner[d].pc = "granted"
            /\ \A e \in ClipDevices : e # d => owner'[e] = owner[e]
        BY <2>1, <2>39 DEF OutboundForObservation
      <3>2. /\ DOMAIN owner[d] = ReadFields
            /\ owner[d].revision \in Nat /\ owner[d].revision <= core[d].revision
        BY <2>34, <2>39, <3>1 DEF Working
      <3>3. PICK now : now = owner[d].now
        OBVIOUS
      <3>4. now.peer \in ClipDevices /\ Seen(Side(d), now.peer, now.send)
        BY <2>2, <2>39, <3>1, <3>3 DEF OwnerBound
      <3>a. PICK newest :
              newest = {l \in Leased(d, now.peer, owner[d]) :
                           \A k \in Leased(d, now.peer, owner[d]) : k = l \/ k.id \in l.earlier}
        OBVIOUS
      <3>b. PICK jobs :
              jobs = IF now.send.on
                     THEN owner[d].jobs \cup {[peer |-> now.peer, lease |-> l, sender |-> now.send.revision] : l \in newest}
                     ELSE owner[d].jobs
        OBVIOUS
      <3>c. PICK o : o = [owner[d] EXCEPT !.pc = "observed", !.now = Nothing, !.jobs = jobs]
        OBVIOUS
      <3>5. /\ newest \subseteq Leased(d, now.peer, owner[d])
            /\ owner' = [owner EXCEPT ![d] = o]
        BY <2>39, <3>3, <3>a, <3>b, <3>c DEF OutboundForObservation
      <3>6. owner'[d] = o
        BY <2>1, <2>39, <3>5
      <3>7. o.pc = "observed" /\ o.revision = owner[d].revision /\ o.gen = owner[d].gen /\ o.jobs = jobs
        BY <3>2, <3>c DEF ReadFields
      <3>8. \A q \in ClipDevices : Keeps(Side(d), Side(d)', q)
        BY <2>7, <2>39, <3>1
      <3>9. Side(d).core.revision \in Nat /\ Side(d)'.core.revision \in Nat
        BY <2>1, <2>4, <2>39
      <3>10. ASSUME NEW j \in jobs PROVE j.peer \in ClipDevices /\ Bound(Side(d), j.peer, o, j.lease, j.sender)
        <4>1. CASE j \in owner[d].jobs
          <5>1. j.peer \in ClipDevices /\ Bound(Side(d), j.peer, owner[d], j.lease, j.sender)
            BY <2>2, <2>39, <3>1, <4>1 DEF OwnerBound, Working
          <5> QED BY <1>Same, <3>7, <5>1
        <4>2. CASE j \notin owner[d].jobs
          <5>1. PICK l \in newest : j = [peer |-> now.peer, lease |-> l, sender |-> now.send.revision]
            BY <3>b, <3>10, <4>2
          <5>2. now.send.on /\ j.peer = now.peer /\ j.lease = l /\ j.sender = now.send.revision
            BY <3>b, <3>10, <4>2, <5>1
          <5>3. l \in leases[d] /\ l.peer = now.peer /\ l.outbound = TRUE
            BY <3>5 DEF Leased, Of
          <5>4. l.id \in Open(Side(d), now.peer)
            BY <2>4, <5>3 DEF Open, UpTo
          <5>5. Edited(Side(d), now.peer) \/ l.under = policy[d][now.peer].send.revision
            BY <2>2, <2>4, <2>39, <5>3 DEF LeasesCurrent
          <5>6. now.send.revision = policy[d][now.peer].send.revision => policy[d][now.peer].send.on
            BY <2>4, <3>4, <5>2 DEF Seen
          <5>7. Permitted(Side(d), now.peer, l, now.send.revision)
            BY <2>4, <5>5, <5>6 DEF Permitted
          <5>8. Bound(Side(d), now.peer, o, l, now.send.revision)
            BY <2>4, <3>2, <3>7, <5>4, <5>7 DEF Bound
          <5> QED BY <3>4, <5>2, <5>8
        <4> QED BY <4>1, <4>2
      <3>11. OwnerBound(Side(d)', o)
        BY <1>Kept, <3>7, <3>8, <3>9, <3>10 DEF OwnerBound
      <3> QED BY <2>1, <2>12, <2>39, <3>1, <3>6, <3>8, <3>11
    <2>32. CASE UNCHANGED clipVars
      <3>1. UNCHANGED <<core, leases, lapsed, policy, editing, owner, box>>
        BY <2>32 DEF clipVars
      <3> QED BY <2>1, <2>7, <2>11, <3>1
    <2>33. \A l \in left.links : /\ l \in Links /\ l[1] \in ClipDevices /\ l[2] \in ClipDevices
                                 /\ <<l[1], l[2]>> \in Links
      BY DEF ClipIInv, ClipTypeOK, ClipBounds, Links
    <2> QED BY <2>14, <2>15, <2>16, <2>17, <2>18, <2>19, <2>20, <2>21, <2>22, <2>24, <2>25, <2>26, <2>27, <2>28, <2>29, <2>30,
               <2>31, <2>32, <2>33, <2>37, <2>38, <2>39 DEF ClipNext
  \* A stream is opened with a job that is bound.
  <1>3. ASSUME ClipIInv, PermitIInv, ClipNext, NEW l \in Links, NEW m \in streams'[l] \ streams[l],
               m.type = "open", Unlocked(l[1])
        PROVE  /\ box[l].lease.under = policy[l[1]][l[2]].send.revision
               /\ m.sender = policy[l[1]][l[2]].send.revision => policy[l[1]][l[2]].send.on
    <2> USE <1>3
    <2>1. /\ DOMAIN streams = Links /\ l = <<l[1], l[2]>>
          /\ \A k \in left.links : k \in Links /\ k = <<k[1], k[2]>> /\ <<k[2], k[1]>> \in Links
      BY DEF ClipIInv, ClipTypeOK, ClipBounds, Links
    <2>2. ASSUME NEW e, \/ UserCopies(e) \/ Expire(e) \/ ObserveLocalEvent(e) \/ NotAChange(e) \/ OutboundForObservation(e)
                        \/ ReadPayload(e) \/ PrepareObserved(e) \/ BindScoped(e)
                        \/ GrantIsSet(e) \/ GrantsAreCleared(e) \/ SetClipboardSuspended(e) \/ Suspended(e)
          PROVE  FALSE
      <3>1. UNCHANGED streams
        BY <2>2 DEF UserCopies, Expire, ObserveLocalEvent, NotAChange, OutboundForObservation, ReadPayload,
              PrepareObserved, BindScoped, GrantIsSet, GrantsAreCleared, SetClipboardSuspended, Suspended
      <3> QED BY <3>1
    <2>3. ASSUME NEW e, RestartClipboard(e) PROVE FALSE
      BY <2>3 DEF RestartClipboard
    <2>4. ASSUME NEW e, NEW p, \/ ClipboardGrant(e, p) \/ Enqueue(e, p) \/ InstallLease(e, p) \/ ReadBaseline(e, p)
                               \/ BeginHeader(e, p) \/ Commit(e, p) \/ \E dir : SetClipboardGrant(e, p, dir)
                               \/ ClearClipboardGrants(e, p)
          PROVE  FALSE
      <3>1. UNCHANGED streams
        BY <2>4 DEF ClipboardGrant, Enqueue, InstallLease, ReadBaseline, BeginHeader, Commit, SetClipboardGrant,
              ClearClipboardGrants
      <3> QED BY <3>1
    <2>5. ASSUME NEW k \in Links, LoseMessage(k) PROVE FALSE
      BY <2>1, <2>5 DEF LoseMessage
    <2>6. ASSUME NEW e, NEW p, NEW n, \/ <<p, e>> \in Links /\ ReadLease(e, p, n)
                                      \/ <<e, p>> \in Links /\ ReadHeader(e, p, n)
          PROVE  FALSE
      BY <2>1, <2>6 DEF ReadLease, ReadHeader
    <2>7. ASSUME NEW e, NEW p, SendLease(e, p) PROVE FALSE
      <3>1. PICK n : /\ n = [type |-> "lease", id |-> <<e, p, left.leases[e]>>, revision |-> policy[e][p].receive.revision,
                             lamport |-> core[e].lamport]
                     /\ streams' = [streams EXCEPT ![<<e, p>>] = @ \cup {n}]
        BY <2>7 DEF SendLease
      <3>2. n.type = "lease"
        BY <3>1
      <3> QED BY <2>1, <3>1, <3>2
    \* What is written is no longer open.
    <2>8. ASSUME NEW k \in Links, WriteJob(k[1], k[2]), k = <<k[1], k[2]>> PROVE FALSE
      <3>1. PICK x, n, sent :
              /\ x \in streams[k] /\ x.type = "open" /\ n = [x EXCEPT !.type = "event"] /\ sent \in {{}, {n}}
              /\ streams' = [streams EXCEPT ![k] = (@ \ {x}) \cup sent]
        BY <2>8 DEF WriteJob
      <3>2. DOMAIN x = EventFields
        BY <2>8, <3>1 DEF ClipIInv, CopiesAgree, LinkAgrees
      <3>3. n.type = "event"
        BY <3>1, <3>2 DEF EventFields
      <3> QED BY <2>1, <3>1, <3>3
    <2>9. PICK k \in left.links : SendJob(k[1], k[2])
      BY <2>1, <2>2, <2>3, <2>4, <2>5, <2>6, <2>7, <2>8 DEF ClipNext
    <2>10. PICK j : j = box[k]
      OBVIOUS
    <2>11. PICK n : n = [type |-> "open", lease |-> j.lease.id, revision |-> j.lease.revision, sender |-> j.sender,
                         key |-> j.key, content |-> j.content]
      OBVIOUS
    <2>12. /\ k \in Links /\ j.pc = "job"
           /\ \/ UNCHANGED streams
              \/ /\ MayWrite(k[1], j) /\ j.lease.id \notin lapsed[k[1]]
                 /\ streams' = [streams EXCEPT ![k] = @ \cup {n}]
      BY <2>1, <2>9, <2>10, <2>11 DEF SendJob
    <2>13. k = l /\ m = n /\ MayWrite(l[1], j) /\ j.lease.id \notin lapsed[l[1]]
      BY <2>1, <2>12
    <2>14. m.sender = j.sender /\ j = box[l]
      BY <2>10, <2>11, <2>13
    <2>15. BoxBound(Side(l[1]), l[2], j)
      BY <2>14 DEF PermitIInv
    <2>16. Permitted(Side(l[1]), l[2], j.lease, j.sender)
      BY <2>12, <2>13, <2>15 DEF BoxBound, Bound, Side, MayWrite, LocalCurrent
    <2> QED BY <2>14, <2>16 DEF Permitted, Edited, Side, Unlocked
  <1>4. ClipIInv /\ PermitIInv /\ [ClipNext]_clipVars
          => [\A l \in Links : \A m \in streams'[l] \ streams[l] :
                m.type = "open" /\ Unlocked(l[1]) =>
                   LET send == policy[l[1]][l[2]].send
                   IN box[l].lease.under = send.revision /\ (m.sender = send.revision => send.on)]_clipVars
    BY <1>3
  <1>5. ClipSpec => []ClipIInv
    BY CopiesAreOwn, PTL
  <1>6. ClipIInv /\ ClipIInv' /\ PermitIInv /\ [ClipNext]_clipVars => PermitIInv'
    BY <1>2
  <1> QED BY <1>1, <1>4, <1>5, <1>6, PTL DEF ClipSpec, WithdrawnLeasesAreQuiet

(***************************************************************************)
(* The inductive invariant of requests                                     *)
(***************************************************************************)
\* What clients send: only a message between devices about a request that was made.
ClientMessages ==
    [type : {"request", "response", "end", "status"}, ses : Meetings, from : Identities, to : Identities]
Codes == {"SESSION_CONFLICT", "RATE_LIMITED", "INVALID_MESSAGE", "PEER_OFFLINE", "SIGNALING_UNREACHABLE"}
Messages ==
    ClientMessages \cup [type : {"error"}, ses : {0}, from : {0}, to : {0}, code : Codes]

\* A negotiation is between devices.
Negotiated ==
    [from : Identities, to : Identities, accepted : BOOLEAN, ended : SUBSET Identities, over : Nat \X Nat]

Stages == {"off", "listen", "request", "wait", "answer", "exchange", "quic", "done"}
Doings ==
    [pc : Stages, dials : BOOLEAN, peer : Identities \cup {0}, ses : Meetings \cup {0}, leads : BOOLEAN,
     sent : BOOLEAN, got : BOOLEAN, path : BOOLEAN, tries : Nat]

\* Who dials has a peer, and who takes part in a session has one and a peer.
Takes(w) ==
    /\ w.ses # 0 => w.peer # 0
    /\ w.pc = "request" => w.peer # 0
    /\ w.pc \in {"wait", "answer", "exchange", "quic"} => w.ses # 0

MeetingTypeOK ==
    /\ clients \in [Identities -> Nat] /\ mine \in [Identities -> Nat] /\ made \in [Identities -> Nat]
    /\ negs \in [Meetings -> Negotiated \cup {NoNeg}]
    /\ up \in [Identities -> Seq(Nat \X ClientMessages)] /\ down \in [Identities -> Seq(Messages)]
    /\ at \in [Identities -> Doings] /\ \A d \in Identities : Takes(at[d])
    /\ asked \in Nat

MeetingIInv == MeetingTypeOK /\ NegotiationsAreCurrent

(***************************************************************************)
(* Types                                                                   *)
(***************************************************************************)
(***************************************************************************)
(* Negotiations                                                            *)
(***************************************************************************)
\* A negotiation is on the two connections its ends have now and the only one of
\* its pair, and no device has more than its quota: for every number of devices,
\* requests and connections, whatever breaks, is closed or crosses.
THEOREM NegotiationsHold == RendezvousSpec => [](MeetingTypeOK /\ NegotiationsAreCurrent)
  \* Every step keeps the types, and what a device does keeps its peer and session.
  <1>MeetingTypeStep. ASSUME MeetingTypeOK, [RendezvousNext]_rendezvousVars PROVE MeetingTypeOK'
    <2> USE <1>MeetingTypeStep
    <2> USE RendezvousAssumption
    <2>1. ASSUME NEW d \in Identities, NEW e \in Identities, NEW x \in Meetings,
                 NEW k \in {"request", "response", "end", "status"}, up' = Sent(d, Message(k, x, d, e))
          PROVE  up' \in [Identities -> Seq(Nat \X ClientMessages)]
      <3>1. <<mine[d], Message(k, x, d, e)>> \in Nat \X ClientMessages
        BY DEF MeetingTypeOK, Message, ClientMessages
      <3>2. up[d] \in Seq(Nat \X ClientMessages)
        BY DEF MeetingTypeOK
      <3>3. Append(up[d], <<mine[d], Message(k, x, d, e)>>) \in Seq(Nat \X ClientMessages)
        BY <3>1, <3>2
      <3> QED BY <2>1, <3>3 DEF MeetingTypeOK, Sent
    <2>2. ASSUME NEW d \in Identities, Close(d)
          PROVE  mine' \in [Identities -> Nat] /\ down' \in [Identities -> Seq(Messages)]
      BY <2>2 DEF MeetingTypeOK, Close
    <2>3. ASSUME NEW d \in Identities, NEW n \in Nat, clients' = [clients EXCEPT ![d] = n], negs' = WithoutNegs(d)
          PROVE  clients' \in [Identities -> Nat] /\ negs' \in [Meetings -> Negotiated \cup {NoNeg}]
      BY <2>3 DEF MeetingTypeOK, WithoutNegs
    <2>4. \A d \in Identities, w \in Doings :
            at' = [at EXCEPT ![d] = w] /\ Takes(w) =>
              at' \in [Identities -> Doings] /\ \A e \in Identities : Takes(at'[e])
      BY DEF MeetingTypeOK
    <2>5. Resting \in Doings /\ Takes(Resting) /\ Listening \in Doings /\ Takes(Listening)
      BY DEF Resting, Listening, Doings, Stages, Takes
    <2>6. ASSUME NEW d \in Identities, NEW told \in BOOLEAN, told => at[d].ses # 0, DialFails(d, told)
          PROVE  /\ mine' \in [Identities -> Nat] /\ down' \in [Identities -> Seq(Messages)]
                 /\ up' \in [Identities -> Seq(Nat \X ClientMessages)]
                 /\ at' \in [Identities -> Doings] /\ \A e \in Identities : Takes(at'[e])
      <3>1. (at[d].ses \in Meetings /\ at[d].peer \in Identities) \/ at[d].ses = 0
        BY DEF MeetingTypeOK, Doings, Takes
      <3>2. up' \in [Identities -> Seq(Nat \X ClientMessages)]
        BY <2>1, <2>6, <3>1 DEF DialFails, MeetingTypeOK
      <3>3. at' \in [Identities -> Doings] /\ \A e \in Identities : Takes(at'[e])
        BY <2>4, <2>5, <2>6 DEF DialFails
      <3> QED BY <2>2, <2>6, <3>2, <3>3 DEF DialFails
    <2>7. ASSUME NEW d \in Identities, OpenSignal(d)
          PROVE  /\ clients' \in [Identities -> Nat] /\ negs' \in [Meetings -> Negotiated \cup {NoNeg}]
                 /\ made' \in [Identities -> Nat] /\ mine' \in [Identities -> Nat]
                 /\ down' \in [Identities -> Seq(Messages)]
      <3>1. made[d] + 1 \in Nat
        BY DEF MeetingTypeOK
      <3>2. clients' = [clients EXCEPT ![d] = made[d] + 1] /\ negs' = WithoutNegs(d)
        BY <2>7 DEF OpenSignal, Admit
      <3>3. clients' \in [Identities -> Nat] /\ negs' \in [Meetings -> Negotiated \cup {NoNeg}]
        BY <2>3, <3>1, <3>2
      <3>4. made' = [made EXCEPT ![d] = made[d] + 1] /\ mine' = [mine EXCEPT ![d] = made[d] + 1]
        BY <2>7 DEF OpenSignal
      <3>5. down' = [down EXCEPT ![d] = <<>>]
        BY <2>7 DEF OpenSignal
      <3> QED BY <3>1, <3>3, <3>4, <3>5 DEF MeetingTypeOK
    <2>8. ASSUME NEW e \in Identities, NEW m \in Messages, down' = Delivered(down, e, m)
          PROVE  down' \in [Identities -> Seq(Messages)]
      <3>1. down[e] \in Seq(Messages)
        BY DEF MeetingTypeOK
      <3>2. Append(down[e], m) \in Seq(Messages)
        BY <3>1
      <3> QED BY <2>8, <3>2 DEF Delivered, MeetingTypeOK
    <2>9. ASSUME NEW d \in Identities, down[d] # <<>>
          PROVE  Head(down[d]) \in Messages /\ [down EXCEPT ![d] = Tail(@)] \in [Identities -> Seq(Messages)]
      <3>1. down[d] \in Seq(Messages)
        BY DEF MeetingTypeOK
      <3>2. Head(down[d]) \in Messages /\ Tail(down[d]) \in Seq(Messages)
        BY <2>9, <3>1
      <3> QED BY <3>2 DEF MeetingTypeOK
    <2>10. \A code \in Codes : Failure(code) \in Messages
      BY DEF Failure, Messages
    <2>11. \A d \in Identities : at[d].peer \in Identities \cup {0} /\ at[d].ses \in Meetings \cup {0} /\ at[d].tries \in Nat
                                 /\ at[d] \in Doings /\ Takes(at[d])
      BY DEF MeetingTypeOK, Doings
    <2>12. ASSUME NEW d \in Identities, Forward(d) PROVE MeetingTypeOK'
      <3>1. up[d] \in Seq(Nat \X ClientMessages) /\ up[d] # <<>>
        BY <2>12 DEF Forward, MeetingTypeOK
      <3>2. Tail(up[d]) \in Seq(Nat \X ClientMessages) /\ Head(up[d]) \in Nat \X ClientMessages
        BY <3>1
      <3>3. PICK m \in ClientMessages : m = Head(up[d])[2]
        BY <3>2
      <3>4. m \in Messages /\ m.from \in Identities /\ m.to \in Identities /\ m.ses \in Meetings
        BY DEF ClientMessages, Messages
      <3>5. up' \in [Identities -> Seq(Nat \X ClientMessages)]
        BY <2>12, <3>2 DEF Forward, MeetingTypeOK
      <3>6. negs' \in [Meetings -> Negotiated \cup {NoNeg}] /\ down' \in [Identities -> Seq(Messages)]
        <4>1. CASE UNCHANGED <<negs, down>>
          BY <4>1 DEF MeetingTypeOK
        <4>2. CASE \E e \in Identities, code \in Codes : Refuse(e, code)
          BY <2>8, <2>10, <4>2 DEF Refuse, MeetingTypeOK
        <4>3. CASE TakeRequest(m) /\ UNCHANGED <<clients>>
          <5> DEFINE rest == [x \in Meetings |-> IF x \in Loser(m) THEN NoNeg ELSE negs[x]]
                     new == [NoNeg EXCEPT !.from = m.from, !.to = m.to, !.over = <<clients[m.from], clients[m.to]>>]
          <5>1. new \in Negotiated /\ rest \in [Meetings -> Negotiated \cup {NoNeg}]
            BY <3>4 DEF NoNeg, Negotiated, MeetingTypeOK
          <5>2. CASE down' = Delivered(down, m.to, m) /\ negs' = [rest EXCEPT ![m.ses] = new]
            BY <2>8, <3>4, <5>1, <5>2
          <5>3. CASE Refuse(m.from, "SESSION_CONFLICT") \/ Refuse(m.from, "RATE_LIMITED")
            BY <3>4, <4>2, <5>3 DEF Codes
          <5> QED BY <4>1, <4>3, <5>2, <5>3 DEF TakeRequest
        <4>4. CASE TakeOther(m)
          <5> DEFINE n == negs[m.ses]
                     ended == n.ended \cup (IF m.type = "end" THEN {m.from} ELSE {})
          <5>1. CASE {m.from, m.to} # {n.from, n.to}
            <6>1. Refuse(m.from, "INVALID_MESSAGE")
              BY <4>4, <5>1 DEF TakeOther
            <6> QED BY <3>4, <4>2, <6>1 DEF Codes
          <5>2. CASE {m.from, m.to} = {n.from, n.to}
            <6>0. n.from # 0
              BY <3>4, <5>2
            <6>1. n \in Negotiated
              BY <3>4, <6>0 DEF NoNeg, MeetingTypeOK
            <6>2. [n EXCEPT !.accepted = @ \/ m.type = "response", !.ended = ended] \in Negotiated
              BY <3>4, <6>1 DEF Negotiated
            <6>3. CASE down' = Delivered(down, m.to, m)
                       /\ negs' = [negs EXCEPT ![m.ses] =
                                     IF ended = {n.from, n.to} THEN NoNeg
                                     ELSE [n EXCEPT !.accepted = @ \/ m.type = "response", !.ended = ended]]
              BY <2>8, <3>4, <6>2, <6>3 DEF MeetingTypeOK
            <6>4. CASE Refuse(m.from, "INVALID_MESSAGE")
              BY <3>4, <4>2, <6>4 DEF Codes
            <6> QED BY <4>4, <5>2, <6>3, <6>4 DEF TakeOther
          <5> QED BY <5>1, <5>2
        <4>5. CASE Refuse(d, "PEER_OFFLINE")
          BY <4>2, <4>5 DEF Codes
        <4> QED BY <2>12, <3>3, <4>1, <4>3, <4>4, <4>5 DEF Forward
      <3> QED BY <2>12, <3>5, <3>6 DEF Forward, MeetingTypeOK
    <2>13. ASSUME NEW d \in Identities, ConnectionEnds(d) PROVE MeetingTypeOK'
      BY <2>3, <2>13 DEF ConnectionEnds, MeetingTypeOK, ends
    <2>14. ASSUME NEW d \in Identities, ConnectionBreaks(d) PROVE MeetingTypeOK'
      <3>1. down[d] \in Seq(Messages) /\ Failure("SIGNALING_UNREACHABLE") \in Messages
        BY <2>10 DEF MeetingTypeOK, Codes
      <3>2. Append(down[d], Failure("SIGNALING_UNREACHABLE")) \in Seq(Messages)
        BY <3>1
      <3>3. down' \in [Identities -> Seq(Messages)]
        BY <2>14, <3>2 DEF ConnectionBreaks, MeetingTypeOK
      <3> QED BY <2>3, <2>14, <3>3 DEF ConnectionBreaks, MeetingTypeOK
    <2>15. ASSUME NEW d \in Identities, NEW e \in Identities, StartDial(d, e) PROVE MeetingTypeOK'
      <3>1. [Resting EXCEPT !.pc = "request", !.dials = TRUE, !.peer = e, !.tries = 1] \in Doings
        BY DEF Resting, Doings, Stages
      <3>2. Takes([Resting EXCEPT !.pc = "request", !.dials = TRUE, !.peer = e, !.tries = 1])
        BY DEF Resting, Takes
      <3>3. at' \in [Identities -> Doings] /\ \A f \in Identities : Takes(at'[f])
        BY <2>4, <2>15, <3>1, <3>2 DEF StartDial
      <3>4. up' \in [Identities -> Seq(Nat \X ClientMessages)]
        <4>1. CASE at[d].ses = 0
          BY <2>15, <4>1 DEF StartDial, MeetingTypeOK
        <4>2. CASE at[d].ses # 0
          <5>1. at[d].ses \in Meetings /\ at[d].peer \in Identities
            BY <2>11, <4>2 DEF Takes
          <5> QED BY <2>1, <2>15, <4>2, <5>1 DEF StartDial
        <4> QED BY <4>1, <4>2
      <3> QED BY <2>15, <3>3, <3>4 DEF StartDial, MeetingTypeOK, atServer, ends
    <2>16. ASSUME NEW d \in Identities, Reach(d) PROVE MeetingTypeOK'
      <3>1. PICK w \in Doings : w = [at[d] EXCEPT !.pc = IF @ = "off" THEN "listen" ELSE @]
        BY <2>11 DEF Doings, Stages
      <3>2. Takes(w)
        BY <2>11, <2>16, <3>1 DEF Takes, Doings, Reach
      <3>3. at' \in [Identities -> Doings] /\ \A f \in Identities : Takes(at'[f])
        BY <2>4, <2>16, <3>1, <3>2 DEF Reach, MeetingTypeOK
      <3> QED BY <2>7, <2>16, <3>3 DEF Reach, MeetingTypeOK
    <2>17. ASSUME NEW d \in Identities, Request(d) PROVE MeetingTypeOK'
      <3>1. PICK x \in Meetings : x = asked + 1 /\ asked' = x
        BY <2>17 DEF Request, MeetingTypeOK, Meetings
      <3>2. at[d].peer \in Identities
        BY <2>11, <2>17 DEF Request, Takes
      <3>3. PICK w \in Doings : w = [at[d] EXCEPT !.pc = "wait", !.ses = x]
        BY <2>11 DEF Doings, Stages
      <3>4. Takes(w) /\ x \in Nat
        BY <2>11, <3>2, <3>3 DEF Takes, Doings, Meetings
      <3>5. at' = [at EXCEPT ![d] = w]
        BY <2>17, <3>1, <3>3 DEF Request, MeetingTypeOK
      <3>6. at' \in [Identities -> Doings] /\ \A f \in Identities : Takes(at'[f])
        BY <2>4, <3>4, <3>5
      <3>7. up' \in [Identities -> Seq(Nat \X ClientMessages)]
        BY <2>1, <2>17, <3>1, <3>2 DEF Request
      <3> QED BY <2>17, <3>1, <3>4, <3>6, <3>7 DEF Request, MeetingTypeOK, atServer, ends
    <2>18. ASSUME NEW d \in Identities, NEW m \in ClientMessages
           PROVE  /\ Joins(d, m) \in Doings /\ Takes(Joins(d, m))
                  /\ Accepts(d, m) => /\ up' \in [Identities -> Seq(Nat \X ClientMessages)]
                                      /\ at' \in [Identities -> Doings] /\ \A e \in Identities : Takes(at'[e])
      <3>2. m.from \in Identities /\ m.ses \in Meetings /\ at[d].dials \in BOOLEAN /\ m.ses # 0
        BY <2>11 DEF ClientMessages, Doings, Meetings
      <3>3. Joins(d, m) \in Doings
        BY <3>2 DEF Joins, Resting, Doings, Stages
      <3>1. Joins(d, m) \in Doings /\ Takes(Joins(d, m))
        BY <3>2, <3>3 DEF Joins, Resting, Takes
      <3> QED BY <2>1, <2>4, <3>1, <3>2 DEF Accepts
    <2>19. ASSUME NEW d \in Identities, Read(d) PROVE MeetingTypeOK'
      <3>1. PICK m \in Messages : m = Head(down[d])
        BY <2>9, <2>19 DEF Read
      <3>2. [down EXCEPT ![d] = Tail(@)] \in [Identities -> Seq(Messages)]
        BY <2>9, <2>19 DEF Read
      <3>3. m.type # "error" => m \in ClientMessages
        BY DEF Messages
      <3>4. /\ mine' \in [Identities -> Nat] /\ down' \in [Identities -> Seq(Messages)]
            /\ up' \in [Identities -> Seq(Nat \X ClientMessages)]
            /\ at' \in [Identities -> Doings] /\ \A e \in Identities : Takes(at'[e])
        <4>1. CASE at[d].pc = "wait" /\ DialReads(d, m)
          <5>1. CASE down' = [down EXCEPT ![d] = Tail(@)] /\ UNCHANGED <<mine, up, at>>
            BY <3>2, <5>1 DEF MeetingTypeOK
          <5>2. CASE m.type = "request" /\ Accepts(d, m) /\ down' = [down EXCEPT ![d] = Tail(@)] /\ UNCHANGED mine
            BY <2>18, <3>2, <3>3, <5>2 DEF MeetingTypeOK
          <5>3. CASE /\ at' = [at EXCEPT ![d].pc = "exchange", ![d].leads = TRUE]
                     /\ down' = [down EXCEPT ![d] = Tail(@)] /\ UNCHANGED <<mine, up>>
            <6>1. PICK w \in Doings : w = [at[d] EXCEPT !.pc = "exchange", !.leads = TRUE]
              BY <2>11 DEF Doings, Stages
            <6>2. Takes(w) /\ at' = [at EXCEPT ![d] = w]
              BY <2>11, <4>1, <5>3, <6>1 DEF Takes, Doings, MeetingTypeOK
            <6> QED BY <2>4, <3>2, <5>3, <6>2 DEF MeetingTypeOK
          <5>4. CASE TriesAgain(d)
            <6>1. at[d].peer \in Identities
              BY <2>11, <4>1 DEF Takes
            <6>5. at[d].tries \in Nat
              BY <2>11
            <6>4. PICK n \in Nat : n = at[d].tries + 1
              BY <6>5
            <6>2. PICK w \in Doings : w = [Resting EXCEPT !.pc = "request", !.dials = TRUE, !.peer = at[d].peer,
                                                          !.tries = n]
              BY <6>1 DEF Resting, Doings, Stages
            <6>3. Takes(w)
              BY <6>1, <6>2 DEF Takes, Resting
            <6> QED BY <2>2, <2>4, <5>4, <6>2, <6>3, <6>4 DEF TriesAgain, MeetingTypeOK
          <5>5. CASE DialFails(d, FALSE)
            BY <2>6, <5>5
          <5> QED BY <4>1, <5>1, <5>2, <5>3, <5>4, <5>5 DEF DialReads
        <4>2. CASE at[d].pc = "listen" /\ ListenerReads(d, m)
          <5>1. CASE m.type = "request"
            <6>1. Joins(d, m) \in Doings /\ Takes(Joins(d, m)) /\ m.ses # 0
              BY <2>18, <3>3, <5>1 DEF ClientMessages, Meetings
            <6>2. PICK w \in Doings : w = [Joins(d, m) EXCEPT !.pc = "answer"]
              BY <6>1 DEF Doings, Stages
            <6>3. Takes(w)
              BY <6>1, <6>2 DEF Takes, Joins, Resting
            <6> QED BY <2>4, <3>2, <4>2, <5>1, <6>2, <6>3 DEF ListenerReads, MeetingTypeOK
          <5>2. CASE m.type # "request"
            BY <2>6, <4>2, <5>2 DEF ListenerReads
          <5> QED BY <5>1, <5>2
        <4>3. CASE at[d].pc = "exchange" /\ ~at[d].got /\ ExchangeReads(d, m)
          <5>1. CASE DialFails(d, ~at[d].dials)
            BY <2>6, <2>11, <4>3, <5>1 DEF Takes
          <5>2. CASE at' = [at EXCEPT ![d].got = TRUE] /\ down' = [down EXCEPT ![d] = Tail(@)] /\ UNCHANGED <<mine, up>>
            <6>1. PICK w \in Doings : w = [at[d] EXCEPT !.got = TRUE]
              BY <2>11 DEF Doings
            <6>2. Takes(w) /\ at' = [at EXCEPT ![d] = w]
              BY <2>11, <4>3, <5>2, <6>1 DEF Takes, Doings, MeetingTypeOK
            <6> QED BY <2>4, <3>2, <5>2, <6>2 DEF MeetingTypeOK
          <5> QED BY <4>3, <5>1, <5>2 DEF ExchangeReads
        <4> QED BY <2>19, <3>1, <4>1, <4>2, <4>3 DEF Read
      <3> QED BY <2>19, <3>4 DEF Read, MeetingTypeOK, atServer
    <2>20. ASSUME NEW d \in Identities, Answer(d) PROVE MeetingTypeOK'
      <3>1. at[d].ses \in Meetings /\ at[d].peer \in Identities
        BY <2>11, <2>20 DEF Answer, Takes
      <3>2. PICK m \in ClientMessages : m = Message("request", at[d].ses, at[d].peer, d)
        BY <3>1 DEF Message, ClientMessages
      <3> QED BY <2>18, <2>20, <3>2 DEF Answer, MeetingTypeOK, atServer, ends
    <2>21. ASSUME NEW d \in Identities, NEW w \in Doings, Takes(w), at' = [at EXCEPT ![d] = w],
                  UNCHANGED <<atServer, ends, asked>>, up' \in [Identities -> Seq(Nat \X ClientMessages)]
           PROVE  MeetingTypeOK'
      BY <2>4, <2>21 DEF MeetingTypeOK, atServer, ends
    <2>22. ASSUME NEW d \in Identities, SendEnd(d) PROVE MeetingTypeOK'
      <3>1. PICK w \in Doings : w = [at[d] EXCEPT !.sent = TRUE]
        BY <2>11 DEF Doings
      <3>2. Takes(w) /\ at' = [at EXCEPT ![d] = w]
        BY <2>11, <2>22, <3>1 DEF SendEnd, Takes, Doings, MeetingTypeOK
      <3>3. at[d].ses \in Meetings /\ at[d].peer \in Identities
        BY <2>11, <2>22 DEF SendEnd, Takes
      <3>4. up' \in [Identities -> Seq(Nat \X ClientMessages)]
        BY <2>1, <2>22, <3>3 DEF SendEnd
      <3> QED BY <2>21, <2>22, <3>2, <3>4 DEF SendEnd
    <2>23. ASSUME NEW d \in Identities, FindPath(d) PROVE MeetingTypeOK'
      <3>1. PICK w \in Doings : w = [at[d] EXCEPT !.path = TRUE]
        BY <2>11 DEF Doings
      <3>2. Takes(w) /\ at' = [at EXCEPT ![d] = w]
        BY <2>11, <2>23, <3>1 DEF FindPath, Takes, Doings, MeetingTypeOK
      <3> QED BY <2>21, <2>23, <3>2 DEF FindPath, MeetingTypeOK
    <2>24. ASSUME NEW d \in Identities, Exchanged(d) PROVE MeetingTypeOK'
      <3>1. PICK w \in Doings : w = [at[d] EXCEPT !.pc = "quic"]
        BY <2>11 DEF Doings, Stages
      <3>2. Takes(w) /\ at' = [at EXCEPT ![d] = w]
        BY <2>11, <2>24, <3>1 DEF Exchanged, Takes, Doings, MeetingTypeOK
      <3> QED BY <2>21, <2>24, <3>2 DEF Exchanged, MeetingTypeOK
    <2>25. ASSUME NEW d \in Identities, Establish(d) PROVE MeetingTypeOK'
      <3>1. ASSUME NEW e \in Identities PROVE [at[e] EXCEPT !.pc = "done"] \in Doings /\ Takes([at[e] EXCEPT !.pc = "done"])
        <4>1. PICK w \in Doings : w = [at[e] EXCEPT !.pc = "done"]
          BY <2>11 DEF Doings, Stages
        <4>2. Takes(w)
          BY <2>11, <4>1 DEF Takes, Doings
        <4> QED BY <4>1, <4>2
      <3>2. PICK v \in Doings, w \in Doings : Takes(v) /\ Takes(w) /\ at' = [at EXCEPT ![d] = v, ![at[d].peer] = w]
        <4>1. at[d].peer \in Identities
          BY <2>11, <2>25 DEF Establish, Takes
        <4> DEFINE after(x) == IF at[x].dials THEN [at[x] EXCEPT !.pc = "done"] ELSE Listening
        <4>2. after(d) \in Doings /\ Takes(after(d)) /\ after(at[d].peer) \in Doings /\ Takes(after(at[d].peer))
          BY <2>5, <3>1, <4>1
        <4>3. at' = [at EXCEPT ![d] = after(d), ![at[d].peer] = after(at[d].peer)]
          BY <2>25 DEF Establish
        <4> HIDE DEF after
        <4> QED BY <4>2, <4>3
      <3>3. at' \in [Identities -> Doings] /\ \A f \in Identities : Takes(at'[f])
        BY <3>2 DEF MeetingTypeOK
      <3> QED BY <2>25, <3>3 DEF Establish, MeetingTypeOK, atServer, ends
    <2>26. ASSUME NEW d \in Identities, Settle(d) PROVE MeetingTypeOK'
      BY <2>5, <2>21, <2>26 DEF Settle, MeetingTypeOK
    <2>27. ASSUME NEW d \in Identities, GiveUp(d) PROVE MeetingTypeOK'
      BY <2>6, <2>11, <2>27 DEF GiveUp, MeetingTypeOK, Takes, atServer
    <2>28. CASE UNCHANGED rendezvousVars
      BY <2>28 DEF MeetingTypeOK, rendezvousVars, atServer, ends
    <2> QED BY <2>12, <2>13, <2>14, <2>15, <2>16, <2>17, <2>19, <2>20, <2>22, <2>23, <2>24, <2>25, <2>26, <2>27, <2>28
               DEF RendezvousNext, ServerStep, EndStep
  \* Every step keeps negotiations current: a replaced connection takes its
  \* negotiations along, and a request begins one only where it is the only one.
  <1>MeetingStep. ASSUME MeetingIInv, MeetingTypeOK', [RendezvousNext]_rendezvousVars
                  PROVE  NegotiationsAreCurrent'
    <2> USE <1>MeetingStep
    <2> USE RendezvousAssumption
    <2>1. ASSUME NEW S \in SUBSET Meetings
          PROVE  /\ IsFiniteSet(S) /\ Cardinality(S) \in Nat
                 /\ \A T \in SUBSET S : Cardinality(T) <= Cardinality(S)
                 /\ \A x \in Meetings \ S : Cardinality(S \cup {x}) = Cardinality(S) + 1
      <3>1. IsFiniteSet(S)
        <4>1. IsFiniteSet(Meetings)
          BY FS_Interval DEF Meetings
        <4> QED BY <4>1, FS_Subset
      <3> QED BY <3>1, FS_CardinalityType, FS_Subset, FS_AddElement
    <2>2. /\ \A x \in Meetings : negs[x] \in Negotiated \/ negs[x] = NoNeg
          /\ \A x \in Meetings : negs'[x] \in Negotiated \/ negs'[x] = NoNeg
          /\ \A n \in Negotiated : n.from \in Identities /\ n.to \in Identities /\ n # NoNeg
          /\ NoNeg.from = 0 /\ NoNeg.to = 0
      BY DEF MeetingIInv, MeetingTypeOK, Negotiated, NoNeg
    <2>3. \A d \in Identities : Cardinality(Sessions(negs, d)) <= MaxSessionsPerDevice
      <3> SUFFICES ASSUME NEW d \in Identities PROVE Cardinality(Sessions(negs, d)) <= MaxSessionsPerDevice
        OBVIOUS
      <3>1. CASE Sessions(negs, d) = {}
        BY <3>1, FS_EmptySet
      <3>2. CASE Sessions(negs, d) # {}
        <4>1. PICK x \in Meetings : d \in {negs[x].from, negs[x].to}
          BY <3>2 DEF Sessions
        <4>2. negs[x] # NoNeg
          BY <2>2, <4>1
        <4> QED BY <4>2 DEF MeetingIInv, NegotiationsAreCurrent
      <3> QED BY <3>1, <3>2
    \* What remains is what was there, on the same connections.
    <2>4. ASSUME \A x \in Meetings :
                   \/ negs'[x] = NoNeg
                   \/ /\ negs'[x].from = negs[x].from /\ negs'[x].to = negs[x].to /\ negs'[x].over = negs[x].over
                      /\ clients'[negs[x].from] = clients[negs[x].from] /\ clients'[negs[x].to] = clients[negs[x].to]
          PROVE  NegotiationsAreCurrent'
      <3>1. ASSUME NEW x \in Meetings, negs'[x] # NoNeg
            PROVE  negs[x] # NoNeg /\ negs'[x].over = <<clients'[negs'[x].from], clients'[negs'[x].to]>>
        <4>1. negs[x] # NoNeg
          BY <2>2, <2>4, <3>1
        <4> QED BY <2>4, <3>1, <4>1 DEF MeetingIInv, NegotiationsAreCurrent
      <3>2. ASSUME NEW x \in Meetings, NEW y \in Meetings \ {x}, negs'[x] # NoNeg
            PROVE  {negs'[y].from, negs'[y].to} # {negs'[x].from, negs'[x].to}
        <4>1. {negs[y].from, negs[y].to} # {negs[x].from, negs[x].to}
          BY <3>1, <3>2 DEF MeetingIInv, NegotiationsAreCurrent
        <4>2. {negs'[x].from, negs'[x].to} = {negs[x].from, negs[x].to} /\ negs'[x].from # 0
          BY <2>2, <2>4, <3>2
        <4>3. CASE negs'[y] = NoNeg
          BY <2>2, <4>2, <4>3
        <4>4. CASE negs'[y] # NoNeg
          BY <2>4, <4>1, <4>2, <4>4
        <4> QED BY <4>3, <4>4
      <3>3. ASSUME NEW d \in Identities PROVE Cardinality(Sessions(negs', d)) <= MaxSessionsPerDevice
        <4>1. Sessions(negs', d) \subseteq Sessions(negs, d) /\ Sessions(negs, d) \subseteq Meetings
          BY <2>2, <2>4 DEF Sessions
        <4>2. Cardinality(Sessions(negs', d)) <= Cardinality(Sessions(negs, d))
          BY <2>1, <4>1
        <4>3. Cardinality(Sessions(negs', d)) \in Nat /\ Cardinality(Sessions(negs, d)) \in Nat
          BY <2>1, <4>1
        <4>4. MaxSessionsPerDevice \in Nat /\ Cardinality(Sessions(negs, d)) <= MaxSessionsPerDevice
          BY <2>3, RendezvousAssumption
        <4> QED BY <4>2, <4>3, <4>4
      <3> QED BY <3>1, <3>2, <3>3 DEF NegotiationsAreCurrent, Sessions
    <2>5. ASSUME NEW d \in Identities, NEW n \in Nat, clients' = [clients EXCEPT ![d] = n], negs' = WithoutNegs(d)
          PROVE  NegotiationsAreCurrent'
      <3>1. ASSUME NEW x \in Meetings, negs'[x] # NoNeg
            PROVE  negs'[x] = negs[x] /\ negs[x].from # d /\ negs[x].to # d
        BY <2>5, <3>1 DEF WithoutNegs
      <3>2. ASSUME NEW e, e # d PROVE clients'[e] = clients[e]
        BY <2>5, <3>2 DEF MeetingIInv, MeetingTypeOK
      <3> QED BY <2>4, <3>1, <3>2
    <2>6. CASE UNCHANGED <<clients, negs>>
      BY <2>4, <2>6
    <2>7. ASSUME NEW m \in ClientMessages, TakeRequest(m), UNCHANGED clients PROVE NegotiationsAreCurrent'
      <3> DEFINE rest == [x \in Meetings |-> IF x \in Loser(m) THEN NoNeg ELSE negs[x]]
                 new == [NoNeg EXCEPT !.from = m.from, !.to = m.to, !.over = <<clients[m.from], clients[m.to]>>]
      <3>1. CASE UNCHANGED negs
        BY <2>6, <2>7, <3>1
      <3>2. CASE /\ ~\E x \in Meetings : negs[x].from = m.from /\ negs[x].to = m.to
                 /\ Winner(m) = {} /\ ~Quota(rest, m) /\ negs' = [rest EXCEPT ![m.ses] = new]
        <4>1. m.ses \in Meetings /\ m.from \in Identities /\ m.to \in Identities
          BY DEF ClientMessages
        <4>2. /\ negs'[m.ses].from = m.from /\ negs'[m.ses].to = m.to
              /\ negs'[m.ses].over = <<clients[m.from], clients[m.to]>>
          BY <3>2, <4>1 DEF NoNeg
        <4>3. ASSUME NEW x \in Meetings, x # m.ses
              PROVE  /\ negs'[x] = rest[x] /\ negs'[x] \in {NoNeg, negs[x]}
                     /\ {negs'[x].from, negs'[x].to} # {m.from, m.to}
          <5>1. negs'[x] = rest[x] /\ negs'[x] \in {NoNeg, negs[x]}
            BY <3>2, <4>1, <4>3
          <5>2. CASE negs'[x] = NoNeg
            BY <2>2, <4>1, <5>1, <5>2
          <5>3. CASE negs'[x] # NoNeg
            <6>1. negs'[x] = negs[x] /\ x \notin Loser(m)
              BY <5>1, <5>3
            <6>2. ~(negs[x].from = m.to /\ negs[x].to = m.from)
              BY <3>2, <6>1 DEF Loser
            <6> QED BY <3>2, <6>1, <6>2
          <5> QED BY <5>1, <5>2, <5>3
        <4>4. ASSUME NEW x \in Meetings, negs'[x] # NoNeg
              PROVE  negs'[x].over = <<clients'[negs'[x].from], clients'[negs'[x].to]>>
          <5>1. CASE x = m.ses
            BY <2>7, <4>2, <5>1
          <5>2. CASE x # m.ses
            <6>1. negs'[x] = negs[x]
              BY <4>3, <4>4, <5>2
            <6> QED BY <2>7, <4>4, <6>1 DEF MeetingIInv, NegotiationsAreCurrent
          <5> QED BY <5>1, <5>2
        <4>5. ASSUME NEW x \in Meetings, NEW y \in Meetings \ {x}, negs'[x] # NoNeg
              PROVE  {negs'[y].from, negs'[y].to} # {negs'[x].from, negs'[x].to}
          <5>1. CASE x = m.ses \/ y = m.ses
            BY <4>2, <4>3, <5>1
          <5>2. CASE x # m.ses /\ y # m.ses
            <6>1. negs'[x] = negs[x] /\ negs'[x].from # 0
              BY <2>2, <4>3, <4>5, <5>2
            <6>2. CASE negs'[y] = NoNeg
              BY <2>2, <6>1, <6>2
            <6>3. CASE negs'[y] = negs[y]
              BY <4>5, <6>1, <6>3 DEF MeetingIInv, NegotiationsAreCurrent
            <6> QED BY <4>3, <5>2, <6>2, <6>3
          <5> QED BY <5>1, <5>2
        <4>6. ASSUME NEW d \in Identities PROVE Cardinality(Sessions(negs', d)) <= MaxSessionsPerDevice
          <5>1. CASE d \notin {m.from, m.to}
            <6>1. Sessions(negs', d) \subseteq Sessions(negs, d) /\ Sessions(negs, d) \subseteq Meetings
              BY <2>2, <4>2, <4>3, <5>1 DEF Sessions
            <6>2. Cardinality(Sessions(negs', d)) <= Cardinality(Sessions(negs, d))
              BY <2>1, <6>1
            <6>3. Cardinality(Sessions(negs', d)) \in Nat /\ Cardinality(Sessions(negs, d)) \in Nat
              BY <2>1, <6>1
            <6>4. Cardinality(Sessions(negs, d)) <= MaxSessionsPerDevice
              BY <2>3
            <6> HIDE DEF rest, new
            <6> QED BY <6>2, <6>3, <6>4
          <5>2. CASE d \in {m.from, m.to}
            <6>1. Sessions(negs', d) \subseteq Sessions(rest, d) \cup {m.ses} /\ Sessions(rest, d) \subseteq Meetings
              BY <4>3 DEF Sessions
            <6>2. Cardinality(Sessions(rest, d)) \in Nat /\ Cardinality(Sessions(rest, d)) < MaxSessionsPerDevice
              BY <2>1, <3>2, <5>2, <6>1 DEF Quota
            <6>3. Sessions(rest, d) \cup {m.ses} \in SUBSET Meetings
              BY <4>1, <6>1
            <6>4. Cardinality(Sessions(rest, d) \cup {m.ses}) <= Cardinality(Sessions(rest, d)) + 1
              <7>1. CASE m.ses \in Sessions(rest, d)
                <8>1. Sessions(rest, d) \cup {m.ses} = Sessions(rest, d)
                  BY <7>1
                <8>2. Cardinality(Sessions(rest, d) \cup {m.ses}) = Cardinality(Sessions(rest, d))
                  BY <8>1
                <8> HIDE DEF rest
                <8> QED BY <6>2, <8>2
              <7>2. CASE m.ses \notin Sessions(rest, d)
                BY <2>1, <4>1, <6>1, <6>2, <7>2
              <7> QED BY <7>1, <7>2
            <6>5. Cardinality(Sessions(negs', d)) <= Cardinality(Sessions(rest, d) \cup {m.ses})
              BY <2>1, <6>1, <6>3
            <6>6. Cardinality(Sessions(negs', d)) \in Nat /\ Cardinality(Sessions(rest, d) \cup {m.ses}) \in Nat
              BY <2>1, <6>1, <6>3
            <6> QED BY <6>2, <6>4, <6>5, <6>6
          <5> QED BY <5>1, <5>2
        <4> QED BY <4>4, <4>5, <4>6 DEF NegotiationsAreCurrent, Sessions
      <3> QED BY <2>7, <3>1, <3>2 DEF TakeRequest, Refuse
    <2>8. ASSUME NEW m \in ClientMessages, TakeOther(m), UNCHANGED clients PROVE NegotiationsAreCurrent'
      <3> DEFINE n == negs[m.ses]
                 ended == n.ended \cup (IF m.type = "end" THEN {m.from} ELSE {})
      <3>1. CASE UNCHANGED negs
        BY <2>6, <2>8, <3>1
      <3>2. CASE negs' = [negs EXCEPT ![m.ses] =
                            IF ended = {n.from, n.to} THEN NoNeg
                            ELSE [n EXCEPT !.accepted = @ \/ m.type = "response", !.ended = ended]]
        <4>1. m.ses \in Meetings /\ negs \in [Meetings -> Negotiated \cup {NoNeg}]
          BY DEF ClientMessages, MeetingIInv, MeetingTypeOK
        <4>2. ASSUME NEW x \in Meetings, x # m.ses PROVE negs'[x] = negs[x]
          BY <3>2, <4>1, <4>2
        <4>3. negs'[m.ses] = NoNeg \/ /\ negs'[m.ses].from = n.from /\ negs'[m.ses].to = n.to
                                      /\ negs'[m.ses].over = n.over
          <5>1. n \in Negotiated \/ n = NoNeg
            BY <2>2, <4>1
          <5>2. negs'[m.ses] = IF ended = {n.from, n.to} THEN NoNeg
                               ELSE [n EXCEPT !.accepted = @ \/ m.type = "response", !.ended = ended]
            BY <3>2, <4>1
          <5> QED BY <5>1, <5>2 DEF Negotiated, NoNeg
        <4> QED BY <2>4, <2>8, <4>2, <4>3
      <3> QED BY <2>8, <3>1, <3>2 DEF TakeOther, Refuse
    <2>9. ASSUME NEW d \in Identities, Forward(d) PROVE NegotiationsAreCurrent'
      <3>1. up[d] \in Seq(Nat \X ClientMessages) /\ up[d] # <<>>
        BY <2>9 DEF Forward, MeetingIInv, MeetingTypeOK
      <3>2. Head(up[d]) \in Nat \X ClientMessages
        BY <3>1
      <3>3. PICK m \in ClientMessages : m = Head(up[d])[2]
        BY <3>2
      <3> QED BY <2>6, <2>7, <2>8, <2>9, <3>3 DEF Forward, Refuse
    <2>10. ASSUME NEW d \in Identities, ConnectionEnds(d) \/ ConnectionBreaks(d) PROVE NegotiationsAreCurrent'
      BY <2>5, <2>10 DEF ConnectionEnds, ConnectionBreaks
    <2>11. ASSUME NEW d \in Identities, Reach(d) PROVE NegotiationsAreCurrent'
      <3>1. made[d] + 1 \in Nat
        BY DEF MeetingIInv, MeetingTypeOK
      <3> QED BY <2>5, <2>11, <3>1 DEF Reach, OpenSignal, Admit
    <2>12. ASSUME NEW d \in Identities,
                  \/ Request(d) \/ Read(d) \/ Answer(d) \/ SendEnd(d) \/ FindPath(d) \/ Exchanged(d) \/ Establish(d)
                  \/ Settle(d) \/ GiveUp(d) \/ \E e \in Identities : StartDial(d, e)
           PROVE  UNCHANGED <<clients, negs>>
      BY <2>12 DEF Request, Read, Answer, SendEnd, FindPath, Exchanged, Establish, Settle, GiveUp, StartDial, atServer
    <2>13. CASE UNCHANGED rendezvousVars
      BY <2>6, <2>13 DEF rendezvousVars, atServer
    <2> QED BY <2>6, <2>9, <2>10, <2>11, <2>12, <2>13 DEF RendezvousNext, ServerStep, EndStep
  <1>1. RendezvousInit => MeetingIInv
    <2> SUFFICES ASSUME RendezvousInit PROVE MeetingIInv
      OBVIOUS
    <2>1. Listening \in Doings /\ Takes(Listening)
      BY DEF Listening, Resting, Doings, Stages, Takes
    <2>2. MeetingTypeOK
      BY <2>1 DEF RendezvousInit, MeetingTypeOK
    <2> QED BY <2>2 DEF RendezvousInit, MeetingIInv, NegotiationsAreCurrent
  <1>2. MeetingIInv /\ [RendezvousNext]_rendezvousVars => MeetingIInv'
    BY <1>MeetingTypeStep, <1>MeetingStep DEF MeetingIInv
  <1>3. MeetingIInv => MeetingTypeOK /\ NegotiationsAreCurrent
    BY DEF MeetingIInv
  <1> QED BY <1>1, <1>2, <1>3, PTL DEF RendezvousSpec
=============================================================================
