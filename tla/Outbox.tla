------------------------------- MODULE Outbox -------------------------------
(***************************************************************************)
(* What the send queue promises: every transfer it starts was asked for.   *)
(* The user asks once when an item is queued and once more each time an    *)
(* item that was set aside is confirmed; the queue may set an item aside   *)
(* at any time, a restart sets every open item aside, and nothing but the  *)
(* user brings it back.  An ended item is never started again.             *)
(***************************************************************************)
EXTENDS Naturals

CONSTANT Items

VARIABLES
    phase,      \* where each item is: none, waiting, sending, held or done
    asked,      \* how often the user asked for its transfer
    sent        \* how many transfers were started for it

outboxVars == <<phase, asked, sent>>

OutboxInit ==
    /\ phase = [i \in Items |-> "none"]
    /\ asked = [i \in Items |-> 0]
    /\ sent = [i \in Items |-> 0]

Pass(i, from, to) == phase[i] \in from /\ phase' = [phase EXCEPT ![i] = to]

\* A new item, or a confirmed one that starts over.
Ask(i) ==
    /\ Pass(i, {"none", "held"}, "waiting")
    /\ asked' = [asked EXCEPT ![i] = @ + 1] /\ UNCHANGED sent

\* The items of a batch are asked for together.
AskAll(S) ==
    /\ \A i \in S : phase[i] = "none"
    /\ phase' = [i \in Items |-> IF i \in S THEN "waiting" ELSE phase[i]]
    /\ asked' = [i \in Items |-> IF i \in S THEN asked[i] + 1 ELSE asked[i]]
    /\ UNCHANGED sent

\* A transfer starts, on an item that is waiting because it was asked for.
Start(i) ==
    /\ Pass(i, {"waiting"}, "sending") /\ sent[i] < asked[i]
    /\ sent' = [sent EXCEPT ![i] = @ + 1] /\ UNCHANGED asked

\* A confirmed item goes on with the transfer it has.
Continue(i) == Pass(i, {"held"}, "sending") /\ UNCHANGED <<asked, sent>>

\* Any set of items is set aside or ended in one step.
Settle(H, D) ==
    /\ \A i \in H : phase[i] \in {"waiting", "sending", "held"}
    /\ \A i \in D : phase[i] # "none"
    /\ phase' = [i \in Items |-> IF i \in D THEN "done"
                                 ELSE IF i \in H THEN "held" ELSE phase[i]]
    /\ UNCHANGED <<asked, sent>>

OutboxNext ==
    \/ \E i \in Items : Ask(i) \/ Start(i) \/ Continue(i)
    \/ \E S \in SUBSET Items : AskAll(S)
    \/ \E H, D \in SUBSET Items : Settle(H, D)

OutboxSpec == OutboxInit /\ [][OutboxNext]_outboxVars
=============================================================================
