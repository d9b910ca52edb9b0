----------------------------- MODULE MCTransfer -----------------------------
(***************************************************************************)
(* What two devices do together, from the dial to the end of the transfer, *)
(* checked side by side: where nothing fails dials meet (Rendezvous), and  *)
(* whatever fails both ends of a transfer return (Transfer).  The two share*)
(* no state, so each behaviour is one of either.                           *)
(***************************************************************************)
EXTENDS Transfer, Rendezvous

VARIABLE part

\* Transfer: a directory with a file, and a file beside it.
Inner == {1}
FaultsOrTouches == {<<2, 0>>, <<1, 1>>}

\* Dials that cross, and a dial that does not.
Calm(p, q) == [dial |-> [d \in Identities |-> IF d = 1 THEN p ELSE q], calm |-> TRUE, break |-> 0]
CalmMeetings == {Calm({2}, {1}), Calm({}, {1})}

TogetherInit ==
    /\ TransferInit /\ RendezvousInit
    /\ \/ part = "transfer" /\ chance = Calm({}, {1})
       \/ part = "dial" /\ faults = 2
TogetherNext ==
    \/ part = "transfer" /\ TransferNext /\ UNCHANGED <<rendezvousVars, part>>
    \/ part = "dial" /\ RendezvousNext /\ UNCHANGED <<trVars, part>>
TogetherSpec ==
    /\ TogetherInit /\ [][TogetherNext]_<<trVars, rendezvousVars, part>>
    /\ WF_trVars(part = "transfer" /\ SenderStep) /\ WF_trVars(part = "transfer" /\ ReceiverStep)
    /\ WF_rendezvousVars(part = "dial" /\ (ServerStep \/ EndStep))
=============================================================================
