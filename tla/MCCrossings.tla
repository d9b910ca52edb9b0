---------------------------- MODULE MCCrossings -----------------------------
(***************************************************************************)
(* What crosses on its way between devices, checked side by side: copies   *)
(* of the clipboard and requests for a session share no state, so each     *)
(* behaviour is one of either.                                             *)
(***************************************************************************)
EXTENDS Clipboard, Rendezvous

VARIABLE part

\* The clipboard: copies, edits of the permissions, faults.
Quiet == [copies |-> 0, copiers |-> {}, lapses |-> 0, losses |-> 0, edits |-> 0, revocations |-> 0, pauses |-> 0, restarts |-> 0,
          leases |-> [d \in ClipDevices |-> 1], links |-> {}]
Pair == {<<1, 2>>, <<2, 1>>}
Scenarios ==
    { [Quiet EXCEPT !.copies = 2, !.copiers = {1, 2}, !.links = Pair, !.lapses = 1],
      [Quiet EXCEPT !.copies = 2, !.copiers = {1, 2}, !.links = Pair, !.pauses = 1],
      [Quiet EXCEPT !.copies = 2, !.copiers = {1, 2}, !.links = {<<1, 2>>}, !.pauses = 2],
      [Quiet EXCEPT !.copies = 1, !.copiers = {1}, !.links = Pair, !.pauses = 2],
      [Quiet EXCEPT !.copies = 2, !.copiers = {1, 2}, !.links = Pair, !.restarts = 1],
      [Quiet EXCEPT !.copies = 1, !.copiers = {1}, !.links = {<<1, 2>>}, !.edits = 2, !.leases[2] = 2, !.losses = 1],
      [Quiet EXCEPT !.copies = 1, !.copiers = {1}, !.links = {<<1, 2>>}, !.edits = 2, !.leases[2] = 2, !.lapses = 1],
      [Quiet EXCEPT !.copies = 1, !.copiers = {1}, !.links = {<<1, 2>>}, !.edits = 1, !.restarts = 1],
      [Quiet EXCEPT !.copies = 2, !.copiers = {1}, !.links = {<<1, 2>>}, !.edits = 1, !.revocations = 1],
      [Quiet EXCEPT !.copies = 3, !.copiers = {1, 2, 3}, !.links = {<<1, 3>>, <<2, 3>>}, !.leases[3] = 2],
      [Quiet EXCEPT !.copies = 1, !.copiers = {3}, !.links = {<<3, 2>>, <<2, 1>>}, !.pauses = 1] }

\* Meetings: who dials whom, waits that are given up, connections that break.
Dials(p, q, r) == [d \in Identities |-> CASE d = 1 -> p [] d = 2 -> q [] OTHER -> r]
Chances(dials, calm, break) == [dial |-> dials, calm |-> calm, break |-> break]
MeetingCases ==
    { Chances(Dials({2}, {1}, {}), FALSE, 0), Chances(Dials({2}, {1}, {}), FALSE, 1),
      Chances(Dials({}, {3}, {2}), FALSE, 0), Chances(Dials({2}, {}, {2}), FALSE, 0) }

CrossingsInit ==
    /\ ClipInit /\ RendezvousInit
    /\ \/ part = "clipboard" /\ chance = CHOOSE c \in MeetingCases : TRUE
       \/ part = "meetings" /\ left = CHOOSE s \in Scenarios : TRUE
CrossingsNext ==
    \/ part = "clipboard" /\ ClipNext /\ UNCHANGED <<rendezvousVars, part>>
    \/ part = "meetings" /\ RendezvousNext /\ UNCHANGED <<clipVars, part>>
CrossingsSpec == CrossingsInit /\ [][CrossingsNext]_<<clipVars, rendezvousVars, part>>
=============================================================================
