----------------------------- MODULE MCCustody ------------------------------
(***************************************************************************)
(* What a device keeps for others, checked side by side: the owned content *)
(* store and the cache of copied files share no state, so each behaviour is*)
(* one of either.                                                          *)
(***************************************************************************)
EXTENDS ContentStore, ClipFiles

VARIABLE part

Calm == [offers |-> 1, lapses |-> 0, copies |-> 0, edits |-> 0, losses |-> 0, cancels |-> 0, failures |-> 0, foreign |-> 0, restarts |-> 0]
FileCases ==
    { [Calm EXCEPT !.offers = 2, !.copies = 1], [Calm EXCEPT !.offers = 2, !.lapses = 1],
      [Calm EXCEPT !.failures = 2], [Calm EXCEPT !.failures = 1, !.restarts = 1],
      [Calm EXCEPT !.foreign = 1, !.failures = 1], [Calm EXCEPT !.edits = 1, !.cancels = 1, !.losses = 1],
      [Calm EXCEPT !.copies = 1, !.restarts = 1, !.failures = 1] }

CustodyInit ==
    /\ ContentInit /\ FilesInit
    /\ \/ part = "content" /\ spare = CHOOSE s \in FileCases : TRUE
       \/ part = "files"
CustodyNext ==
    \/ part = "content" /\ ContentNext /\ UNCHANGED <<cfVars, part>>
    \/ part = "files" /\ FilesNext /\ UNCHANGED <<csVars, part>>
CustodyFairness ==
    /\ WF_cfVars(part = "files" /\ SenderSteps) /\ WF_cfVars(part = "files" /\ JobSteps)
    /\ WF_cfVars(part = "files" /\ Collector)
    /\ \A o \in Offers : WF_cfVars(part = "files" /\ WorkStep(o))
CustodySpec == CustodyInit /\ [][CustodyNext]_<<csVars, cfVars, part>> /\ CustodyFairness
=============================================================================
