--------------------------- MODULE MCShareSignal ----------------------------
(* Small instances of ShareSignal for TLC. *)
EXTENDS ShareSignal, TLC

\* Devices, objects and sessions are interchangeable.
Renamings ==
  {f @@ g @@ h @@ k : f \in Permutations(OwnerIDs), g \in Permutations(ConnIDs),
                      h \in Permutations(IceSessions), k \in Permutations(Actors)}
=============================================================================
