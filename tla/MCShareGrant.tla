---------------------------- MODULE MCShareGrant ----------------------------
(* Small instances of ShareGrant for TLC. *)
EXTENDS ShareGrant, TLC

\* Identifiers nobody orders: any renaming of them maps behaviours to behaviours.
Renamings ==
  UNION {Permutations(S) : S \in {T \in {GrantIDs, Actors, Codes, ClaimIDs, TaskIDs, Plans} :
                                    Cardinality(T) > 1}}
=============================================================================
