------------------------------ MODULE MCTasks ------------------------------
EXTENDS Tasks, TLC

\* Tasks and callers are interchangeable; used by runs without liveness.
TaskSymmetry == Permutations(Tasks) \cup Permutations(Callers)
=============================================================================
