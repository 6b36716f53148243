--------------------------- MODULE MCEmberManager ---------------------------
(* Small instances of EmberManager for TLC. *)
EXTENDS EmberManager, TLC

\* Loops are interchangeable; sound for the safety runs only.
Symmetry == Permutations(Loops)

\* The safety run explores nothing beyond a state in which somebody waits: a
\* waiter, of which no invariant speaks, only keeps its loop from being used
\* again (Free), so every other change of state is explored without it.
NobodyWaits == waiter = None

\* The liveness run fixes the name of the first loop, since symmetry is not
\* sound there, and has no pairings: a session, too, only keeps a loop from
\* being used again.
FirstLoop == CHOOSE l \in Loops : TRUE

LiveInit == Init /\ lifecycle = FirstLoop
LiveNext == Next /\ UNCHANGED session
LiveSpec == LiveInit /\ [][LiveNext]_vars /\ Fairness
=============================================================================
