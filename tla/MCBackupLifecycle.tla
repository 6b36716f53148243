------------------------- MODULE MCBackupLifecycle --------------------------
(* Small instances of BackupLifecycle for TLC. *)
EXTENDS BackupLifecycle, TLC

\* Controllers are interchangeable; sound for the safety runs only.
Symmetry == Permutations(Controllers)

=============================================================================
