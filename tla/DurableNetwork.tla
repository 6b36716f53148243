--------------------------- MODULE DurableNetwork ---------------------------
(***************************************************************************)
(* What the two files promise to whoever replaces a coordinator: networks  *)
(* follow one another and none comes back, and a backup is one moment of   *)
(* the network it names, its node table taken while that network was the   *)
(* stored one, and never a mixture of two moments.  Once a reset outlived  *)
(* its controller a successor may be running an earlier network, never a   *)
(* later one.                                                              *)
(***************************************************************************)
EXTENDS Naturals

CONSTANTS NoNetwork, NoBackup

VARIABLES network,        \* the stored network
          backup,         \* the stored backup
          topology,       \* the version of the node table
          pending,        \* the moments being backed up
          outlived        \* a reset has outlived its controller

Init ==
  /\ network = NoNetwork
  /\ backup = NoBackup
  /\ topology = 0
  /\ pending = {}
  /\ outlived = FALSE

\* A device joins or leaves.
Change ==
  /\ topology' = topology + 1
  /\ UNCHANGED <<network, backup, pending, outlived>>

\* A network that was never stored before takes the place of the old one.
Replace ==
  /\ network' > network
  /\ UNCHANGED <<backup, topology, pending, outlived>>

\* This moment begins to be backed up.
Snapshot ==
  /\ \E n \in 1 .. network :
       /\ ~outlived => n = network
       /\ pending' = pending \cup {[network |-> n, topology |-> topology]}
  /\ UNCHANGED <<network, backup, topology, outlived>>

\* One of the moments reaches the file; another flight may be backing up the
\* same one.
Save ==
  /\ \E b \in pending :
       /\ backup' = b
       /\ pending' \in {pending, pending \ {b}}
  /\ UNCHANGED <<network, topology, outlived>>

\* Flights fail, or end with their process.
Lose ==
  /\ pending' \subseteq pending
  /\ UNCHANGED <<network, backup, topology, outlived>>

Remove ==
  /\ backup' = NoBackup
  /\ UNCHANGED <<network, topology, pending, outlived>>

Outlive ==
  /\ outlived' = TRUE
  /\ UNCHANGED <<network, backup, topology, pending>>

Next == Change \/ Replace \/ Snapshot \/ Save \/ Lose \/ Remove \/ Outlive

Spec == Init /\ [][Next]_<<network, backup, topology, pending, outlived>>
=============================================================================
