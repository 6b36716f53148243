----------------------------- MODULE RadioStore -----------------------------
(***************************************************************************)
(* The two files of the coordinator (RadioStore.mts): network.json, the    *)
(* identity of the Zigbee network, and coordinator-backup.json, the backup *)
(* herdsman restores a replaced or erased coordinator from.                *)
(*                                                                         *)
(* A network is a number: createNetwork() draws 64 random bits of extended *)
(* PAN id and a 128-bit key, so each call is a network nobody has seen.    *)
(* A backup is the network it was taken of and the version of the node     *)
(* table it holds.  Every write goes to a temporary file that is synced    *)
(* and renamed, so what is on disk is always a complete old or new value;  *)
(* a write appears here as the rename that ends it.                        *)
(***************************************************************************)
EXTENDS Naturals

CONSTANT MaxNetworks      \* bound: networks ever created

ASSUME MaxNetworksAssumption == MaxNetworks \in Nat

VARIABLES networkJson,    \* the network in network.json, NoNetwork = ENOENT
          backupJson,     \* the contents of coordinator-backup.json
          issued          \* networks created so far: 1 .. issued

storeVars == <<networkJson, backupJson, issued>>

NoNetwork == 0
NoBackup == [network |-> NoNetwork, topology |-> 0]

Backup == [network : Nat, topology : Nat]

StoreTypeOK ==
  /\ networkJson \in Nat
  /\ backupJson \in Backup
  /\ issued \in Nat

StoreInit ==
  /\ networkJson = NoNetwork
  /\ backupJson = NoBackup
  /\ issued = 0

\* createNetwork(): a fresh identity, in memory only; its caller writes it next,
\* as network number issued.
CreateNetwork ==
  /\ issued < MaxNetworks
  /\ issued' = issued + 1

\* writeNetwork(): the rename that publishes network n.
WriteNetwork(n) == networkJson' = n

\* writeBackup(): the rename that publishes a backup.
WriteBackup(b) == backupJson' = b

\* Mutant: the reset forgets to remove the backup.
KeepBackup ==
  /\ CreateNetwork
  /\ UNCHANGED backupJson

\* The first half of resetNetwork(): a new identity, and the old backup is
\* deleted before the new network.json is written.
RemoveBackup ==
  /\ CreateNetwork
  /\ backupJson' = NoBackup
=============================================================================
