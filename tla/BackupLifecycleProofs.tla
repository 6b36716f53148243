----------------------- MODULE BackupLifecycleProofs ------------------------
(***************************************************************************)
(* Theorems about BackupLifecycle, for every number of controllers,        *)
(* networks, topology changes and faults.                                  *)
(***************************************************************************)
EXTENDS BackupLifecycle, TLAPS

(* Type correctness *)

LEMMA TypeInit == Init => TypeOK
<1> SUFFICES ASSUME Init PROVE TypeOK OBVIOUS
<1>1. StoreTypeOK BY DEF Init, StoreInit, StoreTypeOK, NoBackup, NoNetwork, Backup
<1>2. flights \in [Controllers -> SUBSET Flight] BY DEF Init
<1> QED BY <1>1, <1>2 DEF Init, TypeOK, Phases, Resets, Closes, NoNetwork

\* writeBackup() adds at most a well-typed flight.
LEMMA BeginBackupType ==
  ASSUME TypeOK, NEW c \in Controllers, BeginBackup(c, adapter[c])
  PROVE  flights' \in [Controllers -> SUBSET Flight]
BY DEF TypeOK, BeginBackup, Flight, NoNetwork

LEMMA DestroyType ==
  ASSUME TypeOK, NEW c \in Controllers, NEW at \in Closes,
         DestroyNow(c, at) \/ DestroyWithBackup(c)
  PROVE  /\ flights' \in [Controllers -> SUBSET Flight]
         /\ adapter' \in [Controllers -> Nat]
         /\ close' \in [Controllers -> Closes]
         /\ timer' \in [Controllers -> BOOLEAN]
         /\ interval' \in [Controllers -> BOOLEAN]
<1>1. CASE DestroyNow(c, at)
  BY <1>1 DEF DestroyNow, StopTimers, TypeOK, Closes, NoNetwork
<1>2. CASE DestroyWithBackup(c)
  BY <1>2, BeginBackupType DEF DestroyWithBackup, StopTimers, TypeOK, Closes
<1> QED BY <1>1, <1>2

LEMMA SettleType ==
  ASSUME TypeOK, NEW c \in Controllers,
         NEW s \in Phases, NEW r \in Resets, Settle(c, s, r)
  PROVE  /\ phase' \in [Controllers -> Phases]
         /\ adapter' \in [Controllers -> Nat]
         /\ reset' \in [Controllers -> Resets]
         /\ close' \in [Controllers -> Closes]
         /\ interval' \in [Controllers -> BOOLEAN]
<1>1. phase' \in [Controllers -> Phases] BY DEF Settle, TypeOK
<1>2. adapter' \in [Controllers -> Nat] BY DEF Settle, TypeOK, NoNetwork
<1>3. reset' \in [Controllers -> Resets] BY DEF Settle, TypeOK
<1>4. close' \in [Controllers -> Closes] BY DEF Settle, TypeOK, Closes
<1>5. interval' \in [Controllers -> BOOLEAN] BY DEF Settle, TypeOK
<1> QED BY <1>1, <1>2, <1>3, <1>4, <1>5

LEMMA TypeStep == TypeOK /\ [Next]_vars => TypeOK'
<1> SUFFICES ASSUME TypeOK, [Next]_vars PROVE TypeOK' OBVIOUS
<1> USE DEF TypeOK, StoreTypeOK, timers
<1>1. ASSUME NEW c \in Controllers, Spawn(c) PROVE TypeOK'
  BY <1>1 DEF Spawn, storeVars, worldVars, Phases
<1>2. ASSUME NEW c \in Controllers, StartStep(c) PROVE TypeOK'
  <2>1. CASE LoadExisting(c) BY <2>1 DEF LoadExisting, storeVars, worldVars, Phases
  <2>2. CASE LoadMissing(c)
    BY <2>2 DEF LoadMissing, CreateNetwork, worldVars, Phases
  <2>3. CASE FormWrite(c)
    BY <2>3 DEF FormWrite, WriteNetwork, worldVars, Phases
  <2>4. CASE AdapterUp(c)
    BY <2>4, BeginBackupType DEF AdapterUp, storeVars, worldVars, Phases
  <2>5. CASE StartRefused(c)
    BY <2>5 DEF StartRefused, storeVars, worldVars, Phases, NoNetwork
  <2> QED BY <1>2, <2>1, <2>2, <2>3, <2>4, <2>5 DEF StartStep
<1>3. ASSUME NEW c \in Controllers, StartFails(c) PROVE TypeOK'
  BY <1>3 DEF StartFails, Fault, storeVars, Phases, NoNetwork
<1>4. ASSUME NEW c \in Controllers, NEW f \in flights[c], FlightEnds(c, f),
             faults' \in Nat
      PROVE  TypeOK'
  <2>1. Settle(c, "failed", "failed") BY <1>4 DEF FlightEnds
  <2>2. flights' \in [Controllers -> SUBSET Flight] BY <1>4 DEF FlightEnds
  <2> QED BY <1>4, <2>1, <2>2, SettleType DEF FlightEnds, storeVars, Phases, Resets
<1>5. ASSUME NEW c \in Controllers, FlightStep(c) \/ FlightFails(c) PROVE TypeOK'
  <2>1. CASE FlightRadio(c)
    <3>1. PICK f \in flights[c] :
            flights' = [flights EXCEPT ![c] =
                          (@ \ {f}) \cup {[f EXCEPT !.stage = "write"]}]
      BY <2>1 DEF FlightRadio
    <3>2. [f EXCEPT !.stage = "write"] \in Flight BY <3>1 DEF Flight
    <3>3. flights' \in [Controllers -> SUBSET Flight] BY <3>1, <3>2
    <3> QED BY <2>1, <3>3 DEF FlightRadio, storeVars, worldVars
  <2>2. CASE FlightSaved(c)
    <3>1. PICK f \in flights[c] :
            /\ WriteBackup([network |-> f.network, topology |-> f.topology])
            /\ flights' = [flights EXCEPT ![c] = @ \ {f}]
      BY <2>2 DEF FlightSaved
    <3>2. backupJson' \in Backup BY <3>1 DEF WriteBackup, Backup, Flight
    <3>3. flights' \in [Controllers -> SUBSET Flight] BY <3>1
    <3>4. Settle(c, "running", "none") BY <2>2 DEF FlightSaved
    <3> QED BY <2>2, <3>2, <3>3, <3>4, SettleType
            DEF FlightSaved, worldVars, Phases, Resets
  <2>3. CASE FlightLost(c) BY <2>3, <1>4 DEF FlightLost
  <2>4. CASE FlightFails(c) BY <2>4, <1>4 DEF FlightFails, Fault
  <2> QED BY <1>5, <2>1, <2>2, <2>3, <2>4 DEF FlightStep
<1>6. ASSUME NEW c \in Controllers, TopologyChange(c) PROVE TypeOK'
  BY <1>6 DEF TopologyChange, storeVars
<1>7. ASSUME NEW c \in Controllers, TopologyTimer(c) \/ DailyTimer(c) PROVE TypeOK'
  BY <1>7, BeginBackupType DEF TopologyTimer, DailyTimer, storeVars, worldVars
<1>8. ASSUME NEW c \in Controllers, ResetBegin(c) \/ ResetFails(c) PROVE TypeOK'
  BY <1>8 DEF ResetBegin, ResetFails, Fault, storeVars, worldVars, Resets, NoNetwork
<1>9. ASSUME NEW c \in Controllers, ResetStep(c) PROVE TypeOK'
  <2>1. CASE ResetRemove(c)
    BY <2>1 DEF ResetRemove, RemoveBackup, CreateNetwork, NoBackup, Backup,
                NoNetwork, Resets, BackupBeingWritten
  <2>2. CASE ResetWrite(c)
    BY <2>2 DEF ResetWrite, WriteNetwork, worldVars, Resets
  <2>3. CASE ResetAdapterUp(c)
    BY <2>3, BeginBackupType DEF ResetAdapterUp, storeVars, worldVars, Resets
  <2>4. CASE ResetRefused(c)
    BY <2>4 DEF ResetRefused, storeVars, worldVars, Resets, NoNetwork
  <2> QED BY <1>9, <2>1, <2>2, <2>3, <2>4 DEF ResetStep
<1>10. ASSUME NEW c \in Controllers,
              \/ AbandonStart(c) \/ AbandonReady(c) \/ NotReady(c)
              \/ LinkLost(c) \/ AbandonReset(c)
       PROVE  TypeOK'
  <2>0. "done" \in Closes /\ "dropped" \in Closes BY DEF Closes
  <2>1. CASE AbandonStart(c)
    BY <2>0, <2>1, DestroyType DEF AbandonStart, storeVars, worldVars
  <2>2. CASE LinkLost(c) BY <2>0, <2>2, DestroyType DEF LinkLost, Fault, storeVars
  <2>3. CASE AbandonReset(c)
    <3>1. CASE \E d \in Controllers : DestroyNow(d, "done")
      BY <2>0, <2>3, <3>1, DestroyType DEF AbandonReset, storeVars, worldVars, Resets
    <3>2. CASE close' = [d \in Controllers |->
                          IF close[d] = "dropped" THEN "done" ELSE close[d]]
               /\ UNCHANGED <<adapter, flights, timers>>
      BY <2>3, <3>2 DEF AbandonReset, storeVars, worldVars, Resets, Closes
    <3> QED BY <2>3, <3>1, <3>2 DEF AbandonReset
  <2>4. CASE AbandonReady(c)
    BY <2>0, <2>4, DestroyType DEF AbandonReady, Fault, storeVars
  <2>5. CASE NotReady(c) BY <2>5 DEF NotReady, storeVars, worldVars, Closes
  <2> QED BY <1>10, <2>1, <2>2, <2>3, <2>4, <2>5
<1>11. ASSUME NEW c \in Controllers, Shutdown(c) PROVE TypeOK'
  <2>1. \E at \in Closes : DestroyNow(c, at) \/ DestroyWithBackup(c)
    BY <1>11 DEF Shutdown, Closes
  <2> QED BY <1>11, <2>1, DestroyType DEF Shutdown, Fault, storeVars
<1>12. ASSUME NEW c \in Controllers, CloseTimeout(c) PROVE TypeOK'
  BY <1>12 DEF CloseTimeout, storeVars, worldVars, Closes, NoNetwork
<1>13. ASSUME Exit \/ Crash PROVE TypeOK'
  <2>0. Reboot /\ faults' \in Nat BY <1>13 DEF Exit, Crash, Fault
  <2>1. phase' \in [Controllers -> Phases] BY <2>0 DEF Reboot, Phases
  <2>2. close' \in [Controllers -> Closes] BY <2>0 DEF Reboot, Closes
  <2>3. adapter' \in [Controllers -> Nat] BY <2>0 DEF Reboot, NoNetwork
  <2>4. reset' \in [Controllers -> Resets] BY <2>0 DEF Reboot, Resets
  <2>5. flights' \in [Controllers -> SUBSET Flight] BY <2>0 DEF Reboot
  <2> QED BY <2>0, <2>1, <2>2, <2>3, <2>4, <2>5 DEF Reboot, storeVars
<1>14. ASSUME UNCHANGED vars PROVE TypeOK'
  BY <1>14 DEF vars, storeVars, ctrlVars, worldVars, timers
<1> QED
  BY <1>1, <1>2, <1>3, <1>5, <1>6, <1>7, <1>8, <1>9, <1>10, <1>11, <1>12, <1>13,
     <1>14 DEF Next, ControllerStep

\* Every variable keeps its type: no handler, in any order, leaves the store
\* or a controller in a state the others do not expect.
THEOREM TypeCorrect == Spec => []TypeOK
BY TypeInit, TypeStep, PTL DEF Spec

-----------------------------------------------------------------------------
(* The inductive invariant.  PairedUnlessOverlap and RunsStoredNetwork are  *)
(* not inductive: they need that a single controller can touch the radio    *)
(* and the files' networks as long as no reset outlived its controller,     *)
(* although destroyed ones still finish their writes, and that nothing was  *)
(* under way when a reset passed its removal.                               *)

\* A controller that can no longer reach the radio, nor change a network.
Quiet(c) ==
  \/ phase[c] = "unborn"
  \/ /\ phase[c] \in {"running", "failed"}
     /\ reset[c] = "none"
     /\ close[c] = "done"

\* reset and close only move where start() allows it, and a destroyed
\* controller holds an adapter only until its start or reset notices.
PcOrder ==
  \A c \in Controllers :
    /\ reset[c] # "none" => phase[c] = "running"
    /\ phase[c] = "unborn" => close[c] = "none"
    /\ phase[c] = "form" => networkJson = NoNetwork
    /\ phase[c] \in {"adapter", "backup", "running"} => networkJson # NoNetwork
    /\ phase[c] = "form" \/ reset[c] = "write" => issued # NoNetwork
    /\ phase[c] = "unborn" => adapter[c] = NoNetwork
    /\ close[c] = "final" => exiting
    /\ close[c] \in {"dropped", "done"} =>
         phase[c] = "adapter" \/ reset[c] = "adapter" \/ adapter[c] = NoNetwork

\* One reset at a time, also when the first one's controller is destroyed.
OneReset == \A c, d \in Controllers : c # d => reset[c] = "none" \/ reset[d] = "none"

\* What outlived its controller was a reset of a stored network.
OutlivedLate == outlived => networkJson # NoNetwork

\* The manager has one controller at a time.
OneLive == \A c, d \in Controllers : c # d => ~Live(c) \/ ~Live(d)

\* Unless Homey is shutting down, a destroyed controller's start() is over.
ClosedHasStarted ==
  ~exiting /\ ~outlived =>
    \A c \in Controllers : close[c] # "none" => phase[c] \in {"running", "failed"}

OneActive ==
  ~outlived => \A c, d \in Controllers : c # d => Quiet(c) \/ Quiet(d)

\* Backups on their way to the file are of the stored network.
WritesPaired ==
  ~overlap /\ ~outlived => \A c \in Controllers : \A f \in flights[c] :
                             f.stage = "write" => f.network = networkJson

\* Between the removal and the new network.json there is no backup to pair.
NothingWhileWriting ==
  ~overlap /\ ~outlived => \A c \in Controllers : reset[c] = "write" =>
                             /\ backupJson.network = NoNetwork
                             /\ ~BackupBeingWritten

IInv ==
  /\ TypeOK
  /\ PcOrder
  /\ OneReset
  /\ OutlivedLate
  /\ OneLive
  /\ ClosedHasStarted
  /\ OneActive
  /\ RunsStoredNetwork
  /\ WritesPaired
  /\ NothingWhileWriting
  /\ PairedUnlessOverlap

\* A controller is made only when all others are quiet, but for a reset that
\* outlives its controller.
LEMMA SpawnStep ==
  ASSUME NEW c \in Controllers, IInv, TypeOK', Spawn(c)
  PROVE  IInv'
<1> USE DEF IInv, TypeOK, StoreTypeOK, Flight, NoNetwork, storeVars, worldVars,
            timers, Spawn
<1>1. OutlivedLate' BY DEF OutlivedLate, PcOrder
<1>2. OneActive'
  <2>1. ASSUME ~outlived', NEW d \in Controllers, d # c PROVE Quiet(d)'
    BY <2>1 DEF Quiet, ClosedHasStarted, Live
  <2> QED BY <2>1 DEF OneActive
<1>3. PcOrder' /\ OneReset' /\ OneLive' /\ ClosedHasStarted'
  BY DEF PcOrder, OneReset, OneLive, Live, ClosedHasStarted
<1>4. RunsStoredNetwork' /\ WritesPaired' /\ NothingWhileWriting' /\
     PairedUnlessOverlap'
  BY DEF RunsStoredNetwork, WritesPaired, NothingWhileWriting,
         BackupBeingWritten, PairedUnlessOverlap, PairedFiles
<1> QED BY <1>1, <1>2, <1>3, <1>4

LEMMA LoadExistingStep ==
  ASSUME NEW c \in Controllers, IInv, TypeOK', LoadExisting(c)
  PROVE  IInv'
<1> USE DEF IInv, TypeOK, StoreTypeOK, Flight, NoNetwork, storeVars, worldVars,
            timers, LoadExisting
<1>1. PcOrder' /\ OneReset' /\ OutlivedLate' /\ OneLive' /\ ClosedHasStarted'
     /\ OneActive'
  BY DEF PcOrder, OneReset, OutlivedLate, OneLive, Live, ClosedHasStarted,
         OneActive, Quiet
<1>2. RunsStoredNetwork' /\ WritesPaired' /\ NothingWhileWriting' /\
     PairedUnlessOverlap'
  BY DEF RunsStoredNetwork, WritesPaired, NothingWhileWriting,
         BackupBeingWritten, PairedUnlessOverlap, PairedFiles
<1> QED BY <1>1, <1>2

LEMMA LoadMissingStep ==
  ASSUME NEW c \in Controllers, IInv, TypeOK', LoadMissing(c)
  PROVE  IInv'
<1> USE DEF IInv, TypeOK, StoreTypeOK, Flight, NoNetwork, storeVars, worldVars,
            timers, LoadMissing, CreateNetwork
<1>1. PcOrder' /\ OneReset' /\ OutlivedLate' /\ OneLive' /\ ClosedHasStarted'
     /\ OneActive'
  BY DEF PcOrder, OneReset, OutlivedLate, OneLive, Live, ClosedHasStarted,
         OneActive, Quiet
<1>2. RunsStoredNetwork' /\ WritesPaired' /\ NothingWhileWriting' /\
     PairedUnlessOverlap'
  BY DEF RunsStoredNetwork, WritesPaired, NothingWhileWriting,
         BackupBeingWritten, PairedUnlessOverlap, PairedFiles
<1> QED BY <1>1, <1>2

\* The first network.json: nobody else is active, and no backup exists yet.
LEMMA FormWriteStep ==
  ASSUME NEW c \in Controllers, IInv, TypeOK', FormWrite(c)
  PROVE  IInv'
<1> USE DEF IInv, TypeOK, StoreTypeOK, Flight, NoNetwork, storeVars, worldVars,
            timers, FormWrite, WriteNetwork
<1>1. PcOrder' BY DEF PcOrder, OneActive, Quiet, OutlivedLate
<1>2. OutlivedLate' BY DEF OutlivedLate, PcOrder
<1>3. RunsStoredNetwork' BY DEF RunsStoredNetwork, PcOrder
<1>4. WritesPaired' BY DEF WritesPaired, PcOrder
<1>5. PairedUnlessOverlap' BY DEF PairedUnlessOverlap, PairedFiles, PcOrder
<1>6. OneReset' /\ OneLive' /\ ClosedHasStarted' /\ OneActive'
  BY DEF OneReset, OneLive, Live, ClosedHasStarted, OneActive, Quiet
<1>7. NothingWhileWriting' BY DEF NothingWhileWriting, BackupBeingWritten
<1> QED BY <1>1, <1>2, <1>3, <1>4, <1>5, <1>6, <1>7

LEMMA AdapterUpStep ==
  ASSUME NEW c \in Controllers, IInv, TypeOK', AdapterUp(c)
  PROVE  IInv'
<1> USE DEF IInv, TypeOK, StoreTypeOK, Flight, NoNetwork, storeVars, worldVars,
            timers, AdapterUp, BeginBackup
<1>1. PcOrder' /\ OneReset' /\ OutlivedLate' /\ OneLive' /\ ClosedHasStarted'
     /\ OneActive'
  BY DEF PcOrder, OneReset, OutlivedLate, OneLive, Live, ClosedHasStarted,
         OneActive, Quiet
<1>2. RunsStoredNetwork' /\ WritesPaired' /\ NothingWhileWriting' /\
     PairedUnlessOverlap'
  BY DEF RunsStoredNetwork, WritesPaired, NothingWhileWriting,
         BackupBeingWritten, PairedUnlessOverlap, PairedFiles
<1> QED BY <1>1, <1>2

LEMMA StartRefusedStep ==
  ASSUME NEW c \in Controllers, IInv, TypeOK', StartRefused(c)
  PROVE  IInv'
<1> USE DEF IInv, TypeOK, StoreTypeOK, Flight, NoNetwork, storeVars, worldVars,
            timers, StartRefused
<1>1. PcOrder' /\ OneReset' /\ OutlivedLate' /\ OneLive' /\ ClosedHasStarted'
     /\ OneActive'
  BY DEF PcOrder, OneReset, OutlivedLate, OneLive, Live, ClosedHasStarted,
         OneActive, Quiet
<1>2. RunsStoredNetwork' /\ WritesPaired' /\ NothingWhileWriting' /\
     PairedUnlessOverlap'
  BY DEF RunsStoredNetwork, WritesPaired, NothingWhileWriting,
         BackupBeingWritten, PairedUnlessOverlap, PairedFiles
<1> QED BY <1>1, <1>2

LEMMA StartFailsStep ==
  ASSUME NEW c \in Controllers, IInv, TypeOK', StartFails(c)
  PROVE  IInv'
<1> USE DEF IInv, TypeOK, StoreTypeOK, Flight, NoNetwork, storeVars, worldVars,
            timers, StartFails, Fault
<1>1. PcOrder' /\ OneReset' /\ OutlivedLate' /\ OneLive' /\ ClosedHasStarted'
     /\ OneActive'
  BY DEF PcOrder, OneReset, OutlivedLate, OneLive, Live, ClosedHasStarted,
         OneActive, Quiet
<1>2. RunsStoredNetwork' /\ WritesPaired' /\ NothingWhileWriting' /\
     PairedUnlessOverlap'
  BY DEF RunsStoredNetwork, WritesPaired, NothingWhileWriting,
         BackupBeingWritten, PairedUnlessOverlap, PairedFiles
<1> QED BY <1>1, <1>2

\* The answering adapter is attached, so it runs the stored network.
LEMMA FlightRadioStep ==
  ASSUME NEW c \in Controllers, IInv, TypeOK', FlightRadio(c)
  PROVE  IInv'
<1> USE DEF IInv, TypeOK, StoreTypeOK, Flight, NoNetwork, storeVars, worldVars,
            timers, FlightRadio, RadioUp
<1>1. WritesPaired' BY DEF WritesPaired, RunsStoredNetwork
<1>2. NothingWhileWriting'
  BY DEF NothingWhileWriting, BackupBeingWritten, OneActive, PcOrder, Quiet
<1>3. PcOrder' /\ OneReset' /\ OutlivedLate' /\ OneLive' /\ ClosedHasStarted'
     /\ OneActive'
  BY DEF PcOrder, OneReset, OutlivedLate, OneLive, Live, ClosedHasStarted,
         OneActive, Quiet
<1>4. RunsStoredNetwork' /\ PairedUnlessOverlap'
  BY DEF RunsStoredNetwork, PairedUnlessOverlap, PairedFiles
<1> QED BY <1>1, <1>2, <1>3, <1>4

\* What reaches the file was on its way, and so is of the stored network.
LEMMA FlightSavedStep ==
  ASSUME NEW c \in Controllers, IInv, TypeOK', FlightSaved(c)
  PROVE  IInv'
<1> USE DEF IInv, TypeOK, StoreTypeOK, Flight, NoNetwork, storeVars, worldVars,
            timers, FlightSaved, WriteBackup, Settle
<1>1. PairedUnlessOverlap'
  BY DEF PairedUnlessOverlap, PairedFiles, WritesPaired
<1>2. PcOrder' /\ OneReset' /\ OutlivedLate' /\ OneLive' /\ ClosedHasStarted'
     /\ OneActive'
  BY DEF PcOrder, OneReset, OutlivedLate, OneLive, Live, ClosedHasStarted,
         OneActive, Quiet
<1>3. RunsStoredNetwork' /\ WritesPaired' /\ NothingWhileWriting'
  BY DEF RunsStoredNetwork, WritesPaired, NothingWhileWriting,
         BackupBeingWritten
<1> QED BY <1>1, <1>2, <1>3

LEMMA FlightLostStep ==
  ASSUME NEW c \in Controllers, IInv, TypeOK', FlightLost(c)
  PROVE  IInv'
<1> USE DEF IInv, TypeOK, StoreTypeOK, Flight, NoNetwork, storeVars, worldVars,
            timers, FlightLost, FlightEnds, Settle
<1>1. PcOrder' /\ OneReset' /\ OutlivedLate' /\ OneLive' /\ ClosedHasStarted'
     /\ OneActive'
  BY DEF PcOrder, OneReset, OutlivedLate, OneLive, Live, ClosedHasStarted,
         OneActive, Quiet
<1>2. RunsStoredNetwork' /\ WritesPaired' /\ NothingWhileWriting' /\
     PairedUnlessOverlap'
  BY DEF RunsStoredNetwork, WritesPaired, NothingWhileWriting,
         BackupBeingWritten, PairedUnlessOverlap, PairedFiles
<1> QED BY <1>1, <1>2

LEMMA FlightFailsStep ==
  ASSUME NEW c \in Controllers, IInv, TypeOK', FlightFails(c)
  PROVE  IInv'
<1> USE DEF IInv, TypeOK, StoreTypeOK, Flight, NoNetwork, storeVars, worldVars,
            timers, FlightFails, FlightEnds, Settle, Fault
<1>1. PcOrder' /\ OneReset' /\ OutlivedLate' /\ OneLive' /\ ClosedHasStarted'
     /\ OneActive'
  BY DEF PcOrder, OneReset, OutlivedLate, OneLive, Live, ClosedHasStarted,
         OneActive, Quiet
<1>2. RunsStoredNetwork' /\ WritesPaired' /\ NothingWhileWriting' /\
     PairedUnlessOverlap'
  BY DEF RunsStoredNetwork, WritesPaired, NothingWhileWriting,
         BackupBeingWritten, PairedUnlessOverlap, PairedFiles
<1> QED BY <1>1, <1>2

LEMMA TopologyChangeStep ==
  ASSUME NEW c \in Controllers, IInv, TypeOK', TopologyChange(c)
  PROVE  IInv'
<1> USE DEF IInv, TypeOK, StoreTypeOK, Flight, NoNetwork, storeVars, worldVars,
            timers, TopologyChange
<1>1. PcOrder' /\ OneReset' /\ OutlivedLate' /\ OneLive' /\ ClosedHasStarted'
     /\ OneActive'
  BY DEF PcOrder, OneReset, OutlivedLate, OneLive, Live, ClosedHasStarted,
         OneActive, Quiet
<1>2. RunsStoredNetwork' /\ WritesPaired' /\ NothingWhileWriting' /\
     PairedUnlessOverlap'
  BY DEF RunsStoredNetwork, WritesPaired, NothingWhileWriting,
         BackupBeingWritten, PairedUnlessOverlap, PairedFiles
<1> QED BY <1>1, <1>2

LEMMA TopologyTimerStep ==
  ASSUME NEW c \in Controllers, IInv, TypeOK', TopologyTimer(c)
  PROVE  IInv'
<1> USE DEF IInv, TypeOK, StoreTypeOK, Flight, NoNetwork, storeVars, worldVars,
            timers, TopologyTimer, BeginBackup
<1>1. PcOrder' /\ OneReset' /\ OutlivedLate' /\ OneLive' /\ ClosedHasStarted'
     /\ OneActive'
  BY DEF PcOrder, OneReset, OutlivedLate, OneLive, Live, ClosedHasStarted,
         OneActive, Quiet
<1>2. RunsStoredNetwork' /\ WritesPaired' /\ NothingWhileWriting' /\
     PairedUnlessOverlap'
  BY DEF RunsStoredNetwork, WritesPaired, NothingWhileWriting,
         BackupBeingWritten, PairedUnlessOverlap, PairedFiles
<1> QED BY <1>1, <1>2

LEMMA DailyTimerStep ==
  ASSUME NEW c \in Controllers, IInv, TypeOK', DailyTimer(c)
  PROVE  IInv'
<1> USE DEF IInv, TypeOK, StoreTypeOK, Flight, NoNetwork, storeVars, worldVars,
            timers, DailyTimer, BeginBackup
<1>1. PcOrder' /\ OneReset' /\ OutlivedLate' /\ OneLive' /\ ClosedHasStarted'
     /\ OneActive'
  BY DEF PcOrder, OneReset, OutlivedLate, OneLive, Live, ClosedHasStarted,
         OneActive, Quiet
<1>2. RunsStoredNetwork' /\ WritesPaired' /\ NothingWhileWriting' /\
     PairedUnlessOverlap'
  BY DEF RunsStoredNetwork, WritesPaired, NothingWhileWriting,
         BackupBeingWritten, PairedUnlessOverlap, PairedFiles
<1> QED BY <1>1, <1>2

LEMMA ResetBeginStep ==
  ASSUME NEW c \in Controllers, IInv, TypeOK', ResetBegin(c)
  PROVE  IInv'
<1> USE DEF IInv, TypeOK, StoreTypeOK, Flight, NoNetwork, storeVars, worldVars,
            timers, ResetBegin
<1>1. PcOrder' /\ OneReset' /\ OutlivedLate' /\ OneLive' /\ ClosedHasStarted'
     /\ OneActive'
  BY DEF PcOrder, OneReset, OutlivedLate, OneLive, Live, ClosedHasStarted,
         OneActive, Quiet
<1>2. RunsStoredNetwork' /\ WritesPaired' /\ NothingWhileWriting' /\
     PairedUnlessOverlap'
  BY DEF RunsStoredNetwork, WritesPaired, NothingWhileWriting,
         BackupBeingWritten, PairedUnlessOverlap, PairedFiles
<1> QED BY <1>1, <1>2

\* The backup is gone; a write still under way is what overlap records.
LEMMA ResetRemoveStep ==
  ASSUME NEW c \in Controllers, IInv, TypeOK', ResetRemove(c)
  PROVE  IInv'
<1> USE DEF IInv, TypeOK, StoreTypeOK, Flight, NoNetwork, storeVars, worldVars,
            timers, ResetRemove, RemoveBackup, CreateNetwork, NoBackup
<1>1. PcOrder' /\ OneReset' /\ OutlivedLate' /\ OneLive' /\ ClosedHasStarted'
     /\ OneActive'
  BY DEF PcOrder, OneReset, OutlivedLate, OneLive, Live, ClosedHasStarted,
         OneActive, Quiet
<1>2. RunsStoredNetwork' /\ WritesPaired' /\ NothingWhileWriting' /\
     PairedUnlessOverlap'
  BY DEF RunsStoredNetwork, WritesPaired, NothingWhileWriting,
         BackupBeingWritten, PairedUnlessOverlap, PairedFiles
<1> QED BY <1>1, <1>2

\* The only step that changes one network for another.
LEMMA ResetWriteStep ==
  ASSUME NEW c \in Controllers, IInv, TypeOK', ResetWrite(c)
  PROVE  IInv'
<1> USE DEF IInv, TypeOK, StoreTypeOK, Flight, NoNetwork, storeVars, worldVars,
            timers, ResetWrite, WriteNetwork
<1>1. OutlivedLate' BY DEF OutlivedLate, PcOrder
<1>2. RunsStoredNetwork' BY DEF RunsStoredNetwork, OneActive, PcOrder, Quiet
<1>3. WritesPaired'
  BY DEF WritesPaired, NothingWhileWriting, BackupBeingWritten
<1>4. PairedUnlessOverlap'
  BY DEF PairedUnlessOverlap, PairedFiles, NothingWhileWriting
<1>5. PcOrder' /\ OneReset' /\ OneLive' /\ ClosedHasStarted' /\ OneActive'
  BY DEF PcOrder, OneReset, OneLive, Live, ClosedHasStarted, OneActive, Quiet
<1>6. NothingWhileWriting' BY DEF NothingWhileWriting, BackupBeingWritten
<1> QED BY <1>1, <1>2, <1>3, <1>4, <1>5, <1>6

LEMMA ResetAdapterUpStep ==
  ASSUME NEW c \in Controllers, IInv, TypeOK', ResetAdapterUp(c)
  PROVE  IInv'
<1> USE DEF IInv, TypeOK, StoreTypeOK, Flight, NoNetwork, storeVars, worldVars,
            timers, ResetAdapterUp, BeginBackup
<1>1. PcOrder' /\ OneReset' /\ OutlivedLate' /\ OneLive' /\ ClosedHasStarted'
     /\ OneActive'
  BY DEF PcOrder, OneReset, OutlivedLate, OneLive, Live, ClosedHasStarted,
         OneActive, Quiet
<1>2. RunsStoredNetwork' /\ WritesPaired' /\ NothingWhileWriting' /\
     PairedUnlessOverlap'
  BY DEF RunsStoredNetwork, WritesPaired, NothingWhileWriting,
         BackupBeingWritten, PairedUnlessOverlap, PairedFiles
<1> QED BY <1>1, <1>2

LEMMA ResetRefusedStep ==
  ASSUME NEW c \in Controllers, IInv, TypeOK', ResetRefused(c)
  PROVE  IInv'
<1> USE DEF IInv, TypeOK, StoreTypeOK, Flight, NoNetwork, storeVars, worldVars,
            timers, ResetRefused
<1>1. PcOrder' /\ OneReset' /\ OutlivedLate' /\ OneLive' /\ ClosedHasStarted'
     /\ OneActive'
  BY DEF PcOrder, OneReset, OutlivedLate, OneLive, Live, ClosedHasStarted,
         OneActive, Quiet
<1>2. RunsStoredNetwork' /\ WritesPaired' /\ NothingWhileWriting' /\
     PairedUnlessOverlap'
  BY DEF RunsStoredNetwork, WritesPaired, NothingWhileWriting,
         BackupBeingWritten, PairedUnlessOverlap, PairedFiles
<1> QED BY <1>1, <1>2

LEMMA ResetFailsStep ==
  ASSUME NEW c \in Controllers, IInv, TypeOK', ResetFails(c)
  PROVE  IInv'
<1> USE DEF IInv, TypeOK, StoreTypeOK, Flight, NoNetwork, storeVars, worldVars,
            timers, ResetFails, Fault
<1>1. PcOrder' /\ OneReset' /\ OutlivedLate' /\ OneLive' /\ ClosedHasStarted'
     /\ OneActive'
  BY DEF PcOrder, OneReset, OutlivedLate, OneLive, Live, ClosedHasStarted,
         OneActive, Quiet
<1>2. RunsStoredNetwork' /\ WritesPaired' /\ NothingWhileWriting' /\
     PairedUnlessOverlap'
  BY DEF RunsStoredNetwork, WritesPaired, NothingWhileWriting,
         BackupBeingWritten, PairedUnlessOverlap, PairedFiles
<1> QED BY <1>1, <1>2

LEMMA AbandonStartStep ==
  ASSUME NEW c \in Controllers, IInv, TypeOK', AbandonStart(c)
  PROVE  IInv'
<1> USE DEF IInv, TypeOK, StoreTypeOK, Flight, NoNetwork, storeVars, worldVars,
            timers, AbandonStart, DestroyNow, StopTimers
<1>1. PcOrder' /\ OneReset' /\ OutlivedLate' /\ OneLive' /\ ClosedHasStarted'
     /\ OneActive'
  BY DEF PcOrder, OneReset, OutlivedLate, OneLive, Live, ClosedHasStarted,
         OneActive, Quiet
<1>2. RunsStoredNetwork' /\ WritesPaired' /\ NothingWhileWriting' /\
     PairedUnlessOverlap'
  BY DEF RunsStoredNetwork, WritesPaired, NothingWhileWriting,
         BackupBeingWritten, PairedUnlessOverlap, PairedFiles
<1> QED BY <1>1, <1>2

\* Its reset, if it has one, is now nobody's: Spawn is what makes it outlive.
LEMMA AbandonReadyStep ==
  ASSUME NEW c \in Controllers, IInv, TypeOK', AbandonReady(c)
  PROVE  IInv'
<1> USE DEF IInv, TypeOK, StoreTypeOK, Flight, NoNetwork, storeVars, worldVars,
            timers, AbandonReady, DestroyNow, StopTimers, Fault
<1>1. PcOrder' /\ OneReset' /\ OutlivedLate' /\ OneLive' /\ ClosedHasStarted'
     /\ OneActive'
  BY DEF PcOrder, OneReset, OutlivedLate, OneLive, Live, ClosedHasStarted,
         OneActive, Quiet
<1>2. RunsStoredNetwork' /\ WritesPaired' /\ NothingWhileWriting' /\
     PairedUnlessOverlap'
  BY DEF RunsStoredNetwork, WritesPaired, NothingWhileWriting,
         BackupBeingWritten, PairedUnlessOverlap, PairedFiles
<1> QED BY <1>1, <1>2

LEMMA NotReadyStep ==
  ASSUME NEW c \in Controllers, IInv, TypeOK', NotReady(c)
  PROVE  IInv'
<1> USE DEF IInv, TypeOK, StoreTypeOK, Flight, NoNetwork, storeVars, worldVars,
            timers, NotReady
<1>1. PcOrder' /\ OneReset' /\ OutlivedLate' /\ OneLive' /\ ClosedHasStarted'
     /\ OneActive'
  BY DEF PcOrder, OneReset, OutlivedLate, OneLive, Live, ClosedHasStarted,
         OneActive, Quiet
<1>2. RunsStoredNetwork' /\ WritesPaired' /\ NothingWhileWriting' /\
     PairedUnlessOverlap'
  BY DEF RunsStoredNetwork, WritesPaired, NothingWhileWriting,
         BackupBeingWritten, PairedUnlessOverlap, PairedFiles
<1> QED BY <1>1, <1>2

LEMMA LinkLostStep ==
  ASSUME NEW c \in Controllers, IInv, TypeOK', LinkLost(c)
  PROVE  IInv'
<1> USE DEF IInv, TypeOK, StoreTypeOK, Flight, NoNetwork, storeVars, worldVars,
            timers, LinkLost, DestroyNow, StopTimers, Fault
<1>1. PcOrder' /\ OneReset' /\ OutlivedLate' /\ OneLive' /\ ClosedHasStarted'
     /\ OneActive'
  BY DEF PcOrder, OneReset, OutlivedLate, OneLive, Live, ClosedHasStarted,
         OneActive, Quiet
<1>2. RunsStoredNetwork' /\ WritesPaired' /\ NothingWhileWriting' /\
     PairedUnlessOverlap'
  BY DEF RunsStoredNetwork, WritesPaired, NothingWhileWriting,
         BackupBeingWritten, PairedUnlessOverlap, PairedFiles
<1> QED BY <1>1, <1>2

LEMMA AbandonResetStep ==
  ASSUME NEW c \in Controllers, IInv, TypeOK', AbandonReset(c)
  PROVE  IInv'
<1> USE DEF IInv, TypeOK, StoreTypeOK, Flight, NoNetwork, storeVars, worldVars,
            timers, AbandonReset, DestroyNow, StopTimers
<1>1. ClosedHasStarted' BY DEF ClosedHasStarted, PcOrder, OneActive, Quiet
<1>2. PcOrder' /\ OneReset' /\ OutlivedLate' /\ OneLive' /\ OneActive'
  BY DEF PcOrder, OneReset, OutlivedLate, OneLive, Live, OneActive, Quiet
<1>3. RunsStoredNetwork' /\ WritesPaired' /\ NothingWhileWriting' /\
     PairedUnlessOverlap'
  BY DEF RunsStoredNetwork, WritesPaired, NothingWhileWriting,
         BackupBeingWritten, PairedUnlessOverlap, PairedFiles
<1> QED BY <1>1, <1>2, <1>3

LEMMA ShutdownStep ==
  ASSUME NEW c \in Controllers, IInv, TypeOK', Shutdown(c)
  PROVE  IInv'
<1> USE DEF IInv, TypeOK, StoreTypeOK, Flight, NoNetwork, storeVars, worldVars,
            timers, Shutdown, DestroyNow, DestroyWithBackup, StopTimers,
            BeginBackup, Fault
<1>1. PcOrder' /\ OneReset' /\ OutlivedLate' /\ OneLive' /\ ClosedHasStarted'
     /\ OneActive'
  BY DEF PcOrder, OneReset, OutlivedLate, OneLive, Live, ClosedHasStarted,
         OneActive, Quiet
<1>2. RunsStoredNetwork' /\ WritesPaired' /\ NothingWhileWriting' /\
     PairedUnlessOverlap'
  BY DEF RunsStoredNetwork, WritesPaired, NothingWhileWriting,
         BackupBeingWritten, PairedUnlessOverlap, PairedFiles
<1> QED BY <1>1, <1>2

LEMMA CloseTimeoutStep ==
  ASSUME NEW c \in Controllers, IInv, TypeOK', CloseTimeout(c)
  PROVE  IInv'
<1> USE DEF IInv, TypeOK, StoreTypeOK, Flight, NoNetwork, storeVars, worldVars,
            timers, CloseTimeout
<1>1. PcOrder' /\ OneReset' /\ OutlivedLate' /\ OneLive' /\ ClosedHasStarted'
     /\ OneActive'
  BY DEF PcOrder, OneReset, OutlivedLate, OneLive, Live, ClosedHasStarted,
         OneActive, Quiet
<1>2. RunsStoredNetwork' /\ WritesPaired' /\ NothingWhileWriting' /\
     PairedUnlessOverlap'
  BY DEF RunsStoredNetwork, WritesPaired, NothingWhileWriting,
         BackupBeingWritten, PairedUnlessOverlap, PairedFiles
<1> QED BY <1>1, <1>2

-----------------------------------------------------------------------------

LEMMA RebootStep ==
  ASSUME IInv, TypeOK', Reboot
  PROVE  IInv'
<1> USE DEF IInv, TypeOK, StoreTypeOK, NoNetwork, Reboot, storeVars
<1>1. \A c \in Controllers : Quiet(c)' /\ adapter'[c] = NoNetwork
  BY DEF Quiet
<1>2. PcOrder' /\ OneReset' /\ OutlivedLate' /\ OneLive'
  BY <1>1 DEF PcOrder, OneReset, OutlivedLate, OneLive, Live
<1>3. ClosedHasStarted' /\ OneActive' /\ RunsStoredNetwork'
  BY <1>1 DEF ClosedHasStarted, OneActive, Quiet, RunsStoredNetwork
<1>4. WritesPaired' /\ NothingWhileWriting' /\ PairedUnlessOverlap'
  BY DEF WritesPaired, NothingWhileWriting, PairedUnlessOverlap, PairedFiles
<1> QED BY <1>2, <1>3, <1>4

LEMMA StutterStep ==
  ASSUME IInv, UNCHANGED vars
  PROVE  IInv'
BY DEF IInv, TypeOK, StoreTypeOK, PcOrder, OneReset, OutlivedLate, OneLive, Live,
       ClosedHasStarted, OneActive, Quiet, RunsStoredNetwork, WritesPaired,
       NothingWhileWriting, BackupBeingWritten,
       PairedUnlessOverlap, PairedFiles, vars, storeVars, ctrlVars, worldVars, timers

LEMMA InvInit == Init => IInv
<1> SUFFICES ASSUME Init PROVE IInv OBVIOUS
<1>1. TypeOK BY TypeInit
<1>2. PcOrder /\ OneReset /\ OutlivedLate /\ OneLive /\ ClosedHasStarted /\ OneActive
  BY DEF Init, StoreInit, PcOrder, OneReset, OutlivedLate, OneLive, Live,
         ClosedHasStarted, OneActive, Quiet
<1>3. RunsStoredNetwork /\ WritesPaired /\ NothingWhileWriting
  BY DEF Init, StoreInit, RunsStoredNetwork, WritesPaired, NothingWhileWriting
<1>4. PairedUnlessOverlap
  BY DEF Init, StoreInit, PairedUnlessOverlap, PairedFiles, NoBackup
<1> QED BY <1>1, <1>2, <1>3, <1>4 DEF IInv

LEMMA InvStep == IInv /\ [Next]_vars => IInv'
<1> SUFFICES ASSUME IInv, [Next]_vars PROVE IInv' OBVIOUS
<1>0. TypeOK' BY TypeStep DEF IInv
<1>1. ASSUME NEW c \in Controllers, ControllerStep(c) PROVE IInv'
  BY <1>0, <1>1, SpawnStep, LoadExistingStep, LoadMissingStep, FormWriteStep,
     AdapterUpStep, StartRefusedStep, StartFailsStep, FlightRadioStep,
     FlightSavedStep, FlightLostStep, FlightFailsStep, TopologyChangeStep,
     TopologyTimerStep, DailyTimerStep, ResetBeginStep, ResetRemoveStep,
     ResetWriteStep, ResetAdapterUpStep, ResetRefusedStep, ResetFailsStep,
     AbandonStartStep, AbandonReadyStep, NotReadyStep, LinkLostStep,
     AbandonResetStep, ShutdownStep, CloseTimeoutStep
     DEF ControllerStep, StartStep, FlightStep, ResetStep
<1>2. ASSUME Exit \/ Crash PROVE IInv'
  BY <1>0, <1>2, RebootStep DEF Exit, Crash
<1>3. ASSUME UNCHANGED vars PROVE IInv'
  BY <1>3, StutterStep
<1> QED BY <1>1, <1>2, <1>3 DEF Next

LEMMA Invariance == Spec => []IInv
BY InvInit, InvStep, PTL DEF Spec

\* The order of resetNetwork(): whatever crashes, failed resets, late writes of
\* destroyed controllers and shutdowns come between, a new network.json is
\* never on disk with the backup of another network, unless a reset overtook
\* the writing of a backup or, after a half-ready start, the making of the next
\* controller.
THEOREM FilesPaired == Spec => []PairedUnlessOverlap
<1>1. IInv => PairedUnlessOverlap BY DEF IInv
<1> QED BY <1>1, Invariance, PTL

\* No controller drives the radio on a network other than the stored one, as
\* long as no reset outlives its controller.
THEOREM StoredNetworkRuns == Spec => []RunsStoredNetwork
<1>1. IInv => RunsStoredNetwork BY DEF IInv
<1> QED BY <1>1, Invariance, PTL

\* A network, once stored, is replaced by resets only: at the write of a first
\* network no network.json can have appeared since it was looked for.
THEOREM NetworkKept == Spec => NetworkOnlyReset
<1> DEFINE A == networkJson' # networkJson =>
                  \/ networkJson = NoNetwork
                  \/ \E c \in Controllers : reset[c] = "write"
<1>1. ASSUME IInv, [Next]_vars PROVE [A]_vars
  <2>1. ASSUME NEW c \in Controllers, ControllerStep(c) PROVE A
    <3>1. CASE FormWrite(c) BY <1>1, <3>1 DEF FormWrite, IInv, PcOrder
    <3>2. CASE ResetWrite(c) BY <3>2 DEF ResetWrite
    <3>3. CASE ~FormWrite(c) /\ ~ResetWrite(c)
      <4>1. UNCHANGED networkJson
        BY <2>1, <3>3
           DEF ControllerStep, StartStep, FlightStep, ResetStep, storeVars, Spawn,
               LoadExisting, LoadMissing, AdapterUp, StartRefused, StartFails,
               FlightRadio, FlightSaved, FlightLost, FlightFails, FlightEnds,
               TopologyChange, TopologyTimer, DailyTimer, ResetBegin,
               ResetRemove, ResetAdapterUp, ResetRefused, ResetFails,
               AbandonStart, AbandonReady, NotReady, LinkLost, AbandonReset,
               Shutdown, CloseTimeout
      <4> QED BY <4>1
    <3> QED BY <3>1, <3>2, <3>3
  <2>2. ASSUME Exit \/ Crash PROVE A BY <2>2 DEF Exit, Crash, Reboot, storeVars
  <2> QED BY <1>1, <2>1, <2>2 DEF Next
<1> QED BY <1>1, Invariance, PTL DEF Spec, NetworkOnlyReset

-----------------------------------------------------------------------------
(* The order of the writes.  That a backup only improves needs to know how *)
(* the flights of several controllers stand to each other and to the file. *)

\* No flight and no file holds a node table of the future.
NothingNewer ==
  /\ backupJson.topology <= topology
  /\ \A c \in Controllers : \A f \in flights[c] : f.topology <= topology

\* writeBackup() joins the flight there is, and a controller never started
\* has none.
SingleFlight ==
  \A c \in Controllers :
    /\ \A f, g \in flights[c] : f = g
    /\ phase[c] = "unborn" => flights[c] = {}

\* A flight that may still reach the file: it has left the radio, or its
\* controller still has one.  (A reset that goes on after its controller was
\* destroyed may begin a flight on an adapter that is about to be stopped.)
Open(c) == close[c] \in {"none", "final"}

Reaches(c, f) == f.stage = "write" \/ Open(c)

\* The flight of the undestroyed controller began after all the left-over
\* ones of destroyed controllers that may still reach the file.
LeftOversAreOlder ==
  \A c, d \in Controllers :
    c # d /\ close[c] = "none" =>
      \A f \in flights[c], g \in flights[d] :
        Reaches(d, g) => g.topology <= f.topology

\* ... and is not behind the file.
NotBehindTheFile ==
  \A c \in Controllers :
    close[c] = "none" =>
      \A f \in flights[c] :
        f.network = backupJson.network => backupJson.topology <= f.topology

\* A file that is not there is older than nothing.
NoBackupIsBlank == backupJson.network = NoNetwork => backupJson.topology = 0

WriteOrder ==
  /\ NothingNewer
  /\ SingleFlight
  /\ LeftOversAreOlder
  /\ NotBehindTheFile
  /\ NoBackupIsBlank

\* Steps that begin no flight: each flight of the next state goes on from one of
\* this state, or was it; no destroyed controller comes back.
FlightsGoOn ==
  \A c \in Controllers : \A g \in flights'[c] : \E f \in flights[c] :
    /\ f.network = g.network /\ f.topology = g.topology
    /\ Reaches(c, g)' => Reaches(c, f)

NoneRevived ==
  \A c \in Controllers :
    /\ close'[c] = "none" => close[c] = "none" \/ flights'[c] = {}
    /\ Open(c)' => Open(c) \/ flights'[c] = {}
    /\ phase'[c] = "unborn" => phase[c] = "unborn"

LEMMA GoOnStep ==
  ASSUME IInv, TypeOK', WriteOrder, FlightsGoOn, NoneRevived,
         SingleFlight',
         topology <= topology',
         backupJson' = backupJson \/ backupJson' = NoBackup
  PROVE  WriteOrder'
<1> USE DEF FlightsGoOn, NoneRevived, WriteOrder
<1>0. topology \in Nat /\ topology' \in Nat /\ backupJson \in Backup /\
      \A c \in Controllers : flights[c] \subseteq Flight /\ flights'[c] \subseteq Flight
  BY DEF IInv, TypeOK, StoreTypeOK
<1>1. NothingNewer'
  <2>1. backupJson'.topology <= topology'
    BY <1>0 DEF NothingNewer, NoBackup, Backup
  <2>2. ASSUME NEW c \in Controllers, NEW g \in flights'[c]
        PROVE  g.topology <= topology'
    <3>1. PICK f \in flights[c] : f.topology = g.topology OBVIOUS
    <3>2. f.topology <= topology BY DEF NothingNewer
    <3>3. f.topology \in Nat BY <1>0 DEF Flight
    <3> QED BY <1>0, <3>1, <3>2, <3>3
  <2> QED BY <2>1, <2>2 DEF NothingNewer
<1>2. LeftOversAreOlder'
  <2> SUFFICES ASSUME NEW c \in Controllers, NEW d \in Controllers, c # d,
                      close'[c] = "none", NEW f \in flights'[c], NEW g \in flights'[d],
                      Reaches(d, g)'
               PROVE  g.topology <= f.topology
    BY DEF LeftOversAreOlder, Reaches, Open
  <2>1. PICK f0 \in flights[c] : f0.topology = f.topology OBVIOUS
  <2>2. PICK g0 \in flights[d] : g0.topology = g.topology /\ Reaches(d, g0)
    OBVIOUS
  <2>3. close[c] = "none" OBVIOUS
  <2> QED BY <2>1, <2>2, <2>3 DEF LeftOversAreOlder
<1>3. NotBehindTheFile'
  <2> SUFFICES ASSUME NEW c \in Controllers, close'[c] = "none", NEW f \in flights'[c],
                      f.network = backupJson'.network
               PROVE  backupJson'.topology <= f.topology
    BY DEF NotBehindTheFile
  <2>1. PICK f0 \in flights[c] : f0.network = f.network /\ f0.topology = f.topology
    OBVIOUS
  <2>2. close[c] = "none" OBVIOUS
  <2>3. CASE backupJson' = backupJson
    BY <2>1, <2>2, <2>3 DEF NotBehindTheFile
  <2>4. CASE backupJson' = NoBackup
    <3>1. f.network # NoNetwork BY <1>0 DEF Flight
    <3> QED BY <2>4, <3>1 DEF NoBackup
  <2> QED BY <2>3, <2>4
<1>4. NoBackupIsBlank' BY DEF NoBackupIsBlank, NoBackup
<1> QED BY <1>1, <1>2, <1>3, <1>4

\* The same, when the flights shrink or stay: one flight stays one flight.
LEMMA ShrinkStep ==
  ASSUME IInv, TypeOK', WriteOrder, NoneRevived,
         \A c \in Controllers : flights'[c] \subseteq flights[c],
         topology <= topology',
         backupJson' = backupJson \/ backupJson' = NoBackup
  PROVE  WriteOrder'
<1>1. FlightsGoOn BY DEF FlightsGoOn, NoneRevived, Reaches
<1>2. SingleFlight' BY DEF SingleFlight, NoneRevived, WriteOrder
<1> QED BY <1>1, <1>2, GoOnStep

\* writeBackup() reads the node table of this moment, which nothing exceeds.  No
\* other undestroyed controller has a flight then, unless the new one belongs to
\* a destroyed controller: it will not reach the file.
LEMMA BeginStep ==
  ASSUME NEW c \in Controllers, IInv, TypeOK', WriteOrder, NoneRevived,
         BeginBackup(c, adapter[c]), UNCHANGED <<topology, backupJson>>
  PROVE  WriteOrder'
<1>1. CASE adapter[c] = NoNetwork \/ flights[c] # {}
  <2>1. flights' = flights BY <1>1 DEF BeginBackup
  <2>2. topology <= topology' BY DEF IInv, TypeOK
  <2> QED BY <2>1, <2>2, ShrinkStep
<1>2. CASE adapter[c] # NoNetwork /\ flights[c] = {}
  <2> DEFINE new == [stage |-> "radio", network |-> adapter[c], topology |-> topology]
  <2>1. flights' = [flights EXCEPT ![c] = {new}] BY <1>2 DEF BeginBackup
  <2>2. flights \in [Controllers -> SUBSET Flight] BY DEF IInv, TypeOK
  <2>3. flights'[c] = {new} /\ \A d \in Controllers : d # c => flights'[d] = flights[d]
    BY <2>1, <2>2
  <2>4. phase[c] # "unborn" BY <1>2 DEF IInv, PcOrder
  <2>5. topology \in Nat BY DEF IInv, TypeOK
  <2> HIDE DEF new
  <2>6. new.topology = topology /\ new.network = adapter[c] BY DEF new
  <2>7. new.stage = "radio" BY DEF new
  <2>8. ASSUME Open(c), NEW d \in Controllers, close[d] = "none", d # c
        PROVE  flights[d] = {}
    BY <2>4, <2>8 DEF IInv, OneLive, Live, Open, WriteOrder, SingleFlight
  <2>9. NothingNewer' BY <2>3, <2>5, <2>6 DEF NothingNewer, WriteOrder
  <2>10. SingleFlight' BY <2>3, <2>4 DEF SingleFlight, NoneRevived, WriteOrder
  <2>11. LeftOversAreOlder'
    <3> SUFFICES ASSUME NEW d \in Controllers, NEW e \in Controllers, d # e,
                        close'[d] = "none", NEW f \in flights'[d], NEW g \in flights'[e],
                        Reaches(e, g)'
                 PROVE  g.topology <= f.topology
      BY DEF LeftOversAreOlder, Reaches, Open
    <3>1. CASE d = c
      <4>1. f.topology = topology BY <3>1, <2>3, <2>6
      <4>2. g \in flights[e] BY <3>1, <2>3
      <4> QED BY <4>1, <4>2 DEF NothingNewer, WriteOrder
    <3>2. CASE d # c
      <4>1. f \in flights[d] BY <3>2, <2>3
      <4>2. close[d] = "none" BY <4>1, <3>2, <2>3 DEF NoneRevived
      <4>3. CASE e = c
        <5>1. g = new BY <4>3, <2>3
        <5>2. Open(c) BY <4>3, <5>1, <2>3, <2>7 DEF Reaches, NoneRevived
        <5> QED BY <4>1, <4>2, <5>2, <3>2, <2>8
      <4>4. CASE e # c
        <5>1. g \in flights[e] BY <4>4, <2>3
        <5>2. Reaches(e, g) BY <5>1, <4>4, <2>3 DEF Reaches, NoneRevived
        <5> QED BY <4>1, <4>2, <5>1, <5>2 DEF LeftOversAreOlder, WriteOrder
      <4> QED BY <4>3, <4>4
    <3> QED BY <3>1, <3>2
  <2>12. NotBehindTheFile'
    <3> SUFFICES ASSUME NEW d \in Controllers, close'[d] = "none", NEW f \in flights'[d],
                        f.network = backupJson.network
                 PROVE  backupJson.topology <= f.topology
      BY DEF NotBehindTheFile
    <3>1. CASE d = c BY <3>1, <2>3, <2>6 DEF NothingNewer, WriteOrder
    <3>2. CASE d # c
      BY <3>2, <2>3 DEF NotBehindTheFile, NoneRevived, WriteOrder
    <3> QED BY <3>1, <3>2
  <2>13. NoBackupIsBlank' BY DEF NoBackupIsBlank, WriteOrder
  <2> QED BY <2>9, <2>10, <2>11, <2>12, <2>13 DEF WriteOrder
<1> QED BY <1>1, <1>2

\* The file takes the table of a flight: the undestroyed controller's own is
\* then over, and a left-over one is no newer than the flight that goes on.
LEMMA SavedStep ==
  ASSUME NEW c \in Controllers, IInv, TypeOK', WriteOrder, FlightSaved(c)
  PROVE  WriteOrder'
<1>1. PICK f \in flights[c] :
        /\ f.stage = "write"
        /\ backupJson' = [network |-> f.network, topology |-> f.topology]
        /\ flights' = [flights EXCEPT ![c] = @ \ {f}]
  BY DEF FlightSaved, WriteBackup
<1>2. topology' = topology BY DEF FlightSaved, worldVars
<1>3. flights \in [Controllers -> SUBSET Flight] BY DEF IInv, TypeOK
<1>4. f \in Flight BY <1>3
<1>5. flights'[c] = {} /\ \A d \in Controllers : d # c => flights'[d] = flights[d]
  BY <1>1, <1>3 DEF SingleFlight, WriteOrder
<1>6. NoneRevived
  <2>1. Settle(c, "running", "none") BY DEF FlightSaved
  <2>2. close \in [Controllers -> Closes] /\ phase \in [Controllers -> Phases]
    BY DEF IInv, TypeOK
  <2>3. \A d \in Controllers : /\ close'[d] = "none" => close[d] = "none"
                               /\ Open(d)' => Open(d)
    BY <2>1, <2>2 DEF Settle, Open
  <2>4. \A d \in Controllers : phase'[d] = "unborn" => phase[d] = "unborn"
    BY <2>1, <2>2 DEF Settle
  <2> QED BY <2>3, <2>4 DEF NoneRevived
<1>7. backupJson'.network = f.network /\ backupJson'.topology = f.topology BY <1>1
<1>8. NothingNewer' BY <1>2, <1>5, <1>7 DEF NothingNewer, WriteOrder
<1>9. SingleFlight' BY <1>5, <1>6 DEF SingleFlight, NoneRevived, WriteOrder
<1>10. LeftOversAreOlder'
  BY <1>5, <1>6 DEF LeftOversAreOlder, Reaches, NoneRevived, WriteOrder
<1>11. NotBehindTheFile'
  <2> SUFFICES ASSUME NEW d \in Controllers, close'[d] = "none", NEW g \in flights'[d]
               PROVE  f.topology <= g.topology
    BY <1>7 DEF NotBehindTheFile
  <2>1. d # c /\ g \in flights[d] BY <1>5
  <2>2. close[d] = "none" BY <1>6 DEF NoneRevived
  <2> QED BY <1>1, <2>1, <2>2 DEF LeftOversAreOlder, Reaches, WriteOrder
<1>12. NoBackupIsBlank' BY <1>4, <1>7 DEF NoBackupIsBlank, Flight
<1> QED BY <1>8, <1>9, <1>10, <1>11, <1>12 DEF WriteOrder

LEMMA RadioStep ==
  ASSUME NEW c \in Controllers, IInv, TypeOK', WriteOrder, FlightRadio(c)
  PROVE  WriteOrder'
<1>1. PICK f \in flights[c] :
        /\ RadioUp(c)
        /\ flights' = [flights EXCEPT ![c] =
                         (@ \ {f}) \cup {[f EXCEPT !.stage = "write"]}]
  BY DEF FlightRadio
<1> DEFINE on == [f EXCEPT !.stage = "write"]
<1>2. flights \in [Controllers -> SUBSET Flight] /\ topology \in Nat
  BY DEF IInv, TypeOK
<1>3. f \in Flight BY <1>2
<1>4. on.network = f.network /\ on.topology = f.topology BY <1>3 DEF Flight
<1>5. UNCHANGED <<phase, close, topology, backupJson>>
  BY DEF FlightRadio, storeVars, worldVars
<1> HIDE DEF on
<1>6. flights'[c] = {on} /\ \A d \in Controllers : d # c => flights'[d] = flights[d]
  BY <1>1, <1>2 DEF SingleFlight, WriteOrder, on
<1>11. Open(c) BY <1>1 DEF RadioUp, Open, IInv, TypeOK, PcOrder, Closes
<1>7. FlightsGoOn BY <1>4, <1>5, <1>6, <1>11 DEF FlightsGoOn, Reaches, Open
<1>8. NoneRevived BY <1>5 DEF NoneRevived, Open
<1>9. SingleFlight' BY <1>5, <1>6 DEF SingleFlight, WriteOrder
<1>10. topology <= topology' BY <1>2, <1>5
<1> QED BY <1>5, <1>7, <1>8, <1>9, <1>10, GoOnStep

LEMMA WriteOrderStep == IInv /\ WriteOrder /\ [Next]_vars => WriteOrder'
<1> SUFFICES ASSUME IInv, WriteOrder, [Next]_vars PROVE WriteOrder' OBVIOUS
<1>0. TypeOK' BY TypeStep DEF IInv
<1>t. /\ topology \in Nat
      /\ close \in [Controllers -> Closes]
      /\ phase \in [Controllers -> Phases]
      /\ flights \in [Controllers -> SUBSET Flight]
  BY DEF IInv, TypeOK
<1> USE DEF timers, storeVars, worldVars
\* start(), and what leaves flights and file alone.
<1>1. ASSUME NEW c \in Controllers,
             \/ Spawn(c) \/ LoadExisting(c) \/ LoadMissing(c) \/ FormWrite(c)
             \/ StartRefused(c) \/ StartFails(c) \/ TopologyChange(c)
             \/ ResetBegin(c) \/ ResetWrite(c) \/ ResetRefused(c)
             \/ ResetFails(c) \/ CloseTimeout(c) \/ NotReady(c)
      PROVE  WriteOrder'
  <2>1. UNCHANGED <<flights, backupJson>>
    BY <1>1 DEF Spawn, LoadExisting, LoadMissing, FormWrite, StartRefused, StartFails,
                TopologyChange, ResetBegin, ResetWrite, ResetRefused, ResetFails,
                CloseTimeout, NotReady
  <2>2. topology <= topology'
    <3>1. topology' = topology \/ topology' = topology + 1
      BY <1>1 DEF Spawn, LoadExisting, LoadMissing, FormWrite, StartRefused,
                  StartFails, TopologyChange, ResetBegin, ResetWrite, ResetRefused,
                  ResetFails, CloseTimeout, NotReady
    <3> QED BY <3>1, <1>t
  <2>3. \A d \in Controllers : /\ close'[d] = "none" => close[d] = "none"
                               /\ Open(d)' => Open(d)
    BY <1>1, <1>t DEF Spawn, LoadExisting, LoadMissing, FormWrite, StartRefused,
                StartFails, TopologyChange, ResetBegin, ResetWrite, ResetRefused,
                ResetFails, CloseTimeout, NotReady, Open
  <2>4. \A d \in Controllers : phase'[d] = "unborn" => phase[d] = "unborn"
    BY <1>1, <1>t DEF Spawn, LoadExisting, LoadMissing, FormWrite, StartRefused,
                StartFails, TopologyChange, ResetBegin, ResetWrite, ResetRefused,
                ResetFails, CloseTimeout, NotReady
  <2>5. NoneRevived BY <2>3, <2>4 DEF NoneRevived
  <2> QED BY <1>0, <2>1, <2>2, <2>5, ShrinkStep
<1>2. ASSUME NEW c \in Controllers, ResetRemove(c) PROVE WriteOrder'
  <2>1. backupJson' = NoBackup /\ UNCHANGED <<flights, phase, close, topology>>
    BY <1>2 DEF ResetRemove, RemoveBackup
  <2> QED BY <1>0, <1>t, <2>1, ShrinkStep DEF NoneRevived, Open
\* Timers, adapters that are up, and the final backup.
<1>3. ASSUME NEW c \in Controllers,
             \/ AdapterUp(c) \/ TopologyTimer(c) \/ DailyTimer(c)
             \/ ResetAdapterUp(c)
      PROVE  WriteOrder'
  <2>1. BeginBackup(c, adapter[c]) /\ UNCHANGED <<topology, backupJson, close>>
    BY <1>3 DEF AdapterUp, TopologyTimer, DailyTimer, ResetAdapterUp
  <2>2. \A d \in Controllers : phase'[d] = "unborn" => phase[d] = "unborn"
    BY <1>3, <1>t DEF AdapterUp, TopologyTimer, DailyTimer, ResetAdapterUp
  <2> QED BY <1>0, <2>1, <2>2, BeginStep DEF NoneRevived, Open
<1>4. ASSUME NEW c \in Controllers, NEW at, DestroyNow(c, at) \/ DestroyWithBackup(c),
             at \in {"dropped", "done"}, UNCHANGED <<phase, topology, backupJson>>
      PROVE  WriteOrder'
  <2>1. \A d \in Controllers : /\ close'[d] = "none" => close[d] = "none"
                               /\ Open(d)' => Open(d)
    BY <1>4, <1>t DEF DestroyNow, DestroyWithBackup, StopTimers, Open
  <2>2. NoneRevived BY <1>4, <2>1 DEF NoneRevived
  <2>3. CASE DestroyNow(c, at)
    <3>1. UNCHANGED flights BY <2>3 DEF DestroyNow
    <3> QED BY <1>0, <1>4, <1>t, <2>2, <3>1, ShrinkStep
  <2>4. CASE DestroyWithBackup(c)
    BY <1>0, <1>4, <2>2, <2>4, BeginStep DEF DestroyWithBackup
  <2> QED BY <1>4, <2>3, <2>4
<1>5. ASSUME NEW c \in Controllers,
             \/ AbandonStart(c) \/ AbandonReady(c) \/ LinkLost(c)
             \/ AbandonReset(c) \/ Shutdown(c)
      PROVE  WriteOrder'
  <2>1. UNCHANGED <<phase, topology, backupJson>>
    BY <1>5 DEF AbandonStart, AbandonReady, LinkLost, AbandonReset, Shutdown
  <2>2. CASE \E d \in Controllers : \E at \in {"dropped", "done"} :
               DestroyNow(d, at) \/ DestroyWithBackup(d)
    BY <1>4, <2>1, <2>2
  <2>3. CASE /\ close' = [d \in Controllers |->
                            IF close[d] = "dropped" THEN "done" ELSE close[d]]
             /\ UNCHANGED flights
    <3>1. NoneRevived BY <1>t, <2>1, <2>3 DEF NoneRevived, Open
    <3> QED BY <1>0, <1>t, <2>1, <2>3, <3>1, ShrinkStep
  <2> QED BY <1>5, <2>2, <2>3
          DEF AbandonStart, AbandonReady, LinkLost, AbandonReset, Shutdown
<1>6. ASSUME NEW c \in Controllers, NEW f \in flights[c], FlightEnds(c, f)
      PROVE  WriteOrder'
  <2>1. UNCHANGED <<topology, backupJson>> BY <1>6 DEF FlightEnds
  <2>2. \A d \in Controllers : flights'[d] \subseteq flights[d]
    BY <1>6, <1>t DEF FlightEnds
  <2>3. \A d \in Controllers : /\ close'[d] = "none" => close[d] = "none"
                               /\ Open(d)' => Open(d)
    BY <1>6, <1>t DEF FlightEnds, Settle, Open
  <2>4. \A d \in Controllers : phase'[d] = "unborn" => phase[d] = "unborn"
    BY <1>6, <1>t DEF FlightEnds, Settle
  <2> QED BY <1>0, <1>t, <2>1, <2>2, <2>3, <2>4, ShrinkStep DEF NoneRevived
<1>7. ASSUME NEW c \in Controllers, FlightStep(c) \/ FlightFails(c) PROVE WriteOrder'
  BY <1>0, <1>6, <1>7, RadioStep, SavedStep DEF FlightStep, FlightLost, FlightFails
<1>8. ASSUME Exit \/ Crash PROVE WriteOrder'
  <2>1. Reboot BY <1>8 DEF Exit, Crash
  <2>2. UNCHANGED <<topology, backupJson>> BY <2>1 DEF Reboot
  <2>3. \A c \in Controllers : flights'[c] = {} BY <2>1 DEF Reboot
  <2>4. \A c \in Controllers : phase'[c] = "unborn" => phase[c] = "unborn"
    BY <2>1 DEF Reboot
  <2>5. NoneRevived BY <2>3, <2>4 DEF NoneRevived
  <2> QED BY <1>0, <1>t, <2>2, <2>3, <2>5, ShrinkStep
<1>9. ASSUME UNCHANGED vars PROVE WriteOrder'
  <2>1. UNCHANGED <<flights, backupJson, topology, phase, close>>
    BY <1>9 DEF vars, ctrlVars
  <2> QED BY <1>0, <1>t, <2>1, ShrinkStep DEF NoneRevived, Open
<1>10. ASSUME NEW c \in Controllers, ControllerStep(c) PROVE WriteOrder'
  BY <1>1, <1>2, <1>3, <1>5, <1>7, <1>10 DEF ControllerStep, StartStep, ResetStep
<1> QED BY <1>8, <1>9, <1>10 DEF Next

LEMMA WriteOrderInit == Init => WriteOrder
BY DEF Init, StoreInit, NoBackup, WriteOrder, NothingNewer, SingleFlight,
       LeftOversAreOlder, NotBehindTheFile, NoBackupIsBlank

\* The single flight orders the writes of a controller: only the left-over
\* write of a destroyed one can put an older node table into the file, however
\* the timers, resets, crashes and shutdowns of all of them interleave.
THEOREM BackupsImprove == Spec => []BackupOnlyImproves
<1> DEFINE A == Older(backupJson', backupJson) =>
                  \E c \in Controllers : close[c] # "none" /\ flights'[c] # flights[c]
           J == IInv /\ WriteOrder
<1>1. Init => J BY InvInit, WriteOrderInit
<1>2. J /\ [Next]_vars => J' BY InvStep, WriteOrderStep
<1>3. ASSUME J, [Next]_vars PROVE [A]_vars
  <2>0. backupJson \in Backup /\ flights \in [Controllers -> SUBSET Flight]
    BY <1>3 DEF IInv, TypeOK, StoreTypeOK
  <2>1. ASSUME UNCHANGED backupJson PROVE A
    BY <2>0, <2>1 DEF Older, Backup
  <2>2. ASSUME NEW c \in Controllers, ControllerStep(c) PROVE A
    <3>1. CASE FlightSaved(c)
      <4>1. PICK f \in flights[c] :
              /\ backupJson' = [network |-> f.network, topology |-> f.topology]
              /\ flights' = [flights EXCEPT ![c] = @ \ {f}]
        BY <3>1 DEF FlightSaved, WriteBackup
      <4>2. f \in Flight BY <2>0
      <4>3. flights'[c] # flights[c] BY <2>0, <4>1
      <4>4. CASE close[c] = "none"
        <5>1. f.network = backupJson.network => backupJson.topology <= f.topology
          BY <1>3, <4>4 DEF WriteOrder, NotBehindTheFile
        <5> QED BY <2>0, <4>1, <4>2, <5>1 DEF Older, Backup, Flight
      <4>5. CASE close[c] # "none" BY <4>3, <4>5
      <4> QED BY <4>4, <4>5
    <3>2. CASE ResetRemove(c)
      <4>1. backupJson' = NoBackup BY <3>2 DEF ResetRemove, RemoveBackup
      <4> QED BY <1>3, <2>0, <4>1
              DEF WriteOrder, NoBackupIsBlank, NoBackup, Older, Backup
    <3>3. CASE ~FlightSaved(c) /\ ~ResetRemove(c)
      <4>1. UNCHANGED backupJson
        BY <2>2, <3>3
           DEF ControllerStep, StartStep, FlightStep, ResetStep, storeVars, Spawn,
               LoadExisting, LoadMissing, FormWrite, AdapterUp, StartRefused,
               StartFails, FlightRadio, FlightLost, FlightFails, FlightEnds,
               TopologyChange, TopologyTimer, DailyTimer, ResetBegin,
               ResetWrite, ResetAdapterUp, ResetRefused, ResetFails,
               AbandonStart, AbandonReady, NotReady, LinkLost, AbandonReset,
               Shutdown, CloseTimeout
      <4> QED BY <2>1, <4>1
    <3> QED BY <3>1, <3>2, <3>3
  <2>3. ASSUME Exit \/ Crash PROVE A
    BY <2>1, <2>3 DEF Exit, Crash, Reboot, storeVars
  <2> QED BY <1>3, <2>2, <2>3 DEF Next
<1> QED BY <1>1, <1>2, <1>3, PTL DEF Spec, BackupOnlyImproves

-----------------------------------------------------------------------------
(* The refinement of DurableNetwork.  A network is stored for the first     *)
(* time in the order the networks were made, which needs that the one being *)
(* written is newer than the stored one; and a flight begins on the stored  *)
(* network, which is RunsStoredNetwork, or on an earlier one (NewIsNewest).    *)

\* A network that is made and not yet stored is the newest of all, and none is
\* run before it is stored.
NewIsNewest ==
  /\ networkJson <= issued
  /\ \A c \in Controllers : adapter[c] <= networkJson
  /\ \A c \in Controllers :
       phase[c] = "form" \/ reset[c] = "write" => networkJson < issued

LEMMA NewIsNewestInit == Init => NewIsNewest
BY DEF Init, StoreInit, NoNetwork, NewIsNewest

LEMMA NewIsNewestStep == IInv /\ NewIsNewest /\ [Next]_vars => NewIsNewest'
<1> SUFFICES ASSUME IInv, NewIsNewest, [Next]_vars PROVE NewIsNewest' OBVIOUS
<1>t. /\ networkJson \in Nat /\ issued \in Nat
      /\ phase \in [Controllers -> Phases]
      /\ reset \in [Controllers -> Resets]
      /\ adapter \in [Controllers -> Nat]
  BY DEF IInv, TypeOK, StoreTypeOK
<1>1. ASSUME UNCHANGED networkJson, issued' = issued \/ issued' = issued + 1,
             \A c \in Controllers :
               /\ phase'[c] = "form" => phase[c] = "form" \/ issued' = issued + 1
               /\ reset'[c] = "write" => reset[c] = "write" \/ issued' = issued + 1
               /\ adapter'[c] \in {adapter[c], NoNetwork, networkJson}
      PROVE  NewIsNewest'
  BY <1>t, <1>1 DEF NewIsNewest, NoNetwork
\* The newest network is stored: nobody else has one to store.
<1>2. ASSUME NEW c \in Controllers, FormWrite(c) PROVE NewIsNewest'
  <2>1. networkJson' = issued /\ issued' = issued /\ reset' = reset
        /\ phase' = [phase EXCEPT ![c] = "adapter"]
        /\ adapter' = [adapter EXCEPT ![c] = issued]
    BY <1>2 DEF FormWrite, WriteNetwork
  <2>2. \A d \in Controllers : phase'[d] # "form" /\ reset'[d] # "write"
    BY <1>2, <1>t, <2>1 DEF FormWrite, IInv, OneActive, OutlivedLate,
                              PcOrder, Quiet
  <2>3. \A d \in Controllers : adapter'[d] <= networkJson'
    BY <1>2, <1>t, <2>1 DEF FormWrite, NewIsNewest
  <2> QED BY <1>t, <2>1, <2>2, <2>3 DEF NewIsNewest
<1>3. ASSUME NEW c \in Controllers, ResetWrite(c) PROVE NewIsNewest'
  <2>1. networkJson' = issued /\ issued' = issued /\ phase' = phase
        /\ reset' = [reset EXCEPT ![c] = "adapter"]
        /\ adapter' = [adapter EXCEPT ![c] = issued]
    BY <1>3 DEF ResetWrite, WriteNetwork
  <2>2. \A d \in Controllers : phase'[d] # "form" /\ reset'[d] # "write"
    BY <1>3, <1>t, <2>1 DEF ResetWrite, IInv, OneReset, PcOrder
  <2>3. \A d \in Controllers : adapter'[d] <= networkJson'
    BY <1>3, <1>t, <2>1 DEF ResetWrite, NewIsNewest
  <2> QED BY <1>t, <2>1, <2>2, <2>3 DEF NewIsNewest
<1>4. ASSUME NEW c \in Controllers, StartStep(c) \/ Spawn(c) \/ StartFails(c),
             ~FormWrite(c)
      PROVE  NewIsNewest'
  BY <1>1, <1>4, <1>t
     DEF StartStep, Spawn, LoadExisting, LoadMissing, CreateNetwork, AdapterUp,
         StartRefused, StartFails, storeVars
<1>5. ASSUME NEW c \in Controllers, ResetStep(c) \/ ResetBegin(c) \/ ResetFails(c),
             ~ResetWrite(c)
      PROVE  NewIsNewest'
  BY <1>1, <1>5, <1>t
     DEF ResetStep, ResetBegin, ResetRemove, RemoveBackup, CreateNetwork,
         ResetAdapterUp, ResetRefused, ResetFails, storeVars
<1>6. ASSUME NEW c \in Controllers, FlightStep(c) \/ FlightFails(c) PROVE NewIsNewest'
  BY <1>1, <1>6, <1>t
     DEF FlightStep, FlightRadio, FlightSaved, FlightLost, FlightFails, FlightEnds,
         Settle, storeVars
<1>7. ASSUME NEW c \in Controllers,
             \/ TopologyChange(c) \/ TopologyTimer(c) \/ DailyTimer(c)
             \/ AbandonStart(c) \/ AbandonReady(c) \/ NotReady(c)
             \/ LinkLost(c) \/ AbandonReset(c) \/ Shutdown(c) \/ CloseTimeout(c)
      PROVE  NewIsNewest'
  <2>1. ASSUME NEW d \in Controllers, NEW at,
               DestroyNow(d, at) \/ DestroyWithBackup(d)
        PROVE  \A e \in Controllers : adapter'[e] \in {adapter[e], NoNetwork}
    BY <1>t, <2>1 DEF DestroyNow, DestroyWithBackup
  <2>2. \A e \in Controllers : adapter'[e] \in {adapter[e], NoNetwork}
    BY <1>7, <1>t, <2>1
       DEF TopologyChange, TopologyTimer, DailyTimer, AbandonStart, AbandonReady,
           NotReady, LinkLost, AbandonReset, Shutdown, CloseTimeout
  <2>3. /\ UNCHANGED <<networkJson, issued, phase>>
        /\ \A d \in Controllers : reset'[d] = "write" => reset[d] = "write"
    BY <1>7, <1>t
       DEF TopologyChange, TopologyTimer, DailyTimer, AbandonStart, AbandonReady,
           NotReady, LinkLost, AbandonReset, Shutdown, CloseTimeout, storeVars
  <2> QED BY <1>1, <2>2, <2>3
<1>8. CASE Exit \/ Crash
  BY <1>1, <1>8, <1>t DEF Exit, Crash, Reboot, storeVars
<1>9. CASE UNCHANGED vars BY <1>1, <1>9 DEF vars, ctrlVars, storeVars
<1> QED
  BY <1>2, <1>3, <1>4, <1>5, <1>6, <1>7, <1>8, <1>9 DEF Next, ControllerStep

durableVars == <<networkJson, backupJson, topology, Moments, outlived>>

\* A moment is being backed up when a flight of some controller holds it.
LEMMA InMoments ==
  /\ \A b : b \in Moments <=> \E d \in Controllers : \E f \in flights[d] : b = Moment(f)
  /\ \A b : b \in Moments' <=> \E d \in Controllers : \E f \in flights'[d] : b = Moment(f)
<1>1. \A b : b \in Moments <=> \E d \in Controllers : \E f \in flights[d] : b = Moment(f)
  BY DEF Moments
<1>2. \A b : b \in Moments' <=> \E d \in Controllers : \E f \in flights'[d] : b = Moment(f)
  BY DEF Moments, Moment
<1> QED BY <1>1, <1>2

\* When the flights of one controller alone change, so do their moments alone.
LEMMA OneControllerMoments ==
  ASSUME NEW c \in Controllers, NEW S, NEW T,
         flights \in [Controllers -> SUBSET Flight],
         flights' = [flights EXCEPT ![c] = S],
         T = {Moment(f) : f \in S},
         \A f \in flights[c] : Moment(f) \in T
  PROVE  Moments' = Moments \cup T
<1>1. flights'[c] = S /\ \A d \in Controllers \ {c} : flights'[d] = flights[d]
  OBVIOUS
<1>2. ASSUME NEW b, b \in Moments' PROVE b \in Moments \cup T
  BY <1>1, <1>2, InMoments
<1>3. ASSUME NEW b, b \in Moments \cup T PROVE b \in Moments'
  BY <1>1, <1>3, InMoments
<1> QED BY <1>2, <1>3

\* A flight begins with the node table of this moment, and with its network
\* unless a reset has outlived its controller: then maybe with an earlier one.
LEMMA BeginIsSnapshot ==
  ASSUME IInv, NewIsNewest, NEW c \in Controllers, BeginBackup(c, adapter[c]),
         UNCHANGED <<networkJson, backupJson, topology, outlived>>
  PROVE  Durable!Snapshot \/ UNCHANGED durableVars
<1>1. flights \in [Controllers -> SUBSET Flight] BY DEF IInv, TypeOK
<1>2. CASE adapter[c] = NoNetwork \/ flights[c] # {}
  BY <1>2 DEF BeginBackup, Moments, durableVars
<1>3. CASE adapter[c] # NoNetwork /\ flights[c] = {}
  <2> DEFINE new == [stage |-> "radio", network |-> adapter[c], topology |-> topology]
             b == [network |-> adapter[c], topology |-> topology]
  <2>1. /\ adapter[c] \in 1 .. networkJson
        /\ ~outlived => adapter[c] = networkJson
    BY <1>3 DEF IInv, RunsStoredNetwork, NewIsNewest, TypeOK, StoreTypeOK, NoNetwork
  <2>2. flights' = [flights EXCEPT ![c] = {new}] BY <1>3 DEF BeginBackup
  <2>3. Moment(new) = b BY DEF Moment
  <2> HIDE DEF new, b
  <2>4. {b} = {Moment(f) : f \in {new}} BY <2>3
  <2>5. Moments' = Moments \cup {b} BY <1>1, <1>3, <2>2, <2>4, OneControllerMoments
  <2>6. Moments' = Moments \cup {[network |-> adapter[c], topology |-> topology]}
    BY <2>5 DEF b
  <2> QED BY <2>1, <2>6 DEF Durable!Snapshot
<1> QED BY <1>2, <1>3

\* Flights that end take nothing else with them.
LEMMA EndIsLoss ==
  ASSUME \A c \in Controllers : flights'[c] \subseteq flights[c],
         UNCHANGED <<networkJson, backupJson, topology, outlived>>
  PROVE  Durable!Lose
BY InMoments DEF Durable!Lose

\* The radio's answer changes the stage of a flight, not its moment.
LEMMA RadioIsStutter ==
  ASSUME IInv, NEW c \in Controllers, FlightRadio(c)
  PROVE  UNCHANGED durableVars
<1>1. PICK f \in flights[c] :
        flights' = [flights EXCEPT ![c] = (@ \ {f}) \cup {[f EXCEPT !.stage = "write"]}]
  BY DEF FlightRadio
<1> DEFINE on == [f EXCEPT !.stage = "write"]
           S == (flights[c] \ {f}) \cup {on}
           T == {Moment(g) : g \in S}
<1>2. flights \in [Controllers -> SUBSET Flight] BY DEF IInv, TypeOK
<1>3. Moment(on) = Moment(f) BY <1>1, <1>2 DEF Flight, Moment
<1> HIDE DEF on
<1>4. flights' = [flights EXCEPT ![c] = S] BY <1>1 DEF on
<1>5. \A g \in flights[c] : Moment(g) \in T BY <1>3
<1>6. \A b \in T : b \in Moments BY <1>1, <1>3, InMoments
<1> HIDE DEF S
<1>7. T = {Moment(g) : g \in S} OBVIOUS
<1> HIDE DEF T
<1>8. Moments' = Moments \cup T BY <1>2, <1>4, <1>5, <1>7, OneControllerMoments
<1>9. Moments' = Moments BY <1>6, <1>8
<1> QED BY <1>9 DEF FlightRadio, storeVars, worldVars, durableVars

\* The file takes the moment of the flight, as it was when the flight began.
LEMMA SavedIsSave ==
  ASSUME IInv, NEW c \in Controllers, FlightSaved(c)
  PROVE  Durable!Save
<1>1. PICK f \in flights[c] :
        /\ backupJson' = Moment(f)
        /\ flights' = [flights EXCEPT ![c] = @ \ {f}]
  BY DEF FlightSaved, WriteBackup, Moment
<1>2. flights \in [Controllers -> SUBSET Flight] BY DEF IInv, TypeOK
<1>3. Moment(f) \in Moments BY <1>1, InMoments
<1>4. \A d \in Controllers : flights'[d] \subseteq flights[d] BY <1>1, <1>2
<1>5. \A d \in Controllers : flights[d] \subseteq flights'[d] \cup {f}
  BY <1>1, <1>2
<1>6. \A b \in Moments' : b \in Moments BY <1>4, InMoments
<1>7. \A b \in Moments : b = Moment(f) \/ b \in Moments' BY <1>5, InMoments
<1>8. Moments' \in {Moments, Moments \ {Moment(f)}} BY <1>6, <1>7
<1>9. UNCHANGED <<networkJson, topology, outlived>> BY DEF FlightSaved, worldVars
<1> QED BY <1>1, <1>3, <1>8, <1>9 DEF Durable!Save

LEMMA DurableStep ==
  ASSUME IInv, NewIsNewest, [Next]_vars
  PROVE  Durable!Next \/ UNCHANGED durableVars
<1>t. /\ networkJson \in Nat /\ issued \in Nat /\ topology \in Nat
      /\ flights \in [Controllers -> SUBSET Flight] /\ outlived \in BOOLEAN
  BY DEF IInv, TypeOK, StoreTypeOK
<1> DEFINE Goal == Durable!Next \/ UNCHANGED durableVars
<1>1. ASSUME UNCHANGED <<networkJson, backupJson, topology, flights, outlived>> PROVE Goal
  BY <1>1 DEF durableVars, Moments
<1>2. ASSUME NEW c \in Controllers, BeginBackup(c, adapter[c]),
             UNCHANGED <<networkJson, backupJson, topology, outlived>>
      PROVE  Goal
  BY <1>2, BeginIsSnapshot DEF Durable!Next
<1>3. ASSUME \A c \in Controllers : flights'[c] \subseteq flights[c],
             UNCHANGED <<networkJson, backupJson, topology, outlived>>
      PROVE  Goal
  BY <1>3, EndIsLoss DEF Durable!Next
<1>4. ASSUME NEW c \in Controllers, FormWrite(c) \/ ResetWrite(c) PROVE Goal
  <2>1. networkJson' = issued /\ UNCHANGED <<backupJson, topology, flights, outlived>>
    BY <1>4 DEF FormWrite, ResetWrite, WriteNetwork, worldVars
  <2>2. networkJson < issued BY <1>4 DEF FormWrite, ResetWrite, NewIsNewest
  <2>3. Durable!Replace BY <1>t, <2>1, <2>2 DEF Durable!Replace, Moments
  <2> QED BY <2>3 DEF Durable!Next
<1>5. ASSUME NEW c \in Controllers,
             \/ LoadExisting(c) \/ LoadMissing(c) \/ StartRefused(c)
             \/ StartFails(c) \/ ResetBegin(c) \/ ResetRefused(c) \/ ResetFails(c)
             \/ CloseTimeout(c) \/ NotReady(c)
      PROVE  Goal
  BY <1>1, <1>5
     DEF LoadExisting, LoadMissing, StartRefused, StartFails, ResetBegin,
         ResetRefused, ResetFails, CloseTimeout, NotReady, storeVars, worldVars
<1>6. ASSUME NEW c \in Controllers,
             \/ AdapterUp(c) \/ TopologyTimer(c) \/ DailyTimer(c) \/ ResetAdapterUp(c)
      PROVE  Goal
  BY <1>2, <1>6
     DEF AdapterUp, TopologyTimer, DailyTimer, ResetAdapterUp, storeVars, worldVars
<1>7. ASSUME NEW c \in Controllers, TopologyChange(c) PROVE Goal
  <2>1. Durable!Change BY <1>7 DEF TopologyChange, storeVars, Durable!Change, Moments
  <2> QED BY <2>1 DEF Durable!Next
<1>8. ASSUME NEW c \in Controllers, ResetRemove(c) PROVE Goal
  <2>1. Durable!Remove BY <1>8 DEF ResetRemove, RemoveBackup, Durable!Remove, Moments
  <2> QED BY <2>1 DEF Durable!Next
<1>9. ASSUME NEW c \in Controllers,
             \/ AbandonStart(c) \/ AbandonReady(c) \/ LinkLost(c)
             \/ AbandonReset(c) \/ Shutdown(c)
      PROVE  Goal
  <2>1. UNCHANGED <<networkJson, backupJson, topology, outlived>>
    BY <1>9 DEF AbandonStart, AbandonReady, LinkLost, AbandonReset, Shutdown,
                storeVars, worldVars
  <2>2. UNCHANGED flights \/ BeginBackup(c, adapter[c])
    BY <1>9 DEF AbandonStart, AbandonReady, LinkLost, AbandonReset, Shutdown,
                DestroyNow, DestroyWithBackup
  <2> QED BY <1>1, <1>2, <2>1, <2>2
<1>10. ASSUME NEW c \in Controllers, FlightStep(c) \/ FlightFails(c) PROVE Goal
  <2>1. ASSUME NEW f \in flights[c], FlightEnds(c, f) PROVE Goal
    BY <1>3, <1>t, <2>1 DEF FlightEnds, storeVars
  <2> QED
    BY <1>10, <2>1, RadioIsStutter, SavedIsSave
       DEF FlightStep, FlightLost, FlightFails, Durable!Next
<1>11. ASSUME Exit \/ Crash PROVE Goal
  <2>1. UNCHANGED <<networkJson, backupJson, topology, outlived>>
    BY <1>11 DEF Exit, Crash, Reboot, storeVars
  <2>2. \A c \in Controllers : flights'[c] \subseteq flights[c]
    BY <1>11 DEF Exit, Crash, Reboot
  <2> QED BY <1>3, <2>1, <2>2
<1>12. ASSUME NEW c \in Controllers, Spawn(c) PROVE Goal
  <2>1. UNCHANGED <<networkJson, backupJson, topology, flights>>
    BY <1>12 DEF Spawn, storeVars
  <2>2. CASE outlived' = outlived BY <1>1, <2>1, <2>2
  <2>3. CASE outlived' # outlived
    <3>1. outlived' = TRUE BY <1>12, <1>t, <2>3 DEF Spawn
    <3>2. Durable!Outlive BY <2>1, <3>1 DEF Durable!Outlive, Moments
    <3> QED BY <3>2 DEF Durable!Next
  <2> QED BY <2>2, <2>3
<1>13. CASE UNCHANGED vars
  BY <1>1, <1>13 DEF vars, storeVars, ctrlVars, worldVars
<1>14. ASSUME NEW c \in Controllers, ControllerStep(c) PROVE Goal
  BY <1>4, <1>5, <1>6, <1>7, <1>8, <1>9, <1>10, <1>12, <1>14
     DEF ControllerStep, StartStep, ResetStep
<1> QED BY <1>11, <1>13, <1>14 DEF Next

\* The controllers implement DurableNetwork: every step, of whichever
\* controller, is one of its steps or leaves the files' promise alone.
THEOREM ImplementsDurableNetwork == Spec => KeepsOneMoment
<1>1. Init => Durable!Init
  <2>1. Init => Moments = {} BY DEF Init, Moments
  <2> QED BY <2>1 DEF Init, StoreInit, Durable!Init
<1>2. IInv /\ NewIsNewest /\ [Next]_vars
        => [Durable!Next]_<<networkJson, backupJson, topology, Moments, outlived>>
  BY DurableStep DEF durableVars
<1>3. Init => IInv /\ NewIsNewest BY InvInit, NewIsNewestInit
<1>4. IInv /\ NewIsNewest /\ [Next]_vars => (IInv /\ NewIsNewest)'
  BY InvStep, NewIsNewestStep
<1> QED BY <1>1, <1>2, <1>3, <1>4, PTL DEF Spec, KeepsOneMoment, Durable!Spec
=============================================================================
