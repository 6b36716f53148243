-------------------------- MODULE BackupLifecycle ---------------------------
(***************************************************************************)
(* Who writes the coordinator's files, and when: the controllers of        *)
(* HomeyEmberController.mts over the store of RadioStore.mts.              *)
(*                                                                         *)
(* One controller runs up to three asynchronous calls at once, and each    *)
(* has its own program counter:                                            *)
(*   phase  start():    load, form, adapter, backup, running / failed      *)
(*   reset  _reset():   stop, write, adapter, backup, none / failed        *)
(*   close  _destroy(): final (backup under way), dropped (destroyed while *)
(*                      zigbee_ready is still set), done                   *)
(* while timers and the radio's join and leave events call writeBackup().  *)
(* The manager keeps one undestroyed controller at a time and makes the    *)
(* next one when the last is destroyed, although calls of the last, its    *)
(* reset too, may still be under way; EmberManager models how.             *)
(* Users ask for one reset at a time.                                      *)
(***************************************************************************)
EXTENDS RadioStore, FiniteSets

CONSTANTS Controllers,    \* the controllers this machine will ever create
          MaxTopology,    \* bound: joins and leaves
          MaxFaults       \* bound: crashes, shutdowns, lost links, failed calls

ASSUME BoundsAssumption == MaxTopology \in Nat /\ MaxFaults \in Nat

VARIABLES
  phase,      \* where start() is
  adapter,    \* this.adapter, named by the network it runs; NoNetwork = undefined
  flights,    \* the writeBackup() bodies that have not settled
  reset,      \* where _reset() is
  close,      \* where _destroy() is; destroyed is close # "none"
  timer,      \* this.backupTimeout is set
  interval,   \* this.backupInterval is set
  topology,   \* version of the node table: one more at each join or leave
  faults,     \* faults so far
  exiting,    \* onUninit() has been called
  overlap,    \* history: a reset removed the backup while a write of one was
              \* under way
  outlived    \* history: a reset outlived its controller, and the manager made
              \* the next one before it settled

timers == <<timer, interval>>
ctrlVars == <<phase, adapter, flights, reset, close, timers>>
worldVars == <<topology, faults, exiting, overlap, outlived>>
vars == <<storeVars, ctrlVars, worldVars>>

Phases == {"unborn", "load", "form", "adapter", "backup", "running", "failed"}
Resets == {"none", "stop", "write", "adapter", "backup", "failed"}
Closes == {"none", "final", "dropped", "done"}
Flight == [stage : {"radio", "write"}, network : Nat \ {NoNetwork}, topology : Nat]

Init ==
  /\ StoreInit
  /\ phase = [c \in Controllers |-> "unborn"]
  /\ adapter = [c \in Controllers |-> NoNetwork]
  /\ flights = [c \in Controllers |-> {}]
  /\ reset = [c \in Controllers |-> "none"]
  /\ close = [c \in Controllers |-> "none"]
  /\ timer = [c \in Controllers |-> FALSE]
  /\ interval = [c \in Controllers |-> FALSE]
  /\ topology = 0
  /\ faults = 0
  /\ exiting = FALSE
  /\ overlap = FALSE
  /\ outlived = FALSE

Fault ==
  /\ faults < MaxFaults
  /\ faults' = faults + 1

-----------------------------------------------------------------------------
(* The mutants of this module are slips in the operator that follows each. *)

\* Mutant: does not look whether there is an adapter.
BeginBackupBlind(c, a) ==
  flights' = IF flights[c] # {} THEN flights
             ELSE [flights EXCEPT ![c] =
                     {[stage |-> "radio", network |-> a, topology |-> topology]}]

\* Mutant: does not look whether a backup is in flight.
BeginBackupAgain(c, a) ==
  flights' = IF a = NoNetwork THEN flights
             ELSE [flights EXCEPT ![c] = @ \cup
                     {[stage |-> "radio", network |-> a, topology |-> topology]}]

(* writeBackup(): nothing without an adapter; join the flight there is, or *)
(* begin one on this adapter with the node table of this moment.           *)

BeginBackup(c, a) ==
  flights' = IF a = NoNetwork \/ flights[c] # {} THEN flights
             ELSE [flights EXCEPT ![c] =
                     {[stage |-> "radio", network |-> a, topology |-> topology]}]

\* The radio answers backup() only on an adapter that has started.
RadioUp(c) ==
  /\ adapter[c] # NoNetwork
  /\ phase[c] \in {"backup", "running"}
  /\ reset[c] \in {"none", "backup", "failed"}

FlightRadio(c) ==
  /\ \E f \in flights[c] :
       /\ f.stage = "radio"
       /\ RadioUp(c)
       /\ adapter[c] = f.network
       /\ flights' = [flights EXCEPT ![c] =
                        (@ \ {f}) \cup {[f EXCEPT !.stage = "write"]}]
  /\ UNCHANGED <<storeVars, phase, adapter, reset, close, timers, worldVars>>

\* Mutant: start() does not set the daily interval.
SettleWithoutInterval(c, started, resetDone) ==
  /\ phase' = [phase EXCEPT ![c] = IF @ = "backup" THEN started ELSE @]
  /\ reset' = [reset EXCEPT ![c] = IF @ = "backup" THEN resetDone ELSE @]
  /\ close' = [close EXCEPT ![c] = IF @ = "final" THEN "dropped" ELSE @]
  /\ adapter' = [adapter EXCEPT ![c] = IF close[c] = "final" THEN NoNetwork ELSE @]
  /\ UNCHANGED interval

\* What start(), _reset() and _destroy() do when the flight they await settles.
Settle(c, started, resetDone) ==
  /\ phase' = [phase EXCEPT ![c] = IF @ = "backup" THEN started ELSE @]
  /\ interval' = [interval EXCEPT ![c] =
                    @ \/ (phase[c] = "backup" /\ started = "running")]
  /\ reset' = [reset EXCEPT ![c] = IF @ = "backup" THEN resetDone ELSE @]
  /\ close' = [close EXCEPT ![c] = IF @ = "final" THEN "dropped" ELSE @]
  /\ adapter' = [adapter EXCEPT ![c] = IF close[c] = "final" THEN NoNetwork ELSE @]

\* Mutant: the node table is read when the file is written.
FlightSavedLateTable(c) ==
  /\ \E f \in flights[c] :
       /\ f.stage = "write"
       /\ WriteBackup([network |-> f.network, topology |-> topology])
       /\ flights' = [flights EXCEPT ![c] = @ \ {f}]
  /\ Settle(c, "running", "none")
  /\ UNCHANGED <<networkJson, issued, timer, worldVars>>

FlightSaved(c) ==
  /\ \E f \in flights[c] :
       /\ f.stage = "write"
       /\ WriteBackup([network |-> f.network, topology |-> f.topology])
       /\ flights' = [flights EXCEPT ![c] = @ \ {f}]
  /\ Settle(c, "running", "none")
  /\ UNCHANGED <<networkJson, issued, timer, worldVars>>

FlightEnds(c, f) ==
  /\ flights' = [flights EXCEPT ![c] = @ \ {f}]
  /\ Settle(c, "failed", "failed")
  /\ UNCHANGED <<storeVars, timer, topology, exiting, overlap,
                 outlived>>

\* The adapter the flight asked was stopped or replaced before it answered.
FlightLost(c) ==
  /\ \E f \in flights[c] :
       /\ f.stage = "radio"
       /\ adapter[c] # f.network
       /\ FlightEnds(c, f)
  /\ UNCHANGED faults

\* The radio refuses the backup, or its file cannot be written.
FlightFails(c) ==
  /\ \E f \in flights[c] : FlightEnds(c, f)
  /\ Fault

FlightStep(c) == FlightRadio(c) \/ FlightSaved(c) \/ FlightLost(c)

-----------------------------------------------------------------------------
(* start()                                                                 *)

Live(c) == phase[c] # "unborn" /\ close[c] # "done"

\* The start loop makes a controller and calls start(); nobody looks whether
\* the reset of the one before has settled.
Spawn(c) ==
  /\ phase[c] = "unborn"
  /\ ~exiting
  /\ \A d \in Controllers : ~Live(d)
  /\ phase' = [phase EXCEPT ![c] = "load"]
  /\ outlived' = (outlived \/ \E d \in Controllers : reset[d] # "none")
  /\ UNCHANGED <<storeVars, adapter, flights, reset, close, timers, topology,
                 faults, exiting, overlap>>

LoadExisting(c) ==
  /\ phase[c] = "load"
  /\ networkJson # NoNetwork
  /\ adapter' = [adapter EXCEPT ![c] = networkJson]
  /\ phase' = [phase EXCEPT ![c] = "adapter"]
  /\ UNCHANGED <<storeVars, flights, reset, close, timers, worldVars>>

\* Mutant: any error reading network.json is taken for ENOENT.
LoadUnreadable(c) ==
  /\ phase[c] = "load"
  /\ CreateNetwork
  /\ phase' = [phase EXCEPT ![c] = "form"]
  /\ UNCHANGED <<networkJson, backupJson, adapter, flights, reset, close,
                 timers, worldVars>>

LoadMissing(c) ==
  /\ phase[c] = "load"
  /\ networkJson = NoNetwork
  /\ CreateNetwork
  /\ phase' = [phase EXCEPT ![c] = "form"]
  /\ UNCHANGED <<networkJson, backupJson, adapter, flights, reset, close,
                 timers, worldVars>>

FormWrite(c) ==
  /\ phase[c] = "form"
  /\ WriteNetwork(issued)
  /\ adapter' = [adapter EXCEPT ![c] = issued]
  /\ phase' = [phase EXCEPT ![c] = "adapter"]
  /\ UNCHANGED <<backupJson, issued, flights, reset, close, timers, worldVars>>

AdapterUp(c) ==
  /\ phase[c] = "adapter"
  /\ close[c] = "none"
  /\ phase' = [phase EXCEPT ![c] = "backup"]
  /\ BeginBackup(c, adapter[c])
  /\ UNCHANGED <<storeVars, adapter, reset, close, timers, worldVars>>

\* startAdapter() finds its controller destroyed, and stops the adapter.
StartRefused(c) ==
  /\ phase[c] = "adapter"
  /\ close[c] # "none"
  /\ phase' = [phase EXCEPT ![c] = "failed"]
  /\ adapter' = [adapter EXCEPT ![c] = NoNetwork]
  /\ UNCHANGED <<storeVars, flights, reset, close, timers, worldVars>>

\* The file cannot be read or written, or the adapter does not start.
StartFails(c) ==
  /\ phase[c] \in {"load", "form", "adapter"}
  /\ Fault
  /\ phase' = [phase EXCEPT ![c] = "failed"]
  /\ adapter' = [adapter EXCEPT ![c] = NoNetwork]
  /\ UNCHANGED <<storeVars, flights, reset, close, timers, topology, exiting,
                 overlap, outlived>>

StartStep(c) == \/ LoadExisting(c) \/ LoadMissing(c) \/ FormWrite(c)
                \/ AdapterUp(c) \/ StartRefused(c)

-----------------------------------------------------------------------------
(* Joins and leaves, and the two timers that write a backup.               *)

\* onDeviceJoined(), onDeviceLeave(): restart the 30 s timer.
TopologyChange(c) ==
  /\ adapter[c] # NoNetwork
  /\ topology < MaxTopology
  /\ topology' = topology + 1
  /\ timer' = [timer EXCEPT ![c] = TRUE]
  /\ UNCHANGED <<storeVars, phase, adapter, flights, reset, close, interval,
                 faults, exiting, overlap, outlived>>

TopologyTimer(c) ==
  /\ timer[c]
  /\ timer' = [timer EXCEPT ![c] = FALSE]
  /\ BeginBackup(c, adapter[c])
  /\ UNCHANGED <<storeVars, phase, adapter, reset, close, interval, worldVars>>

DailyTimer(c) ==
  /\ interval[c]
  /\ BeginBackup(c, adapter[c])
  /\ UNCHANGED <<storeVars, phase, adapter, reset, close, timers, worldVars>>

-----------------------------------------------------------------------------
(* _reset()                                                                *)

\* The adapter is detached at once, and stop() is awaited.  resetNetwork() asks
\* for zigbee_ready, not whether the controller is destroyed.
ResetBegin(c) ==
  /\ phase[c] = "running"
  /\ close[c] # "done"
  /\ \A d \in Controllers : reset[d] = "none"
  /\ issued < MaxNetworks
  /\ reset' = [reset EXCEPT ![c] = "stop"]
  /\ adapter' = [adapter EXCEPT ![c] = NoNetwork]
  /\ UNCHANGED <<storeVars, phase, flights, close, timers, worldVars>>

\* A backup that has left its radio and whose rename is still to come.
BackupBeingWritten == \E d \in Controllers : \E f \in flights[d] : f.stage = "write"

\* Mutant: the adapter is started before the new network is stored.
ResetRemoveAttached(c) ==
  /\ reset[c] = "stop"
  /\ RemoveBackup
  /\ reset' = [reset EXCEPT ![c] = "write"]
  /\ overlap' = (overlap \/ BackupBeingWritten)
  /\ adapter' = [adapter EXCEPT ![c] = issued']
  /\ UNCHANGED <<networkJson, phase, flights, close, timers, topology,
                 faults, exiting, outlived>>

\* The radio has stopped; resetNetwork() makes an identity, removes the backup.
ResetRemove(c) ==
  /\ reset[c] = "stop"
  /\ RemoveBackup
  /\ reset' = [reset EXCEPT ![c] = "write"]
  /\ overlap' = (overlap \/ BackupBeingWritten)
  /\ UNCHANGED <<networkJson, phase, adapter, flights, close, timers, topology,
                 faults, exiting, outlived>>

\* The new network.json is in place; startAdapter() attaches a new adapter.
ResetWrite(c) ==
  /\ reset[c] = "write"
  /\ WriteNetwork(issued)
  /\ adapter' = [adapter EXCEPT ![c] = issued]
  /\ reset' = [reset EXCEPT ![c] = "adapter"]
  /\ UNCHANGED <<backupJson, issued, phase, flights, close, timers, worldVars>>

ResetAdapterUp(c) ==
  /\ reset[c] = "adapter"
  /\ close[c] = "none"
  /\ reset' = [reset EXCEPT ![c] = "backup"]
  /\ BeginBackup(c, adapter[c])
  /\ UNCHANGED <<storeVars, phase, adapter, close, timers, worldVars>>

\* The controller was destroyed meanwhile: startAdapter() throws.
ResetRefused(c) ==
  /\ reset[c] = "adapter"
  /\ close[c] # "none"
  /\ reset' = [reset EXCEPT ![c] = "failed"]
  /\ adapter' = [adapter EXCEPT ![c] = NoNetwork]
  /\ UNCHANGED <<storeVars, phase, flights, close, timers, worldVars>>

\* stop() times out, a file operation fails, or the new adapter does not start.
ResetFails(c) ==
  /\ reset[c] \in {"stop", "write", "adapter"}
  /\ Fault
  /\ reset' = [reset EXCEPT ![c] = "failed"]
  /\ adapter' = [adapter EXCEPT ![c] = NoNetwork]
  /\ UNCHANGED <<storeVars, phase, flights, close, timers, topology, exiting,
                 overlap, outlived>>

ResetStep(c) == \/ ResetRemove(c) \/ ResetWrite(c)
                \/ ResetAdapterUp(c) \/ ResetRefused(c)

-----------------------------------------------------------------------------
(* _destroy(), and who calls it.                                           *)

StopTimers(c) ==
  /\ close[c] = "none"
  /\ timer' = [timer EXCEPT ![c] = FALSE]
  /\ interval' = [interval EXCEPT ![c] = FALSE]

\* With skipFinalBackup, or with no adapter to back up; at is "done" where the
\* manager has cleared zigbee_ready.
DestroyNow(c, at) ==
  /\ StopTimers(c)
  /\ close' = [close EXCEPT ![c] = at]
  /\ adapter' = [adapter EXCEPT ![c] = NoNetwork]
  /\ UNCHANGED flights

DestroyWithBackup(c) ==
  /\ StopTimers(c)
  /\ close' = [close EXCEPT ![c] = "final"]
  /\ BeginBackup(c, adapter[c])
  /\ UNCHANGED adapter

\* The start loop gives up a controller whose start() rejected.
AbandonStart(c) ==
  /\ phase[c] = "failed"
  /\ DestroyNow(c, "done")
  /\ UNCHANGED <<storeVars, phase, reset, worldVars>>

\* The start loop gives up a controller that runs, since onZigbeeReady()
\* rejected; a user may have begun to reset it.
AbandonReady(c) ==
  /\ phase[c] = "running"
  /\ Fault
  /\ DestroyNow(c, "dropped")
  /\ UNCHANGED <<storeVars, phase, reset, topology, exiting, overlap, outlived>>

\* destroy() has settled, and zigbee_ready is cleared.
NotReady(c) ==
  /\ close[c] = "dropped"
  /\ close' = [close EXCEPT ![c] = "done"]
  /\ UNCHANGED <<storeVars, phase, adapter, flights, reset, timers, worldVars>>

\* The radio disconnects and recovery tears the controller down; the listener
\* ignores it while a reset is under way, of whichever controller.
LinkLost(c) ==
  /\ phase[c] = "running"
  /\ \A d \in Controllers : reset[d] = "none"
  /\ Fault
  /\ DestroyNow(c, "done")
  /\ UNCHANGED <<storeVars, phase, reset, topology, exiting, overlap, outlived>>

\* A rejected reset is recovered like a lost link, at the cost of the
\* controller of that moment, unless Homey is shutting down.
AbandonReset(c) ==
  /\ reset[c] = "failed"
  /\ ~exiting
  /\ reset' = [reset EXCEPT ![c] = "none"]
  /\ \/ \E d \in Controllers : phase[d] # "unborn" /\ DestroyNow(d, "done")
     \/ /\ \A d \in Controllers : phase[d] # "unborn" => close[d] # "none"
        /\ close' = [d \in Controllers |->
                       IF close[d] = "dropped" THEN "done" ELSE close[d]]
        /\ UNCHANGED <<adapter, flights, timers>>
  /\ UNCHANGED <<storeVars, phase, worldVars>>

\* onUninit(): a final backup if the radio was ready.  (Without a controller to
\* destroy it only keeps the next one from being made: Crash, later.)
Shutdown(c) ==
  /\ phase[c] # "unborn"
  /\ ~exiting
  /\ Fault
  /\ exiting' = TRUE
  /\ IF phase[c] = "running" /\ reset[c] # "failed" /\ adapter[c] # NoNetwork
     THEN DestroyWithBackup(c)
     ELSE DestroyNow(c, IF phase[c] = "running" THEN "dropped" ELSE "done")
  /\ UNCHANGED <<storeVars, phase, reset, topology, overlap, outlived>>

\* The final backup takes more than five seconds.
CloseTimeout(c) ==
  /\ close[c] = "final"
  /\ close' = [close EXCEPT ![c] = "dropped"]
  /\ adapter' = [adapter EXCEPT ![c] = NoNetwork]
  /\ UNCHANGED <<storeVars, phase, flights, reset, timers, worldVars>>

-----------------------------------------------------------------------------
(* The process ends, in order or not, and is started again.                *)

Reboot ==
  /\ phase' = [c \in Controllers |-> IF phase[c] = "unborn" THEN "unborn" ELSE "failed"]
  /\ close' = [c \in Controllers |-> IF phase[c] = "unborn" THEN "none" ELSE "done"]
  /\ adapter' = [c \in Controllers |-> NoNetwork]
  /\ flights' = [c \in Controllers |-> {}]
  /\ reset' = [c \in Controllers |-> "none"]
  /\ timer' = [c \in Controllers |-> FALSE]
  /\ interval' = [c \in Controllers |-> FALSE]
  /\ exiting' = FALSE
  /\ UNCHANGED <<storeVars, topology, overlap, outlived>>

Exit == exiting /\ Reboot /\ UNCHANGED faults

Crash == Reboot /\ Fault

-----------------------------------------------------------------------------

ControllerStep(c) ==
  \/ Spawn(c) \/ StartStep(c) \/ StartFails(c)
  \/ FlightStep(c) \/ FlightFails(c)
  \/ TopologyChange(c) \/ TopologyTimer(c) \/ DailyTimer(c)
  \/ ResetBegin(c) \/ ResetStep(c) \/ ResetFails(c)
  \/ AbandonStart(c) \/ AbandonReady(c) \/ NotReady(c)
  \/ LinkLost(c) \/ AbandonReset(c)
  \/ Shutdown(c) \/ CloseTimeout(c)

Next == (\E c \in Controllers : ControllerStep(c)) \/ Exit \/ Crash

Spec == Init /\ [][Next]_vars

\* Node runs what is ready: calls in progress go on, timers fire, the manager
\* replaces the controller it dropped, a process asked to stop is restarted.
\* Nothing is assumed of resets, joins, shutdowns or faults.
Fairness ==
  /\ \A c \in Controllers :
       /\ WF_vars(Spawn(c))
       /\ WF_vars(StartStep(c))
       /\ WF_vars(FlightStep(c))
       /\ WF_vars(TopologyTimer(c))
       /\ WF_vars(DailyTimer(c))
       /\ WF_vars(ResetStep(c))
       /\ WF_vars(AbandonStart(c) \/ AbandonReset(c) \/ NotReady(c))
  /\ WF_vars(Exit)

FairSpec == Spec /\ Fairness

-----------------------------------------------------------------------------
(* Properties *)

TypeOK ==
  /\ StoreTypeOK
  /\ phase \in [Controllers -> Phases]
  /\ adapter \in [Controllers -> Nat]
  /\ flights \in [Controllers -> SUBSET Flight]
  /\ reset \in [Controllers -> Resets]
  /\ close \in [Controllers -> Closes]
  /\ timer \in [Controllers -> BOOLEAN]
  /\ interval \in [Controllers -> BOOLEAN]
  /\ topology \in Nat
  /\ faults \in Nat
  /\ exiting \in BOOLEAN
  /\ overlap \in BOOLEAN
  /\ outlived \in BOOLEAN

\* RadioStore.mts:77-78 as written: a network.json is never accompanied by
\* the backup of another network.  Refuted: a write that was under way when
\* the reset removed the file puts it back.
PairedFiles == backupJson.network \in {NoNetwork, networkJson}

\* What the order of resetNetwork() does guarantee, across crashes, failed
\* resets, left-over flights of destroyed controllers, shutdowns in the middle
\* of a reset and resets of destroyed controllers: the two files are of one
\* network as long as no reset overtook the writing of a backup, and none the
\* making of the next controller.
PairedUnlessOverlap == ~overlap /\ ~outlived => PairedFiles

\* A controller only drives the radio on the network in network.json: it
\* detaches its adapter before a reset changes the file, and attaches one
\* after the file is in place, so a crash at any point starts again on the
\* network the devices were told about.  The exception is the successor of a
\* half-ready start's controller whose reset goes on: _reset() replaces the
\* file under it, then fails on its own controller, and recovery replaces the
\* successor (BackupCatchesUp).
RunsStoredNetwork ==
  ~outlived => \A c \in Controllers : adapter[c] \in {NoNetwork, networkJson}

\* network.json, once written, is only ever replaced by a reset: no restart,
\* failed start or crash while forming makes Homey abandon its network.
NetworkOnlyReset ==
  [][networkJson' # networkJson =>
       \/ networkJson = NoNetwork
       \/ \E c \in Controllers : reset[c] = "write"]_vars

Older(b, a) == b.network = a.network /\ b.topology < a.topology

\* A backup on disk is replaced by one of an older node table only by the
\* left-over write of a destroyed controller: within a controller the single
\* flight orders the writes.
BackupOnlyImproves ==
  [][Older(backupJson', backupJson) =>
       \E c \in Controllers : close[c] # "none" /\ flights'[c] # flights[c]]_vars

\* The moments the controllers' flights are backing up.
Moment(f) == [network |-> f.network, topology |-> f.topology]

Moments == {Moment(f) : f \in UNION {flights[c] : c \in Controllers}}

Durable ==
  INSTANCE DurableNetwork
    WITH network <- networkJson, backup <- backupJson, pending <- Moments

\* However timers, resets, crashes, time-outs and replaced controllers
\* interleave, no network returns once it was replaced, and a backup is one
\* moment of a network that was then the stored one, or of an earlier one
\* after a reset outlived its controller.
KeepsOneMoment == Durable!Spec

\* Once joins, leaves, resets and faults cease, the file holds the current
\* network and node table for good, whatever flights were coalesced or lost
\* before: the daily timer repairs what the single flight dropped.
BackupCurrent ==
  /\ networkJson # NoNetwork
  /\ backupJson = [network |-> networkJson, topology |-> topology]

BackupCatchesUp == <>[]BackupCurrent
=============================================================================
