-------------------------- MODULE EmberController ---------------------------
(***************************************************************************)
(* The life of one HomeyEmberController as its manager sees it: start(),   *)
(* destroy() and reset() run concurrently over this.adapter and the serial *)
(* port an adapter holds.  Backups are BackupLifecycle's subject; here a   *)
(* backup is one more radio call start() and reset() await.                *)
(*                                                                         *)
(* Controllers are named by the start loop that made them (EmberManager);  *)
(* the Orphan is one its loop has replaced while a reset of it was in      *)
(* flight.                                                                 *)
(***************************************************************************)
EXTENDS Naturals

CONSTANTS Loops,        \* start loops
          Orphan,       \* the replaced controller whose reset goes on
          MaxFaults     \* bound: lost links, failed or late calls, hooks that
                        \* reject, controllers replaced during a reset

ASSUME FaultsAssumption == MaxFaults \in Nat
ASSUME OrphanAssumption == Orphan \notin Loops

Names == Loops \cup {Orphan}

VARIABLES ctl,          \* the controller of each name
          stuck,        \* how many adapters that were given up, their stop() having
                        \* taken more than five seconds, may still hold the port
          faults        \* faults so far

faultVars == <<stuck, faults>>
ctlVars == <<ctl, faultVars>>

Starts == {"new", "load", "open", "release", "backup", "group", "started", "failed"}
Destroys == {"no", "backup", "stop", "done"}
ResetPcs == {"none", "stop", "open", "release", "backup", "done", "failed"}

Controller ==
  [start : Starts,        \* where start() is
   destroy : Destroys,    \* where the memoised destroy() is
   reset : ResetPcs,      \* where the last reset() is
   destroyed : BOOLEAN,   \* this.destroyed
   skip : BOOLEAN,        \* this.skipFinalBackup
   adapter : BOOLEAN,     \* this.adapter is set
   port : BOOLEAN,        \* an adapter it has not given up holds the serial port
   lost : BOOLEAN]        \* ... and has lost its coordinator

NewController ==
  [start |-> "new", destroy |-> "no", reset |-> "none", destroyed |-> FALSE,
   skip |-> FALSE, adapter |-> FALSE, port |-> FALSE, lost |-> FALSE]

Fault ==
  /\ faults < MaxFaults
  /\ faults' = faults + 1
  /\ UNCHANGED stuck

\* stop() takes more than five seconds, or rejects: its adapter is given up,
\* whatever it holds.
StopLate ==
  /\ faults < MaxFaults
  /\ faults' = faults + 1
  /\ stuck' = stuck + 1

\* A radio call on a lost, stopped or destroyed adapter rejects; any may fail.
CallFails(l) ==
  IF ctl[l].lost \/ ctl[l].destroyed THEN UNCHANGED faultVars ELSE Fault

\* So does opening the port while an adapter that was given up may hold it.
OpeningFails(l) ==
  IF stuck > 0 THEN UNCHANGED faultVars ELSE CallFails(l)

-----------------------------------------------------------------------------
(* start()                                                                 *)

\* The synchronous head of start().
StartCall(l) ==
  ctl' = [ctl EXCEPT ![l].start = "load", ![l].destroyed = FALSE]

\* network.json is there; startAdapter() opens the port.
Loaded(l) ==
  /\ ctl[l].start = "load"
  /\ ctl' = [ctl EXCEPT ![l].start = "open", ![l].adapter = TRUE,
                        ![l].port = TRUE, ![l].lost = FALSE]
  /\ UNCHANGED faultVars

LoadFails(l) ==
  /\ ctl[l].start = "load"
  /\ ctl' = [ctl EXCEPT ![l].start = "failed"]
  /\ Fault

Opened(l) ==
  /\ ctl[l].start = "open"
  /\ ctl[l].adapter /\ ~ctl[l].destroyed /\ ~ctl[l].lost
  /\ ctl' = [ctl EXCEPT ![l].start = "backup"]
  /\ UNCHANGED faultVars

\* Also the check that the adapter was not stopped while starting.  The catch
\* block detaches the adapter and awaits its stop().
OpenFails(l) ==
  /\ ctl[l].start = "open"
  /\ OpeningFails(l)
  /\ ctl' = [ctl EXCEPT ![l].start = "release", ![l].adapter = FALSE]

\* stop() has settled; destroy() may still await that of the same adapter.
Released(l) ==
  /\ ctl[l].start = "release"
  /\ ctl' = [ctl EXCEPT ![l].start = "failed", ![l].port = @ /\ ctl[l].destroy = "stop"]
  /\ UNCHANGED faultVars

ReleaseTimesOut(l) ==
  /\ ctl[l].start = "release"
  /\ ctl' = [ctl EXCEPT ![l].start = "failed", ![l].port = @ /\ ctl[l].destroy = "stop"]
  /\ StopLate

\* writeBackup() has nothing to do once the adapter is detached.
BackedUp(l) ==
  /\ ctl[l].start = "backup"
  /\ ctl[l].adapter => ~ctl[l].lost
  /\ ctl' = [ctl EXCEPT ![l].start = "group"]
  /\ UNCHANGED faultVars

BackupFails(l) ==
  /\ ctl[l].start = "backup"
  /\ CallFails(l)
  /\ ctl' = [ctl EXCEPT ![l].start = "failed"]

\* The errors of addMulticastGroup(0) are swallowed.
GroupAdded(l) ==
  /\ ctl[l].start = "group"
  /\ ctl' = [ctl EXCEPT ![l].start = "started"]
  /\ UNCHANGED faultVars

StartStep(l) ==
  \/ Loaded(l) \/ LoadFails(l) \/ Opened(l) \/ OpenFails(l)
  \/ Released(l) \/ ReleaseTimesOut(l)
  \/ BackedUp(l) \/ BackupFails(l) \/ GroupAdded(l)

-----------------------------------------------------------------------------
(* destroy(): the first call does it, the others await the same promise.   *)

Destroying(c) ==
  IF c.destroy # "no" THEN c
  ELSE [c EXCEPT
    !.destroyed = TRUE,
    !.adapter = c.adapter /\ ~c.skip,
    !.destroy = IF ~c.adapter THEN "done" ELSE IF c.skip THEN "stop" ELSE "backup"]

DestroyCall(l) == ctl' = [ctl EXCEPT ![l] = Destroying(@)]

SuppressAndDestroy(l) ==
  ctl' = [ctl EXCEPT ![l] = Destroying([@ EXCEPT !.skip = TRUE])]

\* The adapter is taken, unless a reset() took it first, and its stop() awaited.
TakesAdapter(l) ==
  ctl' = [ctl EXCEPT ![l].destroy = IF ctl[l].adapter THEN "stop" ELSE "done",
                     ![l].adapter = FALSE]

\* Mutant: the final backup has no timeout.
FinalBackupWaits(l) ==
  /\ ctl[l].destroy = "backup"
  /\ ~ctl[l].lost
  /\ TakesAdapter(l)
  /\ UNCHANGED faultVars

\* The final backup is written, fails, or takes five seconds.
FinalBackupEnds(l) ==
  /\ ctl[l].destroy = "backup"
  /\ TakesAdapter(l)
  /\ UNCHANGED faultVars

\* A reset may have made another adapter since, or start() or reset() may await
\* the stop() of the same one.
StillHeld(l) == ctl[l].adapter \/ "release" \in {ctl[l].start, ctl[l].reset}

\* The adapter destroy() took has stopped.
Stopped(l) ==
  /\ ctl[l].destroy = "stop"
  /\ ctl' = [ctl EXCEPT ![l].destroy = "done", ![l].port = @ /\ StillHeld(l)]
  /\ UNCHANGED faultVars

StopTimesOut(l) ==
  /\ ctl[l].destroy = "stop"
  /\ ctl' = [ctl EXCEPT ![l].destroy = "done", ![l].port = @ /\ StillHeld(l)]
  /\ StopLate

DestroyStep(l) == FinalBackupEnds(l) \/ Stopped(l) \/ StopTimesOut(l)

-----------------------------------------------------------------------------
(* reset(): the old adapter is stopped, a new network written, and a new   *)
(* adapter started and backed up.  It does not look at destroyed until its *)
(* adapter has started.                                                    *)

ResetCall(l) ==
  ctl' = [ctl EXCEPT ![l].reset = "stop", ![l].adapter = FALSE]

ResetReplaces(l) ==
  /\ ctl[l].reset = "stop"
  /\ ctl' = [ctl EXCEPT ![l].reset = "open", ![l].adapter = TRUE,
                        ![l].port = TRUE, ![l].lost = FALSE]
  /\ UNCHANGED faultVars

\* The old adapter, unless destroy() took it, is given up: reset() fails.
ResetStopTimesOut(l) ==
  /\ ctl[l].reset = "stop"
  /\ ctl[l].port /\ ctl[l].destroy # "stop"
  /\ ctl' = [ctl EXCEPT ![l].reset = "failed", ![l].port = FALSE]
  /\ StopLate

\* The old adapter has stopped, and a file operation of the store fails.
ResetStoreFails(l) ==
  /\ ctl[l].reset = "stop"
  /\ ctl' = [ctl EXCEPT ![l].reset = "failed", ![l].port = @ /\ ctl[l].destroy = "stop"]
  /\ Fault

ResetOpened(l) ==
  /\ ctl[l].reset = "open"
  /\ ctl[l].adapter /\ ~ctl[l].destroyed /\ ~ctl[l].lost
  /\ ctl' = [ctl EXCEPT ![l].reset = "backup"]
  /\ UNCHANGED faultVars

ResetOpenFails(l) ==
  /\ ctl[l].reset = "open"
  /\ OpeningFails(l)
  /\ ctl' = [ctl EXCEPT ![l].reset = "release", ![l].adapter = FALSE]

ResetReleased(l) ==
  /\ ctl[l].reset = "release"
  /\ ctl' = [ctl EXCEPT ![l].reset = "failed", ![l].port = @ /\ ctl[l].destroy = "stop"]
  /\ UNCHANGED faultVars

ResetReleaseTimesOut(l) ==
  /\ ctl[l].reset = "release"
  /\ ctl' = [ctl EXCEPT ![l].reset = "failed", ![l].port = @ /\ ctl[l].destroy = "stop"]
  /\ StopLate

ResetBackedUp(l) ==
  /\ ctl[l].reset = "backup"
  /\ ctl[l].adapter => ~ctl[l].lost
  /\ ctl' = [ctl EXCEPT ![l].reset = "done"]
  /\ UNCHANGED faultVars

ResetBackupFails(l) ==
  /\ ctl[l].reset = "backup"
  /\ CallFails(l)
  /\ ctl' = [ctl EXCEPT ![l].reset = "failed"]

ResetStep(l) ==
  \/ ResetReplaces(l) \/ ResetStopTimesOut(l) \/ ResetStoreFails(l)
  \/ ResetOpened(l) \/ ResetOpenFails(l) \/ ResetReleased(l) \/ ResetReleaseTimesOut(l)
  \/ ResetBackedUp(l) \/ ResetBackupFails(l)

-----------------------------------------------------------------------------

\* The port is held and the adapter reports that its coordinator is gone.
RadioLost(l) ==
  /\ ctl[l].port /\ ~ctl[l].lost
  /\ ctl' = [ctl EXCEPT ![l].lost = TRUE]
  /\ Fault

\* An adapter that was given up lets go of the port after all; nobody waits for it.
LateStop ==
  /\ stuck > 0
  /\ stuck' = stuck - 1
  /\ UNCHANGED <<ctl, faults>>

\* start() or reset() awaits a call that a loss rejects, or is failing already.
RadioCallPending(l) ==
  \/ ctl[l].start \in {"open", "release", "backup"}
  \/ ctl[l].reset \in {"stop", "open", "release", "backup"}

ResetSettled(c) == c.reset \in {"none", "done", "failed"}

\* Every call of this controller has settled.
Settled(c) ==
  /\ c.start \in {"new", "started", "failed"}
  /\ c.destroy \in {"no", "done"}
  /\ ResetSettled(c)

ControllerTypeOK ==
  /\ ctl \in [Names -> Controller]
  /\ stuck \in Nat
  /\ faults \in Nat
=============================================================================
