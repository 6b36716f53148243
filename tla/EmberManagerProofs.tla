------------------------- MODULE EmberManagerProofs -------------------------
(***************************************************************************)
(* The invariants of EmberManager and its promise about getZigbeeReady(),  *)
(* for any number of start loops and faults.                               *)
(*                                                                         *)
(* The inductive invariant says which loop may be at work (Supervision),   *)
(* that it holds this.controller (Holding), and what is true of the        *)
(* controller while Zigbee is ready, resetting or recovering.  The port    *)
(* rests on Uses: only the controller of this.controller opens one, and a  *)
(* loop makes the next only when that one has let go.  All of this needs   *)
(* that the local hook did not fail after the base was ready (Whole), and  *)
(* most of it that Homey is not stopping (Calm).                           *)
(***************************************************************************)
EXTENDS EmberManager, TLAPS

(* No local hook rejected over a base that was ready already.                *)
Whole == "halfReady" \notin mishaps
(* ... and onUninit() has not begun.                                         *)
Calm == Whole /\ ~stopping

StartSettled(c) == c.start \in {"new", "started", "failed"}

(* What a controller that is on its way out has let go of.                   *)
Leave(c) ==
  /\ c.destroy # "no" => StartSettled(c) /\ ResetSettled(c)
  /\ c.destroy \in {"stop", "done"} => ~c.adapter
  /\ ~c.adapter /\ c.destroy # "stop" /\ c.start # "release"
     /\ c.reset \notin {"stop", "release"} => ~c.port

(* A loop that was not told to stop is the one of lifecycleAbort; a recovery *)
(* told it to stop, and the next is not running yet.                         *)
Supervision ==
  /\ \A l \in Loops : Supervising(l) /\ ~aborted[l] => l = lifecycle
  /\ rec.at \in {"local", "destroy", "core", "settle"} => aborted[lifecycle]
  /\ rec.at = "command" => rec.loop = lifecycle /\ ~Supervising(lifecycle)

(* start() runs while its loop awaits it.                                    *)
InStep ==
  \A l \in Loops :
    /\ pc[l] = "nodes" => ctl[l].start = "new"
    /\ pc[l] \in {"core", "local"} => ctl[l].start = "started"
    /\ pc[l] # "start" => StartSettled(ctl[l])

(* A loop that nobody told to stop holds this.controller.                    *)
Holding ==
  \A l \in Loops : Supervising(l) /\ ~aborted[l] /\ ~stopping =>
    /\ controller = IF pc[l] = "delay" THEN None ELSE l
    /\ pc[l] \in {"nodes", "start", "core", "local"} => ctl[l].destroy = "no" /\ ~ctl[l].destroyed
    /\ pc[l] = "local" => ready

(* A controller is only reset by the resetNetwork() that waits for it.       *)
Resetting == \A l \in Loops : ~ResetSettled(ctl[l]) => rst.at = "radio" /\ rst.ctl = l

Quiet(l) == pc[l] \in {"free", "done", "local"}

(* There is a started controller, and no loop is starting another.           *)
Served ==
  /\ controller # None
  /\ ctl[controller].start = "started"
  /\ \A l \in Loops : Quiet(l)

(* What holds while Zigbee is ready, while its network is reset, and while a  *)
(* recovery, which keeps the lost controller current, is under way.          *)
WhileReady == Calm /\ ready =>
  /\ Served
  /\ ctl[controller].destroy = "no" /\ ~ctl[controller].destroyed
  /\ rec.at = "none"

WhileResetting == Calm /\ rst.at # "none" => ready /\ rst.ctl = controller

WhileRecovering == Calm /\ rec.at # "none" =>
  /\ Served
  /\ session = None
  /\ rec.at = "destroy" => rec.ctl = controller
  /\ rec.at \in {"core", "settle", "command"} => ctl[controller].destroy = "done"

(* Recovery only aborts a loop that has finished, or is as good as finished.  *)
Undisturbed == Calm => \A l \in Loops : ~Quiet(l) => ~aborted[l]

Leaving == Calm => \A l \in Loops : Leave(ctl[l])

(* The controller of l has the serial port or may still open it.             *)
Uses(l) == ctl[l].port \/ pc[l] = "nodes" \/ ~ResetSettled(ctl[l])
           \/ ctl[l].start \in {"load", "open", "release"}

UsedByCurrent == Calm => \A l \in Loops : Uses(l) => controller = l

OneUser == Whole => \A l, m \in Loops :
  (Uses(l) \/ controller = l) /\ (Uses(m) \/ controller = m) => l = m

(* onUninit() sets this.stopping first and nothing clears it.                *)
Shutdown == un.at # "none" => stopping

IInv == /\ TypeOK /\ Shutdown /\ Supervision /\ InStep /\ Holding /\ Resetting /\ WhileReady
        /\ WhileResetting /\ WhileRecovering /\ Undisturbed /\ Leaving /\ UsedByCurrent /\ OneUser

-----------------------------------------------------------------------------
(* What the calls of a controller do to it. *)

USE NoneAssumption, OrphanAssumption DEF Refs, Names, faultVars

(* What a step of the controller's own calls may change.                     *)
Moves(c, d) ==
  /\ d.destroyed = c.destroyed
  /\ StartSettled(c) => d.start = c.start
  /\ d.start # "new" \/ c.start = "new"
  /\ d.start \in {"load", "open", "release"} => c.start \in {"load", "open", "release"}
  /\ ResetSettled(c) => d.reset = c.reset
  /\ c.destroy = "no" => d.destroy = "no"
  /\ c.destroy = "done" => d.destroy = "done"
  /\ d.port => c.port \/ c.start = "load" \/ c.reset = "stop"
  /\ Leave(c) => Leave(d)

CtlOK == ctl \in [Names -> Controller]

LEMMA StartMoves ==
  ASSUME CtlOK, NEW l \in Names, StartStep(l)
  PROVE  \E d \in Controller : Moves(ctl[l], d) /\ ctl' = [ctl EXCEPT ![l] = d]
<1> DEFINE c == ctl[l]
<1>0. c \in Controller BY DEF CtlOK
<1>1. CASE Loaded(l)
  <2> DEFINE d == [c EXCEPT !.start = "open", !.adapter = TRUE, !.port = TRUE, !.lost = FALSE]
  <2>1. d \in Controller BY <1>0 DEF Controller, Starts
  <2>2. Moves(c, d) BY <1>0, <1>1 DEF Loaded, Moves, Leave, StartSettled, ResetSettled, Controller
  <2>3. ctl' = [ctl EXCEPT ![l] = d] BY <1>1 DEF Loaded
  <2> QED BY <2>1, <2>2, <2>3
<1>2. CASE LoadFails(l)
  <2> DEFINE d == [c EXCEPT !.start = "failed"]
  <2>1. d \in Controller BY <1>0 DEF Controller, Starts
  <2>2. Moves(c, d) BY <1>0, <1>2 DEF LoadFails, Moves, Leave, StartSettled, ResetSettled, Controller
  <2>3. ctl' = [ctl EXCEPT ![l] = d] BY <1>2 DEF LoadFails
  <2> QED BY <2>1, <2>2, <2>3
<1>4. CASE OpenFails(l)
  <2> DEFINE d == [c EXCEPT !.start = "release", !.adapter = FALSE]
  <2>1. d \in Controller BY <1>0 DEF Controller, Starts
  <2>2. Moves(c, d) BY <1>0, <1>4 DEF OpenFails, Moves, Leave, StartSettled, ResetSettled, Controller
  <2>3. ctl' = [ctl EXCEPT ![l] = d] BY <1>4 DEF OpenFails
  <2> QED BY <2>1, <2>2, <2>3
<1>5. CASE Released(l) \/ ReleaseTimesOut(l)
  <2> DEFINE held == c.port /\ c.destroy = "stop"
             d == [c EXCEPT !.start = "failed", !.port = held]
  <2>1. d \in Controller BY <1>0 DEF Controller, Starts
  <2>2. Moves(c, d)
    BY <1>0, <1>5
       DEF Released, ReleaseTimesOut, Moves, Leave, StartSettled, ResetSettled, Controller
  <2>3. ctl' = [ctl EXCEPT ![l] = d] BY <1>5 DEF Released, ReleaseTimesOut
  <2> QED BY <2>1, <2>2, <2>3
<1>6. CASE Opened(l) \/ BackedUp(l) \/ BackupFails(l) \/ GroupAdded(l)
  <2>1. PICK s \in {"backup", "group", "failed", "started"} :
          ctl' = [ctl EXCEPT ![l] = [c EXCEPT !.start = s]]
    BY <1>6 DEF Opened, BackedUp, BackupFails, GroupAdded
  <2>2. c.start \in {"open", "backup", "group"} 
    BY <1>6 DEF Opened, BackedUp, BackupFails, GroupAdded
  <2> DEFINE d == [c EXCEPT !.start = s]
  <2>3. d \in Controller BY <1>0 DEF Controller, Starts
  <2>4. Moves(c, d) BY <1>0, <2>2 DEF Moves, Leave, StartSettled, ResetSettled, Controller
  <2> QED BY <2>1, <2>3, <2>4
<1> QED BY <1>1, <1>2, <1>4, <1>5, <1>6 DEF StartStep

LEMMA DestroyMoves ==
  ASSUME CtlOK, NEW l \in Names, DestroyStep(l)
  PROVE  \E d \in Controller : Moves(ctl[l], d) /\ ctl' = [ctl EXCEPT ![l] = d]
<1> DEFINE c == ctl[l]
<1>0. c \in Controller BY DEF CtlOK
<1>1. CASE FinalBackupEnds(l)
  <2> DEFINE at == IF c.adapter THEN "stop" ELSE "done"
             d == [c EXCEPT !.destroy = at, !.adapter = FALSE]
  <2>1. d \in Controller BY <1>0 DEF Controller, Destroys
  <2>2. Moves(c, d)
    BY <1>0, <1>1 DEF FinalBackupEnds, Moves, Leave, StartSettled, ResetSettled, Controller
  <2>3. ctl' = [ctl EXCEPT ![l] = d] BY <1>1 DEF FinalBackupEnds, TakesAdapter
  <2> QED BY <2>1, <2>2, <2>3
<1>2. CASE Stopped(l) \/ StopTimesOut(l)
  <2> DEFINE held == c.port /\ (c.adapter \/ "release" \in {c.start, c.reset})
             d == [c EXCEPT !.destroy = "done", !.port = held]
  <2>1. d \in Controller BY <1>0 DEF Controller, Destroys
  <2>2. Moves(c, d)
    BY <1>0, <1>2 DEF Stopped, StopTimesOut, Moves, Leave, StartSettled, ResetSettled, Controller
  <2>3. ctl' = [ctl EXCEPT ![l] = d] BY <1>2 DEF Stopped, StopTimesOut, StillHeld
  <2> QED BY <2>1, <2>2, <2>3
<1> QED BY <1>1, <1>2 DEF DestroyStep

LEMMA ResetMoves ==
  ASSUME CtlOK, NEW l \in Names, ResetStep(l)
  PROVE  \E d \in Controller : Moves(ctl[l], d) /\ ctl' = [ctl EXCEPT ![l] = d]
<1> DEFINE c == ctl[l]
<1>0. c \in Controller BY DEF CtlOK
<1>1. CASE ResetReplaces(l)
  <2> DEFINE d == [c EXCEPT !.reset = "open", !.adapter = TRUE, !.port = TRUE, !.lost = FALSE]
  <2>1. d \in Controller BY <1>0 DEF Controller, ResetPcs
  <2>2. Moves(c, d)
    BY <1>0, <1>1 DEF ResetReplaces, Moves, Leave, StartSettled, ResetSettled, Controller
  <2>3. ctl' = [ctl EXCEPT ![l] = d] BY <1>1 DEF ResetReplaces
  <2> QED BY <2>1, <2>2, <2>3
<1>2. CASE ResetStopTimesOut(l) \/ ResetStoreFails(l) \/ ResetReleased(l)
            \/ ResetReleaseTimesOut(l)
  <2>1. PICK held \in BOOLEAN :
          /\ ctl' = [ctl EXCEPT ![l] = [c EXCEPT !.reset = "failed", !.port = held]]
          /\ held => c.port /\ c.destroy = "stop"
    <3>1. (c.port /\ c.destroy = "stop") \in BOOLEAN /\ FALSE \in BOOLEAN OBVIOUS
    <3> QED
      BY <1>2, <3>1
         DEF ResetStopTimesOut, ResetStoreFails, ResetReleased, ResetReleaseTimesOut
  <2>2. c.reset \in {"stop", "release"}
    BY <1>2 DEF ResetStopTimesOut, ResetStoreFails, ResetReleased, ResetReleaseTimesOut
  <2> DEFINE d == [c EXCEPT !.reset = "failed", !.port = held]
  <2>3. d \in Controller BY <1>0 DEF Controller, ResetPcs
  <2>4. Moves(c, d)
    BY <1>0, <2>1, <2>2 DEF Moves, Leave, StartSettled, ResetSettled, Controller
  <2> QED BY <2>1, <2>3, <2>4
<1>3. CASE ResetOpenFails(l)
  <2> DEFINE d == [c EXCEPT !.reset = "release", !.adapter = FALSE]
  <2>1. d \in Controller BY <1>0 DEF Controller, ResetPcs
  <2>2. Moves(c, d)
    BY <1>0, <1>3 DEF ResetOpenFails, Moves, Leave, StartSettled, ResetSettled, Controller
  <2>3. ctl' = [ctl EXCEPT ![l] = d] BY <1>3 DEF ResetOpenFails
  <2> QED BY <2>1, <2>2, <2>3
<1>4. CASE ResetOpened(l) \/ ResetBackedUp(l) \/ ResetBackupFails(l)
  <2>1. PICK s \in {"backup", "done", "failed"} :
          ctl' = [ctl EXCEPT ![l] = [c EXCEPT !.reset = s]]
    BY <1>4 DEF ResetOpened, ResetBackedUp, ResetBackupFails
  <2>2. c.reset \in {"open", "backup"}
    BY <1>4 DEF ResetOpened, ResetBackedUp, ResetBackupFails
  <2> DEFINE d == [c EXCEPT !.reset = s]
  <2>3. d \in Controller BY <1>0 DEF Controller, ResetPcs
  <2>4. Moves(c, d) BY <1>0, <2>2 DEF Moves, Leave, StartSettled, ResetSettled, Controller
  <2> QED BY <2>1, <2>3, <2>4
<1> QED BY <1>1, <1>2, <1>3, <1>4 DEF ResetStep

LEMMA LossMoves ==
  ASSUME CtlOK, NEW l \in Names, RadioLost(l)
  PROVE  \E d \in Controller : Moves(ctl[l], d) /\ ctl' = [ctl EXCEPT ![l] = d]
<1> DEFINE d == [ctl[l] EXCEPT !.lost = TRUE]
<1>0. ctl[l] \in Controller BY DEF CtlOK
<1>1. d \in Controller BY <1>0 DEF Controller
<1>2. Moves(ctl[l], d) BY <1>0 DEF Moves, Leave, StartSettled, ResetSettled, Controller
<1>3. ctl' = [ctl EXCEPT ![l] = d] BY DEF RadioLost
<1> QED BY <1>1, <1>2, <1>3

(* destroy() leaves start() and reset() to their own steps.                  *)
LEMMA DestroyShape ==
  ASSUME NEW c \in Controller, NEW e \in {Destroying(c), Destroying([c EXCEPT !.skip = TRUE])}
  PROVE  /\ e \in Controller
         /\ e.start = c.start /\ e.reset = c.reset /\ e.port = c.port
         /\ e.destroy # "no" /\ (c.destroy # "no" => e.destroy = c.destroy)
         /\ Leave(c) /\ StartSettled(c) /\ ResetSettled(c) => Leave(e)
<1>1. ASSUME NEW d \in Controller
      PROVE  /\ Destroying(d) \in Controller
             /\ Destroying(d).start = d.start /\ Destroying(d).reset = d.reset
             /\ Destroying(d).port = d.port /\ Destroying(d).destroy # "no"
             /\ d.destroy # "no" => Destroying(d).destroy = d.destroy
             /\ Leave(d) /\ StartSettled(d) /\ ResetSettled(d) => Leave(Destroying(d))
  <2>1. CASE d.destroy # "no" BY <2>1 DEF Destroying
  <2>2. CASE d.destroy = "no"
    <3> DEFINE e1 == [d EXCEPT !.destroyed = TRUE, !.adapter = d.adapter /\ ~d.skip,
                         !.destroy = IF ~d.adapter THEN "done"
                                     ELSE IF d.skip THEN "stop" ELSE "backup"]
    <3>1. Destroying(d) = e1 BY <2>2 DEF Destroying
    <3>2. e1 \in Controller BY DEF Controller, Destroys
    <3>3. /\ e1.start = d.start /\ e1.reset = d.reset /\ e1.port = d.port /\ e1.destroy # "no"
          /\ Leave(d) /\ StartSettled(d) /\ ResetSettled(d) => Leave(e1)
      BY <2>2 DEF Controller, Leave, StartSettled, ResetSettled
    <3> HIDE DEF e1
    <3> QED BY <2>2, <3>1, <3>2, <3>3
  <2> QED BY <2>1, <2>2
<1> DEFINE k == [c EXCEPT !.skip = TRUE]
<1>2. /\ k \in Controller /\ k.start = c.start /\ k.reset = c.reset /\ k.port = c.port
      /\ k.destroy = c.destroy /\ (Leave(c) => Leave(k))
      /\ (StartSettled(c) => StartSettled(k)) /\ (ResetSettled(c) => ResetSettled(k))
  BY DEF Controller, Leave, StartSettled, ResetSettled
<1> HIDE DEF k
<1>3. CASE e = Destroying(c) BY <1>1, <1>3
<1>4. CASE e = Destroying(k) BY <1>1, <1>2, <1>4
<1> QED BY <1>3, <1>4 DEF k

LEMMA NewShape ==
  /\ NewController \in Controller /\ Leave(NewController)
  /\ NewController.start = "new" /\ NewController.destroy = "no" /\ NewController.reset = "none"
  /\ ~NewController.destroyed /\ ~NewController.port
BY DEF NewController, Controller, Starts, Destroys, ResetPcs, Leave

-----------------------------------------------------------------------------
(* Types. *)

LEMMA FaultType == ASSUME TypeOK, Fault \/ StopLate PROVE stuck' \in Nat /\ faults' \in Nat
BY DEF TypeOK, ControllerTypeOK, Fault, StopLate

LEMMA SuppressType ==
  ASSUME TypeOK, NEW l \in Loops, SuppressAndDestroy(l)
  PROVE  ctl' \in [Names -> Controller]
BY DestroyShape DEF SuppressAndDestroy, TypeOK, ControllerTypeOK

LEMMA NewType == NewController \in Controller
BY DEF NewController, Controller, Starts, Destroys, ResetPcs

LEMMA AttemptType ==
  ASSUME TypeOK, NEW l \in Loops, Attempt(l)
  PROVE  /\ pc' \in [Loops -> LoopPcs] /\ controller' \in Refs
         /\ ctl' \in [Names -> Controller] /\ stuck' \in Nat /\ faults' \in Nat
BY NewType DEF Attempt, Goto, TypeOK, ControllerTypeOK, LoopPcs, ctlVars

LEMMA LoopTypes ==
  ASSUME TypeOK, NEW l \in Loops, LoopStep(l) \/ LoopFault(l)
  PROVE  TypeOK'
<1>1. CASE NodesSet(l)
  <2>1. ctl' \in [Names -> Controller]
    <3> DEFINE d == [ctl[l] EXCEPT !.start = "load", !.destroyed = FALSE]
    <3>1. ctl' = [ctl EXCEPT ![l] = d] BY <1>1 DEF NodesSet, StartCall
    <3>2. ctl[l] \in Controller BY DEF TypeOK, ControllerTypeOK
    <3>3. d \in Controller BY <3>2 DEF Controller, Starts
    <3> HIDE DEF d
    <3> QED BY <3>1, <3>3 DEF TypeOK, ControllerTypeOK
  <2>2. pc' \in [Loops -> LoopPcs] BY <1>1 DEF NodesSet, Goto, TypeOK, LoopPcs
  <2> QED BY <1>1, <2>1, <2>2 DEF NodesSet, TypeOK, ControllerTypeOK, callVars, userVars
<1>2. ASSUME Catch(l), stuck' \in Nat, faults' \in Nat, mishaps' \subseteq Mishaps PROVE TypeOK'
  BY <1>2, SuppressType DEF Catch, Goto, TypeOK, ControllerTypeOK, LoopPcs, callVars, userVars
<1>3. CASE NodesFail(l) \/ StartRejects(l) \/ CoreRejects(l) \/ LocalRejects(l)
  <2>1. stuck' \in Nat /\ faults' \in Nat /\ mishaps' \subseteq Mishaps
    BY <1>3, FaultType
       DEF NodesFail, StartRejects, CoreRejects, LocalRejects, TypeOK, ControllerTypeOK, Mishaps
  <2> QED BY <1>2, <1>3, <2>1 DEF NodesFail, StartRejects, CoreRejects, LocalRejects
<1>4. CASE StartReturns(l)
  <2>1. ctl' \in [Names -> Controller]
    BY <1>4, SuppressType DEF StartReturns, TypeOK, ControllerTypeOK
  <2> QED BY <1>4, <2>1
          DEF StartReturns, Goto, TypeOK, ControllerTypeOK, LoopPcs, callVars, userVars
<1>5. CASE Dropped(l) \/ CoreReady(l) \/ CleanedUp(l)
  <2>1. /\ UNCHANGED <<ctl, stuck, faults, aborted, promise, lifecycle, startLoop, startPromise, stopping,
                       mishaps, rec, un, rst, session, waiter>>
        /\ controller' \in {controller, None} /\ ready' \in {ready, TRUE, FALSE}
        /\ \E at \in LoopPcs : Goto(l, at)
    BY <1>5 DEF Dropped, CoreReady, CleanedUp, LoopPcs, ctlVars, callVars, userVars
  <2>2. pc' \in [Loops -> LoopPcs] BY <2>1 DEF Goto, TypeOK
  <2>3. controller' \in Refs /\ ready' \in BOOLEAN BY <2>1 DEF TypeOK
  <2>4. UNCHANGED <<ctl, stuck, faults, aborted, promise, lifecycle, startLoop, startPromise, stopping,
                    mishaps, rec, un, rst, session, waiter>>
    BY <2>1
  <2> QED BY <2>2, <2>3, <2>4 DEF TypeOK, ControllerTypeOK
<1>6. CASE LocalReady(l)
  BY <1>6 DEF LocalReady, Goto, TypeOK, ControllerTypeOK, LoopPcs, ctlVars, callVars
<1>7. CASE Retry(l) /\ Attempt(l) /\ rst' = rst
  BY <1>7, AttemptType DEF Retry, TypeOK, ControllerTypeOK, userVars
<1>8. CASE Retry(l) /\ Outlives(l)
  <2>1. ctl' \in [Names -> Controller] /\ stuck' \in Nat /\ faults' \in Nat
    BY <1>8, NewType, FaultType DEF Outlives, TypeOK, ControllerTypeOK
  <2>2. pc' \in [Loops -> LoopPcs] /\ controller' \in Refs
    BY <1>8 DEF Outlives, Goto, TypeOK, LoopPcs
  <2>3. /\ rst' \in [at : {"none", "radio", "wrapup"}, ctl : Names \cup {None}]
        /\ rst'.at # "none" => rst'.ctl \in Names
    BY <1>8 DEF Outlives, TypeOK
  <2>4. UNCHANGED <<aborted, promise, lifecycle, startLoop, startPromise, ready, stopping, mishaps,
                    rec, un, session, waiter>>
    BY <1>8 DEF Retry, userVars
  <2> QED BY <2>1, <2>2, <2>3, <2>4 DEF TypeOK, ControllerTypeOK
<1> QED BY <1>1, <1>3, <1>4, <1>5, <1>6, <1>7, <1>8 DEF LoopStep, LoopFault, Retry

LEMMA RadioTypes ==
  ASSUME TypeOK, NEW l \in Names, RadioStep(l)
  PROVE  TypeOK'
<1> USE DEF TypeOK, ControllerTypeOK
<1>1. ctl' \in [Names -> Controller]
  BY StartMoves, DestroyMoves, ResetMoves DEF RadioStep, CtlOK
<1>2. stuck' \in Nat /\ faults' \in Nat
  BY FaultType
     DEF RadioStep, StartStep, Loaded, LoadFails, Opened, OpenFails, Released, ReleaseTimesOut,
         BackedUp, BackupFails, GroupAdded, DestroyStep, FinalBackupEnds, Stopped, StopTimesOut,
         ResetStep, ResetReplaces, ResetStopTimesOut, ResetStoreFails, ResetOpened,
         ResetOpenFails, ResetReleased, ResetReleaseTimesOut, ResetBackedUp, ResetBackupFails,
         OpeningFails, CallFails
<1> QED BY <1>1, <1>2 DEF RadioStep, mgrVars, loopVars, callVars, userVars

LEMMA RecoverType ==
  ASSUME TypeOK, Recover
  PROVE  /\ rec' \in [at : RecPcs, loop : Refs, ctl : Refs] /\ ready' \in BOOLEAN
         /\ startPromise' \in Refs /\ aborted' \in [Loops -> BOOLEAN] /\ session' \in Refs
<1>1. CASE UNCHANGED <<rec, ready, startPromise, aborted, session>> BY <1>1 DEF TypeOK
<1>2. CASE /\ rec' = [at |-> "local", loop |-> startLoop, ctl |-> None]
           /\ ready' = FALSE /\ startPromise' = None /\ session' = None
           /\ aborted' = [aborted EXCEPT ![lifecycle] = TRUE]
  <2>1. rec' \in [at : RecPcs, loop : Refs, ctl : Refs] BY <1>2 DEF TypeOK, RecPcs
  <2>2. aborted' \in [Loops -> BOOLEAN] BY <1>2 DEF TypeOK
  <2> QED BY <1>2, <2>1, <2>2
<1> QED BY <1>1, <1>2 DEF Recover

LEMMA LossTypes ==
  ASSUME TypeOK, NEW l \in Names, LinkLost(l)
  PROVE  TypeOK'
<1>1. ctl' \in [Names -> Controller]
  BY LossMoves DEF LinkLost, TypeOK, ControllerTypeOK, CtlOK
<1>2. stuck' \in Nat /\ faults' \in Nat BY FaultType DEF LinkLost, RadioLost
<1>3. /\ rec' \in [at : RecPcs, loop : Refs, ctl : Refs] /\ ready' \in BOOLEAN
      /\ startPromise' \in Refs /\ aborted' \in [Loops -> BOOLEAN] /\ session' \in Refs
  <2>1. CASE UNCHANGED <<rec, ready, startPromise, aborted, session>> BY <2>1 DEF TypeOK
  <2> QED BY <2>1, RecoverType DEF LinkLost
<1>4. mishaps' \subseteq Mishaps BY DEF LinkLost, TypeOK, Mishaps
<1> QED BY <1>1, <1>2, <1>3, <1>4 DEF LinkLost, TypeOK, ControllerTypeOK

LEMMA RecoveryTypes ==
  ASSUME TypeOK, rec.at = "command" => rec.loop \in Loops, RecoveryStep \/ RecoveryRejects
  PROVE  TypeOK'
<1> USE DEF TypeOK, ControllerTypeOK, RecPcs
<1>1. CASE RecoveryDestroys
  <2>1. ctl' \in [Names -> Controller] BY <1>1, SuppressType DEF RecoveryDestroys
  <2>2. rec' \in [at : RecPcs, loop : Refs, ctl : Refs] BY <1>1 DEF RecoveryDestroys
  <2>3. UNCHANGED <<stuck, faults, pc, aborted, promise, lifecycle, startLoop, startPromise,
                    controller, ready, stopping, mishaps, un, rst, session, waiter>>
    BY <1>1 DEF RecoveryDestroys, loopVars, userVars
  <2> QED BY <2>1, <2>2, <2>3
<1>2. CASE RecoveryDestroyed \/ RecoveryTornDown
  <2>1. rec' \in [at : RecPcs, loop : Refs, ctl : Refs]
    BY <1>2 DEF RecoveryDestroyed, RecoveryTornDown
  <2>2. UNCHANGED <<ctl, stuck, faults, pc, aborted, promise, lifecycle, startLoop, startPromise,
                    controller, stopping, mishaps, un, rst, session, waiter>>
    BY <1>2 DEF RecoveryDestroyed, RecoveryTornDown, ctlVars, loopVars, userVars
  <2>3. ready' \in BOOLEAN BY <1>2 DEF RecoveryDestroyed, RecoveryTornDown
  <2> QED BY <2>1, <2>2, <2>3
<1>3. CASE RecoverySettled
  <2>1. CASE stopping
    <3>1. rec' \in [at : RecPcs, loop : Refs, ctl : Refs] BY <1>3, <2>1 DEF RecoverySettled
    <3>2. UNCHANGED <<ctl, stuck, faults, pc, startLoop, controller, ready, stopping, mishaps, un, rst,
                      session, waiter, lifecycle, startPromise, aborted, promise>>
      BY <1>3, <2>1 DEF RecoverySettled, ctlVars, userVars
    <3> QED BY <3>1, <3>2
  <2>2. CASE ~stopping
    <3>1. PICK l \in Loops :
            /\ rec' = [rec EXCEPT !.at = "command", !.loop = l]
            /\ lifecycle' = l /\ startPromise' = l
            /\ aborted' = [aborted EXCEPT ![l] = FALSE]
            /\ promise' = [promise EXCEPT ![l] = "pending"]
      BY <1>3, <2>2 DEF RecoverySettled
    <3>2. aborted' \in [Loops -> BOOLEAN] BY <3>1
    <3>3. promise' \in [Loops -> {"pending", "resolved"}] BY <3>1
    <3>4. rec' \in [at : RecPcs, loop : Refs, ctl : Refs] BY <3>1
    <3>5. UNCHANGED <<ctl, stuck, faults, pc, startLoop, controller, ready, stopping, mishaps, un, rst,
                      session, waiter>>
      BY <1>3 DEF RecoverySettled, ctlVars, userVars
    <3> QED BY <3>1, <3>2, <3>3, <3>4, <3>5
  <2> QED BY <2>1, <2>2
<1>4. CASE RecoveryRestarts BY <1>4, AttemptType DEF RecoveryRestarts, userVars
<1>5. CASE RecoveryRejects
  BY <1>5, FaultType DEF RecoveryRejects, Mishaps, loopVars, userVars
<1> QED BY <1>1, <1>2, <1>3, <1>4, <1>5 DEF RecoveryStep

LEMMA ResetTypes ==
  ASSUME TypeOK, ResetBegin \/ ResetNetworkStep \/ ResetWrapupFails
  PROVE  TypeOK'
<1> USE DEF TypeOK, ControllerTypeOK
<1>1. CASE ResetBegin
  <2>1. ctl' \in [Names -> Controller]
    <3> DEFINE d == [ctl[controller] EXCEPT !.reset = "stop", !.adapter = FALSE]
    <3>1. ctl' = [ctl EXCEPT ![controller] = d] BY <1>1 DEF ResetBegin, ResetCall
    <3>2. ctl[controller] \in Controller BY <1>1 DEF ResetBegin
    <3>3. d \in Controller BY <3>2 DEF Controller, ResetPcs
    <3> HIDE DEF d
    <3> QED BY <3>1, <3>3
  <2> QED BY <1>1, <2>1 DEF ResetBegin, loopVars, userVars
<1>2. CASE ResetRadioDone \/ ResetDone
  BY <1>2 DEF ResetRadioDone, ResetDone, ctlVars, loopVars, userVars
<1>3. CASE ResetRadioFails \/ ResetWrapupFails
  BY <1>3, RecoverType, FaultType DEF ResetRadioFails, ResetWrapupFails, ResetEndsInRecovery
<1> QED BY <1>1, <1>2, <1>3 DEF ResetNetworkStep

LEMMA UninitTypes ==
  ASSUME TypeOK, UninitBegin \/ UninitStep \/ UninitRejects
  PROVE  TypeOK'
<1> USE DEF TypeOK, ControllerTypeOK, UnPcs
<1>1. CASE UninitDestroys
  <2>1. ctl' \in [Names -> Controller]
    <3>1. CASE controller = None BY <1>1, <3>1 DEF UninitDestroys
    <3>2. CASE controller # None /\ SuppressAndDestroy(controller) BY <3>2, SuppressType
    <3>3. CASE controller # None /\ DestroyCall(controller)
      <4>1. controller \in Loops /\ ctl[controller] \in Controller BY <3>3
      <4>2. Destroying(ctl[controller]) \in Controller BY <4>1, DestroyShape
      <4> QED BY <3>3, <4>1, <4>2 DEF DestroyCall
    <3> QED BY <1>1, <3>1, <3>2, <3>3 DEF UninitDestroys
  <2>2. un' \in [at : UnPcs, ctl : Refs, backup : BOOLEAN] BY <1>1 DEF UninitDestroys
  <2>3. UNCHANGED <<stuck, faults, pc, aborted, promise, lifecycle, startLoop, startPromise,
                    controller, ready, stopping, mishaps, rec, rst, session, waiter>>
    BY <1>1 DEF UninitDestroys, loopVars, userVars
  <2> QED BY <2>1, <2>2, <2>3
<1>2. CASE UninitDestroyed \/ UninitTornDown \/ UninitSettled
  <2>1. un' \in [at : UnPcs, ctl : Refs, backup : BOOLEAN]
    BY <1>2 DEF UninitDestroyed, UninitTornDown, UninitSettled
  <2>2. UNCHANGED <<ctl, stuck, faults, pc, aborted, promise, lifecycle, startLoop, startPromise,
                    controller, stopping, mishaps, rec, rst, session, waiter>>
    BY <1>2 DEF UninitDestroyed, UninitTornDown, UninitSettled, ctlVars, loopVars, userVars
  <2>3. ready' \in BOOLEAN BY <1>2 DEF UninitDestroyed, UninitTornDown, UninitSettled
  <2> QED BY <2>1, <2>2, <2>3
<1>4. CASE UninitBegin
  <2>1. aborted' \in [Loops -> BOOLEAN] BY <1>4 DEF UninitBegin
  <2>2. un' \in [at : UnPcs, ctl : Refs, backup : BOOLEAN] BY <1>4 DEF UninitBegin
  <2>3. UNCHANGED <<ctl, stuck, faults, pc, promise, lifecycle, startLoop, startPromise, controller, ready,
                    mishaps, rec, rst, waiter>>
    BY <1>4 DEF UninitBegin, ctlVars
  <2>4. stopping' \in BOOLEAN /\ session' \in Refs BY <1>4 DEF UninitBegin
  <2> QED BY <2>1, <2>2, <2>3, <2>4
<1>3. CASE UninitRejects BY <1>3, FaultType DEF UninitRejects, loopVars, userVars
<1> QED BY <1>1, <1>2, <1>3, <1>4 DEF UninitStep

LEMMA UserTypes ==
  ASSUME TypeOK, StartPairing \/ AbortPairing \/ AwaitReady \/ UNCHANGED vars
  PROVE  TypeOK'
BY DEF StartPairing, AbortPairing, AwaitReady, vars, mgrVars, ctlVars, loopVars, callVars,
       userVars, TypeOK, ControllerTypeOK
-----------------------------------------------------------------------------
(* The other conjuncts, step by step. *)

Rest == /\ Shutdown /\ Supervision /\ InStep /\ Holding /\ Resetting /\ WhileReady
        /\ WhileResetting /\ WhileRecovering /\ Undisturbed /\ Leaving /\ UsedByCurrent /\ OneUser

(* Every controller has only been moved by its own calls.                    *)
AllMove == \A l \in Loops : Moves(ctl[l], ctl'[l])

LEMMA SameMoves ==
  ASSUME CtlOK, UNCHANGED ctl
  PROVE  AllMove
BY DEF AllMove, Moves, CtlOK, Controller, StartSettled, ResetSettled

LEMMA OneMoves ==
  ASSUME CtlOK, NEW l \in Names, NEW d \in Controller, Moves(ctl[l], d),
         ctl' = [ctl EXCEPT ![l] = d]
  PROVE  AllMove
<1>1. ASSUME NEW m \in Loops, m # l PROVE Moves(ctl[m], ctl'[m])
  BY <1>1 DEF Moves, CtlOK, Controller, StartSettled, ResetSettled
<1> QED BY <1>1 DEF AllMove, CtlOK

(* A step of the radio, or one that only settles a call of the manager.      *)
LEMMA Keeps ==
  ASSUME IInv, AllMove, UNCHANGED <<pc, aborted, lifecycle, controller, ready, stopping, rec>>,
         Whole' <=> Whole, Shutdown',
         \/ rst' = rst
         \/ /\ rst'.at = "none" \/ (rst.at # "none" /\ rst'.ctl = rst.ctl)
            /\ \A l \in Loops : ResetSettled(ctl[l]),
         session' \in {session, None} \/ ready
  PROVE  Rest'
<1> USE DEF IInv, AllMove
<1>0. controller \in Refs /\ ctl \in [Names -> Controller] BY DEF TypeOK, ControllerTypeOK
<1>1. Supervision' BY DEF Supervision, Supervising
<1>2. InStep' BY DEF InStep, Moves, StartSettled
<1>3. Holding' BY DEF Holding, Supervising, Moves
<1>4. Resetting' BY DEF Resetting, Moves, ResetSettled
<1>5. WhileReady' BY <1>0 DEF WhileReady, Calm, Served, Quiet, Moves, StartSettled
<1>6. WhileResetting' BY DEF WhileResetting, Calm
<1>7. WhileRecovering'
  BY <1>0 DEF WhileRecovering, WhileReady, Calm, Served, Quiet, Moves, StartSettled
<1>8. Undisturbed' BY DEF Undisturbed, Calm, Quiet
<1>9. Leaving' BY DEF Leaving, Calm, Moves
<1>10. \A l \in Loops : Uses(l)' => Uses(l)
  <2>1. ASSUME NEW l \in Loops, ctl'[l].port PROVE Uses(l)
    BY <2>1 DEF Uses, Moves, ResetSettled
  <2>2. ASSUME NEW l \in Loops, ~ResetSettled(ctl'[l]) PROVE Uses(l)
    BY <2>2 DEF Uses, Moves, ResetSettled
  <2>3. ASSUME NEW l \in Loops, ctl'[l].start \in {"load", "open", "release"} PROVE Uses(l)
    BY <2>3 DEF Uses, Moves
  <2> QED BY <2>1, <2>2, <2>3 DEF Uses
<1>11. UsedByCurrent' BY <1>10 DEF UsedByCurrent, Calm
<1>12. OneUser' BY <1>10 DEF OneUser
<1> QED BY <1>1, <1>2, <1>3, <1>4, <1>5, <1>6, <1>7, <1>8, <1>9, <1>11, <1>12 DEF Rest

-----------------------------------------------------------------------------
(* Recovery. *)

LEMMA RecoverRest ==
  ASSUME IInv, TypeOK', AllMove, UNCHANGED <<pc, lifecycle, controller, stopping>>,
         Whole' <=> Whole, Shutdown', Recover, Calm => ready,
         \/ rst' = rst /\ rst.at = "none"
         \/ rst'.at = "none" /\ \A l \in Loops : ResetSettled(ctl[l])
  PROVE  Rest'
<1>1. CASE UNCHANGED <<rec, ready, startPromise, aborted, session>>
  BY <1>1, Keeps
<1>2. CASE /\ rec.at = "none" /\ ~stopping
           /\ rec'.at = "local"
           /\ ready' = FALSE /\ session' = None
           /\ aborted' = [aborted EXCEPT ![lifecycle] = TRUE]
  <2> USE DEF IInv, AllMove
  <2>0. /\ controller \in Refs /\ lifecycle \in Loops /\ aborted \in [Loops -> BOOLEAN]
        /\ ctl \in [Names -> Controller]
    BY DEF TypeOK, ControllerTypeOK
  <2>10. \A l \in Loops : aborted'[l] <=> aborted[l] \/ l = lifecycle BY <1>2, <2>0
  <2>1. Supervision' BY <1>2, <2>0, <2>10 DEF Supervision, Supervising
  <2>2. InStep' BY DEF InStep, Moves, StartSettled
  <2>3. Holding' BY <1>2, <2>10 DEF Holding, Supervision, Supervising, Moves
  <2>4. Resetting'
    BY <1>2 DEF Resetting, Moves, ResetSettled
  <2>5. WhileReady' BY <1>2 DEF WhileReady
  <2>6. WhileResetting' BY <1>2 DEF WhileResetting
  <2>7. WhileRecovering'
    BY <1>2, <2>0 DEF WhileRecovering, WhileReady, Calm, Served, Quiet, Moves, StartSettled
  <2>8. Undisturbed' BY <1>2, <2>0, <2>10 DEF Undisturbed, WhileReady, Served, Calm, Quiet
  <2>9. Leaving' BY DEF Leaving, Calm, Moves
  <2>11. \A l \in Loops : Uses(l)' => Uses(l)
    BY DEF Uses, Moves, ResetSettled
  <2>12. UsedByCurrent' BY <2>11 DEF UsedByCurrent, Calm
  <2>13. OneUser' BY <2>11 DEF OneUser
  <2> QED BY <2>1, <2>2, <2>3, <2>4, <2>5, <2>6, <2>7, <2>8, <2>9, <2>12, <2>13 DEF Rest
<1>3. \/ UNCHANGED <<rec, ready, startPromise, aborted, session>>
      \/ /\ rec.at = "none" /\ ~stopping
         /\ rec'.at = "local"
         /\ ready' = FALSE /\ session' = None
         /\ aborted' = [aborted EXCEPT ![lifecycle] = TRUE]
  <2>1. [at |-> "local", loop |-> startLoop, ctl |-> None].at = "local" OBVIOUS
  <2> QED BY <2>1 DEF Recover
<1> QED BY <1>1, <1>2, <1>3

LEMMA TypeFacts ==
  ASSUME TypeOK
  PROVE  /\ CtlOK /\ ctl \in [Names -> Controller] /\ pc \in [Loops -> LoopPcs]
         /\ aborted \in [Loops -> BOOLEAN]
         /\ controller \in Refs /\ lifecycle \in Loops
         /\ ready \in BOOLEAN /\ stopping \in BOOLEAN
         /\ rec \in [at : RecPcs, loop : Refs, ctl : Refs]
         /\ un \in [at : UnPcs, ctl : Refs, backup : BOOLEAN]
         /\ rst \in [at : {"none", "radio", "wrapup"}, ctl : Names \cup {None}]
BY DEF TypeOK, ControllerTypeOK, CtlOK

LEMMA FreedType ==
  ASSUME TypeOK, PortFreed
  PROVE  TypeOK'
<1>1. stuck' \in Nat BY DEF PortFreed, LateStop, TypeOK, ControllerTypeOK
<1> QED BY <1>1 DEF PortFreed, LateStop, mgrVars, loopVars, callVars, userVars, TypeOK,
                    ControllerTypeOK

LEMMA FreedRest ==
  ASSUME IInv, PortFreed
  PROVE  Rest'
<1>1. AllMove BY SameMoves, TypeFacts DEF PortFreed, LateStop, IInv
<1>2. /\ UNCHANGED <<pc, aborted, lifecycle, controller, ready, stopping, rec>>
      /\ rst' = rst /\ session' = session
      /\ (Whole' <=> Whole) /\ Shutdown'
  BY DEF PortFreed, mgrVars, loopVars, callVars, userVars, Whole, IInv, Shutdown
<1> QED BY <1>1, <1>2, Keeps

LEMMA RadioRest ==
  ASSUME IInv, NEW l \in Names, RadioStep(l)
  PROVE  Rest'
<1>1. AllMove
  BY StartMoves, DestroyMoves, ResetMoves, OneMoves, TypeFacts DEF RadioStep, IInv
<1>2. UNCHANGED <<pc, aborted, lifecycle, controller, ready, stopping, rec>>
  BY DEF RadioStep, mgrVars, loopVars, callVars, userVars
<1>3. rst' = rst /\ session' = session
  BY DEF RadioStep, mgrVars, loopVars, callVars, userVars
<1>4. (Whole' <=> Whole) /\ Shutdown'
  BY DEF RadioStep, mgrVars, loopVars, callVars, userVars, Whole, IInv, Shutdown
<1> QED BY <1>1, <1>2, <1>3, <1>4, Keeps

LEMMA LossRest ==
  ASSUME IInv, TypeOK', NEW l \in Names, LinkLost(l)
  PROVE  Rest'
<1>1. AllMove
  BY LossMoves, OneMoves, TypeFacts DEF LinkLost, IInv
<1>2. /\ UNCHANGED <<pc, lifecycle, controller, stopping, rst>>
      /\ Whole' <=> Whole
      /\ Shutdown'
  BY DEF LinkLost, Whole, IInv, Shutdown
<1>3. CASE UNCHANGED <<rec, ready, startPromise, aborted, session>>
  <2>1. session' = session /\ UNCHANGED <<pc, aborted, lifecycle, controller, ready, stopping, rec>>
    BY <1>2, <1>3
  <2> QED BY <1>1, <1>2, <2>1, Keeps
<1>4. CASE rst.at = "none" /\ ready /\ Recover
  BY <1>1, <1>2, <1>4, RecoverRest
<1> QED BY <1>3, <1>4 DEF LinkLost

LEMMA RecoveryDestroysRest ==
  ASSUME IInv, RecoveryDestroys
  PROVE  Rest'
<1> USE DEF IInv
<1>0. /\ controller \in Refs /\ ctl \in [Names -> Controller]
      /\ rec \in [at : RecPcs, loop : Refs, ctl : Refs]
  BY TypeFacts
<1>1. /\ UNCHANGED <<pc, aborted, lifecycle, controller, ready, stopping, rst, session>>
      /\ Whole' <=> Whole
      /\ rec.at = "local" /\ rec'.at = "destroy" /\ rec'.ctl = controller
  BY <1>0 DEF RecoveryDestroys, loopVars, userVars, Whole
<1>2. \A l \in Loops :
        /\ ctl'[l].start = ctl[l].start /\ ctl'[l].reset = ctl[l].reset
        /\ ctl'[l].port = ctl[l].port
        /\ Leave(ctl[l]) /\ StartSettled(ctl[l]) /\ ResetSettled(ctl[l]) => Leave(ctl'[l])
        /\ l # controller => ctl'[l] = ctl[l]
  <2>1. CASE controller = None BY <1>0, <2>1 DEF RecoveryDestroys
  <2>2. CASE controller \in Loops /\ SuppressAndDestroy(controller)
    <3> DEFINE e == Destroying([ctl[controller] EXCEPT !.skip = TRUE])
    <3>1. ctl' = [ctl EXCEPT ![controller] = e] BY <2>2 DEF SuppressAndDestroy
    <3>2. /\ e.start = ctl[controller].start /\ e.reset = ctl[controller].reset
          /\ e.port = ctl[controller].port
          /\ Leave(ctl[controller]) /\ StartSettled(ctl[controller])
             /\ ResetSettled(ctl[controller]) => Leave(e)
      BY <1>0, <2>2, DestroyShape
    <3> HIDE DEF e
    <3> QED BY <1>0, <2>2, <3>1, <3>2
  <2> QED BY <1>0, <2>1, <2>2 DEF RecoveryDestroys
<1>3. Calm => Served /\ session = None /\ rst.at = "none"
  BY <1>1 DEF WhileRecovering, WhileReady, WhileResetting
<1>4. Supervision' BY <1>1 DEF Supervision, Supervising
<1>5. InStep' BY <1>1, <1>2 DEF InStep, StartSettled
<1>6. Holding' BY <1>1 DEF Holding, Supervision, Supervising
<1>7. Resetting' BY <1>1, <1>2 DEF Resetting, ResetSettled
<1>8. WhileReady' BY <1>1 DEF WhileReady, Calm
<1>9. WhileResetting' BY <1>1, <1>3 DEF WhileResetting, Calm
<1>10. WhileRecovering' BY <1>0, <1>1, <1>2, <1>3 DEF WhileRecovering, Calm, Served, Quiet
<1>11. Undisturbed' BY <1>1 DEF Undisturbed, Calm, Quiet
<1>12. Leaving'
  BY <1>0, <1>1, <1>2, <1>3 DEF Leaving, Calm, Served, StartSettled, Resetting
<1>13. \A l \in Loops : Uses(l)' <=> Uses(l) BY <1>1, <1>2 DEF Uses, ResetSettled
<1>14. UsedByCurrent' BY <1>1, <1>13 DEF UsedByCurrent, Calm
<1>15. OneUser' BY <1>1, <1>13 DEF OneUser
<1>16. Shutdown' BY DEF RecoveryDestroys, Shutdown
<1> QED BY <1>4, <1>5, <1>6, <1>7, <1>8, <1>9, <1>10, <1>11, <1>12, <1>14, <1>15, <1>16 DEF Rest

LEMMA RecoveryWaitsRest ==
  ASSUME IInv, RecoveryDestroyed \/ RecoveryTornDown \/ RecoveryRejects
  PROVE  Rest'
<1> USE DEF IInv
<1>0. /\ controller \in Refs /\ lifecycle \in Loops /\ ctl \in [Names -> Controller]
      /\ rec \in [at : RecPcs, loop : Refs, ctl : Refs] /\ ready \in BOOLEAN
  BY TypeFacts
<1>1. /\ UNCHANGED <<pc, aborted, lifecycle, controller, stopping, rst, session, un>>
      /\ ctl' = ctl
      /\ Whole' <=> Whole
      /\ rec.at # "none"
  BY DEF RecoveryDestroyed, RecoveryTornDown, RecoveryRejects, loopVars, userVars, ctlVars, Whole
<1>2. \/ rec'.at = "none" /\ ready' = ready
      \/ /\ rec.at = "destroy" /\ rec'.at = "core" /\ ready' = ready
         /\ rec.ctl # None => ctl[rec.ctl].destroy = "done"
      \/ rec.at = "core" /\ rec'.at = "settle" /\ ready' = FALSE
  <2>1. CASE RecoveryDestroyed
    <3>1. rec' = [rec EXCEPT !.at = "core", !.ctl = None] /\ ready' = ready
      BY <2>1 DEF RecoveryDestroyed
    <3>2. rec'.at = "core" BY <1>0, <3>1
    <3> QED BY <2>1, <3>1, <3>2 DEF RecoveryDestroyed
  <2>2. CASE RecoveryTornDown BY <1>0, <2>2 DEF RecoveryTornDown
  <2>3. CASE RecoveryRejects
    <3>1. rec' = [at |-> "none", loop |-> None, ctl |-> None] /\ ready' = ready
      BY <2>3 DEF RecoveryRejects
    <3>2. rec'.at = "none" BY <3>1
    <3> QED BY <3>1, <3>2
  <2> QED BY <2>1, <2>2, <2>3
<1>3. ready' => ready BY <1>0, <1>2
<1>4. Supervision' BY <1>1, <1>2 DEF Supervision, Supervising
<1>5. InStep' BY <1>1 DEF InStep, StartSettled
<1>6. Holding' BY <1>1, <1>2 DEF Holding, Supervision, Supervising
<1>7. Resetting' BY <1>1 DEF Resetting, ResetSettled
<1>8. WhileReady' BY <1>1, <1>3 DEF WhileReady, Calm
<1>9. WhileResetting' BY <1>1, <1>2 DEF WhileResetting, WhileReady, Calm
<1>10. WhileRecovering' BY <1>0, <1>1, <1>2 DEF WhileRecovering, Calm, Served, Quiet
<1>11. Undisturbed' BY <1>1 DEF Undisturbed, Calm, Quiet
<1>12. Leaving' BY <1>1 DEF Leaving, Calm
<1>13. \A l \in Loops : Uses(l)' <=> Uses(l) BY <1>1 DEF Uses
<1>14. UsedByCurrent' BY <1>1, <1>13 DEF UsedByCurrent, Calm
<1>15. OneUser' BY <1>1, <1>13 DEF OneUser
<1>16. Shutdown' BY <1>1 DEF Shutdown
<1> QED BY <1>4, <1>5, <1>6, <1>7, <1>8, <1>9, <1>10, <1>11, <1>12, <1>14, <1>15, <1>16 DEF Rest

LEMMA RecoverySettledRest ==
  ASSUME IInv, RecoverySettled
  PROVE  Rest'
<1> USE DEF IInv
<1>0. /\ controller \in Refs /\ lifecycle \in Loops /\ ctl \in [Names -> Controller]
      /\ rec \in [at : RecPcs, loop : Refs, ctl : Refs] /\ ready \in BOOLEAN
      /\ aborted \in [Loops -> BOOLEAN]
  BY TypeFacts
<1>1. /\ UNCHANGED <<pc, controller, ready, stopping, rst, session, un>>
      /\ ctl' = ctl
      /\ Whole' <=> Whole
      /\ rec.at = "settle"
  BY DEF RecoverySettled, userVars, ctlVars, Whole
<1>2. CASE stopping
  <2>1. rec'.at = "none" /\ UNCHANGED <<lifecycle, aborted>> BY <1>2 DEF RecoverySettled
  <2>2. Supervision' BY <1>1, <2>1 DEF Supervision, Supervising
  <2>3. Holding' BY <1>1, <1>2 DEF Holding
  <2>4. /\ WhileReady' /\ WhileResetting' /\ WhileRecovering' /\ Undisturbed' /\ Leaving'
        /\ UsedByCurrent'
    BY <1>1, <1>2
       DEF Calm, WhileReady, WhileResetting, WhileRecovering, Undisturbed, Leaving, UsedByCurrent
  <2>5. InStep' /\ Resetting' /\ Shutdown'
    BY <1>1 DEF InStep, StartSettled, Resetting, ResetSettled, Shutdown
  <2>6. OneUser' BY <1>1 DEF OneUser, Uses
  <2> QED BY <2>2, <2>3, <2>4, <2>5, <2>6 DEF Rest
<1>3. CASE ~stopping
  <2>1. PICK l \in Loops :
          /\ Free(l)
          /\ rec' = [rec EXCEPT !.at = "command", !.loop = l]
          /\ lifecycle' = l
          /\ aborted' = [aborted EXCEPT ![l] = FALSE]
    BY <1>3 DEF RecoverySettled
  <2>2. rec'.at = "command" /\ rec'.loop = l BY <1>0, <2>1
  <2>3. ~Supervising(l) BY <2>1 DEF Free, Supervising
  <2>4. \A m \in Loops : aborted'[m] <=> m # l /\ aborted[m] BY <1>0, <2>1
  <2>5. \A m \in Loops : Supervising(m) => aborted'[m]
    BY <1>1, <2>3, <2>4 DEF Supervision
  <2>6. Supervision' BY <1>1, <2>1, <2>2, <2>3, <2>5 DEF Supervision, Supervising
  <2>7. Holding' BY <1>1, <2>5 DEF Holding, Supervising
  <2>8. WhileReady' /\ WhileResetting' BY <1>1 DEF WhileReady, WhileResetting, Calm
  <2>9. WhileRecovering' BY <1>0, <1>1, <2>2 DEF WhileRecovering, Calm, Served, Quiet
  <2>10. Undisturbed' BY <1>1, <2>1, <2>4 DEF Undisturbed, Calm, Quiet, Free
  <2>11. InStep' /\ Resetting' /\ Shutdown'
    BY <1>1 DEF InStep, StartSettled, Resetting, ResetSettled, Shutdown
  <2>12. Leaving' /\ UsedByCurrent' BY <1>1 DEF Leaving, UsedByCurrent, Uses, Calm
  <2>13. OneUser' BY <1>1 DEF OneUser, Uses
  <2> QED BY <2>6, <2>7, <2>8, <2>9, <2>10, <2>11, <2>12, <2>13 DEF Rest
<1> QED BY <1>2, <1>3

(* A retry or a restarted recovery makes a controller beside no other.       *)
LEMMA AttemptRest ==
  ASSUME IInv, NEW l \in Loops, Attempt(l),
         UNCHANGED <<aborted, lifecycle, ready, stopping, rst, session, un>>,
         Whole' <=> Whole,
         \/ rec' = rec /\ pc[l] = "delay"
         \/ rec.at = "command" /\ rec.loop = l /\ rec'.at = "none"
  PROVE  Rest'
<1> USE DEF IInv
<1>0. /\ controller \in Refs /\ lifecycle \in Loops /\ ctl \in [Names -> Controller]
      /\ pc \in [Loops -> LoopPcs] /\ ready \in BOOLEAN
  BY TypeFacts
<1>1. CASE Halted(l)
  <2>1. pc' = [pc EXCEPT ![l] = "done"] /\ ctl' = ctl /\ controller' = controller
    BY <1>1 DEF Attempt, Goto, ctlVars
  <2>2. \A m \in Loops : pc'[m] = IF m = l THEN "done" ELSE pc[m] BY <1>0, <2>1
  <2>3. Supervision' BY <1>0, <2>2 DEF Supervision, Supervising
  <2>4. InStep'
    <3>1. pc[l] # "start" BY DEF Supervision, Supervising
    <3> QED BY <2>1, <2>2, <3>1 DEF InStep, StartSettled
  <2>5. Holding' BY <2>1, <2>2 DEF Holding, Supervising
  <2>6. Resetting' /\ Leaving' /\ Shutdown'
    BY <2>1 DEF Resetting, ResetSettled, Leaving, Shutdown, Calm
  <2>7. Undisturbed' BY <2>2 DEF Undisturbed, Calm, Quiet
  <2>8. Served => Served' BY <2>1, <2>2 DEF Served, Quiet
  <2>9. WhileReady' /\ WhileResetting'
    BY <2>1, <2>8 DEF WhileReady, WhileResetting, Calm
  <2>10. WhileRecovering' BY <2>1, <2>8 DEF WhileRecovering, Calm
  <2>11. \A m \in Loops : Uses(m)' => Uses(m) BY <2>1, <2>2 DEF Uses
  <2>12. UsedByCurrent' /\ OneUser' BY <2>1, <2>11 DEF UsedByCurrent, OneUser, Calm
  <2> QED BY <2>3, <2>4, <2>5, <2>6, <2>7, <2>9, <2>10, <2>12 DEF Rest
<1>2. CASE ~Halted(l)
  <2>1. /\ pc' = [pc EXCEPT ![l] = "nodes"]
        /\ ctl' = [ctl EXCEPT ![l] = NewController]
        /\ controller' = l
        /\ ~aborted[l] /\ ~stopping
    BY <1>2 DEF Attempt, Goto, Halted
  <2>2. \A m \in Loops : pc'[m] = IF m = l THEN "nodes" ELSE pc[m] BY <1>0, <2>1
  <2>3. \A m \in Loops : ctl'[m] = IF m = l THEN NewController ELSE ctl[m] BY <1>0, <2>1
  <2>4. l = lifecycle BY <2>1 DEF Supervision, Supervising
  <2>5. Calm => ~ready /\ rst.at = "none"
    BY DEF WhileReady, WhileResetting, Served, Quiet
  <2>6. Calm => \A m \in Loops : ~Uses(m)
    <3>1. SUFFICES ASSUME Calm, NEW m \in Loops, Uses(m) PROVE FALSE OBVIOUS
    <3>2. controller = m BY <3>1 DEF UsedByCurrent
    <3>3. CASE pc[l] = "delay" BY <2>1, <3>2, <3>3 DEF Holding, Supervising
    <3>4. CASE rec.at = "command"
      <4>1. /\ ctl[m].start = "started" /\ ctl[m].destroy = "done"
            /\ pc[m] \in {"free", "done", "local"}
        BY <3>1, <3>2, <3>4 DEF WhileRecovering, Served, Quiet
      <4>2. ResetSettled(ctl[m]) /\ ~ctl[m].port
        BY <3>1, <4>1 DEF Leaving, Leave, ResetSettled
      <4> QED BY <3>1, <4>1, <4>2 DEF Uses
    <3> QED BY <3>3, <3>4
  <2>7. Supervision' BY <2>2, <2>4 DEF Supervision, Supervising
  <2>8. InStep' BY <2>2, <2>3, NewShape DEF InStep, StartSettled
  <2>9. Holding' BY <2>1, <2>2, <2>3, <2>4, NewShape DEF Holding, Supervision, Supervising
  <2>10. Resetting' BY <2>3, NewShape DEF Resetting, ResetSettled
  <2>11. WhileReady' /\ WhileResetting' BY <2>5 DEF WhileReady, WhileResetting, Calm
  <2>12. WhileRecovering' BY DEF WhileRecovering, Served, Quiet, Calm
  <2>13. Undisturbed' BY <2>1, <2>2 DEF Undisturbed, Calm, Quiet
  <2>14. Leaving' BY <2>3, NewShape DEF Leaving, Calm
  <2>15. \A m \in Loops : m # l /\ Uses(m)' => Uses(m) BY <2>2, <2>3 DEF Uses
  <2>16. UsedByCurrent' /\ OneUser'
    BY <2>1, <2>6, <2>15 DEF UsedByCurrent, OneUser, Calm
  <2>17. Shutdown' BY DEF Shutdown
  <2> QED BY <2>7, <2>8, <2>9, <2>10, <2>11, <2>12, <2>13, <2>14, <2>16, <2>17 DEF Rest
<1> QED BY <1>1, <1>2

-----------------------------------------------------------------------------
(* The start loop. *)

(* A loop at work that was not told to stop is the current one.              *)
LEMMA AtWork ==
  ASSUME IInv, Calm, NEW l \in Loops, ~Quiet(l)
  PROVE  /\ ~aborted[l] /\ ~Halted(l) /\ l = lifecycle
         /\ ~ready /\ rec.at = "none" /\ rst.at = "none"
         /\ \A m \in Loops : ResetSettled(ctl[m])
         /\ pc[l] # "delay" => controller = l
         /\ \A m \in Loops : m # l => Quiet(m)
<1> USE DEF IInv
<1>1. ~aborted[l] /\ ~Halted(l) BY DEF Undisturbed, Calm, Halted
<1>2. Supervising(l) BY DEF Quiet, Supervising
<1>3. l = lifecycle BY <1>1, <1>2 DEF Supervision
<1>4. ~ready /\ rec.at = "none" BY DEF WhileReady, WhileRecovering, Served
<1>5. rst.at = "none" BY <1>4 DEF WhileResetting
<1>6. \A m \in Loops : ResetSettled(ctl[m]) BY <1>5 DEF Resetting
<1>7. pc[l] # "delay" => controller = l BY <1>1, <1>2 DEF Holding, Calm
<1>8. \A m \in Loops : m # l => Quiet(m)
  <2>1. SUFFICES ASSUME NEW m \in Loops, ~Quiet(m) PROVE m = lifecycle BY <1>3
  <2>2. ~aborted[m] BY <2>1 DEF Undisturbed
  <2>3. Supervising(m) BY <2>1 DEF Quiet, Supervising
  <2> QED BY <2>2, <2>3 DEF Supervision
<1> QED BY <1>1, <1>3, <1>4, <1>5, <1>6, <1>7, <1>8

(* Only after a half-ready start is a reset still in flight at the retry; the *)
(* new controller is beside the old one then, and not much is left to keep.  *)
LEMMA OutlivesRest ==
  ASSUME IInv, NEW l \in Loops, Outlives(l), ~Halted(l), ~ResetSettled(ctl[l]), pc[l] = "delay",
         UNCHANGED <<aborted, lifecycle, ready, stopping, session, un, rec>>,
         Whole' <=> Whole
  PROVE  Rest'
<1> USE DEF IInv
<1>0. /\ controller \in Refs /\ lifecycle \in Loops /\ ctl \in [Names -> Controller]
      /\ pc \in [Loops -> LoopPcs]
      /\ rst \in [at : {"none", "radio", "wrapup"}, ctl : Names \cup {None}]
  BY TypeFacts
<1>1. ~Whole' /\ ~Calm'
  <2>1. ~Calm BY AtWork DEF Quiet
  <2> QED BY <2>1 DEF Calm, Halted
<1>2. \A m \in Loops : pc'[m] = IF m = l THEN "nodes" ELSE pc[m] BY <1>0 DEF Outlives, Goto
<1>3. \A m \in Loops : ctl'[m] = IF m = l THEN NewController ELSE ctl[m] BY <1>0 DEF Outlives
<1>4. ~aborted[l] /\ controller' = l BY DEF Outlives, Halted
<1>5. l = lifecycle BY <1>4 DEF Supervision, Supervising
<1>6. Supervision' BY <1>2, <1>5 DEF Supervision, Supervising
<1>7. InStep' BY <1>2, <1>3, NewShape DEF InStep, StartSettled
<1>8. Holding' BY <1>2, <1>3, <1>4, <1>5, NewShape DEF Holding, Supervision, Supervising
<1>9. \A m \in Loops : ResetSettled(ctl'[m])
  <2>1. ASSUME NEW m \in Loops, m # l PROVE ResetSettled(ctl[m]) BY <2>1 DEF Resetting
  <2> QED BY <1>3, <2>1, NewShape DEF ResetSettled
<1>10. Resetting' BY <1>9 DEF Resetting
<1>11. /\ WhileReady' /\ WhileResetting' /\ WhileRecovering' /\ Undisturbed' /\ Leaving'
       /\ UsedByCurrent' /\ OneUser' /\ Shutdown'
  BY <1>1
     DEF WhileReady, WhileResetting, WhileRecovering, Undisturbed, Leaving, UsedByCurrent, OneUser,
         Shutdown
<1> QED BY <1>6, <1>7, <1>8, <1>10, <1>11 DEF Rest

(* A loop goes on to another await, over a controller that keeps what it has. *)
LEMMA GoesOn ==
  ASSUME IInv, NEW l \in Loops, NEW at \in LoopPcs \ {"free", "nodes", "delay"},
         pc' = [pc EXCEPT ![l] = at], Supervising(l),
         UNCHANGED <<aborted, lifecycle, controller, stopping, rst, session, un, rec>>,
         Whole' => Whole,
         pc[l] # "delay",
         \A m \in Loops : m # l => ctl'[m] = ctl[m],
         ctl'[l].reset = ctl[l].reset, ctl'[l].port = ctl[l].port,
         ctl'[l].start \in {"load", "open", "release"} =>
           pc[l] = "nodes" \/ ctl'[l].start = ctl[l].start,
         at # "start" => StartSettled(ctl'[l]),
         at \in {"core", "local"} => ctl'[l].start = "started",
         at \in {"start", "core", "local"} =>
           /\ pc[l] \in {"nodes", "start", "core", "local"}
           /\ ctl'[l].destroy = ctl[l].destroy
           /\ ctl'[l].destroyed => ctl[l].destroyed,
         Calm /\ Leave(ctl[l]) /\ ResetSettled(ctl[l])
           /\ (pc[l] = "nodes" => ctl[l].start = "new" /\ ctl[l].destroy = "no") => Leave(ctl'[l]),
         \/ ready' = ready /\ at # "local"
         \/ ready' = TRUE /\ at = "local",
         (Calm' => pc[l] \in LoopPcs \ {"free", "done", "local"}) \/ (at = "done" /\ ctl' = ctl)
  PROVE  Rest'
<1> USE DEF IInv
<1>0. /\ controller \in Refs /\ lifecycle \in Loops /\ ctl \in [Names -> Controller]
      /\ pc \in [Loops -> LoopPcs] /\ ready \in BOOLEAN /\ CtlOK
  BY TypeFacts
<1>1. \A m \in Loops : pc'[m] = IF m = l THEN at ELSE pc[m] BY <1>0
<1>2. \A m \in Loops : Supervising(m)' => Supervising(m) BY <1>1 DEF Supervising
<1>3. Calm' => Calm BY DEF Calm
<1>4. Supervision' BY <1>1, <1>2 DEF Supervision, Supervising
<1>5. InStep' BY <1>1 DEF InStep, StartSettled
<1>6. Holding'
  <2>1. SUFFICES ASSUME NEW m \in Loops, Supervising(m)', ~aborted[m], ~stopping
        PROVE  /\ controller = IF pc'[m] = "delay" THEN None ELSE m
               /\ pc'[m] \in {"nodes", "start", "core", "local"} =>
                    ctl'[m].destroy = "no" /\ ~ctl'[m].destroyed
               /\ pc'[m] = "local" => ready'
    BY DEF Holding
  <2>2. m = lifecycle /\ (Supervising(l) /\ ~aborted[l] => l = lifecycle)
    BY <1>2, <2>1 DEF Supervision
  <2>3. CASE m = l BY <1>1, <2>1, <2>3 DEF Holding
  <2>4. CASE m # l
    <3>1. ready => ready' BY <1>0
    <3> QED BY <1>1, <1>2, <2>1, <2>4, <3>1 DEF Holding
  <2> QED BY <2>3, <2>4
<1>7. Resetting' BY DEF Resetting, ResetSettled
<1>8. Shutdown' BY DEF Shutdown
<1>9. \A m \in Loops : Uses(m)' => Uses(m)
  <2>1. ASSUME NEW m \in Loops, m # l PROVE Uses(m)' => Uses(m) BY <1>1, <2>1 DEF Uses
  <2>2. Uses(l)' => Uses(l) BY <1>1 DEF Uses, ResetSettled
  <2> QED BY <2>1, <2>2
<1>10. UsedByCurrent' /\ OneUser' BY <1>3, <1>9 DEF UsedByCurrent, OneUser
<1>11. CASE at = "done" /\ ctl' = ctl
  <2>1. Served => Served' BY <1>1, <1>11 DEF Served, Quiet
  <2>2. ready' = ready BY <1>11
  <2>3. WhileReady' BY <1>3, <1>11, <2>1, <2>2 DEF WhileReady
  <2>4. WhileResetting' BY <1>3, <2>2 DEF WhileResetting
  <2>5. WhileRecovering' BY <1>3, <1>11, <2>1 DEF WhileRecovering
  <2>6. Undisturbed' BY <1>1, <1>3, <1>11 DEF Undisturbed, Quiet
  <2>7. Leaving' BY <1>3, <1>11 DEF Leaving
  <2> QED BY <1>4, <1>5, <1>6, <1>7, <1>8, <1>10, <2>3, <2>4, <2>5, <2>6, <2>7 DEF Rest
<1>12. CASE Calm' => pc[l] \in LoopPcs \ {"free", "done", "local"}
  <2>0. Calm' =>
          /\ ~aborted[l] /\ ~ready /\ rec.at = "none" /\ rst.at = "none"
          /\ ResetSettled(ctl[l]) /\ controller = l
          /\ \A m \in Loops : m # l => Quiet(m)
    BY <1>3, <1>12, AtWork DEF Quiet
  <2>1. Calm' /\ at \in {"start", "core", "local"} => ctl[l].destroy = "no" /\ ~ctl[l].destroyed
    BY <1>3, <1>12, <2>0 DEF Holding, Calm
  <2>2. WhileReady' BY <1>0, <1>1, <2>0, <2>1 DEF WhileReady, Served, Quiet
  <2>3. WhileResetting' /\ WhileRecovering' BY <2>0 DEF WhileResetting, WhileRecovering
  <2>4. Undisturbed' BY <1>1, <2>0 DEF Undisturbed, Quiet
  <2>5. Leaving'
    <3>1. Calm' => (pc[l] = "nodes" => ctl[l].start = "new" /\ ctl[l].destroy = "no")
      BY <1>3, <2>0 DEF Holding, InStep, Calm, Supervising
    <3> QED BY <1>3, <2>0, <3>1 DEF Leaving
  <2> QED BY <1>4, <1>5, <1>6, <1>7, <1>8, <1>10, <2>2, <2>3, <2>4, <2>5 DEF Rest
<1> QED BY <1>11, <1>12

LEMMA CatchRest ==
  ASSUME IInv, NEW l \in Loops, Catch(l), Whole' => Whole, Supervising(l), pc[l] # "delay",
         StartSettled(ctl[l]),
         Calm' => pc[l] # "local"
  PROVE  Rest'
<1> DEFINE e == Destroying([ctl[l] EXCEPT !.skip = TRUE])
<1>0. ctl \in [Names -> Controller] /\ pc \in [Loops -> LoopPcs] BY TypeFacts DEF IInv
<1>1. ctl' = [ctl EXCEPT ![l] = e] BY DEF Catch, SuppressAndDestroy
<1>2. /\ e.start = ctl[l].start /\ e.reset = ctl[l].reset /\ e.port = ctl[l].port
      /\ Leave(ctl[l]) /\ StartSettled(ctl[l]) /\ ResetSettled(ctl[l]) => Leave(e)
  BY <1>0, DestroyShape
<1> HIDE DEF e
<1>3. ctl'[l] = e /\ \A m \in Loops : m # l => ctl'[m] = ctl[m] BY <1>0, <1>1
<1>4. /\ pc' = [pc EXCEPT ![l] = "cleanup"]
      /\ UNCHANGED <<aborted, lifecycle, controller, stopping, rst, session, un, rec, ready>>
  BY DEF Catch, Goto, callVars, userVars
<1>5. StartSettled(ctl'[l]) BY <1>2, <1>3 DEF StartSettled
<1>6. pc[l] \in LoopPcs \ {"free", "done"} BY <1>0 DEF Supervising
<1> QED BY <1>2, <1>3, <1>4, <1>5, <1>6, GoesOn DEF LoopPcs

LEMMA CleanedUpRest ==
  ASSUME IInv, NEW l \in Loops, CleanedUp(l)
  PROVE  Rest'
<1> USE DEF IInv
<1>0. /\ controller \in Refs /\ lifecycle \in Loops /\ ctl \in [Names -> Controller]
      /\ pc \in [Loops -> LoopPcs] /\ ready \in BOOLEAN
  BY TypeFacts
<1>1. /\ UNCHANGED <<aborted, lifecycle, stopping, rst, session, un, rec>> /\ ctl' = ctl
      /\ Whole' <=> Whole
      /\ pc[l] = "cleanup" /\ ctl[l].destroy = "done"
      /\ controller' = IF controller = l THEN None ELSE controller
  BY DEF CleanedUp, ctlVars, callVars, userVars, Whole
<1>2. PICK at \in {"done", "delay"} :
        /\ pc' = [pc EXCEPT ![l] = at]
        /\ at = "done" => Halted(l) /\ ready' = ready
        /\ at = "delay" => ~Halted(l) /\ ready' = FALSE
  BY DEF CleanedUp, Goto
<1>3. \A m \in Loops : pc'[m] = IF m = l THEN at ELSE pc[m] BY <1>0, <1>2
<1>4. Calm' => Calm BY <1>1 DEF Calm
<1>5. Calm => /\ ~aborted[l] /\ at = "delay" /\ controller = l /\ ~ready
              /\ rec.at = "none" /\ rst.at = "none"
              /\ ~Uses(l)
  <2>1. SUFFICES ASSUME Calm PROVE /\ ~aborted[l] /\ at = "delay" /\ controller = l /\ ~ready
                                   /\ rec.at = "none" /\ rst.at = "none" /\ ~Uses(l)
    OBVIOUS
  <2>2. /\ ~aborted[l] /\ at = "delay" /\ controller = l /\ ~ready /\ rec.at = "none"
        /\ rst.at = "none" /\ ResetSettled(ctl[l])
    BY <1>1, <1>2, <2>1, AtWork DEF Quiet
  <2>3. StartSettled(ctl[l]) /\ ~ctl[l].adapter BY <1>1, <2>1 DEF Leaving, Leave
  <2>4. ~ctl[l].port
    BY <1>1, <2>1, <2>2, <2>3 DEF Leaving, Leave, StartSettled, ResetSettled
  <2> QED BY <1>1, <2>2, <2>3, <2>4 DEF Uses, StartSettled
<1>6. \A m \in Loops : Uses(m)' => Uses(m) BY <1>1, <1>3 DEF Uses
<1>7. Supervision'
  <2>1. \A m \in Loops : Supervising(m)' => Supervising(m) BY <1>1, <1>3 DEF Supervising
  <2> QED BY <1>0, <1>1, <2>1 DEF Supervision
<1>8. InStep' BY <1>1, <1>3 DEF InStep, StartSettled
<1>9. Holding'
  <2>1. SUFFICES ASSUME NEW m \in Loops, Supervising(m)', ~aborted[m], ~stopping
        PROVE  /\ controller' = IF pc'[m] = "delay" THEN None ELSE m
               /\ pc'[m] \in {"nodes", "start", "core", "local"} =>
                    ctl[m].destroy = "no" /\ ~ctl[m].destroyed
               /\ pc'[m] = "local" => ready'
    BY <1>1 DEF Holding
  <2>2. Supervising(m) BY <1>1, <1>3, <2>1 DEF Supervising
  <2>3. CASE m = l
    <3>1. controller = l BY <1>1, <2>1, <2>2, <2>3 DEF Holding
    <3>2. at = "delay" BY <1>2, <2>1, <2>3 DEF Halted
    <3> QED BY <1>1, <1>3, <2>3, <3>1, <3>2
  <2>4. CASE m # l
    <3>1. at = "done" /\ ready' = ready
      <4>1. aborted[l] BY <1>1, <2>1, <2>2, <2>4 DEF Supervision, Supervising
      <4> QED BY <1>2, <4>1 DEF Halted
    <3> QED BY <1>0, <1>1, <1>3, <2>1, <2>2, <2>4, <3>1 DEF Holding
  <2> QED BY <2>3, <2>4
<1>10. Resetting' /\ Shutdown' BY <1>1 DEF Resetting, ResetSettled, Shutdown
<1>11. WhileReady' BY <1>2, <1>4, <1>5 DEF WhileReady
<1>12. WhileResetting' /\ WhileRecovering' BY <1>1, <1>4, <1>5 DEF WhileResetting, WhileRecovering
<1>13. Undisturbed' BY <1>1, <1>3, <1>4, <1>5 DEF Undisturbed, Quiet
<1>14. Leaving' BY <1>1, <1>4 DEF Leaving
<1>15. UsedByCurrent' BY <1>1, <1>4, <1>5, <1>6 DEF UsedByCurrent
<1>16. OneUser' BY <1>1, <1>6 DEF OneUser
<1> QED BY <1>7, <1>8, <1>9, <1>10, <1>11, <1>12, <1>13, <1>14, <1>15, <1>16 DEF Rest

LEMMA LoopRest ==
  ASSUME IInv, NEW l \in Loops, LoopStep(l) \/ LoopFault(l)
  PROVE  Rest'
<1>0. /\ controller \in Refs /\ lifecycle \in Loops /\ ctl \in [Names -> Controller]
      /\ pc \in [Loops -> LoopPcs] /\ ready \in BOOLEAN
  BY TypeFacts DEF IInv
<1>1. CASE NodesSet(l)
  <2> DEFINE d == [ctl[l] EXCEPT !.start = "load", !.destroyed = FALSE]
  <2>1. ctl' = [ctl EXCEPT ![l] = d] BY <1>1 DEF NodesSet, StartCall
  <2>2. /\ d.start = "load" /\ d.reset = ctl[l].reset /\ d.port = ctl[l].port
        /\ d.destroy = ctl[l].destroy /\ ~d.destroyed /\ d.adapter = ctl[l].adapter
    BY <1>0 DEF Controller
  <2> HIDE DEF d
  <2>3. ctl'[l] = d /\ \A m \in Loops : m # l => ctl'[m] = ctl[m] BY <1>0, <2>1
  <2>4. /\ pc' = [pc EXCEPT ![l] = "start"] /\ pc[l] = "nodes"
        /\ UNCHANGED <<aborted, lifecycle, controller, stopping, rst, session, un, rec, ready>>
        /\ Whole' <=> Whole
    BY <1>1 DEF NodesSet, Goto, callVars, userVars, Whole
  <2>5. Leave(ctl[l]) /\ ctl[l].start = "new" /\ ctl[l].destroy = "no" => Leave(d)
    BY <2>2 DEF Leave
  <2> QED BY <2>2, <2>3, <2>4, <2>5, GoesOn DEF LoopPcs, Supervising
<1>2. CASE NodesFail(l)
  <2>1. ctl[l].start = "new" /\ pc[l] = "nodes" BY <1>2 DEF NodesFail, IInv, InStep
  <2> QED BY <1>2, <2>1, CatchRest DEF NodesFail, Whole, Supervising, StartSettled
<1>3. CASE StartRejects(l)
  BY <1>3, CatchRest DEF StartRejects, Whole, Supervising, StartSettled
<1>4. CASE CoreRejects(l)
  <2>1. ctl[l].start = "started" /\ pc[l] = "core" BY <1>4 DEF CoreRejects, IInv, InStep
  <2> QED BY <1>4, <2>1, CatchRest DEF CoreRejects, Whole, Supervising, StartSettled
<1>5. CASE LocalRejects(l)
  <2>1. ctl[l].start = "started" /\ pc[l] = "local" BY <1>5 DEF LocalRejects, IInv, InStep
  <2> QED BY <1>5, <2>1, CatchRest DEF LocalRejects, Calm, Whole, Supervising, StartSettled
<1>6. CASE StartReturns(l)
  <2>1. /\ pc[l] = "start" /\ ctl[l].start = "started" /\ StartSettled(ctl[l])
        /\ UNCHANGED <<aborted, lifecycle, controller, stopping, rst, session, un, rec, ready>>
        /\ Whole' <=> Whole
    BY <1>6 DEF StartReturns, callVars, userVars, Whole, StartSettled
  <2>2. CASE Halted(l)
    <3> DEFINE e == Destroying([ctl[l] EXCEPT !.skip = TRUE])
    <3>1. ctl' = [ctl EXCEPT ![l] = e] /\ pc' = [pc EXCEPT ![l] = "drop"]
      BY <1>6, <2>2 DEF StartReturns, SuppressAndDestroy, Goto
    <3>2. /\ e.start = ctl[l].start /\ e.reset = ctl[l].reset /\ e.port = ctl[l].port
          /\ Leave(ctl[l]) /\ StartSettled(ctl[l]) /\ ResetSettled(ctl[l]) => Leave(e)
      BY <1>0, DestroyShape
    <3> HIDE DEF e
    <3>3. ctl'[l] = e /\ \A m \in Loops : m # l => ctl'[m] = ctl[m] BY <1>0, <3>1
    <3>4. StartSettled(e) BY <2>1, <3>2 DEF StartSettled
    <3> QED BY <2>1, <3>1, <3>2, <3>3, <3>4, GoesOn DEF LoopPcs, Supervising
  <2>3. CASE ~Halted(l)
    <3>1. ctl' = ctl /\ pc' = [pc EXCEPT ![l] = "core"] BY <1>6, <2>3 DEF StartReturns, Goto
    <3> QED BY <2>1, <3>1, GoesOn DEF LoopPcs, Supervising
  <2> QED BY <2>2, <2>3
<1>7. CASE Dropped(l)
  <2>1. /\ pc[l] = "drop" /\ pc' = [pc EXCEPT ![l] = "done"] /\ ctl' = ctl
        /\ UNCHANGED <<aborted, lifecycle, controller, stopping, rst, session, un, rec, ready>>
        /\ Whole' <=> Whole
    BY <1>7 DEF Dropped, Goto, callVars, userVars, Whole, ctlVars
  <2>2. StartSettled(ctl[l]) BY <2>1 DEF IInv, InStep
  <2> QED BY <2>1, <2>2, GoesOn DEF LoopPcs, Supervising
<1>8. CASE CoreReady(l)
  <2>1. /\ pc[l] = "core" /\ pc' = [pc EXCEPT ![l] = "local"] /\ ctl' = ctl /\ ready' = TRUE
        /\ UNCHANGED <<aborted, lifecycle, controller, stopping, rst, session, un, rec>>
        /\ Whole' <=> Whole
    BY <1>8 DEF CoreReady, Goto, callVars, userVars, Whole, ctlVars
  <2>2. ctl[l].start = "started" /\ StartSettled(ctl[l])
    BY <2>1 DEF IInv, InStep, StartSettled
  <2> QED BY <2>1, <2>2, GoesOn DEF LoopPcs, Supervising
<1>9. CASE LocalReady(l)
  <2>1. /\ pc[l] = "local" /\ pc' = [pc EXCEPT ![l] = "done"] /\ ctl' = ctl
        /\ UNCHANGED <<aborted, lifecycle, controller, stopping, rst, session, un, rec, ready>>
        /\ Whole' <=> Whole
    BY <1>9 DEF LocalReady, Goto, callVars, Whole, ctlVars
  <2>2. StartSettled(ctl[l]) BY <2>1 DEF IInv, InStep
  <2> QED BY <2>1, <2>2, GoesOn DEF LoopPcs, Supervising
<1>10. CASE CleanedUp(l) BY <1>10, CleanedUpRest
<1>11. CASE Retry(l)
  <2>1. /\ pc[l] = "delay"
        /\ UNCHANGED <<aborted, lifecycle, ready, stopping, session, un, rec>>
        /\ Whole' <=> Whole
    BY <1>11 DEF Retry, userVars, Whole
  <2>2. CASE Attempt(l) /\ rst' = rst BY <2>1, <2>2, AttemptRest
  <2>3. CASE ~Halted(l) /\ ~ResetSettled(ctl[l]) /\ Outlives(l)
    BY <2>1, <2>3, OutlivesRest
  <2> QED BY <1>11, <2>2, <2>3 DEF Retry
<1> QED BY <1>1, <1>2, <1>3, <1>4, <1>5, <1>6, <1>7, <1>8, <1>9, <1>10, <1>11
        DEF LoopStep, LoopFault

LEMMA RecoveryRestartsRest ==
  ASSUME IInv, RecoveryRestarts
  PROVE  Rest'
<1>1. rec.loop \in Loops BY TypeFacts DEF RecoveryRestarts, IInv, Supervision
<1>2. /\ Attempt(rec.loop) /\ rec.at = "command"
      /\ UNCHANGED <<aborted, lifecycle, ready, stopping, rst, session, un>>
      /\ Whole' <=> Whole
      /\ rec' = [at |-> "none", loop |-> None, ctl |-> None]
  BY DEF RecoveryRestarts, userVars, Whole
<1>3. rec'.at = "none" BY <1>2
<1> QED BY <1>1, <1>2, <1>3, AttemptRest

-----------------------------------------------------------------------------
(* Reset, shutdown and users. *)

LEMMA ResetBeginRest ==
  ASSUME IInv, ResetBegin
  PROVE  Rest'
<1> USE DEF IInv
<1>0. controller \in Refs /\ ctl \in [Names -> Controller]
  BY TypeFacts
<1>1. /\ UNCHANGED <<pc, aborted, lifecycle, controller, ready, stopping, rec, session, un>>
      /\ Whole' <=> Whole
      /\ ready /\ controller \in Loops /\ rst.at = "none"
      /\ rst'.at = "radio" /\ rst'.ctl = controller
  BY <1>0 DEF ResetBegin, loopVars, userVars, Whole
<1>2. \A l \in Loops :
        /\ ctl'[l].start = ctl[l].start /\ ctl'[l].destroy = ctl[l].destroy
        /\ ctl'[l].destroyed = ctl[l].destroyed /\ ctl'[l].port = ctl[l].port
        /\ l # controller => ctl'[l] = ctl[l]
        /\ l = controller => ctl'[l].reset = "stop"
  <2> DEFINE d == [ctl[controller] EXCEPT !.reset = "stop", !.adapter = FALSE]
  <2>1. ctl' = [ctl EXCEPT ![controller] = d] BY DEF ResetBegin, ResetCall
  <2>2. /\ d.start = ctl[controller].start /\ d.destroy = ctl[controller].destroy
        /\ d.destroyed = ctl[controller].destroyed /\ d.port = ctl[controller].port
        /\ d.reset = "stop"
    BY <1>0, <1>1 DEF Controller
  <2> HIDE DEF d
  <2> QED BY <1>0, <1>1, <2>1, <2>2
<1>3. Supervision' BY <1>1 DEF Supervision, Supervising
<1>4. InStep' BY <1>1, <1>2 DEF InStep, StartSettled
<1>5. Holding' BY <1>1, <1>2 DEF Holding, Supervising
<1>6. Resetting' BY <1>1, <1>2 DEF Resetting, ResetSettled
<1>7. WhileReady' BY <1>1, <1>2 DEF WhileReady, Served, Quiet, Calm
<1>8. WhileResetting' BY <1>1 DEF WhileResetting
<1>9. WhileRecovering' BY <1>1 DEF WhileRecovering, WhileReady, Calm
<1>10. Undisturbed' BY <1>1 DEF Undisturbed, Calm, Quiet
<1>11. Leaving'
  <2>1. Calm => ctl[controller].destroy = "no" BY <1>1 DEF WhileReady
  <2> QED BY <1>1, <1>2, <2>1 DEF Leaving, Leave, Calm
<1>12. \A l \in Loops : Uses(l)' => Uses(l) \/ controller = l
  BY <1>1, <1>2 DEF Uses, ResetSettled
<1>13. UsedByCurrent' /\ OneUser' BY <1>1, <1>12 DEF UsedByCurrent, OneUser, Calm
<1>14. Shutdown' BY <1>1 DEF Shutdown
<1> QED BY <1>3, <1>4, <1>5, <1>6, <1>7, <1>8, <1>9, <1>10, <1>11, <1>13, <1>14 DEF Rest

LEMMA ResetRest ==
  ASSUME IInv, TypeOK', ResetNetworkStep \/ ResetWrapupFails
  PROVE  Rest'
<1>0. CtlOK /\ rst \in [at : {"none", "radio", "wrapup"}, ctl : Names \cup {None}] /\ ready \in BOOLEAN
  BY TypeFacts DEF IInv
<1>1. AllMove
  BY <1>0, SameMoves
     DEF ResetNetworkStep, ResetRadioDone, ResetDone, ResetRadioFails, ResetWrapupFails,
         ResetEndsInRecovery, ctlVars
<1>2. rst.at # "none" /\ \A l \in Loops : ResetSettled(ctl[l])
  <2>1. \/ rst.at = "wrapup"
        \/ rst.at = "radio" /\ ctl[rst.ctl].reset \in {"done", "failed"}
    BY DEF ResetNetworkStep, ResetRadioDone, ResetDone, ResetRadioFails, ResetWrapupFails
  <2> QED BY <2>1 DEF IInv, Resetting, ResetSettled
<1>3. (Whole' <=> Whole) /\ Shutdown'
  BY DEF ResetNetworkStep, ResetRadioDone, ResetDone, ResetRadioFails, ResetWrapupFails,
         ResetEndsInRecovery, Whole, Shutdown, IInv
<1>4. CASE ResetRadioDone \/ ResetDone
  <2>1. UNCHANGED <<pc, aborted, lifecycle, controller, ready, stopping, rec>> /\ session' = session
    BY <1>4 DEF ResetRadioDone, ResetDone, loopVars, userVars
  <2>2. rst'.at = "none" \/ rst'.ctl = rst.ctl
    <3>1. CASE ResetRadioDone BY <1>0, <3>1 DEF ResetRadioDone
    <3>2. CASE rst' = [at |-> "none", ctl |-> None] BY <3>2
    <3> QED BY <1>4, <3>1, <3>2 DEF ResetDone
  <2> QED BY <1>1, <1>2, <1>3, <2>1, <2>2, Keeps
<1>5. CASE ResetEndsInRecovery
  <2>1. UNCHANGED <<pc, lifecycle, controller, stopping>> /\ Recover
        /\ rst' = [at |-> "none", ctl |-> None]
    BY <1>5 DEF ResetEndsInRecovery
  <2>2. Calm => ready BY <1>2 DEF IInv, WhileResetting
  <2>3. rst'.at = "none" BY <2>1
  <2> QED BY <1>1, <1>2, <1>3, <2>1, <2>2, <2>3, RecoverRest
<1> QED BY <1>4, <1>5 DEF ResetNetworkStep, ResetRadioFails, ResetWrapupFails

(* Once Homey is stopping only the parts that speak of the loops are left.    *)
LEMMA StoppingRest ==
  ASSUME IInv, stopping', UNCHANGED <<pc, lifecycle, controller, rst, rec>>,
         Whole' <=> Whole,
         \A l \in Loops : aborted[l] => aborted'[l],
         \A l \in Loops : /\ ctl'[l].start = ctl[l].start /\ ctl'[l].reset = ctl[l].reset
                         /\ ctl'[l].port = ctl[l].port
  PROVE  Rest'
<1> USE DEF IInv
<1>0. lifecycle \in Loops BY TypeFacts
<1>1. Supervision' BY <1>0 DEF Supervision, Supervising
<1>2. InStep' BY DEF InStep, StartSettled
<1>3. Resetting' BY DEF Resetting, ResetSettled
<1>4. /\ Shutdown' /\ Holding' /\ WhileReady' /\ WhileResetting' /\ WhileRecovering'
      /\ Undisturbed' /\ Leaving' /\ UsedByCurrent'
  BY DEF Shutdown, Holding, WhileReady, WhileResetting, WhileRecovering, Undisturbed, Leaving,
         UsedByCurrent, Calm
<1>5. \A l \in Loops : Uses(l)' <=> Uses(l) BY DEF Uses, ResetSettled
<1>6. OneUser' BY <1>5 DEF OneUser
<1> QED BY <1>1, <1>2, <1>3, <1>4, <1>6 DEF Rest

LEMMA UninitRest ==
  ASSUME IInv, UninitBegin \/ UninitStep \/ UninitRejects
  PROVE  Rest'
<1>0. /\ CtlOK /\ controller \in Refs /\ lifecycle \in Loops /\ ctl \in [Names -> Controller]
      /\ aborted \in [Loops -> BOOLEAN]
  BY TypeFacts DEF IInv
<1>1. CASE UninitBegin
  <2>1. /\ stopping' /\ UNCHANGED <<pc, lifecycle, controller, rst, rec>> /\ ctl' = ctl
        /\ aborted' = [aborted EXCEPT ![lifecycle] = TRUE]
        /\ Whole' <=> Whole
    BY <1>1 DEF UninitBegin, ctlVars, Whole
  <2>2. \A l \in Loops : aborted[l] => aborted'[l] BY <1>0, <2>1
  <2> QED BY <2>1, <2>2, StoppingRest
<1>2. CASE UninitStep \/ UninitRejects
  <2>1. stopping
    BY <1>2
       DEF IInv, Shutdown, UninitStep, UninitDestroys, UninitDestroyed, UninitTornDown,
           UninitSettled, UninitRejects
  <2>2. /\ stopping' /\ UNCHANGED <<pc, lifecycle, controller, rst, rec, aborted>>
        /\ Whole' <=> Whole
    BY <1>2, <2>1
       DEF UninitStep, UninitDestroys, UninitDestroyed, UninitTornDown, UninitSettled,
           UninitRejects, ctlVars, loopVars, Whole
  <2>3. \A l \in Loops : /\ ctl'[l].start = ctl[l].start /\ ctl'[l].reset = ctl[l].reset
                        /\ ctl'[l].port = ctl[l].port
    <3>1. CASE ctl' = ctl BY <3>1
    <3>2. CASE /\ controller \in Loops
               /\ SuppressAndDestroy(controller) \/ DestroyCall(controller)
      <4>1. PICK e \in {Destroying(ctl[controller]),
                        Destroying([ctl[controller] EXCEPT !.skip = TRUE])} :
              ctl' = [ctl EXCEPT ![controller] = e]
        BY <3>2 DEF SuppressAndDestroy, DestroyCall
      <4>2. /\ e.start = ctl[controller].start /\ e.reset = ctl[controller].reset
            /\ e.port = ctl[controller].port
        BY <1>0, <3>2, DestroyShape
      <4> QED BY <1>0, <3>2, <4>1, <4>2
    <3> QED BY <1>0, <1>2, <3>1, <3>2
            DEF UninitStep, UninitDestroys, UninitDestroyed, UninitTornDown, UninitSettled,
                UninitRejects, ctlVars
  <2> QED BY <2>2, <2>3, StoppingRest
<1> QED BY <1>1, <1>2

LEMMA UserRest ==
  ASSUME IInv, StartPairing \/ AbortPairing \/ AwaitReady \/ UNCHANGED vars
  PROVE  Rest'
<1>0. CtlOK BY TypeFacts DEF IInv
<1>1. /\ UNCHANGED <<pc, aborted, lifecycle, controller, ready, stopping, rec, un>> /\ rst' = rst
      /\ ctl' = ctl /\ mishaps' = mishaps
      /\ session' \in {session, None} \/ ready
  BY DEF StartPairing, AbortPairing, AwaitReady, vars, mgrVars, ctlVars, loopVars, callVars, userVars
<1>2. (Whole' <=> Whole) /\ Shutdown' BY <1>1 DEF Whole, IInv, Shutdown
<1>3. AllMove BY <1>0, <1>1, SameMoves
<1> QED BY <1>1, <1>2, <1>3, Keeps

-----------------------------------------------------------------------------
(* Induction. *)

LEMMA InitInv == Init => IInv
<1> SUFFICES ASSUME Init PROVE IInv OBVIOUS
<1>1. PICK l \in Loops :
        /\ pc = [m \in Loops |-> IF m = l THEN "nodes" ELSE "free"]
        /\ lifecycle = l /\ startLoop = l /\ startPromise = l /\ controller = l
  BY DEF Init
<1>2. \A m \in Loops : ctl[m] = NewController /\ ~aborted[m] /\ pc[m] = IF m = l THEN "nodes" ELSE "free"
  BY <1>1 DEF Init
<1>3. /\ rec.at = "none" /\ un.at = "none" /\ rst.at = "none" /\ ~ready /\ ~stopping
  BY DEF Init
<1>4. TypeOK
  <2>1. rec \in [at : RecPcs, loop : Refs, ctl : Refs] BY DEF Init, RecPcs
  <2>2. un \in [at : UnPcs, ctl : Refs, backup : BOOLEAN] BY DEF Init, UnPcs
  <2>3. rst \in [at : {"none", "radio", "wrapup"}, ctl : Names \cup {None}] BY DEF Init
  <2>4. ctl \in [Names -> Controller] BY NewShape DEF Init
  <2>5. pc \in [Loops -> LoopPcs] BY <1>1 DEF LoopPcs
  <2> QED BY <1>1, <1>3, <2>1, <2>2, <2>3, <2>4, <2>5 DEF Init, TypeOK, ControllerTypeOK
<1>5. Supervision /\ Shutdown BY <1>1, <1>2, <1>3 DEF Supervision, Supervising, Shutdown
<1>6. InStep BY <1>2, NewShape DEF InStep, StartSettled
<1>7. Holding BY <1>1, <1>2, NewShape DEF Holding, Supervising
<1>8. Resetting BY <1>2, NewShape DEF Resetting, ResetSettled
<1>9. WhileReady /\ WhileResetting /\ WhileRecovering
  BY <1>3 DEF WhileReady, WhileResetting, WhileRecovering
<1>10. Undisturbed BY <1>2 DEF Undisturbed
<1>11. Leaving BY <1>2, NewShape DEF Leaving
<1>12. \A m \in Loops : Uses(m) => m = l BY <1>2, NewShape DEF Uses, ResetSettled
<1>13. UsedByCurrent /\ OneUser BY <1>1, <1>12 DEF UsedByCurrent, OneUser
<1> QED BY <1>4, <1>5, <1>6, <1>7, <1>8, <1>9, <1>10, <1>11, <1>13 DEF IInv

LEMMA InvStep == IInv /\ [Next]_vars => IInv'
<1> SUFFICES ASSUME IInv, [Next]_vars PROVE IInv' OBVIOUS
<1>0. TypeOK BY DEF IInv
<1>1. ASSUME NEW l \in Loops, LoopStep(l) \/ LoopFault(l) PROVE IInv'
  BY <1>0, <1>1, LoopTypes, LoopRest DEF IInv, Rest
<1>2. ASSUME NEW l \in Names, LinkLost(l) PROVE IInv'
  <2>1. TypeOK' BY <1>0, <1>2, LossTypes
  <2> QED BY <1>2, <2>1, LossRest DEF IInv, Rest
<1>3. ASSUME NEW l \in Names, RadioStep(l) PROVE IInv'
  BY <1>0, <1>3, RadioTypes, RadioRest DEF IInv, Rest
<1>8. CASE PortFreed BY <1>0, <1>8, FreedType, FreedRest DEF IInv, Rest
<1>4. CASE RecoveryStep \/ RecoveryRejects
  <2>1. rec.at = "command" => rec.loop \in Loops BY TypeFacts DEF IInv, Supervision
  <2>2. TypeOK' BY <1>0, <1>4, <2>1, RecoveryTypes
  <2>3. Rest'
    BY <1>4, RecoveryDestroysRest, RecoveryWaitsRest, RecoverySettledRest, RecoveryRestartsRest
       DEF RecoveryStep
  <2> QED BY <2>2, <2>3 DEF IInv, Rest
<1>5. CASE ResetBegin \/ ResetNetworkStep \/ ResetWrapupFails
  <2>1. TypeOK' BY <1>0, <1>5, ResetTypes
  <2> QED BY <1>5, <2>1, ResetBeginRest, ResetRest DEF IInv, Rest
<1>6. CASE UninitBegin \/ UninitStep \/ UninitRejects
  BY <1>0, <1>6, UninitTypes, UninitRest DEF IInv, Rest
<1>7. CASE StartPairing \/ AbortPairing \/ AwaitReady \/ UNCHANGED vars
  BY <1>0, <1>7, UserTypes, UserRest DEF IInv, Rest
<1> QED BY <1>1, <1>2, <1>3, <1>4, <1>5, <1>6, <1>7, <1>8 DEF Next

(* The inductive invariant holds in every state ManagerZigbeeEmber can reach. *)
THEOREM Invariance == Spec => []IInv
BY InitInv, InvStep, PTL DEF Spec

(* Every variable keeps its type.                                            *)
THEOREM TypeCorrect == Spec => []TypeOK
<1>1. IInv => TypeOK BY DEF IInv
<1> QED BY <1>1, Invariance, PTL

(* Recovery, retries, resets and shutdown never open an adapter beside one    *)
(* they have not stopped or given up, unless a local hook failed over a base *)
(* that was ready.                                                           *)
THEOREM PortsDoNotCollide == Spec => []OnePort
<1>1. IInv => OnePort BY DEF IInv, OneUser, Whole, Uses, OnePort
<1> QED BY <1>1, Invariance, PTL

(* Of the start loops still running, at most one has not been told to stop:  *)
(* runStartLoop() is only entered again by a recovery that aborted the last. *)
THEOREM SupervisorsDoNotCompete == Spec => []OneSupervisor
<1>1. IInv => OneSupervisor BY DEF IInv, Supervision, OneSupervisor
<1> QED BY <1>1, Invariance, PTL

(* zigbee_ready is only set over a started controller nobody has destroyed.  *)
THEOREM ReadinessIsBacked == Spec => []ReadyIsServed
<1>1. IInv => ReadyIsServed BY DEF IInv, WhileReady, Served, Calm, Whole, ReadyIsServed
<1> QED BY <1>1, Invariance, PTL

(* Once recoverFromDisconnect() has begun no pairing session is left over.   *)
THEOREM PairingsEndWithTheirController == Spec => []RecoveryEndsPairing
<1>1. IInv => RecoveryEndsPairing
  BY DEF IInv, WhileRecovering, Calm, Whole, RecoveryEndsPairing
<1> QED BY <1>1, Invariance, PTL

(* The deferred getZigbeeReady() awaits is only resolved while Zigbee is     *)
(* ready, over this.controller, and before anything destroyed it.            *)
THEOREM WaitersGetTheCurrentController == Spec => ResolvedIsCurrent
<1> DEFINE P == \A l \in Loops : promise[l] = "pending" /\ promise'[l] = "resolved" =>
                  ready /\ controller = l /\ ~ctl[l].destroyed
<1>1. IInv /\ [Next]_vars => [P]_vars
  <2> SUFFICES ASSUME IInv, Next, NEW l \in Loops, promise[l] = "pending", promise'[l] = "resolved"
               PROVE  ready /\ controller = l /\ ~ctl[l].destroyed
    OBVIOUS
  <2>0. promise \in [Loops -> {"pending", "resolved"}] BY DEF IInv, TypeOK
  <2>1. promise' # promise OBVIOUS
  <2>2. LocalReady(l) /\ ~Halted(l) /\ controller = l
    <3>1. CASE \E m \in Loops : LocalReady(m)
      BY <2>0, <3>1 DEF LocalReady
    <3>2. CASE RecoverySettled
      BY <2>0, <3>2 DEF RecoverySettled
    <3>3. CASE \E m \in Loops : LoopStep(m) /\ ~LocalReady(m)
      BY <2>1, <3>3 DEF LoopStep, NodesSet, StartReturns, Dropped, StartRejects, Catch, CoreReady,
        CleanedUp, Retry
    <3>4. CASE \/ \E m \in Loops : LoopFault(m)
               \/ \E m \in Names : LinkLost(m) \/ RadioStep(m)
               \/ PortFreed
      BY <2>1, <3>4 DEF LoopFault, NodesFail, CoreRejects, LocalRejects, Catch, LinkLost, RadioStep,
        PortFreed, mgrVars, loopVars
    <3>5. CASE RecoveryDestroys \/ RecoveryDestroyed \/ RecoveryTornDown \/ RecoveryRestarts
               \/ RecoveryRejects
      BY <2>1, <3>5 DEF RecoveryDestroys, RecoveryDestroyed, RecoveryTornDown, RecoveryRestarts,
        RecoveryRejects, loopVars
    <3>6. CASE ResetBegin \/ ResetNetworkStep \/ ResetWrapupFails
      BY <2>1, <3>6 DEF ResetBegin, ResetNetworkStep, ResetRadioDone, ResetDone, ResetRadioFails,
        ResetWrapupFails, ResetEndsInRecovery, loopVars
    <3>7. CASE UninitBegin \/ UninitStep \/ UninitRejects \/ StartPairing \/ AbortPairing
               \/ AwaitReady
      BY <2>1, <3>7 DEF UninitBegin, UninitStep, UninitDestroys, UninitDestroyed, UninitTornDown,
        UninitSettled, UninitRejects, StartPairing, AbortPairing, AwaitReady, loopVars
    <3> QED BY <3>1, <3>2, <3>3, <3>4, <3>5, <3>6, <3>7 DEF Next, RecoveryStep
  <2> QED BY <2>2 DEF IInv, Holding, Supervising, Halted, LocalReady
<1> QED BY <1>1, Invariance, PTL DEF Spec, ResolvedIsCurrent
=============================================================================
