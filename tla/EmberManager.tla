---------------------------- MODULE EmberManager ----------------------------
(***************************************************************************)
(* ManagerZigbeeEmber.mts: the start loop that keeps trying to start a     *)
(* controller, the recovery that replaces it when the coordinator is lost, *)
(* the reset, and the shutdown, interleaved at every await, over the       *)
(* controllers of EmberController.                                         *)
(*                                                                         *)
(* The base ManagerZigbee of @athombv/homey-core is external.  Of it the   *)
(* model assumes: onZigbeeReady() sets zigbee_ready as it completes and    *)
(* onZigbeeDestroy() clears it; getZigbeeReady() awaits                    *)
(* controllerStartPromise while not ready; the controller's destroy() runs *)
(* _destroy() at once; an adapter reports the loss of its radio once.      *)
(***************************************************************************)
EXTENDS EmberController

CONSTANT None             \* null

ASSUME NoneAssumption == None \notin Names

VARIABLES
  pc,            \* where each start loop is
  aborted,       \* the abort signal each loop was given
  promise,       \* the deferred each loop was given: "pending" or "resolved"
  lifecycle,     \* the loop whose signal this.lifecycleAbort is
  startLoop,     \* this.startLoop
  startPromise,  \* the loop whose deferred is this.controllerStartPromise, or None
  controller,    \* the loop whose controller is this.controller, or None
  ready,         \* this.zigbee_ready
  stopping,      \* this.stopping
  rec,           \* recoverFromDisconnect(); this.recovering is rec.at # "none"
  un,            \* onUninit()
  rst,           \* resetNetwork(); this.resetting is rst.at # "none"
  session,       \* the controller a pairing closes over, or None
  waiter,        \* the loop whose deferred a getZigbeeReady() awaits, or None
  mishaps        \* history: which of Mishaps have happened

loopVars == <<pc, aborted, promise, lifecycle, startLoop, startPromise>>
callVars == <<rec, un, rst>>
userVars == <<session, waiter>>
mgrVars == <<loopVars, controller, ready, stopping, callVars, userVars, mishaps>>
vars == <<ctlVars, mgrVars>>

LoopPcs == {"free", "nodes", "start", "core", "local", "drop", "cleanup", "delay", "done"}
RecPcs == {"none", "local", "destroy", "core", "settle", "command"}
UnPcs == {"none", "local", "destroy", "core", "settle", "done", "failed"}
Refs == Loops \cup {None}

\* halfReady: zigbeeLocal.onZigbeeReady() rejected after the base was ready.
\* lossIgnored: the radio was lost with no call under way that it would fail,
\* while the listener was not to act on it.
\* recoveryRejected: a hook or a state update rejected inside a recovery.
Mishaps == {"halfReady", "lossIgnored", "recoveryRejected"}

\* onInit() has run to its end: the first loop awaits setControllerNodes().
Init ==
  /\ ctl = [l \in Names |-> NewController]
  /\ stuck = 0
  /\ faults = 0
  /\ \E l \in Loops :
       /\ pc = [m \in Loops |-> IF m = l THEN "nodes" ELSE "free"]
       /\ lifecycle = l /\ startLoop = l /\ startPromise = l /\ controller = l
  /\ aborted = [l \in Loops |-> FALSE]
  /\ promise = [l \in Loops |-> "pending"]
  /\ ready = FALSE
  /\ stopping = FALSE
  /\ rec = [at |-> "none", loop |-> None, ctl |-> None]
  /\ un = [at |-> "none", ctl |-> None, backup |-> FALSE]
  /\ rst = [at |-> "none", ctl |-> None]
  /\ session = None
  /\ waiter = None
  /\ mishaps = {}

Goto(l, at) == pc' = [pc EXCEPT ![l] = at]

Halted(l) == aborted[l] \/ stopping

-----------------------------------------------------------------------------
(* runStartLoop()                                                          *)

\* The head of the loop, up to the await of setControllerNodes().
Attempt(l) ==
  IF Halted(l)
  THEN Goto(l, "done") /\ UNCHANGED <<ctlVars, controller>>
  ELSE /\ Goto(l, "nodes")
       /\ controller' = l
       /\ ctl' = [ctl EXCEPT ![l] = NewController]
       /\ UNCHANGED faultVars

\* The catch block, up to the await of destroy().
Catch(l) ==
  /\ SuppressAndDestroy(l)
  /\ Goto(l, "cleanup")
  /\ UNCHANGED <<aborted, promise, lifecycle, startLoop, startPromise, controller,
                 ready, stopping, callVars, userVars>>

NodesSet(l) ==
  /\ pc[l] = "nodes"
  /\ StartCall(l)
  /\ Goto(l, "start")
  /\ UNCHANGED <<faultVars, aborted, promise, lifecycle, startLoop, startPromise,
                 controller, ready, stopping, mishaps, callVars, userVars>>

NodesFail(l) == pc[l] = "nodes" /\ Fault /\ Catch(l) /\ UNCHANGED mishaps

StartReturns(l) ==
  /\ pc[l] = "start"
  /\ ctl[l].start = "started"
  /\ IF Halted(l)
     THEN SuppressAndDestroy(l) /\ Goto(l, "drop")
     ELSE Goto(l, "core") /\ UNCHANGED ctl
  /\ UNCHANGED <<faultVars, aborted, promise, lifecycle, startLoop, startPromise,
                 controller, ready, stopping, mishaps, callVars, userVars>>

Dropped(l) ==
  /\ pc[l] = "drop"
  /\ ctl[l].destroy = "done"
  /\ Goto(l, "done")
  /\ UNCHANGED <<ctlVars, aborted, promise, lifecycle, startLoop, startPromise,
                 controller, ready, stopping, mishaps, callVars, userVars>>

StartRejects(l) ==
  /\ pc[l] = "start" /\ ctl[l].start = "failed"
  /\ Catch(l)
  /\ UNCHANGED <<faultVars, mishaps>>

\* super.onZigbeeReady() completes.
CoreReady(l) ==
  /\ pc[l] = "core"
  /\ ready' = TRUE
  /\ Goto(l, "local")
  /\ UNCHANGED <<ctlVars, aborted, promise, lifecycle, startLoop, startPromise,
                 controller, stopping, mishaps, callVars, userVars>>

\* Mutant: resolves without looking again.
LocalReadyUnchecked(l) ==
  /\ pc[l] = "local"
  /\ promise' = [promise EXCEPT ![l] = "resolved"]
  /\ waiter' = IF waiter = l THEN None ELSE waiter
  /\ Goto(l, "done")
  /\ UNCHANGED <<ctlVars, aborted, lifecycle, startLoop, startPromise, controller,
                 ready, stopping, mishaps, callVars, session>>

\* Mutant: the loop ends without resolving its deferred.
LocalReadyUnresolved(l) ==
  /\ pc[l] = "local"
  /\ Goto(l, "done")
  /\ UNCHANGED <<ctlVars, aborted, promise, lifecycle, startLoop, startPromise,
                 controller, ready, stopping, mishaps, callVars, userVars>>

\* zigbeeLocal.onZigbeeReady() completes, and the deferred is resolved unless
\* the loop was overtaken.
LocalReady(l) ==
  /\ pc[l] = "local"
  /\ IF Halted(l) \/ controller # l
     THEN UNCHANGED <<promise, waiter>>
     ELSE /\ promise' = [promise EXCEPT ![l] = "resolved"]
          /\ waiter' = IF waiter = l THEN None ELSE waiter
  /\ Goto(l, "done")
  /\ UNCHANGED <<ctlVars, aborted, lifecycle, startLoop, startPromise, controller,
                 ready, stopping, mishaps, callVars, session>>

CoreRejects(l) == pc[l] = "core" /\ Fault /\ Catch(l) /\ UNCHANGED mishaps

LocalRejects(l) == pc[l] = "local" /\ Fault /\ Catch(l) /\ mishaps' = mishaps \cup {"halfReady"}

\* destroy() has settled; the state is published and the delay begins.
CleanedUp(l) ==
  /\ pc[l] = "cleanup"
  /\ ctl[l].destroy = "done"
  /\ controller' = IF controller = l THEN None ELSE controller
  /\ IF Halted(l)
     THEN Goto(l, "done") /\ UNCHANGED ready
     ELSE Goto(l, "delay") /\ ready' = FALSE
  /\ UNCHANGED <<ctlVars, aborted, promise, lifecycle, startLoop, startPromise,
                 stopping, mishaps, callVars, userVars>>

\* The next controller is made while a reset of the last is still in flight; the
\* last goes on without a loop, and resetNetwork() with it.
Outlives(l) ==
  /\ Goto(l, "nodes")
  /\ controller' = l
  /\ ctl' = [ctl EXCEPT ![l] = NewController, ![Orphan] = ctl[l]]
  /\ rst' = [rst EXCEPT !.ctl = Orphan]
  /\ Fault

\* The backoff has passed, or the signal was aborted.
Retry(l) ==
  /\ pc[l] = "delay"
  /\ IF Halted(l) \/ ResetSettled(ctl[l]) THEN Attempt(l) /\ UNCHANGED rst ELSE Outlives(l)
  /\ UNCHANGED <<aborted, promise, lifecycle, startLoop, startPromise, ready,
                 stopping, mishaps, rec, un, userVars>>

LoopStep(l) ==
  \/ NodesSet(l) \/ StartReturns(l) \/ Dropped(l) \/ StartRejects(l)
  \/ CoreReady(l) \/ LocalReady(l) \/ CleanedUp(l) \/ Retry(l)

LoopFault(l) == NodesFail(l) \/ CoreRejects(l) \/ LocalRejects(l)

-----------------------------------------------------------------------------
(* recoverFromDisconnect()                                                 *)

\* Mutants: one step of the head is missing.
RecoverWithoutAbort ==
  IF rec.at # "none" \/ stopping
  THEN UNCHANGED <<rec, ready, startPromise, aborted, session>>
  ELSE /\ rec' = [at |-> "local", loop |-> startLoop, ctl |-> None]
       /\ ready' = FALSE /\ startPromise' = None /\ session' = None
       /\ UNCHANGED aborted

RecoverWhileReady ==
  IF rec.at # "none" \/ stopping
  THEN UNCHANGED <<rec, ready, startPromise, aborted, session>>
  ELSE /\ rec' = [at |-> "local", loop |-> startLoop, ctl |-> None]
       /\ startPromise' = None /\ session' = None
       /\ aborted' = [aborted EXCEPT ![lifecycle] = TRUE]
       /\ UNCHANGED ready

RecoverWhilePairing ==
  IF rec.at # "none" \/ stopping
  THEN UNCHANGED <<rec, ready, startPromise, aborted, session>>
  ELSE /\ rec' = [at |-> "local", loop |-> startLoop, ctl |-> None]
       /\ ready' = FALSE /\ startPromise' = None
       /\ aborted' = [aborted EXCEPT ![lifecycle] = TRUE]
       /\ UNCHANGED session

\* The synchronous head: the readiness window closes, the loop is aborted and
\* the sessions end; zigbeeLocal.onZigbeeDestroy() is awaited.
Recover ==
  IF rec.at # "none" \/ stopping
  THEN UNCHANGED <<rec, ready, startPromise, aborted, session>>
  ELSE /\ rec' = [at |-> "local", loop |-> startLoop, ctl |-> None]
       /\ ready' = FALSE
       /\ startPromise' = None
       /\ aborted' = [aborted EXCEPT ![lifecycle] = TRUE]
       /\ session' = None

\* The 'disconnected' event and the listener of runStartLoop().
LinkLost(l) ==
  /\ RadioLost(l)
  /\ IF stopping \/ rst.at # "none" \/ ~ready \/ controller # l
     THEN /\ mishaps' = IF RadioCallPending(l) THEN mishaps
                       ELSE mishaps \cup {"lossIgnored"}
          /\ UNCHANGED <<rec, ready, startPromise, aborted, session>>
     ELSE Recover /\ UNCHANGED mishaps
  /\ UNCHANGED <<pc, promise, lifecycle, startLoop, controller, stopping, un, rst,
                 waiter>>

\* Mutant: recovery forgets the controller instead of destroying it.
RecoveryForgets ==
  /\ rec.at = "local"
  /\ rec' = [rec EXCEPT !.at = "destroy"]
  /\ UNCHANGED <<ctlVars, loopVars, controller, ready, stopping, mishaps, un, rst, userVars>>

RecoveryDestroys ==
  /\ rec.at = "local"
  /\ rec' = [rec EXCEPT !.at = "destroy", !.ctl = controller]
  /\ IF controller = None THEN UNCHANGED ctl ELSE SuppressAndDestroy(controller)
  /\ UNCHANGED <<faultVars, loopVars, controller, ready, stopping, mishaps, un, rst, userVars>>

RecoveryDestroyed ==
  /\ rec.at = "destroy"
  /\ rec.ctl # None => ctl[rec.ctl].destroy = "done"
  /\ rec' = [rec EXCEPT !.at = "core", !.ctl = None]
  /\ UNCHANGED <<ctlVars, loopVars, controller, ready, stopping, mishaps, un, rst, userVars>>

RecoveryTornDown ==
  /\ rec.at = "core"
  /\ ready' = FALSE
  /\ rec' = [rec EXCEPT !.at = "settle"]
  /\ UNCHANGED <<ctlVars, loopVars, controller, stopping, mishaps, un, rst, userVars>>

\* A loop nothing refers to any more.
Free(l) ==
  /\ pc[l] \in {"free", "done"}
  /\ l \notin {lifecycle, startLoop, startPromise, controller, rec.loop, rec.ctl,
               un.ctl, rst.ctl, session, waiter}
  /\ Settled(ctl[l])

\* Mutant: the new loop is given the signal that was aborted.
RecoveryKeepsSignal ==
  /\ rec.at = "settle"
  /\ IF stopping
     THEN /\ rec' = [at |-> "none", loop |-> None, ctl |-> None]
          /\ UNCHANGED <<lifecycle, startPromise, aborted, promise>>
     ELSE \E l \in Loops :
            /\ Free(l)
            /\ rec' = [rec EXCEPT !.at = "command", !.loop = l]
            /\ lifecycle' = l
            /\ startPromise' = l
            /\ aborted' = [aborted EXCEPT ![l] = TRUE]
            /\ promise' = [promise EXCEPT ![l] = "pending"]
  /\ UNCHANGED <<ctlVars, pc, startLoop, controller, ready, stopping, mishaps, un, rst,
                 userVars>>

\* The old loop has ended, or five seconds have passed.
RecoverySettled ==
  /\ rec.at = "settle"
  /\ IF stopping
     THEN /\ rec' = [at |-> "none", loop |-> None, ctl |-> None]
          /\ UNCHANGED <<lifecycle, startPromise, aborted, promise>>
     ELSE \E l \in Loops :
            /\ Free(l)
            /\ rec' = [rec EXCEPT !.at = "command", !.loop = l]
            /\ lifecycle' = l
            /\ startPromise' = l
            /\ aborted' = [aborted EXCEPT ![l] = FALSE]
            /\ promise' = [promise EXCEPT ![l] = "pending"]
  /\ UNCHANGED <<ctlVars, pc, startLoop, controller, ready, stopping, mishaps, un, rst,
                 userVars>>

RecoveryRestarts ==
  /\ rec.at = "command"
  /\ startLoop' = rec.loop
  /\ Attempt(rec.loop)
  /\ rec' = [at |-> "none", loop |-> None, ctl |-> None]
  /\ UNCHANGED <<aborted, promise, lifecycle, startPromise, ready, stopping, mishaps, un,
                 rst, userVars>>

\* onZigbeeDestroy() of zigbeeLocal or of the base, or setCurrentCommand(),
\* rejects: the finally block runs, and nothing else.
RecoveryRejects ==
  /\ rec.at \in {"local", "core", "command"}
  /\ Fault
  /\ rec' = [at |-> "none", loop |-> None, ctl |-> None]
  /\ mishaps' = mishaps \cup {"recoveryRejected"}
  /\ UNCHANGED <<ctl, loopVars, controller, ready, stopping, un, rst, userVars>>

RecoveryStep ==
  \/ RecoveryDestroys \/ RecoveryDestroyed \/ RecoveryTornDown
  \/ RecoverySettled \/ RecoveryRestarts

-----------------------------------------------------------------------------
(* resetNetwork()                                                          *)

\* Mutant: does not ask getZigbeeDirectly().
ResetBeginBlind ==
  /\ rst.at = "none"
  /\ rst' = [at |-> "radio", ctl |-> controller]
  /\ ResetCall(controller)
  /\ UNCHANGED <<faultVars, loopVars, controller, ready, stopping, mishaps, rec, un, userVars>>

ResetBegin ==
  /\ ready /\ controller # None
  /\ rst.at = "none"
  /\ ResetSettled(ctl[controller])
  /\ rst' = [at |-> "radio", ctl |-> controller]
  /\ ResetCall(controller)
  /\ UNCHANGED <<faultVars, loopVars, controller, ready, stopping, mishaps, rec, un, userVars>>

\* The radio is on its new network; nodes are forgotten, satellites rejoin.
ResetRadioDone ==
  /\ rst.at = "radio"
  /\ ctl[rst.ctl].reset = "done"
  /\ rst' = [rst EXCEPT !.at = "wrapup"]
  /\ UNCHANGED <<ctlVars, loopVars, controller, ready, stopping, mishaps, rec, un, userVars>>

ResetDone ==
  /\ rst.at = "wrapup"
  /\ rst' = [at |-> "none", ctl |-> None]
  /\ UNCHANGED <<ctlVars, loopVars, controller, ready, stopping, mishaps, rec, un, userVars>>

ResetEndsInRecovery ==
  /\ rst' = [at |-> "none", ctl |-> None]
  /\ Recover
  /\ UNCHANGED <<ctl, pc, promise, lifecycle, startLoop, controller, stopping, mishaps, un,
                 waiter>>

ResetRadioFails ==
  /\ rst.at = "radio"
  /\ ctl[rst.ctl].reset = "failed"
  /\ UNCHANGED faultVars
  /\ ResetEndsInRecovery

ResetWrapupFails == rst.at = "wrapup" /\ Fault /\ ResetEndsInRecovery

ResetNetworkStep == ResetRadioDone \/ ResetDone \/ ResetRadioFails

-----------------------------------------------------------------------------
(* onUninit()                                                              *)

UninitBegin ==
  /\ un.at = "none"
  /\ un' = [at |-> "local", ctl |-> None, backup |-> ready]
  /\ stopping' = TRUE
  /\ aborted' = [aborted EXCEPT ![lifecycle] = TRUE]
  /\ session' = None
  /\ UNCHANGED <<ctlVars, pc, promise, lifecycle, startLoop, startPromise,
                 controller, ready, mishaps, rec, rst, waiter>>

UninitDestroys ==
  /\ un.at = "local"
  /\ un' = [un EXCEPT !.at = "destroy", !.ctl = controller]
  /\ IF controller = None THEN UNCHANGED ctl
     ELSE IF un.backup THEN DestroyCall(controller) ELSE SuppressAndDestroy(controller)
  /\ UNCHANGED <<faultVars, loopVars, controller, ready, stopping, mishaps, rec, rst, userVars>>

UninitDestroyed ==
  /\ un.at = "destroy"
  /\ un.ctl # None => ctl[un.ctl].destroy = "done"
  /\ un' = [un EXCEPT !.at = "core", !.ctl = None]
  /\ UNCHANGED <<ctlVars, loopVars, controller, ready, stopping, mishaps, rec, rst, userVars>>

UninitTornDown ==
  /\ un.at = "core"
  /\ ready' = FALSE
  /\ un' = [un EXCEPT !.at = "settle"]
  /\ UNCHANGED <<ctlVars, loopVars, controller, stopping, mishaps, rec, rst, userVars>>

\* The loop has ended, or five seconds have passed.
UninitSettled ==
  /\ un.at = "settle"
  /\ un' = [un EXCEPT !.at = "done"]
  /\ UNCHANGED <<ctlVars, loopVars, controller, ready, stopping, mishaps, rec, rst, userVars>>

UninitRejects ==
  /\ un.at \in {"local", "core"}
  /\ Fault
  /\ un' = [un EXCEPT !.at = "failed"]
  /\ UNCHANGED <<ctl, loopVars, controller, ready, stopping, mishaps, rec, rst, userVars>>

UninitStep == UninitDestroys \/ UninitDestroyed \/ UninitTornDown \/ UninitSettled

-----------------------------------------------------------------------------
(* Callers of the manager.                                                 *)

\* awaitDeviceJoinEvent(): core keeps the abort callback of the last pairing.
StartPairing ==
  /\ ready /\ controller # None
  /\ session' = controller
  /\ UNCHANGED <<ctlVars, loopVars, controller, ready, stopping, mishaps, callVars, waiter>>

AbortPairing ==
  /\ session # None
  /\ session' = None
  /\ UNCHANGED <<ctlVars, loopVars, controller, ready, stopping, mishaps, callVars, waiter>>

\* getZigbeeReady()
AwaitReady ==
  /\ ~ready /\ waiter = None
  /\ startPromise # None /\ promise[startPromise] = "pending"
  /\ waiter' = startPromise
  /\ UNCHANGED <<ctlVars, loopVars, controller, ready, stopping, mishaps, callVars, session>>

-----------------------------------------------------------------------------

RadioStep(l) == (StartStep(l) \/ DestroyStep(l) \/ ResetStep(l)) /\ UNCHANGED mgrVars

PortFreed == LateStop /\ UNCHANGED mgrVars

Next ==
  \/ \E l \in Loops : LoopStep(l) \/ LoopFault(l)
  \/ \E l \in Names : LinkLost(l) \/ RadioStep(l)
  \/ PortFreed
  \/ RecoveryStep \/ RecoveryRejects
  \/ ResetBegin \/ ResetNetworkStep \/ ResetWrapupFails
  \/ UninitBegin \/ UninitStep \/ UninitRejects
  \/ StartPairing \/ AbortPairing \/ AwaitReady

Spec == Init /\ [][Next]_vars

\* What is awaited settles: every radio call ends or times out, every hook
\* returns, the backoff passes.  Nothing is assumed of users, of shutdown, of
\* faults, of an adapter that was given up.
Fairness ==
  /\ \A l \in Loops : WF_vars(LoopStep(l))
  /\ \A l \in Names :
       /\ WF_vars(StartStep(l) /\ UNCHANGED mgrVars)
       /\ WF_vars(DestroyStep(l) /\ UNCHANGED mgrVars)
       /\ WF_vars(ResetStep(l) /\ UNCHANGED mgrVars)
  /\ WF_vars(RecoveryStep)
  /\ WF_vars(ResetNetworkStep)
  /\ WF_vars(UninitStep)

FairSpec == Spec /\ Fairness

-----------------------------------------------------------------------------
(* Properties *)

TypeOK ==
  /\ ControllerTypeOK
  /\ pc \in [Loops -> LoopPcs]
  /\ aborted \in [Loops -> BOOLEAN]
  /\ promise \in [Loops -> {"pending", "resolved"}]
  /\ lifecycle \in Loops
  /\ startLoop \in Loops
  /\ startPromise \in Refs
  /\ controller \in Refs
  /\ ready \in BOOLEAN
  /\ stopping \in BOOLEAN
  /\ rec \in [at : RecPcs, loop : Refs, ctl : Refs]
  /\ un \in [at : UnPcs, ctl : Refs, backup : BOOLEAN]
  /\ rst \in [at : {"none", "radio", "wrapup"}, ctl : Names \cup {None}]
  /\ rst.at # "none" => rst.ctl \in Names
  /\ session \in Refs
  /\ waiter \in Refs
  /\ mishaps \subseteq Mishaps

\* The manager never has two adapters on the one serial device: recovery waits
\* for the old controller to be destroyed before a new loop starts one.  Two do
\* share it when one was given up, its stop() having taken five seconds: that one
\* is counted by `stuck', and EventuallyServed is about what follows.  (After a
\* half-ready start a reset can outlive its controller and open an adapter beside
\* its successor's.)
OnePort ==
  "halfReady" \notin mishaps => \A l, m \in Loops : ctl[l].port /\ ctl[m].port => l = m

Supervising(l) == pc[l] \notin {"free", "done"}

\* The listener's comment (ManagerZigbeeEmber.mts:96-97): there is never a
\* second concurrent supervisor.  A loop that is still running beside another
\* has been told to stop.
OneSupervisor ==
  \A l, m \in Loops :
    Supervising(l) /\ Supervising(m) /\ ~aborted[l] /\ ~aborted[m] => l = m

\* While Homey reports Zigbee available there is a started controller that
\* nobody has destroyed; only a local hook that rejects after the base became
\* ready, and shutdown, leave the window open over a destroyed controller.
ReadyIsServed ==
  ready /\ ~stopping /\ "halfReady" \notin mishaps =>
    /\ controller # None
    /\ ctl[controller].start = "started"
    /\ ~ctl[controller].destroyed

\* A getZigbeeReady() caller is only ever handed the current controller, not
\* destroyed, while Zigbee is ready.
ResolvedIsCurrent ==
  [][\A l \in Loops : promise[l] = "pending" /\ promise'[l] = "resolved" =>
       ready /\ controller = l /\ ~ctl[l].destroyed]_vars

\* A recovery leaves no pairing behind for the next controller to inherit.
RecoveryEndsPairing ==
  rec.at # "none" /\ ~stopping /\ "halfReady" \notin mishaps => session = None

Serving == ready /\ controller # None /\ ~ctl[controller].lost

Trying == \E l \in Loops : Supervising(l) /\ ~aborted[l]

\* The manager is never idle over a radio that is not serving: a recovery is
\* under way, a loop that was not told to stop is running, or Zigbee is ready;
\* and then its coordinator is there, unless a reset is about to fail on it.
NobodyGivesUp ==
  ~stopping =>
    /\ "recoveryRejected" \notin mishaps => rec.at # "none" \/ Trying \/ ready
    /\ mishaps = {} =>
         \/ rec.at # "none" \/ Trying \/ Serving
         \/ rst.at = "radio" /\ ctl[controller].reset # "done"

\* The deferred the next getZigbeeReady() will await is resolved, or a loop
\* that was not told to stop runs, or is about to, to resolve it.
WaitersHaveALoop ==
  ~stopping /\ "recoveryRejected" \notin mishaps /\ startPromise # None =>
    \/ promise[startPromise] = "resolved"
    \/ rec.at = "command" /\ rec.loop = startPromise
    \/ Supervising(startPromise) /\ ~aborted[startPromise]

\* Once faults cease and every adapter that was given up has let go of the device
\* Zigbee is served for good, unless Homey is stopped or one of the mishaps
\* happened: retries are not lost among aborted loops, coalesced disconnects,
\* failed resets and recoveries overtaken by others.
EventuallyServed == <>[](Serving \/ stuck > 0 \/ stopping \/ mishaps # {})

\* enhancements/README.md:54-56: replugging the coordinator recovers without a
\* restart.  Refuted: a loss while start() awaits only what cannot fail, or
\* before the hooks are over, is ignored and never looked at again.
LossNoticed ==
  [](ready /\ controller # None => <>(stopping \/ Serving \/ ~ready))

\* enhancements/README.md:54-55: the manager retries indefinitely.  Refuted: a
\* rejection inside recovery leaves neither a loop nor a recovery behind.
RetriesForever ==
  []<>(ready \/ stopping \/ rec.at # "none" \/ \E l \in Loops : Supervising(l))

\* A caller of getZigbeeReady() who waits on the deferred that is the current
\* one does not wait for ever: the loop that owns it resolves it, or recovery
\* replaces it.  (On a deferred that has been replaced he does: recovery drops
\* that of a loop it overtakes between readiness and resolve().)
CurrentWaiterServed ==
  []<>(waiter = None \/ waiter # startPromise \/ stuck > 0 \/ stopping \/ mishaps # {})

\* onUninit() always ends: no loop, controller or recovery can hold it up.
UninitEnds == stopping ~> un.at \in {"done", "failed"}
=============================================================================
