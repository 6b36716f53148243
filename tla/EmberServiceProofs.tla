------------------------- MODULE EmberServiceProofs -------------------------
(***************************************************************************)
(* Nobody is forgotten by ManagerZigbeeEmber: NobodyGivesUp and            *)
(* WaitersHaveALoop, the states its liveness rests on.                     *)
(*                                                                         *)
(* Two more inductive invariants on top of IInv.  Tried: a loop that was   *)
(* not told to stop only ends in a ready manager or with its deferred      *)
(* resolved, and a recovery that ends starts a loop nobody told to stop.   *)
(* Watched: a controller that becomes ready has its coordinator, and one   *)
(* that loses it while ready does so inside a reset, which then fails.     *)
(***************************************************************************)
EXTENDS EmberManagerProofs

(* A loop only drops its controller when told to.                            *)
Dropping == \A l \in Loops : pc[l] = "drop" => aborted[l] \/ stopping

(* The loop a recovery is about to start was told nothing.                   *)
Commanding == rec.at = "command" /\ ~stopping => ~aborted[rec.loop]

Trusted == ~stopping /\ "recoveryRejected" \notin mishaps

Tried == /\ Dropping
         /\ Commanding
         /\ Trusted => rec.at # "none" \/ Trying \/ ready
         /\ WaitersHaveALoop

Alive == ~stopping /\ mishaps = {}

(* start() has backed up its adapter, and its coordinator, before it returns. *)
Starting(l) == pc[l] \in {"start", "core"} =>
  /\ ctl[l].start = "backup" => ctl[l].adapter
  /\ ctl[l].start \in {"group", "started"} => ~ctl[l].lost

(* The coordinator of a ready controller was lost inside reset().            *)
Failing == {"stop", "open", "release", "backup", "failed"}
Ready(c) ==
  /\ c.reset = "backup" => c.adapter
  /\ c.lost => rst.at = "radio" /\ c.reset \in Failing

Watched == Alive => /\ \A l \in Loops : Starting(l)
                    /\ ready => Ready(ctl[controller])

USE NoneAssumption, OrphanAssumption DEF Refs, Names, faultVars

-----------------------------------------------------------------------------
(* Loops, recoveries and waiters. *)

(* A step that leaves loops, recovery and the deferreds alone.               *)
LEMMA Untried ==
  ASSUME Tried, UNCHANGED <<pc, aborted, promise, startPromise, rec>>, stopping => stopping',
         mishaps \subseteq mishaps', ready' = ready \/ stopping'
  PROVE  Tried'
<1>1. Dropping' BY DEF Tried, Dropping
<1>2. Commanding' BY DEF Tried, Commanding
<1>3. (Trusted => rec.at # "none" \/ Trying \/ ready)'
  BY DEF Tried, Trusted, Trying, Supervising
<1>4. WaitersHaveALoop' BY DEF Tried, WaitersHaveALoop, Supervising
<1> QED BY <1>1, <1>2, <1>3, <1>4 DEF Tried

(* A loop that nobody told to stop goes on, or has done what it was for.     *)
LEMMA LoopTried ==
  ASSUME IInv, Tried, NEW l \in Loops, NEW at \in LoopPcs, Supervising(l),
         pc' = [pc EXCEPT ![l] = at], at # "free",
         UNCHANGED <<aborted, stopping, startPromise, rec>>, mishaps \subseteq mishaps',
         at = "drop" => Halted(l),
         promise' = promise \/ promise' = [promise EXCEPT ![l] = "resolved"],
         at = "done" => Halted(l) \/ (ready' /\ promise'[l] = "resolved"),
         ready' \/ ready' = ready \/ (at = "delay" /\ ~Halted(l))
  PROVE  Tried'
<1>0. /\ pc \in [Loops -> LoopPcs] /\ promise \in [Loops -> {"pending", "resolved"}]
      /\ startPromise \in Refs
  BY TypeFacts DEF IInv, TypeOK
<1>1. \A m \in Loops : pc'[m] = IF m = l THEN at ELSE pc[m] BY <1>0
<1>2. \A m \in Loops : Supervising(m)' <=> Supervising(m) /\ ~(m = l /\ at = "done")
  BY <1>1 DEF Supervising
<1>3. Dropping' BY <1>1 DEF Tried, Dropping, Halted
<1>4. Commanding' BY DEF Tried, Commanding
<1>5. (Trusted => rec.at # "none" \/ Trying \/ ready)'
  <2>1. SUFFICES ASSUME Trusted', ~(ready'), rec'.at = "none" PROVE Trying' OBVIOUS
  <2>2. Trusted BY <2>1 DEF Trusted
  <2>3. CASE ready
    <3>1. at = "delay" /\ ~Halted(l) BY <2>1, <2>3
    <3> QED BY <1>2, <3>1 DEF Trying, Halted
  <2>4. CASE ~ready
    <3>1. PICK m \in Loops : Supervising(m) /\ ~aborted[m] BY <2>1, <2>2, <2>4 DEF Tried, Trying
    <3>2. ~(m = l /\ at = "done") BY <2>1, <3>1 DEF Trusted, Halted
    <3> QED BY <1>2, <3>1, <3>2 DEF Trying
  <2> QED BY <2>3, <2>4
<1>6. WaitersHaveALoop'
  <2>1. SUFFICES ASSUME Trusted', startPromise # None, promise'[startPromise] # "resolved"
        PROVE  \/ rec.at = "command" /\ rec.loop = startPromise
               \/ Supervising(startPromise)' /\ ~aborted[startPromise]
    BY DEF WaitersHaveALoop, Trusted
  <2>2. Trusted /\ startPromise \in Loops BY <1>0, <2>1 DEF Trusted
  <2>3. promise[startPromise] # "resolved" BY <1>0, <2>1, <2>2
  <2>4. CASE rec.at = "command" /\ rec.loop = startPromise BY <2>4
  <2>5. CASE Supervising(startPromise) /\ ~aborted[startPromise]
    <3>1. ~(startPromise = l /\ at = "done") BY <2>1, <2>5 DEF Trusted, Halted
    <3> QED BY <1>2, <2>2, <2>5, <3>1
  <2> QED BY <2>2, <2>1, <2>3, <2>4, <2>5 DEF Tried, WaitersHaveALoop, Trusted
<1> QED BY <1>3, <1>4, <1>5, <1>6 DEF Tried

LEMMA CatchTried ==
  ASSUME IInv, Tried, NEW l \in Loops, Supervising(l), Catch(l), mishaps \subseteq mishaps'
  PROVE  Tried'
<1>1. /\ pc' = [pc EXCEPT ![l] = "cleanup"]
      /\ UNCHANGED <<aborted, stopping, startPromise, rec, promise, ready>>
  BY DEF Catch, Goto, callVars
<1> QED BY <1>1, LoopTried DEF LoopPcs

LEMMA LoopStepTried ==
  ASSUME IInv, Tried, NEW l \in Loops, LoopStep(l) \/ LoopFault(l)
  PROVE  Tried'
<1>0. promise \in [Loops -> {"pending", "resolved"}] BY DEF IInv, TypeOK
<1>1. CASE NodesSet(l)
  BY <1>1, LoopTried DEF NodesSet, Goto, callVars, LoopPcs, Supervising
<1>2. CASE NodesFail(l) \/ StartRejects(l) \/ CoreRejects(l) \/ LocalRejects(l)
  BY <1>2, CatchTried DEF NodesFail, StartRejects, CoreRejects, LocalRejects, Supervising
<1>3. CASE StartReturns(l)
  <2>1. /\ pc[l] = "start"
        /\ UNCHANGED <<aborted, stopping, startPromise, rec, promise, ready, mishaps>>
        /\ \E at \in {"drop", "core"} :
             pc' = [pc EXCEPT ![l] = at] /\ (at = "drop" => Halted(l))
    BY <1>3 DEF StartReturns, Goto, callVars
  <2> QED BY <2>1, LoopTried DEF LoopPcs, Supervising
<1>4. CASE Dropped(l)
  <2>1. Halted(l) BY <1>4 DEF Dropped, Tried, Dropping, Halted
  <2> QED BY <1>4, <2>1, LoopTried DEF Dropped, Goto, callVars, LoopPcs, Supervising
<1>5. CASE CoreReady(l)
  BY <1>5, LoopTried DEF CoreReady, Goto, callVars, LoopPcs, Supervising
<1>6. CASE LocalReady(l)
  <2>1. /\ pc[l] = "local" /\ pc' = [pc EXCEPT ![l] = "done"] /\ Supervising(l)
        /\ UNCHANGED <<aborted, stopping, startPromise, rec, ready, mishaps>>
    BY <1>6 DEF LocalReady, Goto, callVars, Supervising
  <2>2. Halted(l) \/ controller # l \/ promise' = [promise EXCEPT ![l] = "resolved"]
    BY <1>6 DEF LocalReady
  <2>3. promise' = promise \/ promise' = [promise EXCEPT ![l] = "resolved"]
    BY <1>6 DEF LocalReady
  <2>4. ~Halted(l) => controller = l /\ ready BY <2>1 DEF IInv, Holding, Halted
  <2>5. ~Halted(l) => ready' /\ promise'[l] = "resolved" BY <1>0, <2>1, <2>2, <2>4
  <2> QED BY <2>1, <2>3, <2>5, LoopTried DEF LoopPcs
<1>7. CASE CleanedUp(l)
  <2>1. /\ pc[l] = "cleanup" /\ Supervising(l)
        /\ UNCHANGED <<aborted, stopping, startPromise, rec, promise, mishaps>>
        /\ \E at \in {"done", "delay"} :
             /\ pc' = [pc EXCEPT ![l] = at]
             /\ at = "done" => Halted(l) /\ ready' = ready
             /\ at = "delay" => ~Halted(l)
    BY <1>7 DEF CleanedUp, Goto, callVars, Supervising
  <2> QED BY <2>1, LoopTried DEF LoopPcs
<1>8. CASE Retry(l)
  <2>1. /\ pc[l] = "delay" /\ Supervising(l)
        /\ UNCHANGED <<aborted, stopping, startPromise, rec, promise, ready, mishaps>>
        /\ \E at \in {"done", "nodes"} :
             pc' = [pc EXCEPT ![l] = at] /\ (at = "done" => Halted(l))
    BY <1>8 DEF Retry, Attempt, Outlives, Goto, Supervising
  <2> QED BY <2>1, LoopTried DEF LoopPcs
<1> QED BY <1>1, <1>2, <1>3, <1>4, <1>5, <1>6, <1>7, <1>8 DEF LoopStep, LoopFault

LEMMA RecoverTried ==
  ASSUME IInv, Tried, Recover, UNCHANGED <<pc, promise, stopping, mishaps>>
  PROVE  Tried'
<1>1. CASE UNCHANGED <<rec, ready, startPromise, aborted, session>> BY <1>1, Untried
<1>2. CASE /\ rec' = [at |-> "local", loop |-> startLoop, ctl |-> None]
           /\ startPromise' = None
           /\ aborted' = [aborted EXCEPT ![lifecycle] = TRUE]
  <2>1. rec'.at = "local" BY <1>2
  <2>2. \A l \in Loops : aborted[l] => aborted'[l] BY <1>2, TypeFacts DEF IInv
  <2>3. Dropping' BY <2>2 DEF Tried, Dropping
  <2> QED BY <1>2, <2>1, <2>3 DEF Tried, Commanding, WaitersHaveALoop
<1> QED BY <1>1, <1>2 DEF Recover

LEMMA RecoveryTried ==
  ASSUME IInv, Tried, RecoveryStep \/ RecoveryRejects
  PROVE  Tried'
<1>0. /\ rec \in [at : RecPcs, loop : Refs, ctl : Refs] /\ aborted \in [Loops -> BOOLEAN]
      /\ pc \in [Loops -> LoopPcs] /\ startPromise \in Refs
      /\ promise \in [Loops -> {"pending", "resolved"}]
  BY TypeFacts DEF IInv, TypeOK
<1>1. CASE RecoveryDestroys \/ RecoveryDestroyed \/ RecoveryTornDown
  <2>1. /\ UNCHANGED <<pc, aborted, promise, startPromise, stopping, mishaps>>
        /\ rec.at # "command" /\ rec.at # "none"
    BY <1>1 DEF RecoveryDestroys, RecoveryDestroyed, RecoveryTornDown, loopVars
  <2>2. rec'.at \in {"destroy", "core", "settle"}
    BY <1>0, <1>1 DEF RecoveryDestroys, RecoveryDestroyed, RecoveryTornDown
  <2>3. Dropping' BY <2>1 DEF Tried, Dropping
  <2>4. WaitersHaveALoop' BY <2>1 DEF Tried, WaitersHaveALoop, Supervising
  <2> QED BY <2>2, <2>3, <2>4 DEF Tried, Commanding
<1>2. CASE RecoverySettled
  <2>1. CASE stopping
    <3>1. stopping' /\ UNCHANGED <<pc, aborted>> BY <1>2, <2>1 DEF RecoverySettled
    <3> QED BY <3>1 DEF Tried, Dropping, Commanding, Trusted, WaitersHaveALoop
  <2>2. CASE ~stopping
    <3>1. PICK l \in Loops :
            /\ Free(l)
            /\ rec' = [rec EXCEPT !.at = "command", !.loop = l]
            /\ startPromise' = l
            /\ aborted' = [aborted EXCEPT ![l] = FALSE]
      BY <1>2, <2>2 DEF RecoverySettled
    <3>2. rec'.at = "command" /\ rec'.loop = l /\ ~aborted'[l] BY <1>0, <3>1
    <3>3. pc' = pc /\ stopping' = stopping BY <1>2 DEF RecoverySettled
    <3>4. \A m \in Loops : m # l => aborted'[m] = aborted[m] BY <1>0, <3>1
    <3>5. pc[l] # "drop" BY <3>1 DEF Free
    <3>6. Dropping' BY <3>3, <3>4, <3>5 DEF Tried, Dropping
    <3>7. WaitersHaveALoop' BY <3>1, <3>2 DEF WaitersHaveALoop
    <3> QED BY <3>2, <3>6, <3>7 DEF Tried, Commanding
  <2> QED BY <2>1, <2>2
<1>3. CASE RecoveryRestarts
  <2>0. rec.loop \in Loops BY <1>0, <1>3, TypeFacts DEF RecoveryRestarts, IInv, Supervision
  <2>1. /\ rec.at = "command" /\ Attempt(rec.loop)
        /\ rec' = [at |-> "none", loop |-> None, ctl |-> None]
        /\ UNCHANGED <<aborted, promise, startPromise, ready, stopping, mishaps>>
    BY <1>3 DEF RecoveryRestarts
  <2>2. rec'.at = "none" BY <2>1
  <2>3. PICK at \in {"done", "nodes"} :
          pc' = [pc EXCEPT ![rec.loop] = at] /\ (at = "done" => Halted(rec.loop))
    BY <2>1 DEF Attempt, Goto
  <2>4. \A m \in Loops : pc'[m] = IF m = rec.loop THEN at ELSE pc[m] BY <1>0, <2>0, <2>3
  <2>5. Trusted' => ~aborted[rec.loop] /\ pc'[rec.loop] = "nodes"
    BY <2>0, <2>1, <2>3, <2>4 DEF Tried, Commanding, Trusted, Halted
  <2>6. ~Supervising(rec.loop) BY <2>1 DEF IInv, Supervision
  <2>7. \A m \in Loops : Supervising(m) => Supervising(m)' BY <2>4, <2>6 DEF Supervising
  <2>8. Dropping' BY <2>1, <2>4 DEF Tried, Dropping
  <2>9. (Trusted => rec.at # "none" \/ Trying \/ ready)'
    BY <2>0, <2>1, <2>5 DEF Trying, Supervising
  <2>10. WaitersHaveALoop'
    BY <1>0, <2>0, <2>1, <2>5, <2>7 DEF Tried, WaitersHaveALoop, Trusted, Supervising
  <2> QED BY <2>2, <2>8, <2>9, <2>10 DEF Tried, Commanding
<1>4. CASE RecoveryRejects
  <2>1. /\ UNCHANGED <<pc, aborted, stopping>> /\ "recoveryRejected" \in mishaps'
        /\ rec' = [at |-> "none", loop |-> None, ctl |-> None]
    BY <1>4 DEF RecoveryRejects, loopVars
  <2>2. rec'.at = "none" BY <2>1
  <2> QED BY <2>1, <2>2 DEF Tried, Dropping, Commanding, Trusted, WaitersHaveALoop
<1> QED BY <1>1, <1>2, <1>3, <1>4 DEF RecoveryStep

LEMMA TriedStep == IInv /\ Tried /\ [Next]_vars => Tried'
<1> SUFFICES ASSUME IInv, Tried, [Next]_vars PROVE Tried' OBVIOUS
<1>1. ASSUME NEW l \in Loops, LoopStep(l) \/ LoopFault(l) PROVE Tried' BY <1>1, LoopStepTried
<1>2. ASSUME NEW l \in Names, LinkLost(l) PROVE Tried'
  <2>1. UNCHANGED <<pc, promise, stopping>> BY <1>2 DEF LinkLost
  <2>2. CASE Recover /\ UNCHANGED mishaps BY <2>1, <2>2, RecoverTried
  <2>3. CASE UNCHANGED <<rec, ready, startPromise, aborted>> /\ mishaps \subseteq mishaps'
    BY <2>1, <2>3, Untried
  <2> QED BY <1>2, <2>2, <2>3 DEF LinkLost
<1>3. ASSUME PortFreed \/ \E l \in Names : RadioStep(l) PROVE Tried'
  BY <1>3, Untried DEF RadioStep, PortFreed, mgrVars, loopVars, callVars
<1>4. CASE RecoveryStep \/ RecoveryRejects BY <1>4, RecoveryTried
<1>5. CASE ResetBegin \/ ResetNetworkStep \/ ResetWrapupFails
  <2>1. CASE ResetEndsInRecovery BY <2>1, RecoverTried DEF ResetEndsInRecovery
  <2>2. CASE ResetBegin \/ ResetRadioDone \/ ResetDone
    BY <2>2, Untried DEF ResetBegin, ResetRadioDone, ResetDone, loopVars
  <2> QED BY <1>5, <2>1, <2>2 DEF ResetNetworkStep, ResetRadioFails, ResetWrapupFails
<1>6. CASE UninitBegin
  <2>1. stopping' /\ pc' = pc /\ rec' = rec BY <1>6 DEF UninitBegin
  <2> QED BY <2>1 DEF Tried, Dropping, Commanding, Trusted, WaitersHaveALoop
<1>7. CASE UninitStep \/ UninitRejects
  <2>1. un.at # "none"
    BY <1>7 DEF UninitStep, UninitDestroys, UninitDestroyed, UninitTornDown, UninitSettled,
      UninitRejects
  <2>2. stopping BY <2>1 DEF IInv, Shutdown
  <2>3. UNCHANGED <<pc, aborted, promise, startPromise, rec, stopping, mishaps>>
    BY <1>7 DEF UninitStep, UninitDestroys, UninitDestroyed, UninitTornDown, UninitSettled,
      UninitRejects, loopVars
  <2> QED BY <2>2, <2>3, Untried
<1>8. CASE StartPairing \/ AbortPairing \/ AwaitReady \/ UNCHANGED vars
  BY <1>8, Untried DEF StartPairing, AbortPairing, AwaitReady, vars, mgrVars, loopVars, callVars
<1> QED BY <1>1, <1>2, <1>3, <1>4, <1>5, <1>6, <1>7, <1>8 DEF Next

-----------------------------------------------------------------------------
(* The coordinator. *)

LEMMA AliveIsCalm == Alive => Calm
BY DEF Alive, Calm, Whole

(* A step that leaves the controllers, or only one that is not ready, alone. *)
LEMMA Unwatched ==
  ASSUME IInv, Watched, Alive' => Alive,
         Alive' => \A l \in Loops : Starting(l)' \/ (ctl'[l] = ctl[l] /\ pc'[l] = pc[l]),
         Alive' => ~ready' \/ (ready /\ ctl'[controller] = ctl[controller]
                                     /\ controller' = controller
                                     /\ (ctl[controller].lost => rst'.at = rst.at))
  PROVE  Watched'
<1> SUFFICES ASSUME Alive' PROVE (\A l \in Loops : Starting(l)) ' /\ (ready => Ready(ctl[controller]))'
  BY DEF Watched
<1>1. \A l \in Loops : Starting(l)' BY DEF Watched, Starting
<1>2. (ready => Ready(ctl[controller]))' BY DEF Watched, Ready
<1> QED BY <1>1, <1>2

LEMMA LoopWatched ==
  ASSUME IInv, Watched, NEW l \in Loops, LoopStep(l) \/ LoopFault(l)
  PROVE  Watched'
<1>0. /\ ctl \in [Names -> Controller] /\ pc \in [Loops -> LoopPcs] /\ ready \in BOOLEAN
      /\ controller \in Refs
  BY TypeFacts DEF IInv
<1>1. Alive' => Alive
  BY DEF Alive, LoopStep, LoopFault, NodesSet, NodesFail, StartReturns, Dropped, StartRejects,
     CoreReady, LocalReady, CoreRejects, LocalRejects, CleanedUp, Retry, Catch
<1>2. SUFFICES ASSUME Alive', Alive, Calm PROVE Watched' BY <1>1, AliveIsCalm DEF Watched
<1>3. CASE NodesSet(l)
  <2>1. ~Quiet(l) BY <1>3 DEF NodesSet, Quiet
  <2>2. ~ready BY <1>2, <2>1, AtWork
  <2>3. \A m \in Loops : m # l => ctl'[m] = ctl[m] /\ pc'[m] = pc[m]
    BY <1>0, <1>3 DEF NodesSet, Goto, StartCall
  <2>4. ctl'[l].start = "load" BY <1>0, <1>3 DEF NodesSet, StartCall, Controller
  <2>5. Starting(l)' BY <2>4 DEF Starting
  <2>6. ~ready' BY <2>2, <1>3 DEF NodesSet
  <2> QED BY <1>1, <2>3, <2>5, <2>6, Unwatched
<1>4. CASE CoreReady(l)
  <2>1. pc[l] = "core" /\ ~Quiet(l) BY <1>4 DEF CoreReady, Quiet
  <2>2. controller = l /\ ResetSettled(ctl[l]) BY <1>2, <2>1, AtWork
  <2>3. ctl[l].start = "started" BY <2>1 DEF IInv, InStep
  <2>4. ~ctl[l].lost BY <1>2, <2>1, <2>3 DEF Watched, Starting
  <2>5. ctl' = ctl /\ controller' = controller BY <1>4 DEF CoreReady, ctlVars
  <2>6. Ready(ctl[l])' BY <2>2, <2>4, <2>5 DEF Ready, ResetSettled
  <2>7. \A m \in Loops : pc'[m] = IF m = l THEN "local" ELSE pc[m]
    BY <1>0, <1>4 DEF CoreReady, Goto
  <2>8. \A m \in Loops : Starting(m)' BY <1>2, <2>5, <2>7 DEF Watched, Starting
  <2> QED BY <2>2, <2>5, <2>6, <2>8 DEF Watched
<1>5. CASE Dropped(l) \/ LocalReady(l)
  <2>1. /\ UNCHANGED <<ready, rst, controller>> /\ ctl' = ctl
        /\ pc' = [pc EXCEPT ![l] = "done"]
    BY <1>5 DEF Dropped, LocalReady, Goto, ctlVars, callVars
  <2>2. \A m \in Loops : pc'[m] = pc[m] \/ pc'[m] = "done" BY <1>0, <2>1
  <2>3. \A m \in Loops : Starting(m)' BY <1>2, <2>1, <2>2 DEF Watched, Starting
  <2> QED BY <1>1, <2>1, <2>3, Unwatched
<1>6. CASE StartReturns(l)
  <2>1. pc[l] = "start" /\ ~Quiet(l) BY <1>6 DEF StartReturns, Quiet
  <2>2. ~Halted(l) /\ ~ready BY <1>2, <2>1, AtWork
  <2>3. ctl' = ctl /\ pc' = [pc EXCEPT ![l] = "core"] /\ ready' = ready
    BY <1>6, <2>2 DEF StartReturns, Goto
  <2>4. \A m \in Loops : pc'[m] = IF m = l THEN "core" ELSE pc[m] BY <1>0, <2>3
  <2>5. \A m \in Loops : Starting(m)' BY <1>2, <2>1, <2>3, <2>4 DEF Watched, Starting
  <2> QED BY <1>1, <2>2, <2>3, <2>5, Unwatched
<1>7. ASSUME Catch(l), ~Quiet(l) PROVE Watched'
  <2>1. ~ready BY <1>2, <1>7, AtWork
  <2>2. \A m \in Loops : m # l => ctl'[m] = ctl[m] /\ pc'[m] = pc[m]
    BY <1>0, <1>7 DEF Catch, Goto, SuppressAndDestroy
  <2>3. pc'[l] = "cleanup" /\ ~ready' BY <1>0, <1>7, <2>1 DEF Catch, Goto
  <2>4. Starting(l)' BY <2>3 DEF Starting
  <2> QED BY <1>1, <2>2, <2>3, <2>4, Unwatched
<1>8. CASE NodesFail(l) \/ StartRejects(l) \/ CoreRejects(l)
  BY <1>7, <1>8 DEF NodesFail, StartRejects, CoreRejects, Quiet
<1>9. CASE LocalRejects(l) BY <1>2, <1>9 DEF LocalRejects, Alive
<1>10. CASE CleanedUp(l) \/ Retry(l)
  <2>1. ~Quiet(l) BY <1>10 DEF CleanedUp, Retry, Quiet
  <2>2. ~ready BY <1>2, <2>1, AtWork
  <2>3. ~ready' BY <1>10, <2>2 DEF CleanedUp, Retry
  <2>4. \A m \in Loops : m # l => ctl'[m] = ctl[m] /\ pc'[m] = pc[m]
    BY <1>0, <1>10 DEF CleanedUp, Retry, Attempt, Outlives, Goto, ctlVars
  <2>5. pc'[l] \in {"done", "delay", "nodes"}
    BY <1>0, <1>10 DEF CleanedUp, Retry, Attempt, Outlives, Goto
  <2>6. Starting(l)' BY <2>5 DEF Starting
  <2> QED BY <1>1, <2>3, <2>4, <2>6, Unwatched
<1> QED BY <1>3, <1>4, <1>5, <1>6, <1>8, <1>9, <1>10 DEF LoopStep, LoopFault

(* The steps of start(), while its loop awaits it.                           *)
LEMMA StartWatched ==
  ASSUME IInv, Watched, NEW l \in Loops, StartStep(l), UNCHANGED mgrVars
  PROVE  Watched'
<1>0. ctl \in [Names -> Controller] BY TypeFacts DEF IInv
<1>1. Alive' => Alive BY DEF Alive, mgrVars
<1>2. SUFFICES ASSUME Alive', Alive, Calm PROVE Watched' BY <1>1, AliveIsCalm DEF Watched
<1>3. ~StartSettled(ctl[l])
  BY DEF StartStep, Loaded, LoadFails, Opened, OpenFails, Released, ReleaseTimesOut,
     BackedUp, BackupFails, GroupAdded, StartSettled
<1>4. pc[l] = "start" BY <1>3 DEF IInv, InStep
<1>5. ~ready BY <1>2, <1>4, AtWork DEF Quiet
<1>6. \A m \in Loops : m # l => ctl'[m] = ctl[m]
  BY <1>0 DEF StartStep, Loaded, LoadFails, Opened, OpenFails, Released, ReleaseTimesOut,
     BackedUp, BackupFails, GroupAdded
<1>7. Starting(l)'
  <2>1. CASE Loaded(l) \/ LoadFails(l) \/ OpenFails(l) \/ Released(l)
            \/ ReleaseTimesOut(l) \/ BackupFails(l)
    <3>1. ctl'[l].start \in {"open", "failed", "release"}
      BY <1>0, <2>1
         DEF Loaded, LoadFails, OpenFails, Released, ReleaseTimesOut, BackupFails, Controller
    <3> QED BY <3>1 DEF Starting
  <2>2. CASE Opened(l)
    <3>1. ctl'[l].start = "backup" /\ ctl'[l].adapter BY <1>0, <2>2 DEF Opened, Controller
    <3> QED BY <3>1 DEF Starting
  <2>3. CASE BackedUp(l)
    <3>1. ~ctl[l].lost BY <1>2, <1>4, <2>3 DEF BackedUp, Watched, Starting
    <3>2. ctl'[l].start = "group" /\ ~ctl'[l].lost BY <1>0, <2>3, <3>1 DEF BackedUp, Controller
    <3> QED BY <3>2 DEF Starting
  <2>4. CASE GroupAdded(l)
    <3>1. ~ctl[l].lost BY <1>2, <1>4, <2>4 DEF GroupAdded, Watched, Starting
    <3>2. ctl'[l].start = "started" /\ ~ctl'[l].lost
      BY <1>0, <2>4, <3>1 DEF GroupAdded, Controller
    <3> QED BY <3>2 DEF Starting
  <2> QED BY <2>1, <2>2, <2>3, <2>4 DEF StartStep
<1> QED BY <1>1, <1>5, <1>6, <1>7, Unwatched DEF mgrVars, loopVars

(* destroy() does not run over a controller that starts, or is ready.        *)
LEMMA DestroyWatched ==
  ASSUME IInv, Watched, NEW l \in Loops, DestroyStep(l), UNCHANGED mgrVars
  PROVE  Watched'
<1>0. ctl \in [Names -> Controller] BY TypeFacts DEF IInv
<1>1. Alive' => Alive BY DEF Alive, mgrVars
<1>2. SUFFICES ASSUME Alive', Alive, Calm PROVE Watched' BY <1>1, AliveIsCalm DEF Watched
<1>3. ctl[l].destroy # "no" BY DEF DestroyStep, FinalBackupEnds, Stopped, StopTimesOut
<1>4. pc[l] \notin {"start", "core"}
  <2>1. pc[l] \in {"start", "core"} => ~aborted[l] BY <1>2 DEF IInv, Undisturbed, Quiet
  <2> QED BY <1>2, <1>3, <2>1 DEF IInv, Holding, Supervising, Calm
<1>5. Starting(l)' BY <1>4 DEF Starting, mgrVars, loopVars
<1>6. \A m \in Loops : m # l => ctl'[m] = ctl[m]
  BY <1>0 DEF DestroyStep, FinalBackupEnds, TakesAdapter, Stopped, StopTimesOut
<1>7. ready => l # controller BY <1>2, <1>3 DEF IInv, WhileReady
<1>8. ready => controller \in Loops
  BY <1>2, TypeFacts DEF IInv, WhileReady, Served
<1> QED BY <1>1, <1>5, <1>6, <1>7, <1>8, Unwatched DEF mgrVars, loopVars, callVars

(* The steps of reset(), over the controller that is ready.                  *)
LEMMA ResetWatched ==
  ASSUME IInv, Watched, NEW l \in Loops, ResetStep(l), UNCHANGED mgrVars
  PROVE  Watched'
<1>0. ctl \in [Names -> Controller] BY TypeFacts DEF IInv
<1>1. Alive' => Alive BY DEF Alive, mgrVars
<1>2. SUFFICES ASSUME Alive', Alive, Calm PROVE Watched' BY <1>1, AliveIsCalm DEF Watched
<1>3. ~ResetSettled(ctl[l])
  BY DEF ResetStep, ResetReplaces, ResetStopTimesOut, ResetStoreFails, ResetOpened, ResetOpenFails,
     ResetReleased, ResetReleaseTimesOut, ResetBackedUp, ResetBackupFails, ResetSettled
<1>4. rst.at = "radio" /\ rst.ctl = l BY <1>3 DEF IInv, Resetting
<1>5. ready /\ controller = l BY <1>2, <1>4 DEF IInv, WhileResetting
<1>6. \A m \in Loops : Quiet(m) BY <1>2, <1>5 DEF IInv, WhileReady, Served
<1>7. \A m \in Loops : Starting(m)' BY <1>6 DEF Starting, Quiet, mgrVars, loopVars
<1>8. Ready(ctl[l]) BY <1>2, <1>5 DEF Watched
<1>9. Ready(ctl[l])'
  <2>1. rst'.at = "radio" BY <1>4 DEF mgrVars, callVars
  <2>2. CASE \/ ResetReplaces(l) \/ ResetStopTimesOut(l) \/ ResetStoreFails(l)
             \/ ResetOpenFails(l) \/ ResetReleased(l) \/ ResetReleaseTimesOut(l)
    <3>1. ctl'[l].reset \in {"open", "failed", "release"}
      BY <1>0, <2>2
         DEF ResetReplaces, ResetStopTimesOut, ResetStoreFails, ResetOpenFails, ResetReleased,
             ResetReleaseTimesOut, Controller
    <3> QED BY <2>1, <3>1 DEF Ready, Failing
  <2>3. CASE ResetOpened(l)
    <3>1. ctl'[l].reset = "backup" /\ ctl'[l].adapter BY <1>0, <2>3 DEF ResetOpened, Controller
    <3> QED BY <2>1, <3>1 DEF Ready, Failing
  <2>4. CASE ResetBackedUp(l)
    <3>1. ~ctl[l].lost BY <1>8, <2>4 DEF Ready, ResetBackedUp
    <3>2. ctl'[l].reset = "done" /\ ~ctl'[l].lost
      BY <1>0, <2>4, <3>1 DEF ResetBackedUp, Controller
    <3> QED BY <3>2 DEF Ready
  <2>5. CASE ResetBackupFails(l)
    <3>1. ctl'[l].reset = "failed" BY <1>0, <2>5 DEF ResetBackupFails, Controller
    <3> QED BY <2>1, <3>1 DEF Ready, Failing
  <2> QED BY <2>2, <2>3, <2>4, <2>5 DEF ResetStep
<1> QED BY <1>5, <1>7, <1>9 DEF Watched, mgrVars

(* A loss nobody acts on is one that a call of start() or reset() reports.   *)
LEMMA LossWatched ==
  ASSUME IInv, Watched, NEW l \in Loops, LinkLost(l)
  PROVE  Watched'
<1>0. ctl \in [Names -> Controller] BY TypeFacts DEF IInv
<1>1. UNCHANGED <<pc, controller, stopping, rst>> /\ mishaps \subseteq mishaps'
  BY DEF LinkLost
<1>2. Alive' => Alive BY <1>1 DEF Alive
<1>3. SUFFICES ASSUME Alive', Alive, Calm PROVE Watched' BY <1>2, AliveIsCalm DEF Watched
<1>4. /\ \A m \in Loops : m # l => ctl'[m] = ctl[m]
      /\ ctl'[l] = [ctl[l] EXCEPT !.lost = TRUE]
  BY <1>0 DEF LinkLost, RadioLost
<1>5. /\ ctl'[l].start = ctl[l].start /\ ctl'[l].reset = ctl[l].reset
      /\ ctl'[l].adapter = ctl[l].adapter
  BY <1>0, <1>4 DEF Controller
<1>6. CASE stopping \/ rst.at # "none" \/ ~ready \/ controller # l
  <2>1. RadioCallPending(l) /\ ready' = ready
    BY <1>3, <1>6 DEF LinkLost, Alive
  <2>2. Starting(l)'
    <3>1. SUFFICES ASSUME pc[l] \in {"start", "core"} PROVE Starting(l)' BY <1>1 DEF Starting
    <3>2. ~Quiet(l) BY <3>1 DEF Quiet
    <3>3. ResetSettled(ctl[l]) BY <1>3, <3>2, AtWork
    <3>4. ctl[l].start \in {"open", "release", "backup"}
      BY <2>1, <3>3 DEF RadioCallPending, ResetSettled
    <3> QED BY <1>1, <1>3, <1>5, <3>1, <3>4 DEF Watched, Starting
  <2>3. \A m \in Loops : Starting(m)' BY <1>1, <1>3, <1>4, <2>2 DEF Watched, Starting
  <2>4. (ready => Ready(ctl[controller]))'
    <3>1. CASE controller = l /\ ready
      <4>1. ctl[l].start = "started" BY <1>3, <3>1 DEF IInv, WhileReady, Served
      <4>2. ctl[l].reset \in {"stop", "open", "release", "backup"} /\ ~ResetSettled(ctl[l])
        BY <2>1, <4>1 DEF RadioCallPending, ResetSettled
      <4>3. rst.at = "radio" BY <4>2 DEF IInv, Resetting
      <4>4. Ready(ctl[l]) BY <1>3, <3>1 DEF Watched
      <4> QED BY <1>1, <1>5, <3>1, <4>2, <4>3, <4>4 DEF Ready, Failing
    <3>2. CASE controller # l /\ ready
      <4>1. controller \in Loops BY <1>3, <3>2, TypeFacts DEF IInv, WhileReady, Served
      <4> QED BY <1>1, <1>3, <1>4, <3>2, <4>1 DEF Watched, Ready
    <3> QED BY <2>1, <3>1, <3>2
  <2> QED BY <2>3, <2>4 DEF Watched
<1>7. CASE ~(stopping \/ rst.at # "none" \/ ~ready \/ controller # l)
  <2>1. rec.at = "none" /\ \A m \in Loops : Quiet(m)
    BY <1>3, <1>7 DEF IInv, WhileReady, Served
  <2>2. ~ready' BY <1>7, <2>1 DEF LinkLost, Recover
  <2>3. \A m \in Loops : Starting(m)' BY <1>1, <2>1 DEF Starting, Quiet
  <2> QED BY <2>2, <2>3 DEF Watched
<1> QED BY <1>6, <1>7

(* A controller that only its reset is left of is not the one that is ready. *)
LEMMA OrphanWatched ==
  ASSUME IInv, Watched, RadioStep(Orphan) \/ LinkLost(Orphan)
  PROVE  Watched'
<1>0. controller \in Refs BY TypeFacts DEF IInv
<1>1. \A m \in Loops : ctl'[m] = ctl[m]
  <2>1. CtlOK BY TypeFacts DEF IInv
  <2>2. \E d \in Controller : ctl' = [ctl EXCEPT ![Orphan] = d]
    BY <2>1, StartMoves, DestroyMoves, ResetMoves, LossMoves DEF RadioStep, LinkLost
  <2> QED BY <2>1, <2>2 DEF CtlOK
<1>2. UNCHANGED <<pc, controller, ready, stopping, rst>> /\ mishaps \subseteq mishaps'
  BY <1>0 DEF RadioStep, LinkLost, mgrVars, loopVars, callVars
<1>3. Alive' => Alive BY <1>2 DEF Alive
<1>4. Alive => (ready => controller \in Loops)
  BY <1>0, AliveIsCalm DEF IInv, WhileReady, Served
<1> QED BY <1>1, <1>2, <1>3, <1>4, Unwatched

LEMMA WatchedStep == IInv /\ Watched /\ [Next]_vars => Watched'
<1> SUFFICES ASSUME IInv, Watched, [Next]_vars PROVE Watched' OBVIOUS
<1>0. /\ ctl \in [Names -> Controller] /\ pc \in [Loops -> LoopPcs] /\ ready \in BOOLEAN
      /\ controller \in Refs /\ rst \in [at : {"none", "radio", "wrapup"}, ctl : Names \cup {None}]
  BY TypeFacts DEF IInv
<1>1. ASSUME NEW l \in Loops, LoopStep(l) \/ LoopFault(l) PROVE Watched' BY <1>1, LoopWatched
<1>2. ASSUME NEW l \in Names, LinkLost(l) PROVE Watched' BY <1>2, LossWatched, OrphanWatched
<1>3. ASSUME NEW l \in Names, RadioStep(l) PROVE Watched'
  <2>1. CASE l \in Loops
    BY <1>3, <2>1, StartWatched, DestroyWatched, ResetWatched DEF RadioStep
  <2> QED BY <1>3, <2>1, OrphanWatched
<1>11. CASE PortFreed
  <2>1. UNCHANGED <<pc, controller, ready, stopping, mishaps, rst>> /\ ctl' = ctl
    BY <1>11 DEF PortFreed, LateStop, mgrVars, loopVars, callVars
  <2> QED BY <2>1, Unwatched DEF Alive
<1>4. CASE RecoveryStep \/ RecoveryRejects
  <2>0. rec.at # "none"
    BY <1>4 DEF RecoveryStep, RecoveryRejects, RecoveryDestroys, RecoveryDestroyed,
      RecoveryTornDown, RecoverySettled, RecoveryRestarts
  <2>1. Alive' => Alive
    <3>1. stopping' = stopping /\ (mishaps' = mishaps \/ mishaps' # {})
      BY <1>4 DEF RecoveryStep, RecoveryRejects, RecoveryDestroys, RecoveryDestroyed,
        RecoveryTornDown, RecoverySettled, RecoveryRestarts
    <3>2. mishaps' # {} => ~Alive' BY DEF Alive
    <3> QED BY <3>1, <3>2 DEF Alive
  <2>2. SUFFICES ASSUME Alive', Alive, Calm PROVE Watched' BY <2>1, AliveIsCalm DEF Watched
  <2>3. \A l \in Loops : Quiet(l) BY <2>0, <2>2 DEF IInv, WhileRecovering, Served
  <2>4. ~ready BY <2>0, <2>2 DEF IInv, WhileReady
  <2>5. ~ready'
    BY <1>4, <2>4 DEF RecoveryStep, RecoveryRejects, RecoveryDestroys, RecoveryDestroyed,
      RecoveryTornDown, RecoverySettled, RecoveryRestarts
  <2>6. \A l \in Loops : pc'[l] = pc[l] \/ pc'[l] \in {"done", "nodes"}
    <3>1. CASE RecoveryRestarts BY <1>0, <3>1 DEF RecoveryRestarts, Attempt, Goto
    <3>2. CASE ~RecoveryRestarts
      BY <1>4, <3>2 DEF RecoveryStep, RecoveryRejects, RecoveryDestroys, RecoveryDestroyed,
        RecoveryTornDown, RecoverySettled, loopVars
    <3> QED BY <3>1, <3>2
  <2>7. \A l \in Loops : Starting(l)' BY <2>3, <2>6 DEF Starting, Quiet
  <2> QED BY <2>5, <2>7 DEF Watched
<1>5. CASE ResetBegin
  <2>1. /\ ready /\ controller \in Loops /\ rst'.at = "radio" /\ UNCHANGED <<pc, controller>>
        /\ stopping' = stopping /\ mishaps' = mishaps
    BY <1>0, <1>5 DEF ResetBegin, loopVars
  <2>2. ctl'[controller].reset = "stop" BY <1>0, <1>5, <2>1 DEF ResetBegin, ResetCall, Controller
  <2>3. Ready(ctl[controller])' BY <2>1, <2>2 DEF Ready, Failing
  <2>4. Alive' => \A l \in Loops : Quiet(l)
    BY <2>1, AliveIsCalm DEF Alive, IInv, WhileReady, Served
  <2>5. Alive' => \A l \in Loops : Starting(l)' BY <2>1, <2>4 DEF Starting, Quiet
  <2> QED BY <2>3, <2>5 DEF Watched
<1>6. CASE ResetRadioDone \/ ResetDone
  <2>1. /\ UNCHANGED <<pc, controller, ready, stopping, mishaps>> /\ ctl' = ctl
    BY <1>6 DEF ResetRadioDone, ResetDone, ctlVars, loopVars
  <2>2. SUFFICES ASSUME Alive', Alive, Calm PROVE Watched'
    BY <2>1, AliveIsCalm DEF Watched, Alive
  <2>3. rst.ctl = controller /\ ready
    BY <1>6, <2>2 DEF IInv, WhileResetting, ResetRadioDone, ResetDone
  <2>4. ~ctl[controller].lost
    <3>1. Ready(ctl[controller]) BY <2>2, <2>3 DEF Watched
    <3> QED BY <1>6, <2>3, <3>1 DEF Ready, Failing, ResetRadioDone, ResetDone
  <2>5. Ready(ctl[controller])'
    <3>1. Ready(ctl[controller]) BY <2>2, <2>3 DEF Watched
    <3> QED BY <2>1, <2>4, <3>1 DEF Ready
  <2>6. \A l \in Loops : Starting(l)' BY <2>1, <2>2 DEF Watched, Starting
  <2> QED BY <2>5, <2>6 DEF Watched
<1>7. CASE ResetRadioFails \/ ResetWrapupFails
  <2>1. /\ rst.at # "none" /\ Recover /\ UNCHANGED <<pc, controller, stopping, mishaps>>
        /\ ctl' = ctl
    BY <1>7 DEF ResetRadioFails, ResetWrapupFails, ResetEndsInRecovery
  <2>2. SUFFICES ASSUME Alive', Alive, Calm PROVE Watched'
    BY <2>1, AliveIsCalm DEF Watched, Alive
  <2>3. ready BY <2>1, <2>2 DEF IInv, WhileResetting
  <2>4. rec.at = "none" BY <2>2, <2>3 DEF IInv, WhileReady
  <2>5. ~ready' BY <2>1, <2>2, <2>4 DEF Recover, Alive
  <2>6. \A l \in Loops : Starting(l)' BY <2>1, <2>2 DEF Watched, Starting
  <2> QED BY <2>5, <2>6 DEF Watched
<1>8. CASE UninitBegin BY <1>8 DEF UninitBegin, Watched, Alive
<1>9. CASE UninitStep \/ UninitRejects
  <2>1. un.at # "none" /\ stopping' = stopping
    BY <1>9 DEF UninitStep, UninitDestroys, UninitDestroyed, UninitTornDown, UninitSettled,
      UninitRejects
  <2>2. stopping BY <2>1 DEF IInv, Shutdown
  <2> QED BY <2>1, <2>2 DEF Watched, Alive
<1>10. CASE StartPairing \/ AbortPairing \/ AwaitReady \/ UNCHANGED vars
  <2>1. UNCHANGED <<pc, controller, ready, stopping, mishaps, rst>> /\ ctl' = ctl
    BY <1>10 DEF StartPairing, AbortPairing, AwaitReady, vars, mgrVars, ctlVars, loopVars, callVars
  <2> QED BY <2>1, Unwatched DEF Alive
<1> QED BY <1>1, <1>2, <1>3, <1>4, <1>5, <1>6, <1>7, <1>8, <1>9, <1>10, <1>11
        DEF Next, ResetNetworkStep

-----------------------------------------------------------------------------
(* Theorems. *)

LEMMA InitTried == Init => Tried /\ Watched
<1> SUFFICES ASSUME Init PROVE Tried /\ Watched OBVIOUS
<1>1. PICK l \in Loops :
        pc = [m \in Loops |-> IF m = l THEN "nodes" ELSE "free"] /\ startPromise = l
  BY DEF Init
<1>2. \A m \in Loops : ~aborted[m] /\ pc[m] = IF m = l THEN "nodes" ELSE "free"
  BY <1>1 DEF Init
<1>3. rec.at = "none" /\ ~ready BY DEF Init
<1>4. Dropping /\ Commanding BY <1>2, <1>3 DEF Dropping, Commanding
<1>5. Trying BY <1>2 DEF Trying, Supervising
<1>6. WaitersHaveALoop BY <1>1, <1>2 DEF WaitersHaveALoop, Supervising
<1>7. Watched BY <1>2, <1>3 DEF Watched, Starting
<1> QED BY <1>4, <1>5, <1>6, <1>7 DEF Tried

LEMMA Service == Spec => [](IInv /\ Tried /\ Watched)
<1>1. Init => Tried /\ Watched BY InitTried
<1>2. IInv /\ Tried /\ Watched /\ [Next]_vars => (Tried /\ Watched)'
  BY TriedStep, WatchedStep
<1>3. IInv /\ [Next]_vars => IInv' BY InvStep
<1> QED BY <1>1, <1>2, <1>3, InitInv, PTL DEF Spec

(* The retries of runStartLoop(), the listener of 'disconnected' and the     *)
(* recovery leave no state in which nobody tries and nobody is served: only  *)
(* a recovery that rejects, or a loss with no call to report it, does.       *)
THEOREM TheManagerKeepsTrying == Spec => []NobodyGivesUp
<1>1. IInv /\ Tried /\ Watched => NobodyGivesUp
  <2> SUFFICES ASSUME IInv, Tried, Watched, ~stopping PROVE NobodyGivesUp
    BY DEF NobodyGivesUp
  <2>1. "recoveryRejected" \notin mishaps => rec.at # "none" \/ Trying \/ ready
    BY DEF Tried, Trusted
  <2>2. ASSUME mishaps = {}, ~(rec.at # "none" \/ Trying \/ Serving)
        PROVE  rst.at = "radio" /\ ctl[controller].reset # "done"
    <3>1. Alive /\ Calm /\ ready BY <2>1, <2>2, AliveIsCalm DEF Alive
    <3>2. controller # None BY <3>1 DEF IInv, WhileReady, Served
    <3>3. ctl[controller].lost BY <2>2, <3>1, <3>2 DEF Serving
    <3> QED BY <3>1, <3>3 DEF Watched, Ready, Failing
  <2> QED BY <2>1, <2>2 DEF NobodyGivesUp
<1> QED BY <1>1, Service, PTL

(* controllerStartPromise is never left pending with no loop to resolve it:  *)
(* the loops a recovery overtakes lose theirs to the loop it starts.         *)
THEOREM TheDeferredIsOwned == Spec => []WaitersHaveALoop
<1>1. Tried => WaitersHaveALoop BY DEF Tried
<1> QED BY <1>1, Service, PTL
=============================================================================
