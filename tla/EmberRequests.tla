---------------------------- MODULE EmberRequests ----------------------------
(***************************************************************************)
(* The requests of the Ember adapter together: frames and ZDO requests to  *)
(* nodes and changes of the multicast table share one queue, in which an   *)
(* operation that holds the multicast lock may wait behind frames that     *)
(* wait for their messageSent reports.                                     *)
(***************************************************************************)
EXTENDS NodeRequests, MulticastTable

(* A request is of one kind. *)
ASSUME RequestsAssumption == NodeCalls \cap TableOps = {}

vars == <<up, queueVars, callerVars, nodeVars, tableVars>>

Called == {r \in NodeCalls : phase[r] # "idle"} \cup {o \in TableOps : step[o] # "idle"}
MayCall(r) == \E m \in Mixes : r \in m /\ Called \subseteq m

TypeOK == QueueTypeOK /\ NodeTypeOK /\ TableTypeOK

Init == QueueInit /\ NodeInit /\ TableInit

(* The adapter's own steps: jobs, commands, timers. *)
SendStep(s) == BeginSend(s) \/ FailSend(s) \/ SendTimer(s) \/ FinishSend(s)
ZdoStep(z) == BeginZdo(z) \/ FailZdo(z) \/ ZdoTimer(z)
NodeStep(r) == \/ RefuseCancelled(r)
               \/ Dispatched(r)
               \/ r \in Sends /\ SendStep(r)
               \/ r \in Zdos /\ ZdoStep(r)

OpStep(o) == \/ o \in GroupCalls /\ TakeLockForCall(o)
             \/ o \in Sightings /\ (TakeLockForSighting(o) \/ BeginSighting(o))
             \/ o \in Adds /\ BeginAdd(o)
             \/ o \in Removes /\ BeginRemove(o)
             \/ SetEntry(o) \/ SetSightedEntry(o)
             \/ MoveLast(o) \/ ClearLast(o) \/ UndoMove(o)
             \/ o \in GroupCalls /\ GroupTimer(o)

(* What the callers, the mesh and the radio do. *)
NodeEvent(r) == \/ (CallSend(r) \/ CallZdo(r)) /\ MayCall(r)
                \/ CancelSend(r) \/ CancelZdo(r)
                \/ \E t \in TagIds, report \in {"delivered", "undelivered"} :
                     MessageSent(r, t, report)
                \/ r \in Zdos /\ \E status \in DOMAIN AssertSuccess : ZdoResponse(r, status)

OpEvent(o) == \/ o \in Adds /\ CallAdd(o) /\ MayCall(o)
              \/ o \in Removes /\ CallRemove(o) /\ MayCall(o)
              \/ o \in Sightings /\ SeeMulticast(o) /\ MayCall(o)
              \/ o \in GroupCalls /\ CancelGroup(o)

Progress == \/ \E r \in NodeCalls : NodeStep(r) /\ UNCHANGED tableVars
            \/ \E o \in TableOps : OpStep(o) /\ UNCHANGED nodeVars

Event == \/ LoseRadio /\ UNCHANGED tableVars
         \/ \E r \in NodeCalls : NodeEvent(r) /\ UNCHANGED tableVars
         \/ \E o \in TableOps : OpEvent(o) /\ UNCHANGED nodeVars

Next == Progress \/ Event

Spec == Init /\ [][Next]_vars

(* Node.js runs what is ready and its timers fire; herdsman answers every  *)
(* command or gives it up.  (Each request takes finitely many steps, so    *)
(* that fairness to all of them together is fairness to each.)  Nothing    *)
(* makes the NCP report, or a node answer.                                 *)
FairSpec == Spec /\ WF_vars(Progress)

-----------------------------------------------------------------------------
(* Requests whose job's function has been given to the queue and has not   *)
(* settled.                                                                *)
UnderWay == {r \in NodeCalls : phase[r] \notin {"idle", "done"}}
            \cup {o \in TableOps : step[o] \notin {"idle", "waiting", "done"}}

(* Nothing is lost on the way: a caller who has been told nothing has its  *)
(* job in the queue or its operation in the lock, a job keeps its place no *)
(* longer than its function takes, a free place never stands empty beside  *)
(* a job that may run, and the lock belongs to an operation that has its   *)
(* job or may queue it.                                                    *)
NobodyForgotten ==
  /\ \A r \in Called \ Sightings : told[r] = "nothing" => r \in UnderWay \cup ToSet(lock)
  /\ ToSet(jobs) = UnderWay
  /\ running \subseteq UnderWay
  /\ Cardinality(running) = Concurrent \/ MayStart(jobs, running) = {}
  /\ lock # <<>> => step[Head(lock)] = "waiting" \/ Head(lock) \in UnderWay

(* In the end every caller has been told an outcome and every job has left *)
(* the queue and the lock, as long as the radio is there: a lost report, a *)
(* silent node or a cancelled caller blocks neither the queue nor an       *)
(* operation that holds the multicast lock while it waits behind frames.   *)
EverythingSettles ==
  <>[](up => /\ jobs = <<>> /\ lock = <<>>
             /\ \A r \in Called \ Sightings : told[r] # "nothing")

=============================================================================
