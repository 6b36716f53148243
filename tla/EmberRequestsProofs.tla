------------------------ MODULE EmberRequestsProofs ------------------------
(***************************************************************************)
(* Theorems about EmberRequests, for all sets of requests, all numbers of  *)
(* tags and of jobs that run at a time, and all keys.                      *)
(***************************************************************************)
EXTENDS EmberRequests, TLAPS

(* What the proofs need of the callers' variable. *)
ToldTypeOK == told \in [Requests -> Outcomes \cup {"nothing"}]

-----------------------------------------------------------------------------
(* The actions, as far as frames and ZDO requests are concerned. *)

LEMMA TellTold ==
  ASSUME ToldTypeOK, NEW r \in Requests, NEW outcome \in Outcomes, Tell(r, outcome)
  PROVE  ToldTypeOK' /\ \A q \in Requests \ {r} : told'[q] = told[q]
BY DEF ToldTypeOK, Tell

\* Operations on the multicast table tell no frame's caller anything.
LEMMA OpTold ==
  ASSUME ToldTypeOK, NEW o \in TableOps, OpStep(o) \/ OpEvent(o)
  PROVE  ToldTypeOK' /\ \A r \in NodeCalls : told'[r] = told[r]
<1> USE RequestsAssumption, NodeAssumption, TableAssumption
<1>1. o \in Requests \ NodeCalls BY DEF TableOps, GroupCalls
<1>2. told' = told \/ \E outcome \in Outcomes : Tell(o, outcome)
  <2> USE DEF callerVars, EndOp, ReturnAtOnce, Outcomes
  <2>1. CASE o \in GroupCalls /\ TakeLockForCall(o) BY <2>1 DEF TakeLockForCall
  <2>2. CASE TakeLockForSighting(o) BY <2>2 DEF TakeLockForSighting
  <2>3. CASE BeginSighting(o) BY <2>3 DEF BeginSighting
  <2>4. CASE BeginAdd(o) BY <2>4 DEF BeginAdd
  <2>5. CASE BeginRemove(o) BY <2>5 DEF BeginRemove
  <2>6. CASE SetEntry(o) BY <2>6 DEF SetEntry
  <2>7. CASE SetSightedEntry(o) BY <2>7 DEF SetSightedEntry
  <2>8. CASE MoveLast(o) BY <2>8 DEF MoveLast
  <2>9. CASE ClearLast(o) BY <2>9 DEF ClearLast
  <2>10. CASE UndoMove(o) BY <2>10 DEF UndoMove
  <2>11. CASE GroupTimer(o) BY <2>11 DEF GroupTimer
  <2>12. CASE CallAdd(o) BY <2>12 DEF CallAdd
  <2>13. CASE CallRemove(o) BY <2>13 DEF CallRemove
  <2>14. CASE SeeMulticast(o) BY <2>14 DEF SeeMulticast
  <2>15. CASE CancelGroup(o) BY <2>15 DEF CancelGroup
  <2> QED BY <2>1, <2>2, <2>3, <2>4, <2>5, <2>6, <2>7, <2>8, <2>9, <2>10, <2>11, <2>12, <2>13,
             <2>14, <2>15 DEF OpStep, OpEvent
<1>3. NodeCalls \subseteq Requests BY DEF NodeCalls
<1>4. CASE told' = told BY <1>4 DEF ToldTypeOK
<1>5. ASSUME NEW outcome \in Outcomes, Tell(o, outcome)
      PROVE  ToldTypeOK' /\ \A r \in NodeCalls : told'[r] = told[r]
  BY <1>1, <1>3, <1>5, TellTold
<1> QED BY <1>2, <1>4, <1>5

LEMMA EndCallTyped ==
  ASSUME ToldTypeOK, NodeTypeOK, NEW r \in NodeCalls, NEW outcome \in Outcomes,
         EndCall(r, outcome)
  PROVE  /\ ToldTypeOK'
         /\ phase' = [phase EXCEPT ![r] = "done"]
         /\ phase' \in [NodeCalls -> {"idle", "queued", "dispatching", "awaiting", "done"}]
         /\ \A q \in NodeCalls \ {r} : told'[q] = told[q]
         /\ told'[r] = IF told[r] = "nothing" THEN outcome ELSE told[r]
<1>1. r \in Requests /\ NodeCalls \subseteq Requests BY NodeAssumption DEF NodeCalls
<1>2. Tell(r, outcome) BY DEF EndCall
<1>3. ToldTypeOK' /\ \A q \in NodeCalls \ {r} : told'[q] = told[q] BY <1>1, <1>2, TellTold
<1>4. told'[r] = IF told[r] = "nothing" THEN outcome ELSE told[r]
  BY <1>1, <1>2 DEF Tell, ToldTypeOK
<1>5. phase' = [phase EXCEPT ![r] = "done"] BY DEF EndCall
<1>6. phase' \in [NodeCalls -> {"idle", "queued", "dispatching", "awaiting", "done"}]
  BY <1>5 DEF NodeTypeOK
<1> QED BY <1>3, <1>4, <1>5, <1>6

LEMMA Translated ==
  /\ \A error \in DispatchErrors : Translate[error] \in Outcomes \ {"ok"}
  /\ \A error \in {"unanswered", "aborted", "undelivered", "ezspDown", "ezspTimeout"} :
       Translate[error] \in Outcomes \ {"ok"}
  /\ Translate["delivered"] = "ok"
BY DEF DispatchErrors, Translate, Outcomes

\* A failed dispatch leaves the NCP's part as it is, or the frame with it.
LEMMA DispatchFailure ==
  ASSUME NEW r, NEW error \in DispatchErrors, DispatchFails(r, error)
  PROVE  /\ phase[r] = "dispatching"
         /\ ncp' = ncp \/ ncp' = [ncp EXCEPT ![r] = "taken"]
<1>1. CASE error = "refused" BY <1>1 DEF DispatchFails
<1>2. CASE error = "noRoute" BY <1>2 DEF DispatchFails
<1>3. CASE error = "ezspTimeout" BY <1>3 DEF DispatchFails
<1>4. CASE error = "ezspDown" BY <1>4 DEF DispatchFails
<1> QED BY <1>1, <1>2, <1>3, <1>4 DEF DispatchErrors

\* What does not concern frames.
Elsewhere ==
  /\ UNCHANGED <<sent, tag, pending, heard, shared>>
  /\ \A s \in Sends : phase'[s] = phase[s] /\ told'[s] = told[s]

\* Every step, with its actor.
LEMMA Cases ==
  ASSUME [Next]_vars
  PROVE  \/ LoseRadio
         \/ \E s \in Sends : \/ CallSend(s) \/ RefuseCancelled(s) \/ BeginSend(s) \/ Dispatched(s)
                             \/ FailSend(s) \/ SendTimer(s) \/ FinishSend(s) \/ CancelSend(s)
         \/ \E z \in Zdos : \/ CallZdo(z) \/ RefuseCancelled(z) \/ BeginZdo(z) \/ Dispatched(z)
                            \/ FailZdo(z) \/ ZdoTimer(z) \/ CancelZdo(z)
                            \/ \E status \in DOMAIN AssertSuccess : ZdoResponse(z, status)
         \/ \E r \in NodeCalls, t \in TagIds, report \in {"delivered", "undelivered"} :
              MessageSent(r, t, report)
         \/ \E o \in TableOps : (OpStep(o) \/ OpEvent(o)) /\ UNCHANGED nodeVars
         \/ UNCHANGED <<nodeVars, told>>
<1>1. CASE Progress
  BY <1>1 DEF Progress, NodeStep, SendStep, ZdoStep, NodeCalls
<1>2. CASE Event
  BY <1>2 DEF Event, NodeEvent, NodeCalls, CallSend, CallZdo, CancelSend, CancelZdo
<1>3. CASE UNCHANGED vars BY <1>3 DEF vars, callerVars
<1> QED BY <1>1, <1>2, <1>3 DEF Next

-----------------------------------------------------------------------------
(* Frames: what PendingIsWaitedFor and HeardIsTold need to be inductive. *)

\* Nothing has been sent, reported or told of a frame before its job begins,
\* and a job that has begun has its promise.
FreshFrames ==
  \A s \in Sends :
    /\ phase[s] \in {"idle", "queued"} =>
         sent[s] = "none" /\ heard[s] = "none" /\ told[s] = "nothing"
    /\ phase[s] \in {"dispatching", "awaiting"} => sent[s] # "none"

\* A frame that had its tag for itself is found under it while it is open.
OpenIsPending ==
  \A s \in Sends : sent[s] = "open" /\ s \notin shared => pending[tag[s]] = s

\* Open frames with the same tag are known to share it.
OpenShare ==
  \A p, q \in Sends : p # q /\ tag[p] = tag[q] /\ sent[p] = "open" /\ sent[q] = "open" =>
                        p \in shared /\ q \in shared

\* No caller of a frame that had its tag for itself is told anything before
\* the promise of the frame is settled.
ToldWhenSettled ==
  \A s \in Sends : told[s] # "nothing" /\ s \notin shared => sent[s] # "open"

FrameInv == /\ NodeTypeOK /\ ToldTypeOK
            /\ FreshFrames /\ PendingIsWaitedFor /\ OpenIsPending /\ OpenShare
            /\ ToldWhenSettled /\ HeardIsTold

LEMMA FrameInvInit == Init => FrameInv
<1> SUFFICES ASSUME Init PROVE FrameInv OBVIOUS
<1> USE NodeAssumption DEF Init, NodeInit, QueueInit
<1>1. NodeTypeOK BY DEF NodeTypeOK, TagIds
<1>2. ToldTypeOK BY DEF ToldTypeOK
<1>3. FreshFrames BY DEF FreshFrames, NodeCalls
<1>4. PendingIsWaitedFor BY DEF PendingIsWaitedFor
<1>5. OpenIsPending /\ OpenShare BY DEF OpenIsPending, OpenShare
<1>6. ToldWhenSettled BY DEF ToldWhenSettled
<1>7. HeardIsTold BY DEF HeardIsTold
<1> QED BY <1>1, <1>2, <1>3, <1>4, <1>5, <1>6, <1>7 DEF FrameInv

LEMMA ElsewhereKeeps ==
  ASSUME FrameInv, Elsewhere, NodeTypeOK', ToldTypeOK' PROVE FrameInv'
<1> USE DEF FrameInv, Elsewhere
<1>1. \A s \in Sends : s \in NodeCalls BY DEF NodeCalls
<1>2. \A t \in TagIds : pending[t] # NoSend => pending[t] \in Sends BY DEF NodeTypeOK
<1>3. FreshFrames' BY DEF FreshFrames
<1>4. PendingIsWaitedFor' BY <1>2 DEF PendingIsWaitedFor
<1>5. OpenIsPending' /\ OpenShare' BY DEF OpenIsPending, OpenShare
<1>6. ToldWhenSettled' BY DEF ToldWhenSettled
<1>7. HeardIsTold' BY DEF HeardIsTold
<1> QED BY <1>3, <1>4, <1>5, <1>6, <1>7

LEMMA ZdoKeeps ==
  ASSUME FrameInv, NEW z \in Zdos,
         \/ CallZdo(z) \/ RefuseCancelled(z) \/ BeginZdo(z) \/ Dispatched(z)
         \/ FailZdo(z) \/ ZdoTimer(z) \/ CancelZdo(z)
         \/ \E status \in DOMAIN AssertSuccess : ZdoResponse(z, status)
  PROVE  FrameInv'
<1> USE NodeAssumption DEF FrameInv
<1>1. z \in NodeCalls \ Sends /\ Sends \subseteq NodeCalls BY DEF NodeCalls
<1>2. CASE CallZdo(z)
  <2>1. phase' = [phase EXCEPT ![z] = "queued"] BY <1>2 DEF CallZdo, Enqueue
  <2>2. UNCHANGED <<callerVars, sent, tag, pending, ncp, replied, heard, shared>>
    BY <1>2 DEF CallZdo, Enqueue
  <2>3. NodeTypeOK' BY <1>1, <2>1, <2>2 DEF NodeTypeOK
  <2>4. ToldTypeOK' BY <2>2 DEF callerVars, ToldTypeOK
  <2>5. Elsewhere BY <1>1, <2>1, <2>2 DEF Elsewhere, callerVars, NodeTypeOK
  <2> QED BY <2>3, <2>4, <2>5, ElsewhereKeeps
<1>3. CASE RefuseCancelled(z)
  <2>1. EndCall(z, "aborted") /\ "aborted" \in Outcomes BY <1>3 DEF RefuseCancelled, Outcomes
  <2>2. UNCHANGED <<sent, tag, pending, ncp, replied, heard, shared>>
    BY <1>3 DEF RefuseCancelled
  <2>3. NodeTypeOK' /\ ToldTypeOK' BY <1>1, <2>1, <2>2, EndCallTyped DEF NodeTypeOK
  <2>4. Elsewhere BY <1>1, <2>1, <2>2, EndCallTyped DEF Elsewhere, NodeTypeOK
  <2> QED BY <2>3, <2>4, ElsewhereKeeps
<1>4. CASE BeginZdo(z) \/ Dispatched(z)
  <2>1. \E p \in {"dispatching", "awaiting"} : phase' = [phase EXCEPT ![z] = p]
    BY <1>4 DEF BeginZdo, Dispatched
  <2>2. UNCHANGED <<callerVars, sent, tag, pending, replied, heard, shared>>
    BY <1>4 DEF BeginZdo, Dispatched
  <2>3. ncp' \in [NodeCalls -> {"none", "taken", "reported"}]
    BY <1>1, <1>4 DEF BeginZdo, Dispatched, NodeTypeOK
  <2>4. NodeTypeOK' BY <1>1, <2>1, <2>2, <2>3 DEF NodeTypeOK
  <2>5. ToldTypeOK' BY <2>2 DEF callerVars, ToldTypeOK
  <2>6. Elsewhere BY <1>1, <2>1, <2>2 DEF Elsewhere, callerVars, NodeTypeOK
  <2> QED BY <2>4, <2>5, <2>6, ElsewhereKeeps
<1>5. CASE FailZdo(z)
  <2>1. PICK error \in DispatchErrors : DispatchFails(z, error) /\ EndCall(z, Translate[error])
    BY <1>5 DEF FailZdo
  <2>2. UNCHANGED <<sent, tag, pending, replied, heard, shared>> BY <1>5 DEF FailZdo
  <2>3. Translate[error] \in Outcomes BY Translated
  <2>4. ncp' = ncp \/ ncp' = [ncp EXCEPT ![z] = "taken"] BY <2>1, DispatchFailure
  <2>5. ncp' \in [NodeCalls -> {"none", "taken", "reported"}] BY <1>1, <2>4 DEF NodeTypeOK
  <2>6. NodeTypeOK' /\ ToldTypeOK' BY <1>1, <2>1, <2>2, <2>3, <2>5, EndCallTyped DEF NodeTypeOK
  <2>7. Elsewhere BY <1>1, <2>1, <2>2, <2>3, EndCallTyped DEF Elsewhere, NodeTypeOK
  <2> QED BY <2>6, <2>7, ElsewhereKeeps
<1>6. CASE ZdoTimer(z)
  <2>1. EndCall(z, "timeout") /\ "timeout" \in Outcomes BY <1>6 DEF ZdoTimer, Outcomes
  <2>2. UNCHANGED <<sent, tag, pending, ncp, replied, heard, shared>> BY <1>6 DEF ZdoTimer
  <2>3. NodeTypeOK' /\ ToldTypeOK' BY <1>1, <2>1, <2>2, EndCallTyped DEF NodeTypeOK
  <2>4. Elsewhere BY <1>1, <2>1, <2>2, EndCallTyped DEF Elsewhere, NodeTypeOK
  <2> QED BY <2>3, <2>4, ElsewhereKeeps
<1>7. CASE CancelZdo(z)
  <2>1. UNCHANGED <<phase, sent, tag, pending, ncp, replied, heard, shared>>
    BY <1>7 DEF CancelZdo
  <2>2. ToldTypeOK' /\ \A q \in Requests \ {z} : told'[q] = told[q]
    <3>1. Tell(z, "aborted") /\ "aborted" \in Outcomes /\ z \in Requests
      BY <1>7 DEF CancelZdo, Outcomes
    <3> QED BY <3>1, TellTold
  <2>3. NodeTypeOK' BY <2>1 DEF NodeTypeOK
  <2>4. Elsewhere BY <1>1, <2>1, <2>2 DEF Elsewhere
  <2> QED BY <2>2, <2>3, <2>4, ElsewhereKeeps
<1>8. ASSUME NEW status \in DOMAIN AssertSuccess, ZdoResponse(z, status) PROVE FrameInv'
  <2>1. UNCHANGED <<sent, tag, pending, ncp, heard, shared>> /\ replied' \subseteq Zdos
    BY <1>8 DEF ZdoResponse, NodeTypeOK
  <2>2. CASE UNCHANGED <<phase, told>>
    <3>1. NodeTypeOK' BY <2>1, <2>2 DEF NodeTypeOK
    <3>2. ToldTypeOK' BY <2>2 DEF ToldTypeOK
    <3>3. Elsewhere BY <2>1, <2>2 DEF Elsewhere
    <3> QED BY <3>1, <3>2, <3>3, ElsewhereKeeps
  <2>3. ASSUME NEW w \in Zdos, EndCall(w, AssertSuccess[status]) PROVE FrameInv'
    <3>1. AssertSuccess[status] \in Outcomes BY DEF AssertSuccess, Outcomes
    <3>2. w \in NodeCalls \ Sends BY DEF NodeCalls
    <3>3. NodeTypeOK' /\ ToldTypeOK' BY <2>1, <2>3, <3>1, <3>2, EndCallTyped DEF NodeTypeOK
    <3>4. Elsewhere BY <1>1, <2>1, <2>3, <3>1, <3>2, EndCallTyped DEF Elsewhere, NodeTypeOK
    <3> QED BY <3>3, <3>4, ElsewhereKeeps
  <2> QED BY <1>8, <2>2, <2>3 DEF ZdoResponse
<1> QED BY <1>2, <1>3, <1>4, <1>5, <1>6, <1>7, <1>8

LEMMA CallKeeps ==
  ASSUME FrameInv, NEW s \in Sends, CallSend(s) PROVE FrameInv'
<1> USE NodeAssumption DEF FrameInv
<1>1. s \in NodeCalls BY DEF NodeCalls
<1>2. phase[s] = "idle" /\ phase' = [phase EXCEPT ![s] = "queued"]
  BY DEF CallSend, Enqueue
<1>3. UNCHANGED <<told, sent, tag, pending, ncp, replied, heard, shared>>
  BY DEF CallSend, Enqueue, callerVars
<1>4. NodeTypeOK' BY <1>1, <1>2, <1>3 DEF NodeTypeOK
<1>5. ToldTypeOK' BY <1>3 DEF ToldTypeOK
<1>6. FreshFrames' BY <1>1, <1>2, <1>3 DEF FreshFrames, NodeTypeOK
<1>7. PendingIsWaitedFor' BY <1>1, <1>2, <1>3 DEF PendingIsWaitedFor, NodeTypeOK, NodeCalls
<1>8. OpenIsPending' /\ OpenShare' BY <1>3 DEF OpenIsPending, OpenShare
<1>9. ToldWhenSettled' /\ HeardIsTold' BY <1>3 DEF ToldWhenSettled, HeardIsTold
<1> QED BY <1>4, <1>5, <1>6, <1>7, <1>8, <1>9

LEMMA RefuseKeeps ==
  ASSUME FrameInv, NEW s \in Sends, RefuseCancelled(s) PROVE FrameInv'
<1> USE NodeAssumption DEF FrameInv
<1>1. s \in NodeCalls /\ Sends \subseteq NodeCalls BY DEF NodeCalls
<1>2. phase[s] = "queued" /\ EndCall(s, "aborted") /\ "aborted" \in Outcomes
  BY DEF RefuseCancelled, Outcomes
<1>3. UNCHANGED <<sent, tag, pending, ncp, replied, heard, shared>> BY DEF RefuseCancelled
<1>4. /\ ToldTypeOK' /\ phase' = [phase EXCEPT ![s] = "done"]
      /\ phase' \in [NodeCalls -> {"idle", "queued", "dispatching", "awaiting", "done"}]
      /\ \A q \in Sends \ {s} : told'[q] = told[q]
  BY <1>1, <1>2, EndCallTyped
<1>5. NodeTypeOK' BY <1>3, <1>4 DEF NodeTypeOK
<1>6. FreshFrames' BY <1>1, <1>3, <1>4 DEF FreshFrames, NodeTypeOK
<1>7. PendingIsWaitedFor' BY <1>1, <1>2, <1>3, <1>4 DEF PendingIsWaitedFor, NodeTypeOK
<1>8. OpenIsPending' /\ OpenShare' BY <1>3 DEF OpenIsPending, OpenShare
<1>9. sent[s] = "none" /\ heard[s] = "none" BY <1>2 DEF FreshFrames
<1>10. ToldWhenSettled' BY <1>3, <1>4, <1>9 DEF ToldWhenSettled
<1>11. HeardIsTold' BY <1>3, <1>4, <1>9 DEF HeardIsTold
<1> QED BY <1>4, <1>5, <1>6, <1>7, <1>8, <1>10, <1>11

LEMMA BeginKeeps ==
  ASSUME FrameInv, NEW s \in Sends, BeginSend(s) PROVE FrameInv'
<1> USE NodeAssumption DEF FrameInv
<1>1. s \in NodeCalls /\ Sends \subseteq NodeCalls BY DEF NodeCalls
<1>2. phase[s] = "queued" /\ phase' = [phase EXCEPT ![s] = "dispatching"]
      /\ sent' = [sent EXCEPT ![s] = "open"]
      /\ UNCHANGED <<told, ncp, replied, heard>>
  BY DEF BeginSend, callerVars
<1>3. PICK t \in TagIds : /\ tag' = [tag EXCEPT ![s] = t]
                          /\ pending' = [pending EXCEPT ![t] = s]
                          /\ shared' = IF Holding(t) = {} THEN shared
                                       ELSE shared \cup Holding(t) \cup {s}
  BY DEF BeginSend
<1>4. sent[s] = "none" /\ heard[s] = "none" /\ told[s] = "nothing" BY <1>2 DEF FreshFrames
<1>5. shared \subseteq shared' /\ shared' \subseteq Sends
  BY <1>3 DEF NodeTypeOK, Holding
<1>6. \A q \in Sends : tag[q] = t /\ sent[q] = "open" => q \in shared' /\ s \in shared'
  BY <1>3 DEF Holding
<1>7. NodeTypeOK'
  BY <1>1, <1>2, <1>3, <1>5 DEF NodeTypeOK
<1>8. ToldTypeOK' BY <1>2 DEF ToldTypeOK
<1>9. FreshFrames' BY <1>1, <1>2, <1>4 DEF FreshFrames, NodeTypeOK
<1>10. PendingIsWaitedFor'
  <2> SUFFICES ASSUME NEW u \in TagIds, pending'[u] # NoSend
               PROVE  /\ phase'[pending'[u]] \in {"dispatching", "awaiting"}
                      /\ sent'[pending'[u]] = "open" /\ tag'[pending'[u]] = u
    BY DEF PendingIsWaitedFor
  <2>1. CASE u = t BY <1>1, <1>2, <1>3, <2>1 DEF NodeTypeOK
  <2>2. CASE u # t
    <3>1. pending'[u] = pending[u] /\ pending[u] \in Sends
      BY <1>3, <2>2 DEF NodeTypeOK
    <3>2. /\ phase[pending[u]] \in {"dispatching", "awaiting"}
          /\ sent[pending[u]] = "open" /\ tag[pending[u]] = u
      BY <3>1 DEF PendingIsWaitedFor
    <3> QED BY <1>1, <1>2, <1>3, <3>1, <3>2 DEF NodeTypeOK
  <2> QED BY <2>1, <2>2
<1>11. OpenIsPending'
  <2> SUFFICES ASSUME NEW q \in Sends, sent'[q] = "open", q \notin shared'
               PROVE  pending'[tag'[q]] = q
    BY DEF OpenIsPending
  <2>1. CASE q = s BY <1>3, <2>1 DEF NodeTypeOK
  <2>2. CASE q # s
    <3>1. sent[q] = "open" /\ tag'[q] = tag[q] /\ q \notin shared
      BY <1>2, <1>3, <1>5, <2>2 DEF NodeTypeOK
    <3>2. tag[q] # t BY <1>6, <3>1
    <3> QED BY <1>3, <3>1, <3>2 DEF OpenIsPending, NodeTypeOK
  <2> QED BY <2>1, <2>2
<1>12. OpenShare'
  <2> SUFFICES ASSUME NEW p \in Sends, NEW q \in Sends, p # q, tag'[p] = tag'[q],
                      sent'[p] = "open", sent'[q] = "open"
               PROVE  p \in shared' /\ q \in shared'
    BY DEF OpenShare
  <2>1. CASE p = s BY <1>2, <1>3, <1>6, <2>1 DEF NodeTypeOK
  <2>2. CASE q = s BY <1>2, <1>3, <1>6, <2>2 DEF NodeTypeOK
  <2>3. CASE p # s /\ q # s BY <1>2, <1>3, <1>5, <2>3 DEF OpenShare, NodeTypeOK
  <2> QED BY <2>1, <2>2, <2>3
<1>13. ToldWhenSettled' BY <1>2, <1>4, <1>5 DEF ToldWhenSettled, NodeTypeOK
<1>14. HeardIsTold' BY <1>2, <1>4, <1>5 DEF HeardIsTold, NodeTypeOK
<1> QED BY <1>7, <1>8, <1>9, <1>10, <1>11, <1>12, <1>13, <1>14

LEMMA DispatchedKeeps ==
  ASSUME FrameInv, NEW s \in Sends, Dispatched(s) PROVE FrameInv'
<1> USE NodeAssumption DEF FrameInv
<1>1. s \in NodeCalls /\ Sends \subseteq NodeCalls BY DEF NodeCalls
<1>2. phase[s] = "dispatching" /\ phase' = [phase EXCEPT ![s] = "awaiting"]
  BY DEF Dispatched
<1>3. UNCHANGED <<told, sent, tag, pending, replied, heard, shared>>
  BY DEF Dispatched, callerVars
<1>4. ncp' \in [NodeCalls -> {"none", "taken", "reported"}]
  BY <1>1 DEF Dispatched, NodeTypeOK
<1>5. NodeTypeOK' BY <1>1, <1>2, <1>3, <1>4 DEF NodeTypeOK
<1>6. ToldTypeOK' BY <1>3 DEF ToldTypeOK
<1>7. FreshFrames' BY <1>1, <1>2, <1>3 DEF FreshFrames, NodeTypeOK
<1>8. PendingIsWaitedFor' BY <1>1, <1>2, <1>3 DEF PendingIsWaitedFor, NodeTypeOK
<1>9. OpenIsPending' /\ OpenShare' BY <1>3 DEF OpenIsPending, OpenShare
<1>10. ToldWhenSettled' /\ HeardIsTold' BY <1>3 DEF ToldWhenSettled, HeardIsTold
<1> QED BY <1>5, <1>6, <1>7, <1>8, <1>9, <1>10

\* The promise of open frame v is settled and the entry of its tag removed ...
Settles(v, t, outcome) ==
  /\ sent[v] = "open" /\ tag[v] = t
  /\ sent' = [sent EXCEPT ![v] = outcome] /\ pending' = [pending EXCEPT ![t] = NoSend]
  /\ UNCHANGED <<tag, shared>>

\* ... which leaves every other entry to a frame that waits for it.
OthersWait(v, t) ==
  \A u \in TagIds : pending'[u] # NoSend =>
    /\ u # t /\ pending'[u] = pending[u] /\ pending[u] \in Sends \ {v}
    /\ sent'[pending[u]] = "open" /\ tag[pending[u]] = u
    /\ phase[pending[u]] \in {"dispatching", "awaiting"}

LEMMA SettleKeeps ==
  ASSUME FrameInv, NEW v \in Sends, NEW t \in TagIds, NEW outcome \in Outcomes,
         Settles(v, t, outcome)
  PROVE  /\ sent' \in [Sends -> {"none", "open"} \cup Outcomes]
         /\ pending' \in [TagIds -> Sends \cup {NoSend}]
         /\ OthersWait(v, t) /\ OpenIsPending' /\ OpenShare' /\ sent'[v] = outcome
<1> USE NodeAssumption DEF FrameInv, Settles
<1>1. sent' \in [Sends -> {"none", "open"} \cup Outcomes] /\ sent'[v] = outcome
  BY DEF NodeTypeOK
<1>2. pending' \in [TagIds -> Sends \cup {NoSend}] BY DEF NodeTypeOK
<1>3. outcome # "open" BY DEF Outcomes
<1>4. ASSUME NEW u \in TagIds, pending'[u] # NoSend
      PROVE  /\ u # t /\ pending'[u] = pending[u] /\ pending[u] \in Sends \ {v}
             /\ sent'[pending[u]] = "open" /\ tag[pending[u]] = u
             /\ phase[pending[u]] \in {"dispatching", "awaiting"}
  <2>1. u # t /\ pending'[u] = pending[u] /\ pending[u] \in Sends
    BY <1>4 DEF NodeTypeOK
  <2>2. /\ phase[pending[u]] \in {"dispatching", "awaiting"}
        /\ sent[pending[u]] = "open" /\ tag[pending[u]] = u
    BY <1>4, <2>1 DEF PendingIsWaitedFor
  <2>3. pending[u] # v BY <2>1, <2>2
  <2> QED BY <2>1, <2>2, <2>3 DEF NodeTypeOK
<1>5. OpenIsPending'
  <2> SUFFICES ASSUME NEW q \in Sends, sent'[q] = "open", q \notin shared'
               PROVE  pending'[tag'[q]] = q
    BY DEF OpenIsPending
  <2>1. q # v /\ sent[q] = "open" /\ q \notin shared BY <1>1, <1>3 DEF NodeTypeOK
  <2>2. tag[q] # t BY <2>1 DEF OpenShare
  <2> QED BY <2>1, <2>2 DEF OpenIsPending, NodeTypeOK
<1>6. OpenShare' BY <1>1, <1>3 DEF OpenShare, NodeTypeOK
<1> QED BY <1>1, <1>2, <1>4, <1>5, <1>6 DEF OthersWait

\* No job has begun or ended by it.
LEMMA SettleFresh ==
  ASSUME FrameInv, NEW v \in Sends, NEW t \in TagIds, NEW outcome \in Outcomes,
         Settles(v, t, outcome), UNCHANGED <<phase, told>>,
         NEW r \in Sends, sent[r] = "open", NEW report,
         heard' = heard \/ heard' = [heard EXCEPT ![r] = report]
  PROVE  FreshFrames'
<1> USE DEF FrameInv
<1>1. sent' = [sent EXCEPT ![v] = outcome] /\ sent[v] = "open" BY DEF Settles
<1>2. ASSUME NEW q \in Sends, phase'[q] \in {"idle", "queued"}
      PROVE  sent'[q] = "none" /\ heard'[q] = "none" /\ told'[q] = "nothing"
  <2>1. sent[q] = "none" /\ heard[q] = "none" /\ told[q] = "nothing"
    BY <1>2 DEF FreshFrames
  <2>2. q # v /\ q # r BY <1>1, <2>1
  <2> QED BY <1>1, <2>1, <2>2 DEF NodeTypeOK
<1>3. ASSUME NEW q \in Sends, phase'[q] \in {"dispatching", "awaiting"}
      PROVE  sent'[q] # "none"
  <2>1. sent[q] # "none" BY <1>3 DEF FreshFrames
  <2> QED BY <1>1, <2>1 DEF NodeTypeOK, Outcomes
<1> QED BY <1>2, <1>3 DEF FreshFrames

\* Only the timer, the abort listener or a report: no job ends.
LEMMA GiveUpKeeps ==
  ASSUME FrameInv, NEW v \in Sends, NEW t \in TagIds, NEW outcome \in Outcomes,
         Settles(v, t, outcome), UNCHANGED <<phase, told, replied>>,
         ncp' \in [NodeCalls -> {"none", "taken", "reported"}],
         \/ heard' = heard
         \/ \E report \in {"delivered", "undelivered"} :
              heard' = [heard EXCEPT ![v] = report] /\ outcome = Translate[report]
  PROVE  FrameInv'
<1>1. /\ sent' \in [Sends -> {"none", "open"} \cup Outcomes]
      /\ pending' \in [TagIds -> Sends \cup {NoSend}]
      /\ OthersWait(v, t) /\ OpenIsPending' /\ OpenShare' /\ sent'[v] = outcome
  BY SettleKeeps
<1> USE NodeAssumption DEF FrameInv, Settles
<1>2. v \in NodeCalls /\ outcome # "open" BY DEF NodeCalls, Outcomes
<1>3. NodeTypeOK' /\ ToldTypeOK' BY <1>1 DEF NodeTypeOK, ToldTypeOK
<1>4. FreshFrames'
  <2>1. sent[v] = "open" BY DEF Settles
  <2> QED BY <2>1, SettleFresh
<1>5. PendingIsWaitedFor' BY <1>1 DEF PendingIsWaitedFor, OthersWait
<1>6. ToldWhenSettled' BY <1>2 DEF ToldWhenSettled, NodeTypeOK
<1>7. HeardIsTold'
  <2> SUFFICES ASSUME NEW q \in Sends, heard'[q] # "none", q \notin shared'
               PROVE  /\ sent'[q] = Translate[heard'[q]]
                      /\ told'[q] \in {"nothing", Translate[heard'[q]]}
    BY DEF HeardIsTold
  <2>1. v \notin shared => told[v] = "nothing" BY DEF ToldWhenSettled
  <2>2. heard[v] # "none" /\ v \notin shared => sent[v] = Translate[heard[v]]
    BY DEF HeardIsTold
  <2>3. heard[v] # "none" => Translate[heard[v]] # "open"
    BY DEF NodeTypeOK, Translate
  <2>4. CASE q = v
    <3>1. heard[v] = "none" BY <2>2, <2>3, <2>4
    <3>2. \E report \in {"delivered", "undelivered"} :
            heard'[v] = report /\ outcome = Translate[report]
      BY <2>4, <3>1 DEF NodeTypeOK
    <3> QED BY <1>1, <2>1, <2>4, <3>2
  <2>5. CASE q # v
    <3>1. heard'[q] = heard[q] /\ sent'[q] = sent[q] BY <2>5 DEF NodeTypeOK
    <3> QED BY <3>1 DEF HeardIsTold
  <2> QED BY <2>4, <2>5
<1> QED BY <1>1, <1>3, <1>4, <1>5, <1>6, <1>7

LEMMA TimerKeeps ==
  ASSUME FrameInv, NEW s \in Sends, SendTimer(s) \/ CancelSend(s) PROVE FrameInv'
<1> USE DEF FrameInv
<1>1. tag[s] \in TagIds BY DEF NodeTypeOK
<1>2. UNCHANGED <<phase, told, tag, ncp, shared, replied, heard>>
  BY DEF SendTimer, CancelSend, callerVars
<1>3. ASSUME NEW error \in {"unanswered", "aborted"}, sent[s] = "open", GiveUpSend(s, error)
      PROVE  FrameInv'
  <2>1. Translate[error] \in Outcomes BY Translated
  <2> QED BY <1>1, <1>2, <1>3, <2>1, GiveUpKeeps DEF GiveUpSend, Settles, NodeTypeOK
<1>4. CASE UNCHANGED <<sent, pending>>
  <2>1. NodeTypeOK' /\ ToldTypeOK' BY <1>2, <1>4 DEF NodeTypeOK, ToldTypeOK
  <2>2. Elsewhere BY <1>2, <1>4 DEF Elsewhere
  <2> QED BY <2>1, <2>2, ElsewhereKeeps
<1> QED BY <1>3, <1>4 DEF SendTimer, CancelSend

LEMMA MessageSentKeeps ==
  ASSUME FrameInv, NEW r \in NodeCalls, NEW t \in TagIds,
         NEW report \in {"delivered", "undelivered"}, MessageSent(r, t, report)
  PROVE  FrameInv'
<1> USE NodeAssumption DEF FrameInv
<1>1. UNCHANGED <<phase, told, tag, shared, replied>> BY DEF MessageSent, callerVars
<1>2. ncp' \in [NodeCalls -> {"none", "taken", "reported"}] BY DEF MessageSent, NodeTypeOK
<1>3. heard' = heard \/ (r \in Sends /\ sent[r] = "open" /\ heard' = [heard EXCEPT ![r] = report])
  BY DEF MessageSent
<1>4. r \in Sends => t = tag[r] BY DEF MessageSent
<1>5. Translate[report] \in Outcomes BY Translated DEF Translate, Outcomes
<1>6. CASE MatchesPending(r, t)
  <2> DEFINE v == pending[t]
  <2>1. v \in Sends /\ v # NoSend /\ r \in Sends BY <1>6 DEF MatchesPending, NodeTypeOK
  <2>2. sent[v] = "open" /\ tag[v] = t /\ phase[v] \in {"dispatching", "awaiting"}
    BY <2>1 DEF PendingIsWaitedFor
  <2>3. sent' = [sent EXCEPT ![v] = Translate[report]] /\ pending' = [pending EXCEPT ![t] = NoSend]
    BY <1>6 DEF MessageSent
  <2> HIDE DEF v
  <2>7. Settles(v, t, Translate[report]) BY <1>1, <2>2, <2>3 DEF Settles
  <2>4. CASE heard' = heard BY <1>1, <1>2, <1>5, <2>1, <2>7, <2>4, GiveUpKeeps
  <2>5. CASE v = r /\ heard' = [heard EXCEPT ![r] = report]
    BY <1>1, <1>2, <1>5, <2>1, <2>7, <2>5, GiveUpKeeps
  <2>6. CASE v # r /\ sent[r] = "open" /\ heard' = [heard EXCEPT ![r] = report]
    <3>1. r \in shared /\ r \in Sends
      BY <1>4, <2>1, <2>2, <2>6 DEF OpenShare
    <3>2. NodeTypeOK' /\ FreshFrames' /\ PendingIsWaitedFor' /\ OpenIsPending' /\ OpenShare'
            /\ ToldWhenSettled'
      <4>1. /\ sent' \in [Sends -> {"none", "open"} \cup Outcomes]
            /\ pending' \in [TagIds -> Sends \cup {NoSend}]
            /\ OthersWait(v, t) /\ OpenIsPending' /\ OpenShare' /\ sent'[v] = Translate[report]
        BY <1>5, <2>1, <2>7, SettleKeeps
      <4>2. NodeTypeOK' BY <1>1, <1>2, <2>6, <3>1, <4>1 DEF NodeTypeOK
      <4>3. FreshFrames'
        BY <1>1, <1>5, <2>1, <2>6, <2>7, SettleFresh
      <4>4. PendingIsWaitedFor' BY <1>1, <4>1 DEF PendingIsWaitedFor, OthersWait
      <4>5. ToldWhenSettled'
        BY <1>1, <1>5, <2>1, <2>3 DEF ToldWhenSettled, NodeTypeOK, Outcomes
      <4> QED BY <4>1, <4>2, <4>3, <4>4, <4>5
    <3>3. HeardIsTold'
      <4> SUFFICES ASSUME NEW q \in Sends, heard'[q] # "none", q \notin shared'
                   PROVE  /\ sent'[q] = Translate[heard'[q]]
                          /\ told'[q] \in {"nothing", Translate[heard'[q]]}
        BY DEF HeardIsTold
      <4>1. q # r /\ heard'[q] = heard[q] BY <1>1, <2>6, <3>1 DEF NodeTypeOK
      <4>2. sent[q] = Translate[heard[q]] /\ told[q] \in {"nothing", Translate[heard[q]]}
        BY <1>1, <4>1 DEF HeardIsTold
      <4>3. heard[q] \in {"delivered", "undelivered"} BY <4>1 DEF NodeTypeOK
      <4>5. Translate[heard[q]] # "open" BY <4>3 DEF Translate
      <4>4. q # v BY <2>2, <4>2, <4>5
      <4> QED BY <1>1, <2>3, <4>1, <4>2, <4>4 DEF NodeTypeOK
    <3>4. ToldTypeOK' BY <1>1 DEF ToldTypeOK
    <3> QED BY <3>2, <3>3, <3>4
  <2> QED BY <1>3, <2>4, <2>5, <2>6
<1>7. CASE ~MatchesPending(r, t)
  <2>1. UNCHANGED <<sent, pending>> BY <1>7 DEF MessageSent
  <2>2. CASE heard' = heard
    <3>1. NodeTypeOK' /\ ToldTypeOK' BY <1>1, <1>2, <2>1, <2>2 DEF NodeTypeOK, ToldTypeOK
    <3>2. Elsewhere BY <1>1, <2>1, <2>2 DEF Elsewhere
    <3> QED BY <3>1, <3>2, ElsewhereKeeps
  <2>3. CASE r \in Sends /\ sent[r] = "open" /\ heard' = [heard EXCEPT ![r] = report]
    <3>1. r \in shared
      BY <1>4, <1>7, <2>3 DEF OpenIsPending, MatchesPending
    <3>2. NodeTypeOK' /\ ToldTypeOK' BY <1>1, <1>2, <2>1, <2>3 DEF NodeTypeOK, ToldTypeOK
    <3>3. FreshFrames' BY <1>1, <2>1, <2>3 DEF FreshFrames, NodeTypeOK
    <3>4. PendingIsWaitedFor' /\ OpenIsPending' /\ OpenShare' /\ ToldWhenSettled'
      BY <1>1, <2>1 DEF PendingIsWaitedFor, OpenIsPending, OpenShare, ToldWhenSettled
    <3>5. HeardIsTold' BY <1>1, <2>1, <2>3, <3>1 DEF HeardIsTold, NodeTypeOK
    <3> QED BY <3>2, <3>3, <3>4, <3>5
  <2> QED BY <1>3, <2>2, <2>3
<1> QED BY <1>6, <1>7

LEMMA FailKeeps ==
  ASSUME FrameInv, NEW s \in Sends, FailSend(s) PROVE FrameInv'
<1> USE NodeAssumption
<1>1. s \in NodeCalls /\ Sends \subseteq NodeCalls BY DEF NodeCalls
<1>2. PICK error \in DispatchErrors :
        /\ DispatchFails(s, error) /\ EndCall(s, Translate[error])
        /\ sent' = IF pending[tag[s]] = NoSend THEN sent
                   ELSE [sent EXCEPT ![pending[tag[s]]] = Translate[error]]
  BY DEF FailSend
<1>3. /\ pending' = [pending EXCEPT ![tag[s]] = NoSend]
      /\ heard' = [heard EXCEPT ![s] = "none"]
      /\ UNCHANGED <<tag, replied, shared>>
  BY DEF FailSend
<1>4. Translate[error] \in Outcomes BY Translated
<1>5. ncp' = ncp \/ ncp' = [ncp EXCEPT ![s] = "taken"] BY <1>2, DispatchFailure
<1>6. /\ ToldTypeOK' /\ phase' = [phase EXCEPT ![s] = "done"]
      /\ phase' \in [NodeCalls -> {"idle", "queued", "dispatching", "awaiting", "done"}]
      /\ \A q \in Sends \ {s} : told'[q] = told[q]
  BY <1>1, <1>2, <1>4, EndCallTyped DEF FrameInv
<1>7. tag[s] \in TagIds BY DEF FrameInv, NodeTypeOK
<1> DEFINE v == pending[tag[s]]
<1>8. CASE v = NoSend
  <2> USE DEF FrameInv
  <2>1. sent' = sent /\ pending' = pending BY <1>2, <1>3, <1>7, <1>8 DEF NodeTypeOK
  <2>2. s \notin shared => sent[s] # "open" BY <1>8 DEF OpenIsPending
  <2>3. \A t \in TagIds : pending[t] # s
    BY <1>7, <1>8 DEF PendingIsWaitedFor
  <2>4. NodeTypeOK' BY <1>1, <1>3, <1>5, <1>6, <2>1 DEF NodeTypeOK
  <2>5. FreshFrames' BY <1>1, <1>3, <1>6, <2>1 DEF FreshFrames, NodeTypeOK
  <2>6. PendingIsWaitedFor' BY <1>1, <1>3, <1>6, <2>1, <2>3 DEF PendingIsWaitedFor, NodeTypeOK
  <2>7. OpenIsPending' /\ OpenShare' BY <1>3, <2>1 DEF OpenIsPending, OpenShare
  <2>8. ToldWhenSettled' BY <1>3, <1>6, <2>1, <2>2 DEF ToldWhenSettled
  <2>9. HeardIsTold' BY <1>3, <1>6, <2>1 DEF HeardIsTold, NodeTypeOK
  <2> QED BY <1>6, <2>4, <2>5, <2>6, <2>7, <2>8, <2>9
<1>9. CASE v # NoSend
  <2>1. v \in Sends BY <1>7, <1>9 DEF FrameInv, NodeTypeOK
  <2>2. sent[v] = "open" /\ tag[v] = tag[s]
    BY <1>7, <1>9 DEF FrameInv, PendingIsWaitedFor
  <2>3. Settles(v, tag[s], Translate[error]) BY <1>2, <1>3, <1>9, <2>2 DEF Settles
  <2> HIDE DEF v
  <2>4. /\ sent' \in [Sends -> {"none", "open"} \cup Outcomes]
        /\ pending' \in [TagIds -> Sends \cup {NoSend}]
        /\ OthersWait(v, tag[s]) /\ OpenIsPending' /\ OpenShare'
        /\ sent'[v] = Translate[error]
    BY <1>4, <1>7, <2>1, <2>3, SettleKeeps
  <2> USE DEF FrameInv
  <2>5. sent' = [sent EXCEPT ![v] = Translate[error]] BY <2>3 DEF Settles
  <2>6. s \notin shared => sent'[s] # "open"
    BY <1>3, <1>4, <2>1, <2>2, <2>4, <2>5 DEF OpenShare, NodeTypeOK, Outcomes
  <2>7. NodeTypeOK' BY <1>1, <1>3, <1>5, <1>6, <2>4 DEF NodeTypeOK
  <2>8. FreshFrames'
    <3>1. ASSUME NEW q \in Sends, phase'[q] \in {"idle", "queued"}
          PROVE  sent'[q] = "none" /\ heard'[q] = "none" /\ told'[q] = "nothing"
      <4>1. q # s /\ phase[q] \in {"idle", "queued"} BY <1>1, <1>6, <3>1 DEF NodeTypeOK
      <4>2. sent[q] = "none" /\ heard[q] = "none" /\ told[q] = "nothing"
        BY <4>1 DEF FreshFrames
      <4>3. q # v BY <2>2, <4>2
      <4> QED BY <1>3, <1>6, <2>5, <4>1, <4>2, <4>3 DEF NodeTypeOK
    <3>2. ASSUME NEW q \in Sends, phase'[q] \in {"dispatching", "awaiting"}
          PROVE  sent'[q] # "none"
      <4>1. q # s /\ phase[q] = phase'[q] BY <1>1, <1>6, <3>2 DEF NodeTypeOK
      <4>2. sent[q] # "none" BY <3>2, <4>1 DEF FreshFrames
      <4> QED BY <1>4, <2>4, <2>5, <4>2 DEF NodeTypeOK, Outcomes
    <3> QED BY <3>1, <3>2 DEF FreshFrames
  <2>9. PendingIsWaitedFor'
    <3> SUFFICES ASSUME NEW u \in TagIds, pending'[u] # NoSend
                 PROVE  /\ phase'[pending'[u]] \in {"dispatching", "awaiting"}
                        /\ sent'[pending'[u]] = "open" /\ tag'[pending'[u]] = u
      BY DEF PendingIsWaitedFor
    <3>1. /\ u # tag[s] /\ pending'[u] = pending[u] /\ pending[u] \in Sends
          /\ sent'[pending[u]] = "open" /\ tag[pending[u]] = u
          /\ phase[pending[u]] \in {"dispatching", "awaiting"}
      BY <2>4 DEF OthersWait
    <3>2. pending[u] # s BY <3>1
    <3> QED BY <1>1, <1>3, <1>6, <3>1, <3>2 DEF NodeTypeOK
  <2>10. ToldWhenSettled'
    <3> SUFFICES ASSUME NEW q \in Sends, told'[q] # "nothing", q \notin shared
                 PROVE  sent'[q] # "open"
      BY <1>3 DEF ToldWhenSettled
    <3>1. CASE q = s BY <2>6, <3>1
    <3>2. CASE q # s
      <4>1. sent[q] # "open" BY <1>6, <3>2 DEF ToldWhenSettled
      <4> QED BY <2>4, <2>5, <4>1, <1>4 DEF NodeTypeOK, Outcomes
    <3> QED BY <3>1, <3>2
  <2>11. HeardIsTold'
    <3> SUFFICES ASSUME NEW q \in Sends, heard'[q] # "none", q \notin shared
                 PROVE  /\ sent'[q] = Translate[heard'[q]]
                        /\ told'[q] \in {"nothing", Translate[heard'[q]]}
      BY <1>3 DEF HeardIsTold
    <3>1. q # s /\ heard'[q] = heard[q] BY <1>3 DEF NodeTypeOK
    <3>2. sent[q] = Translate[heard[q]] /\ told[q] \in {"nothing", Translate[heard[q]]}
      BY <3>1 DEF HeardIsTold
    <3>3. heard[q] \in {"delivered", "undelivered"} BY <3>1 DEF NodeTypeOK
    <3>4. Translate[heard[q]] # "open" BY <3>3 DEF Translate
    <3>5. q # v BY <2>2, <3>2, <3>4
    <3> QED BY <1>6, <2>5, <3>1, <3>2, <3>5 DEF NodeTypeOK
  <2> QED BY <1>6, <2>4, <2>7, <2>8, <2>9, <2>10, <2>11
<1> QED BY <1>8, <1>9

LEMMA FinishKeeps ==
  ASSUME FrameInv, NEW s \in Sends, FinishSend(s) PROVE FrameInv'
<1> USE NodeAssumption DEF FrameInv
<1>1. s \in NodeCalls /\ Sends \subseteq NodeCalls BY DEF NodeCalls
<1>2. phase[s] = "awaiting" /\ sent[s] # "open" /\ EndCall(s, sent[s]) BY DEF FinishSend
<1>3. UNCHANGED <<sent, tag, pending, ncp, replied, heard, shared>> BY DEF FinishSend
<1>4. sent[s] \in Outcomes BY <1>2 DEF FreshFrames, NodeTypeOK
<1>5. /\ ToldTypeOK' /\ phase' = [phase EXCEPT ![s] = "done"]
      /\ phase' \in [NodeCalls -> {"idle", "queued", "dispatching", "awaiting", "done"}]
      /\ \A q \in Sends \ {s} : told'[q] = told[q]
      /\ told'[s] = IF told[s] = "nothing" THEN sent[s] ELSE told[s]
  BY <1>1, <1>2, <1>4, EndCallTyped
<1>6. NodeTypeOK' BY <1>1, <1>3, <1>5 DEF NodeTypeOK
<1>7. FreshFrames' BY <1>1, <1>3, <1>5 DEF FreshFrames, NodeTypeOK
<1>8. PendingIsWaitedFor' BY <1>1, <1>2, <1>3, <1>5 DEF PendingIsWaitedFor, NodeTypeOK
<1>9. OpenIsPending' /\ OpenShare' BY <1>3 DEF OpenIsPending, OpenShare
<1>10. ToldWhenSettled' BY <1>2, <1>3, <1>5 DEF ToldWhenSettled
<1>11. HeardIsTold' BY <1>3, <1>5 DEF HeardIsTold
<1> QED BY <1>5, <1>6, <1>7, <1>8, <1>9, <1>10, <1>11

LEMMA LoseRadioKeeps == FrameInv /\ LoseRadio => FrameInv'
<1> SUFFICES ASSUME FrameInv, LoseRadio PROVE FrameInv' OBVIOUS
<1> USE NodeAssumption DEF FrameInv
<1>1. PICK error \in {"ezspDown", "ezspTimeout"} : RejectPendingSends(Translate[error])
  BY DEF LoseRadio
<1>2. UNCHANGED <<phase, told, tag, ncp, replied, heard, shared>>
  BY DEF LoseRadio, callerVars
<1> DEFINE outcome == Translate[error]
<1>3. outcome \in Outcomes BY Translated
<1>4. outcome # "open" /\ outcome # "none" BY <1>3 DEF Outcomes
<1>5. /\ sent' = [s \in Sends |-> IF \E t \in TagIds : pending[t] = s THEN outcome ELSE sent[s]]
      /\ pending' = [t \in TagIds |-> NoSend]
  BY <1>1 DEF RejectPendingSends
<1> HIDE DEF outcome
<1>6. \A t \in TagIds : pending[t] # NoSend =>
        phase[pending[t]] \in {"dispatching", "awaiting"} /\ sent[pending[t]] = "open"
  BY DEF PendingIsWaitedFor
<1>7. NodeTypeOK' BY <1>2, <1>3, <1>5 DEF NodeTypeOK
<1>8. ToldTypeOK' BY <1>2 DEF ToldTypeOK
<1>9. \A s \in Sends : sent'[s] = sent[s] \/ (sent'[s] = outcome /\ sent[s] = "open")
  BY <1>5, <1>6
<1>10. \A s \in Sends : sent'[s] = "open" => s \in shared
  BY <1>4, <1>5 DEF OpenIsPending, NodeTypeOK
<1>11. FreshFrames' BY <1>2, <1>4, <1>9 DEF FreshFrames
<1>12. PendingIsWaitedFor' BY <1>5 DEF PendingIsWaitedFor
<1>13. OpenIsPending' BY <1>2, <1>10 DEF OpenIsPending
<1>14. OpenShare' BY <1>2, <1>10 DEF OpenShare
<1>15. ToldWhenSettled' BY <1>2, <1>10 DEF ToldWhenSettled
<1>16. HeardIsTold'
  <2> SUFFICES ASSUME NEW s \in Sends, heard[s] # "none", s \notin shared
               PROVE  sent'[s] = Translate[heard[s]] /\ told[s] \in {"nothing", Translate[heard[s]]}
    BY <1>2 DEF HeardIsTold
  <2>1. sent[s] = Translate[heard[s]] /\ told[s] \in {"nothing", Translate[heard[s]]}
    BY DEF HeardIsTold
  <2>2. heard[s] \in {"delivered", "undelivered"} BY DEF NodeTypeOK
  <2>3. Translate[heard[s]] # "open" BY <2>2 DEF Translate
  <2> QED BY <1>9, <2>1, <2>3
<1> QED BY <1>7, <1>8, <1>11, <1>12, <1>13, <1>14, <1>15, <1>16

LEMMA FrameInvStep == FrameInv /\ [Next]_vars => FrameInv'
<1> SUFFICES ASSUME FrameInv, [Next]_vars PROVE FrameInv' OBVIOUS
<1>1. ASSUME NEW s \in Sends,
             \/ CallSend(s) \/ RefuseCancelled(s) \/ BeginSend(s) \/ Dispatched(s)
             \/ FailSend(s) \/ SendTimer(s) \/ FinishSend(s) \/ CancelSend(s)
      PROVE  FrameInv'
  BY <1>1, CallKeeps, RefuseKeeps, BeginKeeps, DispatchedKeeps, FailKeeps, TimerKeeps, FinishKeeps
<1>2. ASSUME NEW o \in TableOps, OpStep(o) \/ OpEvent(o), UNCHANGED nodeVars PROVE FrameInv'
  <2>1. ToldTypeOK' /\ \A r \in NodeCalls : told'[r] = told[r] BY <1>2, OpTold DEF FrameInv
  <2>2. NodeTypeOK' BY <1>2 DEF FrameInv, NodeTypeOK, nodeVars
  <2>3. Elsewhere BY <1>2, <2>1 DEF Elsewhere, nodeVars, NodeCalls
  <2> QED BY <2>1, <2>2, <2>3, ElsewhereKeeps
<1>3. CASE UNCHANGED <<nodeVars, told>>
  <2>1. NodeTypeOK' /\ ToldTypeOK' BY <1>3 DEF FrameInv, NodeTypeOK, ToldTypeOK, nodeVars
  <2>2. Elsewhere BY <1>3 DEF Elsewhere, nodeVars
  <2> QED BY <2>1, <2>2, ElsewhereKeeps
<1> QED BY <1>1, <1>2, <1>3, ZdoKeeps, MessageSentKeeps, LoseRadioKeeps, Cases

LEMMA FrameInvariance == Spec => []FrameInv
BY FrameInvInit, FrameInvStep, PTL DEF Spec

\* For any number of frames, tags and jobs: no path through timer, abort,
\* report, failed dispatch and lost radio leaves an entry of
\* homeyPendingSends to a frame nobody waits for.
THEOREM EntriesAreWaitedFor == Spec => []PendingIsWaitedFor
<1>1. FrameInv => PendingIsWaitedFor BY DEF FrameInv
<1> QED BY <1>1, FrameInvariance, PTL

\* The caller of a frame whose report came while its job waited is told what
\* the report said, unless the frame shared its tag with another.
THEOREM ReportsAreTold == Spec => []HeardIsTold
<1>1. FrameInv => HeardIsTold BY DEF FrameInv
<1> QED BY <1>1, FrameInvariance, PTL

-----------------------------------------------------------------------------
(* Where a caller's "ok" comes from. *)

\* Only a report settles a promise with "ok".
LEMMA OnlyReportsSayOk ==
  ASSUME FrameInv, [Next]_vars, NEW s \in Sends, sent[s] # "ok", sent'[s] = "ok"
  PROVE  \E r \in NodeCalls, t \in TagIds, report \in {"delivered", "undelivered"} :
           MessageSent(r, t, report)
<1> USE DEF FrameInv
<1>1. ASSUME NEW q \in Sends, FailSend(q) PROVE FALSE
  <2>1. PICK error \in DispatchErrors :
          sent' = IF pending[tag[q]] = NoSend THEN sent
                  ELSE [sent EXCEPT ![pending[tag[q]]] = Translate[error]]
    BY <1>1 DEF FailSend
  <2>2. Translate[error] # "ok" BY Translated
  <2> QED BY <2>1, <2>2 DEF NodeTypeOK
<1>2. ASSUME NEW q \in Sends, SendTimer(q) \/ CancelSend(q) PROVE FALSE
  <2>1. UNCHANGED sent \/ \E error \in {"unanswered", "aborted"} :
                            sent' = [sent EXCEPT ![q] = Translate[error]]
    BY <1>2 DEF SendTimer, CancelSend, GiveUpSend
  <2>2. \A error \in {"unanswered", "aborted"} : Translate[error] # "ok" BY Translated
  <2> QED BY <2>1, <2>2 DEF NodeTypeOK
<1>3. CASE LoseRadio
  <2>1. PICK error \in {"ezspDown", "ezspTimeout"} : RejectPendingSends(Translate[error])
    BY <1>3 DEF LoseRadio
  <2>2. Translate[error] # "ok" BY Translated
  <2> QED BY <2>1, <2>2 DEF RejectPendingSends
<1>4. ASSUME NEW q \in Sends, BeginSend(q) PROVE FALSE BY <1>4 DEF BeginSend, NodeTypeOK
<1>5. ASSUME NEW q \in Sends, CallSend(q) \/ RefuseCancelled(q) \/ Dispatched(q) \/ FinishSend(q)
      PROVE  FALSE
  BY <1>5 DEF CallSend, Enqueue, RefuseCancelled, Dispatched, FinishSend
<1>6. ASSUME NEW z \in Zdos,
             \/ CallZdo(z) \/ RefuseCancelled(z) \/ BeginZdo(z) \/ Dispatched(z)
             \/ FailZdo(z) \/ ZdoTimer(z) \/ CancelZdo(z)
             \/ \E status \in DOMAIN AssertSuccess : ZdoResponse(z, status)
      PROVE  FALSE
  BY <1>6 DEF CallZdo, Enqueue, RefuseCancelled, BeginZdo, Dispatched, FailZdo, ZdoTimer,
              CancelZdo, ZdoResponse
<1>7. ~UNCHANGED nodeVars BY DEF nodeVars
<1> QED BY <1>1, <1>2, <1>3, <1>4, <1>5, <1>6, <1>7, Cases

\* What makes a caller believe in delivery is a report on a raw frame to the
\* same node, whatever tags and ZDO requests are reused.
THEOREM OkIsDelivered == Spec => OkComesFromTheNode
<1> DEFINE FromTheNode ==
      \A s \in Sends : sent[s] # "ok" /\ sent'[s] = "ok" =>
        \E r \in Sends : /\ KeyOf[r] = KeyOf[s] /\ tag[r] = tag[s]
                         /\ ncp[r] # "reported" /\ ncp'[r] = "reported"
<1>1. FrameInv /\ [Next]_vars => [FromTheNode]_nodeVars
  <2> SUFFICES ASSUME FrameInv, [Next]_vars, NEW s \in Sends, sent[s] # "ok", sent'[s] = "ok"
               PROVE  \E r \in Sends : /\ KeyOf[r] = KeyOf[s] /\ tag[r] = tag[s]
                                       /\ ncp[r] # "reported" /\ ncp'[r] = "reported"
    OBVIOUS
  <2>1. PICK r \in NodeCalls, t \in TagIds, report \in {"delivered", "undelivered"} :
          MessageSent(r, t, report)
    BY OnlyReportsSayOk
  <2>2. MatchesPending(r, t) /\ sent' = [sent EXCEPT ![pending[t]] = Translate[report]]
    BY <2>1 DEF MessageSent
  <2>3. pending[t] = s /\ pending[t] # NoSend
    BY <2>2 DEF MatchesPending, FrameInv, NodeTypeOK
  <2>4. tag[s] = t BY <2>3 DEF FrameInv, PendingIsWaitedFor
  <2>5. r \in Sends /\ KeyOf[r] = KeyOf[s] BY <2>2, <2>3 DEF MatchesPending
  <2>6. tag[r] = t /\ ncp[r] # "reported" /\ ncp'[r] = "reported"
    BY <2>1, <2>5 DEF MessageSent, FrameInv, NodeTypeOK
  <2> QED BY <2>4, <2>5, <2>6
<1> QED BY <1>1, FrameInvariance, PTL DEF Spec, OkComesFromTheNode

-----------------------------------------------------------------------------
(* Cancelled requests. *)

\* The NCP has seen nothing of a request whose job has not begun.
NcpUntouched == \A r \in NodeCalls : phase[r] \in {"idle", "queued"} => ncp[r] = "none"

\* The job of request r goes on; a cancelled one begins no dispatch.
Moves(r) ==
  \/ /\ phase[r] = "idle" /\ phase' = [phase EXCEPT ![r] = "queued"]
     /\ UNCHANGED ncp
  \/ /\ r \notin cancelled /\ phase' = [phase EXCEPT ![r] = "dispatching"]
     /\ UNCHANGED ncp
  \/ /\ phase[r] = "dispatching" /\ phase' = [phase EXCEPT ![r] = "awaiting"]
     /\ ncp' = [ncp EXCEPT ![r] = IF @ = "none" THEN "taken" ELSE @]
  \/ /\ phase[r] = "dispatching" /\ phase' = [phase EXCEPT ![r] = "done"]
     /\ ncp' = [ncp EXCEPT ![r] = "taken"]
  \/ phase' = [phase EXCEPT ![r] = "done"] /\ UNCHANGED ncp
  \/ /\ UNCHANGED phase
     /\ ncp[r] = "taken" \/ phase[r] = "dispatching"
     /\ ncp' = [ncp EXCEPT ![r] = "reported"]

LEMMA PhaseMoves ==
  ASSUME [Next]_vars
  PROVE  UNCHANGED <<phase, ncp>> \/ \E r \in NodeCalls : Moves(r)
<1>1. Sends \subseteq NodeCalls /\ Zdos \subseteq NodeCalls BY DEF NodeCalls
<1>2. ASSUME NEW r \in NodeCalls, CallSend(r) \/ CallZdo(r) PROVE Moves(r)
  BY <1>2 DEF CallSend, CallZdo, Enqueue, Moves
<1>3. ASSUME NEW r \in NodeCalls, BeginSend(r) \/ BeginZdo(r) PROVE Moves(r)
  BY <1>3 DEF BeginSend, BeginZdo, Moves
<1>4. ASSUME NEW r \in NodeCalls, FailSend(r) \/ FailZdo(r) PROVE Moves(r)
  <2>1. PICK error \in DispatchErrors : DispatchFails(r, error) /\ EndCall(r, Translate[error])
    BY <1>4 DEF FailSend, FailZdo
  <2>2. phase[r] = "dispatching" /\ (ncp' = ncp \/ ncp' = [ncp EXCEPT ![r] = "taken"])
    BY <2>1, DispatchFailure
  <2> QED BY <2>1, <2>2 DEF EndCall, Moves
<1>5. ASSUME NEW r \in NodeCalls, RefuseCancelled(r) \/ FinishSend(r) \/ ZdoTimer(r)
      PROVE  Moves(r)
  BY <1>5 DEF RefuseCancelled, FinishSend, ZdoTimer, EndCall, Moves
<1>6. ASSUME NEW z \in Zdos, NEW status \in DOMAIN AssertSuccess, ZdoResponse(z, status)
      PROVE  UNCHANGED <<phase, ncp>> \/ \E r \in NodeCalls : Moves(r)
  <2>1. UNCHANGED ncp BY <1>6 DEF ZdoResponse
  <2>2. UNCHANGED phase \/ \E w \in Zdos : phase' = [phase EXCEPT ![w] = "done"]
    BY <1>6 DEF ZdoResponse, EndCall
  <2> QED BY <1>1, <2>1, <2>2 DEF Moves
<1>7. ASSUME NEW r \in NodeCalls, SendTimer(r) \/ CancelSend(r) \/ CancelZdo(r)
      PROVE  UNCHANGED <<phase, ncp>>
  BY <1>7 DEF SendTimer, CancelSend, CancelZdo
<1>8. LoseRadio => UNCHANGED <<phase, ncp>> BY DEF LoseRadio
<1>9. ASSUME NEW r \in NodeCalls, NEW t \in TagIds, NEW report \in {"delivered", "undelivered"},
             MessageSent(r, t, report)
      PROVE  Moves(r)
  BY <1>9 DEF MessageSent, Moves
<1>10. ASSUME NEW r \in NodeCalls, Dispatched(r) PROVE Moves(r)
  BY <1>10 DEF Dispatched, Moves
<1>11. UNCHANGED nodeVars => UNCHANGED <<phase, ncp>> BY DEF nodeVars
<1> QED BY <1>1, <1>2, <1>3, <1>4, <1>5, <1>6, <1>7, <1>8, <1>9, <1>10, <1>11, Cases

LEMMA NcpUntouchedStep == NodeTypeOK /\ NcpUntouched /\ [Next]_vars => NcpUntouched'
BY PhaseMoves DEF Moves, NcpUntouched, NodeTypeOK

\* A request cancelled while it waits in the queue never reaches the NCP,
\* however long it waits and whatever the other requests do.
THEOREM CancelledStaysOut == Spec => CancelledNeverDispatched
<1> DEFINE StaysOut == \A r \in NodeCalls : r \in cancelled /\ phase[r] = "queued" =>
                         phase'[r] # "dispatching" /\ ncp'[r] = "none"
<1>1. Init => NcpUntouched BY DEF Init, NodeInit, NcpUntouched
<1>2. FrameInv /\ NcpUntouched /\ [Next]_vars => NcpUntouched'
  BY NcpUntouchedStep DEF FrameInv
<1>3. FrameInv /\ NcpUntouched /\ [Next]_vars => [StaysOut]_nodeVars
  BY PhaseMoves DEF Moves, FrameInv, NodeTypeOK, NcpUntouched
<1> QED BY <1>1, <1>2, <1>3, FrameInvariance, PTL DEF Spec, CancelledNeverDispatched

=============================================================================
