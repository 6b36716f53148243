---------------------------- MODULE NodeRequests ----------------------------
(***************************************************************************)
(* Requests to one node: raw ZCL frames (sendRawZclFrame) and ZDO requests *)
(* (sendHomeyZdo) of homey-ember.cjs, called by HomeyEmberController.      *)
(*                                                                         *)
(* A raw frame's job registers a pending entry under its message tag, asks *)
(* the NCP to send, and settles when the NCP's messageSent report, its own *)
(* timer, its AbortSignal, a failed dispatch or a lost radio settles the   *)
(* entry.  A ZDO job settles on the node's response or on herdsman's timer.*)
(* The NCP may report before, after or never; a report may come after the  *)
(* entry is gone, when its tag already belongs to another frame.           *)
(***************************************************************************)
EXTENDS AdapterQueue

CONSTANTS Sends,   \* raw ZCL frames; all to the same cluster and endpoints
          Zdos,    \* ZDO requests; all of the same cluster
          NoSend,  \* no pending entry under a tag
          Tags     \* message tags before they wrap round (256 in EZSP)

ASSUME NodeAssumption == /\ Tags \in Nat \ {0}
                         /\ Sends \cup Zdos \subseteq Requests
                         /\ Sends \cap Zdos = {}
                         /\ NoSend \notin Sends
                         /\ \A r \in Sends \cup Zdos : KeyOf[r] # Unkeyed

VARIABLES phase,     \* request -> how far its call has come
          sent,      \* frame -> the promise of waitForMessageSent, and as
                     \*   what the controller will translate it
          tag,       \* frame -> its message tag, from ezsp.nextSendSequence()
          pending,   \* homeyPendingSends: tag -> frame
          ncp,       \* request -> what the NCP did with its frame
          replied,   \* ZDO requests the node has answered
          heard,     \* history: frame -> the report that came while it waited,
                     \*   unless its dispatch failed afterwards
          shared     \* history: frames that shared a tag with an open one

nodeVars == <<phase, sent, tag, pending, ncp, replied, heard,
              shared>>

NodeCalls == Sends \cup Zdos
TagIds == 0 .. Tags - 1

DispatchErrors == {"refused", "noRoute", "ezspTimeout", "ezspDown"}

(* What the controller makes of an adapter's error: translateSendError.    *)
(* "refused" stands for a dispatch status it passes on as it is, "noRoute" *)
(* for one of UNREACHABLE_STATUSES, "undelivered" for any delivery status  *)
(* other than TIMEOUT, which is "unanswered".                              *)
Translate == [delivered   |-> "ok",
              undelivered |-> "unreachable",
              noRoute     |-> "unreachable",
              ezspDown    |-> "unreachable",
              unanswered  |-> "timeout",
              ezspTimeout |-> "timeout",
              aborted     |-> "aborted",
              refused     |-> "failed"]

(* What a node's ZDO status becomes: assertZdoSuccess. *)
AssertSuccess == [SUCCESS    |-> "ok",
                  TABLE_FULL |-> "tableFull",
                  TIMEOUT    |-> "timeout",
                  FAILURE    |-> "failed"]

NodeTypeOK ==
  /\ phase \in [NodeCalls -> {"idle", "queued", "dispatching", "awaiting", "done"}]
  /\ sent \in [Sends -> {"none", "open"} \cup Outcomes]
  /\ tag \in [Sends -> TagIds]
  /\ pending \in [TagIds -> Sends \cup {NoSend}]
  /\ ncp \in [NodeCalls -> {"none", "taken", "reported"}]
  /\ replied \subseteq Zdos
  /\ heard \in [Sends -> {"none", "delivered", "undelivered"}]
  /\ shared \subseteq Sends

NodeInit ==
  /\ phase = [r \in NodeCalls |-> "idle"]
  /\ sent = [s \in Sends |-> "none"]
  /\ tag = [s \in Sends |-> 0]
  /\ pending = [t \in TagIds |-> NoSend]
  /\ ncp = [r \in NodeCalls |-> "none"]
  /\ replied = {}
  /\ heard = [s \in Sends |-> "none"]
  /\ shared = {}

-----------------------------------------------------------------------------
(* The calls. *)

(* A request takes its place in the queue.  (One whose signal has fired by *)
(* then is refused at once and never becomes a request.)                   *)
Enqueue(r) ==
  /\ phase[r] = "idle"
  /\ phase' = [phase EXCEPT ![r] = "queued"]
  /\ Execute(r)
  /\ UNCHANGED <<up, callerVars, sent, tag, pending, ncp, replied, heard, shared>>

CallSend(s) == s \in Sends /\ Enqueue(s)

(* Leave, bind, unbind, and the requests that read a node's tables: one   *)
(* ZDO request each, whose answer's status is asserted.                    *)
CallZdo(z) == z \in Zdos /\ Enqueue(z)

(* The job of r ends, and its caller learns the outcome if it still waits. *)
EndCall(r, outcome) ==
  /\ phase' = [phase EXCEPT ![r] = "done"]
  /\ Tell(r, outcome)
  /\ Settle(r)

(* The job's first section meets a signal that fired while it was queued. *)
RefuseCancelled(r) ==
  /\ up
  /\ phase[r] = "queued" /\ r \in running /\ r \in cancelled
  /\ EndCall(r, "aborted")
  /\ UNCHANGED <<up, cancelled, sent, tag, pending, ncp, replied, heard, shared>>

(* Frames whose tag is t while the host or the NCP is not done with them. *)
Holding(t) == {q \in Sends : /\ tag[q] = t
                             /\ sent[q] = "open" \/ ncp[q] = "taken"}

(* The job of frame s takes a tag and registers its entry, which replaces  *)
(* one an unfinished frame may still have under that tag, and only then    *)
(* hands the frame to the NCP.  ezsp.nextSendSequence() counts every frame *)
(* the adapter sends, so that the next tag may be any.                     *)
BeginSend(s) ==
  /\ up
  /\ phase[s] = "queued" /\ s \in running /\ s \notin cancelled
  /\ phase' = [phase EXCEPT ![s] = "dispatching"]
  /\ \E t \in TagIds :
       /\ tag' = [tag EXCEPT ![s] = t]
       /\ pending' = [pending EXCEPT ![t] = s]
       /\ shared' = IF Holding(t) = {} THEN shared ELSE shared \cup Holding(t) \cup {s}
  /\ sent' = [sent EXCEPT ![s] = "open"]
  /\ UNCHANGED <<up, queueVars, callerVars, ncp, replied, heard>>

\* Mutant: the signal is not looked at again after the wait in the queue.
BeginZdoCancelled(z) ==
  /\ up
  /\ phase[z] = "queued" /\ z \in running
  /\ phase' = [phase EXCEPT ![z] = "dispatching"]
  /\ UNCHANGED <<up, queueVars, callerVars, sent, tag, pending, ncp, replied,
                 heard, shared>>

BeginZdo(z) ==
  /\ up
  /\ phase[z] = "queued" /\ z \in running /\ z \notin cancelled
  /\ phase' = [phase EXCEPT ![z] = "dispatching"]
  /\ UNCHANGED <<up, queueVars, callerVars, sent, tag, pending, ncp, replied,
                 heard, shared>>

-----------------------------------------------------------------------------
(* The dispatch.  The NCP's answer reaches the job after the NCP has taken *)
(* the frame, before or after its report on it.                            *)

Dispatched(r) ==
  /\ up
  /\ phase[r] = "dispatching"
  /\ phase' = [phase EXCEPT ![r] = "awaiting"]
  /\ ncp' = [ncp EXCEPT ![r] = IF @ = "none" THEN "taken" ELSE @]
  /\ UNCHANGED <<up, queueVars, callerVars, sent, tag, pending, replied, heard, shared>>

(* A status other than OK means that the NCP did not take the frame.  When *)
(* the command itself fails the NCP may have taken it, or not.             *)
DispatchFails(r, error) ==
  /\ phase[r] = "dispatching"
  /\ CASE error \in {"refused", "noRoute"} -> up /\ ncp[r] = "none" /\ UNCHANGED ncp
       [] error = "ezspTimeout" -> /\ up
                                   /\ \/ UNCHANGED ncp
                                      \/ ncp[r] = "none" /\ ncp' = [ncp EXCEPT ![r] = "taken"]
       [] error = "ezspDown" -> UNCHANGED ncp

(* The catch block settles and removes the entry it finds under its tag,   *)
(* which belongs to another frame when the tag has gone round.             *)
FailSend(s) ==
  /\ \E error \in DispatchErrors :
       /\ DispatchFails(s, error)
       /\ EndCall(s, Translate[error])
       /\ sent' = IF pending[tag[s]] = NoSend THEN sent
                   ELSE [sent EXCEPT ![pending[tag[s]]] = Translate[error]]
  /\ pending' = [pending EXCEPT ![tag[s]] = NoSend]
  /\ heard' = [heard EXCEPT ![s] = "none"]
  /\ UNCHANGED <<up, cancelled, tag, replied, shared>>

FailZdo(z) ==
  /\ \E error \in DispatchErrors :
       /\ DispatchFails(z, error)
       /\ EndCall(z, Translate[error])
  /\ UNCHANGED <<up, cancelled, sent, tag, pending, replied, heard, shared>>

-----------------------------------------------------------------------------
(* How a frame's promise settles. *)

\* Mutant: correlates by the message tag alone.
MatchesTag(r, t) == pending[t] # NoSend

\* Mutant: an entry matches only after the dispatch has been answered.
MatchesDispatched(r, t) ==
  /\ pending[t] # NoSend
  /\ r \in Sends
  /\ KeyOf[r] = KeyOf[pending[t]]
  /\ phase[pending[t]] = "awaiting"

(* The entry a report on request r under tag t belongs to, by what the     *)
(* code compares: type, destination, profile, cluster and endpoints.       *)
MatchesPending(r, t) ==
  /\ pending[t] # NoSend
  /\ r \in Sends
  /\ KeyOf[r] = KeyOf[pending[t]]

(* The NCP reports on r: the host settles the entry of the report's tag.   *)
(* (Its other half, super.onMessageSent under the multicast lock, changes  *)
(* nothing for a unicast.)                                                 *)
MessageSent(r, t, report) ==
  /\ up
  /\ ncp[r] = "taken" \/ (ncp[r] = "none" /\ phase[r] = "dispatching")
  /\ r \in Sends => t = tag[r]
  /\ ncp' = [ncp EXCEPT ![r] = "reported"]
  /\ heard' = IF r \in Sends /\ sent[r] = "open"
                 THEN [heard EXCEPT ![r] = report] ELSE heard
  /\ IF MatchesPending(r, t)
       THEN /\ pending' = [pending EXCEPT ![t] = NoSend]
            /\ sent' = [sent EXCEPT ![pending[t]] = Translate[report]]
       ELSE UNCHANGED <<pending, sent>>
  /\ UNCHANGED <<up, queueVars, callerVars, phase, tag, replied, shared>>

\* Mutant: timer and abort listener leave the entry where it is.
GiveUpSendOnly(s, error) ==
  /\ sent' = [sent EXCEPT ![s] = Translate[error]]
  /\ UNCHANGED pending

(* The timer and the abort listener of waitForMessageSent: both remove     *)
(* whatever entry the tag has.                                             *)
GiveUpSend(s, error) ==
  /\ sent' = [sent EXCEPT ![s] = Translate[error]]
  /\ pending' = [pending EXCEPT ![tag[s]] = NoSend]

SendTimer(s) ==
  /\ sent[s] = "open"
  /\ GiveUpSend(s, "unanswered")
  /\ UNCHANGED <<up, queueVars, callerVars, phase, tag, ncp, replied, heard, shared>>

(* The job returns the promise after its dispatch, and settles with it. *)
FinishSend(s) ==
  /\ phase[s] = "awaiting" /\ sent[s] # "open"
  /\ EndCall(s, sent[s])
  /\ UNCHANGED <<up, cancelled, sent, tag, pending, ncp, replied, heard, shared>>

-----------------------------------------------------------------------------
(* How a ZDO request ends. *)

(* A node answers request z.  Its answer goes to whichever request waits   *)
(* for this node and response cluster, be it z or a later one.             *)
ZdoResponse(z, status) ==
  /\ up
  /\ z \notin replied /\ ncp[z] # "none"
  /\ replied' = replied \cup {z}
  /\ LET waiting == {w \in Zdos : phase[w] = "awaiting" /\ KeyOf[w] = KeyOf[z]}
     IN IF waiting = {}
          THEN UNCHANGED <<phase, told, queueVars>>
          ELSE \E w \in waiting : EndCall(w, AssertSuccess[status])
  /\ UNCHANGED <<up, cancelled, sent, tag, pending, ncp, heard, shared>>

ZdoTimer(z) ==
  /\ phase[z] = "awaiting"
  /\ EndCall(z, "timeout")
  /\ UNCHANGED <<up, cancelled, sent, tag, pending, ncp, replied, heard, shared>>

-----------------------------------------------------------------------------
(* What ends many requests, or one from outside. *)

(* The signal of a frame fires: one that has its entry is given up. *)
CancelSend(s) ==
  /\ s \in Sends /\ phase[s] \notin {"idle", "done"}
  /\ Abort(s)
  /\ IF sent[s] = "open" THEN GiveUpSend(s, "aborted") ELSE UNCHANGED <<sent, pending>>
  /\ UNCHANGED <<up, queueVars, told, phase, tag, ncp, replied, heard, shared>>

(* The caller of a ZDO request is told at once, while its job goes on. *)
CancelZdo(z) ==
  /\ z \in Zdos /\ phase[z] \notin {"idle", "done"}
  /\ Abort(z)
  /\ Tell(z, "aborted")
  /\ UNCHANGED <<up, queueVars, phase, sent, tag, pending, ncp, replied, heard, shared>>

(* Every pending entry is removed, and its promise rejected. *)
RejectPendingSends(outcome) ==
  /\ sent' = [s \in Sends |-> IF \E t \in TagIds : pending[t] = s THEN outcome ELSE sent[s]]
  /\ pending' = [t \in TagIds |-> NoSend]

\* Mutant: pending entries are rejected with an error nobody translates.
LoseRadioUntranslated ==
  /\ up
  /\ up' = FALSE
  /\ RejectPendingSends("ezspDown")
  /\ UNCHANGED <<queueVars, callerVars, phase, tag, ncp, replied, heard, shared>>

(* The NCP asks for a reset, or the controller stops the adapter; what the *)
(* entries are rejected with may itself be a time-out of the serial link.  *)
(* Which commands still work afterwards is herdsman's business: from here  *)
(* on none does.                                                           *)
LoseRadio ==
  /\ up
  /\ up' = FALSE
  /\ \E error \in {"ezspDown", "ezspTimeout"} : RejectPendingSends(Translate[error])
  /\ UNCHANGED <<queueVars, callerVars, phase, tag, ncp, replied, heard, shared>>

-----------------------------------------------------------------------------
(* Properties. *)

(* An entry of homeyPendingSends belongs to a frame whose job still waits  *)
(* for it, and whose promise its settling would settle: no path through    *)
(* timer, abort, report, failed dispatch and lost radio leaves an entry    *)
(* behind for a later report of the same tag.                              *)
PendingIsWaitedFor ==
  \A t \in TagIds : LET s == pending[t]
                    IN s # NoSend => /\ phase[s] \in {"dispatching", "awaiting"}
                                     /\ sent[s] = "open"
                                     /\ tag[s] = t

(* A report that comes while its frame's job waits decides what the caller *)
(* is told, also when it comes before the dispatch has been answered: a    *)
(* delivered frame is not told to have timed out and an undelivered one is *)
(* told unreachable, so that route repair runs (HomeyEmberController.mts:  *)
(* 466).  Frames that shared a tag with another are not covered.           *)
HeardIsTold ==
  \A s \in Sends :
    heard[s] # "none" /\ s \notin shared =>
      /\ sent[s] = Translate[heard[s]]
      /\ told[s] \in {"nothing", Translate[heard[s]]}

(* What makes a caller believe that its frame was delivered is a report on *)
(* a raw frame to the same node, whatever tags later frames reuse and      *)
(* whatever ZDO requests carry the same tag (facade.test.mts: "raw-send    *)
(* correlation ignores a ZDO callback that reuses the same message tag").  *)
OkComesFromTheNode ==
  [][\A s \in Sends : sent[s] # "ok" /\ sent'[s] = "ok" =>
       \E r \in Sends : /\ KeyOf[r] = KeyOf[s] /\ tag[r] = tag[s]
                        /\ ncp[r] # "reported" /\ ncp'[r] = "reported"]_nodeVars

(* A node's answer to one ZDO request ends another only after the caller   *)
(* and the job of its own have given it up: answers are told apart by node *)
(* and cluster alone, and what keeps two requests to a node from taking    *)
(* each other's is that their jobs run one after the other, also when a    *)
(* caller cancels (homey-ember.cjs:466).                                   *)
AnswersStayApart ==
  [][\A w, z \in Zdos : /\ w # z /\ w \in replied' \ replied
                        /\ phase[z] = "awaiting" /\ phase'[z] = "done"
                        => phase[w] = "done"]_nodeVars

(* A request cancelled while it waits in the queue never reaches the NCP,  *)
(* however long it has to wait (homey-ember.cjs:408).                      *)
CancelledNeverDispatched ==
  [][\A r \in NodeCalls : r \in cancelled /\ phase[r] = "queued" =>
       phase'[r] # "dispatching" /\ ncp'[r] = "none"]_nodeVars

=============================================================================
