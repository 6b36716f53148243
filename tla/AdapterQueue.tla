---------------------------- MODULE AdapterQueue ----------------------------
(***************************************************************************)
(* The request queue of zigbee-herdsman's adapter, as homey-ember.cjs uses *)
(* it: `this.queue.execute(job, networkAddress)'.  The queue itself is not *)
(* in src/.  A job keeps its place from execute() until its function has   *)
(* settled; at most Concurrent jobs run at a time, jobs with the same key  *)
(* run one after the other, and a finished job starts the first waiting    *)
(* job that may run.                                                       *)
(*                                                                         *)
(* The module also keeps what every request of the controller has beside   *)
(* its job: an AbortSignal and a caller who is told an outcome once.       *)
(***************************************************************************)
EXTENDS Naturals, FiniteSets, SequencesExt

CONSTANTS Requests,    \* the requests Homey or the mesh may make
          KeyOf,       \* request -> the network address its job is keyed by
          Unkeyed,     \* the key of a job that has none
          Concurrent,  \* how many jobs herdsman runs at a time
          Mixes,       \* bound: the sets of requests that are made together
          MaxCancels   \* bound: how many signals fire

ASSUME QueueAssumption == /\ Concurrent \in Nat \ {0}
                          /\ Mixes \subseteq SUBSET Requests
                          /\ MaxCancels \in Nat
                          /\ DOMAIN KeyOf = Requests

VARIABLES jobs,       \* the queue: requests whose job has not settled, oldest first
          running,    \* those of them whose function has been started
          cancelled,  \* requests whose AbortSignal has fired
          told,       \* request -> what its caller was told, "nothing" so far
          up          \* the adapter has its radio

queueVars == <<jobs, running>>
callerVars == <<cancelled, told>>

Outcomes == {"ok", "timeout", "unreachable", "aborted", "failed", "tableFull"}

QueueTypeOK == /\ jobs \in Seq(Requests)
               /\ running \subseteq Requests
               /\ cancelled \subseteq Requests
               /\ told \in [Requests -> Outcomes \cup {"nothing"}]
               /\ up \in BOOLEAN

QueueInit == /\ jobs = <<>>
             /\ running = {}
             /\ cancelled = {}
             /\ told = [r \in Requests |-> "nothing"]
             /\ up = TRUE

-----------------------------------------------------------------------------
\* Mutant: a job is queued without its key.
JobKeyDropped(r) == Unkeyed

(* The key a job is queued with: the network address a frame or a ZDO      *)
(* request goes to.  Jobs that write the multicast table have none.        *)
JobKey(r) == KeyOf[r]

(* The jobs of queue q that may start while those of busy run. *)
MayStart(q, busy) ==
  {i \in DOMAIN q : /\ q[i] \notin busy
                    /\ JobKey(q[i]) # Unkeyed =>
                         \A r \in busy : JobKey(r) # JobKey(q[i])}

(* The jobs that run once the first one that may start, if any, has been. *)
WithNext(q, busy) ==
  IF Cardinality(busy) < Concurrent /\ MayStart(q, busy) # {}
    THEN busy \cup {q[Min(MayStart(q, busy))]}
    ELSE busy

Execute(r) == /\ jobs' = Append(jobs, r)
              /\ running' = WithNext(jobs', running)

Settle(r) == /\ jobs' = RemoveFirst(jobs, r)
             /\ running' = WithNext(jobs', running \ {r})

(* A caller is told one outcome: what settles a promise later is ignored. *)
Tell(r, outcome) ==
  told' = IF told[r] = "nothing" THEN [told EXCEPT ![r] = outcome] ELSE told

(* The AbortSignal of r fires. *)
Abort(r) == /\ r \notin cancelled /\ Cardinality(cancelled) < MaxCancels
            /\ cancelled' = cancelled \cup {r}

=============================================================================
