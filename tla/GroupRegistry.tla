---------------------------- MODULE GroupRegistry ----------------------------
(***************************************************************************)
(* What binding and unbinding groups promises: every call takes effect in  *)
(* one step, at most once, and is told success in that step and no other;  *)
(* a call that fails changes nothing.  A caller who stopped waiting may    *)
(* see the effect later.  A multicast that is seen adds its group too, and *)
(* until the radio has confirmed that group it may be withdrawn.           *)
(***************************************************************************)
CONSTANTS Adds, Removes, Sightings, GroupOf, Protected, FirstGroups

VARIABLES groups,       \* the groups that are bound
          outcome,      \* call -> what its caller was told, "nothing" so far
          ended,        \* the operations that have taken effect or failed
          unconfirmed   \* the sightings whose group may be withdrawn

Calls == Adds \cup Removes

Init ==
  /\ groups = FirstGroups
  /\ outcome = [o \in Calls |-> "nothing"]
  /\ ended = {}
  /\ unconfirmed = {}

\* A caller is told one thing.
Tell(o, what) ==
  outcome' = IF outcome[o] = "nothing" THEN [outcome EXCEPT ![o] = what] ELSE outcome

(* How an operation ends. *)

Add(o) ==
  /\ groups' = groups \cup {GroupOf[o]}
  /\ Tell(o, "ok")
  /\ UNCHANGED unconfirmed

Remove(o) ==
  /\ groups' = groups \ ({GroupOf[o]} \ Protected)
  /\ Tell(o, "ok")
  /\ UNCHANGED unconfirmed

Reject(o) ==
  /\ Tell(o, "failed") \/ Tell(o, "aborted")
  /\ UNCHANGED <<groups, unconfirmed>>

SeeKnown(o) ==
  /\ GroupOf[o] \in groups
  /\ o \notin unconfirmed
  /\ UNCHANGED <<groups, outcome, unconfirmed>>

\* The radio has the group, or has refused it.
Resolve(o) ==
  /\ o \in unconfirmed
  /\ unconfirmed' = unconfirmed \ {o}
  /\ groups' \in {groups, groups \ {GroupOf[o]}}
  /\ UNCHANGED outcome

End(o) ==
  /\ o \notin ended
  /\ ended' = ended \cup {o}
  /\ \/ o \in Adds /\ Add(o)
     \/ o \in Removes /\ Remove(o)
     \/ o \in Calls /\ Reject(o)
     \/ o \in Sightings /\ (SeeKnown(o) \/ Resolve(o))

(* What happens before it does. *)

\* The caller stops waiting for an operation that goes on.
GiveUp(o) ==
  /\ o \notin ended
  /\ outcome[o] = "nothing"
  /\ outcome'[o] \in {"timeout", "aborted"}
  /\ Tell(o, outcome'[o])
  /\ UNCHANGED <<groups, ended, unconfirmed>>

See(o) ==
  /\ o \notin ended \cup unconfirmed
  /\ unconfirmed' = unconfirmed \cup {o}
  /\ groups' = groups \cup {GroupOf[o]}
  /\ UNCHANGED <<outcome, ended>>

Next ==
  \/ \E o \in Calls \cup Sightings : End(o)
  \/ \E o \in Calls : GiveUp(o)
  \/ \E o \in Sightings : See(o)

Spec == Init /\ [][Next]_<<groups, outcome, ended, unconfirmed>>
=============================================================================
