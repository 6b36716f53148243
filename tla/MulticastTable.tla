--------------------------- MODULE MulticastTable ---------------------------
(***************************************************************************)
(* The coordinator's multicast groups in homey-ember.cjs.  The host keeps  *)
(* the groups in a dense array, multicastTable; the NCP keeps a table of   *)
(* entries that is written one entry at a time, by index.  addMulticast-   *)
(* Group, removeMulticastGroup and herdsman's own reaction to a multicast  *)
(* it sees being sent (a "sighting") all change both, so they take turns   *)
(* by a lock (homeyMulticastTail) and write from a job of the queue.       *)
(***************************************************************************)
EXTENDS AdapterQueue

CONSTANTS Adds,        \* calls of addMulticastGroup (_bindGroup)
          Removes,     \* calls of removeMulticastGroup (_unbindGroup)
          Sightings,   \* messageSent reports of a multicast
          GroupOf,     \* request -> its group
          Protected,   \* PROTECTED_MULTICAST_GROUPS
          FirstTable,  \* the groups bound before, oldest first
          Size,        \* entries of the NCP's table
          Empty,       \* an entry without a group
          MaxFaults    \* bound: table commands that do not succeed

VARIABLES step,    \* request -> how far it has come
          lock,    \* the lock's holder, then those who wait for it
          table,   \* multicastTable
          entries, \* the NCP's table
          at,      \* request -> the index it writes, found when its job began
          faults,  \* table commands that have not succeeded
          doubt    \* history: a command left the NCP's table unknown

tableVars == <<step, lock, table, entries, at, faults, doubt>>

GroupCalls == Adds \cup Removes
TableOps == GroupCalls \cup Sightings
Indices == 1 .. Size
Groups == {GroupOf[o] : o \in TableOps} \cup ToSet(FirstTable)

ASSUME TableAssumption ==
  /\ TableOps \subseteq Requests
  /\ Adds \cap Removes = {} /\ Adds \cap Sightings = {} /\ Removes \cap Sightings = {}
  /\ Size \in Nat /\ MaxFaults \in Nat
  /\ FirstTable \in Seq(Groups) /\ Len(FirstTable) <= Size
  /\ \A i, j \in DOMAIN FirstTable : FirstTable[i] = FirstTable[j] => i = j
  /\ Empty \notin Groups

TableTypeOK ==
  /\ step \in [TableOps -> {"idle", "waiting", "queued", "set", "move", "clear", "undo", "done"}]
  /\ lock \in Seq(TableOps)
  /\ table \in Seq(Groups)
  /\ entries \in [Indices -> Groups \cup {Empty}]
  /\ at \in [TableOps -> 0 .. Size + 1]
  /\ faults \in 0 .. MaxFaults
  /\ doubt \in BOOLEAN

(* The NCP's table when it holds exactly the groups of the host's array. *)
Mirror(t) == [i \in Indices |-> IF i <= Len(t) THEN t[i] ELSE Empty]

TableInit == /\ step = [o \in TableOps |-> "idle"]
             /\ lock = <<>>
             /\ table = FirstTable
             /\ entries = Mirror(FirstTable)
             /\ at = [o \in TableOps |-> 0]
             /\ faults = 0
             /\ doubt = FALSE

Bound(g) == g \in ToSet(table)
LastIndex == Len(table)

-----------------------------------------------------------------------------
(* Before the lock. *)

AwaitLock(o) == /\ lock' = Append(lock, o)
                /\ step' = [step EXCEPT ![o] = "waiting"]

(* The call returns before it asks for the lock. *)
ReturnAtOnce(o) == /\ step' = [step EXCEPT ![o] = "done"]
                   /\ Tell(o, "ok")

\* Mutant: joins what is on its way to add the same group.
CallAddJoining(o) ==
  /\ step[o] = "idle"
  /\ IF \/ Bound(GroupOf[o])
        \/ \E a \in (Adds \cup Sightings) \cap ToSet(lock) : GroupOf[a] = GroupOf[o]
       THEN ReturnAtOnce(o) /\ UNCHANGED lock
       ELSE AwaitLock(o) /\ UNCHANGED told
  /\ UNCHANGED <<up, queueVars, cancelled, table, entries, at, faults, doubt>>

(* A group the host's array has by now is not added again, and a protected *)
(* one is not removed; neither looks at who holds or awaits the lock.      *)
CallAdd(o) ==
  /\ step[o] = "idle"
  /\ IF Bound(GroupOf[o]) THEN ReturnAtOnce(o) /\ UNCHANGED lock
                          ELSE AwaitLock(o) /\ UNCHANGED told
  /\ UNCHANGED <<up, queueVars, cancelled, table, entries, at, faults, doubt>>

CallRemove(o) ==
  /\ step[o] = "idle"
  /\ IF GroupOf[o] \in Protected THEN ReturnAtOnce(o) /\ UNCHANGED lock
                                 ELSE AwaitLock(o) /\ UNCHANGED told
  /\ UNCHANGED <<up, queueVars, cancelled, table, entries, at, faults, doubt>>

(* The NCP reports a multicast that was sent to group GroupOf[o]. *)
SeeMulticast(o) ==
  /\ up
  /\ step[o] = "idle"
  /\ AwaitLock(o)
  /\ UNCHANGED <<up, queueVars, callerVars, table, entries, at, faults, doubt>>

-----------------------------------------------------------------------------
(* Under the lock. *)

TakeLock(o) ==
  /\ lock # <<>> /\ Head(lock) = o /\ step[o] = "waiting"
  /\ step' = [step EXCEPT ![o] = "queued"]
  /\ Execute(o)

TakeLockForCall(o) ==
  /\ TakeLock(o)
  /\ UNCHANGED <<up, callerVars, lock, table, entries, at, faults, doubt>>

(* super.onMessageSent puts an unknown group into the host's array before  *)
(* its job writes the NCP's entry.                                         *)
TakeLockForSighting(o) ==
  /\ IF Bound(GroupOf[o])
       THEN /\ lock # <<>> /\ Head(lock) = o /\ step[o] = "waiting"
            /\ step' = [step EXCEPT ![o] = "done"]
            /\ lock' = Tail(lock)
            /\ UNCHANGED <<queueVars, table, at>>
       ELSE /\ TakeLock(o)
            /\ table' = Append(table, GroupOf[o])
            /\ at' = [at EXCEPT ![o] = LastIndex + 1]
            /\ UNCHANGED lock
  /\ UNCHANGED <<up, callerVars, entries, faults, doubt>>

\* Mutant: the lock is released only by an operation that succeeds.
EndOpOnSuccess(o, outcome) ==
  /\ step' = [step EXCEPT ![o] = "done"]
  /\ Tell(o, outcome)
  /\ Settle(o)
  /\ lock' = IF outcome = "ok" THEN Tail(lock) ELSE lock

(* The job of o, which holds the lock, ends; the next in line takes it. *)
EndOp(o, outcome) ==
  /\ step' = [step EXCEPT ![o] = "done"]
  /\ Tell(o, outcome)
  /\ Settle(o)
  /\ lock' = Tail(lock)

JobMayBegin(o) == up /\ step[o] = "queued" /\ o \in running

\* Mutant: a group that came in during the wait is not noticed.
BeginAddUnchecked(o) ==
  /\ JobMayBegin(o)
  /\ IF o \in cancelled THEN EndOp(o, "aborted") /\ UNCHANGED at
     ELSE /\ step' = [step EXCEPT ![o] = "set"]
          /\ at' = [at EXCEPT ![o] = LastIndex + 1]
          /\ UNCHANGED <<queueVars, told, lock>>
  /\ UNCHANGED <<up, cancelled, table, entries, faults, doubt>>

BeginAdd(o) ==
  /\ JobMayBegin(o)
  /\ IF o \in cancelled THEN EndOp(o, "aborted") /\ UNCHANGED at
     ELSE IF Bound(GroupOf[o]) THEN EndOp(o, "ok") /\ UNCHANGED at
     ELSE /\ step' = [step EXCEPT ![o] = "set"]
          /\ at' = [at EXCEPT ![o] = LastIndex + 1]
          /\ UNCHANGED <<queueVars, told, lock>>
  /\ UNCHANGED <<up, cancelled, table, entries, faults, doubt>>

BeginSighting(o) ==
  /\ JobMayBegin(o)
  /\ step' = [step EXCEPT ![o] = "set"]
  /\ UNCHANGED <<up, queueVars, callerVars, lock, table, entries, at, faults, doubt>>

\* Mutant: the last entry is cleared before its group has been moved.
BeginRemoveInPlace(o) ==
  /\ JobMayBegin(o)
  /\ IF o \in cancelled THEN EndOp(o, "aborted") /\ UNCHANGED at
     ELSE IF ~Bound(GroupOf[o]) THEN EndOp(o, "ok") /\ UNCHANGED at
     ELSE /\ step' = [step EXCEPT ![o] = "clear"]
          /\ at' = [at EXCEPT ![o] = SelectInSeq(table, LAMBDA g : g = GroupOf[o])]
          /\ UNCHANGED <<queueVars, told, lock>>
  /\ UNCHANGED <<up, cancelled, table, entries, faults, doubt>>

BeginRemove(o) ==
  /\ JobMayBegin(o)
  /\ IF o \in cancelled THEN EndOp(o, "aborted") /\ UNCHANGED at
     ELSE IF ~Bound(GroupOf[o]) THEN EndOp(o, "ok") /\ UNCHANGED at
     ELSE LET index == SelectInSeq(table, LAMBDA g : g = GroupOf[o])
          IN /\ step' = [step EXCEPT ![o] = IF index # LastIndex THEN "move" ELSE "clear"]
             /\ at' = [at EXCEPT ![o] = index]
             /\ UNCHANGED <<queueVars, told, lock>>
  /\ UNCHANGED <<up, cancelled, table, entries, faults, doubt>>

-----------------------------------------------------------------------------
(* Commands to the NCP. *)

(* ezspSetMulticastTableEntry(index, group): the NCP writes the entry, or  *)
(* refuses with a status, as it does when its table has no such entry, or  *)
(* the command itself fails and the entry may have been written or not.    *)
Answers == {"ok", "refused", "lost"}

WriteEntry(index, group, answer) ==
  /\ answer # "lost" => up
  /\ \/ answer = "ok" /\ index \in Indices /\ UNCHANGED faults
     \/ answer = "refused" /\ index \notin Indices /\ UNCHANGED faults
     \/ answer # "ok" /\ faults < MaxFaults /\ faults' = faults + 1
  /\ \/ answer # "refused" /\ index \in Indices /\ entries' = [entries EXCEPT ![index] = group]
     \/ answer # "ok" /\ UNCHANGED entries

SetEntry(o) ==
  /\ step[o] = "set" /\ o \in Adds
  /\ \E answer \in Answers :
       /\ WriteEntry(at[o], GroupOf[o], answer)
       /\ doubt' = (doubt \/ answer = "lost")
       /\ EndOp(o, IF answer = "ok" THEN "ok" ELSE "failed")
       /\ table' = IF answer = "ok" THEN Append(table, GroupOf[o]) ELSE table
  /\ UNCHANGED <<up, cancelled, at>>

(* A sighting whose entry was not written takes its group back out. *)
SetSightedEntry(o) ==
  /\ step[o] = "set" /\ o \in Sightings
  /\ \E answer \in Answers :
       /\ WriteEntry(at[o], GroupOf[o], answer)
       /\ doubt' = (doubt \/ answer = "lost")
       /\ EndOp(o, "ok")
       /\ table' = IF answer = "ok" THEN table ELSE RemoveAt(table, at[o])
  /\ UNCHANGED <<up, cancelled, at>>

(* The last group takes the place of the one to remove ... *)
MoveLast(o) ==
  /\ step[o] = "move"
  /\ \E answer \in Answers :
       /\ WriteEntry(at[o], table[LastIndex], answer)
       /\ doubt' = (doubt \/ answer = "lost")
       /\ IF answer = "ok"
            THEN /\ step' = [step EXCEPT ![o] = "clear"]
                 /\ UNCHANGED <<queueVars, told, lock>>
            ELSE EndOp(o, "failed")
  /\ UNCHANGED <<up, cancelled, table, at>>

\* Mutant: a refused clearing is not rolled back.
ClearLastWithoutUndo(o) ==
  /\ step[o] = "clear"
  /\ \E answer \in Answers :
       /\ WriteEntry(LastIndex, Empty, answer)
       /\ doubt' = (doubt \/ answer = "lost")
       /\ EndOp(o, IF answer = "ok" THEN "ok" ELSE "failed")
       /\ table' = IF answer = "ok"
                     THEN Front([table EXCEPT ![at[o]] = table[LastIndex]])
                     ELSE table
  /\ UNCHANGED <<up, cancelled, at>>

(* ... and the last entry is cleared, whereupon the host's array follows.  *)
(* Only a refusal is rolled back, when there is something to roll back.    *)
ClearLast(o) ==
  /\ step[o] = "clear"
  /\ \E answer \in Answers :
       /\ WriteEntry(LastIndex, Empty, answer)
       /\ doubt' = (doubt \/ answer = "lost")
       /\ IF answer = "refused" /\ at[o] # LastIndex
            THEN /\ step' = [step EXCEPT ![o] = "undo"]
                 /\ UNCHANGED <<queueVars, told, lock>>
            ELSE EndOp(o, IF answer = "ok" THEN "ok" ELSE "failed")
       /\ table' = IF answer = "ok"
                     THEN Front([table EXCEPT ![at[o]] = table[LastIndex]])
                     ELSE table
  /\ UNCHANGED <<up, cancelled, at>>

(* The roll-back's own status is not looked at. *)
UndoMove(o) ==
  /\ step[o] = "undo"
  /\ \E answer \in Answers :
       /\ WriteEntry(at[o], GroupOf[o], answer)
       /\ doubt' = (doubt \/ answer # "ok")
  /\ EndOp(o, "failed")
  /\ UNCHANGED <<up, cancelled, table, at>>

-----------------------------------------------------------------------------
(* The caller gives up: withTimeout, withAbort.  The operation goes on. *)

GroupTimer(o) ==
  /\ step[o] \notin {"idle", "done"} /\ told[o] = "nothing"
  /\ Tell(o, "timeout")
  /\ UNCHANGED <<up, queueVars, cancelled, tableVars>>

CancelGroup(o) ==
  /\ step[o] \notin {"idle", "done"}
  /\ Abort(o)
  /\ Tell(o, "aborted")
  /\ UNCHANGED <<up, queueVars, tableVars>>

-----------------------------------------------------------------------------
(* Properties. *)

(* Between operations the NCP's table holds the host's groups at the same  *)
(* indices and nothing else, whatever was refused on the way, unless a     *)
(* command failed in a way that leaves its effect unknown or a roll-back   *)
(* was refused: indices are worked out from the host's array alone.        *)
Mirrored == lock = <<>> /\ ~doubt => entries = Mirror(table)

(* The host's array holds a group once, though adding a group looks at it  *)
(* before it waits for the lock and a sighting adds to it by itself.       *)
GroupsOnce == \A i, j \in DOMAIN table : table[i] = table[j] => i = j

(* The groups the NCP listens to. *)
Listening == {entries[i] : i \in Indices} \ {Empty}

(* The NCP stops listening to a group only because this group is being     *)
(* removed: compacting the table never drops another one, not even between *)
(* its two writes, and a protected group always stays.                     *)
NeighboursKeepListening ==
  [][~doubt' => \A g \in Listening \ Listening' :
       /\ g \notin Protected
       /\ \E o \in Removes : GroupOf[o] = g /\ step[o] \in {"move", "clear"}]_tableVars

Registry ==
  INSTANCE GroupRegistry
    WITH FirstGroups <- ToSet(FirstTable),
         groups <- ToSet(table),
         outcome <- [o \in GroupCalls |-> told[o]],
         ended <- {o \in TableOps : step[o] = "done"},
         unconfirmed <- {o \in Sightings : step[o] \in {"queued", "set"}}

(* Binding and unbinding are atomic, although a call looks at the array    *)
(* before it waits for the lock, works on the table in several commands,   *)
(* and may outlive its caller: success means that at that moment the group *)
(* was bound, or was not, and a failure leaves the host's groups alone.    *)
CallsTakeEffectOnce == Registry!Spec

=============================================================================
