# A formal model of Homey SHS Enhanced

TLA+ specifications, TLC configurations and TLAPS proofs for this repository:
the direct Zigbee enhancement (`src/enhancements/0001-zigbee-ember`), how it gets
into the image, and the patches that guard a container and its memory. Paths below
are relative to the repository; line numbers are those of `src/enhancements/0001-zigbee-ember/src/` unless said otherwise.

## The system

Homey SHS is a closed Node.js server. The enhancement gives it a Zigbee
coordinator on a serial port. One process, one thread: concurrency is the
interleaving of asynchronous calls at their awaits, of timers and of the
radio's events.

| Part | State it keeps | Operations | Talks to |
|---|---|---|---|
| `RadioStore.mts` | `network.json`, `coordinator-backup.json` | load or create, reset, write backup | called by the controller |
| `HomeyEmberController.mts` (lifecycle) | `adapter`, `storedNetwork`, `backupInFlight`, two timers, `destroyed`, `destroyPromise`, `skipFinalBackup` | `start`, `_reset`, `_destroy`, `writeBackup`, joins and leaves | the store; an adapter; emits `disconnected` to the manager |
| `ManagerZigbeeEmber.mts` | `controller`, `startLoop`, `lifecycleAbort`, `controllerStartPromise`, `zigbee_ready`, `recovering`, `resetting`, `stopping` | start loop, recovery, reset, shutdown | makes, starts and destroys controllers; awaited by Homey |
| `homey-ember.cjs`, fragments | `homeyFragments` | `onIncomingMessage` | the radio; hands payloads to ZCL |
| `homey-ember.cjs`, multicast | `multicastTable` and the NCP's table, `homeyMulticastTail` | add, remove, `onMessageSent` | the adapter's queue |
| `homey-ember.cjs`, sends | `homeyPendingSends` | `sendRawZclFrame`, `onMessageSent`, timeout, abort, stop | the adapter's queue |
| `homey-ember.cjs`, ZDO and joining | none of its own | `sendHomeyZdo`, `permitJoin`, `onZDOResponse` | herdsman |
| zigbee-herdsman's queue (external) | jobs, the keys at work | `execute(job, key)` | runs the three above |
| `backoff.mts` | none | delay arithmetic, cancellable delay | the start loop |
| Request translation in the controller | none | ZCL, ZDO, binding, interview calls | Homey's base `Controller` |
| `apply.mjs`, overlay | files of the image | verify, edit, copy; once per build | the Docker build |
| Patch 0001 | `/homey/user`, in a volume or in the container's layer | preload, volume check, daemons | the container |
| Patch 0004 | none | reads `/proc/meminfo` and the cgroup, clamps | the app guard |
| Patches 0002, 0003, 0005 to 0008 | none | daemon failure, interface selection, Python apps | upstream code |
| Chart, image, CI | none | packaging | |

What is hard here:

* **Interleaving.** `start()`, `reset()` and `destroy()` of one controller can
  all be under way; recovery, reset, shutdown and the start loop of the manager
  share fields across awaits, with time limits after which they no longer wait
  for one another.
* **Crashes.** Two files must stay consistent over a crash between two renames.
* **Coalescing.** A backup that was asked for may join one that began earlier.
* **Failure of a step.** Any radio call, file operation or hook may reject.
* **An unreliable radio.** Blocks and ACKs are lost, repeated and reordered. The
  NCP's report of a frame comes before its answer to the dispatch, after the frame
  was given up, when its tag belongs to another frame, or never.
* **Two tables, one lock, one queue.** The host's array of multicast groups and the
  NCP's table are written one command at a time. The operation that holds the lock
  may wait in the queue behind frames that wait for reports.
* **A build that stops half way**, and is run again on the tree it left.

What makes each part correct is stated as properties in its module, and every
hazard is listed with its source line in `PROJECT.json`.

## The modules

| Module | Models |
|---|---|
| `DurableNetwork` | abstract: networks that never come back, and backups that are one moment of one |
| `RadioStore` | the two files and the operations on them |
| `BackupLifecycle` (extends `RadioStore`) | who writes the files and when: controllers, flights, timers, crashes; implements `DurableNetwork` |
| `EmberController` | one controller's `start`, `destroy`, `reset` over its adapter and port |
| `EmberManager` (extends `EmberController`) | start loop, recovery, reset, shutdown, and the manager's callers |
| `MessageDelivery` | abstract: whole messages, at most once |
| `FragmentReassembly` | `onIncomingMessage()`, its senders and the radio; implements `MessageDelivery` |
| `AdapterQueue` | the queue of the adapter, abort signals and what callers are told |
| `NodeRequests` (extends `AdapterQueue`) | raw ZCL frames and ZDO requests to nodes |
| `GroupRegistry` | abstract: binding and unbinding groups, each call in one step |
| `MulticastTable` (extends `AdapterQueue`) | the group table of host and NCP, its lock and roll-back; implements `GroupRegistry` |
| `EmberRequests` | composes the two over the one queue |
| `ImageBuild` | patches, `apply.mjs`, the postinstall check, and what ships |
| `ContainerBoot` | preload, volume guard and daemons of patch 0001, over containers |
| `CgroupMemory` | the memory numbers of patch 0004 |
| `Deployment` | composes the last three |
| `BackupLifecycleProofs`, `EmberManagerProofs`, `EmberServiceProofs`, `FragmentReassemblyProofs`, `EmberRequestsProofs`, `MulticastTableProofs`, `RequestQueueProofs`, `DeploymentProofs` | TLAPS proofs |
| `MC*` | instances for TLC |

The mutants named in `PROJECT.json` are operators of these modules marked
`Mutant:`; no specification uses them. Each is a slip in the operator after it,
and each makes one property fail.

### RadioStore and BackupLifecycle

A network is a number (`createNetwork()` draws an identity nobody has seen); a
backup is the network it was taken of and the version of the node table. A write
is the rename that ends it, because `writeJsonAtomic()` syncs a temporary file
first: a crash in the middle leaves the old content, so only the rename is
visible. The `init()` and `chmod` calls around it cannot change the content; the
one thing they can do is fail, which `StartFails`, `ResetFails` and
`FlightFails` allow (a write whose final `chmod` fails after the rename is two
steps of the model in one: the file is there and the caller sees an error; the
model reaches the same files by a success followed by a fault).

Each controller has three program counters, one per asynchronous call:
`phase` (`start`), `reset` (`_reset`) and `close` (`_destroy`), and the set
`flights` of `writeBackup()` bodies. The code keeps at most one in
`backupInFlight`; a set lets the property say so instead of the type. `adapter`
is named by the network it was started with. `Reboot` is a crash or an orderly
exit: memory is lost, files stay. `Spawn` makes a controller when the previous
one is destroyed: that this is what the manager does is `EmberManager`'s matter.

A controller is dropped in four ways: its `start()` rejected (`AbandonStart`); it
runs and a hook of `onZigbeeReady()` rejected (`AbandonReady`); its link is lost;
a reset failed, which costs the controller of that moment, whichever began the
reset (`AbandonReset`). In the second the manager destroys it while `zigbee_ready`
is still set (`close` is `dropped` until `NotReady`), so a user's `_reset()` may be
under way or may even begin. `_reset()` has taken the adapter, `destroy()` returns
at once, and the loop makes the next controller without looking at the reset.
`outlived` records that this happened: the next one loads the old `network.json`,
and the old `_reset()` then removes the backup and replaces the file under it. The
reset fails on its own destroyed controller afterwards, and recovery replaces the
successor. `outlived` is the exception of four properties, next to `overlap` (a
reset removed the backup while a write of one was under way); what happens in the
end is `BackupCatchesUp`, which excepts neither.

`MaxFaults` counts crashes, shutdowns, lost links, failed calls and rejected hooks
together.

`DurableNetwork` is what the two files promise whoever replaces a coordinator. It
knows a network, a backup, the node table's version, the moments (a network
and its node table) being backed up and whether a reset has outlived its
controller. A network gives way only to a newer one, a moment is begun only of the
stored network, or of an earlier one after such a reset, and the backup is nothing
or a moment that was begun. It has no controllers, flights, timers, crashes or phases: the
refinement mapping (`Durable`) keeps the two files and the table and takes for the
moments those of all flights of all controllers, destroyed ones included.
Promised is what the code keeps: that the backup is the *latest* moment is not
(see the findings), and that it is current in the end is `BackupCatchesUp`.

### EmberController and EmberManager

A controller is a record: where its three calls are, its flags, whether an
adapter it made holds the serial port and whether the coordinator is gone.
Controllers are named by the start loop that made them; a loop has one at a
time, and loops nobody refers to are used again (`Free`), so three of them stand
for any number over time. The one exception is `Orphan`, the controller a loop
replaced while a reset of it was in flight (`Outlives`, in `Retry`, which waits
for the back-off and nothing else). There is one name for it because there is one
reset at a time. Each label of `pc`, `rec`, `un` and `rst` is an await
of `runStartLoop()`, `recoverFromDisconnect()` with `teardownZigbee()`,
`onUninit()` and `resetNetwork()`; the code between two awaits is one action.
Time limits (`settleWithin`, `withTimeout`) are steps that may happen whether or
not what they wait for has.

External, from how `src/` uses it: the base manager's `onZigbeeReady()` sets
`zigbee_ready` as it completes, `onZigbeeDestroy()` clears it,
`getZigbeeReady()` awaits `controllerStartPromise` while not ready, and pairings
and resets start only when ready; Homey runs one reset at a time and one
shutdown, after `onInit()`; the base controller's `destroy()` runs `_destroy()`;
an adapter reports the loss of its coordinator once, and then its calls reject.

Every `adapter.stop()` is awaited for five seconds and then forgotten, whatever it
holds. An adapter that settles in time has let go of the port (`Released`,
`Stopped`, `ResetReplaces` and the rest). One that takes longer, or rejects, is
given up (`StopLate`): it is no longer the controller's `port` but one of the
`stuck`, which may still hold the device. While there is one, opening the port may
fail without a further fault (`OpeningFails`). It may let go later (`LateStop`),
and nothing makes it.

`mishaps` is a history variable. Three things the code lets happen void the
availability properties; each is a refuted property or a listed hazard of its
own, and the set lets the others say exactly what remains true without them:
`halfReady` (the local hook rejects after the base became ready), `lossIgnored`
(a loss reported while nobody looks) and `recoveryRejected` (a hook or
`setCurrentCommand` rejects inside recovery).

`OnePort` is about adapters that were not given up: the manager never opens one
beside another it still means to use or to wait for. Two adapters do meet on the
device after a `stop()` that timed out; the code accepts that and retries, so what
holds then is `NobodyGivesUp`, and `EventuallyServed` once none is `stuck`.

### FragmentReassembly and MessageDelivery

A block is its message and its index; lengths are data, since every block but
the last must match block 0. The host's part is `Receive`, split into the four
ways out of the handler. A packet stays in `air` until `Delay` has passed, may be
received never, once or again, in any order; ACKs alike. A sender repeats a block
for `Patience`, and reuses an APS sequence only after `Ttl + Delay`. The
assumption `Patience + Delay < Ttl` is the comment's own reasoning (three ACK
timeouts, about 5 s, against 10 s). The refinement mapping takes the payloads of
messages whose sender has begun for the messages sent, and `delivered` as it is.
A block 0 that announces no blocks is dropped by the code and sent by nobody in
the model; unfragmented messages pass straight through.

### AdapterQueue, NodeRequests, MulticastTable, EmberRequests

Herdsman's queue is external: a job holds its place from `execute()` until its
function settles, `Concurrent` jobs run at a time, those with one key one after
the other, and the end of a job starts the oldest one that may run (`Settle`).
The key is the node's address; operations on the table have none.

A request is a value with a kind and a key. A raw frame goes from the call
through the dispatch, which registers its entry under a message tag before it
asks the NCP, to the one event that settles `sent`: report, timer, abort, failed
dispatch, lost radio. `told` is what the controller makes of it
(`_sendZCLFrame`, `sendZdo`), written once. A ZDO request waits for the node's
answer or herdsman's timer; `withAbort()` tells a cancelled caller at once while
the job keeps its place. `MessageSent` takes a tag and not a frame, since that is
all the report has.

In the multicast table one action is one command: the host's array changes before
or after the NCP's entry as in the code, and a command may be refused or may be
lost with its effect unknown. `doubt` remembers the second, because
then nobody can know what the NCP holds. `remove` moves the last entry into the
hole, clears the last, and undoes the move if clearing was refused. A sighting
is herdsman's own reaction to a multicast it sees sent, which the code makes take
the same lock. Entries are numbered from 1; the code counts from 0.

`GroupRegistry` is the same without lock, queue, commands and NCP: a call takes
effect on the set of groups in one step, is told success in that step and no
other, and changes nothing if it fails. The mapping (`Registry`) takes the members
of the host's array, what the calls were told, the operations that are done, and
the sightings that have put their group into the array and have not heard of the
NCP (`unconfirmed`). A caller may stop waiting before the effect (`GiveUp`): being
told `timeout` or `aborted` then says nothing of the groups. And an unconfirmed
group may be withdrawn, also after an add of the same group was told success
because the array had it (`homey-ember.cjs`:474): the registry allows exactly that and
no other way for a bound group to go.

The addresses a ZDO answer updates and the times nodes were last seen are the
base controller's. A broadcast has no key of its own to wait under and is left
out of `NodeRequests`; multicasts appear as sightings.

### ImageBuild, ContainerBoot, CgroupMemory, Deployment

`upstream` says which of the hashed files are the pinned ones. `apply.mjs` checks
all of them, then makes three replacements, each with an anchor that must occur
exactly once, copies upstream's manager aside, and puts the selector in its place.
A run may stop after any step (`Interrupt`); it starts again on upstream's tree,
as a build does, or on the tree it left, as a developer may.

`ContainerBoot` follows a container: whether a volume is mounted, where the log
directory is, what the preload creates before the check, what the daemons save
and whether that goes with the container. An explicit log directory under
`/homey/user` defeats the check, which the code cannot see; `misled` marks it.

`CgroupMemory` is a pure function, compared with its reference over every
combination of the host's and the cgroup's numbers from `Amounts`; both cgroup
versions, missing files and "max" included.

## What is checked

| Run | Instance | Shows |
|---|---|---|
| `backup_safety` | 3 controllers, 3 networks, 1 join, 2 faults; symmetry | types; the files are of one network unless a reset overtook a write or outlived its controller; an adapter runs the stored network unless a reset outlived its controller; only a reset replaces `network.json`; only a left-over write of a destroyed controller makes the backup older; implements `DurableNetwork` |
| `backup_converges` | 3 controllers, 2 networks, 2 joins, 1 fault; fair | the backup on disk becomes, and stays, current |
| `paired_files` | 1 controller, 2 networks | **refuted**: the comment of `resetNetwork()` |
| `manager_safety` | 3 loops, 2 faults, nobody waits; symmetry | one port among the adapters not given up, one live supervisor, a ready Zigbee is served, a resolved promise is current, recovery ends pairings; the manager is never idle over a radio that does not serve, and the current deferred always has somebody who will settle it |
| `manager_live` | 3 loops, the first one's name fixed, no pairings, 1 fault; fair | Zigbee is served for good after the last fault, unless an adapter that was given up keeps the port or a mishap happened; a shutdown ends; nobody waits for ever on the current deferred |
| `loss_noticed`, `retries_forever` | 2 loops; fair | **refuted**: what the documentation says of replugging and of retries |
| `fragments` | 2 messages that reuse a sequence, 1 malformed, room for 1 | implements at-most-once delivery of whole messages; an acknowledged message was delivered; memory is bounded |
| `late_retransmit` | 1 message | **refuted**: a retransmitted final block is acknowledged |
| `requests` | 8 mixes of frames, ZDO requests, adds, removes and sightings; 2 places, 2 tags, table of 4; 2 faults, 1 cancellation; fair | the right caller is told the right thing; ZDO answers are not swapped; a cancelled request is not sent; the two tables agree; a removal drops no neighbour; binding and unbinding implement `GroupRegistry`; no caller, job or turn at the lock is lost; every request settles |
| `deployment` | 1 file more than the two that are edited, 3 runs, 3 containers, amounts 0 to 2 | only pinned files are changed; an image holds every edit once; no state is lost with a container; the guard is not told more than the cgroup allows |
| `swap_clamped` | the same | **refuted**: free swap is clamped |

### The findings

1. **Stale backup beside a new network** (`paired_files`). A `writeBackup()` past
   the radio when `_reset()` removes the file renames its file afterwards; nothing
   in `_reset()` awaits `backupInFlight`.
2. **A loss nobody notices** (`loss_noticed`). Lost during the group-0 call, whose
   errors are swallowed, or during the readiness hooks: the listener ignores it,
   Zigbee becomes ready on a dead adapter, and it is reported once.
3. **Recovery that ends retries** (`retries_forever`). A rejection of a hook or of
   `setCurrentCommand` in `recoverFromDisconnect()`.
4. **A final block that is not acknowledged** (`late_retransmit`). The time to live
   counts from block 0.
5. **A swap limit of zero** (`swap_clamped`). `readNumber()` takes it for no limit,
   so the guard is told the host's free swap.

The models reach three more states that a reader of the code may not expect, but
that contradict nothing the repository says: a reset's own backup joins an older
flight and returns with it (the daily timer repairs it, `backup_converges`);
recovery drops the deferred of a loop that is ready and has not resolved it, so
whoever awaited that one waits on; `start()` clears `destroyed`, so a shutdown
during `setControllerNodes()` is forgotten and the adapter starts.

### Bounds, and why they are enough

Two faults allow a fault and another during the handling of the first; a third
would only repeat one of them from a state two already reach. Three controllers
are one that leaves work behind, its successor, and a successor after a crash;
three loops are the running one, one overtaken, one recovery prepares.
`MaxNetworks` allows formation and two resets; `MaxTopology` one change in
`backup_safety`, which any of the flights before and after it may have missed, and
two in `backup_converges`, so that one can fall before and one during a flight.
`backup_converges` has two networks and one fault, because a network more and a fault more could use up the
three controllers before the last one is reached; the fault may be the half-ready
start, whose reset costs the successor too. In the manager the faults also count
adapters given up and controllers replaced during a reset: a half-ready start and
such a replacement are the two of `manager_safety`. A waiter and
a pairing session only ever keep a loop's name from being used again, so
`manager_safety` explores nothing beyond a state in which somebody waits
(`NobodyWaits`) and `manager_live` has no pairings (`LiveNext`); nothing else the
manager does is lost. The loops of the liveness run are interchangeable, but
symmetry is not sound there, so `LiveSpec` fixes the name of the first. The fragment instance has the
shortest time to live (3) in which a message can be given up (after 2), its
sequence reused and the new message completed (by 7). One entry of room makes
every other message meet a full table.

In `requests` the mixes name which requests meet: two frames to two nodes (sent
at once or one after the other), a frame and a ZDO request to one node, two ZDO
requests to one node; an add, and a
sighting beside a frame, while both places of the queue are taken; an add, a removal, another
add and a sighting of its group; a removal of a protected group and an add; more groups than the table has room for. A
frame may take any tag, since everything else that is sent moves the counter too;
with two tags frames share one or do not. Two places are the least in which one request may overtake another. One cancellation
is enough because a request is cancelled once and others do not look at it. Two
faults are the refusal of a removal's second command and of its roll-back.

In `deployment` one file more is hashed and not edited, so that drift elsewhere
is seen; three runs are one interrupted, one run on what it left, and one that
starts afresh; three containers are one that saves into its layer, its replacement,
and one that is restarted. Amounts 0, 1, 2 give zero, equal, less and more, and 3
is "max".

Where the theorems below hold for every bound, the runs' bounds only matter for
what is model-checked alone: the liveness properties.

Deadlock checking is off: a system without faults or requests left, or that was
shut down, or whose clock has reached its bound, really stops.

### Fairness

`BackupLifecycle`: node runs what is ready: calls in progress go on, timers
fire, the manager drops a failed controller and makes the next, a process asked
to stop exits and is started again. `EmberManager`: what is awaited settles
(radio calls answer or time out, hooks return, delays pass), one weak-fairness
condition per call in progress, so that no busy call starves another. Users,
resets, joins, shutdown and faults have no fairness, nor has an adapter that was
given up: nobody waits for its `stop()` any more, so `EventuallyServed` and
`CurrentWaiterServed` say what holds unless it keeps the port. `EmberRequests`: weak
fairness of the adapter's own progress: a job that may run is started, timers
fire, herdsman answers a command or gives it up. Reports of the NCP, answers of
nodes, callers and cancellations have none, so `EverythingSettles` rests on the
timers alone. A call that never settles
at all (herdsman's own queue has time limits) is outside the model.

## What is proved

All theorems hold for every value of the constants, from the named assumptions in
the modules: the bounds are natural numbers, requests are of one kind, a group
occurs once in the first table, `Orphan` is no loop and `None` no controller, and for the fragments that a
block is held and repeated for less than the time to live.

**`BackupLifecycleProofs`**: `TypeCorrect`, `FilesPaired`, `StoredNetworkRuns`,
`NetworkKept`, `BackupsImprove`. The type is inductive by itself (`TypeStep`). The two invariants
are not. That a flight writes a backup of the stored network depends on there
being one controller at work as long as no reset outlived its own (`OneActive`),
because another's reset would change the stored network. That depends on the
manager having one undestroyed controller (`OneLive`), on one reset at a time
(`OneReset`), and on a destroyed controller being past its `start()` unless Homey
is shutting down (`ClosedHasStarted`, `PcOrder`: which combinations of the three
counters occur). Between a reset's two halves the backup is gone and stays so
unless a write was under way (`WritesPaired`, `NothingWhileWriting`). A reset that
outlived its controller was one of a stored network (`OutlivedLate`), so it never
meets a network being formed.
Each action has a lemma `<Action>Step`; `NetworkKept` reads the two actions that
write `network.json`. `BackupsImprove` (the action property `BackupOnlyImproves`)
needs a second invariant, `WriteOrder`, on
top: each controller has one flight at most (`SingleFlight`), the undestroyed
controller's began after those that destroyed ones left over and that may still
reach the file (`LeftOversAreOlder`, `Reaches`: the flight a reset begins on a
destroyed controller's adapter does not), and is
not behind the file (`NotBehindTheFile`). There the actions are grouped by what
they do to the flights: `GoOnStep`, `ShrinkStep`, `BeginStep`, `SavedStep`.
`ImplementsDurableNetwork` shows every step to be one of `DurableNetwork` or none
(`DurableStep`): a new network is newer because the identity a controller has
drawn and not yet written is newer than the stored one (`NewIsNewest`, inductive
over `OneReset` and `OneActive`: two controllers never both hold one). A flight
begins on the stored network because its adapter runs that (`RunsStoredNetwork`),
or, after a reset outlived its controller, on an earlier one, since no adapter runs
a network before it is stored. `Spawn` is the step `Outlive` when a reset goes on,
and none otherwise.

**`EmberManagerProofs`**: `TypeCorrect`, `PortsDoNotCollide`,
`SupervisorsDoNotCompete`, `ReadinessIsBacked`,
`PairingsEndWithTheirController`, `WaitersGetTheCurrentController`. One inductive
invariant carries all six. `Supervision` says that a loop that was not told to
stop is the one whose signal `lifecycleAbort` is, and that a recovery has aborted
it; `Holding`, that it holds `this.controller`. `WhileReady`, `WhileResetting`
and `WhileRecovering` say what is true of that controller and of the loops in
each of these. A port may only be used by the controller of `this.controller`
(`UsedByCurrent`), and a loop makes the next one only after a `destroy()` that
has let go of everything or given it up to `stuck` (`Leaving`). That a controller
is replaced during a reset needs a half-ready start (`OutlivesRest`), which all of
this excludes. What the controller's own calls may do to
it is one relation, `Moves`, proved of every step once; the manager's actions are
then grouped by what they change (`Keeps`, `RecoverRest`, `AttemptRest`,
`GoesOn`, `StoppingRest`).

**`EmberServiceProofs`**: `TheManagerKeepsTrying` (`NobodyGivesUp`) and
`TheDeferredIsOwned` (`WaitersHaveALoop`), the safety half of what
`EventuallyServed` and `CurrentWaiterServed` say: a state from which nothing would
ever happen again cannot be reached. Two more invariants on top of the manager's.
`Tried`: a loop drops its controller only when told to (`Dropping`), one that was
not told to stop ends only in a ready manager with its deferred resolved, and the
loop a recovery is about to start was told nothing (`Commanding`). `Watched`: a
controller has its coordinator when its `start()` ends (`Starting`), and one that
loses it while Zigbee is ready does so inside a reset, which then fails and
reports it (`Ready`). The mishaps are the hypotheses, since each of them is
exactly a way to break one of these.

**`FragmentReassemblyProofs`**: `TypeCorrect`, `EntriesHoldOneMessage`,
`AcknowledgedWasDelivered`, `MemoryIsBounded`, and `ImplementsDelivery`, the
refinement of `MessageDelivery`. The argument is one of time. The radio holds a
block for at most `Delay` (`FreshAir`), a sender repeats one for at most
`Patience`, and a key is used again only `Ttl + Delay` later (`Separated`), so
whatever arrives under a key is of the message the entry there was begun by
(`Entries`), a completed entry is remembered as long as its blocks may be
repeated (`Remembered`), and an ACK speaks of a block that was received
(`HonestAcks`, `Heard`). A block delivered twice would need an entry gone while
its blocks are still in the air.

**`EmberRequestsProofs`**: `EntriesAreWaitedFor`, `ReportsAreTold`,
`OkIsDelivered`, `CancelledStaysOut`, from `FrameInv`: how a frame's phase, its
promise, its tag and its entry go together, and that an entry is removed by the
same step that settles its promise.

**`MulticastTableProofs`**: `ArrayHoldsGroupsOnce`, `NcpMirrorsHost`,
`OnlyRemovedGroupsAreDropped`, from `TableInv`: only the lock's holder has a
command under way (`HolderActs`), and at each of its steps the tables differ in
exactly the entries of that step (`AddShape`, `SightShape`, `RemoveShape`,
`Content`), with `Room` for an add and no protected group in a removal
(`Unprotected`). `ImplementsGroupRegistry`, from the same invariant: each command
that ends an operation is a step of the registry (`CallEnds`, `SightingEnds`), the
others are none (`GoesOn`), and a caller's time-out or cancellation is `GiveUp`.
The removal's array is the old one without the group because the moved last group
was nowhere else in it (`Compacted`, `GroupsOnce`).

**`RequestQueueProofs`**: `AnswersAreNotSwapped` and the types of all of
`EmberRequests`, from `QueueInv`: of the jobs at work no two have one key
(`OnePerKey`), and a request under way has its place (`AtWork`). `NothingIsForgotten`
(`NobodyForgotten`), from `ForgetInv`: no job is queued twice and a free place never
stands empty beside a job that may run (`QueueBusy`, by what `Execute` and `Settle`
do to any queue: `ExecuteFills`, `SettleFills`), the lock is awaited once by exactly
the operations that have begun and not ended (`LockIsWanted`), an operation between
two commands has its place (`OpAtWork`), and who has ended has told its caller
(`DoneIsTold`). `EveryStepGetsCloser`: with a
distance per request (the phases left, the node's event still to come, the steps
left of an operation and its command's outcome), no step takes any request farther
from its end and every step of the adapter's brings one closer; for finitely many
requests weak fairness to all of the adapter's steps is thereby fairness to each
of them. `SomebodyMayMove`: while a job or an operation is left, some request waits
for nobody, so places, keys and the lock never block each other. These three are
the safety half of `EverythingSettles`; that a request which may move does is
fairness and ENABLED and stays with TLC.

**`DeploymentProofs`**: `TypeCorrect`, `PinnedIsChanged`, `ImagesAreWhole`,
`StateIsKept`, `GuardKnowsItsLimits`: an inductive invariant over the stages of
`apply.mjs` and the boot, and arithmetic for the memory.

Only model-checked: `EverythingSettles`, `EventuallyServed`, `UninitEnds`,
`CurrentWaiterServed` and `BackupCatchesUp` (liveness and ENABLED are beyond the
prover). Every invariant, action property and refinement of the passing runs is a
theorem.

## Plan

Done: persistence, lifecycle, fragments, requests and tables, deployment, the three
refinements, and the proofs of all their safety properties. Left:

1. An abstract specification of the manager (served, recovering, resetting,
   stopped) that `EmberManager` implements.
2. The arithmetic of `backoff.mts` against a reference definition.
3. Restarting the adapter under `EmberRequests`: today a lost radio stays lost.

## Not modelled, and why

* **Permit-join.** `permitJoin()` only forwards to herdsman and the NCP; the join
  window is the coordinator's.
* **`checkInterpanLock()`** (`homey-ember.cjs`:90, 350, 407) rejects a request before it is
  dispatched while an inter-PAN operation runs, and nothing in `src/` starts one.
* **Node addresses, `lastSeen`, node listing, bindings.** The map of nodes is the
  base `Controller`'s, which is external.
* **`publishState()`, log messages, error wording, address formatting, request
  fields.** They keep no state, or none a property is about.
* **`nextBackoffMs()`, `jitterBackoffMs()`.** Pure arithmetic; in the plan.
* **`getCgroupMemoryPaths()`.** Finding the files is string handling.
* **Patch 0003** logs on exit; **patches 0002 and 0005 to 0008** are straight-line
  configuration and messages.
* **The selector `overlay/ManagerZigbee.mts`** reads one setting; **the chart, CI and
  tests** have no run-time state.

## Running

    tlc -workers 2 -config MCEmberManager.cfg MCEmberManager.tla
    tlapm EmberManagerProofs.tla
