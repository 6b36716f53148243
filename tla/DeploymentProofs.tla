-------------------------- MODULE DeploymentProofs --------------------------
(***************************************************************************)
(* Theorems about Deployment, for all hashed files, all amounts of memory  *)
(* and any number of runs and containers.                                  *)
(***************************************************************************)
EXTENDS Deployment, TLAPS

(* Type correctness. *)

LEMMA BuildType == BuildTypeOK /\ [BuildNext]_buildVars => BuildTypeOK'
<1> SUFFICES ASSUME BuildTypeOK, [BuildNext]_buildVars PROVE BuildTypeOK' OBVIOUS
<1> USE BuildAssumption DEF BuildTypeOK, Edits
<1>1. CASE Verify BY <1>1 DEF Verify
<1>2. ASSUME NEW e \in Edits, ReplaceExact(e) PROVE BuildTypeOK'
  <2>1. CASE anchors[e] # 1 BY <1>2, <2>1 DEF ReplaceExact
  <2>2. CASE anchors[e] = 1
    <3>1. stage' \in {"importConfig", "hasZigbee", "copyBridge"}
      BY <1>2, <2>2 DEF ReplaceExact, After
    <3>2. applied' \in [Edits -> Nat] BY <1>2, <2>2 DEF ReplaceExact
    <3>3. anchors' \in [Edits -> 0 .. 2] BY <1>2, <2>2 DEF ReplaceExact
    <3>4. UNCHANGED <<upstream, herdsman, runs, fresh, image>> BY <1>2 DEF ReplaceExact
    <3>5. tree' \in [Hashed \cup {"ManagerZigbeeBridge"} ->
                       {"pinned", "drifted", "edited", "selector", "absent"}]
      BY <1>2, <2>2 DEF ReplaceExact
    <3> QED BY <3>1, <3>2, <3>3, <3>4, <3>5
  <2> QED BY <2>1, <2>2
<1>3. CASE CopyBridge BY <1>3 DEF CopyBridge, Hashed
<1>4. CASE CopySelector BY <1>4 DEF CopySelector
<1>5. CASE Interrupt \/ Ship BY <1>5 DEF Interrupt, Ship
<1>7. CASE RunAgainByHand
  <2>1. runs' \in 1 .. MaxRuns BY <1>7 DEF RunAgainByHand
  <2>2. fresh' \in BOOLEAN /\ stage' = "verify" BY <1>7 DEF RunAgainByHand
  <2>3. UNCHANGED <<upstream, herdsman, tree, anchors, applied, image>>
    BY <1>7 DEF RunAgainByHand
  <2> QED BY <2>1, <2>2, <2>3
<1>6. CASE UNCHANGED buildVars BY <1>6 DEF buildVars
<1> QED BY <1>1, <1>2, <1>3, <1>4, <1>5, <1>6, <1>7 DEF BuildNext

LEMMA BootType == BootTypeOK /\ [BootNext]_bootVars => BootTypeOK'
<1> SUFFICES ASSUME BootTypeOK, [BootNext]_bootVars PROVE BootTypeOK' OBVIOUS
<1> USE ContainersAssumption DEF BootTypeOK
<1>1. CASE CreateContainer
  <2>1. created' \in 0 .. MaxContainers BY <1>1 DEF CreateContainer
  <2>2. boot' = "down" /\ mounted' \in BOOLEAN /\ logDir' \in LogDirs /\ misled' \in BOOLEAN
        /\ UNCHANGED <<inLayer, saved, lost>>
    BY <1>1 DEF CreateContainer
  <2> QED BY <2>1, <2>2
<1>2. CASE Preload BY <1>2 DEF Preload, MakesLogDir, UserPathExists
<1>3. CASE CheckMount \/ StartDaemons BY <1>3 DEF CheckMount, StartDaemons
<1>4. CASE SaveState BY <1>4 DEF SaveState
<1>5. CASE Stop \/ ReplaceContainer BY <1>5 DEF Stop, ReplaceContainer
<1>6. CASE UNCHANGED bootVars BY <1>6 DEF bootVars
<1> QED BY <1>1, <1>2, <1>3, <1>4, <1>5, <1>6 DEF BootNext

\* A step of the whole is a step of the build, of a container, or of neither.
LEMMA Steps == [Next]_vars => [BuildNext]_buildVars /\ [BootNext]_bootVars
BY DEF Next, vars, buildVars, bootVars

LEMMA TypeInit == Init => TypeOK
<1> SUFFICES ASSUME Init PROVE TypeOK OBVIOUS
<1>1. BuildTypeOK
  <2>1. runs \in 1 .. MaxRuns BY BuildAssumption DEF Init, BuildInit
  <2>2. applied \in [Edits -> Nat] BY DEF Init, BuildInit
  <2>3. anchors \in [Edits -> 0 .. 2] BY DEF Init, BuildInit
  <2>4. /\ upstream \in [Hashed -> {"pinned", "drifted"}] /\ herdsman \in {"pinned", "drifted"}
        /\ stage = "verify" /\ fresh \in BOOLEAN /\ image \in BOOLEAN
    BY DEF Init, BuildInit
  <2>5. tree \in [Hashed \cup {"ManagerZigbeeBridge"} ->
                   {"pinned", "drifted", "edited", "selector", "absent"}]
    BY <2>4 DEF Init, BuildInit, Upstream
  <2> QED BY <2>1, <2>2, <2>3, <2>4, <2>5 DEF BuildTypeOK
<1>2. BootTypeOK
  <2>1. created \in 0 .. MaxContainers BY ContainersAssumption DEF Init, BootInit
  <2>2. /\ boot = "none" /\ mounted \in BOOLEAN /\ logDir \in LogDirs /\ inLayer \in BOOLEAN
        /\ saved = {} /\ lost \in BOOLEAN /\ misled \in BOOLEAN
    BY DEF Init, BootInit, LogDirs
  <2> QED BY <2>1, <2>2 DEF BootTypeOK
<1> QED BY <1>1, <1>2 DEF TypeOK

\* Every reachable state of build and container is well typed.
THEOREM TypeCorrect == Spec => []TypeOK
<1>1. TypeOK /\ [Next]_vars => TypeOK' BY Steps, BuildType, BootType DEF TypeOK
<1> QED BY TypeInit, <1>1, PTL DEF Spec

-----------------------------------------------------------------------------
(* The build. *)

\* A file that is as pinned was so upstream.
TreeFromUpstream == \A f \in Hashed : tree[f] = "pinned" => upstream[f] = "pinned"

AllPinned == \A f \in Hashed : upstream[f] = "pinned"

\* What has been verified once stays verified, in later runs as well.
VerifiedFirst ==
  \/ AllPinned
  \/ /\ stage \in {"verify", "failed"}
     /\ \A e \in Edits : applied[e] = 0
     /\ tree["ManagerZigbeeBridge"] = "absent"

\* Upstream's manager stays in place until it is kept as the Bridge manager.
ManagerKept ==
  /\ stage \in Edits \cup {"copyBridge"} => tree["ManagerZigbee"] = "pinned"
  /\ stage \in {"copySelector", "done"} => tree["ManagerZigbeeBridge"] = "pinned"
  /\ stage = "done" => tree["ManagerZigbee"] = "selector"
  /\ tree["ManagerZigbeeBridge"] \in {"absent", "pinned"}

\* In a run on upstream's own tree, the replacements made are those before
\* the stage it is in.
MadeOnce ==
  fresh => /\ stage = "verify" => \A e \in Edits : applied[e] = 0
           /\ stage = "configKeys" => \A e \in Edits : applied[e] = 0
           /\ stage = "importConfig" => /\ applied["configKeys"] = 1
                                        /\ applied["importConfig"] = 0
                                        /\ applied["hasZigbee"] = 0
           /\ stage = "hasZigbee" => /\ applied["configKeys"] = 1
                                     /\ applied["importConfig"] = 1
                                     /\ applied["hasZigbee"] = 0
           /\ stage \in {"copyBridge", "copySelector", "done"} =>
                \A e \in Edits : applied[e] = 1

BuildInv == TreeFromUpstream /\ VerifiedFirst /\ ManagerKept /\ MadeOnce /\ ImageIsWhole

LEMMA BuildInvInit == BuildInit => BuildInv
<1> SUFFICES ASSUME BuildInit PROVE BuildInv OBVIOUS
<1> USE BuildAssumption DEF BuildInit, Upstream, Edits
<1>1. TreeFromUpstream BY DEF TreeFromUpstream
<1>2. tree["ManagerZigbeeBridge"] = "absent" BY DEF Hashed
<1>3. VerifiedFirst BY <1>2 DEF VerifiedFirst
<1>4. ManagerKept BY <1>2 DEF ManagerKept
<1>5. MadeOnce BY DEF MadeOnce
<1>6. ImageIsWhole BY DEF ImageIsWhole
<1> QED BY <1>1, <1>3, <1>4, <1>5, <1>6 DEF BuildInv

LEMMA VerifyStep ==
  ASSUME BuildTypeOK, BuildInv, ~image, Verify PROVE BuildInv'
<1> USE DEF Verify, BuildInv, Edits
<1>1. UNCHANGED <<tree, upstream, applied, image, fresh>> OBVIOUS
<1>2. TreeFromUpstream' BY <1>1 DEF TreeFromUpstream
<1>3. stage' # "failed" => \A f \in Hashed : tree[f] = "pinned" OBVIOUS
<1>4. VerifiedFirst' BY <1>1, <1>3 DEF VerifiedFirst, AllPinned, TreeFromUpstream
<1>5. ManagerKept' BY <1>1, <1>3 DEF ManagerKept, Hashed
<1>6. MadeOnce' BY <1>1 DEF MadeOnce
<1>7. ImageIsWhole' BY <1>1 DEF ImageIsWhole
<1> QED BY <1>2, <1>4, <1>5, <1>6, <1>7

LEMMA ReplaceExactStep ==
  ASSUME BuildTypeOK, BuildInv, ~image, NEW e \in Edits, ReplaceExact(e) PROVE BuildInv'
<1> USE DEF BuildInv, Edits
<1>1. CASE anchors[e] # 1
  <2>1. stage' = "failed" /\ UNCHANGED <<tree, upstream, applied, image, fresh>>
    BY <1>1 DEF ReplaceExact
  <2> QED BY <2>1, <1>1 DEF TreeFromUpstream, VerifiedFirst, AllPinned, ManagerKept, MadeOnce,
                     ImageIsWhole
<1>2. CASE anchors[e] = 1
  <2>1. /\ stage = e /\ stage' = After[e]
        /\ applied' = [applied EXCEPT ![e] = @ + 1]
        /\ UNCHANGED <<upstream, image, fresh>>
    BY <1>2 DEF ReplaceExact
  <2>2. stage' \in {"importConfig", "hasZigbee", "copyBridge"} BY <2>1 DEF After
  <2>3. tree' = tree \/ tree' = [tree EXCEPT !["System"] = "edited"] BY <1>2 DEF ReplaceExact
  <2>4. AllPinned /\ AllPinned' BY <2>1 DEF VerifiedFirst, AllPinned
  <2>5. TreeFromUpstream' /\ VerifiedFirst' BY <2>4 DEF TreeFromUpstream, VerifiedFirst, AllPinned
  <2>6. UNCHANGED <<tree["ManagerZigbee"], tree["ManagerZigbeeBridge"]>>
    BY <2>3 DEF BuildTypeOK, Hashed
  <2>7. ManagerKept' BY <2>1, <2>2, <2>6 DEF ManagerKept
  <2>8. MadeOnce'
    BY <2>1 DEF MadeOnce, BuildTypeOK, After
  <2>9. ImageIsWhole' BY <2>1 DEF ImageIsWhole
  <2> QED BY <2>5, <2>7, <2>8, <2>9
<1> QED BY <1>1, <1>2

LEMMA CopyStep ==
  ASSUME BuildTypeOK, BuildInv, ~image, CopyBridge \/ CopySelector PROVE BuildInv'
<1> USE DEF BuildInv, Edits
<1>1. UNCHANGED <<upstream, applied, image, fresh>> BY DEF CopyBridge, CopySelector
<1>2. AllPinned /\ AllPinned'
  BY <1>1 DEF VerifiedFirst, AllPinned, CopyBridge, CopySelector
<1>3. TreeFromUpstream' /\ VerifiedFirst' BY <1>2 DEF TreeFromUpstream, VerifiedFirst, AllPinned
<1>4. ManagerKept'
  <2>1. CASE CopyBridge
    BY <2>1 DEF CopyBridge, ManagerKept, BuildTypeOK, Hashed
  <2>2. CASE CopySelector
    BY <2>2, BuildAssumption DEF CopySelector, ManagerKept, BuildTypeOK, Hashed
  <2> QED BY <2>1, <2>2
<1>5. MadeOnce' BY <1>1 DEF MadeOnce, CopyBridge, CopySelector
<1>6. ImageIsWhole' BY <1>1 DEF ImageIsWhole
<1> QED BY <1>3, <1>4, <1>5, <1>6

LEMMA AroundStep ==
  ASSUME BuildInv, ~image, Interrupt \/ RunAgainByHand \/ Ship PROVE BuildInv'
<1> USE DEF BuildInv, Edits
<1>1. UNCHANGED <<upstream, herdsman, tree, applied>> BY DEF Interrupt, RunAgainByHand, Ship
<1>2. TreeFromUpstream' BY <1>1 DEF TreeFromUpstream
<1>3. VerifiedFirst'
  BY <1>1 DEF VerifiedFirst, AllPinned, Interrupt, RunAgainByHand, Ship
<1>4. ManagerKept' BY <1>1 DEF ManagerKept, Interrupt, RunAgainByHand, Ship
<1>5. MadeOnce' BY <1>1 DEF MadeOnce, Interrupt, RunAgainByHand, Ship
<1>6. ImageIsWhole'
  BY <1>1 DEF ImageIsWhole, ManagerKept, MadeOnce, Interrupt, RunAgainByHand, Ship, CheckHerdsman
<1> QED BY <1>2, <1>3, <1>4, <1>5, <1>6

LEMMA BuildInvStep == TypeOK /\ BuildInv /\ [Next]_vars => BuildInv'
<1> SUFFICES ASSUME TypeOK, BuildInv, [Next]_vars PROVE BuildInv' OBVIOUS
<1>1. CASE ~image /\ BuildNext
  BY <1>1, VerifyStep, ReplaceExactStep, CopyStep, AroundStep DEF TypeOK, BuildNext
<1>2. CASE UNCHANGED buildVars
  BY <1>2 DEF BuildInv, buildVars, TreeFromUpstream, VerifiedFirst, AllPinned, ManagerKept,
              MadeOnce, ImageIsWhole
<1> QED BY <1>1, <1>2 DEF Next, vars

LEMMA BuildInvariance == Spec => []BuildInv
<1>1. Init => BuildInv BY BuildInvInit DEF Init
<1> QED BY <1>1, TypeCorrect, BuildInvStep, PTL DEF Spec

\* However many runs are interrupted, fail or are repeated by hand: nothing is
\* changed in a tree upstream has drifted from, and upstream's manager, not the
\* selector, is what is kept as the Bridge manager.
THEOREM PinnedIsChanged == Spec => []OnlyPinnedIsChanged
<1>1. TypeOK /\ BuildInv => OnlyPinnedIsChanged
  BY DEF TypeOK, BuildTypeOK, BuildInv, VerifiedFirst, AllPinned, ManagerKept, OnlyPinnedIsChanged
<1> QED BY <1>1, TypeCorrect, BuildInvariance, PTL

\* Every image has the whole overlay, made once, over the pinned herdsman.
THEOREM ImagesAreWhole == Spec => []ImageIsWhole
<1>1. BuildInv => ImageIsWhole BY DEF BuildInv
<1> QED BY <1>1, BuildInvariance, PTL

-----------------------------------------------------------------------------
(* Containers. *)

\* Without a volume a container comes past the check only if it was misled,
\* and only then is anything saved in its layer; a new one has an empty layer.
BootInv ==
  /\ ~mounted /\ (inLayer \/ boot \in {"checked", "serving"}) => misled
  /\ "layer" \in saved => misled
  /\ boot = "none" => ~inLayer /\ "layer" \notin saved
  /\ ~lost

LEMMA BootInvStep == BootTypeOK /\ BootInv /\ [BootNext]_bootVars => BootInv'
<1> SUFFICES ASSUME BootTypeOK, BootInv, [BootNext]_bootVars PROVE BootInv' OBVIOUS
<1> USE DEF BootTypeOK, BootInv
<1>1. CASE CreateContainer BY <1>1 DEF CreateContainer
<1>2. CASE Preload BY <1>2 DEF Preload, MakesLogDir, UserPathExists, LogDirs
<1>3. CASE CheckMount BY <1>3 DEF CheckMount, UserPathExists
<1>4. CASE StartDaemons BY <1>4 DEF StartDaemons
<1>5. CASE SaveState BY <1>5 DEF SaveState
<1>6. CASE Stop \/ ReplaceContainer BY <1>6 DEF Stop, ReplaceContainer
<1>7. CASE UNCHANGED bootVars BY <1>7 DEF bootVars
<1> QED BY <1>1, <1>2, <1>3, <1>4, <1>5, <1>6, <1>7 DEF BootNext

\* No sequence of boots, restarts and replacements of containers loses state
\* that was saved without a volume, unless a log directory under /homey/user
\* was named by hand.
THEOREM StateIsKept == Spec => []NoStateIsLost
<1>1. Init => BootInv BY DEF Init, BootInit, BootInv
<1>2. TypeOK /\ BootInv /\ [Next]_vars => BootInv' BY Steps, BootInvStep DEF TypeOK
<1>3. BootInv => NoStateIsLost BY DEF BootInv, NoStateIsLost
<1> QED BY <1>1, <1>2, <1>3, TypeCorrect, PTL DEF Spec

-----------------------------------------------------------------------------
(* Memory. *)

LEMMA LeastIsLeast ==
  ASSUME NEW a \in Int, NEW b \in Int
  PROVE  Least(a, b) \in Int /\ Least(a, b) <= a /\ Least(a, b) <= b
<1>1. \E x \in {a, b} : \A y \in {a, b} : x <= y
  <2>1. CASE a <= b BY <2>1
  <2>2. CASE b <= a BY <2>2
  <2> QED BY <2>1, <2>2
<1> QED BY <1>1 DEF Least, Min

LEMMA LimitIsRead ==
  ASSUME NEW c \in Cgroups, c.version # "none", c.limit \notin {0, NoLimit}
  PROVE  HasLimit(c)
<1> DEFINE l == c.limit
<1>1. l \in Amounts /\ l # 0 BY DEF Cgroups
<1> HIDE DEF l
<1>2. l \in Nat /\ l < NoLimit /\ l > 0 BY <1>1, AmountsAssumption
<1>3. ReadNumber(l) = l BY <1>2, AmountsAssumption DEF ReadNumber
<1>4. l # Null BY <1>2 DEF Null
<1> QED BY <1>3, <1>4 DEF HasLimit, l

LEMMA ClampedIsSafe ==
  ASSUME NEW m \in MemInfos, NEW c \in Cgroups, Possible(m, c),
         HasLimit(c)
  PROVE  /\ Clamp(m, c).available <= c.limit - (c.current - c.inactiveFile)
         /\ c.version = "v2" /\ c.swapMax \notin {Unreadable, NoLimit} /\ c.swapMax > 0
              => Clamp(m, c).swapFree <= c.swapMax - c.swapCurrent
<1> USE AmountsAssumption
<1>1. /\ m.available \in Nat /\ m.swapFree \in Nat /\ m.total \in Nat
      /\ c.limit \in Nat /\ c.current \in Nat /\ c.inactiveFile \in Nat /\ c.swapCurrent \in Nat
      /\ c.current < NoLimit /\ c.swapCurrent < NoLimit
  BY DEF MemInfos, Cgroups
<1>2. OrZero(ReadNumber(c.current)) = c.current BY <1>1 DEF OrZero, ReadNumber, Null
<1>3. Available(c) = c.limit - (c.current - c.inactiveFile)
  BY <1>1, <1>2 DEF Available, AtLeastZero, Possible
<1>4. Clamp(m, c).available = Least(m.available, Available(c)) BY DEF Clamp
<1>5. Clamp(m, c).available <= c.limit - (c.current - c.inactiveFile)
  <2>1. m.available \in Int /\ Available(c) \in Int BY <1>1, <1>3
  <2>2. Least(m.available, Available(c)) <= Available(c) BY <2>1, LeastIsLeast, Zenon
  <2> QED BY <1>3, <1>4, <2>2
<1>6. ASSUME c.version = "v2", c.swapMax \notin {Unreadable, NoLimit}, c.swapMax > 0
      PROVE  Clamp(m, c).swapFree <= c.swapMax - c.swapCurrent
  <2>1. c.swapMax \in Nat /\ c.swapMax < NoLimit BY <1>6 DEF Cgroups
  <2>2. SwapLimit(c) = c.swapMax /\ SwapLimit(c) # Null
    BY <1>6, <2>1 DEF SwapLimit, ReadNumber, Null
  <2>3. OrZero(ReadNumber(c.swapCurrent)) = c.swapCurrent BY <1>1 DEF OrZero, ReadNumber, Null
  <2>4. SwapAvailable(c) = c.swapMax - c.swapCurrent
    BY <1>1, <1>6, <2>1, <2>2, <2>3 DEF SwapAvailable, AtLeastZero, Possible
  <2>5. Clamp(m, c).swapFree = Least(m.swapFree, SwapAvailable(c)) BY <2>2 DEF Clamp
  <2>6. m.swapFree \in Int /\ SwapAvailable(c) \in Int BY <1>1, <2>1, <2>4
  <2>7. Least(m.swapFree, SwapAvailable(c)) <= SwapAvailable(c) BY <2>6, LeastIsLeast, Zenon
  <2> QED BY <2>4, <2>5, <2>7
<1> QED BY <1>5, <1>6

\* For all amounts: the guard is never told more memory than the cgroup would
\* grant, nor more swap where swap has a limit above zero.
THEOREM GuardKnowsItsLimits == Spec => []GuardIsNotMisled
<1>1. MemoryInit => GuardIsNotMisled
  BY DEF MemoryInit, FirstMeminfo, FirstCgroup, GuardIsNotMisled
<1>2. ForgetMemory => GuardIsNotMisled'
  BY DEF ForgetMemory, FirstMeminfo, FirstCgroup, GuardIsNotMisled
<1>3. ASSUME GetMemoryInfo PROVE GuardIsNotMisled'
  <2>1. /\ meminfo' \in MemInfos /\ cgroup' \in Cgroups
        /\ Possible(meminfo', cgroup') /\ info' = Clamp(meminfo', cgroup')
    BY <1>3 DEF GetMemoryInfo
  <2>2. CASE cgroup'.version = "none" \/ cgroup'.limit \in {0, NoLimit}
    <3>1. ~HasLimit(cgroup') BY <2>2, AmountsAssumption DEF HasLimit, ReadNumber, Null
    <3> QED BY <2>1, <2>2, <3>1 DEF Clamp, GuardIsNotMisled
  <2>3. CASE ~(cgroup'.version = "none" \/ cgroup'.limit \in {0, NoLimit})
    <3>1. HasLimit(cgroup') BY <2>1, <2>3, LimitIsRead
    <3> QED BY <2>1, <2>3, <3>1, ClampedIsSafe DEF GuardIsNotMisled
  <2> QED BY <2>2, <2>3
<1>4. GuardIsNotMisled /\ [Next]_vars => GuardIsNotMisled'
  <2>1. GuardIsNotMisled /\ UNCHANGED memoryVars => GuardIsNotMisled'
    BY DEF memoryVars, GuardIsNotMisled
  <2> QED BY <1>2, <1>3, <2>1 DEF Next, vars
<1> QED BY <1>1, <1>4, PTL DEF Spec, Init
=============================================================================
