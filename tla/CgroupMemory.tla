---------------------------- MODULE CgroupMemory ----------------------------
(***************************************************************************)
(* What the app guard learns of memory (patch 0004): /proc/meminfo holds   *)
(* the host's numbers, the files of the process's cgroup its limits, and   *)
(* HomeyUtilLocal.getMemoryInfo() clamps the first by the second.  The     *)
(* files are written "max" for no limit, which is NoLimit here, and cannot *)
(* be read at all where accounting is off.  Whatever cannot be read leaves *)
(* the host's number alone.                                                *)
(***************************************************************************)
EXTENDS Integers, FiniteSetsExt

CONSTANTS Amounts,  \* bound: the amounts of memory that occur
          NoLimit   \* "max", or v1's value near 2^63: above every amount

ASSUME AmountsAssumption == /\ Amounts \subseteq Nat
                            /\ NoLimit \in Nat
                            /\ \A a \in Amounts : a < NoLimit

VARIABLES meminfo,  \* /proc/meminfo: the host's numbers
          cgroup,   \* the files of the cgroup
          info      \* what getMemoryInfo returned

memoryVars == <<meminfo, cgroup, info>>

Null == -1
Unreadable == -2

MemInfos == [total : Amounts, available : Amounts, swapFree : Amounts]
Cgroups == [version : {"v2", "v1", "none"},
            limit : Amounts \cup {NoLimit}, current : Amounts, inactiveFile : Amounts,
            swapMax : Amounts \cup {NoLimit, Unreadable}, swapCurrent : Amounts]

(* readNumber: Null for "no limit". *)
ReadNumber(raw) == IF raw <= 0 \/ raw >= NoLimit THEN Null ELSE raw

OrZero(n) == IF n = Null THEN 0 ELSE n
AtLeastZero(n) == IF n < 0 THEN 0 ELSE n

Least(a, b) == Min({a, b})

(* getCgroupMemoryInfo: the limit in force, or none.  Version 1 does not   *)
(* limit swap, and neither does a version 2 whose swap files are missing.  *)
HasLimit(c) == c.version # "none" /\ ReadNumber(c.limit) # Null
SwapLimit(c) == IF c.version = "v2" /\ c.swapMax # Unreadable THEN ReadNumber(c.swapMax) ELSE Null

\* Mutant: what is used already is not taken off the limit.
AvailableIsLimit(c) == c.limit

Available(c) == AtLeastZero(c.limit - OrZero(ReadNumber(c.current)) + c.inactiveFile)
SwapAvailable(c) == AtLeastZero(SwapLimit(c) - OrZero(ReadNumber(c.swapCurrent)))

(* applyCgroupMemoryLimit. *)
Clamp(m, c) ==
  IF ~HasLimit(c) THEN m
  ELSE [total     |-> Least(m.total, c.limit),
        available |-> Least(m.available, Available(c)),
        swapFree  |-> IF SwapLimit(c) = Null THEN m.swapFree
                      ELSE Least(m.swapFree, SwapAvailable(c))]

(* Before anything has been read. *)
FirstMeminfo == [total |-> 0, available |-> 0, swapFree |-> 0]
FirstCgroup == [version |-> "none", limit |-> NoLimit, current |-> 0, inactiveFile |-> 0,
                swapMax |-> NoLimit, swapCurrent |-> 0]

MemoryInit == meminfo = FirstMeminfo /\ cgroup = FirstCgroup /\ info = FirstMeminfo

(* Another process starts anew. *)
ForgetMemory == meminfo' = FirstMeminfo /\ cgroup' = FirstCgroup /\ info' = FirstMeminfo

(* The usage a cgroup has is within its limits, and no more of its memory  *)
(* is reclaimable page cache than it uses.                                 *)
Possible(m, c) == /\ m.available <= m.total
                  /\ c.inactiveFile <= c.current /\ c.current <= c.limit
                  /\ c.swapMax # Unreadable => c.swapCurrent <= c.swapMax

GetMemoryInfo ==
  /\ meminfo' \in MemInfos /\ cgroup' \in Cgroups
  /\ Possible(meminfo', cgroup')
  /\ info' = Clamp(meminfo', cgroup')

-----------------------------------------------------------------------------
(* An app is started by MemAvailable + SwapFree.  Where the cgroup limits  *)
(* memory, the guard is never told more than the kernel would grant: what  *)
(* the limit leaves beside memory that cannot be reclaimed and, where swap *)
(* has a limit above zero, what this one leaves.  Where nothing limits it, *)
(* the host's numbers stand.                                               *)
GuardIsNotMisled ==
  LET swapLimited == /\ cgroup.version = "v2"
                     /\ cgroup.swapMax # Unreadable /\ cgroup.swapMax # NoLimit
  IN IF cgroup.version = "none" \/ cgroup.limit \in {0, NoLimit} THEN info = meminfo
     ELSE /\ info.available <= cgroup.limit - (cgroup.current - cgroup.inactiveFile)
          /\ swapLimited /\ cgroup.swapMax > 0 =>
               info.swapFree <= cgroup.swapMax - cgroup.swapCurrent

(* Patch 0004, line 174: an unclamped SwapFree would bring the             *)
(* over-estimate back.  The limit of a cgroup that may not swap at all is  *)
(* zero, as Kubernetes and --memory-swap set it.                           *)
SwapIsClamped ==
  cgroup.version = "v2" /\ cgroup.limit \notin {0, NoLimit}
    /\ cgroup.swapMax \notin {NoLimit, Unreadable} =>
      info.swapFree <= cgroup.swapMax - cgroup.swapCurrent

=============================================================================
