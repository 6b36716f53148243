------------------------- MODULE RequestQueueProofs -------------------------
(***************************************************************************)
(* Theorems about the queue that frames, ZDO requests and operations on    *)
(* the multicast table share, for any number of requests and places: jobs  *)
(* with one key run one after the other, nobody who waits is forgotten,    *)
(* and every state is well typed.                                          *)
(***************************************************************************)
EXTENDS EmberRequestsProofs, MulticastTableProofs, WellFoundedInduction, FiniteSetTheorems

(* Of two jobs that run, both to one node, one would have to wait. *)
OnePerKey ==
  \A r, q \in running : KeyOf[r] # Unkeyed /\ KeyOf[r] = KeyOf[q] => r = q

(* A job at work has its place. *)
AtWork == \A r \in NodeCalls : phase[r] \in {"dispatching", "awaiting"} => r \in running

QueueInv == /\ jobs \in Seq(Requests) /\ running \in SUBSET Requests
            /\ OnePerKey /\ AtWork

-----------------------------------------------------------------------------
(* Sequences. *)

LEMMA SmallestMember ==
  ASSUME NEW S \in SUBSET Nat, S # {}
  PROVE  Min(S) \in S
<1> DEFINE R == OpToRel(<, Nat)
<1>1. IsWellFoundedOn(R, Nat) BY NatLessThanWellFounded
<1> HIDE DEF R
<1>2. PICK x \in S : \A y \in S : ~ (<<y, x>> \in R) BY <1>1, WFMin
<1>3. \A y \in S : <<y, x>> \in R <=> y < x
  BY DEF R, OpToRel
<1>4. ASSUME NEW y \in S PROVE x <= y
  <2>1. ~(y < x) BY <1>2, <1>3, <1>4, Zenon
  <2>2. x \in Nat /\ y \in Nat OBVIOUS
  <2> QED BY <2>1, <2>2
<1> QED BY <1>4 DEF Min

\* No member comes twice.
Once(s) == \A i, j \in DOMAIN s : s[i] = s[j] => i = j

LEMMA Members ==
  ASSUME NEW S, NEW s \in Seq(S)
  PROVE  /\ Len(s) \in Nat /\ DOMAIN s = 1 .. Len(s)
         /\ \A x : x \in ToSet(s) <=> \E i \in 1 .. Len(s) : s[i] = x
         /\ ToSet(s) \in SUBSET S
<1>1. Len(s) \in Nat /\ DOMAIN s = 1 .. Len(s) /\ \A i \in 1 .. Len(s) : s[i] \in S
  BY LenProperties, ElementOfSeq
<1>2. \A x : x \in ToSet(s) <=> \E i \in 1 .. Len(s) : s[i] = x BY <1>1 DEF ToSet
<1> QED BY <1>1, <1>2

LEMMA FirstIsRemoved ==
  ASSUME NEW S, NEW s \in Seq(S), NEW e, e \in ToSet(s)
  PROVE  \E k \in 1 .. Len(s) : s[k] = e /\ RemoveFirst(s, e) = RemoveAt(s, k)
<1> DEFINE I == {i \in 1 .. Len(s) : s[i] = e}
<1>1. PICK i \in 1 .. Len(s) : s[i] = e BY Members
<1>2. Len(s) \in Nat BY Members
<1>3. I \in SUBSET Nat /\ I # {} BY <1>1
<1>4. Min(I) \in I BY <1>3, SmallestMember
<1>5. SelectInSeq(s, LAMBDA v : v = e) = Min(I) BY <1>3 DEF SelectInSeq
<1> HIDE DEF I
<1>6. RemoveFirst(s, e) = RemoveAt(s, Min(I)) BY <1>1, <1>5 DEF RemoveFirst
<1> QED BY <1>4, <1>6 DEF I

LEMMA RemovedAt ==
  ASSUME NEW S, NEW s \in Seq(S), NEW k \in 1 .. Len(s)
  PROVE  /\ RemoveAt(s, k) \in Seq(S) /\ Len(RemoveAt(s, k)) = Len(s) - 1
         /\ \A i \in 1 .. Len(s) - 1 : RemoveAt(s, k)[i] = IF i < k THEN s[i] ELSE s[i + 1]
<1>1. Len(s) \in Nat /\ \A i \in 1 .. Len(s) : s[i] \in S BY LenProperties, ElementOfSeq
<1> DEFINE a == SubSeq(s, 1, k - 1)
           b == SubSeq(s, k + 1, Len(s))
<1>2. /\ a \in Seq(S) /\ Len(a) = k - 1
      /\ \A i \in 1 .. k - 1 : a[i] = s[i]
  <2>1. \A i \in 1 .. k - 1 : s[i] \in S BY <1>1
  <2>2. 1 \in Int /\ k - 1 \in Int BY <1>1
  <2>3. /\ a \in Seq(S) /\ Len(a) = IF 1 <= k - 1 THEN k - 1 - 1 + 1 ELSE 0
        /\ \A i \in 1 .. k - 1 - 1 + 1 : a[i] = s[1 + i - 1]
    BY <2>1, <2>2, SubSeqProperties
  <2> HIDE DEF a
  <2>4. k - 1 - 1 + 1 = k - 1 /\ \A i \in 1 .. k - 1 : 1 + i - 1 = i BY <1>1
  <2>5. (IF 1 <= k - 1 THEN k - 1 - 1 + 1 ELSE 0) = k - 1 BY <1>1
  <2> QED BY <2>3, <2>4, <2>5
<1>3. /\ b \in Seq(S) /\ Len(b) = Len(s) - k
      /\ \A i \in 1 .. Len(s) - k : b[i] = s[k + i]
  <2>1. \A i \in k + 1 .. Len(s) : s[i] \in S BY <1>1
  <2>2. k + 1 \in Int /\ Len(s) \in Int BY <1>1
  <2>3. /\ b \in Seq(S) /\ Len(b) = IF k + 1 <= Len(s) THEN Len(s) - (k + 1) + 1 ELSE 0
        /\ \A i \in 1 .. Len(s) - (k + 1) + 1 : b[i] = s[k + 1 + i - 1]
    BY <2>1, <2>2, SubSeqProperties
  <2> HIDE DEF b
  <2>4. Len(s) - (k + 1) + 1 = Len(s) - k /\ \A i \in 1 .. Len(s) - k : k + 1 + i - 1 = k + i
    BY <1>1
  <2>5. (IF k + 1 <= Len(s) THEN Len(s) - (k + 1) + 1 ELSE 0) = Len(s) - k BY <1>1
  <2> QED BY <2>3, <2>4, <2>5
<1>4. RemoveAt(s, k) = a \o b BY DEF RemoveAt
<1> HIDE DEF a, b
<1>5. /\ a \o b \in Seq(S) /\ Len(a \o b) = Len(a) + Len(b)
      /\ \A i \in 1 .. Len(a) + Len(b) : (a \o b)[i] = IF i <= Len(a) THEN a[i] ELSE b[i - Len(a)]
  BY <1>2, <1>3, ConcatProperties
<1>6. Len(a) + Len(b) = Len(s) - 1 BY <1>1, <1>2, <1>3
<1>7. ASSUME NEW i \in 1 .. Len(s) - 1
      PROVE  RemoveAt(s, k)[i] = IF i < k THEN s[i] ELSE s[i + 1]
  <2>1. CASE i < k
    <3>1. i \in 1 .. k - 1 /\ i <= Len(a) BY <1>1, <1>2, <2>1
    <3> QED BY <1>2, <1>4, <1>5, <1>6, <2>1, <3>1
  <2>2. CASE ~(i < k)
    <3> DEFINE j == i - (k - 1)
    <3>1. j \in 1 .. Len(s) - k /\ ~(i <= Len(a)) /\ k + j = i + 1 /\ i - Len(a) = j
      BY <1>1, <1>2, <2>2
    <3>2. RemoveAt(s, k)[i] = b[j] BY <1>4, <1>5, <1>6, <3>1
    <3> HIDE DEF j
    <3>3. b[j] = s[i + 1] BY <1>3, <3>1
    <3> QED BY <2>2, <3>2, <3>3
  <2> QED BY <2>1, <2>2
<1> QED BY <1>4, <1>5, <1>6, <1>7

LEMMA RemoveFirstType ==
  ASSUME NEW S, NEW s \in Seq(S), NEW e
  PROVE  RemoveFirst(s, e) \in Seq(S)
<1>1. CASE e \in ToSet(s) BY <1>1, FirstIsRemoved, RemovedAt
<1>2. CASE e \notin ToSet(s)
  <2>1. ~ \E i \in 1 .. Len(s) : s[i] = e BY <1>2, Members
  <2> QED BY <2>1 DEF RemoveFirst
<1> QED BY <1>1, <1>2

\* Removing the only occurrence of a member.
LEMMA RemovedOnce ==
  ASSUME NEW S, NEW s \in Seq(S), NEW e \in ToSet(s), Once(s)
  PROVE  /\ RemoveFirst(s, e) \in Seq(S) /\ Once(RemoveFirst(s, e))
         /\ ToSet(RemoveFirst(s, e)) = ToSet(s) \ {e}
<1>1. PICK k \in 1 .. Len(s) : s[k] = e /\ RemoveFirst(s, e) = RemoveAt(s, k) BY FirstIsRemoved
<1> DEFINE r == RemoveFirst(s, e)
<1>2. /\ r \in Seq(S) /\ Len(r) = Len(s) - 1
      /\ \A i \in 1 .. Len(s) - 1 : r[i] = IF i < k THEN s[i] ELSE s[i + 1]
  BY <1>1, RemovedAt
<1> HIDE DEF r
<1>3. Len(s) \in Nat /\ DOMAIN s = 1 .. Len(s) /\ DOMAIN r = 1 .. Len(s) - 1
  BY <1>2, Members
<1>4. \A x : x \in ToSet(s) <=> \E i \in 1 .. Len(s) : s[i] = x BY Members
<1>5. \A x : x \in ToSet(r) <=> \E i \in 1 .. Len(s) - 1 : r[i] = x BY <1>2, Members
<1>6. Once(r)
  <2> SUFFICES ASSUME NEW i \in 1 .. Len(s) - 1, NEW j \in 1 .. Len(s) - 1, r[i] = r[j]
               PROVE  i = j
    BY <1>3 DEF Once
  <2>1. \A m \in 1 .. Len(s) - 1 : \E n \in 1 .. Len(s) :
          r[m] = s[n] /\ n = IF m < k THEN m ELSE m + 1
    <3> SUFFICES ASSUME NEW m \in 1 .. Len(s) - 1
                 PROVE  \E n \in 1 .. Len(s) : r[m] = s[n] /\ n = IF m < k THEN m ELSE m + 1
      OBVIOUS
    <3>1. m \in 1 .. Len(s) /\ m + 1 \in 1 .. Len(s) BY <1>3
    <3> QED BY <1>2, <3>1
  <2>2. PICK m \in 1 .. Len(s), n \in 1 .. Len(s) :
          /\ r[i] = s[m] /\ m = IF i < k THEN i ELSE i + 1
          /\ r[j] = s[n] /\ n = IF j < k THEN j ELSE j + 1
    BY <2>1
  <2>3. m = n BY <1>3, <2>2 DEF Once
  <2> QED BY <1>3, <2>2, <2>3
<1>7. ASSUME NEW x \in ToSet(r) PROVE x \in ToSet(s) \ {e}
  <2>1. PICK i \in 1 .. Len(s) - 1 : r[i] = x BY <1>5
  <2>2. PICK j \in 1 .. Len(s) : j # k /\ s[j] = x
    <3>1. i \in 1 .. Len(s) /\ i + 1 \in 1 .. Len(s) BY <1>3
    <3>2. CASE i < k BY <1>2, <2>1, <3>1, <3>2
    <3>3. CASE ~(i < k)
      <4>1. i + 1 # k BY <1>3, <3>3
      <4> QED BY <1>2, <2>1, <3>1, <3>3, <4>1
    <3> QED BY <3>2, <3>3
  <2>3. x # e BY <1>1, <1>3, <2>2 DEF Once
  <2> QED BY <1>4, <2>2, <2>3
<1>8. ASSUME NEW x \in ToSet(s), x # e PROVE x \in ToSet(r)
  <2>1. PICK j \in 1 .. Len(s) : s[j] = x BY <1>4
  <2>2. j # k BY <1>1, <1>8, <2>1
  <2>3. CASE j < k
    <3>1. j \in 1 .. Len(s) - 1 BY <1>3, <2>3
    <3> QED BY <1>2, <1>5, <2>1, <2>3, <3>1
  <2>4. CASE j > k
    <3>1. j - 1 \in 1 .. Len(s) - 1 /\ ~(j - 1 < k) /\ j - 1 + 1 = j BY <1>3, <2>4
    <3> QED BY <1>2, <1>5, <2>1, <3>1
  <2> QED BY <1>3, <2>2, <2>3, <2>4
<1> QED BY <1>2, <1>6, <1>7, <1>8 DEF r

LEMMA AppendedOnce ==
  ASSUME NEW S, NEW s \in Seq(S), NEW e \in S, e \notin ToSet(s), Once(s)
  PROVE  /\ Append(s, e) \in Seq(S) /\ Once(Append(s, e))
         /\ ToSet(Append(s, e)) = ToSet(s) \cup {e}
         /\ s # <<>> => Head(Append(s, e)) = Head(s)
         /\ s = <<>> => Head(Append(s, e)) = e
<1> DEFINE a == Append(s, e)
<1>1. /\ a \in Seq(S) /\ Len(a) = Len(s) + 1 /\ a[Len(s) + 1] = e
      /\ \A i \in 1 .. Len(s) : a[i] = s[i]
  BY AppendMember
<1>2. (s # <<>> => Head(a) = Head(s)) /\ (s = <<>> => Head(a) = e)
  BY HeadTailAppend
<1> HIDE DEF a
<1>3. /\ Len(s) \in Nat /\ DOMAIN s = 1 .. Len(s) /\ DOMAIN a = 1 .. Len(s) + 1
      /\ \A x : x \in ToSet(s) <=> \E i \in 1 .. Len(s) : s[i] = x
      /\ \A x : x \in ToSet(a) <=> \E i \in 1 .. Len(s) + 1 : a[i] = x
  BY <1>1, Members
<1>4. \A i \in 1 .. Len(s) + 1 : i \in 1 .. Len(s) \/ i = Len(s) + 1 BY <1>3
<1>5. Once(a)
  <2> SUFFICES ASSUME NEW i \in 1 .. Len(s) + 1, NEW j \in 1 .. Len(s) + 1, a[i] = a[j]
               PROVE  i = j
    BY <1>3 DEF Once
  <2> QED BY <1>1, <1>3, <1>4 DEF Once
<1>6. ToSet(a) = ToSet(s) \cup {e}
  <2>1. \A i \in 1 .. Len(s) : i \in 1 .. Len(s) + 1 BY <1>3
  <2>2. Len(s) + 1 \in 1 .. Len(s) + 1 BY <1>3
  <2>3. \A x : x \in ToSet(a) <=> x \in ToSet(s) \cup {e} BY <1>1, <1>3, <1>4, <2>1, <2>2
  <2> QED BY <2>3
<1> QED BY <1>1, <1>2, <1>5, <1>6 DEF a

LEMMA TailOnce ==
  ASSUME NEW S, NEW s \in Seq(S), s # <<>>, Once(s)
  PROVE  /\ Tail(s) \in Seq(S) /\ Once(Tail(s)) /\ Head(s) \in ToSet(s)
         /\ ToSet(Tail(s)) = ToSet(s) \ {Head(s)}
<1> DEFINE t == Tail(s)
<1>1. /\ t \in Seq(S) /\ Len(t) = Len(s) - 1
      /\ \A i \in 1 .. Len(t) : t[i] = s[i + 1]
  BY HeadTailProperties
<1> HIDE DEF t
<1>2. /\ Len(s) \in Nat /\ DOMAIN s = 1 .. Len(s) /\ DOMAIN t = 1 .. Len(s) - 1
      /\ \A x : x \in ToSet(s) <=> \E i \in 1 .. Len(s) : s[i] = x
      /\ \A x : x \in ToSet(t) <=> \E i \in 1 .. Len(s) - 1 : t[i] = x
  BY <1>1, Members
<1>3. 1 \in 1 .. Len(s) /\ Head(s) = s[1] BY <1>2, EmptySeq
<1>4. Once(t)
  <2> SUFFICES ASSUME NEW i \in 1 .. Len(s) - 1, NEW j \in 1 .. Len(s) - 1, t[i] = t[j]
               PROVE  i = j
    BY <1>2 DEF Once
  <2>1. i + 1 \in 1 .. Len(s) /\ j + 1 \in 1 .. Len(s) BY <1>2
  <2>2. s[i + 1] = s[j + 1] BY <1>1, <1>2
  <2>3. i + 1 = j + 1 BY <1>2, <2>1, <2>2 DEF Once
  <2> QED BY <1>2, <2>3
<1>5. ASSUME NEW x \in ToSet(t) PROVE x \in ToSet(s) \ {Head(s)}
  <2>1. PICK i \in 1 .. Len(s) - 1 : t[i] = x BY <1>2
  <2>2. i + 1 \in 1 .. Len(s) /\ i + 1 # 1 /\ s[i + 1] = x BY <1>1, <1>2, <2>1
  <2>3. s[i + 1] # s[1] BY <1>2, <1>3, <2>2 DEF Once
  <2> QED BY <1>2, <1>3, <2>2, <2>3
<1>6. ASSUME NEW x \in ToSet(s), x # Head(s) PROVE x \in ToSet(t)
  <2>1. PICK j \in 1 .. Len(s) : s[j] = x BY <1>2
  <2>2. j # 1 BY <1>3, <1>6, <2>1
  <2>3. j - 1 \in 1 .. Len(s) - 1 /\ j - 1 + 1 = j BY <1>2, <2>2
  <2> QED BY <1>1, <1>2, <2>1, <2>3
<1>7. Head(s) \in ToSet(s) BY <1>2, <1>3
<1> QED BY <1>1, <1>4, <1>5, <1>6, <1>7 DEF t

-----------------------------------------------------------------------------
(* The queue. *)

\* What starts is a job of the queue whose key no running job has.
LEMMA NextStarts ==
  ASSUME NEW q \in Seq(Requests), NEW busy \in SUBSET Requests
  PROVE  \/ WithNext(q, busy) = busy
         \/ \E j \in Requests : /\ WithNext(q, busy) = busy \cup {j}
                                /\ KeyOf[j] # Unkeyed => \A r \in busy : KeyOf[r] # KeyOf[j]
<1>1. CASE MayStart(q, busy) = {} BY <1>1 DEF WithNext
<1>2. CASE MayStart(q, busy) # {}
  <2>1. DOMAIN q = 1 .. Len(q) /\ Len(q) \in Nat BY LenProperties
  <2>2. MayStart(q, busy) \in SUBSET Nat BY <2>1 DEF MayStart
  <2>3. Min(MayStart(q, busy)) \in MayStart(q, busy) BY <1>2, <2>2, SmallestMember
  <2> DEFINE j == q[Min(MayStart(q, busy))]
  <2>4. j \in Requests BY <2>1, <2>3, ElementOfSeq DEF MayStart
  <2>5. KeyOf[j] # Unkeyed => \A r \in busy : KeyOf[r] # KeyOf[j]
    BY <2>3 DEF MayStart, JobKey
  <2>6. WithNext(q, busy) = busy \/ WithNext(q, busy) = busy \cup {j} BY DEF WithNext
  <2> QED BY <2>4, <2>5, <2>6
<1> QED BY <1>1, <1>2

QueueTyped == jobs \in Seq(Requests) /\ running \in SUBSET Requests

LEMMA NextKeeps ==
  ASSUME NEW q \in Seq(Requests), NEW busy \in SUBSET Requests, jobs' = q,
         running' = WithNext(q, busy),
         \A r, p \in busy : KeyOf[r] # Unkeyed /\ KeyOf[r] = KeyOf[p] => r = p
  PROVE  QueueTyped' /\ OnePerKey' /\ busy \subseteq running'
<1>1. CASE running' = busy BY <1>1 DEF QueueTyped, OnePerKey
<1>2. CASE \E j \in Requests : /\ running' = busy \cup {j}
                               /\ KeyOf[j] # Unkeyed => \A r \in busy : KeyOf[r] # KeyOf[j]
  BY <1>2 DEF QueueTyped, OnePerKey
<1> QED BY <1>1, <1>2, NextStarts

LEMMA ExecuteKeeps ==
  ASSUME QueueInv, NEW r \in Requests, Execute(r)
  PROVE  QueueTyped' /\ OnePerKey' /\ running \subseteq running'
<1>1. Append(jobs, r) \in Seq(Requests) BY AppendProperties DEF QueueInv
<1>2. jobs' = Append(jobs, r) /\ running' = WithNext(Append(jobs, r), running) BY DEF Execute
<1> QED BY <1>1, <1>2, NextKeeps DEF QueueInv, OnePerKey

LEMMA SettleKeepsOrder ==
  ASSUME QueueInv, NEW r \in Requests, Settle(r)
  PROVE  QueueTyped' /\ OnePerKey' /\ running \ {r} \subseteq running'
<1>1. RemoveFirst(jobs, r) \in Seq(Requests) BY RemoveFirstType DEF QueueInv
<1>2. /\ jobs' = RemoveFirst(jobs, r)
      /\ running' = WithNext(RemoveFirst(jobs, r), running \ {r})
  BY DEF Settle
<1>3. running \ {r} \in SUBSET Requests BY DEF QueueInv
<1> QED BY <1>1, <1>2, <1>3, NextKeeps DEF QueueInv, OnePerKey

-----------------------------------------------------------------------------
(* The steps, as far as the queue is concerned. *)

QueueMoves(r) ==
  \/ Execute(r) /\ (phase' = phase \/ phase' = [phase EXCEPT ![r] = "queued"])
  \/ Settle(r) /\ r \in NodeCalls /\ phase' = [phase EXCEPT ![r] = "done"]
  \/ Settle(r) /\ r \notin NodeCalls /\ UNCHANGED phase
  \/ /\ UNCHANGED queueVars
     /\ \/ UNCHANGED phase
        \/ phase' = [phase EXCEPT ![r] = "dispatching"] /\ r \in running
        \/ phase' = [phase EXCEPT ![r] = "awaiting"] /\ phase[r] = "dispatching"

LEMMA OpQueueMoves ==
  ASSUME NEW o \in TableOps, OpStep(o) \/ OpEvent(o), UNCHANGED nodeVars
  PROVE  QueueMoves(o)
<1>1. o \notin NodeCalls BY RequestsAssumption
<1>2. UNCHANGED phase BY DEF nodeVars
<1>3. Execute(o) \/ Settle(o) \/ UNCHANGED queueVars
  BY DEF OpStep, OpEvent, TakeLockForCall, TakeLockForSighting, TakeLock, BeginSighting, BeginAdd,
         BeginRemove, EndOp, SetEntry, SetSightedEntry, MoveLast, ClearLast, UndoMove, GroupTimer,
         CallAdd, CallRemove, SeeMulticast, CancelGroup
<1> QED BY <1>1, <1>2, <1>3 DEF QueueMoves

LEMMA NodeQueueMoves ==
  ASSUME NEW r \in NodeCalls, NodeStep(r) \/ NodeEvent(r)
  PROVE  \E q \in NodeCalls : QueueMoves(q)
<1> USE DEF QueueMoves
<1>1. CASE CallSend(r) \/ CallZdo(r) BY <1>1 DEF CallSend, CallZdo, Enqueue
<1>2. CASE RefuseCancelled(r) \/ FinishSend(r) \/ ZdoTimer(r)
  BY <1>2 DEF RefuseCancelled, FinishSend, ZdoTimer, EndCall
<1>3. CASE FailSend(r) \/ FailZdo(r) BY <1>3 DEF FailSend, FailZdo, EndCall
<1>4. CASE BeginSend(r) \/ BeginZdo(r) BY <1>4 DEF BeginSend, BeginZdo
<1>5. CASE Dispatched(r) BY <1>5 DEF Dispatched
<1>6. CASE SendTimer(r) \/ CancelSend(r) \/ CancelZdo(r)
  BY <1>6 DEF SendTimer, CancelSend, CancelZdo
<1>7. CASE \E t \in TagIds, report \in {"delivered", "undelivered"} : MessageSent(r, t, report)
  BY <1>7 DEF MessageSent
<1>8. ASSUME NEW status \in DOMAIN AssertSuccess, r \in Zdos, ZdoResponse(r, status)
      PROVE  \E q \in NodeCalls : QueueMoves(q)
  <2> DEFINE waiting == {w \in Zdos : phase[w] = "awaiting" /\ KeyOf[w] = KeyOf[r]}
  <2>1. CASE waiting = {} BY <1>8, <2>1 DEF ZdoResponse
  <2>2. CASE waiting # {}
    <3>1. PICK w \in Zdos : EndCall(w, AssertSuccess[status]) BY <1>8, <2>2 DEF ZdoResponse
    <3> QED BY <3>1 DEF EndCall, NodeCalls
  <2> QED BY <2>1, <2>2
<1> QED BY <1>1, <1>2, <1>3, <1>4, <1>5, <1>6, <1>7, <1>8
        DEF NodeStep, NodeEvent, SendStep, ZdoStep

LEMMA QueueCases ==
  ASSUME [Next]_vars
  PROVE  UNCHANGED <<queueVars, phase>> \/ \E r \in NodeCalls \cup TableOps : QueueMoves(r)
<1>1. CASE UNCHANGED vars BY <1>1 DEF vars, nodeVars
<1>2. CASE LoseRadio BY <1>2 DEF LoseRadio
<1>3. ASSUME NEW r \in NodeCalls, NodeStep(r) \/ NodeEvent(r)
      PROVE  \E q \in NodeCalls \cup TableOps : QueueMoves(q)
  BY <1>3, NodeQueueMoves
<1>4. ASSUME NEW o \in TableOps, (OpStep(o) \/ OpEvent(o)) /\ UNCHANGED nodeVars
      PROVE  \E q \in NodeCalls \cup TableOps : QueueMoves(q)
  BY <1>4, OpQueueMoves
<1> QED BY <1>1, <1>2, <1>3, <1>4 DEF Next, Progress, Event

LEMMA QueueInvInit == Init => QueueInv
<1> SUFFICES ASSUME Init PROVE QueueInv OBVIOUS
<1>1. jobs = <<>> /\ running = {} BY DEF Init, QueueInit
<1>2. \A r \in NodeCalls : phase[r] = "idle" BY DEF Init, NodeInit
<1>3. jobs \in Seq(Requests) BY <1>1, EmptySeq
<1> QED BY <1>1, <1>2, <1>3 DEF QueueInv, OnePerKey, AtWork

LEMMA QueueInvStep == NodeTypeOK /\ QueueInv /\ [Next]_vars => QueueInv'
<1> SUFFICES ASSUME NodeTypeOK, QueueInv, [Next]_vars PROVE QueueInv' OBVIOUS
<1>1. CASE UNCHANGED <<queueVars, phase>>
  BY <1>1 DEF queueVars, QueueInv, OnePerKey, AtWork
<1>2. ASSUME NEW r \in NodeCalls \cup TableOps, QueueMoves(r) PROVE QueueInv'
  <2>1. r \in Requests BY NodeAssumption, TableAssumption DEF NodeCalls
  <2>2. \A q \in NodeCalls \ {r} : phase'[q] = phase[q] BY <1>2 DEF QueueMoves, NodeTypeOK
  <2>3. CASE Execute(r) /\ (phase' = phase \/ phase' = [phase EXCEPT ![r] = "queued"])
    <3>1. QueueTyped' /\ OnePerKey' /\ running \subseteq running' BY <2>1, <2>3, ExecuteKeeps
    <3>2. AtWork' BY <2>3, <3>1 DEF QueueInv, AtWork, NodeTypeOK
    <3> QED BY <3>1, <3>2 DEF QueueInv, QueueTyped
  <2>4. CASE /\ Settle(r)
             /\ \/ r \in NodeCalls /\ phase' = [phase EXCEPT ![r] = "done"]
                \/ r \notin NodeCalls /\ UNCHANGED phase
    <3>1. QueueTyped' /\ OnePerKey' /\ running \ {r} \subseteq running'
      BY <2>1, <2>4, SettleKeepsOrder
    <3>2. AtWork' BY <2>4, <3>1 DEF QueueInv, AtWork, NodeTypeOK
    <3> QED BY <3>1, <3>2 DEF QueueInv, QueueTyped
  <2>5. CASE /\ UNCHANGED queueVars
             /\ \/ UNCHANGED phase
                \/ phase' = [phase EXCEPT ![r] = "dispatching"] /\ r \in running
                \/ phase' = [phase EXCEPT ![r] = "awaiting"] /\ phase[r] = "dispatching"
    BY <2>5 DEF queueVars, QueueInv, OnePerKey, AtWork, NodeTypeOK
  <2> QED BY <1>2, <2>3, <2>4, <2>5 DEF QueueMoves
<1> QED BY <1>1, <1>2, QueueCases

LEMMA QueueInvariance == Spec => []QueueInv
<1>1. FrameInv => NodeTypeOK BY DEF FrameInv
<1> QED BY <1>1, QueueInvInit, QueueInvStep, FrameInvariance, PTL DEF Spec

-----------------------------------------------------------------------------
(* Answers. *)

\* Only a node's answer ends a ZDO request as one newly answered.
LEMMA NewlyReplied ==
  ASSUME [Next]_vars, NEW w \in Zdos, w \in replied' \ replied
  PROVE  \E status \in DOMAIN AssertSuccess : ZdoResponse(w, status)
<1>1. CASE LoseRadio BY <1>1 DEF LoseRadio
<1>2. ASSUME NEW s \in Sends,
             \/ CallSend(s) \/ RefuseCancelled(s) \/ BeginSend(s) \/ Dispatched(s)
             \/ FailSend(s) \/ SendTimer(s) \/ FinishSend(s) \/ CancelSend(s)
      PROVE  FALSE
  BY <1>2 DEF CallSend, Enqueue, RefuseCancelled, BeginSend, Dispatched, FailSend, SendTimer,
              FinishSend, CancelSend
<1>3. ASSUME NEW z \in Zdos,
             \/ CallZdo(z) \/ RefuseCancelled(z) \/ BeginZdo(z) \/ Dispatched(z)
             \/ FailZdo(z) \/ ZdoTimer(z) \/ CancelZdo(z)
      PROVE  FALSE
  BY <1>3 DEF CallZdo, Enqueue, RefuseCancelled, BeginZdo, Dispatched, FailZdo, ZdoTimer, CancelZdo
<1>4. ASSUME NEW z \in Zdos, NEW status \in DOMAIN AssertSuccess, ZdoResponse(z, status)
      PROVE  \E st \in DOMAIN AssertSuccess : ZdoResponse(w, st)
  <2>1. replied' = replied \cup {z} BY <1>4 DEF ZdoResponse
  <2> QED BY <1>4, <2>1
<1>5. ASSUME NEW r \in NodeCalls, NEW t \in TagIds, NEW report \in {"delivered", "undelivered"},
             MessageSent(r, t, report)
      PROVE  FALSE
  BY <1>5 DEF MessageSent
<1>6. CASE UNCHANGED nodeVars BY <1>6 DEF nodeVars
<1> QED BY <1>1, <1>2, <1>3, <1>4, <1>5, <1>6, Cases

\* A node's answer to one ZDO request never ends another that is under way
\* beside it, for any number of requests, nodes and places in the queue.
THEOREM AnswersAreNotSwapped == Spec => AnswersStayApart
<1> DEFINE Apart == \A w, z \in Zdos : /\ w # z /\ w \in replied' \ replied
                                       /\ phase[z] = "awaiting" /\ phase'[z] = "done"
                                       => phase[w] = "done"
<1>1. ASSUME NodeTypeOK, QueueInv, NcpUntouched, [Next]_vars PROVE Apart
  <2> SUFFICES ASSUME NEW w \in Zdos, NEW z \in Zdos, w # z, w \in replied' \ replied,
                      phase[z] = "awaiting", phase'[z] = "done", phase[w] # "done"
               PROVE  FALSE
    OBVIOUS
  <2>1. PICK status \in DOMAIN AssertSuccess : ZdoResponse(w, status) BY <1>1, NewlyReplied
  <2>2. w \in NodeCalls /\ z \in NodeCalls BY DEF NodeCalls
  <2>3. phase[w] \in {"dispatching", "awaiting"}
    BY <1>1, <2>1, <2>2 DEF ZdoResponse, NcpUntouched, NodeTypeOK
  <2>4. w \in running /\ z \in running BY <1>1, <2>2, <2>3 DEF QueueInv, AtWork
  <2>5. KeyOf[z] = KeyOf[w]
    <3>1. PICK v \in {u \in Zdos : phase[u] = "awaiting" /\ KeyOf[u] = KeyOf[w]} :
            phase' = [phase EXCEPT ![v] = "done"]
      BY <2>1 DEF ZdoResponse, EndCall
    <3> QED BY <1>1, <2>2, <3>1 DEF NodeTypeOK
  <2>6. KeyOf[z] # Unkeyed BY NodeAssumption
  <2> QED BY <1>1, <2>4, <2>5, <2>6 DEF QueueInv, OnePerKey
<1>2. Init => NcpUntouched BY DEF Init, NodeInit, NcpUntouched
<1>3. FrameInv => NodeTypeOK BY DEF FrameInv
<1>4. NodeTypeOK /\ QueueInv /\ NcpUntouched /\ [Next]_vars => [Apart]_nodeVars BY <1>1
<1> QED BY <1>2, <1>3, <1>4, NcpUntouchedStep, FrameInvariance, QueueInvariance,
           PTL DEF Spec, AnswersStayApart

-----------------------------------------------------------------------------
(* Types. *)

\* What no invariant above bounds.
Rest == /\ up \in BOOLEAN /\ cancelled \in SUBSET Requests
        /\ at \in [TableOps -> 0 .. Size + 1] /\ faults \in 0 .. MaxFaults

LEMMA OpRest ==
  ASSUME TableInv, NEW o \in TableOps, OpStep(o) \/ OpEvent(o)
  PROVE  /\ UNCHANGED up
         /\ cancelled' = cancelled \/ cancelled' = cancelled \cup {o}
         /\ at' = at \/ \E i \in 0 .. Size + 1 : at' = [at EXCEPT ![o] = i]
         /\ faults' = faults \/ (faults < MaxFaults /\ faults' = faults + 1)
<1> USE TableAssumption
<1>1. CASE \/ o \in Adds /\ CallAdd(o)
           \/ o \in Removes /\ CallRemove(o)
           \/ o \in Sightings /\ SeeMulticast(o)
           \/ o \in GroupCalls /\ (TakeLockForCall(o) \/ GroupTimer(o) \/ CancelGroup(o))
           \/ o \in Sightings /\ BeginSighting(o)
  BY <1>1 DEF CallAdd, CallRemove, SeeMulticast, TakeLockForCall, GroupTimer, CancelGroup,
              BeginSighting, Abort, callerVars, tableVars
<1>2. CASE o \in Sightings /\ TakeLockForSighting(o)
  <2>1. UNCHANGED <<up, cancelled, faults>> BY <1>2 DEF TakeLockForSighting, callerVars
  <2>2. CASE Bound(GroupOf[o]) BY <1>2, <2>1, <2>2 DEF TakeLockForSighting
  <2>3. CASE ~Bound(GroupOf[o])
    <3>1. Head(lock) = o /\ step[o] = "waiting" /\ at' = [at EXCEPT ![o] = Len(table) + 1]
      BY <1>2, <2>3 DEF TakeLockForSighting, TakeLock, LastIndex
    <3>2. Len(table) <= Size /\ table \in Seq(Groups) BY <3>1, WasQuiet DEF Quiet, TableTyped
    <3>3. Len(table) \in Nat BY <3>2, LenProperties
    <3>4. Len(table) + 1 \in 0 .. Size + 1 BY <3>2, <3>3
    <3> QED BY <2>1, <3>1, <3>4
  <2> QED BY <2>2, <2>3
<1>3. CASE (o \in Adds /\ BeginAdd(o)) \/ (o \in Removes /\ BeginRemove(o))
  <2>1. UNCHANGED <<up, cancelled, faults>> /\ step[o] = "queued"
    BY <1>3 DEF BeginAdd, BeginRemove, JobMayBegin
  <2>2. step[o] \in Active /\ ~Ahead(o) BY <1>3, <2>1 DEF Active, Ahead
  <2>3. Len(table) <= Size /\ Len(table) \in Nat /\ table \in Seq(Groups) BY <2>2, HolderFinds
  <2>4. CASE BeginAdd(o)
    <3>1. at' = at \/ at' = [at EXCEPT ![o] = Len(table) + 1] BY <2>4 DEF BeginAdd, LastIndex
    <3>2. Len(table) + 1 \in 0 .. Size + 1 BY <2>3
    <3> QED BY <2>1, <3>1, <3>2
  <2>5. CASE BeginRemove(o) /\ Bound(GroupOf[o])
    <3> DEFINE i == SelectInSeq(table, LAMBDA g : g = GroupOf[o])
    <3>1. at' = at \/ at' = [at EXCEPT ![o] = i] BY <2>5 DEF BeginRemove
    <3>2. GroupsOnce BY DEF TableInv
    <3>3. i \in 1 .. Len(table) /\ table[i] = GroupOf[o] BY <2>3, <2>5, <3>2, Found
    <3> HIDE DEF i
    <3>4. i \in 0 .. Size + 1 BY <2>3, <3>3
    <3> QED BY <2>1, <3>1, <3>4
  <2>6. CASE BeginRemove(o) /\ ~Bound(GroupOf[o]) BY <2>1, <2>6 DEF BeginRemove
  <2> QED BY <1>3, <2>4, <2>5, <2>6
<1>4. CASE SetEntry(o) \/ SetSightedEntry(o) \/ MoveLast(o) \/ ClearLast(o) \/ UndoMove(o)
  <2>1. UNCHANGED <<up, cancelled, at>>
    BY <1>4 DEF SetEntry, SetSightedEntry, MoveLast, ClearLast, UndoMove
  <2>2. \E index, group, answer : WriteEntry(index, group, answer)
    BY <1>4 DEF SetEntry, SetSightedEntry, MoveLast, ClearLast, UndoMove
  <2> QED BY <2>1, <2>2 DEF WriteEntry
<1> QED BY <1>1, <1>2, <1>3, <1>4 DEF OpStep, OpEvent

LEMMA NodeRest ==
  ASSUME NEW r \in NodeCalls, NodeStep(r) \/ NodeEvent(r)
  PROVE  /\ UNCHANGED up
         /\ cancelled' = cancelled \/ cancelled' = cancelled \cup {r}
BY DEF NodeStep, NodeEvent, SendStep, ZdoStep, CallSend, CallZdo, Enqueue, RefuseCancelled,
       FinishSend, ZdoTimer, FailSend, FailZdo, BeginSend, BeginZdo, Dispatched, SendTimer,
       CancelSend, CancelZdo, MessageSent, ZdoResponse, Abort, callerVars

LEMMA RestInit == Init => Rest
BY TableAssumption DEF Init, QueueInit, TableInit, Rest

LEMMA RestStep == TableInv /\ Rest /\ [Next]_vars => Rest'
<1> SUFFICES ASSUME TableInv, Rest, [Next]_vars PROVE Rest' OBVIOUS
<1> USE TableAssumption
<1>1. CASE UNCHANGED vars BY <1>1 DEF vars, callerVars, tableVars, Rest
<1>2. CASE LoseRadio /\ UNCHANGED tableVars
  BY <1>2 DEF LoseRadio, callerVars, tableVars, Rest
<1>3. ASSUME NEW r \in NodeCalls, NodeStep(r) \/ NodeEvent(r), UNCHANGED tableVars PROVE Rest'
  <2>1. r \in Requests BY NodeAssumption DEF NodeCalls
  <2> QED BY <1>3, <2>1, NodeRest DEF tableVars, Rest
<1>4. ASSUME NEW o \in TableOps, OpStep(o) \/ OpEvent(o) PROVE Rest'
  <2>1. /\ UNCHANGED up
        /\ cancelled' = cancelled \/ cancelled' = cancelled \cup {o}
        /\ at' = at \/ \E i \in 0 .. Size + 1 : at' = [at EXCEPT ![o] = i]
        /\ faults' = faults \/ (faults < MaxFaults /\ faults' = faults + 1)
    BY <1>4, OpRest
  <2>2. up' \in BOOLEAN /\ cancelled' \in SUBSET Requests BY <2>1 DEF Rest
  <2>3. at' \in [TableOps -> 0 .. Size + 1] BY <2>1 DEF Rest
  <2>4. faults' \in 0 .. MaxFaults BY <2>1 DEF Rest
  <2> QED BY <2>2, <2>3, <2>4 DEF Rest
<1> QED BY <1>1, <1>2, <1>3, <1>4 DEF Next, Progress, Event

\* Every reachable state is well typed, for any requests, tags, places in the
\* queue and sizes of the NCP's table.
THEOREM TypeCorrect == Spec => []TypeOK
<1>1. FrameInv /\ TableInv /\ QueueInv /\ Rest => TypeOK
  BY DEF FrameInv, ToldTypeOK, TableInv, TableTyped, QueueInv, Rest, TypeOK, QueueTypeOK,
         TableTypeOK
<1> QED BY <1>1, RestInit, RestStep, FrameInvariance, TableInvariance, QueueInvariance,
           PTL DEF Spec

-----------------------------------------------------------------------------
(* Free places and jobs that may run. *)

\* Job j may not start beside those of busy.
Barred(j, busy) ==
  j \in busy \/ (KeyOf[j] # Unkeyed /\ \E r \in busy : KeyOf[r] = KeyOf[j])

LEMMA StartableJobs ==
  ASSUME NEW q \in Seq(Requests), NEW busy
  PROVE  /\ MayStart(q, busy) = {} <=> \A j \in ToSet(q) : Barred(j, busy)
         /\ MayStart(q, busy) # {} => \E j \in ToSet(q) : /\ ~Barred(j, busy)
                                                          /\ q[Min(MayStart(q, busy))] = j
<1>1. /\ DOMAIN q = 1 .. Len(q) /\ Len(q) \in Nat
      /\ \A x : x \in ToSet(q) <=> \E i \in 1 .. Len(q) : q[i] = x
  BY Members
<1>2. \A i : i \in MayStart(q, busy) <=> i \in 1 .. Len(q) /\ ~Barred(q[i], busy)
  BY <1>1 DEF MayStart, JobKey, Barred
<1>3. MayStart(q, busy) = {} <=> \A j \in ToSet(q) : Barred(j, busy) BY <1>1, <1>2
<1>4. ASSUME MayStart(q, busy) # {}
      PROVE  \E j \in ToSet(q) : ~Barred(j, busy) /\ q[Min(MayStart(q, busy))] = j
  <2>1. MayStart(q, busy) \in SUBSET Nat BY <1>1, <1>2
  <2>2. Min(MayStart(q, busy)) \in MayStart(q, busy) BY <1>4, <2>1, SmallestMember
  <2> QED BY <1>1, <1>2, <2>2
<1> QED BY <1>3, <1>4

\* The places of queue q are in use, as far as there are jobs for them.
InUse(q, busy) ==
  /\ IsFiniteSet(busy) /\ busy \subseteq ToSet(q)
  /\ Cardinality(busy) <= Concurrent
  /\ Cardinality(busy) = Concurrent \/ MayStart(q, busy) = {}

\* One start is enough: one place is free at most, or the jobs that may start
\* are one, or have one key.
OneIsEnough(q, busy) ==
  \/ Cardinality(busy) >= Concurrent - 1
  \/ \E j : \A i \in ToSet(q) : Barred(i, busy) \/ i = j
  \/ \E key : \A i \in ToSet(q) : Barred(i, busy) \/ (key # Unkeyed /\ KeyOf[i] = key)

LEMMA NextFills ==
  ASSUME NEW q \in Seq(Requests), NEW busy, IsFiniteSet(busy), busy \subseteq ToSet(q),
         Cardinality(busy) <= Concurrent, OneIsEnough(q, busy),
         NEW next, next = WithNext(q, busy)
  PROVE  busy \subseteq next /\ InUse(q, next)
<1> USE QueueAssumption DEF InUse, OneIsEnough
<1>1. Cardinality(busy) \in Nat BY FS_CardinalityType
<1>2. CASE ~(Cardinality(busy) < Concurrent)
  <2>1. next = busy BY <1>2 DEF WithNext
  <2>2. Cardinality(busy) = Concurrent BY <1>1, <1>2
  <2> QED BY <2>1, <2>2
<1>3. CASE MayStart(q, busy) = {}
  <2>1. next = busy BY <1>3 DEF WithNext
  <2> QED BY <1>3, <2>1
<1>4. CASE Cardinality(busy) < Concurrent /\ MayStart(q, busy) # {}
  <2>1. PICK j \in ToSet(q) : ~Barred(j, busy) /\ next = busy \cup {j}
    BY <1>4, StartableJobs DEF WithNext
  <2>2. j \notin busy BY <2>1 DEF Barred
  <2>3. IsFiniteSet(next) /\ Cardinality(next) = Cardinality(busy) + 1
    BY <2>1, <2>2, FS_AddElement
  <2>4. Cardinality(next) <= Concurrent BY <1>1, <1>4, <2>3
  <2>5. Cardinality(next) = Concurrent \/ MayStart(q, next) = {}
    <3>1. CASE Cardinality(busy) >= Concurrent - 1 BY <1>1, <1>4, <2>3, <3>1
    <3>2. \A i : Barred(i, busy) => Barred(i, next) BY <2>1 DEF Barred
    <3>3. CASE \E k : \A i \in ToSet(q) : Barred(i, busy) \/ i = k
      <4>1. \A i \in ToSet(q) : Barred(i, busy) \/ i = j BY <2>1, <3>3
      <4>2. Barred(j, next) BY <2>1 DEF Barred
      <4>3. \A i \in ToSet(q) : Barred(i, next) BY <3>2, <4>1, <4>2
      <4> QED BY <4>3, StartableJobs
    <3>4. CASE \E key : \A i \in ToSet(q) : Barred(i, busy) \/ (key # Unkeyed /\ KeyOf[i] = key)
      <4>1. \A i \in ToSet(q) : Barred(i, busy) \/ (KeyOf[j] # Unkeyed /\ KeyOf[i] = KeyOf[j])
        BY <2>1, <3>4
      <4>2. \A i : KeyOf[j] # Unkeyed /\ KeyOf[i] = KeyOf[j] => Barred(i, next)
        BY <2>1 DEF Barred
      <4>3. \A i \in ToSet(q) : Barred(i, next) BY <3>2, <4>1, <4>2
      <4> QED BY <4>3, StartableJobs
    <3> QED BY <3>1, <3>3, <3>4
  <2> QED BY <2>1, <2>3, <2>4, <2>5
<1> QED BY <1>2, <1>3, <1>4

\* A free place never stands empty beside a job that may run.
QueueBusy == Once(jobs) /\ InUse(jobs, running)

LEMMA ExecuteFills ==
  ASSUME jobs \in Seq(Requests), QueueBusy, NEW r \in Requests, r \notin ToSet(jobs), Execute(r)
  PROVE  QueueBusy' /\ ToSet(jobs') = ToSet(jobs) \cup {r} /\ running \subseteq running'
<1> USE QueueAssumption
<1>1. jobs' = Append(jobs, r) /\ running' = WithNext(jobs', running) BY DEF Execute
<1>2. jobs' \in Seq(Requests) /\ Once(jobs') /\ ToSet(jobs') = ToSet(jobs) \cup {r}
  BY <1>1, AppendedOnce DEF QueueBusy
<1>3. OneIsEnough(jobs', running)
  <2> USE DEF OneIsEnough
  <2>1. CASE Cardinality(running) = Concurrent BY <2>1
  <2>2. CASE MayStart(jobs, running) = {}
    <3>1. \A i \in ToSet(jobs) : Barred(i, running) BY <2>2, StartableJobs
    <3> QED BY <1>2, <3>1
  <2> QED BY <2>1, <2>2 DEF QueueBusy, InUse
<1>4. IsFiniteSet(running) /\ running \subseteq ToSet(jobs') /\ Cardinality(running) <= Concurrent
  BY <1>2 DEF QueueBusy, InUse
<1>5. running \subseteq running' /\ InUse(jobs', running')
  <2> DEFINE q == jobs'
             next == running'
  <2>1. /\ q \in Seq(Requests) /\ OneIsEnough(q, running) /\ next = WithNext(q, running)
        /\ running \subseteq ToSet(q)
    BY <1>1, <1>2, <1>3, <1>4
  <2> HIDE DEF q, next
  <2>2. running \subseteq next /\ InUse(q, next) BY <1>4, <2>1, NextFills
  <2> QED BY <2>2 DEF q, next
<1>6. QueueBusy' BY <1>2, <1>5 DEF QueueBusy, InUse, MayStart, JobKey
<1> QED BY <1>2, <1>5, <1>6

LEMMA SettleFills ==
  ASSUME jobs \in Seq(Requests), QueueBusy, NEW r \in running, Settle(r)
  PROVE  QueueBusy' /\ ToSet(jobs') = ToSet(jobs) \ {r} /\ running \ {r} \subseteq running'
<1> USE QueueAssumption
<1> DEFINE rest == running \ {r}
<1>1. jobs' = RemoveFirst(jobs, r) /\ running' = WithNext(jobs', rest) BY DEF Settle
<1>2. jobs' \in Seq(Requests) /\ Once(jobs') /\ ToSet(jobs') = ToSet(jobs) \ {r}
  <2>1. r \in ToSet(jobs) /\ Once(jobs) BY DEF QueueBusy, InUse
  <2> QED BY <1>1, <2>1, RemovedOnce
<1>3. IsFiniteSet(rest) /\ Cardinality(rest) = Cardinality(running) - 1
  BY FS_RemoveElement DEF QueueBusy, InUse
<1>4. Cardinality(running) \in Nat /\ Cardinality(running) <= Concurrent
  BY FS_CardinalityType DEF QueueBusy, InUse
<1>5. OneIsEnough(jobs', rest)
  <2> USE DEF OneIsEnough
  <2>1. CASE Cardinality(running) = Concurrent BY <1>3, <1>4, <2>1
  <2>2. CASE MayStart(jobs, running) = {}
    <3>1. \A i \in ToSet(jobs) : Barred(i, running) BY <2>2, StartableJobs
    <3>2. ASSUME NEW i \in ToSet(jobs')
          PROVE  Barred(i, rest) \/ (KeyOf[r] # Unkeyed /\ KeyOf[i] = KeyOf[r])
      <4>1. i \in ToSet(jobs) /\ i # r BY <1>2, <3>2
      <4> QED BY <3>1, <4>1 DEF Barred
    <3> QED BY <3>2
  <2> QED BY <2>1, <2>2 DEF QueueBusy, InUse
<1>6. rest \subseteq ToSet(jobs') BY <1>2 DEF QueueBusy, InUse
<1>7. Cardinality(rest) <= Concurrent BY <1>3, <1>4
<1> HIDE DEF rest
<1>8. rest \subseteq running' /\ InUse(jobs', running')
  BY <1>1, <1>2, <1>3, <1>5, <1>6, <1>7, NextFills
<1>9. QueueBusy' BY <1>2, <1>8 DEF QueueBusy, InUse, MayStart, JobKey
<1> QED BY <1>2, <1>8, <1>9 DEF rest

-----------------------------------------------------------------------------
(* Callers, jobs and the lock. *)

\* An operation at work has its place.
OpAtWork == \A o \in TableOps : step[o] \in {"set", "move", "clear", "undo"} => o \in running

\* The lock belongs to or is awaited by the operations that have begun and
\* not ended, each of them once.
LockIsWanted ==
  /\ Once(lock)
  /\ \A o \in TableOps : o \in ToSet(lock) <=> step[o] \notin {"idle", "done"}

\* Who has ended has told its caller.
DoneIsTold ==
  /\ \A r \in NodeCalls : phase[r] = "done" => told[r] # "nothing"
  /\ \A o \in GroupCalls : step[o] = "done" => told[o] # "nothing"

ForgetInv == /\ QueueBusy /\ ToSet(jobs) = UnderWay
             /\ OpAtWork /\ LockIsWanted /\ DoneIsTold

LEMMA ForgetNobody == TableInv /\ ForgetInv => NobodyForgotten
<1> SUFFICES ASSUME TableInv, ForgetInv PROVE NobodyForgotten OBVIOUS
<1> USE DEF ForgetInv
<1>1. ASSUME NEW r \in Called \ Sightings, told[r] = "nothing"
      PROVE  r \in UnderWay \cup ToSet(lock)
  <2>1. CASE r \in NodeCalls
    <3>1. CASE phase[r] # "idle" BY <1>1, <2>1, <3>1 DEF DoneIsTold, UnderWay
    <3>2. CASE r \in TableOps BY <2>1, <3>2, RequestsAssumption
    <3> QED BY <1>1, <3>1, <3>2 DEF Called
  <2>2. CASE r \in TableOps /\ step[r] # "idle"
    <3>1. r \in GroupCalls BY <1>1, <2>2 DEF TableOps
    <3>2. step[r] # "done" BY <1>1, <3>1 DEF DoneIsTold
    <3> QED BY <2>2, <3>2 DEF LockIsWanted
  <2> QED BY <1>1, <2>1, <2>2 DEF Called
<1>2. running \subseteq UnderWay /\ (Cardinality(running) = Concurrent \/ MayStart(jobs, running) = {})
  BY DEF QueueBusy, InUse
<1>3. ASSUME lock # <<>> PROVE step[Head(lock)] = "waiting" \/ Head(lock) \in UnderWay
  <2>1. lock \in Seq(TableOps) BY DEF TableInv, TableTyped
  <2>2. Head(lock) \in ToSet(lock) /\ Head(lock) \in TableOps
    BY <1>3, <2>1, TailOnce, HeadTailProperties DEF LockIsWanted
  <2> QED BY <2>2 DEF LockIsWanted, UnderWay
<1> QED BY <1>1, <1>2, <1>3 DEF NobodyForgotten

-----------------------------------------------------------------------------
(* What the steps do to a caller, to the queue and to the lock. *)

\* Nobody who was told something is told nothing again.
ToldStays == \A q \in Requests : told[q] # "nothing" => told'[q] # "nothing"

NodeGoes(r) ==
  \/ /\ Execute(r) /\ UNCHANGED told
     /\ phase[r] = "idle" /\ phase' = [phase EXCEPT ![r] = "queued"]
  \/ /\ Settle(r) /\ told'[r] # "nothing"
     /\ r \in running /\ phase' = [phase EXCEPT ![r] = "done"]
  \/ /\ UNCHANGED queueVars
     /\ \/ UNCHANGED phase
        \/ \E p \in {"dispatching", "awaiting"} :
             phase[r] \in {"queued", "dispatching"} /\ phase' = [phase EXCEPT ![r] = p]

OpGoes(o) ==
  \/ /\ step[o] = "idle" /\ step' = [step EXCEPT ![o] = "waiting"]
     /\ lock' = Append(lock, o) /\ UNCHANGED <<queueVars, told>>
  \/ /\ step[o] = "idle" /\ step' = [step EXCEPT ![o] = "done"]
     /\ told'[o] # "nothing" /\ UNCHANGED <<queueVars, lock>>
  \/ /\ step[o] = "waiting" /\ step' = [step EXCEPT ![o] = "queued"]
     /\ Execute(o) /\ UNCHANGED <<told, lock>>
  \/ /\ o \in Sightings /\ lock # <<>> /\ Head(lock) = o /\ step[o] = "waiting"
     /\ step' = [step EXCEPT ![o] = "done"]
     /\ lock' = Tail(lock) /\ UNCHANGED <<queueVars, told>>
  \/ /\ o \in running /\ step[o] \in Active
     /\ \E w \in {"set", "move", "clear", "undo"} : step' = [step EXCEPT ![o] = w]
     /\ UNCHANGED <<queueVars, told, lock>>
  \/ /\ o \in running /\ step[o] \in Active /\ step' = [step EXCEPT ![o] = "done"]
     /\ told'[o] # "nothing" /\ Settle(o) /\ lock' = Tail(lock)
  \/ UNCHANGED <<queueVars, step, lock>>

LEMMA TellIsHeard ==
  ASSUME ToldTypeOK, NEW r \in Requests, NEW outcome \in Outcomes, Tell(r, outcome)
  PROVE  told'[r] # "nothing" /\ ToldStays
BY DEF ToldTypeOK, Tell, Outcomes, ToldStays

LEMMA EndCallGoes ==
  ASSUME FrameInv, QueueInv, NEW r \in NodeCalls, NEW outcome \in Outcomes, EndCall(r, outcome),
         phase[r] = "queued" => r \in running, phase[r] \in {"queued", "dispatching", "awaiting"}
  PROVE  NodeGoes(r) /\ ToldStays
<1>1. r \in Requests BY NodeAssumption DEF NodeCalls
<1>2. told'[r] # "nothing" /\ ToldStays BY <1>1, TellIsHeard DEF EndCall, FrameInv
<1>3. r \in running BY DEF QueueInv, AtWork
<1> QED BY <1>2, <1>3 DEF EndCall, NodeGoes

LEMMA NodeStepGoes ==
  ASSUME FrameInv, QueueInv, NEW r \in NodeCalls, NodeStep(r) \/ NodeEvent(r)
  PROVE  ToldStays /\ \E q \in NodeCalls : NodeGoes(q)
<1>1. CASE CallSend(r) \/ CallZdo(r)
  BY <1>1 DEF CallSend, CallZdo, Enqueue, callerVars, NodeGoes, ToldStays
<1>2. CASE RefuseCancelled(r)
  <2>1. /\ EndCall(r, "aborted") /\ "aborted" \in Outcomes
        /\ phase[r] = "queued" /\ r \in running
    BY <1>2 DEF RefuseCancelled, Outcomes
  <2> QED BY <2>1, EndCallGoes
<1>3. CASE r \in Sends /\ FinishSend(r)
  <2>1. phase[r] = "awaiting" /\ sent[r] # "open" /\ EndCall(r, sent[r]) BY <1>3 DEF FinishSend
  <2>2. sent[r] \in Outcomes BY <1>3, <2>1 DEF FrameInv, FreshFrames, NodeTypeOK
  <2> QED BY <2>1, <2>2, EndCallGoes
<1>4. CASE ZdoTimer(r)
  <2>1. EndCall(r, "timeout") /\ "timeout" \in Outcomes /\ phase[r] = "awaiting"
    BY <1>4 DEF ZdoTimer, Outcomes
  <2> QED BY <2>1, EndCallGoes
<1>5. CASE FailSend(r) \/ FailZdo(r)
  <2>1. PICK error \in DispatchErrors : DispatchFails(r, error) /\ EndCall(r, Translate[error])
    BY <1>5 DEF FailSend, FailZdo
  <2>2. phase[r] = "dispatching" BY <2>1, DispatchFailure
  <2>3. Translate[error] \in Outcomes BY Translated
  <2> QED BY <2>1, <2>2, <2>3, EndCallGoes
<1>6. CASE BeginSend(r) \/ BeginZdo(r) \/ Dispatched(r)
  BY <1>6 DEF BeginSend, BeginZdo, Dispatched, callerVars, NodeGoes, ToldStays
<1>7. CASE SendTimer(r) \/ CancelSend(r)
           \/ \E t \in TagIds, report \in {"delivered", "undelivered"} : MessageSent(r, t, report)
  BY <1>7 DEF SendTimer, CancelSend, MessageSent, callerVars, NodeGoes, ToldStays
<1>8. CASE CancelZdo(r)
  <2>1. /\ r \in Requests /\ Tell(r, "aborted") /\ "aborted" \in Outcomes
        /\ UNCHANGED <<queueVars, phase>>
    BY <1>8, NodeAssumption DEF CancelZdo, Outcomes, NodeCalls
  <2> QED BY <2>1, TellIsHeard DEF FrameInv, NodeGoes
<1>9. ASSUME NEW status \in DOMAIN AssertSuccess, r \in Zdos, ZdoResponse(r, status)
      PROVE  ToldStays /\ \E q \in NodeCalls : NodeGoes(q)
  <2> DEFINE waiting == {w \in Zdos : phase[w] = "awaiting" /\ KeyOf[w] = KeyOf[r]}
  <2>1. CASE waiting = {} BY <1>9, <2>1 DEF ZdoResponse, NodeGoes, ToldStays
  <2>2. CASE waiting # {}
    <3>1. PICK w \in Zdos : EndCall(w, AssertSuccess[status]) /\ phase[w] = "awaiting"
      BY <1>9, <2>2 DEF ZdoResponse
    <3>2. AssertSuccess[status] \in Outcomes /\ w \in NodeCalls
      BY DEF AssertSuccess, Outcomes, NodeCalls
    <3> QED BY <3>1, <3>2, EndCallGoes
  <2> QED BY <2>1, <2>2
<1> QED BY <1>1, <1>2, <1>3, <1>4, <1>5, <1>6, <1>7, <1>8, <1>9
        DEF NodeStep, NodeEvent, SendStep, ZdoStep

LEMMA EndOpGoes ==
  ASSUME ToldTypeOK, OpAtWork, NEW o \in TableOps, NEW outcome \in Outcomes, EndOp(o, outcome),
         step[o] = "queued" => o \in running, step[o] \in Active
  PROVE  OpGoes(o) /\ ToldStays
<1>1. o \in Requests BY TableAssumption
<1>2. told'[o] # "nothing" /\ ToldStays BY <1>1, TellIsHeard DEF EndOp
<1>3. o \in running BY DEF OpAtWork, Active
<1> QED BY <1>2, <1>3 DEF EndOp, OpGoes

LEMMA OpStepGoes ==
  ASSUME ToldTypeOK, OpAtWork, NEW o \in TableOps, OpStep(o) \/ OpEvent(o)
  PROVE  ToldStays /\ OpGoes(o)
<1> USE TableAssumption
<1>1. CASE (o \in Adds /\ CallAdd(o)) \/ (o \in Removes /\ CallRemove(o))
  <2>1. step[o] = "idle" /\ UNCHANGED queueVars BY <1>1 DEF CallAdd, CallRemove
  <2>2. (AwaitLock(o) /\ UNCHANGED told) \/ (ReturnAtOnce(o) /\ UNCHANGED lock)
    BY <1>1 DEF CallAdd, CallRemove
  <2>3. CASE AwaitLock(o) /\ UNCHANGED told BY <2>1, <2>3 DEF AwaitLock, OpGoes, ToldStays
  <2>4. CASE ReturnAtOnce(o) /\ UNCHANGED lock
    <3>1. Tell(o, "ok") /\ "ok" \in Outcomes /\ o \in Requests
      BY <2>4 DEF ReturnAtOnce, Outcomes
    <3>2. told'[o] # "nothing" /\ ToldStays BY <3>1, TellIsHeard
    <3> QED BY <2>1, <2>4, <3>2 DEF ReturnAtOnce, OpGoes
  <2> QED BY <2>2, <2>3, <2>4
<1>2. CASE o \in Sightings /\ SeeMulticast(o)
  BY <1>2 DEF SeeMulticast, AwaitLock, callerVars, OpGoes, ToldStays
<1>3. CASE o \in GroupCalls /\ TakeLockForCall(o)
  BY <1>3 DEF TakeLockForCall, TakeLock, callerVars, OpGoes, ToldStays
<1>4. CASE o \in Sightings /\ TakeLockForSighting(o)
  <2>1. CASE Bound(GroupOf[o])
    BY <1>4, <2>1 DEF TakeLockForSighting, callerVars, OpGoes, ToldStays
  <2>2. CASE ~Bound(GroupOf[o])
    BY <1>4, <2>2 DEF TakeLockForSighting, TakeLock, callerVars, OpGoes, ToldStays
  <2> QED BY <2>1, <2>2
<1>5. CASE BeginSighting(o)
  BY <1>5 DEF BeginSighting, JobMayBegin, callerVars, OpGoes, ToldStays, Active
<1>6. CASE BeginAdd(o) \/ BeginRemove(o)
  <2>1. step[o] = "queued" /\ o \in running /\ step[o] \in Active
    BY <1>6 DEF BeginAdd, BeginRemove, JobMayBegin, Active
  <2>2. \/ \E outcome \in {"ok", "aborted"} : EndOp(o, outcome)
        \/ /\ \E w \in {"set", "move", "clear"} : step' = [step EXCEPT ![o] = w]
           /\ UNCHANGED <<queueVars, told, lock>>
    BY <1>6 DEF BeginAdd, BeginRemove
  <2>3. ASSUME NEW outcome \in {"ok", "aborted"}, EndOp(o, outcome) PROVE ToldStays /\ OpGoes(o)
    <3>1. outcome \in Outcomes BY DEF Outcomes
    <3> QED BY <2>1, <2>3, <3>1, EndOpGoes
  <2> QED BY <2>1, <2>2, <2>3 DEF OpGoes, ToldStays
<1>7. CASE SetEntry(o) \/ SetSightedEntry(o) \/ MoveLast(o) \/ ClearLast(o) \/ UndoMove(o)
  <2>1. step[o] \in {"set", "move", "clear", "undo"}
    BY <1>7 DEF SetEntry, SetSightedEntry, MoveLast, ClearLast, UndoMove
  <2>2. o \in running /\ step[o] \in Active BY <2>1 DEF OpAtWork, Active
  <2>3. \/ \E outcome \in {"ok", "failed"} : EndOp(o, outcome)
        \/ /\ \E w \in {"clear", "undo"} : step' = [step EXCEPT ![o] = w]
           /\ UNCHANGED <<queueVars, told, lock>>
    BY <1>7 DEF SetEntry, SetSightedEntry, MoveLast, ClearLast, UndoMove
  <2>4. ASSUME NEW outcome \in {"ok", "failed"}, EndOp(o, outcome) PROVE ToldStays /\ OpGoes(o)
    <3>1. outcome \in Outcomes BY DEF Outcomes
    <3> QED BY <2>1, <2>2, <2>4, <3>1, EndOpGoes
  <2> QED BY <2>2, <2>3, <2>4 DEF OpGoes, ToldStays
<1>8. CASE GroupTimer(o) \/ CancelGroup(o)
  <2>1. PICK outcome \in {"timeout", "aborted"} : Tell(o, outcome)
    BY <1>8 DEF GroupTimer, CancelGroup
  <2>2. outcome \in Outcomes /\ o \in Requests BY DEF Outcomes
  <2>3. ToldStays BY <2>1, <2>2, TellIsHeard
  <2>4. UNCHANGED <<queueVars, step, lock>> BY <1>8 DEF GroupTimer, CancelGroup, tableVars
  <2> QED BY <2>3, <2>4 DEF OpGoes
<1> QED BY <1>1, <1>2, <1>3, <1>4, <1>5, <1>6, <1>7, <1>8 DEF OpStep, OpEvent

LEMMA NodeForgets ==
  ASSUME FrameInv, QueueInv, ForgetInv, NEW r \in NodeCalls, NodeGoes(r), ToldStays,
         UNCHANGED <<step, lock>>
  PROVE  ForgetInv'
<1> USE NodeAssumption, TableAssumption, RequestsAssumption
<1>1. /\ NodeCalls \subseteq Requests /\ GroupCalls \subseteq Requests /\ r \in Requests
      /\ phase \in [NodeCalls -> {"idle", "queued", "dispatching", "awaiting", "done"}]
      /\ jobs \in Seq(Requests) /\ r \notin TableOps
  BY DEF NodeCalls, TableOps, FrameInv, NodeTypeOK, QueueInv
<1>2. LockIsWanted' BY DEF ForgetInv, LockIsWanted, Once, ToSet
<1>3. CASE /\ Execute(r) /\ UNCHANGED told
           /\ phase[r] = "idle" /\ phase' = [phase EXCEPT ![r] = "queued"]
  <2>1. r \notin ToSet(jobs) BY <1>1, <1>3 DEF ForgetInv, UnderWay
  <2>2. QueueBusy' /\ ToSet(jobs') = ToSet(jobs) \cup {r} /\ running \subseteq running'
    BY <1>1, <1>3, <2>1, ExecuteFills DEF ForgetInv
  <2>3. UnderWay' = UnderWay \cup {r} BY <1>1, <1>3 DEF UnderWay
  <2>4. OpAtWork' BY <2>2 DEF ForgetInv, OpAtWork
  <2>5. DoneIsTold' BY <1>1, <1>3 DEF ForgetInv, DoneIsTold
  <2> QED BY <1>2, <2>2, <2>3, <2>4, <2>5 DEF ForgetInv
<1>4. CASE /\ Settle(r) /\ told'[r] # "nothing"
           /\ r \in running /\ phase' = [phase EXCEPT ![r] = "done"]
  <2>1. QueueBusy' /\ ToSet(jobs') = ToSet(jobs) \ {r} /\ running \ {r} \subseteq running'
    BY <1>1, <1>4, SettleFills DEF ForgetInv
  <2>2. UnderWay' = UnderWay \ {r} BY <1>1, <1>4 DEF UnderWay
  <2>3. OpAtWork' BY <1>1, <2>1 DEF ForgetInv, OpAtWork
  <2>4. DoneIsTold' BY <1>1, <1>4 DEF ForgetInv, DoneIsTold, ToldStays
  <2> QED BY <1>2, <2>1, <2>2, <2>3, <2>4 DEF ForgetInv
<1>5. CASE /\ UNCHANGED queueVars
           /\ \/ UNCHANGED phase
              \/ \E p \in {"dispatching", "awaiting"} :
                   phase[r] \in {"queued", "dispatching"} /\ phase' = [phase EXCEPT ![r] = p]
  <2>1. UNCHANGED <<jobs, running>> BY <1>5 DEF queueVars
  <2>2. \A q \in NodeCalls : /\ phase'[q] = "done" <=> phase[q] = "done"
                             /\ phase'[q] = "idle" <=> phase[q] = "idle"
    BY <1>1, <1>5
  <2>3. UnderWay' = UnderWay BY <2>2 DEF UnderWay
  <2>4. QueueBusy' BY <2>1 DEF ForgetInv, QueueBusy, InUse, Once, MayStart, JobKey, ToSet
  <2>5. OpAtWork' BY <2>1 DEF ForgetInv, OpAtWork
  <2>6. DoneIsTold' BY <1>1, <2>2 DEF ForgetInv, DoneIsTold, ToldStays
  <2>7. ToSet(jobs') = ToSet(jobs) BY <2>1
  <2> QED BY <1>2, <2>3, <2>4, <2>5, <2>6, <2>7 DEF ForgetInv
<1> QED BY <1>3, <1>4, <1>5 DEF NodeGoes

LEMMA OpForgets ==
  ASSUME TableInv, QueueInv, ForgetInv, NEW o \in TableOps, OpGoes(o), ToldStays, UNCHANGED phase
  PROVE  ForgetInv'
<1> USE NodeAssumption, TableAssumption, RequestsAssumption
<1>1. /\ NodeCalls \subseteq Requests /\ GroupCalls \subseteq Requests /\ o \in Requests
      /\ step \in [TableOps -> {"idle", "waiting", "queued", "set", "move", "clear", "undo",
                                "done"}]
      /\ jobs \in Seq(Requests) /\ lock \in Seq(TableOps) /\ Once(lock) /\ o \notin NodeCalls
  BY DEF NodeCalls, TableOps, TableInv, TableTyped, QueueInv, ForgetInv, LockIsWanted
<1>2. ASSUME UNCHANGED queueVars
      PROVE  UNCHANGED <<jobs, running>> /\ QueueBusy' /\ ToSet(jobs') = ToSet(jobs)
  <2>1. UNCHANGED <<jobs, running>> BY <1>2 DEF queueVars
  <2> QED BY <2>1 DEF ForgetInv, QueueBusy, InUse, Once, MayStart, JobKey, ToSet
<1>3. ASSUME UNCHANGED lock,
             \A q \in TableOps : step'[q] \in {"idle", "done"} <=> step[q] \in {"idle", "done"}
      PROVE  LockIsWanted'
  BY <1>3 DEF ForgetInv, LockIsWanted, Once, ToSet
<1>4. CASE /\ step[o] = "idle" /\ step' = [step EXCEPT ![o] = "waiting"]
           /\ lock' = Append(lock, o) /\ UNCHANGED <<queueVars, told>>
  <2>1. o \notin ToSet(lock) BY <1>4 DEF ForgetInv, LockIsWanted
  <2>2. Once(lock') /\ ToSet(lock') = ToSet(lock) \cup {o} BY <1>1, <1>4, <2>1, AppendedOnce
  <2>3. LockIsWanted' BY <1>1, <1>4, <2>2 DEF ForgetInv, LockIsWanted, Once
  <2>4. UnderWay' = UnderWay BY <1>1, <1>4 DEF UnderWay
  <2>5. OpAtWork' BY <1>1, <1>2, <1>4 DEF ForgetInv, OpAtWork
  <2>6. DoneIsTold' BY <1>1, <1>4 DEF ForgetInv, DoneIsTold, TableOps
  <2> QED BY <1>2, <1>4, <2>3, <2>4, <2>5, <2>6 DEF ForgetInv
<1>5. CASE /\ step[o] = "idle" /\ step' = [step EXCEPT ![o] = "done"]
           /\ told'[o] # "nothing" /\ UNCHANGED <<queueVars, lock>>
  <2>1. LockIsWanted'
    <3>1. \A q \in TableOps : step'[q] \in {"idle", "done"} <=> step[q] \in {"idle", "done"}
      BY <1>1, <1>5
    <3> QED BY <1>3, <1>5, <3>1
  <2>2. UnderWay' = UnderWay BY <1>1, <1>5 DEF UnderWay
  <2>3. OpAtWork' BY <1>1, <1>2, <1>5 DEF ForgetInv, OpAtWork
  <2>4. DoneIsTold' BY <1>1, <1>5 DEF ForgetInv, DoneIsTold, ToldStays, TableOps
  <2> QED BY <1>2, <1>5, <2>1, <2>2, <2>3, <2>4 DEF ForgetInv
<1>6. CASE /\ step[o] = "waiting" /\ step' = [step EXCEPT ![o] = "queued"]
           /\ Execute(o) /\ UNCHANGED <<told, lock>>
  <2>1. o \notin ToSet(jobs) BY <1>1, <1>6 DEF ForgetInv, UnderWay
  <2>2. QueueBusy' /\ ToSet(jobs') = ToSet(jobs) \cup {o} /\ running \subseteq running'
    BY <1>1, <1>6, <2>1, ExecuteFills DEF ForgetInv
  <2>3. UnderWay' = UnderWay \cup {o} BY <1>1, <1>6 DEF UnderWay
  <2>4. LockIsWanted'
    <3>1. \A q \in TableOps : step'[q] \in {"idle", "done"} <=> step[q] \in {"idle", "done"}
      BY <1>1, <1>6
    <3> QED BY <1>3, <1>6, <3>1
  <2>5. OpAtWork' BY <1>1, <1>6, <2>2 DEF ForgetInv, OpAtWork
  <2>6. DoneIsTold' BY <1>1, <1>6 DEF ForgetInv, DoneIsTold, TableOps
  <2> QED BY <2>2, <2>3, <2>4, <2>5, <2>6 DEF ForgetInv
<1>7. CASE /\ o \in Sightings /\ lock # <<>> /\ Head(lock) = o /\ step[o] = "waiting"
           /\ step' = [step EXCEPT ![o] = "done"]
           /\ lock' = Tail(lock) /\ UNCHANGED <<queueVars, told>>
  <2>1. Once(lock') /\ ToSet(lock') = ToSet(lock) \ {o} BY <1>1, <1>7, TailOnce
  <2>2. LockIsWanted' BY <1>1, <1>7, <2>1 DEF ForgetInv, LockIsWanted, Once
  <2>3. UnderWay' = UnderWay BY <1>1, <1>7 DEF UnderWay
  <2>4. OpAtWork' BY <1>1, <1>2, <1>7 DEF ForgetInv, OpAtWork
  <2>5. DoneIsTold' BY <1>1, <1>7 DEF ForgetInv, DoneIsTold, TableOps, GroupCalls
  <2> QED BY <1>2, <1>7, <2>2, <2>3, <2>4, <2>5 DEF ForgetInv
<1>8. CASE /\ o \in running /\ step[o] \in Active
           /\ \E w \in {"set", "move", "clear", "undo"} : step' = [step EXCEPT ![o] = w]
           /\ UNCHANGED <<queueVars, told, lock>>
  <2>1. \A q \in TableOps : /\ step'[q] # step[q] => q = o
                            /\ step'[q] \in {"idle", "waiting", "done"} <=>
                                 step[q] \in {"idle", "waiting", "done"}
                            /\ step'[q] \in {"idle", "done"} <=> step[q] \in {"idle", "done"}
                            /\ step'[q] = "done" <=> step[q] = "done"
    BY <1>1, <1>8 DEF Active
  <2>2. LockIsWanted' BY <1>3, <1>8, <2>1
  <2>3. UnderWay' = UnderWay BY <2>1 DEF UnderWay
  <2>4. OpAtWork' BY <1>2, <1>8, <2>1 DEF ForgetInv, OpAtWork
  <2>5. DoneIsTold' BY <1>8, <2>1 DEF ForgetInv, DoneIsTold, TableOps
  <2> QED BY <1>2, <1>8, <2>2, <2>3, <2>4, <2>5 DEF ForgetInv
<1>9. CASE /\ o \in running /\ step[o] \in Active /\ step' = [step EXCEPT ![o] = "done"]
           /\ told'[o] # "nothing" /\ Settle(o) /\ lock' = Tail(lock)
  <2>1. lock # <<>> /\ Head(lock) = o BY <1>9 DEF TableInv, HolderActs
  <2>2. Once(lock') /\ ToSet(lock') = ToSet(lock) \ {o} BY <1>1, <1>9, <2>1, TailOnce
  <2>3. QueueBusy' /\ ToSet(jobs') = ToSet(jobs) \ {o} /\ running \ {o} \subseteq running'
    BY <1>1, <1>9, SettleFills DEF ForgetInv
  <2>4. LockIsWanted' BY <1>1, <1>9, <2>2 DEF ForgetInv, LockIsWanted, Once
  <2>5. UnderWay' = UnderWay \ {o} BY <1>1, <1>9 DEF UnderWay
  <2>6. OpAtWork' BY <1>1, <1>9, <2>3 DEF ForgetInv, OpAtWork
  <2>7. DoneIsTold' BY <1>1, <1>9 DEF ForgetInv, DoneIsTold, ToldStays, TableOps
  <2> QED BY <2>3, <2>4, <2>5, <2>6, <2>7 DEF ForgetInv
<1>10. CASE UNCHANGED <<queueVars, step, lock>>
  <2>1. LockIsWanted' BY <1>3, <1>10
  <2>2. UnderWay' = UnderWay BY <1>10 DEF UnderWay
  <2>3. OpAtWork' BY <1>2, <1>10 DEF ForgetInv, OpAtWork
  <2>4. DoneIsTold' BY <1>1, <1>10 DEF ForgetInv, DoneIsTold, ToldStays
  <2> QED BY <1>2, <1>10, <2>1, <2>2, <2>3, <2>4 DEF ForgetInv
<1> QED BY <1>4, <1>5, <1>6, <1>7, <1>8, <1>9, <1>10 DEF OpGoes

LEMMA ForgetInvInit == Init => ForgetInv
<1> SUFFICES ASSUME Init PROVE ForgetInv OBVIOUS
<1> USE QueueAssumption, RequestsAssumption DEF Init, QueueInit, NodeInit, TableInit
<1>1. ToSet(jobs) = {} /\ ToSet(lock) = {} /\ Once(jobs) /\ Once(lock) BY DEF ToSet, Once
<1>2. InUse(jobs, running)
  <2>1. MayStart(jobs, running) = {} BY DEF MayStart
  <2> QED BY <1>1, <2>1, FS_EmptySet DEF InUse
<1>3. UnderWay = {} BY DEF UnderWay
<1>4. OpAtWork BY DEF OpAtWork
<1>5. LockIsWanted BY <1>1 DEF LockIsWanted
<1>6. DoneIsTold BY DEF DoneIsTold, TableOps
<1> QED BY <1>1, <1>2, <1>3, <1>4, <1>5, <1>6 DEF ForgetInv, QueueBusy

LEMMA ForgetInvStep ==
  FrameInv /\ TableInv /\ QueueInv /\ ForgetInv /\ [Next]_vars => ForgetInv'
<1> SUFFICES ASSUME FrameInv, TableInv, QueueInv, ForgetInv, [Next]_vars PROVE ForgetInv'
  OBVIOUS
<1>1. ASSUME UNCHANGED <<queueVars, phase, told, step, lock>> PROVE ForgetInv'
  BY <1>1 DEF queueVars, ForgetInv, QueueBusy, InUse, Once, MayStart, JobKey, ToSet, UnderWay,
              OpAtWork, LockIsWanted, DoneIsTold
<1>2. CASE UNCHANGED vars BY <1>1, <1>2 DEF vars, callerVars, nodeVars, tableVars
<1>3. CASE LoseRadio /\ UNCHANGED tableVars BY <1>1, <1>3 DEF LoseRadio, callerVars, tableVars
<1>4. ASSUME NEW r \in NodeCalls, NodeStep(r) \/ NodeEvent(r), UNCHANGED tableVars
      PROVE  ForgetInv'
  <2>1. ToldStays /\ \E q \in NodeCalls : NodeGoes(q) BY <1>4, NodeStepGoes
  <2> QED BY <1>4, <2>1, NodeForgets DEF tableVars
<1>5. ASSUME NEW o \in TableOps, OpStep(o) \/ OpEvent(o), UNCHANGED nodeVars PROVE ForgetInv'
  <2>1. ToldStays /\ OpGoes(o) BY <1>5, OpStepGoes DEF FrameInv, ForgetInv
  <2> QED BY <1>5, <2>1, OpForgets DEF nodeVars
<1> QED BY <1>2, <1>3, <1>4, <1>5 DEF Next, Progress, Event

\* For any requests, places and tags: a caller who has been told nothing still
\* has its job in the queue or its operation in the lock, no job keeps its
\* place beyond its end, no free place stands empty beside a job that may
\* run, and the lock's holder has its job or may queue it.
THEOREM NothingIsForgotten == Spec => []NobodyForgotten
<1>1. FrameInv /\ TableInv /\ QueueInv /\ ForgetInv /\ [Next]_vars => ForgetInv'
  BY ForgetInvStep
<1>2. TableInv /\ ForgetInv => NobodyForgotten BY ForgetNobody
<1> QED BY <1>1, <1>2, ForgetInvInit, FrameInvariance, TableInvariance, QueueInvariance,
           PTL DEF Spec

-----------------------------------------------------------------------------
(* Every request takes finitely many steps.  Its distance from its end is   *)
(* a bound on what it still has to do: no step of anybody's makes it        *)
(* greater, and every step of the adapter's makes one of them smaller.      *)

PhasesLeft == [idle |-> 8, queued |-> 6, dispatching |-> 4, awaiting |-> 2, done |-> 0]
StepsLeft == [idle |-> 16, waiting |-> 14, queued |-> 12, set |-> 10, move |-> 10,
              clear |-> 8, undo |-> 6, done |-> 0]

NodeDistance(r) == PhasesLeft[phase[r]] + (IF r \in Sends /\ sent[r] = "open" THEN 1 ELSE 0)
OpDistance(o) == StepsLeft[step[o]] + (IF o \in GroupCalls /\ told[o] = "nothing" THEN 1 ELSE 0)

NoneFarther == /\ \A r \in NodeCalls : NodeDistance(r)' <= NodeDistance(r)
               /\ \A o \in TableOps : OpDistance(o)' <= OpDistance(o)
OneCloser == \/ \E r \in NodeCalls : NodeDistance(r)' < NodeDistance(r)
             \/ \E o \in TableOps : OpDistance(o)' < OpDistance(o)

LEMMA Lefts ==
  /\ \A p \in {"idle", "queued", "dispatching", "awaiting", "done"} : PhasesLeft[p] \in Nat
  /\ \A w \in {"idle", "waiting", "queued", "set", "move", "clear", "undo", "done"} :
       StepsLeft[w] \in Nat
BY DEF PhasesLeft, StepsLeft

\* Steps of the one kind leave the other's distances as they are.
LEMMA OpsNoFarther ==
  ASSUME TableTyped, ToldStays, UNCHANGED step
  PROVE  \A o \in TableOps : OpDistance(o)' <= OpDistance(o)
<1> SUFFICES ASSUME NEW o \in TableOps PROVE OpDistance(o)' <= OpDistance(o) OBVIOUS
<1>1. StepsLeft[step[o]] \in Nat BY Lefts DEF TableTyped
<1>2. told'[o] = "nothing" => told[o] = "nothing"
  BY TableAssumption DEF ToldStays
<1> QED BY <1>1, <1>2 DEF OpDistance

LEMMA NodesNoFarther ==
  ASSUME NodeTypeOK, UNCHANGED <<phase, sent>>
  PROVE  \A r \in NodeCalls : NodeDistance(r)' <= NodeDistance(r)
<1> SUFFICES ASSUME NEW r \in NodeCalls PROVE NodeDistance(r)' <= NodeDistance(r) OBVIOUS
<1>1. PhasesLeft[phase[r]] \in Nat BY Lefts DEF NodeTypeOK
<1> QED BY <1>1 DEF NodeDistance

\* A promise that has settled is not open again.
Settling == \A s \in Sends : sent'[s] = "open" => sent[s] = "open"

LEMMA PhaseNearer ==
  ASSUME NodeTypeOK, NEW r \in NodeCalls, NEW p \in {"queued", "dispatching", "awaiting", "done"},
         PhasesLeft[p] + 2 <= PhasesLeft[phase[r]], phase' = [phase EXCEPT ![r] = p],
         \A s \in Sends \ {r} : sent'[s] = "open" => sent[s] = "open"
  PROVE  /\ \A q \in NodeCalls : NodeDistance(q)' <= NodeDistance(q)
         /\ NodeDistance(r)' < NodeDistance(r)
<1>1. \A q \in NodeCalls : PhasesLeft[phase[q]] \in Nat BY Lefts DEF NodeTypeOK
<1>2. PhasesLeft[p] \in Nat BY Lefts
<1>3. phase'[r] = p BY DEF NodeTypeOK
<1>4. NodeDistance(r)' < NodeDistance(r) BY <1>1, <1>2, <1>3 DEF NodeDistance
<1>5. ASSUME NEW q \in NodeCalls \ {r} PROVE NodeDistance(q)' <= NodeDistance(q)
  <2>1. phase'[q] = phase[q] BY DEF NodeTypeOK
  <2>2. q \in Sends /\ sent'[q] = "open" => sent[q] = "open" OBVIOUS
  <2> QED BY <1>1, <2>1, <2>2 DEF NodeDistance
<1>6. PhasesLeft[phase[r]] \in Nat BY <1>1
<1>7. NodeDistance(r)' <= NodeDistance(r) BY <1>2, <1>3, <1>6 DEF NodeDistance
<1> QED BY <1>4, <1>5, <1>7

LEMMA PromiseNearer ==
  ASSUME NodeTypeOK, UNCHANGED phase, Settling
  PROVE  /\ \A q \in NodeCalls : NodeDistance(q)' <= NodeDistance(q)
         /\ \A s \in Sends : sent[s] = "open" /\ sent'[s] # "open" =>
              NodeDistance(s)' < NodeDistance(s)
<1>1. \A q \in NodeCalls : PhasesLeft[phase[q]] \in Nat BY Lefts DEF NodeTypeOK
<1>2. ASSUME NEW q \in NodeCalls PROVE NodeDistance(q)' <= NodeDistance(q)
  <2>1. PhasesLeft[phase[q]] \in Nat BY <1>1
  <2> QED BY <2>1 DEF NodeDistance, Settling
<1>3. ASSUME NEW s \in Sends, sent[s] = "open", sent'[s] # "open"
      PROVE  NodeDistance(s)' < NodeDistance(s)
  <2>1. PhasesLeft[phase[s]] \in Nat BY <1>1 DEF NodeCalls
  <2> QED BY <1>3, <2>1 DEF NodeDistance
<1> QED BY <1>2, <1>3

LEMMA OpenIsNoOutcome == "open" \notin Outcomes BY DEF Outcomes

LEMMA NodeStepNearer ==
  ASSUME FrameInv, NEW r \in NodeCalls, NodeStep(r)
  PROVE  /\ \A q \in NodeCalls : NodeDistance(q)' <= NodeDistance(q)
         /\ \E q \in NodeCalls : NodeDistance(q)' < NodeDistance(q)
<1> USE DEF FrameInv
<1> DEFINE Goal == /\ \A q \in NodeCalls : NodeDistance(q)' <= NodeDistance(q)
                   /\ \E q \in NodeCalls : NodeDistance(q)' < NodeDistance(q)
<1>1. ASSUME NEW p \in {"queued", "dispatching", "awaiting", "done"},
             PhasesLeft[p] + 2 <= PhasesLeft[phase[r]], phase' = [phase EXCEPT ![r] = p],
             \A s \in Sends \ {r} : sent'[s] = "open" => sent[s] = "open"
      PROVE  Goal
  <2>1. /\ \A q \in NodeCalls : NodeDistance(q)' <= NodeDistance(q)
        /\ NodeDistance(r)' < NodeDistance(r)
    BY <1>1, PhaseNearer
  <2> QED BY <2>1
<1>2. CASE RefuseCancelled(r)
  <2>1. phase[r] = "queued" /\ phase' = [phase EXCEPT ![r] = "done"] /\ UNCHANGED sent
    BY <1>2 DEF RefuseCancelled, EndCall
  <2>2. PhasesLeft["done"] + 2 <= PhasesLeft[phase[r]] BY <2>1 DEF PhasesLeft
  <2> QED BY <1>1, <2>1, <2>2
<1>3. CASE Dispatched(r)
  <2>1. phase[r] = "dispatching" /\ phase' = [phase EXCEPT ![r] = "awaiting"] /\ UNCHANGED sent
    BY <1>3 DEF Dispatched
  <2>2. PhasesLeft["awaiting"] + 2 <= PhasesLeft[phase[r]] BY <2>1 DEF PhasesLeft
  <2> QED BY <1>1, <2>1, <2>2
<1>4. CASE r \in Sends /\ BeginSend(r)
  <2>1. phase[r] = "queued" /\ phase' = [phase EXCEPT ![r] = "dispatching"]
    BY <1>4 DEF BeginSend
  <2>2. \A s \in Sends \ {r} : sent'[s] = sent[s] BY <1>4 DEF BeginSend, NodeTypeOK
  <2>3. PhasesLeft["dispatching"] + 2 <= PhasesLeft[phase[r]] BY <2>1 DEF PhasesLeft
  <2> QED BY <1>1, <2>1, <2>2, <2>3
<1>5. CASE BeginZdo(r)
  <2>1. phase[r] = "queued" /\ phase' = [phase EXCEPT ![r] = "dispatching"] /\ UNCHANGED sent
    BY <1>5 DEF BeginZdo
  <2>2. PhasesLeft["dispatching"] + 2 <= PhasesLeft[phase[r]] BY <2>1 DEF PhasesLeft
  <2> QED BY <1>1, <2>1, <2>2
<1>6. CASE FailZdo(r) \/ ZdoTimer(r) \/ FinishSend(r)
  <2>1. /\ phase[r] \in {"dispatching", "awaiting"} /\ phase' = [phase EXCEPT ![r] = "done"]
        /\ UNCHANGED sent
    BY <1>6, DispatchFailure DEF FailZdo, ZdoTimer, FinishSend, EndCall
  <2>2. PhasesLeft["done"] + 2 <= PhasesLeft[phase[r]] BY <2>1 DEF PhasesLeft
  <2> QED BY <1>1, <2>1, <2>2
<1>7. CASE r \in Sends /\ FailSend(r)
  <2>1. PICK error \in DispatchErrors :
          /\ DispatchFails(r, error) /\ EndCall(r, Translate[error])
          /\ sent' = IF pending[tag[r]] = NoSend THEN sent
                      ELSE [sent EXCEPT ![pending[tag[r]]] = Translate[error]]
    BY <1>7 DEF FailSend
  <2>2. phase[r] = "dispatching" /\ phase' = [phase EXCEPT ![r] = "done"]
    BY <2>1, DispatchFailure DEF EndCall
  <2>3. Translate[error] # "open" BY Translated, OpenIsNoOutcome
  <2>4. \A s \in Sends : sent'[s] = "open" => sent[s] = "open"
    BY <2>1, <2>3 DEF NodeTypeOK
  <2>5. PhasesLeft["done"] + 2 <= PhasesLeft[phase[r]] BY <2>2 DEF PhasesLeft
  <2> QED BY <1>1, <2>2, <2>4, <2>5
<1>8. CASE r \in Sends /\ SendTimer(r)
  <2>1. sent[r] = "open" /\ sent' = [sent EXCEPT ![r] = "timeout"] /\ UNCHANGED phase
    BY <1>8 DEF SendTimer, GiveUpSend, Translate
  <2>2. Settling /\ sent'[r] # "open" BY <1>8, <2>1 DEF Settling, NodeTypeOK
  <2> QED BY <1>8, <2>1, <2>2, PromiseNearer
<1> QED BY <1>2, <1>3, <1>4, <1>5, <1>6, <1>7, <1>8 DEF NodeStep, SendStep, ZdoStep

LEMMA NodeEventNearer ==
  ASSUME FrameInv, NEW r \in NodeCalls, NodeEvent(r)
  PROVE  \A q \in NodeCalls : NodeDistance(q)' <= NodeDistance(q)
<1> USE DEF FrameInv
<1>1. CASE CallSend(r) \/ CallZdo(r)
  <2>1. phase[r] = "idle" /\ phase' = [phase EXCEPT ![r] = "queued"] /\ UNCHANGED sent
    BY <1>1 DEF CallSend, CallZdo, Enqueue
  <2>2. PhasesLeft["queued"] + 2 <= PhasesLeft[phase[r]] BY <2>1 DEF PhasesLeft
  <2> QED BY <2>1, <2>2, PhaseNearer
<1>2. CASE CancelSend(r)
  <2>1. UNCHANGED phase /\ (UNCHANGED sent \/ sent' = [sent EXCEPT ![r] = "aborted"])
    BY <1>2 DEF CancelSend, GiveUpSend, Translate
  <2>2. Settling BY <2>1 DEF Settling, NodeTypeOK
  <2> QED BY <2>1, <2>2, PromiseNearer
<1>3. CASE CancelZdo(r) BY <1>3, NodesNoFarther DEF CancelZdo
<1>4. ASSUME NEW t \in TagIds, NEW report \in {"delivered", "undelivered"},
             MessageSent(r, t, report)
      PROVE  \A q \in NodeCalls : NodeDistance(q)' <= NodeDistance(q)
  <2>1. /\ UNCHANGED phase
        /\ UNCHANGED sent \/ sent' = [sent EXCEPT ![pending[t]] = Translate[report]]
    BY <1>4 DEF MessageSent
  <2>2. Translate[report] # "open" BY DEF Translate
  <2>3. Settling BY <2>1, <2>2 DEF Settling, NodeTypeOK
  <2> QED BY <2>1, <2>3, PromiseNearer
<1>5. ASSUME NEW status \in DOMAIN AssertSuccess, r \in Zdos, ZdoResponse(r, status)
      PROVE  \A q \in NodeCalls : NodeDistance(q)' <= NodeDistance(q)
  <2>1. UNCHANGED sent BY <1>5 DEF ZdoResponse
  <2>2. \/ UNCHANGED phase
        \/ \E w \in Zdos : phase[w] = "awaiting" /\ phase' = [phase EXCEPT ![w] = "done"]
    BY <1>5 DEF ZdoResponse, EndCall
  <2>3. ASSUME NEW w \in Zdos, phase[w] = "awaiting", phase' = [phase EXCEPT ![w] = "done"]
        PROVE  \A q \in NodeCalls : NodeDistance(q)' <= NodeDistance(q)
    <3>1. w \in NodeCalls BY DEF NodeCalls
    <3>2. PhasesLeft["done"] + 2 <= PhasesLeft[phase[w]] BY <2>3 DEF PhasesLeft
    <3> QED BY <2>1, <2>3, <3>1, <3>2, PhaseNearer
  <2> QED BY <2>1, <2>2, <2>3, NodesNoFarther
<1> QED BY <1>1, <1>2, <1>3, <1>4, <1>5 DEF NodeEvent

LEMMA StepNearer ==
  ASSUME TableTyped, ToldStays, NEW o \in TableOps,
         NEW w \in {"waiting", "queued", "set", "move", "clear", "undo", "done"},
         StepsLeft[w] + 2 <= StepsLeft[step[o]], step' = [step EXCEPT ![o] = w]
  PROVE  /\ \A q \in TableOps : OpDistance(q)' <= OpDistance(q)
         /\ OpDistance(o)' < OpDistance(o)
<1>1. \A q \in TableOps : StepsLeft[step[q]] \in Nat BY Lefts DEF TableTyped
<1>2. StepsLeft[w] \in Nat /\ StepsLeft[step[o]] \in Nat BY <1>1, Lefts
<1>3. step'[o] = w BY DEF TableTyped
<1>4. OpDistance(o)' < OpDistance(o) /\ OpDistance(o)' <= OpDistance(o)
  BY <1>2, <1>3 DEF OpDistance
<1>5. ASSUME NEW q \in TableOps \ {o} PROVE OpDistance(q)' <= OpDistance(q)
  <2>1. step'[q] = step[q] BY DEF TableTyped
  <2>2. told'[q] = "nothing" => told[q] = "nothing" BY TableAssumption DEF ToldStays
  <2>3. StepsLeft[step[q]] \in Nat BY <1>1
  <2> QED BY <2>1, <2>2, <2>3 DEF OpDistance
<1> QED BY <1>4, <1>5

\* What an operation's step makes of how far it has come.
Advances(o) ==
  \E w \in {"waiting", "queued", "set", "move", "clear", "undo", "done"} :
    StepsLeft[w] + 2 <= StepsLeft[step[o]] /\ step' = [step EXCEPT ![o] = w]

LEMMA OpAdvances ==
  ASSUME TableInv, NEW o \in TableOps
  PROVE  /\ OpStep(o) => Advances(o) \/ (o \in GroupCalls /\ GroupTimer(o))
         /\ OpEvent(o) => Advances(o) \/ CancelGroup(o)
<1>1. ASSUME CallAdd(o) \/ CallRemove(o) \/ SeeMulticast(o) PROVE Advances(o)
  <2>1. PICK w \in {"waiting", "done"} : step' = [step EXCEPT ![o] = w]
    BY <1>1 DEF CallAdd, CallRemove, SeeMulticast, AwaitLock, ReturnAtOnce
  <2>2. step[o] = "idle" BY <1>1 DEF CallAdd, CallRemove, SeeMulticast
  <2>3. StepsLeft[w] + 2 <= StepsLeft[step[o]] BY <2>2 DEF StepsLeft
  <2> QED BY <2>1, <2>3 DEF Advances
<1>2. ASSUME TakeLockForCall(o) \/ TakeLockForSighting(o) PROVE Advances(o)
  <2>1. PICK w \in {"queued", "done"} : step' = [step EXCEPT ![o] = w]
    BY <1>2 DEF TakeLockForCall, TakeLockForSighting, TakeLock
  <2>2. step[o] = "waiting" BY <1>2 DEF TakeLockForCall, TakeLockForSighting, TakeLock
  <2>3. StepsLeft[w] + 2 <= StepsLeft[step[o]] BY <2>2 DEF StepsLeft
  <2> QED BY <2>1, <2>3 DEF Advances
<1>3. ASSUME BeginSighting(o) \/ BeginAdd(o) \/ BeginRemove(o) PROVE Advances(o)
  <2>1. PICK w \in {"set", "move", "clear", "done"} : step' = [step EXCEPT ![o] = w]
    BY <1>3 DEF BeginSighting, BeginAdd, BeginRemove, EndOp
  <2>2. step[o] = "queued" BY <1>3 DEF BeginSighting, BeginAdd, BeginRemove, JobMayBegin
  <2>3. StepsLeft[w] + 2 <= StepsLeft[step[o]] BY <2>2 DEF StepsLeft
  <2> QED BY <2>1, <2>3 DEF Advances
<1>4. ASSUME SetEntry(o) \/ SetSightedEntry(o) \/ UndoMove(o) PROVE Advances(o)
  <2>1. step[o] \in {"set", "undo"} /\ step' = [step EXCEPT ![o] = "done"]
    BY <1>4 DEF SetEntry, SetSightedEntry, UndoMove, EndOp
  <2>2. StepsLeft["done"] + 2 <= StepsLeft[step[o]] BY <2>1 DEF StepsLeft
  <2> QED BY <2>1, <2>2 DEF Advances
<1>5. ASSUME MoveLast(o) PROVE Advances(o)
  <2>1. PICK w \in {"clear", "done"} : step' = [step EXCEPT ![o] = w]
    BY <1>5 DEF MoveLast, EndOp
  <2>2. step[o] = "move" BY <1>5 DEF MoveLast
  <2>3. StepsLeft[w] + 2 <= StepsLeft[step[o]] BY <2>2 DEF StepsLeft
  <2> QED BY <2>1, <2>3 DEF Advances
<1>6. ASSUME ClearLast(o) PROVE Advances(o)
  <2>1. PICK w \in {"undo", "done"} : step' = [step EXCEPT ![o] = w]
    BY <1>6 DEF ClearLast, EndOp
  <2>2. step[o] = "clear" BY <1>6 DEF ClearLast
  <2>3. StepsLeft[w] + 2 <= StepsLeft[step[o]] BY <2>2 DEF StepsLeft
  <2> QED BY <2>1, <2>3 DEF Advances
<1> QED BY <1>1, <1>2, <1>3, <1>4, <1>5, <1>6 DEF OpStep, OpEvent

LEMMA OpNearer ==
  ASSUME FrameInv, TableInv, ForgetInv, NEW o \in TableOps, OpStep(o) \/ OpEvent(o)
  PROVE  /\ \A q \in TableOps : OpDistance(q)' <= OpDistance(q)
         /\ OpStep(o) => OpDistance(o)' < OpDistance(o)
<1>1. ToldStays BY OpStepGoes DEF FrameInv, ForgetInv
<1>2. TableTyped BY DEF TableInv
<1>3. CASE Advances(o)
  <2>1. PICK w \in {"waiting", "queued", "set", "move", "clear", "undo", "done"} :
          StepsLeft[w] + 2 <= StepsLeft[step[o]] /\ step' = [step EXCEPT ![o] = w]
    BY <1>3 DEF Advances
  <2> QED BY <1>1, <1>2, <2>1, StepNearer
<1>4. CASE o \in GroupCalls /\ GroupTimer(o)
  <2>1. told[o] = "nothing" /\ Tell(o, "timeout") /\ UNCHANGED step
    BY <1>4 DEF GroupTimer, tableVars
  <2>2. told'[o] # "nothing" BY <2>1, TableAssumption DEF FrameInv, ToldTypeOK, Tell
  <2>3. StepsLeft[step[o]] \in Nat BY <1>2, Lefts DEF TableTyped
  <2>4. OpDistance(o)' < OpDistance(o) BY <1>4, <2>1, <2>2, <2>3 DEF OpDistance
  <2> QED BY <1>1, <1>2, <2>1, <2>4, OpsNoFarther
<1>5. CASE CancelGroup(o) /\ ~OpStep(o)
  <2>1. UNCHANGED step BY <1>5 DEF CancelGroup, tableVars
  <2> QED BY <1>1, <1>2, <1>5, <2>1, OpsNoFarther
<1> QED BY <1>3, <1>4, <1>5, OpAdvances

\* Every request, of whatever kind and however many there are, takes finitely
\* many steps: no step of the callers, the mesh or the radio puts one farther
\* from its end, and every step of the adapter's brings one closer.  When the
\* requests are finitely many, fairness to all the adapter's steps together is
\* thereby fairness to each of them.
THEOREM EveryStepGetsCloser == Spec => [][NoneFarther /\ (Progress => OneCloser)]_vars
<1> DEFINE Inv == FrameInv /\ TableInv /\ QueueInv /\ ForgetInv
           Approach == NoneFarther /\ (Progress => OneCloser)
<1>1. Inv /\ [Next]_vars => [Approach]_vars
  <2> SUFFICES ASSUME Inv, Next PROVE Approach BY DEF Approach
  <2>1. NodeTypeOK /\ TableTyped BY DEF FrameInv, TableInv
  <2>2. ASSUME NEW r \in NodeCalls, NodeStep(r) \/ NodeEvent(r), UNCHANGED tableVars
        PROVE  /\ NoneFarther
               /\ NodeStep(r) => OneCloser
    <3>1. ToldStays BY <2>2, NodeStepGoes
    <3>2. \A o \in TableOps : OpDistance(o)' <= OpDistance(o)
      BY <2>1, <2>2, <3>1, OpsNoFarther DEF tableVars
    <3> QED BY <2>2, <3>2, NodeStepNearer, NodeEventNearer DEF NoneFarther, OneCloser
  <2>3. ASSUME NEW o \in TableOps, OpStep(o) \/ OpEvent(o), UNCHANGED nodeVars
        PROVE  /\ NoneFarther
               /\ OpStep(o) => OneCloser
    <3>1. \A r \in NodeCalls : NodeDistance(r)' <= NodeDistance(r)
      BY <2>1, <2>3, NodesNoFarther DEF nodeVars
    <3> QED BY <2>3, <3>1, OpNearer DEF NoneFarther, OneCloser
  <2>4. ASSUME LoseRadio, UNCHANGED tableVars PROVE NoneFarther
    <3>1. PICK error \in {"ezspDown", "ezspTimeout"} : RejectPendingSends(Translate[error])
      BY <2>4 DEF LoseRadio
    <3>2. Translate[error] # "open" BY DEF Translate
    <3>3. Settling BY <3>1, <3>2 DEF RejectPendingSends, Settling
    <3>4. \A r \in NodeCalls : NodeDistance(r)' <= NodeDistance(r)
      BY <2>1, <2>4, <3>3, PromiseNearer DEF LoseRadio
    <3>5. ToldStays BY <2>4 DEF LoseRadio, callerVars, ToldStays
    <3> QED BY <2>1, <2>4, <3>4, <3>5, OpsNoFarther DEF NoneFarther, tableVars
  <2>5. NoneFarther BY <2>2, <2>3, <2>4 DEF Next, Progress, Event
  <2>6. Progress => OneCloser BY <2>2, <2>3 DEF Progress
  <2> QED BY <2>5, <2>6
<1>2. Init => Inv BY FrameInvInit, TableInvInit, QueueInvInit, ForgetInvInit
<1>3. Inv /\ [Next]_vars => Inv'
  BY FrameInvStep, TableInvStep, QueueInvStep, ForgetInvStep DEF FrameInv
<1> QED BY <1>1, <1>2, <1>3, PTL DEF Spec

\* A request that has something to do and waits for nobody.
MayMove(r) ==
  \/ /\ r \in NodeCalls
     /\ \/ phase[r] = "queued" /\ r \in running
        \/ phase[r] \in {"dispatching", "awaiting"}
  \/ /\ r \in TableOps
     /\ \/ step[r] = "waiting" /\ Head(lock) = r
        \/ step[r] = "queued" /\ r \in running
        \/ step[r] \in {"set", "move", "clear", "undo"}

\* The queue and the multicast lock never block each other: as long as a job
\* or an operation is left, some request waits for no other, be it behind a
\* place, a key or the lock.
THEOREM SomebodyMayMove ==
  Spec => [](jobs # <<>> \/ lock # <<>> => \E r \in NodeCalls \cup TableOps : MayMove(r))
<1>1. FrameInv /\ TableInv /\ QueueInv /\ ForgetInv =>
        (jobs # <<>> \/ lock # <<>> => \E r \in NodeCalls \cup TableOps : MayMove(r))
  <2> SUFFICES ASSUME FrameInv, TableInv, QueueInv, ForgetInv, jobs # <<>> \/ lock # <<>>
               PROVE  \E r \in NodeCalls \cup TableOps : MayMove(r)
    OBVIOUS
  <2>1. CASE ToSet(jobs) # {}
    <3>1. PICK j : j \in ToSet(jobs) BY <2>1
    <3>2. running # {}
      <4>1. SUFFICES ASSUME running = {} PROVE FALSE OBVIOUS
      <4>2. Cardinality(running) = 0 BY <4>1, FS_EmptySet
      <4>3. MayStart(jobs, running) = {}
        BY <4>2, QueueAssumption DEF ForgetInv, QueueBusy, InUse
      <4>4. Barred(j, running) BY <3>1, <4>3, StartableJobs DEF QueueInv
      <4> QED BY <4>1, <4>4 DEF Barred
    <3>3. PICK r : r \in running BY <3>2
    <3>4. r \in UnderWay BY <3>3 DEF ForgetInv, QueueBusy, InUse
    <3>5. CASE r \in NodeCalls /\ phase[r] \notin {"idle", "done"}
      <4>1. phase[r] \in {"queued", "dispatching", "awaiting"}
        BY <3>5 DEF FrameInv, NodeTypeOK
      <4> QED BY <3>3, <3>5, <4>1 DEF MayMove
    <3>6. CASE r \in TableOps /\ step[r] \notin {"idle", "waiting", "done"}
      <4>1. step[r] \in {"queued", "set", "move", "clear", "undo"}
        BY <3>6 DEF TableInv, TableTyped
      <4> QED BY <3>3, <3>6, <4>1 DEF MayMove
    <3> QED BY <3>4, <3>5, <3>6 DEF UnderWay
  <2>2. CASE ToSet(jobs) = {}
    <3>1. jobs = <<>>
      <4>1. Len(jobs) \in Nat /\ \A i \in 1 .. Len(jobs) : FALSE
        BY <2>2, Members DEF QueueInv
      <4>2. Len(jobs) = 0 BY <4>1
      <4> QED BY <4>2, EmptySeq DEF QueueInv
    <3>2. lock # <<>> /\ UnderWay = {} BY <2>2, <3>1 DEF ForgetInv
    <3>3. step[Head(lock)] = "waiting" BY <3>2, ForgetNobody DEF NobodyForgotten
    <3>4. Head(lock) \in TableOps BY <3>2, HeadTailProperties DEF TableInv, TableTyped
    <3> DEFINE o == Head(lock)
    <3>5. o \in TableOps /\ step[o] = "waiting" /\ Head(lock) = o BY <3>3, <3>4
    <3> HIDE DEF o
    <3>6. MayMove(o) BY <3>5 DEF MayMove
    <3> QED BY <3>5, <3>6
  <2> QED BY <2>1, <2>2
<1>2. FrameInv /\ TableInv /\ QueueInv /\ ForgetInv /\ [Next]_vars => ForgetInv'
  BY ForgetInvStep
<1> QED BY <1>1, <1>2, ForgetInvInit, FrameInvariance, TableInvariance, QueueInvariance,
           PTL DEF Spec

=============================================================================
