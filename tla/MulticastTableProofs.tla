------------------------ MODULE MulticastTableProofs ------------------------
(***************************************************************************)
(* Theorems about the multicast table within EmberRequests, for all sizes  *)
(* of the NCP's table, all groups and any number of operations.            *)
(***************************************************************************)
EXTENDS EmberRequestsProofs, SequenceTheorems, TLAPS

Active == {"queued", "set", "move", "clear", "undo"}

TableTyped ==
  /\ step \in [TableOps -> {"idle", "waiting", "queued", "set", "move", "clear", "undo", "done"}]
  /\ lock \in Seq(TableOps)
  /\ table \in Seq(Groups)
  /\ entries \in [Indices -> Groups \cup {Empty}]
  /\ at \in [TableOps -> Nat]
  /\ doubt \in BOOLEAN

\* Only the holder of the lock is at work.
HolderActs == \A o \in TableOps : step[o] \in Active => lock # <<>> /\ Head(lock) = o

\* Calls to remove a protected group have returned at once.
Unprotected ==
  \A o \in Removes : step[o] \notin {"idle", "done"} => GroupOf[o] \notin Protected

\* A sighting's group is the last of the host's array, ahead of the NCP.
Ahead(o) == o \in Sightings /\ step[o] \in {"queued", "set"}

\* The last group has taken the place of the one to be removed.
HalfMoved(o) == step[o] \in {"clear", "undo"}

AddShape ==
  \A o \in TableOps : step[o] = "set" =>
    \/ o \in Adds /\ at[o] = Len(table) + 1 /\ ~Bound(GroupOf[o])
    \/ o \in Sightings

SightShape ==
  \A o \in TableOps : Ahead(o) =>
    /\ Len(table) \in 1 .. Size + 1 /\ at[o] = Len(table)
    /\ table[Len(table)] = GroupOf[o]

RemoveShape ==
  \A o \in TableOps : step[o] \in {"move", "clear", "undo"} =>
    /\ o \in Removes
    /\ at[o] \in 1 .. Len(table) /\ table[at[o]] = GroupOf[o]
    /\ step[o] # "clear" => at[o] # Len(table)

\* Apart from a sighting's group the host's array fits into the NCP's table.
Room == (\A o \in TableOps : ~Ahead(o)) => Len(table) <= Size

\* What the NCP's table holds, as long as every command's effect is known.
Content ==
  ~doubt =>
    /\ (\A o \in TableOps : ~Ahead(o) /\ ~HalfMoved(o)) => entries = Mirror(table)
    /\ \A o \in TableOps : Ahead(o) => entries = Mirror(Front(table))
    /\ \A o \in TableOps : HalfMoved(o) =>
         entries = [Mirror(table) EXCEPT ![at[o]] = table[Len(table)]]

TableInv == /\ TableTyped /\ HolderActs /\ Unprotected /\ GroupsOnce
            /\ AddShape /\ SightShape /\ RemoveShape /\ Room /\ Content

-----------------------------------------------------------------------------
(* Sequences. *)

LEMMA FrontIsPrefix ==
  ASSUME NEW S, NEW s \in Seq(S), s # <<>>
  PROVE  /\ Front(s) \in Seq(S) /\ Len(Front(s)) = Len(s) - 1
         /\ \A i \in 1 .. Len(s) - 1 : Front(s)[i] = s[i]
<1>1. Len(s) \in Nat /\ Len(s) >= 1 /\ \A i \in 1 .. Len(s) - 1 : s[i] \in S
  BY LenProperties, ElementOfSeq, EmptySeq
<1> DEFINE n == Len(s) - 1
<1>2. n \in Nat /\ n \in Int /\ 1 \in Int /\ \A i \in 1 .. n : s[i] \in S BY <1>1
<1>3. /\ SubSeq(s, 1, n) \in Seq(S)
      /\ Len(SubSeq(s, 1, n)) = IF 1 <= n THEN n - 1 + 1 ELSE 0
      /\ \A i \in 1 .. n - 1 + 1 : SubSeq(s, 1, n)[i] = s[1 + i - 1]
  BY <1>2, SubSeqProperties
<1> HIDE DEF n
<1>4. n - 1 + 1 = n /\ \A i \in 1 .. n : 1 + i - 1 = i BY <1>2
<1>5. (IF 1 <= n THEN n - 1 + 1 ELSE 0) = n BY <1>2, <1>4
<1> QED BY <1>3, <1>4, <1>5 DEF Front, n

LEMMA RemoveAtLast ==
  ASSUME NEW S, NEW s \in Seq(S), s # <<>>
  PROVE  RemoveAt(s, Len(s)) = Front(s)
<1>1. SubSeq(s, Len(s) + 1, Len(s)) = <<>> BY SubSeqEmpty, LenProperties
<1>2. RemoveAt(s, Len(s)) = Front(s) \o <<>> BY <1>1 DEF RemoveAt, Front
<1>3. Front(s) \in Seq(S) BY FrontIsPrefix
<1> QED BY <1>2, <1>3, ConcatEmptySeq

LEMMA AppendMember ==
  ASSUME NEW S, NEW s \in Seq(S), NEW x \in S
  PROVE  /\ Append(s, x) \in Seq(S) /\ Len(Append(s, x)) = Len(s) + 1
         /\ Append(s, x)[Len(s) + 1] = x
         /\ \A i \in 1 .. Len(s) : Append(s, x)[i] = s[i]
         /\ Front(Append(s, x)) = s
<1>1. /\ Append(s, x) \in Seq(S) /\ Len(Append(s, x)) = Len(s) + 1
      /\ Append(s, x)[Len(s) + 1] = x
      /\ \A i \in 1 .. Len(s) : Append(s, x)[i] = s[i]
  BY AppendProperties
<1>2. Front(Append(s, x)) = s
  <2>1. Append(s, x) # <<>> /\ Len(s) \in Nat BY AppendProperties, LenProperties
  <2> DEFINE a == Append(s, x)
  <2>2. a \in Seq(S) /\ Len(a) - 1 = Len(s) BY <1>1, <2>1
  <2>3. \A i \in 1 .. Len(s) : a[i] = s[i] BY <1>1
  <2> HIDE DEF a
  <2>4. /\ Front(a) \in Seq(S) /\ Len(Front(a)) = Len(a) - 1
        /\ \A i \in 1 .. Len(a) - 1 : Front(a)[i] = a[i]
    BY <2>1, <2>2, FrontIsPrefix DEF a
  <2>5. Len(Front(a)) = Len(s) /\ \A i \in 1 .. Len(s) : Front(a)[i] = s[i]
    BY <2>2, <2>3, <2>4
  <2>6. Front(a) = s BY <2>4, <2>5, SeqEqual
  <2> QED BY <2>6 DEF a
<1> QED BY <1>1, <1>2

LEMMA Found ==
  ASSUME NEW g, Bound(g), table \in Seq(Groups), GroupsOnce
  PROVE  LET i == SelectInSeq(table, LAMBDA h : h = g)
         IN i \in 1 .. Len(table) /\ table[i] = g
<1> DEFINE I == {i \in 1 .. Len(table) : table[i] = g}
<1>1. DOMAIN table = 1 .. Len(table) /\ Len(table) \in Nat BY LenProperties
<1>2. PICK i \in 1 .. Len(table) : table[i] = g BY <1>1 DEF Bound, ToSet
<1>3. I = {i} BY <1>1, <1>2 DEF GroupsOnce
<1>4. Min(I) = i BY <1>1, <1>2, <1>3 DEF Min
<1>5. SelectInSeq(table, LAMBDA h : h = g) = i BY <1>3, <1>4 DEF SelectInSeq
<1> QED BY <1>2, <1>5

LEMMA MirrorType ==
  ASSUME NEW t \in Seq(Groups)
  PROVE  Mirror(t) \in [Indices -> Groups \cup {Empty}]
<1>1. \A i \in 1 .. Len(t) : t[i] \in Groups BY ElementOfSeq
<1> QED BY <1>1 DEF Mirror, Indices

LEMMA MirrorEqual ==
  ASSUME NEW t, NEW e \in [Indices -> Groups \cup {Empty}],
         \A i \in Indices : e[i] = IF i <= Len(t) THEN t[i] ELSE Empty
  PROVE  e = Mirror(t)
BY DEF Mirror

LEMMA MirrorAt ==
  ASSUME NEW t, NEW i \in Indices
  PROVE  Mirror(t)[i] = IF i <= Len(t) THEN t[i] ELSE Empty
BY DEF Mirror

-----------------------------------------------------------------------------
(* The lock. *)

LEMMA Alone ==
  ASSUME TableInv, NEW o \in TableOps, Head(lock) = o
  PROVE  \A q \in TableOps \ {o} : step[q] \notin Active
BY DEF TableInv, HolderActs

\* Nobody is at work: what is left to show.
Quiet == /\ TableTyped /\ Unprotected /\ GroupsOnce
         /\ \A o \in TableOps : step[o] \notin Active
         /\ Len(table) <= Size
         /\ ~doubt => entries = Mirror(table)

LEMMA QuietIsFine == Quiet => TableInv
BY DEF Quiet, TableInv, HolderActs, AddShape, SightShape, RemoveShape, Room, Content, Ahead,
       HalfMoved, Active

LEMMA TableInvInit == Init => TableInv
<1> SUFFICES ASSUME Init PROVE Quiet BY QuietIsFine
<1> USE TableAssumption DEF Init, TableInit
<1>1. TableTyped
  <2>1. entries \in [Indices -> Groups \cup {Empty}] BY MirrorType
  <2>2. table \in Seq(Groups) /\ lock \in Seq(TableOps) OBVIOUS
  <2>3. at \in [TableOps -> Nat] OBVIOUS
  <2> QED BY <2>1, <2>2, <2>3 DEF TableTyped
<1>2. Unprotected BY DEF Unprotected, TableOps, GroupCalls
<1>3. GroupsOnce BY DEF GroupsOnce
<1>4. \A o \in TableOps : step[o] \notin Active BY DEF Active
<1>5. Len(table) <= Size OBVIOUS
<1> QED BY <1>1, <1>2, <1>3, <1>4, <1>5 DEF Quiet

\* Nobody begins, goes on with or ends work on the table.
LEMMA SameWorkKeeps ==
  ASSUME TableInv, UNCHANGED <<table, entries, at, doubt>>,
         step' \in [TableOps -> {"idle", "waiting", "queued", "set", "move", "clear", "undo",
                                 "done"}],
         lock' \in Seq(TableOps),
         \A q \in TableOps : step'[q] # step[q] => step[q] \notin Active /\ step'[q] \notin Active,
         HolderActs', Unprotected'
  PROVE  TableInv'
<1> USE DEF TableInv
<1>1. TableTyped' BY DEF TableTyped
<1>2. GroupsOnce' BY DEF GroupsOnce
<1>3. \A q \in TableOps : /\ Ahead(q)' <=> Ahead(q)
                          /\ HalfMoved(q)' <=> HalfMoved(q)
                          /\ step'[q] = "set" <=> step[q] = "set"
                          /\ step'[q] = "move" <=> step[q] = "move"
                          /\ step'[q] = "clear" <=> step[q] = "clear"
                          /\ step'[q] = "undo" <=> step[q] = "undo"
  BY DEF Ahead, HalfMoved, Active
<1>4. AddShape' BY <1>3 DEF AddShape, Bound
<1>5. SightShape' BY <1>3 DEF SightShape
<1>6. RemoveShape' BY <1>3 DEF RemoveShape
<1>7. Room' BY <1>3 DEF Room
<1>8. Content' BY <1>3 DEF Content, Mirror
<1> QED BY <1>1, <1>2, <1>4, <1>5, <1>6, <1>7, <1>8

LEMMA OpCallKeeps ==
  ASSUME TableInv, NEW o \in TableOps,
         \/ o \in Adds /\ CallAdd(o)
         \/ o \in Removes /\ CallRemove(o)
         \/ o \in Sightings /\ SeeMulticast(o)
  PROVE  TableInv'
<1> USE TableAssumption
<1>1. step[o] = "idle" /\ UNCHANGED <<table, entries, at, doubt>>
  BY DEF CallAdd, CallRemove, SeeMulticast
<1>2. PICK w \in {"waiting", "done"} :
        /\ step' = [step EXCEPT ![o] = w]
        /\ w = "done" => lock' = lock
        /\ w = "waiting" => /\ lock' = Append(lock, o)
                            /\ o \in Removes => GroupOf[o] \notin Protected
  <2>1. CASE o \in Adds /\ CallAdd(o) BY <2>1 DEF CallAdd, ReturnAtOnce, AwaitLock
  <2>2. CASE o \in Removes /\ CallRemove(o) BY <2>2 DEF CallRemove, ReturnAtOnce, AwaitLock
  <2>3. CASE o \in Sightings /\ SeeMulticast(o) BY <2>3 DEF SeeMulticast, AwaitLock
  <2> QED BY <2>1, <2>2, <2>3
<1>3. step' \in [TableOps -> {"idle", "waiting", "queued", "set", "move", "clear", "undo", "done"}]
  BY <1>2 DEF TableInv, TableTyped
<1>4. lock \in Seq(TableOps) BY DEF TableInv, TableTyped
<1>5. lock' \in Seq(TableOps)
  <2>1. Append(lock, o) \in Seq(TableOps) BY <1>4, AppendProperties
  <2> QED BY <1>2, <1>4, <2>1
<1>6. \A q \in TableOps : step'[q] # step[q] => step[q] \notin Active /\ step'[q] \notin Active
  BY <1>1, <1>2 DEF TableInv, TableTyped, Active
<1>7. HolderActs'
  <2>1. lock # <<>> => lock' # <<>> /\ Head(lock') = Head(lock)
    BY <1>2, <1>4, AppendProperties, HeadTailAppend
  <2> QED BY <1>6, <2>1 DEF TableInv, HolderActs
<1>8. Unprotected' BY <1>1, <1>2 DEF TableInv, TableTyped, Unprotected, TableOps, GroupCalls
<1> QED BY <1>1, <1>3, <1>5, <1>6, <1>7, <1>8, SameWorkKeeps

-----------------------------------------------------------------------------
(* Taking the lock. *)

\* Before somebody takes the lock nobody is at work.
LEMMA WasQuiet ==
  ASSUME TableInv, NEW o \in TableOps, Head(lock) = o, step[o] = "waiting" PROVE Quiet
<1>1. \A q \in TableOps : step[q] \notin Active BY Alone DEF Active
<1>2. \A q \in TableOps : ~Ahead(q) /\ ~HalfMoved(q) BY <1>1 DEF Ahead, HalfMoved, Active
<1> QED BY <1>1, <1>2 DEF TableInv, Quiet, Room, Content

LEMMA TakeLockKeeps ==
  ASSUME TableInv, NEW o \in TableOps,
         (o \in GroupCalls /\ TakeLockForCall(o)) \/ (o \in Sightings /\ TakeLockForSighting(o))
  PROVE  TableInv'
<1> USE TableAssumption
<1>1. lock # <<>> /\ Head(lock) = o /\ step[o] = "waiting"
  BY DEF TakeLockForCall, TakeLockForSighting, TakeLock
<1>2. Quiet BY <1>1, WasQuiet
<1> USE DEF Quiet
<1>3. UNCHANGED <<entries, doubt>> BY DEF TakeLockForCall, TakeLockForSighting
<1>4. Unprotected'
  <2>1. \E w \in {"queued", "done"} : step' = [step EXCEPT ![o] = w]
    BY DEF TakeLockForCall, TakeLockForSighting, TakeLock
  <2>2. \A q \in TableOps : step'[q] # step[q] => q = o
    BY <1>2, <2>1 DEF TableTyped
  <2> QED BY <1>1, <1>2, <2>2 DEF Unprotected, TableOps, GroupCalls
<1>5. CASE o \in Sightings /\ Bound(GroupOf[o])
  <2>1. /\ step' = [step EXCEPT ![o] = "done"] /\ lock' = Tail(lock)
        /\ UNCHANGED <<table, at>>
    BY <1>5 DEF TakeLockForSighting, TakeLockForCall, TableOps, GroupCalls
  <2>2. lock' \in Seq(TableOps) BY <1>1, <1>2, <2>1, HeadTailProperties DEF TableTyped
  <2>3. \A q \in TableOps : step'[q] \notin Active BY <1>2, <2>1 DEF TableTyped, Active
  <2>4. TableTyped' BY <1>2, <1>3, <2>1, <2>2 DEF TableTyped
  <2>5. Quiet' BY <1>2, <1>3, <1>4, <2>1, <2>3, <2>4 DEF GroupsOnce, Mirror
  <2> QED BY <2>3, <2>4, <2>5, <1>4 DEF TableInv, HolderActs, AddShape, SightShape, RemoveShape,
                                     Room, Content, Ahead, HalfMoved, Active
<1>6. CASE o \in Sightings /\ ~Bound(GroupOf[o])
  <2>1. /\ step' = [step EXCEPT ![o] = "queued"]
        /\ table' = Append(table, GroupOf[o])
        /\ at' = [at EXCEPT ![o] = Len(table) + 1]
        /\ UNCHANGED lock
    BY <1>6 DEF TakeLockForSighting, TakeLockForCall, TakeLock, TableOps, GroupCalls, LastIndex
  <2>2. table \in Seq(Groups) /\ GroupOf[o] \in Groups /\ Len(table) \in Nat
    BY <1>2, LenProperties DEF TableTyped, Groups
  <2>3. /\ table' \in Seq(Groups) /\ Len(table') = Len(table) + 1
        /\ table'[Len(table) + 1] = GroupOf[o]
        /\ \A i \in 1 .. Len(table) : table'[i] = table[i]
        /\ Front(table') = table
    BY <2>1, <2>2, AppendMember
  <2>4. \A q \in TableOps : step'[q] \in Active => q = o /\ step'[q] = "queued"
    BY <1>2, <2>1 DEF TableTyped, Active
  <2>5. TableTyped' BY <1>2, <1>3, <2>1, <2>2, <2>3 DEF TableTyped
  <2>6. HolderActs' BY <1>1, <2>1, <2>4 DEF HolderActs
  <2>7. GroupsOnce'
    <3>1. \A i \in 1 .. Len(table) : table[i] # GroupOf[o]
      BY <1>6, <2>2, LenProperties DEF Bound, ToSet
    <3>2. DOMAIN table = 1 .. Len(table) /\ DOMAIN table' = 1 .. Len(table) + 1
      BY <2>2, <2>3, LenProperties
    <3> QED BY <1>2, <2>2, <2>3, <3>1, <3>2 DEF GroupsOnce
  <2>8. AddShape' /\ RemoveShape' BY <2>4 DEF AddShape, RemoveShape, Active
  <2>9. SightShape'
    <3>1. at'[o] = Len(table) + 1 BY <1>2, <2>1 DEF TableTyped
    <3>2. Len(table') \in 1 .. Size + 1 BY <1>2, <2>2, <2>3
    <3> QED BY <2>3, <2>4, <3>1, <3>2 DEF SightShape, Ahead, Active
  <2>10. step'[o] = "queued" BY <1>2, <2>1 DEF TableTyped
  <2>11. Room' BY <1>6, <2>10 DEF Room, Ahead
  <2>12. Content'
    <3>1. ~doubt => entries' = Mirror(table) BY <1>2, <1>3
    <3>2. \A q \in TableOps : ~HalfMoved(q)' BY <2>4 DEF HalfMoved, Active
    <3>3. ~(\A q \in TableOps : ~Ahead(q)') BY <1>6, <2>10 DEF Ahead
    <3> QED BY <1>3, <2>3, <3>1, <3>2, <3>3 DEF Content
  <2> QED BY <1>4, <2>5, <2>6, <2>7, <2>8, <2>9, <2>11, <2>12 DEF TableInv
<1>7. CASE o \in GroupCalls
  <2>1. step' = [step EXCEPT ![o] = "queued"] /\ UNCHANGED <<lock, table, at>>
    BY <1>7 DEF TakeLockForSighting, TakeLockForCall, TakeLock, GroupCalls
  <2>2. \A q \in TableOps : step'[q] \in Active => q = o /\ step'[q] = "queued" /\ q \notin Sightings
    BY <1>2, <1>7, <2>1 DEF TableTyped, Active, GroupCalls
  <2>3. TableTyped' BY <1>2, <1>3, <2>1 DEF TableTyped
  <2>4. HolderActs' BY <1>1, <2>1, <2>2 DEF HolderActs
  <2>5. GroupsOnce' BY <1>2, <2>1 DEF GroupsOnce
  <2>6. AddShape' /\ RemoveShape' BY <2>2 DEF AddShape, RemoveShape, Active
  <2>7. \A q \in TableOps : ~Ahead(q)' /\ ~HalfMoved(q)' BY <2>2 DEF Ahead, HalfMoved, Active
  <2>8. SightShape' /\ Room' BY <1>2, <2>1, <2>7 DEF SightShape, Room
  <2>9. Content' BY <1>2, <1>3, <2>1, <2>7 DEF Content, Mirror
  <2> QED BY <1>4, <2>3, <2>4, <2>5, <2>6, <2>8, <2>9 DEF TableInv
<1> QED BY <1>5, <1>6, <1>7

-----------------------------------------------------------------------------
(* Commands to the NCP. *)

LEMMA EntryWritten ==
  ASSUME TableTyped, NEW index \in Nat, NEW group \in Groups \cup {Empty},
         NEW answer \in Answers, WriteEntry(index, group, answer)
  PROVE  /\ entries' \in [Indices -> Groups \cup {Empty}]
         /\ answer = "ok" => index \in Indices /\ entries' = [entries EXCEPT ![index] = group]
         /\ answer = "refused" => entries' = entries
BY DEF TableTyped, WriteEntry, Answers

\* The holder of the lock ends, and with it all work on the table.
LEMMA EndOpEffect ==
  ASSUME TableInv, NEW o \in TableOps, step[o] \in Active, NEW outcome, EndOp(o, outcome)
  PROVE  /\ step' \in [TableOps -> {"idle", "waiting", "queued", "set", "move", "clear", "undo",
                                    "done"}]
         /\ lock' \in Seq(TableOps)
         /\ \A q \in TableOps : step'[q] \notin Active
         /\ Unprotected'
<1> USE DEF TableInv, TableTyped
<1>1. lock # <<>> /\ Head(lock) = o BY DEF HolderActs
<1>2. step' = [step EXCEPT ![o] = "done"] /\ lock' = Tail(lock) BY DEF EndOp
<1>3. lock' \in Seq(TableOps) BY <1>1, <1>2, HeadTailProperties
<1>4. \A q \in TableOps \ {o} : step[q] \notin Active BY <1>1, Alone
<1>5. \A q \in TableOps : step'[q] \notin Active BY <1>2, <1>4 DEF Active
<1>6. \A q \in TableOps : step'[q] = step[q] \/ step'[q] = "done" BY <1>2
<1>7. Unprotected' BY <1>6, TableAssumption DEF Unprotected, TableOps, GroupCalls
<1> QED BY <1>2, <1>3, <1>5, <1>7

\* When the work ends with the NCP's table as the host's array, or in doubt.
LEMMA EndKeeps ==
  ASSUME TableInv, NEW o \in TableOps, step[o] \in Active, NEW outcome, EndOp(o, outcome),
         at' = at, table' \in Seq(Groups), entries' \in [Indices -> Groups \cup {Empty}],
         doubt' \in BOOLEAN, GroupsOnce', Len(table') <= Size,
         ~doubt' => entries' = Mirror(table')
  PROVE  TableInv'
<1>1. /\ step' \in [TableOps -> {"idle", "waiting", "queued", "set", "move", "clear", "undo",
                                 "done"}]
      /\ lock' \in Seq(TableOps)
      /\ \A q \in TableOps : step'[q] \notin Active
      /\ Unprotected'
  BY EndOpEffect
<1>2. TableTyped' BY <1>1 DEF TableInv, TableTyped
<1>3. HolderActs' BY <1>1 DEF HolderActs
<1>4. AddShape' /\ SightShape' /\ RemoveShape'
  BY <1>1 DEF AddShape, SightShape, RemoveShape, Ahead, Active
<1>5. \A q \in TableOps : ~Ahead(q)' /\ ~HalfMoved(q)' BY <1>1 DEF Ahead, HalfMoved, Active
<1>6. Room' BY DEF Room
<1>7. Content' BY <1>5 DEF Content, Mirror
<1> QED BY <1>1, <1>2, <1>3, <1>4, <1>6, <1>7 DEF TableInv

\* The holder's work goes on.
LEMMA OnlyHolder ==
  ASSUME TableInv, NEW o \in TableOps, step[o] \in Active, NEW w \in Active,
         step' = [step EXCEPT ![o] = w], UNCHANGED lock
  PROVE  /\ step' \in [TableOps -> {"idle", "waiting", "queued", "set", "move", "clear", "undo",
                                    "done"}]
         /\ step'[o] = w /\ \A q \in TableOps : step'[q] \in Active => q = o
         /\ HolderActs' /\ Unprotected'
<1> USE DEF TableInv, TableTyped
<1>1. lock # <<>> /\ Head(lock) = o BY DEF HolderActs
<1>2. \A q \in TableOps \ {o} : step[q] \notin Active BY <1>1, Alone
<1>3. step'[o] = w /\ \A q \in TableOps : step'[q] \in Active => q = o BY <1>2
<1>4. HolderActs' BY <1>1, <1>3 DEF HolderActs
<1>5. \A q \in TableOps : step'[q] # step[q] => q = o OBVIOUS
<1>6. Unprotected' BY <1>5, TableAssumption DEF Unprotected, Active, TableOps, GroupCalls
<1> QED BY <1>3, <1>4, <1>6 DEF Active

\* What the holder finds.
LEMMA HolderFinds ==
  ASSUME TableInv, NEW o \in TableOps, step[o] \in Active
  PROVE  /\ ~Ahead(o) => Len(table) <= Size
         /\ ~Ahead(o) /\ ~HalfMoved(o) /\ ~doubt => entries = Mirror(table)
         /\ table \in Seq(Groups) /\ Len(table) \in Nat /\ GroupOf[o] \in Groups
         /\ \A i \in 1 .. Len(table) : table[i] \in Groups
         /\ DOMAIN table = 1 .. Len(table)
<1> USE DEF TableInv
<1>1. Head(lock) = o BY DEF HolderActs
<1>2. \A q \in TableOps \ {o} : step[q] \notin Active BY <1>1, Alone
<1>3. \A q \in TableOps \ {o} : ~Ahead(q) /\ ~HalfMoved(q) BY <1>2 DEF Ahead, HalfMoved, Active
<1>4. table \in Seq(Groups) BY DEF TableTyped
<1>5. Len(table) \in Nat /\ DOMAIN table = 1 .. Len(table) BY <1>4, LenProperties
<1>6. \A i \in 1 .. Len(table) : table[i] \in Groups BY <1>4, ElementOfSeq
<1> QED BY <1>3, <1>4, <1>5, <1>6 DEF Room, Content, Groups

LEMMA OpBeginKeeps ==
  ASSUME TableInv, NEW o \in TableOps,
         \/ o \in Sightings /\ BeginSighting(o)
         \/ o \in Adds /\ BeginAdd(o)
         \/ o \in Removes /\ BeginRemove(o)
  PROVE  TableInv'
<1> USE TableAssumption
<1>1. step[o] = "queued" /\ UNCHANGED <<table, entries, doubt>>
  BY DEF BeginSighting, BeginAdd, BeginRemove, JobMayBegin
<1>2. step[o] \in Active /\ ~HalfMoved(o) BY <1>1 DEF Active, HalfMoved
<1>3. /\ ~Ahead(o) => Len(table) <= Size
      /\ ~Ahead(o) /\ ~HalfMoved(o) /\ ~doubt => entries = Mirror(table)
      /\ table \in Seq(Groups) /\ Len(table) \in Nat
  BY <1>2, HolderFinds
<1>4. GroupsOnce' /\ ~doubt' = ~doubt BY <1>1 DEF TableInv, GroupsOnce
<1>5. ASSUME NEW outcome, EndOp(o, outcome), UNCHANGED at, o \notin Sightings PROVE TableInv'
  <2>1. ~Ahead(o) BY <1>5 DEF Ahead
  <2>2. ~doubt' => entries' = Mirror(table') BY <1>1, <1>2, <1>3, <2>1 DEF Mirror
  <2>3. /\ entries' \in [Indices -> Groups \cup {Empty}] /\ doubt' \in BOOLEAN
        /\ table' \in Seq(Groups) /\ Len(table') <= Size
    BY <1>1, <1>3, <2>1 DEF TableInv, TableTyped
  <2> QED BY <1>2, <1>4, <1>5, <2>2, <2>3, EndKeeps
<1>6. ASSUME NEW w \in {"set", "move", "clear"}, step' = [step EXCEPT ![o] = w],
             UNCHANGED lock, NEW i \in Nat, at' = [at EXCEPT ![o] = i],
             AddShape', SightShape', RemoveShape', Room', Content'
      PROVE  TableInv'
  <2>1. /\ step' \in [TableOps -> {"idle", "waiting", "queued", "set", "move", "clear", "undo",
                                   "done"}]
        /\ HolderActs' /\ Unprotected'
    BY <1>2, <1>6, OnlyHolder DEF Active
  <2>2. TableTyped' BY <1>1, <1>6, <2>1 DEF TableInv, TableTyped
  <2> QED BY <1>4, <1>6, <2>1, <2>2 DEF TableInv
<1>7. CASE o \in Sightings /\ BeginSighting(o)
  <2>1. step' = [step EXCEPT ![o] = "set"] /\ UNCHANGED <<lock, at>>
    BY <1>7 DEF BeginSighting
  <2>2. /\ step' \in [TableOps -> {"idle", "waiting", "queued", "set", "move", "clear", "undo",
                                   "done"}]
        /\ step'[o] = "set" /\ \A q \in TableOps : step'[q] \in Active => q = o
        /\ HolderActs' /\ Unprotected'
    BY <1>2, <2>1, OnlyHolder DEF Active
  <2>3. TableTyped' BY <1>1, <2>1, <2>2 DEF TableInv, TableTyped
  <2>4. AddShape' /\ RemoveShape' BY <1>7, <2>2 DEF AddShape, RemoveShape, Active
  <2>5. Ahead(o) /\ Ahead(o)' BY <1>1, <1>7, <2>2 DEF Ahead
  <2>6. SightShape' BY <1>1, <2>1, <2>2, <2>5 DEF TableInv, SightShape, Ahead, Active
  <2>7. Room' BY <2>5 DEF Room
  <2>8. \A q \in TableOps : HalfMoved(q)' => FALSE BY <2>2 DEF HalfMoved, Active
  <2>9. Content' BY <1>1, <2>5, <2>8 DEF TableInv, Content, Mirror, Front
  <2> QED BY <1>4, <2>2, <2>3, <2>4, <2>6, <2>7, <2>9 DEF TableInv
<1>8. CASE o \in Adds /\ BeginAdd(o)
  <2>1. CASE \E outcome : EndOp(o, outcome) /\ UNCHANGED at BY <1>5, <1>8, <2>1
  <2>2. CASE /\ ~Bound(GroupOf[o]) /\ step' = [step EXCEPT ![o] = "set"]
             /\ at' = [at EXCEPT ![o] = LastIndex + 1] /\ UNCHANGED lock
    <3>1. step'[o] = "set" /\ \A q \in TableOps : step'[q] \in Active => q = o
      BY <1>2, <2>2, OnlyHolder DEF Active
    <3>2. ~Ahead(o) /\ \A q \in TableOps : ~Ahead(q)' /\ ~HalfMoved(q)'
      BY <1>8, <3>1 DEF Ahead, HalfMoved, Active
    <3>3. at'[o] = Len(table) + 1 BY <2>2 DEF TableInv, TableTyped, LastIndex
    <3>4. AddShape' BY <1>1, <1>8, <2>2, <3>1, <3>3 DEF AddShape, Active, Bound
    <3>5. SightShape' /\ RemoveShape' BY <3>1, <3>2 DEF SightShape, RemoveShape, Active
    <3>6. Room' /\ Content' BY <1>1, <1>2, <1>3, <3>2 DEF Room, Content, Mirror
    <3>7. LastIndex + 1 \in Nat BY <1>3 DEF LastIndex
    <3> QED BY <1>6, <2>2, <3>4, <3>5, <3>6, <3>7
  <2> QED BY <1>8, <2>1, <2>2 DEF BeginAdd
<1>9. CASE o \in Removes /\ BeginRemove(o)
  <2> DEFINE i == SelectInSeq(table, LAMBDA g : g = GroupOf[o])
  <2>1. CASE \E outcome : EndOp(o, outcome) /\ UNCHANGED at BY <1>5, <1>9, <2>1
  <2>2. CASE /\ Bound(GroupOf[o]) /\ at' = [at EXCEPT ![o] = i] /\ UNCHANGED lock
             /\ step' = [step EXCEPT ![o] = IF i # LastIndex THEN "move" ELSE "clear"]
    <3> DEFINE w == IF i # LastIndex THEN "move" ELSE "clear"
    <3>1. i \in 1 .. Len(table) /\ table[i] = GroupOf[o] BY <1>3, <2>2, Found DEF TableInv
    <3> HIDE DEF i
    <3>2. w \in {"move", "clear"} /\ (w = "clear" <=> i = Len(table)) BY DEF LastIndex
    <3>3. step' = [step EXCEPT ![o] = w] BY <2>2
    <3> HIDE DEF w
    <3>4. step'[o] = w /\ \A q \in TableOps : step'[q] \in Active => q = o
      BY <1>2, <2>2, <3>2, <3>3, OnlyHolder DEF Active
    <3>5. ~Ahead(o) /\ \A q \in TableOps : ~Ahead(q)'
      BY <1>9, <3>2, <3>4 DEF Ahead, Active
    <3>6. at'[o] = i /\ i \in Nat BY <1>3, <2>2, <3>1 DEF TableInv, TableTyped
    <3>7. AddShape' BY <3>2, <3>4 DEF AddShape, Active
    <3>8. SightShape' BY <3>5 DEF SightShape
    <3>9. RemoveShape'
      BY <1>1, <1>9, <3>1, <3>2, <3>4, <3>6 DEF RemoveShape, Active
    <3>10. Room' BY <1>1, <1>3, <3>5 DEF Room
    <3>11. ~doubt => entries = Mirror(table) BY <1>2, <1>3, <3>5
    <3>12. HalfMoved(o)' => i = Len(table) BY <3>2, <3>4 DEF HalfMoved
    <3>13. \A q \in TableOps : HalfMoved(q)' => q = o BY <3>4 DEF HalfMoved, Active
    <3>14. i = Len(table) => [Mirror(table) EXCEPT ![i] = table[Len(table)]] = Mirror(table)
      <4> DEFINE M == Mirror(table)
      <4>1. M = [x \in Indices |-> M[x]] BY DEF Mirror
      <4>2. ASSUME i = Len(table), i \in Indices PROVE M[i] = table[Len(table)]
        BY <1>3, <4>2, MirrorAt
      <4> HIDE DEF M
      <4>3. i = Len(table) => [M EXCEPT ![i] = table[Len(table)]] = M BY <4>1, <4>2
      <4> QED BY <4>3 DEF M
    <3>15. Content'
      BY <1>1, <3>5, <3>6, <3>11, <3>12, <3>13, <3>14 DEF Content, Mirror
    <3> QED BY <1>6, <2>2, <3>2, <3>3, <3>6, <3>7, <3>8, <3>9, <3>10, <3>15
  <2> QED BY <1>9, <2>1, <2>2 DEF BeginRemove
<1> QED BY <1>7, <1>8, <1>9

LEMMA SetKeeps ==
  ASSUME TableInv, NEW o \in TableOps, SetEntry(o) PROVE TableInv'
<1> USE TableAssumption
<1>1. PICK answer \in Answers :
        /\ WriteEntry(at[o], GroupOf[o], answer)
        /\ doubt' = (doubt \/ answer = "lost")
        /\ EndOp(o, IF answer = "ok" THEN "ok" ELSE "failed")
        /\ table' = IF answer = "ok" THEN Append(table, GroupOf[o]) ELSE table
  BY DEF SetEntry
<1>2. step[o] = "set" /\ o \in Adds /\ at' = at BY DEF SetEntry
<1>3. step[o] \in Active /\ ~Ahead(o) /\ ~HalfMoved(o)
  BY <1>2 DEF Active, Ahead, HalfMoved
<1>4. /\ Len(table) <= Size /\ (~doubt => entries = Mirror(table))
      /\ table \in Seq(Groups) /\ Len(table) \in Nat /\ GroupOf[o] \in Groups
      /\ DOMAIN table = 1 .. Len(table)
  BY <1>3, HolderFinds
<1>5. at[o] = Len(table) + 1 /\ ~Bound(GroupOf[o]) BY <1>2 DEF TableInv, AddShape
<1>6. /\ entries' \in [Indices -> Groups \cup {Empty}]
      /\ answer = "ok" => at[o] \in Indices /\ entries' = [entries EXCEPT ![at[o]] = GroupOf[o]]
      /\ answer = "refused" => entries' = entries
  BY <1>1, <1>4, <1>5, EntryWritten DEF TableInv
<1>7. doubt' \in BOOLEAN BY <1>1 DEF TableInv, TableTyped
<1>8. CASE answer = "ok"
  <2>1. /\ table' \in Seq(Groups) /\ Len(table') = Len(table) + 1
        /\ table'[Len(table) + 1] = GroupOf[o]
        /\ \A i \in 1 .. Len(table) : table'[i] = table[i]
    BY <1>1, <1>4, <1>8, AppendMember
  <2>2. Len(table') <= Size BY <1>4, <1>5, <1>6, <1>8, <2>1 DEF Indices
  <2>3. GroupsOnce'
    <3>1. \A i \in 1 .. Len(table) : table[i] # GroupOf[o] BY <1>4, <1>5 DEF Bound, ToSet
    <3>2. DOMAIN table' = 1 .. Len(table) + 1 BY <2>1, LenProperties
    <3> QED BY <1>4, <2>1, <3>1, <3>2 DEF TableInv, GroupsOnce
  <2>4. ~doubt' => entries' = Mirror(table')
    <3> SUFFICES ASSUME ~doubt', NEW i \in Indices
                 PROVE  entries'[i] = IF i <= Len(table') THEN table'[i] ELSE Empty
      BY <1>6, MirrorEqual
    <3>1. entries[i] = IF i <= Len(table) THEN table[i] ELSE Empty BY <1>1, <1>4, MirrorAt
    <3>2. CASE i = Len(table) + 1
      BY <1>5, <1>6, <1>8, <2>1, <3>2 DEF TableInv, TableTyped
    <3>3. CASE i # Len(table) + 1
      <4>1. entries'[i] = entries[i] BY <1>5, <1>6, <1>8, <3>3 DEF TableInv, TableTyped
      <4>2. i \in Nat /\ i >= 1 /\ (i <= Len(table') <=> i <= Len(table))
        BY <1>4, <2>1, <3>3 DEF Indices
      <4> QED BY <1>4, <2>1, <3>1, <4>1, <4>2
    <3> QED BY <3>2, <3>3
  <2> QED BY <1>1, <1>2, <1>3, <1>6, <1>7, <2>1, <2>2, <2>3, <2>4, EndKeeps
<1>9. CASE answer # "ok"
  <2>1. table' = table BY <1>1, <1>9
  <2>2. GroupsOnce' BY <2>1 DEF TableInv, GroupsOnce
  <2>3. ~doubt' => entries' = Mirror(table') BY <1>1, <1>4, <1>6, <1>9, <2>1 DEF Mirror, Answers
  <2> QED BY <1>1, <1>2, <1>3, <1>4, <1>6, <1>7, <2>1, <2>2, <2>3, EndKeeps
<1> QED BY <1>8, <1>9

LEMMA SetSightedKeeps ==
  ASSUME TableInv, NEW o \in TableOps, SetSightedEntry(o) PROVE TableInv'
<1> USE TableAssumption
<1>1. PICK answer \in Answers :
        /\ WriteEntry(at[o], GroupOf[o], answer)
        /\ doubt' = (doubt \/ answer = "lost")
        /\ EndOp(o, "ok")
        /\ table' = IF answer = "ok" THEN table ELSE RemoveAt(table, at[o])
  BY DEF SetSightedEntry
<1>2. step[o] = "set" /\ o \in Sightings /\ at' = at BY DEF SetSightedEntry
<1>3. step[o] \in Active /\ Ahead(o) BY <1>2 DEF Active, Ahead
<1>4. /\ table \in Seq(Groups) /\ Len(table) \in Nat /\ GroupOf[o] \in Groups
      /\ \A i \in 1 .. Len(table) : table[i] \in Groups
      /\ DOMAIN table = 1 .. Len(table)
  BY <1>3, HolderFinds
<1>5. /\ Len(table) \in 1 .. Size + 1 /\ at[o] = Len(table) /\ table[Len(table)] = GroupOf[o]
      /\ ~doubt => entries = Mirror(Front(table))
  BY <1>3 DEF TableInv, SightShape, Content
<1>6. /\ entries' \in [Indices -> Groups \cup {Empty}]
      /\ answer = "ok" => at[o] \in Indices /\ entries' = [entries EXCEPT ![at[o]] = GroupOf[o]]
      /\ answer = "refused" => entries' = entries
  BY <1>1, <1>4, <1>5, EntryWritten DEF TableInv
<1>7. doubt' \in BOOLEAN BY <1>1 DEF TableInv, TableTyped
<1>8. /\ Front(table) \in Seq(Groups) /\ Len(Front(table)) = Len(table) - 1
      /\ \A i \in 1 .. Len(table) - 1 : Front(table)[i] = table[i]
      /\ RemoveAt(table, at[o]) = Front(table)
  <2>1. table # <<>> BY <1>5, EmptySeq
  <2> QED BY <1>4, <1>5, <2>1, FrontIsPrefix, RemoveAtLast
<1>9. CASE answer = "ok"
  <2>1. table' = table /\ Len(table) <= Size BY <1>1, <1>4, <1>5, <1>6, <1>9 DEF Indices
  <2>2. GroupsOnce' BY <2>1 DEF TableInv, GroupsOnce
  <2>3. ~doubt' => entries' = Mirror(table')
    <3> SUFFICES ASSUME ~doubt', NEW i \in Indices
                 PROVE  entries'[i] = IF i <= Len(table') THEN table'[i] ELSE Empty
      BY <1>6, MirrorEqual
    <3>1. entries[i] = IF i <= Len(table) - 1 THEN Front(table)[i] ELSE Empty
      <4>1. ~doubt BY <1>1
      <4>2. entries = Mirror(Front(table)) BY <1>5, <4>1
      <4>3. Mirror(Front(table))[i] = IF i <= Len(Front(table)) THEN Front(table)[i] ELSE Empty
        BY MirrorAt
      <4> QED BY <1>8, <4>2, <4>3
    <3>2. CASE i = Len(table)
      BY <1>4, <1>5, <1>6, <1>9, <2>1, <3>2 DEF TableInv, TableTyped
    <3>3. CASE i # Len(table)
      <4>1. entries'[i] = entries[i] BY <1>5, <1>6, <1>9, <3>3 DEF TableInv, TableTyped
      <4>2. i \in Nat /\ i >= 1 BY DEF Indices
      <4>3. Len(table) \in Nat BY <1>4
      <4>4. i <= Len(table) <=> i <= Len(table) - 1 BY <3>3, <4>2, <4>3
      <4>5. i <= Len(table) => i \in 1 .. Len(table) - 1 BY <4>2, <4>3, <4>4
      <4> QED BY <1>8, <2>1, <3>1, <4>1, <4>4, <4>5
    <3> QED BY <3>2, <3>3
  <2> QED BY <1>1, <1>2, <1>3, <1>4, <1>6, <1>7, <2>1, <2>2, <2>3, EndKeeps
<1>10. CASE answer # "ok"
  <2>1. table' = Front(table) BY <1>1, <1>8, <1>10
  <2>2. Len(table') <= Size BY <1>4, <1>5, <1>8, <2>1
  <2>3. GroupsOnce'
    <3>1. DOMAIN table' = 1 .. Len(table) - 1 BY <1>8, <2>1, LenProperties
    <3>2. \A x \in DOMAIN table' : x \in DOMAIN table /\ table'[x] = table[x]
      BY <1>4, <1>8, <2>1, <3>1
    <3>3. GroupsOnce BY DEF TableInv
    <3> QED BY <3>2, <3>3 DEF GroupsOnce
  <2>4. ~doubt' => entries' = Mirror(table')
    BY <1>1, <1>5, <1>6, <1>10, <2>1 DEF Mirror, Answers
  <2> QED BY <1>1, <1>2, <1>3, <1>6, <1>7, <1>8, <2>1, <2>2, <2>3, <2>4, EndKeeps
<1> QED BY <1>9, <1>10

LEMMA MoveKeeps ==
  ASSUME TableInv, NEW o \in TableOps, MoveLast(o) PROVE TableInv'
<1> USE TableAssumption
<1>1. PICK answer \in Answers :
        /\ WriteEntry(at[o], table[LastIndex], answer)
        /\ doubt' = (doubt \/ answer = "lost")
        /\ IF answer = "ok"
             THEN /\ step' = [step EXCEPT ![o] = "clear"]
                  /\ UNCHANGED <<queueVars, told, lock>>
             ELSE EndOp(o, "failed")
  BY DEF MoveLast
<1>2. step[o] = "move" /\ UNCHANGED <<table, at>> BY DEF MoveLast
<1>3. step[o] \in Active /\ ~HalfMoved(o) BY <1>2 DEF Active, HalfMoved
<1>4. o \in Removes /\ at[o] \in 1 .. Len(table) /\ table[at[o]] = GroupOf[o]
      /\ at[o] # Len(table)
  BY <1>2 DEF TableInv, RemoveShape
<1>5. ~Ahead(o) BY <1>2 DEF Ahead
<1>6. /\ Len(table) <= Size /\ (~doubt => entries = Mirror(table))
      /\ table \in Seq(Groups) /\ Len(table) \in Nat
      /\ \A i \in 1 .. Len(table) : table[i] \in Groups
  BY <1>3, <1>5, HolderFinds
<1>7. table[LastIndex] \in Groups /\ at[o] \in Nat BY <1>4, <1>6 DEF LastIndex
<1>8. /\ entries' \in [Indices -> Groups \cup {Empty}]
      /\ answer = "ok" => entries' = [entries EXCEPT ![at[o]] = table[LastIndex]]
      /\ answer = "refused" => entries' = entries
  BY <1>1, <1>7, EntryWritten DEF TableInv
<1>9. doubt' \in BOOLEAN /\ GroupsOnce' BY <1>1, <1>2 DEF TableInv, TableTyped, GroupsOnce
<1>10. CASE answer = "ok"
  <2>1. /\ step' \in [TableOps -> {"idle", "waiting", "queued", "set", "move", "clear", "undo",
                                   "done"}]
        /\ step'[o] = "clear" /\ \A q \in TableOps : step'[q] \in Active => q = o
        /\ HolderActs' /\ Unprotected'
    BY <1>1, <1>3, <1>10, OnlyHolder DEF Active
  <2>2. TableTyped' BY <1>1, <1>2, <1>8, <1>9, <1>10, <2>1 DEF TableInv, TableTyped
  <2>3. \A q \in TableOps : ~Ahead(q)' BY <2>1 DEF Ahead, Active
  <2>4. AddShape' /\ SightShape' BY <2>1, <2>3 DEF AddShape, SightShape, Active
  <2>5. RemoveShape' BY <1>2, <1>4, <2>1 DEF RemoveShape, Active
  <2>6. Room' BY <1>2, <1>6 DEF Room
  <2>7. Content'
    <3>1. ~doubt' => entries' = [Mirror(table) EXCEPT ![at[o]] = table[Len(table)]]
      BY <1>1, <1>6, <1>8, <1>10 DEF LastIndex
    <3>2. HalfMoved(o)' BY <2>1 DEF HalfMoved
    <3>3. \A q \in TableOps : HalfMoved(q)' => q = o BY <2>1 DEF HalfMoved, Active
    <3> QED BY <1>2, <2>3, <3>1, <3>2, <3>3 DEF Content, Mirror
  <2> QED BY <1>9, <2>1, <2>2, <2>4, <2>5, <2>6, <2>7 DEF TableInv
<1>11. CASE answer # "ok"
  <2>1. EndOp(o, "failed") BY <1>1, <1>11
  <2>2. ~doubt' => entries' = Mirror(table') BY <1>1, <1>2, <1>6, <1>8, <1>11 DEF Mirror, Answers
  <2> QED BY <1>2, <1>3, <1>6, <1>8, <1>9, <2>1, <2>2, EndKeeps
<1> QED BY <1>10, <1>11

LEMMA UndoKeeps ==
  ASSUME TableInv, NEW o \in TableOps, UndoMove(o) PROVE TableInv'
<1> USE TableAssumption
<1>1. PICK answer \in Answers : /\ WriteEntry(at[o], GroupOf[o], answer)
                                /\ doubt' = (doubt \/ answer # "ok")
  BY DEF UndoMove
<1>2. step[o] = "undo" /\ EndOp(o, "failed") /\ UNCHANGED <<table, at>> BY DEF UndoMove
<1>3. step[o] \in Active /\ HalfMoved(o) /\ ~Ahead(o) BY <1>2 DEF Active, HalfMoved, Ahead
<1>4. at[o] \in 1 .. Len(table) /\ table[at[o]] = GroupOf[o]
  BY <1>2 DEF TableInv, RemoveShape
<1>5. /\ Len(table) <= Size /\ table \in Seq(Groups) /\ Len(table) \in Nat
      /\ GroupOf[o] \in Groups
  BY <1>3, HolderFinds
<1>6. ~doubt => entries = [Mirror(table) EXCEPT ![at[o]] = table[Len(table)]]
  BY <1>3 DEF TableInv, Content
<1>7. /\ entries' \in [Indices -> Groups \cup {Empty}]
      /\ answer = "ok" => entries' = [entries EXCEPT ![at[o]] = GroupOf[o]]
  BY <1>1, <1>4, <1>5, EntryWritten DEF TableInv
<1>8. doubt' \in BOOLEAN /\ GroupsOnce' BY <1>1, <1>2 DEF TableInv, TableTyped, GroupsOnce
<1>9. ~doubt' => entries' = Mirror(table')
  <2> SUFFICES ASSUME ~doubt', NEW i \in Indices
               PROVE  entries'[i] = IF i <= Len(table) THEN table[i] ELSE Empty
    BY <1>2, <1>7, MirrorEqual
  <2>1. entries' = [entries EXCEPT ![at[o]] = GroupOf[o]] /\ ~doubt BY <1>1, <1>7
  <2>2. CASE i = at[o] BY <1>4, <1>5, <2>1, <2>2 DEF TableInv, TableTyped
  <2>3. CASE i # at[o]
    <3>1. entries'[i] = entries[i] BY <2>1, <2>3 DEF TableInv, TableTyped
    <3>2. entries[i] = Mirror(table)[i] BY <1>6, <2>1, <2>3 DEF Mirror
    <3> QED BY <3>1, <3>2, MirrorAt
  <2> QED BY <2>2, <2>3
<1> QED BY <1>2, <1>3, <1>5, <1>7, <1>8, <1>9, EndKeeps

\* The host's array after a removal.
LEMMA Compacted ==
  ASSUME TableInv, NEW k \in 1 .. Len(table)
  PROVE  LET t == Front([table EXCEPT ![k] = table[Len(table)]])
         IN /\ t \in Seq(Groups) /\ Len(t) = Len(table) - 1
            /\ \A i \in 1 .. Len(table) - 1 : t[i] = IF i = k THEN table[Len(table)] ELSE table[i]
            /\ \A i, j \in DOMAIN t : t[i] = t[j] => i = j
<1> DEFINE moved == [table EXCEPT ![k] = table[Len(table)]]
           n == Len(table)
<1>1. table \in Seq(Groups) BY DEF TableInv, TableTyped
<1>2. n \in Nat /\ DOMAIN table = 1 .. n /\ \A i \in 1 .. n : table[i] \in Groups
  BY <1>1, LenProperties, ElementOfSeq
<1>3. n \in 1 .. n /\ k \in 1 .. n BY <1>2
<1>4. moved \in Seq(Groups) /\ Len(moved) = n
  BY <1>1, <1>2, <1>3, ExceptSeq
<1>5. \A i \in 1 .. n : moved[i] = IF i = k THEN table[n] ELSE table[i] BY <1>2
<1> HIDE DEF moved
<1>6. moved # <<>> BY <1>2, <1>3, <1>4, EmptySeq
<1>7. /\ Front(moved) \in Seq(Groups) /\ Len(Front(moved)) = Len(moved) - 1
      /\ \A i \in 1 .. Len(moved) - 1 : Front(moved)[i] = moved[i]
  BY <1>4, <1>6, FrontIsPrefix
<1>8. \A i \in 1 .. n - 1 : Front(moved)[i] = IF i = k THEN table[n] ELSE table[i]
  BY <1>2, <1>4, <1>5, <1>7
<1>9. DOMAIN Front(moved) = 1 .. n - 1 BY <1>4, <1>7, LenProperties
<1>10. \A i, j \in 1 .. n : table[i] = table[j] => i = j
  BY <1>2 DEF TableInv, GroupsOnce
<1>11. \A i, j \in 1 .. n - 1 : Front(moved)[i] = Front(moved)[j] => i = j
  BY <1>2, <1>3, <1>8, <1>10
<1> QED BY <1>4, <1>7, <1>8, <1>9, <1>11 DEF moved

LEMMA ClearKeeps ==
  ASSUME TableInv, NEW o \in TableOps, ClearLast(o) PROVE TableInv'
<1> USE TableAssumption
<1>1. PICK answer \in Answers :
        /\ WriteEntry(LastIndex, Empty, answer)
        /\ doubt' = (doubt \/ answer = "lost")
        /\ IF answer = "refused" /\ at[o] # LastIndex
             THEN /\ step' = [step EXCEPT ![o] = "undo"]
                  /\ UNCHANGED <<queueVars, told, lock>>
             ELSE EndOp(o, IF answer = "ok" THEN "ok" ELSE "failed")
        /\ table' = IF answer = "ok"
                      THEN Front([table EXCEPT ![at[o]] = table[LastIndex]])
                      ELSE table
  BY DEF ClearLast
<1>2. step[o] = "clear" /\ at' = at BY DEF ClearLast
<1>3. step[o] \in Active /\ HalfMoved(o) /\ ~Ahead(o) BY <1>2 DEF Active, HalfMoved, Ahead
<1>4. o \in Removes /\ at[o] \in 1 .. Len(table) /\ table[at[o]] = GroupOf[o]
  BY <1>2 DEF TableInv, RemoveShape
<1>5. /\ Len(table) <= Size /\ table \in Seq(Groups) /\ Len(table) \in Nat
      /\ LastIndex = Len(table)
  BY <1>3, HolderFinds DEF LastIndex
<1>6. ~doubt => entries = [Mirror(table) EXCEPT ![at[o]] = table[Len(table)]]
  BY <1>3 DEF TableInv, Content
<1>7. /\ entries' \in [Indices -> Groups \cup {Empty}]
      /\ answer = "ok" => /\ Len(table) \in Indices
                          /\ entries' = [entries EXCEPT ![Len(table)] = Empty]
      /\ answer = "refused" => entries' = entries
  BY <1>1, <1>5, EntryWritten DEF TableInv
<1>8. doubt' \in BOOLEAN BY <1>1 DEF TableInv, TableTyped
<1>9. CASE answer = "ok"
  <2>1. /\ table' \in Seq(Groups) /\ Len(table') = Len(table) - 1
        /\ \A i \in 1 .. Len(table) - 1 :
             table'[i] = IF i = at[o] THEN table[Len(table)] ELSE table[i]
        /\ \A i, j \in DOMAIN table' : table'[i] = table'[j] => i = j
    <3> DEFINE t == Front([table EXCEPT ![at[o]] = table[Len(table)]])
    <3>1. /\ t \in Seq(Groups) /\ Len(t) = Len(table) - 1
          /\ \A i \in 1 .. Len(table) - 1 : t[i] = IF i = at[o] THEN table[Len(table)] ELSE table[i]
          /\ \A i, j \in DOMAIN t : t[i] = t[j] => i = j
      BY <1>4, Compacted
    <3>2. table' = t BY <1>1, <1>5, <1>9
    <3> QED BY <3>1, <3>2
  <2>2. GroupsOnce' BY <2>1 DEF GroupsOnce
  <2>3. Len(table') <= Size BY <1>5, <2>1
  <2>4. ~doubt' => entries' = Mirror(table')
    <3> SUFFICES ASSUME ~doubt', NEW i \in Indices
                 PROVE  entries'[i] = IF i <= Len(table') THEN table'[i] ELSE Empty
      BY <1>7, MirrorEqual
    <3> DEFINE n == Len(table)
    <3>1. ~doubt BY <1>1
    <3>2. entries = [Mirror(table) EXCEPT ![at[o]] = table[n]] BY <1>6, <3>1
    <3>3. Mirror(table)[i] = IF i <= n THEN table[i] ELSE Empty BY MirrorAt
    <3>4. i \in Nat /\ i >= 1 /\ n \in Nat BY <1>5 DEF Indices
    <3>5. entries[i] = IF i = at[o] THEN table[n] ELSE Mirror(table)[i]
      BY <3>2 DEF Mirror
    <3>6. entries'[i] = IF i = n THEN Empty ELSE entries[i]
      BY <1>7, <1>9 DEF TableInv, TableTyped
    <3>7. CASE i <= n - 1
      <4>1. i \in 1 .. n - 1 /\ i # n /\ i <= n /\ i <= Len(table') BY <2>1, <3>4, <3>7
      <4> QED BY <2>1, <3>3, <3>5, <3>6, <4>1
    <3>8. CASE ~(i <= n - 1)
      <4>1. ~(i <= Len(table')) /\ (i # n => ~(i <= n)) BY <2>1, <3>4, <3>8
      <4>2. i # n => i # at[o] BY <1>4, <3>4, <4>1
      <4> QED BY <3>3, <3>5, <3>6, <4>1, <4>2
    <3> QED BY <3>7, <3>8
  <2>5. EndOp(o, "ok") BY <1>1, <1>9
  <2> QED BY <1>2, <1>3, <1>7, <1>8, <2>1, <2>2, <2>3, <2>4, <2>5, EndKeeps
<1>10. CASE answer = "refused" /\ at[o] # LastIndex
  <2>1. step' = [step EXCEPT ![o] = "undo"] /\ UNCHANGED <<lock, table, entries>>
    BY <1>1, <1>7, <1>10
  <2>2. /\ step' \in [TableOps -> {"idle", "waiting", "queued", "set", "move", "clear", "undo",
                                   "done"}]
        /\ step'[o] = "undo" /\ \A q \in TableOps : step'[q] \in Active => q = o
        /\ HolderActs' /\ Unprotected'
    BY <1>3, <2>1, OnlyHolder DEF Active
  <2>3. TableTyped' BY <1>2, <1>8, <2>1, <2>2 DEF TableInv, TableTyped
  <2>4. GroupsOnce' BY <2>1 DEF TableInv, GroupsOnce
  <2>5. \A q \in TableOps : ~Ahead(q)' BY <2>2 DEF Ahead, Active
  <2>6. AddShape' /\ SightShape' BY <2>2, <2>5 DEF AddShape, SightShape, Active
  <2>7. RemoveShape'
    BY <1>2, <1>4, <1>5, <1>10, <2>1, <2>2 DEF RemoveShape, Active
  <2>8. Room' BY <1>5, <2>1 DEF Room
  <2>9. Content'
    <3>1. ~doubt' => entries' = [Mirror(table) EXCEPT ![at[o]] = table[Len(table)]]
      BY <1>1, <1>6, <2>1
    <3>2. HalfMoved(o)' BY <2>2 DEF HalfMoved
    <3>3. \A q \in TableOps : HalfMoved(q)' => q = o BY <2>2 DEF HalfMoved, Active
    <3> QED BY <1>2, <2>1, <2>5, <3>1, <3>2, <3>3 DEF Content, Mirror
  <2> QED BY <2>2, <2>3, <2>4, <2>6, <2>7, <2>8, <2>9 DEF TableInv
<1>11. CASE answer # "ok" /\ ~(answer = "refused" /\ at[o] # LastIndex)
  <2>1. EndOp(o, "failed") /\ table' = table BY <1>1, <1>11
  <2>2. GroupsOnce' BY <2>1 DEF TableInv, GroupsOnce
  <2>3. ~doubt' => entries' = Mirror(table')
    <3> SUFFICES ASSUME ~doubt' PROVE entries' = Mirror(table) BY <2>1 DEF Mirror
    <3>1. ~doubt /\ answer = "refused" BY <1>1, <1>11 DEF Answers
    <3>2. entries' = [Mirror(table) EXCEPT ![Len(table)] = table[Len(table)]]
      BY <1>5, <1>6, <1>7, <1>11, <3>1
    <3>3. [Mirror(table) EXCEPT ![Len(table)] = table[Len(table)]] = Mirror(table)
      BY <1>5 DEF Mirror, Indices
    <3> QED BY <3>2, <3>3
  <2> QED BY <1>2, <1>3, <1>5, <1>7, <1>8, <2>1, <2>2, <2>3, EndKeeps
<1> QED BY <1>9, <1>10, <1>11

-----------------------------------------------------------------------------
(* Every step. *)

\* A step of the table's, a step that leaves the table alone, or the end of the radio.
LEMMA TableCases ==
  ASSUME [Next]_vars
  PROVE  \/ UNCHANGED tableVars
         \/ \E o \in TableOps : OpStep(o) \/ OpEvent(o)
BY DEF Next, Progress, Event, vars

LEMMA IdleKeeps == ASSUME TableInv, UNCHANGED tableVars PROVE TableInv'
<1> USE DEF TableInv, tableVars
<1>1. TableTyped' /\ HolderActs' /\ Unprotected' /\ GroupsOnce'
  BY DEF TableTyped, HolderActs, Unprotected, GroupsOnce
<1>2. \A q \in TableOps : (Ahead(q)' <=> Ahead(q)) /\ (HalfMoved(q)' <=> HalfMoved(q))
  BY DEF Ahead, HalfMoved
<1>3. AddShape' /\ SightShape' /\ RemoveShape' /\ Room'
  BY <1>2 DEF AddShape, SightShape, RemoveShape, Room, Bound
<1>4. Content' BY <1>2 DEF Content, Mirror
<1> QED BY <1>1, <1>3, <1>4

LEMMA TableInvStep == TableInv /\ [Next]_vars => TableInv'
<1> SUFFICES ASSUME TableInv, [Next]_vars PROVE TableInv' OBVIOUS
<1>1. CASE UNCHANGED tableVars BY <1>1, IdleKeeps
<1>2. ASSUME NEW o \in TableOps, OpStep(o) PROVE TableInv'
  <2>1. CASE (o \in GroupCalls /\ TakeLockForCall(o)) \/ (o \in Sightings /\ TakeLockForSighting(o))
    BY <2>1, TakeLockKeeps
  <2>2. CASE \/ o \in Sightings /\ BeginSighting(o)
             \/ o \in Adds /\ BeginAdd(o)
             \/ o \in Removes /\ BeginRemove(o)
    BY <2>2, OpBeginKeeps
  <2>3. CASE SetEntry(o) \/ SetSightedEntry(o) BY <2>3, SetKeeps, SetSightedKeeps
  <2>4. CASE MoveLast(o) \/ ClearLast(o) \/ UndoMove(o)
    BY <2>4, MoveKeeps, ClearKeeps, UndoKeeps
  <2>5. CASE GroupTimer(o) BY <2>5, IdleKeeps DEF GroupTimer
  <2> QED BY <1>2, <2>1, <2>2, <2>3, <2>4, <2>5 DEF OpStep
<1>3. ASSUME NEW o \in TableOps, OpEvent(o) PROVE TableInv'
  <2>1. CASE \/ o \in Adds /\ CallAdd(o)
             \/ o \in Removes /\ CallRemove(o)
             \/ o \in Sightings /\ SeeMulticast(o)
    BY <2>1, OpCallKeeps
  <2>2. CASE CancelGroup(o) BY <2>2, IdleKeeps DEF CancelGroup
  <2> QED BY <1>3, <2>1, <2>2 DEF OpEvent
<1> QED BY <1>1, <1>2, <1>3, TableCases

LEMMA TableInvariance == Spec => []TableInv
BY TableInvInit, TableInvStep, PTL DEF Spec

-----------------------------------------------------------------------------
(* What callers and the NCP may rely on. *)

\* However many operations have run, raced or failed, the host's array holds
\* every group at most once.
THEOREM ArrayHoldsGroupsOnce == Spec => []GroupsOnce
BY TableInvariance, PTL DEF TableInv

\* Whenever no operation holds the lock and no command's effect is unknown,
\* the NCP listens to exactly the groups of the host's array, each at the
\* index the next operation will work out for it.
THEOREM NcpMirrorsHost == Spec => []Mirrored
<1>1. TableInv => Mirrored
  <2> SUFFICES ASSUME TableInv, lock = <<>>, ~doubt PROVE entries = Mirror(table)
    BY DEF Mirrored
  <2>1. \A o \in TableOps : step[o] \notin Active BY DEF TableInv, HolderActs
  <2>2. \A o \in TableOps : ~Ahead(o) /\ ~HalfMoved(o) BY <2>1 DEF Ahead, HalfMoved, Active
  <2> QED BY <2>2 DEF TableInv, Content
<1> QED BY <1>1, TableInvariance, PTL

-----------------------------------------------------------------------------
(* What the NCP stops listening to. *)

Unwanted(g) == /\ g \notin Protected
               /\ \E o \in Removes : GroupOf[o] = g /\ step[o] \in {"move", "clear"}

\* One entry is overwritten: it was empty, or its group has another entry, or
\* is the one being removed.
LEMMA Overwritten ==
  ASSUME entries \in [Indices -> Groups \cup {Empty}], NEW k \in Indices,
         NEW group \in Groups \cup {Empty}, entries' = [entries EXCEPT ![k] = group],
         \/ entries[k] = Empty
         \/ Unwanted(entries[k])
         \/ \E j \in Indices \ {k} : entries[j] = entries[k]
  PROVE  \A g \in Listening \ Listening' : Unwanted(g)
<1> SUFFICES ASSUME NEW g \in Listening, g \notin Listening' PROVE Unwanted(g) OBVIOUS
<1>1. g # Empty BY DEF Listening
<1>2. PICK i \in Indices : entries[i] = g BY DEF Listening
<1>3. \A j \in Indices : entries'[j] # g BY <1>1 DEF Listening
<1>4. \A j \in Indices \ {k} : entries'[j] = entries[j] OBVIOUS
<1>5. i = k BY <1>2, <1>3, <1>4
<1> QED BY <1>1, <1>2, <1>3, <1>4, <1>5

LEMMA SameEntries == ASSUME entries' = entries PROVE Listening' = Listening
BY DEF Listening

\* The NCP's table is written only by these.
LEMMA EntriesCases ==
  ASSUME [Next]_vars, entries' # entries
  PROVE  \E o \in TableOps :
           SetEntry(o) \/ SetSightedEntry(o) \/ MoveLast(o) \/ ClearLast(o) \/ UndoMove(o)
<1>1. PICK o \in TableOps : OpStep(o) \/ OpEvent(o) BY TableCases DEF tableVars
<1>2. CASE OpEvent(o)
  BY <1>2 DEF OpEvent, CallAdd, CallRemove, SeeMulticast, CancelGroup, tableVars
<1>3. CASE OpStep(o)
  BY <1>3 DEF OpStep, TakeLockForCall, TakeLockForSighting, BeginSighting, BeginAdd, BeginRemove,
              GroupTimer, tableVars
<1> QED BY <1>1, <1>2, <1>3

LEMMA NoneDropped ==
  ASSUME TableInv, [Next]_vars, ~doubt' PROVE \A g \in Listening \ Listening' : Unwanted(g)
<1> USE TableAssumption
<1>1. CASE entries' = entries BY <1>1, SameEntries
<1>2. ASSUME NEW o \in TableOps, SetEntry(o) PROVE \A g \in Listening \ Listening' : Unwanted(g)
  <2>1. PICK answer \in Answers : /\ WriteEntry(at[o], GroupOf[o], answer)
                                  /\ doubt' = (doubt \/ answer = "lost")
    BY <1>2 DEF SetEntry
  <2>2. step[o] = "set" /\ o \in Adds BY <1>2 DEF SetEntry
  <2>3. step[o] \in Active /\ ~Ahead(o) /\ ~HalfMoved(o) BY <2>2 DEF Active, Ahead, HalfMoved
  <2>4. /\ table \in Seq(Groups) /\ Len(table) \in Nat /\ GroupOf[o] \in Groups
        /\ ~doubt => entries = Mirror(table)
    BY <2>3, HolderFinds
  <2>5. at[o] = Len(table) + 1 BY <2>2 DEF TableInv, AddShape
  <2>6. /\ answer = "ok" => at[o] \in Indices /\ entries' = [entries EXCEPT ![at[o]] = GroupOf[o]]
        /\ answer = "refused" => entries' = entries
    BY <2>1, <2>4, <2>5, EntryWritten DEF TableInv
  <2>7. CASE answer = "ok"
    <3>1. Mirror(table)[at[o]] = IF at[o] <= Len(table) THEN table[at[o]] ELSE Empty
      BY <2>6, <2>7, MirrorAt
    <3>2. ~(at[o] <= Len(table)) BY <2>4, <2>5
    <3>3. entries[at[o]] = Empty BY <2>1, <2>4, <3>1, <3>2
    <3> QED BY <2>4, <2>6, <2>7, <3>3, Overwritten DEF TableInv, TableTyped
  <2> QED BY <2>1, <2>6, <2>7, SameEntries DEF Answers
<1>3. ASSUME NEW o \in TableOps, SetSightedEntry(o)
      PROVE  \A g \in Listening \ Listening' : Unwanted(g)
  <2>1. PICK answer \in Answers : /\ WriteEntry(at[o], GroupOf[o], answer)
                                  /\ doubt' = (doubt \/ answer = "lost")
    BY <1>3 DEF SetSightedEntry
  <2>2. step[o] = "set" /\ o \in Sightings BY <1>3 DEF SetSightedEntry
  <2>3. step[o] \in Active /\ Ahead(o) BY <2>2 DEF Active, Ahead
  <2>4. table \in Seq(Groups) /\ Len(table) \in Nat /\ GroupOf[o] \in Groups
    BY <2>3, HolderFinds
  <2>5. /\ at[o] = Len(table) /\ Len(table) \in 1 .. Size + 1
        /\ ~doubt => entries = Mirror(Front(table))
    BY <2>3 DEF TableInv, SightShape, Content
  <2>6. /\ answer = "ok" => at[o] \in Indices /\ entries' = [entries EXCEPT ![at[o]] = GroupOf[o]]
        /\ answer = "refused" => entries' = entries
    BY <2>1, <2>4, <2>5, EntryWritten DEF TableInv
  <2>7. CASE answer = "ok"
    <3>1. table # <<>> BY <2>5, EmptySeq
    <3>2. Len(Front(table)) = Len(table) - 1 BY <2>4, <3>1, FrontIsPrefix
    <3>3. Mirror(Front(table))[at[o]] =
            IF at[o] <= Len(Front(table)) THEN Front(table)[at[o]] ELSE Empty
      BY <2>6, <2>7, MirrorAt
    <3>4. ~(at[o] <= Len(Front(table))) BY <2>4, <2>5, <3>2
    <3>5. entries[at[o]] = Empty BY <2>1, <2>5, <3>3, <3>4
    <3> QED BY <2>4, <2>6, <2>7, <3>5, Overwritten DEF TableInv, TableTyped
  <2> QED BY <2>1, <2>6, <2>7, SameEntries DEF Answers
<1>4. ASSUME NEW o \in TableOps, MoveLast(o) PROVE \A g \in Listening \ Listening' : Unwanted(g)
  <2>1. PICK answer \in Answers : /\ WriteEntry(at[o], table[LastIndex], answer)
                                  /\ doubt' = (doubt \/ answer = "lost")
    BY <1>4 DEF MoveLast
  <2>2. step[o] = "move" BY <1>4 DEF MoveLast
  <2>3. step[o] \in Active /\ ~Ahead(o) /\ ~HalfMoved(o) BY <2>2 DEF Active, Ahead, HalfMoved
  <2>4. /\ o \in Removes /\ at[o] \in 1 .. Len(table) /\ table[at[o]] = GroupOf[o]
        /\ GroupOf[o] \notin Protected
    BY <2>2 DEF TableInv, RemoveShape, Unprotected
  <2>5. /\ table \in Seq(Groups) /\ Len(table) \in Nat /\ (~doubt => entries = Mirror(table))
        /\ \A i \in 1 .. Len(table) : table[i] \in Groups
    BY <2>3, HolderFinds
  <2>6. at[o] \in Nat /\ at[o] <= Len(table) /\ table[LastIndex] \in Groups
    BY <2>4, <2>5 DEF LastIndex
  <2>7. /\ answer = "ok" =>
             at[o] \in Indices /\ entries' = [entries EXCEPT ![at[o]] = table[LastIndex]]
        /\ answer = "refused" => entries' = entries
    BY <2>1, <2>6, EntryWritten DEF TableInv
  <2>8. CASE answer = "ok"
    <3>1. Mirror(table)[at[o]] = IF at[o] <= Len(table) THEN table[at[o]] ELSE Empty
      BY <2>7, <2>8, MirrorAt
    <3>2. entries[at[o]] = GroupOf[o] BY <2>1, <2>4, <2>5, <2>6, <3>1
    <3>3. Unwanted(entries[at[o]]) BY <2>2, <2>4, <3>2 DEF Unwanted
    <3> QED BY <2>6, <2>7, <2>8, <3>3, Overwritten DEF TableInv, TableTyped
  <2> QED BY <2>1, <2>7, <2>8, SameEntries DEF Answers
<1>5. ASSUME NEW o \in TableOps, ClearLast(o) PROVE \A g \in Listening \ Listening' : Unwanted(g)
  <2>1. PICK answer \in Answers : /\ WriteEntry(LastIndex, Empty, answer)
                                  /\ doubt' = (doubt \/ answer = "lost")
    BY <1>5 DEF ClearLast
  <2>2. step[o] = "clear" BY <1>5 DEF ClearLast
  <2>3. step[o] \in Active /\ ~Ahead(o) /\ HalfMoved(o) BY <2>2 DEF Active, Ahead, HalfMoved
  <2>4. /\ o \in Removes /\ at[o] \in 1 .. Len(table) /\ table[at[o]] = GroupOf[o]
        /\ GroupOf[o] \notin Protected
    BY <2>2 DEF TableInv, RemoveShape, Unprotected
  <2>5. /\ table \in Seq(Groups) /\ Len(table) \in Nat /\ LastIndex = Len(table)
        /\ Len(table) <= Size
    BY <2>3, HolderFinds DEF LastIndex
  <2>6. ~doubt => entries = [Mirror(table) EXCEPT ![at[o]] = table[Len(table)]]
    BY <2>3 DEF TableInv, Content
  <2>7. /\ answer = "ok" => entries' = [entries EXCEPT ![Len(table)] = Empty]
        /\ answer = "refused" => entries' = entries
    BY <2>1, <2>5, EntryWritten DEF TableInv
  <2>8. at[o] \in Indices /\ Len(table) \in Indices BY <2>4, <2>5 DEF Indices
  <2>9. CASE answer = "ok"
    <3>1. entries = [Mirror(table) EXCEPT ![at[o]] = table[Len(table)]] BY <2>1, <2>6
    <3>2. Mirror(table)[Len(table)] = table[Len(table)] BY <2>5, <2>8, MirrorAt
    <3>3. entries[at[o]] = table[Len(table)] /\ entries[Len(table)] = table[Len(table)]
      BY <2>8, <3>1, <3>2 DEF Mirror
    <3>4. CASE at[o] = Len(table)
      <4>1. Unwanted(entries[Len(table)]) BY <2>2, <2>4, <3>3, <3>4 DEF Unwanted
      <4> QED BY <2>7, <2>8, <2>9, <4>1, Overwritten DEF TableInv, TableTyped
    <3>5. CASE at[o] # Len(table)
      <4>1. \E j \in Indices \ {Len(table)} : entries[j] = entries[Len(table)]
        BY <2>8, <3>3, <3>5
      <4> QED BY <2>7, <2>8, <2>9, <4>1, Overwritten DEF TableInv, TableTyped
    <3> QED BY <3>4, <3>5
  <2> QED BY <2>1, <2>7, <2>9, SameEntries DEF Answers
<1>6. ASSUME NEW o \in TableOps, UndoMove(o) PROVE \A g \in Listening \ Listening' : Unwanted(g)
  <2>1. PICK answer \in Answers : /\ WriteEntry(at[o], GroupOf[o], answer)
                                  /\ doubt' = (doubt \/ answer # "ok")
    BY <1>6 DEF UndoMove
  <2>2. step[o] = "undo" BY <1>6 DEF UndoMove
  <2>3. step[o] \in Active /\ ~Ahead(o) /\ HalfMoved(o) BY <2>2 DEF Active, Ahead, HalfMoved
  <2>4. at[o] \in 1 .. Len(table) /\ at[o] # Len(table)
    BY <2>2 DEF TableInv, RemoveShape
  <2>5. /\ table \in Seq(Groups) /\ Len(table) \in Nat /\ Len(table) <= Size
        /\ GroupOf[o] \in Groups
    BY <2>3, HolderFinds
  <2>6. ~doubt /\ answer = "ok" BY <2>1
  <2>7. entries = [Mirror(table) EXCEPT ![at[o]] = table[Len(table)]]
    BY <2>3, <2>6 DEF TableInv, Content
  <2>8. at[o] \in Indices /\ Len(table) \in Indices BY <2>4, <2>5 DEF Indices
  <2>9. entries' = [entries EXCEPT ![at[o]] = GroupOf[o]]
    BY <2>1, <2>4, <2>5, <2>6, EntryWritten DEF TableInv
  <2>10. Mirror(table)[Len(table)] = table[Len(table)] BY <2>5, <2>8, MirrorAt
  <2>11. entries[at[o]] = table[Len(table)] /\ entries[Len(table)] = table[Len(table)]
    BY <2>7, <2>8, <2>10 DEF Mirror
  <2>12. \E j \in Indices \ {at[o]} : entries[j] = entries[at[o]] BY <2>4, <2>8, <2>11
  <2> QED BY <2>5, <2>8, <2>9, <2>12, Overwritten DEF TableInv, TableTyped
<1> QED BY <1>1, <1>2, <1>3, <1>4, <1>5, <1>6, EntriesCases

\* The NCP stops listening to a group only while that group is being removed,
\* at whatever point an operation fails, and never to a protected one.
THEOREM OnlyRemovedGroupsAreDropped == Spec => NeighboursKeepListening
<1>1. TableInv /\ [Next]_vars =>
        [~doubt' => \A g \in Listening \ Listening' : Unwanted(g)]_tableVars
  BY NoneDropped
<1> QED BY <1>1, TableInvariance, PTL DEF Spec, NeighboursKeepListening, Unwanted

-----------------------------------------------------------------------------
(* What GroupRegistry sees of the state. *)

HostGroups == ToSet(table)
ToldToCalls == [o \in GroupCalls |-> told[o]]
Over == {o \in TableOps : step[o] = "done"}
Unconfirmed == {o \in Sightings : step[o] \in {"queued", "set"}}
registryVars == <<HostGroups, ToldToCalls, Over, Unconfirmed>>

LEMMA AppendSet ==
  ASSUME NEW S, NEW s \in Seq(S), NEW x \in S
  PROVE  ToSet(Append(s, x)) = ToSet(s) \cup {x}
<1> DEFINE a == Append(s, x)
<1>1. /\ a \in Seq(S) /\ Len(a) = Len(s) + 1 /\ a[Len(s) + 1] = x
      /\ \A i \in 1 .. Len(s) : a[i] = s[i]
  BY AppendMember
<1>2. DOMAIN a = 1 .. Len(s) + 1 /\ DOMAIN s = 1 .. Len(s) /\ Len(s) \in Nat
  BY <1>1, LenProperties
<1> HIDE DEF a
<1>3. 1 .. Len(s) + 1 = (1 .. Len(s)) \cup {Len(s) + 1} BY <1>2
<1>4. ToSet(a) = {a[i] : i \in 1 .. Len(s)} \cup {x} BY <1>1, <1>2, <1>3 DEF ToSet
<1>5. ToSet(s) = {a[i] : i \in 1 .. Len(s)} BY <1>1, <1>2 DEF ToSet
<1> QED BY <1>4, <1>5 DEF a

\* Whoever else is told something, these calls are not.
LEMMA NotTold ==
  ASSUME ToldTypeOK, NEW o \in Requests \ GroupCalls, NEW w, Tell(o, w)
  PROVE  UNCHANGED ToldToCalls
<1>1. GroupCalls \subseteq Requests BY TableAssumption DEF TableOps
<1>2. \A q \in GroupCalls : told'[q] = told[q] BY <1>1 DEF ToldTypeOK, Tell
<1> QED BY <1>2 DEF ToldToCalls

LEMMA NodeTells ==
  ASSUME ToldTypeOK, NEW r \in NodeCalls, NodeStep(r) \/ NodeEvent(r)
  PROVE  UNCHANGED ToldToCalls
<1>1. told' = told \/ \E q \in NodeCalls : \E w : Tell(q, w)
  <2> USE DEF callerVars, EndCall
  <2>1. CASE RefuseCancelled(r) \/ Dispatched(r) BY <2>1 DEF RefuseCancelled, Dispatched
  <2>2. CASE SendStep(r) BY <2>2 DEF SendStep, BeginSend, FailSend, SendTimer, FinishSend
  <2>3. CASE ZdoStep(r) BY <2>3 DEF ZdoStep, BeginZdo, FailZdo, ZdoTimer
  <2>4. CASE CallSend(r) \/ CallZdo(r) BY <2>4 DEF CallSend, CallZdo, Enqueue
  <2>5. CASE CancelSend(r) \/ CancelZdo(r) BY <2>5 DEF CancelSend, CancelZdo
  <2>6. CASE \E t \in TagIds, report \in {"delivered", "undelivered"} : MessageSent(r, t, report)
    BY <2>6 DEF MessageSent
  <2>7. ASSUME NEW status, ZdoResponse(r, status)
        PROVE  told' = told \/ \E q \in NodeCalls : \E w : Tell(q, w)
    BY <2>7 DEF ZdoResponse, NodeCalls
  <2> QED BY <2>1, <2>2, <2>3, <2>4, <2>5, <2>6, <2>7 DEF NodeStep, NodeEvent
<1>2. NodeCalls \subseteq Requests \ GroupCalls
  BY RequestsAssumption, NodeAssumption DEF NodeCalls, TableOps
<1>3. CASE told' = told BY <1>3 DEF ToldToCalls
<1> QED BY <1>1, <1>2, <1>3, NotTold

LEMMA ToldIs ==
  ASSUME ToldTypeOK, NEW o \in GroupCalls, NEW w, Tell(o, w) PROVE Registry!Tell(o, w)
<1>1. GroupCalls \subseteq Requests BY TableAssumption DEF TableOps
<1>2. \A q \in GroupCalls :
        told'[q] = IF q = o /\ told[o] = "nothing" THEN w ELSE told[q]
  BY <1>1 DEF ToldTypeOK, Tell
<1>3. ToldToCalls' = IF ToldToCalls[o] = "nothing" THEN [ToldToCalls EXCEPT ![o] = w]
                                                  ELSE ToldToCalls
  BY <1>2 DEF ToldToCalls
<1> QED BY <1>3 DEF Registry!Tell, ToldToCalls

-----------------------------------------------------------------------------
(* The ways a step of an operation looks to GroupRegistry. *)

\* It ends.
LEMMA Ends ==
  ASSUME TableTyped, NEW o \in TableOps, step[o] # "done", step' = [step EXCEPT ![o] = "done"]
  PROVE  o \notin Over /\ Over' = Over \cup {o} /\ Unconfirmed' = Unconfirmed \ {o}
<1>1. \A q \in TableOps : step'[q] = IF q = o THEN "done" ELSE step[q] BY DEF TableTyped
<1>2. Over' = Over \cup {o} /\ o \notin Over BY <1>1 DEF Over
<1>3. Unconfirmed' = Unconfirmed \ {o} BY <1>1 DEF Unconfirmed, TableOps
<1> QED BY <1>2, <1>3

LEMMA CallEnds ==
  ASSUME TableTyped, ToldTypeOK, NEW o \in GroupCalls, step[o] # "done",
         step' = [step EXCEPT ![o] = "done"], NEW w, Tell(o, w),
         \/ w \in {"failed", "aborted"} /\ HostGroups' = HostGroups
         \/ w = "ok" /\ o \in Adds /\ HostGroups' = HostGroups \cup {GroupOf[o]}
         \/ /\ w = "ok" /\ o \in Removes
            /\ HostGroups' = HostGroups \ ({GroupOf[o]} \ Protected)
  PROVE  Registry!Next
<1>1. o \in TableOps /\ o \notin Sightings BY TableAssumption DEF TableOps, GroupCalls
<1>2. o \notin Over /\ Over' = Over \cup {o} /\ Unconfirmed' = Unconfirmed
  <2>1. o \notin Over /\ Over' = Over \cup {o} /\ Unconfirmed' = Unconfirmed \ {o}
    BY <1>1, Ends
  <2>2. o \notin Unconfirmed BY <1>1 DEF Unconfirmed
  <2> QED BY <2>1, <2>2
<1>3. Registry!Tell(o, w) BY ToldIs
<1>4. \/ o \in Adds /\ Registry!Add(o)
      \/ o \in Removes /\ Registry!Remove(o)
      \/ o \in Registry!Calls /\ Registry!Reject(o)
  BY <1>2, <1>3
     DEF Registry!Add, Registry!Remove, Registry!Reject, Registry!Calls, GroupCalls, HostGroups,
         Unconfirmed
<1>5. Registry!End(o) BY <1>2, <1>4 DEF Registry!End, Over
<1> QED BY <1>5 DEF Registry!Next, Registry!Calls, GroupCalls

LEMMA SightingEnds ==
  ASSUME TableTyped, NEW o \in Sightings, step[o] # "done",
         step' = [step EXCEPT ![o] = "done"], UNCHANGED ToldToCalls,
         \/ /\ step[o] \notin {"queued", "set"}
            /\ GroupOf[o] \in HostGroups /\ HostGroups' = HostGroups
         \/ /\ step[o] \in {"queued", "set"}
            /\ HostGroups' \in {HostGroups, HostGroups \ {GroupOf[o]}}
  PROVE  Registry!Next
<1>1. o \in TableOps BY DEF TableOps
<1>2. o \notin Over /\ Over' = Over \cup {o} /\ Unconfirmed' = Unconfirmed \ {o}
  BY <1>1, Ends
<1>3. o \in Unconfirmed <=> step[o] \in {"queued", "set"} BY DEF Unconfirmed
<1>4. Registry!SeeKnown(o) \/ Registry!Resolve(o)
  BY <1>2, <1>3
     DEF Registry!SeeKnown, Registry!Resolve, HostGroups, ToldToCalls, Unconfirmed
<1>5. Registry!End(o) BY <1>2, <1>4 DEF Registry!End, Over
<1> QED BY <1>5 DEF Registry!Next

\* It goes on.
LEMMA GoesOn ==
  ASSUME TableTyped, NEW o \in TableOps, step[o] # "done", NEW w,
         w # "done", step' = [step EXCEPT ![o] = w],
         o \in Sightings => (step[o] \in {"queued", "set"} <=> w \in {"queued", "set"}),
         UNCHANGED <<table, told>>
  PROVE  UNCHANGED registryVars
<1>1. \A q \in TableOps : step'[q] = IF q = o THEN w ELSE step[q] BY DEF TableTyped
<1>2. Over' = Over BY <1>1 DEF Over
<1>3. Unconfirmed' = Unconfirmed BY <1>1 DEF Unconfirmed, TableOps
<1> QED BY <1>2, <1>3 DEF registryVars, HostGroups, ToldToCalls

\* It leaves the table alone.
LEMMA TableAlone ==
  ASSUME UNCHANGED <<table, step>>, UNCHANGED ToldToCalls PROVE UNCHANGED registryVars
BY DEF registryVars, HostGroups, Over, Unconfirmed

LEMMA CallerGivesUp ==
  ASSUME ToldTypeOK, NEW o \in GroupCalls, step[o] # "done", UNCHANGED <<table, step>>,
         NEW w \in {"timeout", "aborted"}, Tell(o, w)
  PROVE  Registry!Next \/ UNCHANGED registryVars
<1>1. CASE told[o] # "nothing"
  <2>1. UNCHANGED told BY <1>1 DEF Tell
  <2> QED BY <2>1, TableAlone DEF ToldToCalls
<1>2. CASE told[o] = "nothing"
  <2>1. Registry!Tell(o, w) BY ToldIs
  <2>2. o \in Requests BY TableAssumption DEF TableOps
  <2>3. ToldToCalls[o] = "nothing" /\ ToldToCalls'[o] = w
    BY <1>2, <2>2 DEF ToldToCalls, ToldTypeOK, Tell
  <2>4. Registry!GiveUp(o)
    BY <2>1, <2>3 DEF Registry!GiveUp, ToldToCalls, Registry!Tell
  <2> QED BY <2>4 DEF Registry!Next, Registry!Calls, GroupCalls
<1> QED BY <1>1, <1>2

-----------------------------------------------------------------------------
(* Every step is one of GroupRegistry's, or none. *)

LEMMA OpCallSeen ==
  ASSUME TableInv, ToldTypeOK, NEW o \in TableOps,
         \/ o \in Adds /\ CallAdd(o)
         \/ o \in Removes /\ CallRemove(o)
         \/ o \in Sightings /\ SeeMulticast(o)
  PROVE  Registry!Next \/ UNCHANGED registryVars
<1> USE DEF TableInv
<1>1. step[o] = "idle" /\ UNCHANGED table BY DEF CallAdd, CallRemove, SeeMulticast
<1>2. HostGroups' = HostGroups BY <1>1 DEF HostGroups
<1>3. CASE step' = [step EXCEPT ![o] = "waiting"] /\ UNCHANGED told
  BY <1>1, <1>3, GoesOn
<1>4. CASE o \in GroupCalls /\ ReturnAtOnce(o) /\ (o \in Adds => GroupOf[o] \in HostGroups)
           /\ (o \in Removes => GroupOf[o] \in Protected)
  BY <1>1, <1>2, <1>4, CallEnds DEF ReturnAtOnce, GroupCalls
<1>5. CASE o \in Adds /\ CallAdd(o)
  <2>1. o \notin Removes /\ o \in GroupCalls BY <1>5, TableAssumption DEF GroupCalls
  <2> QED BY <1>3, <1>4, <1>5, <2>1 DEF CallAdd, AwaitLock, Bound, HostGroups
<1>6. CASE o \in Removes /\ CallRemove(o)
  <2>1. o \notin Adds /\ o \in GroupCalls BY <1>6, TableAssumption DEF GroupCalls
  <2> QED BY <1>3, <1>4, <1>6, <2>1 DEF CallRemove, AwaitLock
<1>7. CASE o \in Sightings /\ SeeMulticast(o)
  BY <1>3, <1>7 DEF SeeMulticast, AwaitLock, callerVars
<1> QED BY <1>5, <1>6, <1>7

LEMMA TakeLockSeen ==
  ASSUME TableInv, ToldTypeOK, NEW o \in TableOps,
         (o \in GroupCalls /\ TakeLockForCall(o)) \/ (o \in Sightings /\ TakeLockForSighting(o))
  PROVE  Registry!Next \/ UNCHANGED registryVars
<1> USE DEF TableInv
<1>1. step[o] = "waiting" /\ UNCHANGED told
  BY DEF TakeLockForCall, TakeLockForSighting, TakeLock, callerVars
<1>2. UNCHANGED ToldToCalls BY <1>1 DEF ToldToCalls
<1>3. CASE o \in GroupCalls /\ TakeLockForCall(o)
  <2>1. o \notin Sightings BY <1>3, TableAssumption DEF GroupCalls
  <2> QED BY <1>1, <1>3, <2>1, GoesOn DEF TakeLockForCall, TakeLock
<1>4. CASE o \in Sightings /\ Bound(GroupOf[o]) /\ TakeLockForSighting(o)
  <2>1. step' = [step EXCEPT ![o] = "done"] /\ UNCHANGED table BY <1>4 DEF TakeLockForSighting
  <2>2. GroupOf[o] \in HostGroups /\ HostGroups' = HostGroups
    BY <1>4, <2>1 DEF Bound, HostGroups
  <2> QED BY <1>1, <1>2, <1>4, <2>1, <2>2, SightingEnds
<1>5. CASE o \in Sightings /\ ~Bound(GroupOf[o]) /\ TakeLockForSighting(o)
  <2>1. step' = [step EXCEPT ![o] = "queued"] /\ table' = Append(table, GroupOf[o])
    BY <1>5 DEF TakeLockForSighting, TakeLock
  <2>2. \A q \in TableOps : step'[q] = IF q = o THEN "queued" ELSE step[q]
    BY <2>1 DEF TableTyped
  <2>3. Over' = Over /\ o \notin Over BY <1>1, <2>2 DEF Over
  <2>4. Unconfirmed' = Unconfirmed \cup {o} /\ o \notin Unconfirmed
    BY <1>1, <1>5, <2>2 DEF Unconfirmed, TableOps
  <2>5. HostGroups' = HostGroups \cup {GroupOf[o]}
    <3>1. GroupOf[o] \in Groups /\ table \in Seq(Groups) BY DEF Groups, TableTyped
    <3> QED BY <2>1, <3>1, AppendSet DEF HostGroups
  <2>6. Registry!See(o)
    BY <1>2, <2>3, <2>4, <2>5
       DEF Registry!See, HostGroups, ToldToCalls, Over, Unconfirmed
  <2> QED BY <1>5, <2>6 DEF Registry!Next
<1> QED BY <1>3, <1>4, <1>5

LEMMA OpBeginSeen ==
  ASSUME TableInv, ToldTypeOK, NEW o \in TableOps,
         \/ o \in Sightings /\ BeginSighting(o)
         \/ o \in Adds /\ BeginAdd(o)
         \/ o \in Removes /\ BeginRemove(o)
  PROVE  Registry!Next \/ UNCHANGED registryVars
<1> USE DEF TableInv
<1>1. step[o] = "queued" /\ UNCHANGED table
  BY DEF BeginSighting, BeginAdd, BeginRemove, JobMayBegin
<1>2. HostGroups' = HostGroups BY <1>1 DEF HostGroups
<1>3. ASSUME NEW w, EndOp(o, w), o \in GroupCalls,
             \/ w = "aborted"
             \/ w = "ok" /\ o \in Adds /\ GroupOf[o] \in HostGroups
             \/ w = "ok" /\ o \in Removes /\ GroupOf[o] \notin HostGroups
      PROVE  Registry!Next
  BY <1>1, <1>2, <1>3, CallEnds DEF EndOp
<1>4. ASSUME NEW w \in {"set", "move", "clear"}, step' = [step EXCEPT ![o] = w],
             w = "set" \/ o \notin Sightings, UNCHANGED told
      PROVE  UNCHANGED registryVars
  BY <1>1, <1>4, GoesOn
<1>5. CASE o \in Sightings /\ BeginSighting(o)
  BY <1>4, <1>5 DEF BeginSighting, callerVars
<1>6. CASE o \in Adds /\ BeginAdd(o)
  <2>1. o \in GroupCalls BY <1>6 DEF GroupCalls
  <2> QED BY <1>3, <1>4, <1>6, <2>1 DEF BeginAdd, Bound, HostGroups
<1>7. CASE o \in Removes /\ BeginRemove(o)
  <2>1. o \in GroupCalls /\ o \notin Sightings BY <1>7, TableAssumption DEF GroupCalls
  <2>2. \/ EndOp(o, "aborted")
        \/ GroupOf[o] \notin HostGroups /\ EndOp(o, "ok")
        \/ /\ UNCHANGED told
           /\ \E w \in {"move", "clear"} : step' = [step EXCEPT ![o] = w]
    BY <1>7 DEF BeginRemove, Bound, HostGroups
  <2> QED BY <1>3, <1>4, <1>7, <2>1, <2>2
<1> QED BY <1>5, <1>6, <1>7

LEMMA SetSeen ==
  ASSUME TableInv, ToldTypeOK, NEW o \in TableOps, SetEntry(o)
  PROVE  Registry!Next
<1> USE DEF TableInv
<1>1. PICK answer \in Answers :
        /\ EndOp(o, IF answer = "ok" THEN "ok" ELSE "failed")
        /\ table' = IF answer = "ok" THEN Append(table, GroupOf[o]) ELSE table
  BY DEF SetEntry
<1>2. step[o] = "set" /\ o \in Adds /\ o \in GroupCalls BY DEF SetEntry, GroupCalls
<1>3. CASE answer = "ok"
  <2>1. GroupOf[o] \in Groups /\ table \in Seq(Groups) BY DEF Groups, TableTyped
  <2>2. HostGroups' = HostGroups \cup {GroupOf[o]}
    BY <1>1, <1>3, <2>1, AppendSet DEF HostGroups
  <2> QED BY <1>1, <1>2, <1>3, <2>2, CallEnds DEF EndOp
<1>4. CASE answer # "ok"
  <2>1. HostGroups' = HostGroups BY <1>1, <1>4 DEF HostGroups
  <2> QED BY <1>1, <1>2, <1>4, <2>1, CallEnds DEF EndOp
<1> QED BY <1>3, <1>4

LEMMA SetSightedSeen ==
  ASSUME TableInv, ToldTypeOK, NEW o \in TableOps, SetSightedEntry(o)
  PROVE  Registry!Next
<1> USE DEF TableInv
<1>1. PICK answer \in Answers :
        /\ EndOp(o, "ok")
        /\ table' = IF answer = "ok" THEN table ELSE RemoveAt(table, at[o])
  BY DEF SetSightedEntry
<1>2. step[o] = "set" /\ o \in Sightings BY DEF SetSightedEntry
<1>3. UNCHANGED ToldToCalls
  <2>1. o \in Requests \ GroupCalls BY <1>2, TableAssumption DEF TableOps, GroupCalls
  <2> QED BY <1>1, <2>1, NotTold DEF EndOp
<1>4. HostGroups' \in {HostGroups, HostGroups \ {GroupOf[o]}}
  <2>1. CASE answer = "ok" BY <1>1, <2>1 DEF HostGroups
  <2>2. CASE answer # "ok"
    <3>1. /\ table \in Seq(Groups) /\ Len(table) \in Nat /\ Len(table) >= 1
          /\ at[o] = Len(table) /\ table[Len(table)] = GroupOf[o]
      BY <1>2, LenProperties DEF SightShape, Ahead, TableTyped
    <3> DEFINE n == Len(table)
               t == Front(table)
    <3>2. table # <<>> BY <3>1, EmptySeq
    <3>3. t \in Seq(Groups) /\ Len(t) = n - 1 /\ \A i \in 1 .. n - 1 : t[i] = table[i]
      BY <3>1, <3>2, FrontIsPrefix
    <3>4. table' = t BY <1>1, <2>2, <3>1, <3>2, RemoveAtLast
    <3>5. DOMAIN t = 1 .. n - 1 /\ DOMAIN table = 1 .. n BY <3>1, <3>3, LenProperties
    <3> HIDE DEF t
    <3>6. ToSet(t) = {table[i] : i \in 1 .. n - 1} BY <3>3, <3>5 DEF ToSet
    <3>7. \A i \in 1 .. n : i \in 1 .. n - 1 <=> table[i] # GroupOf[o]
      BY <3>1, <3>5 DEF GroupsOnce
    <3>8. 1 .. n - 1 \subseteq 1 .. n BY <3>1
    <3>9. ToSet(t) = ToSet(table) \ {GroupOf[o]} BY <3>5, <3>6, <3>7, <3>8 DEF ToSet
    <3> QED BY <3>4, <3>9 DEF HostGroups
  <2> QED BY <2>1, <2>2
<1> QED BY <1>1, <1>2, <1>3, <1>4, SightingEnds DEF EndOp

LEMMA MoveSeen ==
  ASSUME TableInv, ToldTypeOK, NEW o \in TableOps, MoveLast(o) \/ UndoMove(o)
  PROVE  Registry!Next \/ UNCHANGED registryVars
<1> USE DEF TableInv
<1>1. step[o] \in {"move", "undo"} /\ UNCHANGED table BY DEF MoveLast, UndoMove
<1>2. o \in Removes /\ o \in GroupCalls /\ o \notin Sightings
  BY <1>1, TableAssumption DEF RemoveShape, GroupCalls
<1>3. HostGroups' = HostGroups BY <1>1 DEF HostGroups
<1>4. \/ EndOp(o, "failed")
      \/ step' = [step EXCEPT ![o] = "clear"] /\ UNCHANGED told
  BY DEF MoveLast, UndoMove
<1>5. CASE EndOp(o, "failed") BY <1>1, <1>2, <1>3, <1>5, CallEnds DEF EndOp
<1>6. CASE step' = [step EXCEPT ![o] = "clear"] /\ UNCHANGED told
  BY <1>1, <1>2, <1>6, GoesOn
<1> QED BY <1>4, <1>5, <1>6

LEMMA ClearSeen ==
  ASSUME TableInv, ToldTypeOK, NEW o \in TableOps, ClearLast(o)
  PROVE  Registry!Next \/ UNCHANGED registryVars
<1> USE DEF TableInv
<1>1. PICK answer \in Answers :
        /\ IF answer = "refused" /\ at[o] # LastIndex
             THEN step' = [step EXCEPT ![o] = "undo"] /\ UNCHANGED told
             ELSE EndOp(o, IF answer = "ok" THEN "ok" ELSE "failed")
        /\ table' = IF answer = "ok"
                      THEN Front([table EXCEPT ![at[o]] = table[LastIndex]])
                      ELSE table
  BY DEF ClearLast
<1>2. step[o] = "clear" BY DEF ClearLast
<1>3. o \in Removes /\ at[o] \in 1 .. Len(table) /\ table[at[o]] = GroupOf[o]
  BY <1>2 DEF RemoveShape
<1>4. o \in GroupCalls /\ o \notin Sightings BY <1>3, TableAssumption DEF GroupCalls
<1>5. CASE answer = "ok"
  <2> DEFINE n == Len(table)
             k == at[o]
             t == Front([table EXCEPT ![k] = table[n]])
  <2>1. table \in Seq(Groups) BY DEF TableTyped
  <2>2. n \in Nat /\ DOMAIN table = 1 .. n BY <2>1, LenProperties
  <2>3. /\ t \in Seq(Groups) /\ Len(t) = n - 1
        /\ \A i \in 1 .. n - 1 : t[i] = IF i = k THEN table[n] ELSE table[i]
    BY <1>3, Compacted
  <2>4. table' = t BY <1>1, <1>5 DEF LastIndex
  <2>5. DOMAIN t = 1 .. n - 1 BY <2>3, LenProperties
  <2> HIDE DEF t, n
  <2>6. n >= 1 /\ k \in 1 .. n /\ n \in 1 .. n BY <1>3, <2>2
  <2>7. \A i \in 1 .. n : table[i] # GroupOf[o] <=> i # k BY <1>3, <2>2 DEF GroupsOnce
  <2>8. ToSet(t) \subseteq ToSet(table) \ {GroupOf[o]}
    <3> SUFFICES ASSUME NEW i \in 1 .. n - 1
                 PROVE  t[i] \in ToSet(table) /\ t[i] # GroupOf[o]
      BY <2>5 DEF ToSet
    <3>1. i \in 1 .. n /\ i # n BY <2>2
    <3> QED BY <2>2, <2>3, <2>6, <2>7, <3>1 DEF ToSet
  <2>9. ToSet(table) \ {GroupOf[o]} \subseteq ToSet(t)
    <3> SUFFICES ASSUME NEW i \in 1 .. n, i # k PROVE table[i] \in ToSet(t)
      BY <2>2, <2>7 DEF ToSet
    <3>1. CASE i = n
      <4>1. k \in 1 .. n - 1 BY <2>2, <2>6, <3>1
      <4> QED BY <2>3, <2>5, <3>1, <4>1 DEF ToSet
    <3>2. CASE i # n
      <4>1. i \in 1 .. n - 1 BY <2>2, <3>2
      <4> QED BY <2>3, <2>5, <4>1 DEF ToSet
    <3> QED BY <3>1, <3>2
  <2>10. GroupOf[o] \notin Protected BY <1>2, <1>3 DEF Unprotected
  <2>11. HostGroups' = HostGroups \ ({GroupOf[o]} \ Protected)
    BY <2>4, <2>8, <2>9, <2>10 DEF HostGroups
  <2> QED BY <1>1, <1>2, <1>3, <1>4, <1>5, <2>11, CallEnds DEF EndOp
<1>6. CASE answer # "ok"
  <2>1. HostGroups' = HostGroups /\ UNCHANGED table BY <1>1, <1>6 DEF HostGroups
  <2>2. CASE EndOp(o, "failed") BY <1>2, <1>4, <2>1, <2>2, CallEnds DEF EndOp
  <2>3. CASE step' = [step EXCEPT ![o] = "undo"] /\ UNCHANGED told
    BY <1>2, <1>4, <2>1, <2>3, GoesOn
  <2> QED BY <1>1, <1>6, <2>2, <2>3
<1> QED BY <1>5, <1>6

LEMMA RegistryStep ==
  ASSUME TableInv, ToldTypeOK, [Next]_vars
  PROVE  Registry!Next \/ UNCHANGED registryVars
<1>1. ASSUME NEW o \in TableOps, OpStep(o) PROVE Registry!Next \/ UNCHANGED registryVars
  <2>1. CASE o \in GroupCalls /\ GroupTimer(o)
    BY <2>1, CallerGivesUp DEF GroupTimer, tableVars
  <2> QED
    BY <1>1, <2>1, TakeLockSeen, OpBeginSeen, SetSeen, SetSightedSeen, MoveSeen, ClearSeen
       DEF OpStep
<1>2. ASSUME NEW o \in TableOps, OpEvent(o) PROVE Registry!Next \/ UNCHANGED registryVars
  <2>1. CASE o \in GroupCalls /\ CancelGroup(o)
    BY <2>1, CallerGivesUp DEF CancelGroup, tableVars
  <2> QED BY <1>2, <2>1, OpCallSeen DEF OpEvent
<1>3. ASSUME NEW r \in NodeCalls, NodeStep(r) \/ NodeEvent(r), UNCHANGED tableVars
      PROVE  UNCHANGED registryVars
  BY <1>3, NodeTells, TableAlone DEF tableVars
<1>4. CASE UNCHANGED <<tableVars, told>>
  BY <1>4, TableAlone DEF tableVars, ToldToCalls
<1>5. CASE LoseRadio /\ UNCHANGED tableVars
  BY <1>4, <1>5 DEF LoseRadio, callerVars
<1>6. CASE UNCHANGED vars BY <1>4, <1>6 DEF vars, callerVars
<1> QED BY <1>1, <1>2, <1>3, <1>5, <1>6 DEF Next, Progress, Event

\* Binding and unbinding groups implements GroupRegistry, for every set of
\* calls and sightings and every size of the NCP's table: each call takes
\* effect in one step, is told success in that step only, and changes nothing
\* when it fails.
THEOREM ImplementsGroupRegistry == Spec => CallsTakeEffectOnce
<1>1. Init => Registry!Init
  <2> SUFFICES ASSUME Init PROVE Registry!Init OBVIOUS
  <2> USE TableAssumption DEF Init, TableInit, QueueInit
  <2>1. GroupCalls \subseteq Requests BY DEF TableOps
  <2>2. ToldToCalls = [o \in GroupCalls |-> "nothing"] BY <2>1 DEF ToldToCalls
  <2>3. Over = {} /\ Unconfirmed = {} BY DEF Over, Unconfirmed, TableOps
  <2> QED BY <2>2, <2>3
     DEF Registry!Init, Registry!Calls, GroupCalls, ToldToCalls, Over, Unconfirmed
<1>2. TableInv /\ FrameInv /\ [Next]_vars => [Registry!Next]_registryVars
  BY RegistryStep DEF FrameInv
<1> QED
  BY <1>1, <1>2, TableInvInit, TableInvStep, FrameInvInit, FrameInvStep, PTL
     DEF Spec, CallsTakeEffectOnce, Registry!Spec, registryVars, HostGroups, ToldToCalls, Over,
         Unconfirmed
=============================================================================
