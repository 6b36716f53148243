---------------------- MODULE FragmentReassemblyProofs ----------------------
(***************************************************************************)
(* Theorems about FragmentReassembly, for any messages, lengths, keys,     *)
(* clocks and limits that satisfy FragmentAssumption.  Everything rests on *)
(* time: what the radio holds is at most Delay old, a block is repeated    *)
(* for Patience, and a key is used again only when its last message is     *)
(* over for Ttl + Delay.                                                   *)
(***************************************************************************)
EXTENDS FragmentReassembly, FiniteSetTheorems, SequenceTheorems, TLAPS

Block == [msg : Messages, index : Nat]

Prefix(m, n) == [i \in 1 .. n |-> [msg |-> m, index |-> i - 1]]

LEMMA Bounds == /\ Ttl \in Nat /\ Patience \in Nat /\ Delay \in Nat /\ MaxFragmented \in Nat
                /\ Patience + Delay < Ttl
BY FragmentAssumption

LEMMA TotalType ==
  ASSUME NEW m \in Messages
  PROVE  Total(m) \in Nat /\ Total(m) >= 1
<1>1. LengthsOf[m] \in Seq(Nat) /\ LengthsOf[m] # <<>> BY FragmentAssumption
<1> QED BY <1>1, EmptySeq, LenProperties DEF Total

LEMMA PrefixType ==
  ASSUME NEW m \in Messages, NEW n \in Nat
  PROVE  Prefix(m, n) \in Seq(Block) /\ Len(Prefix(m, n)) = n
<1>1. \A i \in 1 .. n : [msg |-> m, index |-> i - 1] \in Block BY DEF Block
<1>2. Prefix(m, n) \in [1 .. n -> Block] BY <1>1 DEF Prefix
<1>3. Prefix(m, n) \in Seq(Block) BY <1>2
<1> QED BY <1>2, <1>3

LEMMA PrefixAppend ==
  ASSUME NEW m \in Messages, NEW n \in Nat
  PROVE  Append(Prefix(m, n), [msg |-> m, index |-> n]) = Prefix(m, n + 1)
<1> DEFINE b == [msg |-> m, index |-> n]
<1> DEFINE s == Prefix(m, n)
<1> DEFINE t == Prefix(m, n + 1)
<1>1. /\ s \in Seq(Block) /\ Len(s) = n /\ t \in Seq(Block) /\ Len(t) = n + 1
      /\ b \in Block
  <2>1. n + 1 \in Nat OBVIOUS
  <2>2. s \in Seq(Block) /\ Len(s) = n BY PrefixType
  <2>3. t \in Seq(Block) /\ Len(t) = n + 1 BY <2>1, PrefixType
  <2>4. b \in Block BY DEF Block
  <2> QED BY <2>2, <2>3, <2>4
<1>2. /\ \A i \in 1 .. n : s[i] = t[i]
      /\ t[n + 1] = b
  <2>1. \A i \in 1 .. n : s[i] = t[i] BY DEF Prefix
  <2>2. t[n + 1] = [msg |-> m, index |-> (n + 1) - 1] BY DEF Prefix
  <2>3. (n + 1) - 1 = n OBVIOUS
  <2> QED BY <2>1, <2>2, <2>3
<1> HIDE DEF b, s, t
<1>3. /\ Append(s, b) \in Seq(Block) /\ Len(Append(s, b)) = n + 1
      /\ Append(s, b)[n + 1] = b /\ \A i \in 1 .. n : Append(s, b)[i] = s[i]
  BY <1>1, AppendProperties
<1>4. \A i \in 1 .. n + 1 : Append(s, b)[i] = t[i] BY <1>1, <1>2, <1>3
<1>5. Append(s, b) = t BY <1>1, <1>3, <1>4, SeqEqual
<1> QED BY <1>5 DEF s, t, b

LEMMA PrefixOwner ==
  ASSUME NEW m \in Messages, NEW n \in Nat \ {0}, NEW q \in Messages, NEW l \in Nat,
         Prefix(m, n) = Prefix(q, l)
  PROVE  m = q /\ n = l
<1>1. n = l BY PrefixType
<1>2. Prefix(m, n)[1].msg = m BY DEF Prefix
<1>3. Prefix(q, n)[1].msg = q BY DEF Prefix
<1> QED BY <1>1, <1>2, <1>3

LEMMA PayloadIsPrefix ==
  ASSUME NEW m \in Messages
  PROVE  Payload(m) = Prefix(m, Total(m))
BY DEF Payload, Prefix

LEMMA PrefixOfPayload ==
  ASSUME NEW m \in Messages, NEW n \in 0 .. Total(m)
  PROVE  SubSeq(Payload(m), 1, n) = Prefix(m, n)
<1>1. Total(m) \in Nat BY TotalType
<1> DEFINE s == Payload(m)
<1>2. s \in Seq(Block) /\ Len(s) = Total(m) BY <1>1, PayloadIsPrefix, PrefixType
<1>3. \A i \in 1 .. n : s[i] = Prefix(m, n)[i] BY <1>1 DEF Payload, Prefix
<1>4. Prefix(m, n) \in Seq(Block) /\ Len(Prefix(m, n)) = n BY <1>1, PrefixType
<1> HIDE DEF s
<1>5. /\ SubSeq(s, 1, n) \in Seq(Block) /\ Len(SubSeq(s, 1, n)) = n
      /\ \A i \in 1 .. n : SubSeq(s, 1, n)[i] = s[i]
  BY <1>1, <1>2
<1>6. SubSeq(s, 1, n) = Prefix(m, n)
  <2>1. \A i \in 1 .. n : SubSeq(s, 1, n)[i] = Prefix(m, n)[i] BY <1>3, <1>5
  <2>2. Len(SubSeq(s, 1, n)) = Len(Prefix(m, n)) BY <1>4, <1>5
  <2> QED BY <1>4, <1>5, <2>1, <2>2, SeqEqual
<1> QED BY <1>6 DEF s
-----------------------------------------------------------------------------
(* The inductive invariant. *)

Sent(m) == Payload(m) \in Range(delivered)
Begun(m) == sender[m].at # "idle"
Finished(m) == sender[m].at \in {"sent", "gaveUp"}
AtFirst(m) == sender[m].at = "sending" /\ sender[m].block = 0

(* The APS sequence of m may be used again. *)
Old(m) == Finished(m) /\ clock >= sender[m].since + Ttl + Delay

TypeInv ==
  /\ clock \in Nat
  /\ sender \in [Messages -> [at : {"idle", "sending", "sent", "gaveUp"},
                              block : Nat, since : Nat]]
  /\ \A m \in Messages : sender[m].since <= clock
  /\ fragments \in [Keys -> [total : Nat, blocks : Seq(Block), startedAt : Nat]]
  /\ delivered \in Seq(Seq(Block))
  /\ air \subseteq [msg : Messages, index : Nat, at : Nat]
  /\ acks \subseteq [key : Keys, index : Nat, at : Nat]

(* Of two messages under one key, one is over for long. *)
Separated ==
  \A m, n \in Messages :
    KeyOf[m] = KeyOf[n] /\ m # n /\ Begun(m) /\ Begun(n) => Old(m) \/ Old(n)

(* What the radio holds is fresh. *)
FreshAir ==
  \A p \in air : /\ p.at <= clock /\ clock <= p.at + Delay
                 /\ Begun(p.msg)
                 /\ Finished(p.msg) => p.at <= sender[p.msg].since

(* An ACK of a last block was earned. *)
EarnedAck(a, m) ==
  /\ KeyOf[m] = a.key
  /\ Begun(m)
  /\ Finished(m) => a.at <= sender[m].since + Delay
  /\ a.index + 1 = Total(m) => Sent(m)

HonestAcks ==
  \A a \in acks : /\ a.at <= clock /\ clock <= a.at + Delay
                  /\ \E m \in Messages : EarnedAck(a, m)

(* The entry holds the first n blocks of m. *)
Holds(e, m, n) ==
  /\ e.total = Total(m)
  /\ e.blocks = Prefix(m, n)
  /\ \A i \in 2 .. n : i < Total(m) => LengthsOf[m][i] = LengthsOf[m][1]
  /\ n = Total(m) => Sent(m)

(* The entry is no older than its message's first block, and no younger    *)
(* than what was sent of that one.                                         *)
InTime(e, m) ==
  /\ e.startedAt <= clock
  /\ Finished(m) => e.startedAt <= sender[m].since + Delay
  /\ AtFirst(m) => sender[m].since <= e.startedAt
  /\ \A p \in air : p.msg = m /\ p.index = 0 => p.at <= e.startedAt + Patience

EntryOf(k, m) ==
  /\ KeyOf[m] = k /\ Begun(m)
  /\ \E n \in 1 .. Total(m) : Holds(fragments[k], m, n)
  /\ InTime(fragments[k], m)

Entries == \A k \in Keys : fragments[k] # Absent => \E m \in Messages : EntryOf(k, m)

(* The first block of m does not come again. *)
PastFirst(m) ==
  /\ \A p \in air : p.msg = m => p.index # 0
  /\ AtFirst(m) => clock > sender[m].since + Patience

Keeps(k, m) == \E n \in 1 .. Total(m) : fragments[k].blocks = Prefix(m, n)

(* A delivered message is still known, or cannot begin again. *)
Remembered ==
  \A m \in Messages : Sent(m) =>
    /\ Begun(m)
    /\ \/ Holds(fragments[KeyOf[m]], m, Total(m))
       \/ PastFirst(m) /\ ~Keeps(KeyOf[m], m)

Heard == \A m \in Messages : sender[m].at = "sent" => Sent(m)

Limited == /\ IsFiniteSet({k \in Keys : fragments[k] # Absent})
           /\ Cardinality({k \in Keys : fragments[k] # Absent}) <= MaxFragmented

IInv == /\ TypeInv /\ Separated /\ FreshAir /\ HonestAcks /\ Entries /\ Remembered
        /\ Heard /\ Limited

-----------------------------------------------------------------------------
(* The senders and the radio keep it. *)

LEMMA BeginStep ==
  ASSUME IInv, NEW m \in Messages, Begin(m)
  PROVE  IInv'
<1> USE FragmentAssumption DEF IInv
<1>1. /\ sender' = [sender EXCEPT ![m] = [at |-> "sending", block |-> 0, since |-> clock]]
      /\ air' = air \cup {[msg |-> m, index |-> 0, at |-> clock]}
      /\ UNCHANGED <<clock, fragments, delivered, acks>>
      /\ ~Begun(m)
      /\ \A n \in Messages \ {m} : KeyOf[n] = KeyOf[m] => ~Begun(n) \/ Old(n)
  <2>1. \A n \in Messages : sender[n].since \in Nat /\ sender[n].since <= clock /\ clock \in Nat
    BY DEF TypeInv
  <2>2. ASSUME NEW n \in Messages, clock - sender[n].since >= Ttl + Delay
        PROVE  clock >= sender[n].since + Ttl + Delay
    <3>1. ASSUME NEW a \in Nat, NEW b \in Nat, NEW t \in Nat, NEW d \in Nat, a - b >= t + d
          PROVE  a >= b + t + d
      BY <3>1
    <3> QED BY <2>1, <2>2, <3>1, Bounds
  <2> QED BY <2>2 DEF Begin, Sending, Begun, Old, Finished, hostVars
<1>2. /\ sender'[m] = [at |-> "sending", block |-> 0, since |-> clock]
      /\ \A n \in Messages \ {m} : sender'[n] = sender[n]
  <2>1. DOMAIN sender = Messages BY DEF TypeInv
  <2> QED BY <1>1, <2>1
<1>3. TypeInv'
  <2>1. clock \in Nat BY DEF TypeInv
  <2>2. [at |-> "sending", block |-> 0, since |-> clock] \in
          [at : {"idle", "sending", "sent", "gaveUp"}, block : Nat, since : Nat]
    BY <2>1
  <2>3. /\ sender' \in [Messages -> [at : {"idle", "sending", "sent", "gaveUp"},
                                     block : Nat, since : Nat]]
        /\ \A n \in Messages : sender'[n].since <= clock
    <3> DEFINE begins == [at |-> "sending", block |-> 0, since |-> clock]
    <3>1. begins.since = clock /\ clock <= clock BY <2>1
    <3>2. sender' = [sender EXCEPT ![m] = begins] /\ sender'[m] = begins BY <1>1, <1>2
    <3> HIDE DEF begins
    <3>3. sender' \in [Messages -> [at : {"idle", "sending", "sent", "gaveUp"},
                                   block : Nat, since : Nat]]
      BY <2>2, <3>2 DEF TypeInv, begins
    <3>4. ASSUME NEW n \in Messages PROVE sender'[n].since <= clock
      BY <1>2, <3>1, <3>2 DEF TypeInv
    <3> QED BY <3>3, <3>4
  <2>4. air' \subseteq [msg : Messages, index : Nat, at : Nat]
    <3>1. [msg |-> m, index |-> 0, at |-> clock] \in [msg : Messages, index : Nat, at : Nat]
      BY <2>1
    <3> QED BY <1>1, <3>1 DEF TypeInv
  <2> QED BY <1>1, <2>3, <2>4 DEF TypeInv
<1>4. \A n \in Messages \ {m} : /\ Begun(n)' = Begun(n) /\ Finished(n)' = Finished(n)
                                /\ AtFirst(n)' = AtFirst(n) /\ Old(n)' = Old(n)
  BY <1>1, <1>2 DEF Begun, Finished, AtFirst, Old
<1>5. Begun(m)' /\ ~Finished(m)' BY <1>2 DEF Begun, Finished
<1>6. Separated' BY <1>1, <1>4 DEF Separated
<1>7. FreshAir'
  <2> SUFFICES ASSUME NEW p \in air'
               PROVE  /\ p.at <= clock /\ clock <= p.at + Delay /\ Begun(p.msg)'
                      /\ Finished(p.msg)' => p.at <= sender'[p.msg].since
    BY <1>1 DEF FreshAir
  <2>1. CASE p \in air
    <3>1. Begun(p.msg) /\ p.msg \in Messages BY <2>1 DEF FreshAir, TypeInv
    <3>2. p.msg # m BY <1>1, <3>1
    <3> QED BY <1>2, <1>4, <2>1, <3>1, <3>2 DEF FreshAir
  <2>2. CASE p = [msg |-> m, index |-> 0, at |-> clock]
    <3>1. p.at = clock /\ p.msg = m BY <2>2
    <3>2. clock \in Nat BY DEF TypeInv
    <3> QED BY <1>5, <3>1, <3>2, Bounds
  <2> QED BY <1>1, <2>1, <2>2
<1>8. \A n \in Messages : Sent(n)' = Sent(n) BY <1>1 DEF Sent
<1>9. HonestAcks' BY <1>1, <1>2, <1>4, <1>8 DEF HonestAcks, EarnedAck
<1>10. \A p \in air' : p.msg # m => p \in air BY <1>1
<1>11. Entries'
  <2> SUFFICES ASSUME NEW k \in Keys, fragments[k] # Absent
               PROVE  \E n \in Messages : EntryOf(k, n)'
    BY <1>1 DEF Entries
  <2>1. PICK n \in Messages : EntryOf(k, n) BY DEF Entries
  <2>2. n # m BY <1>1, <2>1 DEF EntryOf
  <2>3. InTime(fragments[k], n)' BY <1>1, <1>2, <1>4, <1>10, <2>1, <2>2 DEF EntryOf, InTime
  <2>4. \A l : Holds(fragments[k], n, l)' = Holds(fragments[k], n, l)
    BY <1>1, <1>8 DEF Holds
  <2> QED BY <1>1, <1>4, <2>1, <2>2, <2>3, <2>4 DEF EntryOf
<1>12. Remembered'
  <2> SUFFICES ASSUME NEW n \in Messages, Sent(n)
               PROVE  /\ Begun(n)'
                      /\ \/ Holds(fragments[KeyOf[n]], n, Total(n))'
                         \/ PastFirst(n)' /\ ~Keeps(KeyOf[n], n)'
    BY <1>8 DEF Remembered
  <2>1. n # m BY <1>1 DEF Remembered
  <2>2. PastFirst(n) => PastFirst(n)'
    BY <1>1, <1>2, <1>4, <1>10, <2>1 DEF PastFirst
  <2>3. Keeps(KeyOf[n], n)' = Keeps(KeyOf[n], n) BY <1>1 DEF Keeps
  <2>4. Holds(fragments[KeyOf[n]], n, Total(n))' = Holds(fragments[KeyOf[n]], n, Total(n))
    BY <1>1, <1>8 DEF Holds
  <2> QED BY <1>4, <2>1, <2>2, <2>3, <2>4 DEF Remembered
<1>13. Heard'
  <2>1. sender'[m].at # "sent" BY <1>2
  <2> QED BY <1>2, <1>8, <2>1 DEF Heard
<1>14. Limited' BY <1>1 DEF Limited
<1> QED BY <1>3, <1>6, <1>7, <1>9, <1>11, <1>12, <1>13, <1>14

LEMMA ResendStep ==
  ASSUME IInv, NEW m \in Messages, Resend(m)
  PROVE  IInv'
<1> USE DEF IInv
<1> DEFINE new == [msg |-> m, index |-> sender[m].block, at |-> clock]
<1>1. /\ air' = air \cup {new}
      /\ UNCHANGED <<clock, fragments, delivered, sender, acks>>
      /\ sender[m].at = "sending"
  BY DEF Resend, hostVars
<1>2. /\ clock \in Nat /\ sender[m].since \in Nat /\ sender[m].block \in Nat
      /\ clock <= sender[m].since + Patience
  <2>1. clock \in Nat /\ sender[m].since \in Nat /\ sender[m].block \in Nat
        /\ clock - sender[m].since <= Patience
    BY DEF TypeInv, Resend
  <2> QED BY <2>1, Bounds
<1>3. new.msg = m /\ new.index = sender[m].block /\ new.at = clock OBVIOUS
<1>4. TypeInv'
  <2>1. new \in [msg : Messages, index : Nat, at : Nat] BY <1>2
  <2> QED BY <1>1, <2>1 DEF TypeInv
<1> HIDE DEF new
<1>5. \A n \in Messages : /\ Begun(n)' = Begun(n) /\ Finished(n)' = Finished(n)
                          /\ AtFirst(n)' = AtFirst(n) /\ Old(n)' = Old(n) /\ Sent(n)' = Sent(n)
  BY <1>1 DEF Begun, Finished, AtFirst, Old, Sent
<1>6. Separated' BY <1>1, <1>5 DEF Separated
<1>7. Begun(m) /\ ~Finished(m) BY <1>1 DEF Begun, Finished
<1>8. FreshAir'
  <2> SUFFICES ASSUME NEW p \in air'
               PROVE  /\ p.at <= clock /\ clock <= p.at + Delay /\ Begun(p.msg)'
                      /\ Finished(p.msg)' => p.at <= sender'[p.msg].since
    BY <1>1 DEF FreshAir
  <2>1. CASE p \in air
    <3>1. p.msg \in Messages BY <2>1 DEF TypeInv
    <3> QED BY <1>1, <1>5, <2>1, <3>1 DEF FreshAir
  <2>2. CASE p = new BY <1>2, <1>3, <1>5, <1>7, <2>2, Bounds
  <2> QED BY <1>1, <2>1, <2>2
<1>9. HonestAcks' BY <1>1, <1>5 DEF HonestAcks, EarnedAck
<1>10. Entries'
  <2> SUFFICES ASSUME NEW k \in Keys, fragments[k] # Absent
               PROVE  \E n \in Messages : EntryOf(k, n)'
    BY <1>1 DEF Entries
  <2>1. PICK n \in Messages : EntryOf(k, n) BY DEF Entries
  <2> DEFINE e == fragments[k]
  <2>2. e.startedAt \in Nat BY DEF TypeInv
  <2>3. InTime(e, n) BY <2>1 DEF EntryOf
  <2>4. n = m /\ new.index = 0 => new.at <= e.startedAt + Patience
    <3>1. SUFFICES ASSUME n = m, new.index = 0 PROVE clock <= e.startedAt + Patience BY <1>3
    <3>2. AtFirst(m) BY <1>1, <1>3, <3>1 DEF AtFirst
    <3>3. sender[m].since <= e.startedAt BY <2>3, <3>1, <3>2 DEF InTime
    <3> QED BY <1>2, <2>2, <3>3, Bounds
  <2>5. InTime(e, n)'
    <3>1. \A p \in air' : p.msg = n /\ p.index = 0 => p.at <= e.startedAt + Patience
      BY <1>1, <1>3, <2>3, <2>4 DEF InTime
    <3> QED BY <1>1, <1>5, <2>3, <3>1 DEF InTime
  <2>6. \A l : Holds(e, n, l)' = Holds(e, n, l) BY <1>1, <1>5 DEF Holds
  <2> QED BY <1>1, <1>5, <2>1, <2>5, <2>6 DEF EntryOf
<1>11. Remembered'
  <2> SUFFICES ASSUME NEW n \in Messages, Sent(n)
               PROVE  /\ Begun(n)'
                      /\ \/ Holds(fragments[KeyOf[n]], n, Total(n))'
                         \/ PastFirst(n)' /\ ~Keeps(KeyOf[n], n)'
    BY <1>5 DEF Remembered
  <2>1. PastFirst(n) => PastFirst(n)'
    <3> SUFFICES ASSUME PastFirst(n) PROVE PastFirst(n)' OBVIOUS
    <3>1. n = m => new.index # 0
      <4> SUFFICES ASSUME n = m, new.index = 0 PROVE FALSE OBVIOUS
      <4>1. AtFirst(m) BY <1>1, <1>3 DEF AtFirst
      <4>2. clock > sender[m].since + Patience BY <4>1 DEF PastFirst
      <4> QED BY <1>2, <4>2, Bounds
    <3> QED BY <1>1, <1>3, <1>5, <3>1 DEF PastFirst
  <2>2. Keeps(KeyOf[n], n)' = Keeps(KeyOf[n], n) BY <1>1 DEF Keeps
  <2>3. Holds(fragments[KeyOf[n]], n, Total(n))' = Holds(fragments[KeyOf[n]], n, Total(n))
    BY <1>1, <1>5 DEF Holds
  <2> QED BY <1>5, <2>1, <2>2, <2>3 DEF Remembered
<1>12. Heard' BY <1>1, <1>5 DEF Heard
<1>13. Limited' BY <1>1 DEF Limited
<1> QED BY <1>4, <1>6, <1>8, <1>9, <1>10, <1>11, <1>12, <1>13

LEMMA FinishStep ==
  ASSUME IInv, NEW m \in Messages, NEW how \in {"sent", "gaveUp"},
         sender[m].at = "sending", Finish(m, how), how = "sent" => Sent(m),
         UNCHANGED <<clock, fragments, delivered, acks>>
  PROVE  IInv'
<1> USE DEF IInv
<1>1. /\ sender' = [sender EXCEPT ![m].at = how, ![m].since = clock]
      /\ UNCHANGED air
  BY DEF Finish
<1>2. /\ sender'[m].at = how /\ sender'[m].since = clock
      /\ \A n \in Messages \ {m} : sender'[n] = sender[n]
  BY <1>1 DEF TypeInv
<1>3. TypeInv'
  <2>1. clock \in Nat /\ sender[m] \in [at : {"idle", "sending", "sent", "gaveUp"},
                                        block : Nat, since : Nat]
    BY DEF TypeInv
  <2>2. sender' \in [Messages -> [at : {"idle", "sending", "sent", "gaveUp"},
                                  block : Nat, since : Nat]]
    BY <1>1, <2>1 DEF TypeInv
  <2>3. sender'[m].since <= clock BY <1>2, <2>1
  <2>4. \A n \in Messages \ {m} : sender'[n].since <= clock BY <1>2 DEF TypeInv
  <2> QED BY <1>1, <2>2, <2>3, <2>4 DEF TypeInv
<1>4. /\ \A n \in Messages \ {m} : /\ Finished(n)' = Finished(n) /\ AtFirst(n)' = AtFirst(n)
                                   /\ Old(n)' = Old(n)
      /\ \A n \in Messages : Begun(n)' = Begun(n) /\ Sent(n)' = Sent(n)
  BY <1>1, <1>2 DEF Begun, Finished, AtFirst, Old, Sent
<1>5. ~Old(m) /\ ~AtFirst(m)' BY <1>2 DEF Old, Finished, AtFirst
<1>6. Separated' BY <1>4, <1>5 DEF Separated
<1>7. FreshAir'
  <2> SUFFICES ASSUME NEW p \in air
               PROVE  /\ p.at <= clock /\ clock <= p.at + Delay /\ Begun(p.msg)'
                      /\ Finished(p.msg)' => p.at <= sender'[p.msg].since
    BY <1>1 DEF FreshAir
  <2>1. p.msg \in Messages BY DEF TypeInv
  <2> QED BY <1>2, <1>4, <2>1 DEF FreshAir
<1>8. HonestAcks'
  <2> SUFFICES ASSUME NEW a \in acks
               PROVE  /\ a.at <= clock /\ clock <= a.at + Delay
                      /\ \E n \in Messages : EarnedAck(a, n)'
    BY DEF HonestAcks
  <2>1. PICK n \in Messages : EarnedAck(a, n) BY DEF HonestAcks
  <2>2. a.at <= clock /\ clock \in Nat /\ a.at \in Nat BY DEF HonestAcks, TypeInv
  <2>3. n = m => a.at <= sender'[m].since + Delay BY <1>2, <2>2, Bounds
  <2>4. EarnedAck(a, n)' BY <1>2, <1>4, <2>1, <2>3 DEF EarnedAck
  <2> QED BY <2>4 DEF HonestAcks
<1>9. Entries'
  <2> SUFFICES ASSUME NEW k \in Keys, fragments[k] # Absent
               PROVE  \E n \in Messages : EntryOf(k, n)'
    BY DEF Entries
  <2>1. PICK n \in Messages : EntryOf(k, n) BY DEF Entries
  <2> DEFINE e == fragments[k]
  <2>2. e.startedAt <= clock /\ clock \in Nat /\ e.startedAt \in Nat
    BY <2>1 DEF TypeInv, EntryOf, InTime
  <2>3. n = m => e.startedAt <= sender'[m].since + Delay BY <1>2, <2>2, Bounds
  <2>4. InTime(e, n)' BY <1>1, <1>2, <1>4, <1>5, <2>1, <2>3 DEF EntryOf, InTime
  <2>5. \A l : Holds(e, n, l)' = Holds(e, n, l) BY <1>4 DEF Holds
  <2> QED BY <1>4, <2>1, <2>4, <2>5 DEF EntryOf
<1>10. Remembered'
  <2> SUFFICES ASSUME NEW n \in Messages, Sent(n)
               PROVE  /\ Begun(n)'
                      /\ \/ Holds(fragments[KeyOf[n]], n, Total(n))'
                         \/ PastFirst(n)' /\ ~Keeps(KeyOf[n], n)'
    BY <1>4 DEF Remembered
  <2>1. PastFirst(n) => PastFirst(n)' BY <1>1, <1>2, <1>4, <1>5 DEF PastFirst
  <2>2. Keeps(KeyOf[n], n)' = Keeps(KeyOf[n], n) BY DEF Keeps
  <2>3. Holds(fragments[KeyOf[n]], n, Total(n))' = Holds(fragments[KeyOf[n]], n, Total(n))
    BY <1>4 DEF Holds
  <2> QED BY <1>4, <2>1, <2>2, <2>3 DEF Remembered
<1>11. Heard' BY <1>2, <1>4 DEF Heard
<1>12. Limited' BY DEF Limited
<1> QED BY <1>3, <1>6, <1>7, <1>8, <1>9, <1>10, <1>11, <1>12

LEMMA SendNextStep ==
  ASSUME IInv, NEW m \in Messages, sender[m].at = "sending",
         Sending(m, sender[m].block + 1), UNCHANGED <<clock, fragments, delivered, acks>>
  PROVE  IInv'
<1> USE DEF IInv
<1> DEFINE i == sender[m].block + 1
           new == [msg |-> m, index |-> i, at |-> clock]
<1>1. /\ sender' = [sender EXCEPT ![m] = [at |-> "sending", block |-> i, since |-> clock]]
      /\ air' = air \cup {new}
  BY DEF Sending
<1>2. i \in Nat /\ i # 0 /\ clock \in Nat
  <2>1. sender[m].block \in Nat /\ clock \in Nat BY DEF TypeInv
  <2> QED BY <2>1
<1>3. new.msg = m /\ new.index = i /\ new.at = clock OBVIOUS
<1>4. /\ new \in [msg : Messages, index : Nat, at : Nat]
      /\ [at |-> "sending", block |-> i, since |-> clock] \in
           [at : {"idle", "sending", "sent", "gaveUp"}, block : Nat, since : Nat]
  BY <1>2
<1> HIDE DEF i, new
<1>5. /\ sender'[m] = [at |-> "sending", block |-> i, since |-> clock]
      /\ \A n \in Messages \ {m} : sender'[n] = sender[n]
  <2>1. DOMAIN sender = Messages BY DEF TypeInv
  <2> QED BY <1>1, <2>1
<1>6. TypeInv'
  <2>1. sender' \in [Messages -> [at : {"idle", "sending", "sent", "gaveUp"},
                                  block : Nat, since : Nat]]
    BY <1>1, <1>4 DEF TypeInv
  <2>2. sender'[m].since <= clock BY <1>2, <1>5
  <2>3. \A n \in Messages \ {m} : sender'[n].since <= clock BY <1>5 DEF TypeInv
  <2>4. air' \subseteq [msg : Messages, index : Nat, at : Nat] BY <1>1, <1>4 DEF TypeInv
  <2> QED BY <2>1, <2>2, <2>3, <2>4 DEF TypeInv
<1>7. /\ \A n \in Messages \ {m} : AtFirst(n)' = AtFirst(n)
      /\ \A n \in Messages : /\ Begun(n)' = Begun(n) /\ Finished(n)' = Finished(n)
                             /\ Old(n)' = Old(n) /\ Sent(n)' = Sent(n)
  <2>1. sender'[m].at = "sending" BY <1>5
  <2> QED BY <1>5, <2>1 DEF Begun, Finished, AtFirst, Old, Sent
<1>8. Begun(m) /\ ~Finished(m) /\ ~AtFirst(m)'
  <2>1. sender'[m].block = i BY <1>5
  <2> QED BY <1>2, <2>1 DEF Begun, Finished, AtFirst
<1>9. Separated' BY <1>7 DEF Separated
<1>10. FreshAir'
  <2> SUFFICES ASSUME NEW p \in air'
               PROVE  /\ p.at <= clock /\ clock <= p.at + Delay /\ Begun(p.msg)'
                      /\ Finished(p.msg)' => p.at <= sender'[p.msg].since
    BY DEF FreshAir
  <2>1. CASE p \in air
    <3>1. p.msg \in Messages BY <2>1 DEF TypeInv
    <3> QED BY <1>5, <1>7, <1>8, <2>1, <3>1 DEF FreshAir
  <2>2. CASE p = new BY <1>2, <1>3, <1>7, <1>8, <2>2, Bounds
  <2> QED BY <1>1, <2>1, <2>2
<1>11. HonestAcks' BY <1>5, <1>7, <1>8 DEF HonestAcks, EarnedAck
<1>12. \A p \in air' : p.index = 0 => p \in air BY <1>1, <1>2, <1>3
<1>13. Entries'
  <2> SUFFICES ASSUME NEW k \in Keys, fragments[k] # Absent
               PROVE  \E n \in Messages : EntryOf(k, n)'
    BY DEF Entries
  <2>1. PICK n \in Messages : EntryOf(k, n) BY DEF Entries
  <2>2. InTime(fragments[k], n)' BY <1>5, <1>7, <1>8, <1>12, <2>1 DEF EntryOf, InTime
  <2>3. \A l : Holds(fragments[k], n, l)' = Holds(fragments[k], n, l) BY <1>7 DEF Holds
  <2> QED BY <1>7, <2>1, <2>2, <2>3 DEF EntryOf
<1>14. Remembered'
  <2> SUFFICES ASSUME NEW n \in Messages, Sent(n)
               PROVE  /\ Begun(n)'
                      /\ \/ Holds(fragments[KeyOf[n]], n, Total(n))'
                         \/ PastFirst(n)' /\ ~Keeps(KeyOf[n], n)'
    BY <1>7 DEF Remembered
  <2>1. PastFirst(n) => PastFirst(n)' BY <1>5, <1>7, <1>8, <1>12 DEF PastFirst
  <2>2. Keeps(KeyOf[n], n)' = Keeps(KeyOf[n], n) BY DEF Keeps
  <2>3. Holds(fragments[KeyOf[n]], n, Total(n))' = Holds(fragments[KeyOf[n]], n, Total(n))
    BY <1>7 DEF Holds
  <2> QED BY <1>7, <2>1, <2>2, <2>3 DEF Remembered
<1>15. Heard'
  <2>1. sender'[m].at # "sent" BY <1>5
  <2> QED BY <1>5, <1>7, <2>1 DEF Heard
<1>16. Limited' BY DEF Limited
<1> QED BY <1>6, <1>9, <1>10, <1>11, <1>13, <1>14, <1>15, <1>16

(* An ACK under a sender's key is for its message. *)
LEMMA AckOwner ==
  ASSUME IInv, NEW m \in Messages, sender[m].at = "sending",
         NEW a \in acks, a.key = KeyOf[m]
  PROVE  EarnedAck(a, m)
<1> USE DEF IInv
<1>1. PICK n \in Messages : EarnedAck(a, n) BY DEF HonestAcks
<1>2. CASE n # m
  <2>1. ~Old(m) /\ Begun(m) BY DEF Old, Finished, Begun
  <2>2. Old(n) BY <1>1, <1>2, <2>1 DEF Separated, EarnedAck
  <2>3. a.at <= sender[n].since + Delay BY <1>1, <2>2 DEF EarnedAck, Old
  <2>4. clock <= a.at + Delay /\ clock \in Nat /\ a.at \in Nat /\ sender[n].since \in Nat
    BY DEF HonestAcks, TypeInv
  <2>5. clock >= sender[n].since + Ttl + Delay BY <2>2 DEF Old
  <2> QED BY <2>3, <2>4, <2>5, Bounds
<1> QED BY <1>1, <1>2

LEMMA AcknowledgedStep ==
  ASSUME IInv, NEW m \in Messages, Acknowledged(m)
  PROVE  IInv'
<1>1. /\ sender[m].at = "sending" /\ UNCHANGED <<clock, fragments, delivered, acks>>
      /\ \E a \in acks : a.key = KeyOf[m] /\ a.index = sender[m].block
  BY DEF Acknowledged, hostVars
<1>2. CASE sender[m].block + 1 = Total(m) /\ Finish(m, "sent")
  <2>1. Sent(m) BY <1>1, <1>2, AckOwner DEF EarnedAck
  <2> QED BY <1>1, <1>2, <2>1, FinishStep
<1>3. CASE Sending(m, sender[m].block + 1) BY <1>1, <1>3, SendNextStep
<1> QED BY <1>2, <1>3 DEF Acknowledged

LEMMA GiveUpStep ==
  ASSUME IInv, NEW m \in Messages, GiveUp(m)
  PROVE  IInv'
BY FinishStep DEF GiveUp, hostVars

LEMMA TickStep ==
  ASSUME IInv, Tick
  PROVE  IInv'
<1> USE DEF IInv
<1>1. /\ clock' = clock + 1 /\ clock \in Nat /\ clock' \in Nat
      /\ UNCHANGED <<fragments, delivered, sender>>
      /\ air' = {p \in air : clock' - p.at <= Delay}
      /\ acks' = {a \in acks : clock' - a.at <= Delay}
  BY DEF Tick, hostVars, TypeInv
<1>2. TypeInv'
  <2>1. \A n \in Messages : sender[n].since <= clock' BY <1>1 DEF TypeInv
  <2> QED BY <1>1, <2>1 DEF TypeInv
<1>3. \A n \in Messages : /\ Begun(n)' = Begun(n) /\ Finished(n)' = Finished(n)
                          /\ AtFirst(n)' = AtFirst(n) /\ Sent(n)' = Sent(n)
  BY <1>1 DEF Begun, Finished, AtFirst, Sent
<1>4. \A n \in Messages : Old(n) => Old(n)'
  <2>1. \A n \in Messages : sender[n].since \in Nat BY DEF TypeInv
  <2> QED BY <1>1, <1>3, <2>1, Bounds DEF Old
<1>5. Separated' BY <1>3, <1>4 DEF Separated
<1>6. \A p \in air' : p \in air /\ p.at <= clock' /\ clock' <= p.at + Delay
  <2> SUFFICES ASSUME NEW p \in air'
               PROVE  p \in air /\ p.at <= clock' /\ clock' <= p.at + Delay
    OBVIOUS
  <2>1. p \in air /\ p.at \in Nat /\ clock' - p.at <= Delay BY <1>1 DEF TypeInv
  <2> QED BY <1>1, <2>1, Bounds DEF FreshAir
<1>7. FreshAir' BY <1>1, <1>3, <1>6 DEF FreshAir, TypeInv
<1>8. HonestAcks'
  <2> SUFFICES ASSUME NEW a \in acks'
               PROVE  /\ a.at <= clock' /\ clock' <= a.at + Delay
                      /\ \E n \in Messages : EarnedAck(a, n)'
    BY DEF HonestAcks
  <2>1. a \in acks /\ a.at \in Nat /\ clock' - a.at <= Delay BY <1>1 DEF TypeInv
  <2>2. PICK n \in Messages : EarnedAck(a, n) BY <2>1 DEF HonestAcks
  <2>3. a.at <= clock' /\ clock' <= a.at + Delay BY <1>1, <2>1, Bounds DEF HonestAcks
  <2>4. EarnedAck(a, n)' BY <1>1, <1>3, <2>2 DEF EarnedAck
  <2> QED BY <2>3, <2>4
<1>9. Entries'
  <2> SUFFICES ASSUME NEW k \in Keys, fragments[k] # Absent
               PROVE  \E n \in Messages : EntryOf(k, n)'
    BY <1>1 DEF Entries
  <2>1. PICK n \in Messages : EntryOf(k, n) BY DEF Entries
  <2>2. fragments[k].startedAt \in Nat /\ fragments[k].startedAt <= clock
    BY <2>1 DEF TypeInv, EntryOf, InTime
  <2>3. InTime(fragments[k], n)' BY <1>1, <1>3, <1>6, <2>1, <2>2 DEF EntryOf, InTime
  <2>4. \A l : Holds(fragments[k], n, l)' = Holds(fragments[k], n, l) BY <1>1, <1>3 DEF Holds
  <2> QED BY <1>1, <1>3, <2>1, <2>3, <2>4 DEF EntryOf
<1>10. Remembered'
  <2> SUFFICES ASSUME NEW n \in Messages, Sent(n)
               PROVE  /\ Begun(n)'
                      /\ \/ Holds(fragments[KeyOf[n]], n, Total(n))'
                         \/ PastFirst(n)' /\ ~Keeps(KeyOf[n], n)'
    BY <1>3 DEF Remembered
  <2>1. PastFirst(n) => PastFirst(n)'
    <3>1. sender[n].since \in Nat BY DEF TypeInv
    <3> QED BY <1>1, <1>3, <1>6, <3>1, Bounds DEF PastFirst
  <2>2. Keeps(KeyOf[n], n)' = Keeps(KeyOf[n], n) BY <1>1 DEF Keeps
  <2>3. Holds(fragments[KeyOf[n]], n, Total(n))' = Holds(fragments[KeyOf[n]], n, Total(n))
    BY <1>1, <1>3 DEF Holds
  <2> QED BY <1>3, <2>1, <2>2, <2>3 DEF Remembered
<1>11. Heard' BY <1>1, <1>3 DEF Heard
<1>12. Limited' BY <1>1 DEF Limited
<1> QED BY <1>2, <1>5, <1>7, <1>8, <1>9, <1>10, <1>11, <1>12

-----------------------------------------------------------------------------
(* What the handler finds. *)

LEMMA RangeAppend ==
  ASSUME NEW S, NEW s \in Seq(S), NEW x \in S
  PROVE  Range(Append(s, x)) = Range(s) \cup {x}
<1> DEFINE t == Append(s, x)
<1>1. /\ t \in Seq(S) /\ Len(t) = Len(s) + 1 /\ t[Len(s) + 1] = x
      /\ \A i \in 1 .. Len(s) : t[i] = s[i]
  BY AppendProperties
<1>2. /\ DOMAIN s = 1 .. Len(s) /\ Len(s) \in Nat
      /\ DOMAIN t = 1 .. Len(t)
  BY <1>1, LenProperties
<1> HIDE DEF t
<1>3. DOMAIN t = DOMAIN s \cup {Len(s) + 1} BY <1>1, <1>2
<1>4. Range(t) = Range(s) \cup {x}
  <2>1. \A i \in DOMAIN s : t[i] = s[i] BY <1>1, <1>2
  <2> QED BY <1>1, <1>3, <2>1 DEF Range
<1> QED BY <1>4 DEF t

LEMMA NoBlocks == ASSUME NEW m \in Messages PROVE Prefix(m, 0) = <<>>
BY PrefixType, EmptySeq

LEMMA SweptCases ==
  ASSUME IInv, NEW k \in Keys
  PROVE  \/ Swept[k] = Absent
         \/ Swept[k] = fragments[k] /\ clock < fragments[k].startedAt + Ttl
<1>1. clock \in Nat /\ fragments[k].startedAt \in Nat BY DEF IInv, TypeInv
<1>2. Swept[k] = IF clock - fragments[k].startedAt >= Ttl THEN Absent ELSE fragments[k]
  BY DEF Swept
<1> QED BY <1>1, <1>2, Bounds

(* An entry that was swept is too old for its first block. *)
LEMMA SweptPast ==
  ASSUME IInv, NEW m \in Messages, Sent(m), Swept[KeyOf[m]] = Absent
  PROVE  PastFirst(m)
<1> USE DEF IInv
<1> DEFINE k == KeyOf[m]
<1>1. CASE Holds(fragments[k], m, Total(m))
  <2>1. k \in Keys BY FragmentAssumption
  <2> DEFINE e == fragments[k]
  <2>2. e.blocks = Prefix(m, Total(m)) /\ Total(m) \in Nat \ {0} BY <1>1, TotalType DEF Holds
  <2>3. e # Absent
    <3>1. Len(Prefix(m, Total(m))) # 0 BY <2>2, PrefixType
    <3>2. Absent.blocks = <<>> BY DEF Absent
    <3> QED BY <2>2, <3>1, <3>2, EmptySeq
  <2>4. PICK q \in Messages : EntryOf(k, q) BY <2>1, <2>3 DEF Entries
  <2>5. q = m
    <3>1. PICK n \in 1 .. Total(q) : Holds(e, q, n) BY <2>4 DEF EntryOf
    <3>2. Prefix(m, Total(m)) = Prefix(q, n) BY <2>2, <3>1 DEF Holds
    <3>3. n \in Nat BY TotalType
    <3> QED BY <2>2, <3>2, <3>3, PrefixOwner
  <2>6. InTime(e, m) BY <2>4, <2>5 DEF EntryOf
  <2>7. clock \in Nat /\ e.startedAt \in Nat /\ sender[m].since \in Nat BY <2>1 DEF TypeInv
  <2>8. clock >= e.startedAt + Ttl
    <3>1. Swept[k] = IF clock - e.startedAt >= Ttl THEN Absent ELSE e BY <2>1 DEF Swept
    <3>2. clock - e.startedAt >= Ttl BY <2>3, <3>1
    <3> QED BY <2>7, <3>2, Bounds
  <2>9. ASSUME NEW p \in air, p.msg = m PROVE p.index # 0
    <3>1. p.index = 0 => p.at <= e.startedAt + Patience BY <2>6, <2>9 DEF InTime
    <3>2. clock <= p.at + Delay /\ p.at \in Nat BY DEF FreshAir, TypeInv
    <3> QED BY <2>7, <2>8, <3>1, <3>2, Bounds
  <2>10. AtFirst(m) => clock > sender[m].since + Patience
    <3>1. AtFirst(m) => sender[m].since <= e.startedAt BY <2>6 DEF InTime
    <3> QED BY <2>7, <2>8, <3>1, Bounds
  <2> QED BY <2>9, <2>10 DEF PastFirst
<1> QED BY <1>1 DEF Remembered

(* What is held under the key of a block is of its message. *)
LEMMA HeldIsOwn ==
  ASSUME IInv, NEW p \in air, Swept[KeyOf[p.msg]] # Absent
  PROVE  EntryOf(KeyOf[p.msg], p.msg) /\ fragments[KeyOf[p.msg]] = Swept[KeyOf[p.msg]]
<1> USE DEF IInv
<1> DEFINE m == p.msg
           k == KeyOf[m]
<1>1. m \in Messages /\ k \in Keys BY FragmentAssumption DEF TypeInv
<1>2. Swept[k] = fragments[k] /\ clock < fragments[k].startedAt + Ttl BY <1>1, SweptCases
<1>3. PICK q \in Messages : EntryOf(k, q) BY <1>1, <1>2 DEF Entries
<1>4. CASE q # m
  <2>1. Begun(m) /\ Begun(q) /\ KeyOf[q] = KeyOf[m] BY <1>3 DEF FreshAir, EntryOf
  <2>2. /\ clock \in Nat /\ p.at \in Nat /\ sender[m].since \in Nat /\ sender[q].since \in Nat
        /\ fragments[k].startedAt \in Nat
    BY <1>1 DEF TypeInv
  <2>3. CASE Old(m)
    <3>1. p.at <= sender[m].since /\ clock <= p.at + Delay BY <2>3 DEF FreshAir, Old
    <3>2. clock >= sender[m].since + Ttl + Delay BY <2>3 DEF Old
    <3> QED BY <2>2, <3>1, <3>2, Bounds
  <2>4. CASE Old(q)
    <3>1. fragments[k].startedAt <= sender[q].since + Delay
      BY <1>3, <2>4 DEF EntryOf, InTime, Old
    <3>2. clock >= sender[q].since + Ttl + Delay BY <2>4 DEF Old
    <3> QED BY <1>2, <2>2, <3>1, <3>2, Bounds
  <2> QED BY <1>1, <1>4, <2>1, <2>3, <2>4 DEF Separated
<1> QED BY <1>2, <1>3, <1>4

(* The entry a block meets, held or new, holds the blocks before it. *)
LEMMA EntryIsOwn ==
  ASSUME IInv, NEW p \in air, Entry(p) # Absent
  PROVE  /\ InTime(Entry(p), p.msg)
         /\ \E n \in 0 .. Total(p.msg) :
              /\ Holds(Entry(p), p.msg, n)
              /\ n = 0 => p.index = 0 /\ HasRoom /\ Swept[KeyOf[p.msg]] = Absent
              /\ n # 0 => /\ Swept[KeyOf[p.msg]] # Absent
                          /\ Entry(p) = fragments[KeyOf[p.msg]]
<1> USE DEF IInv
<1> DEFINE m == p.msg
           k == KeyOf[m]
           e == [total |-> Total(m), blocks |-> <<>>, startedAt |-> clock]
<1>1. m \in Messages /\ Total(m) \in Nat /\ Total(m) >= 1 BY TotalType DEF TypeInv
<1>2. CASE Swept[k] # Absent
  <2>1. Entry(p) = fragments[k] BY <1>2, HeldIsOwn DEF Entry
  <2>2. EntryOf(k, m) BY <1>2, HeldIsOwn
  <2>3. PICK n \in 1 .. Total(m) : Holds(fragments[k], m, n) BY <2>2 DEF EntryOf
  <2>4. n \in 0 .. Total(m) /\ n # 0 BY <1>1
  <2> QED BY <1>2, <2>1, <2>2, <2>3, <2>4 DEF EntryOf
<1>3. CASE Swept[k] = Absent
  <2>1. p.index = 0 /\ HasRoom /\ Entry(p) = e BY <1>3 DEF Entry
  <2>2. e.total = Total(m) /\ e.blocks = <<>> /\ e.startedAt = clock OBVIOUS
  <2> HIDE DEF e
  <2>3. Holds(e, m, 0) BY <1>1, <2>2, NoBlocks DEF Holds
  <2>4. /\ clock \in Nat /\ clock <= p.at + Delay /\ p.at \in Nat /\ sender[m].since \in Nat
        /\ Finished(m) => p.at <= sender[m].since
        /\ sender[m].since <= clock
    BY <1>1 DEF TypeInv, FreshAir
  <2>5. \A q \in air : q.at <= clock + Patience
    <3> SUFFICES ASSUME NEW q \in air PROVE q.at <= clock + Patience OBVIOUS
    <3>1. q.at \in Nat /\ q.at <= clock BY DEF TypeInv, FreshAir
    <3> QED BY <2>4, <3>1, Bounds
  <2>6. InTime(e, m) BY <2>2, <2>4, <2>5, Bounds DEF InTime
  <2> QED BY <1>1, <1>3, <2>1, <2>3, <2>6
<1> QED BY <1>2, <1>3

(* A block that is wanted is of a message that was not delivered. *)
LEMMA WantedIsNew ==
  ASSUME IInv, NEW p \in air, IsNext(p)
  PROVE  ~Sent(p.msg) /\ Holds(Entry(p), p.msg, p.index) /\ p.index < Total(p.msg)
         /\ Entry(p) # Absent
<1> USE DEF IInv
<1> DEFINE m == p.msg
           k == KeyOf[m]
<1>1. m \in Messages /\ p.index \in Nat /\ Total(m) \in Nat /\ Total(m) >= 1
  BY TotalType DEF TypeInv
<1>2. p.index < Entry(p).total /\ p.index = Len(Entry(p).blocks) BY DEF IsNext
<1>3. Entry(p) # Absent
  <2>1. Absent.total = 0 BY DEF Absent
  <2> QED BY <1>1, <1>2, <2>1
<1>4. PICK n \in 0 .. Total(m) :
        /\ Holds(Entry(p), m, n)
        /\ n = 0 => p.index = 0 /\ Swept[k] = Absent
        /\ n # 0 => Entry(p) = fragments[k]
  BY <1>3, EntryIsOwn
<1>5. n \in Nat BY <1>1
<1>6. p.index = n /\ n < Total(m) BY <1>1, <1>2, <1>4, <1>5, PrefixType DEF Holds
<1>7. ASSUME Sent(m) PROVE FALSE
  <2>1. CASE n = 0
    <3>1. PastFirst(m) BY <1>1, <1>4, <1>7, <2>1, SweptPast
    <3> QED BY <1>1, <1>4, <2>1, <3>1 DEF PastFirst
  <2>2. CASE n # 0
    <3>1. fragments[k].blocks = Prefix(m, n) /\ n \in 1 .. Total(m)
      BY <1>1, <1>4, <2>2 DEF Holds
    <3>2. Keeps(k, m) BY <3>1 DEF Keeps
    <3>3. Holds(fragments[k], m, Total(m)) BY <1>1, <1>7, <3>2 DEF Remembered
    <3>4. Prefix(m, n) = Prefix(m, Total(m)) BY <3>1, <3>3 DEF Holds
    <3> QED BY <1>1, <1>5, <1>6, <2>2, <3>4, PrefixOwner
  <2> QED BY <2>1, <2>2
<1> QED BY <1>3, <1>4, <1>6, <1>7

-----------------------------------------------------------------------------
(* The handler keeps it. *)

Held == {k \in Keys : fragments[k] # Absent}

LEMMA SweptLimit ==
  ASSUME IInv
  PROVE  LET kept == {k \in Keys : Swept[k] # Absent}
         IN kept \subseteq Held /\ IsFiniteSet(kept) /\ Cardinality(kept) <= MaxFragmented
<1> DEFINE kept == {k \in Keys : Swept[k] # Absent}
<1>1. kept \subseteq Held BY SweptCases DEF Held
<1>2. IsFiniteSet(Held) /\ Cardinality(Held) <= MaxFragmented BY DEF IInv, Limited, Held
<1>3. IsFiniteSet(kept) /\ Cardinality(kept) <= Cardinality(Held) BY <1>1, <1>2, FS_Subset
<1>4. Cardinality(kept) \in Nat /\ Cardinality(Held) \in Nat
  BY <1>2, <1>3, FS_CardinalityType
<1> QED BY <1>1, <1>2, <1>3, <1>4, Bounds

(* What every way out of the handler does, for all that the invariant says. *)
LEMMA HandlerStep ==
  ASSUME IInv, NEW p \in air, UNCHANGED <<clock, sender, air>>,
         fragments' \in [Keys -> [total : Nat, blocks : Seq(Block), startedAt : Nat]],
         \A q \in Keys \ {KeyOf[p.msg]} : fragments'[q] = Swept[q],
         \/ fragments'[KeyOf[p.msg]] = Swept[KeyOf[p.msg]] /\ Sent(p.msg)' = Sent(p.msg)
         \/ fragments'[KeyOf[p.msg]] = Absent /\ ~Sent(p.msg)'
         \/ /\ InTime(fragments[KeyOf[p.msg]], p.msg)'
            /\ \E n \in 1 .. Total(p.msg) : Holds(fragments[KeyOf[p.msg]], p.msg, n)'
            /\ Sent(p.msg)' => Holds(fragments[KeyOf[p.msg]], p.msg, Total(p.msg))'
            /\ HasRoom \/ Swept[KeyOf[p.msg]] # Absent,
         delivered' \in Seq(Seq(Block)),
         \A n \in Messages : Sent(n) => Sent(n)',
         \A n \in Messages \ {p.msg} : Sent(n)' => Sent(n),
         acks' \subseteq acks \cup {Ack(p)},
         Ack(p) \in acks' \ acks /\ p.index + 1 = Total(p.msg) => Sent(p.msg)'
  PROVE  IInv'
<1> USE DEF IInv
<1> DEFINE m == p.msg
           k == KeyOf[m]
<1>1. /\ m \in Messages /\ k \in Keys /\ p.index \in Nat /\ p.at \in Nat /\ clock \in Nat
      /\ Total(m) \in Nat /\ Total(m) >= 1 /\ Begun(m)
  BY FragmentAssumption, TotalType DEF TypeInv, FreshAir
<1>2. TypeInv'
  <2>1. Ack(p) \in [key : Keys, index : Nat, at : Nat] BY <1>1 DEF Ack
  <2>2. acks' \subseteq [key : Keys, index : Nat, at : Nat] BY <2>1 DEF TypeInv
  <2> QED BY <2>2 DEF TypeInv
<1>3. \A n \in Messages : /\ Begun(n)' = Begun(n) /\ Finished(n)' = Finished(n)
                          /\ AtFirst(n)' = AtFirst(n) /\ Old(n)' = Old(n)
                          /\ PastFirst(n)' = PastFirst(n)
  BY DEF Begun, Finished, AtFirst, Old, PastFirst
<1>4. Separated' BY <1>3 DEF Separated
<1>5. FreshAir' BY <1>3 DEF FreshAir, TypeInv
<1>6. HonestAcks'
  <2> SUFFICES ASSUME NEW a \in acks'
               PROVE  /\ a.at <= clock /\ clock <= a.at + Delay
                      /\ \E n \in Messages : EarnedAck(a, n)'
    BY DEF HonestAcks
  <2>1. CASE a \in acks
    <3>1. PICK n \in Messages : EarnedAck(a, n) BY <2>1 DEF HonestAcks
    <3>2. EarnedAck(a, n)' BY <1>3, <3>1 DEF EarnedAck
    <3> QED BY <2>1, <3>2 DEF HonestAcks
  <2>2. CASE a \notin acks /\ a = Ack(p)
    <3>1. a.key = k /\ a.index = p.index /\ a.at = clock BY <2>2 DEF Ack
    <3>2. /\ clock <= p.at + Delay
          /\ Finished(m) => p.at <= sender[m].since /\ sender[m].since \in Nat
      BY <1>1 DEF FreshAir, TypeInv
    <3>3. Finished(m) => clock <= sender[m].since + Delay BY <1>1, <3>2, Bounds
    <3>4. a.index + 1 = Total(m) => Sent(m)' BY <2>2, <3>1
    <3>5. EarnedAck(a, m)' BY <1>1, <1>3, <3>1, <3>3, <3>4 DEF EarnedAck
    <3>6. clock <= clock /\ clock <= clock + Delay BY <1>1, Bounds
    <3> QED BY <1>1, <3>1, <3>5, <3>6
  <2> QED BY <2>1, <2>2
<1>7. \A e, n, l : n \in Messages /\ Holds(e, n, l) => 
        /\ e.total = Total(n) /\ e.blocks = Prefix(n, l)
        /\ \A i \in 2 .. l : i < Total(n) => LengthsOf[n][i] = LengthsOf[n][1]
        /\ l = Total(n) => Sent(n)'
  BY DEF Holds
<1>8. ASSUME NEW q \in Keys, NEW n \in Messages, fragments'[q] = fragments[q], NEW l,
             Holds(fragments[q], n, l)
      PROVE  Holds(fragments[q], n, l)'
  BY <1>7, <1>8 DEF Holds
<1>9. ASSUME NEW q \in Keys, fragments'[q] = Swept[q], fragments'[q] # Absent
      PROVE  \E n \in Messages : EntryOf(q, n)'
  <2>1. fragments'[q] = fragments[q] BY <1>9, SweptCases
  <2>2. PICK n \in Messages : EntryOf(q, n) BY <1>9, <2>1 DEF Entries
  <2>3. InTime(fragments[q], n)' BY <1>3, <2>1, <2>2 DEF EntryOf, InTime
  <2>4. PICK l \in 1 .. Total(n) : Holds(fragments[q], n, l) BY <2>2 DEF EntryOf
  <2>5. Holds(fragments[q], n, l)' BY <1>8, <2>1, <2>4
  <2> QED BY <1>3, <2>2, <2>3, <2>4, <2>5 DEF EntryOf
<1>10. Entries'
  <2> SUFFICES ASSUME NEW q \in Keys, fragments'[q] # Absent
               PROVE  \E n \in Messages : EntryOf(q, n)'
    BY DEF Entries, Absent
  <2>1. CASE fragments'[q] = Swept[q] BY <1>9, <2>1
  <2>2. CASE /\ q = k /\ InTime(fragments[k], m)'
             /\ \E n \in 1 .. Total(m) : Holds(fragments[k], m, n)'
    BY <1>1, <1>3, <2>2 DEF EntryOf
  <2> QED BY <2>1, <2>2
<1>11. Remembered'
  <2> SUFFICES ASSUME NEW n \in Messages, Sent(n)'
               PROVE  /\ Begun(n)'
                      /\ \/ Holds(fragments[KeyOf[n]], n, Total(n))'
                         \/ PastFirst(n)' /\ ~Keeps(KeyOf[n], n)'
    BY DEF Remembered
  <2>1. KeyOf[n] \in Keys /\ Total(n) \in Nat \ {0} BY FragmentAssumption, TotalType
  <2>2. ASSUME fragments'[KeyOf[n]] = Absent PROVE ~Keeps(KeyOf[n], n)'
    <3>1. Absent.blocks = <<>> BY DEF Absent
    <3>2. \A l \in 1 .. Total(n) : Prefix(n, l) # <<>>
      <4> SUFFICES ASSUME NEW l \in 1 .. Total(n) PROVE Prefix(n, l) # <<>> OBVIOUS
      <4>1. l \in Nat /\ l # 0 BY <2>1
      <4>2. Len(Prefix(n, l)) # 0 BY <4>1, PrefixType
      <4> QED BY <4>2, EmptySeq
    <3> QED BY <2>2, <3>1, <3>2 DEF Keeps
  <2>3. CASE fragments'[KeyOf[n]] = Swept[KeyOf[n]] /\ Sent(n)
    <3>1. Begun(n)' BY <1>3, <2>3 DEF Remembered
    <3>2. CASE Swept[KeyOf[n]] = Absent
      <4>1. PastFirst(n)' BY <1>3, <2>3, <3>2, SweptPast
      <4> QED BY <2>2, <2>3, <3>1, <3>2, <4>1
    <3>3. CASE Swept[KeyOf[n]] # Absent
      <4>1. fragments'[KeyOf[n]] = fragments[KeyOf[n]] BY <2>1, <2>3, <3>3, SweptCases
      <4>2. CASE Holds(fragments[KeyOf[n]], n, Total(n)) BY <1>8, <2>1, <3>1, <4>1, <4>2
      <4>3. CASE PastFirst(n) /\ ~Keeps(KeyOf[n], n) BY <1>3, <3>1, <4>1, <4>3 DEF Keeps
      <4> QED BY <2>3, <4>2, <4>3 DEF Remembered
    <3> QED BY <3>2, <3>3
  <2>4. CASE n = m /\ Holds(fragments[k], m, Total(m))' BY <1>1, <1>3, <2>4
  <2>5. CASE n # m /\ KeyOf[n] = k /\ fragments'[k] # Swept[k]
    <3>1. Sent(n) /\ Begun(n)' BY <1>3, <2>5 DEF Remembered
    <3>2. ~Keeps(k, n)'
      <4>1. CASE fragments'[k] = Absent BY <2>2, <2>5, <4>1
      <4>2. CASE \E l \in 1 .. Total(m) : Holds(fragments[k], m, l)'
        <5>1. PICK l \in 1 .. Total(m) : Holds(fragments[k], m, l)' BY <4>2
        <5>2. fragments'[k].blocks = Prefix(m, l) /\ l \in Nat \ {0} BY <1>1, <5>1 DEF Holds
        <5>3. ASSUME NEW i \in 1 .. Total(n), Prefix(m, l) = Prefix(n, i) PROVE FALSE
          <6>1. i \in Nat BY <2>1
          <6> QED BY <1>1, <2>5, <5>2, <5>3, <6>1, PrefixOwner
        <5> QED BY <5>2, <5>3 DEF Keeps
      <4> QED BY <2>5, <4>1, <4>2
    <3>3. PastFirst(n)
      <4>1. CASE Swept[k] = Absent BY <2>5, <3>1, <4>1, SweptPast
      <4>2. CASE Swept[k] # Absent
        <5>1. EntryOf(k, m) BY <4>2, HeldIsOwn
        <5>2. PICK l \in 1 .. Total(m) : fragments[k].blocks = Prefix(m, l)
          BY <5>1 DEF EntryOf, Holds
        <5>3. l \in Nat \ {0} BY <1>1
        <5>4. ASSUME fragments[k].blocks = Prefix(n, Total(n)) PROVE FALSE
          <6>1. Prefix(m, l) = Prefix(n, Total(n)) BY <5>2, <5>4
          <6> QED BY <1>1, <2>1, <2>5, <5>3, <6>1, PrefixOwner
        <5>5. ~Holds(fragments[k], n, Total(n)) BY <5>4 DEF Holds
        <5> QED BY <2>5, <3>1, <5>5 DEF Remembered
      <4> QED BY <4>1, <4>2
    <3> QED BY <1>3, <2>5, <3>1, <3>2, <3>3
  <2>6. CASE n # m /\ fragments'[KeyOf[n]] = Swept[KeyOf[n]] BY <2>3, <2>6
  <2> QED BY <2>1, <2>3, <2>4, <2>5, <2>6
<1>12. Heard' BY DEF Heard
<1>13. Limited'
  <2> DEFINE kept == {q \in Keys : Swept[q] # Absent}
             new == {q \in Keys : fragments'[q] # Absent}
  <2>1. IsFiniteSet(kept) /\ Cardinality(kept) <= MaxFragmented BY SweptLimit
  <2>2. Cardinality(kept) \in Nat BY <2>1, FS_CardinalityType
  <2>3. CASE new \subseteq kept
    <3>1. IsFiniteSet(new) /\ Cardinality(new) <= Cardinality(kept) BY <2>1, <2>3, FS_Subset
    <3>2. Cardinality(new) \in Nat BY <3>1, FS_CardinalityType
    <3> QED BY <2>1, <2>2, <3>1, <3>2, Bounds DEF Limited, Absent
  <2>4. CASE new \subseteq kept \cup {k} /\ HasRoom
    <3>1. /\ IsFiniteSet(kept \cup {k})
          /\ Cardinality(kept \cup {k}) <= Cardinality(kept) + 1
      <4>1. /\ IsFiniteSet(kept \cup {k})
            /\ Cardinality(kept \cup {k}) =
                 IF k \in kept THEN Cardinality(kept) ELSE Cardinality(kept) + 1
        BY <2>1, FS_AddElement
      <4> QED BY <2>2, <4>1
    <3>2. IsFiniteSet(new) /\ Cardinality(new) <= Cardinality(kept \cup {k})
      BY <2>4, <3>1, FS_Subset
    <3>3. Cardinality(new) \in Nat /\ Cardinality(kept \cup {k}) \in Nat
      BY <3>1, <3>2, FS_CardinalityType
    <3>4. Cardinality(kept) < MaxFragmented BY <2>4 DEF HasRoom
    <3> QED BY <2>2, <3>1, <3>2, <3>3, <3>4, Bounds DEF Limited, Absent
  <2>5. new \subseteq kept \cup {k} OBVIOUS
  <2>6. new \subseteq kept \/ HasRoom
    <3>1. CASE k \in kept \/ k \notin new BY <2>5, <3>1
    <3>2. CASE k \notin kept /\ k \in new BY <1>1, <3>2
    <3> QED BY <3>1, <3>2
  <2> QED BY <2>3, <2>4, <2>5, <2>6
<1> QED BY <1>2, <1>4, <1>5, <1>6, <1>10, <1>11, <1>12, <1>13

LEMMA SweptType ==
  ASSUME IInv
  PROVE  Swept \in [Keys -> [total : Nat, blocks : Seq(Block), startedAt : Nat]]
<1>1. Absent \in [total : Nat, blocks : Seq(Block), startedAt : Nat]
  <2>1. <<>> \in Seq(Block) BY EmptySeq
  <2> QED BY <2>1 DEF Absent
<1> QED BY <1>1 DEF Swept, IInv, TypeInv

LEMMA EntryType ==
  ASSUME IInv, NEW p \in air
  PROVE  Entry(p) \in [total : Nat, blocks : Seq(Block), startedAt : Nat]
<1>1. p.msg \in Messages /\ KeyOf[p.msg] \in Keys /\ clock \in Nat /\ Total(p.msg) \in Nat
  BY FragmentAssumption, TotalType DEF IInv, TypeInv
<1>2. <<>> \in Seq(Block) BY EmptySeq
<1>3. [total |-> Total(p.msg), blocks |-> <<>>, startedAt |-> clock] \in
        [total : Nat, blocks : Seq(Block), startedAt : Nat]
  BY <1>1, <1>2
<1>4. Swept[KeyOf[p.msg]] \in [total : Nat, blocks : Seq(Block), startedAt : Nat]
  BY <1>1, SweptType
<1> QED BY <1>3, <1>4 DEF Entry

(* The block that is taken completes one more of the message's blocks. *)
LEMMA AcceptTakes ==
  ASSUME IInv, NEW p \in air, Accept(p)
  PROVE  /\ fragments' = [Swept EXCEPT ![KeyOf[p.msg]] =
                            [Entry(p) EXCEPT !.blocks = Prefix(p.msg, p.index + 1)]]
         /\ delivered' = IF p.index + 1 = Total(p.msg)
                         THEN Append(delivered, Payload(p.msg)) ELSE delivered
         /\ \A i \in 2 .. p.index + 1 :
              i < Total(p.msg) => LengthsOf[p.msg][i] = LengthsOf[p.msg][1]
<1> DEFINE m == p.msg
           n == p.index
           blocks == Append(Entry(p).blocks, [msg |-> m, index |-> n])
<1>1. m \in Messages /\ n \in Nat /\ Total(m) \in Nat BY TotalType DEF IInv, TypeInv
<1>2. Holds(Entry(p), m, n) /\ n < Total(m) BY WantedIsNew DEF Accept
<1>3. Entry(p).blocks = Prefix(m, n) /\ Entry(p).total = Total(m) BY <1>2 DEF Holds
<1>4. blocks = Prefix(m, n + 1) BY <1>1, <1>3, PrefixAppend
<1>5. Len(blocks) = n + 1
  <2>1. n + 1 \in Nat BY <1>1
  <2>2. Len(Prefix(m, n + 1)) = n + 1 BY <1>1, <2>1, PrefixType
  <2> QED BY <1>4, <2>2
<1>6. /\ fragments' = [Swept EXCEPT ![KeyOf[m]] = [Entry(p) EXCEPT !.blocks = blocks]]
      /\ delivered' = IF Len(blocks) = Entry(p).total
                      THEN Append(delivered, blocks) ELSE delivered
  BY DEF Accept, Put
<1> HIDE DEF blocks
<1>7. delivered' = IF n + 1 = Total(m) THEN Append(delivered, Payload(m)) ELSE delivered
  BY <1>1, <1>3, <1>4, <1>5, <1>6, PayloadIsPrefix
<1>8. ASSUME NEW i \in 2 .. n + 1, i < Total(m)
      PROVE  LengthsOf[m][i] = LengthsOf[m][1]
  <2>1. CASE i \in 2 .. n BY <1>2, <1>8, <2>1 DEF Holds
  <2>2. CASE i = n + 1
    <3>1. n > 0 /\ n < Entry(p).total - 1 BY <1>1, <1>3, <1>8, <2>2
    <3>2. LengthOf(p) = LengthOf(Entry(p).blocks[1]) BY <3>1 DEF Accept, IsMisfit
    <3>3. 1 \in 1 .. n BY <1>1, <3>1
    <3>4. Entry(p).blocks[1] = [msg |-> m, index |-> 0] BY <1>3, <3>3 DEF Prefix
    <3>5. LengthOf(Entry(p).blocks[1]) = LengthsOf[m][1] BY <3>4 DEF LengthOf
    <3>6. LengthOf(p) = LengthsOf[m][n + 1] BY DEF LengthOf
    <3> QED BY <2>2, <3>2, <3>5, <3>6
  <2> QED BY <1>1, <1>8, <2>1, <2>2
<1> QED BY <1>4, <1>6, <1>7, <1>8

LEMMA AcceptStep ==
  ASSUME IInv, NEW p \in air, Accept(p), UNCHANGED <<clock, sender, air>>
  PROVE  IInv'
<1> DEFINE m == p.msg
           n == p.index
           k == KeyOf[m]
           e == [Entry(p) EXCEPT !.blocks = Prefix(m, n + 1)]
<1>1. /\ m \in Messages /\ n \in Nat /\ Total(m) \in Nat /\ k \in Keys
      /\ clock' = clock /\ delivered \in Seq(Seq(Block))
  BY FragmentAssumption, TotalType DEF IInv, TypeInv
<1>2. ~Sent(m) /\ Holds(Entry(p), m, n) /\ n < Total(m) /\ Entry(p) # Absent
  BY WantedIsNew DEF Accept
<1>3. /\ fragments' = [Swept EXCEPT ![k] = e]
      /\ delivered' = IF n + 1 = Total(m) THEN Append(delivered, Payload(m)) ELSE delivered
      /\ \A i \in 2 .. n + 1 : i < Total(m) => LengthsOf[m][i] = LengthsOf[m][1]
  BY AcceptTakes
<1>4. e.total = Total(m) /\ e.blocks = Prefix(m, n + 1) /\ e.startedAt = Entry(p).startedAt
      /\ e \in [total : Nat, blocks : Seq(Block), startedAt : Nat]
  <2>1. n + 1 \in Nat BY <1>1
  <2>2. Prefix(m, n + 1) \in Seq(Block) BY <1>1, <2>1, PrefixType
  <2> QED BY <1>2, <2>2, EntryType DEF Holds
<1> HIDE DEF e
<1>5. /\ fragments' \in [Keys -> [total : Nat, blocks : Seq(Block), startedAt : Nat]]
      /\ fragments'[k] = e /\ \A q \in Keys \ {k} : fragments'[q] = Swept[q]
  BY <1>1, <1>3, <1>4, SweptType
<1>6. Payload(m) \in Seq(Block) BY <1>1, PayloadIsPrefix, PrefixType
<1>7. delivered' \in Seq(Seq(Block))
  BY <1>1, <1>3, <1>6, AppendProperties
<1>8. Range(delivered') = IF n + 1 = Total(m) THEN Range(delivered) \cup {Payload(m)}
                          ELSE Range(delivered)
  <2>1. Range(Append(delivered, Payload(m))) = Range(delivered) \cup {Payload(m)}
    BY <1>1, <1>6, RangeAppend
  <2> QED BY <1>3, <2>1
<1>9. /\ \A q \in Messages : Sent(q) => Sent(q)'
      /\ n + 1 = Total(m) => Sent(m)'
      /\ Sent(m)' => n + 1 = Total(m)
  BY <1>2, <1>8 DEF Sent
<1>10. ASSUME NEW q \in Messages \ {m}, Sent(q)' PROVE Sent(q)
  <2>1. Payload(q) # Payload(m)
    <3>1. Total(q) \in Nat \ {0} /\ Total(m) \in Nat BY <1>1, TotalType
    <3> QED BY <1>1, <3>1, PayloadIsPrefix, PrefixOwner
  <2> QED BY <1>8, <1>10, <2>1 DEF Sent
<1>11. InTime(fragments[k], m)'
  <2>1. InTime(Entry(p), m) BY <1>2, EntryIsOwn
  <2> QED BY <1>4, <1>5, <2>1 DEF InTime, Finished, AtFirst
<1>12. Holds(fragments[k], m, n + 1)' BY <1>3, <1>4, <1>5, <1>9 DEF Holds
<1>13. n + 1 \in 1 .. Total(m) BY <1>1, <1>2
<1>14. HasRoom \/ Swept[k] # Absent BY <1>2, EntryIsOwn
<1>15. acks' \subseteq acks \cup {Ack(p)} BY DEF Accept
<1>16. Sent(m)' => Holds(fragments[k], m, Total(m))' BY <1>9, <1>12
<1> QED BY <1>5, <1>7, <1>9, <1>10, <1>11, <1>12, <1>13, <1>14, <1>15, <1>16, HandlerStep

LEMMA RejectStep ==
  ASSUME IInv, NEW p \in air, Reject(p), UNCHANGED <<clock, sender, air>>
  PROVE  IInv'
<1>1. p.msg \in Messages /\ KeyOf[p.msg] \in Keys /\ delivered \in Seq(Seq(Block))
  BY FragmentAssumption DEF IInv, TypeInv
<1>2. fragments' = [Swept EXCEPT ![KeyOf[p.msg]] = Absent] /\ UNCHANGED <<delivered, acks>>
  BY DEF Reject, Put
<1>3. Absent \in [total : Nat, blocks : Seq(Block), startedAt : Nat]
  <2>1. <<>> \in Seq(Block) BY EmptySeq
  <2> QED BY <2>1 DEF Absent
<1>4. /\ fragments' \in [Keys -> [total : Nat, blocks : Seq(Block), startedAt : Nat]]
      /\ fragments'[KeyOf[p.msg]] = Absent
      /\ \A q \in Keys \ {KeyOf[p.msg]} : fragments'[q] = Swept[q]
  BY <1>1, <1>2, <1>3, SweptType
<1>5. \A q : Sent(q)' = Sent(q) BY <1>2 DEF Sent
<1>6. ~Sent(p.msg)' BY <1>5, WantedIsNew DEF Reject
<1> QED BY <1>1, <1>2, <1>4, <1>5, <1>6, HandlerStep

LEMMA KeepStep ==
  ASSUME IInv, NEW p \in air, Acknowledge(p) \/ Ignore(p), UNCHANGED <<clock, sender, air>>
  PROVE  IInv'
<1> DEFINE m == p.msg
           k == KeyOf[m]
<1>1. m \in Messages /\ k \in Keys /\ delivered \in Seq(Seq(Block)) /\ p.index \in Nat
      /\ Total(m) \in Nat
  BY FragmentAssumption, TotalType DEF IInv, TypeInv
<1>2. fragments' = Swept /\ UNCHANGED delivered /\ acks' \subseteq acks \cup {Ack(p)}
  BY DEF Acknowledge, Ignore
<1>3. \A q : Sent(q)' = Sent(q) BY <1>2 DEF Sent
<1>4. fragments' \in [Keys -> [total : Nat, blocks : Seq(Block), startedAt : Nat]]
  BY <1>2, SweptType
<1>5. ASSUME Ack(p) \in acks' \ acks, p.index + 1 = Total(m) PROVE Sent(m)'
  <2>1. Acknowledge(p) BY <1>5 DEF Ignore
  <2>2. Entry(p) # Absent /\ p.index + 1 = Len(Entry(p).blocks)
    BY <2>1 DEF Acknowledge, IsRepeat
  <2>3. PICK n \in 0 .. Total(m) : Holds(Entry(p), m, n) BY <2>2, EntryIsOwn
  <2>4. n \in Nat BY <1>1
  <2>5. n = Total(m) BY <1>1, <1>5, <2>2, <2>3, <2>4, PrefixType DEF Holds
  <2> QED BY <1>3, <2>3, <2>5 DEF Holds
<1> QED BY <1>1, <1>2, <1>3, <1>4, <1>5, HandlerStep

LEMMA ReceiveStep ==
  ASSUME IInv, NEW p \in air, Receive(p)
  PROVE  IInv'
BY AcceptStep, RejectStep, KeepStep DEF Receive

-----------------------------------------------------------------------------
(* Theorems *)

LEMMA InitInv == Init => IInv
<1> SUFFICES ASSUME Init PROVE IInv OBVIOUS
<1> USE DEF Init
<1>1. <<>> \in Seq(Block) /\ <<>> \in Seq(Seq(Block)) BY EmptySeq
<1>2. TypeInv BY <1>1 DEF TypeInv, Absent
<1>3. \A m \in Messages : ~Begun(m) /\ sender[m].at # "sent" BY DEF Begun
<1>4. Range(delivered) = {} BY DEF Range
<1>5. Separated /\ FreshAir /\ HonestAcks BY <1>3 DEF Separated, FreshAir, HonestAcks
<1>6. Entries /\ Remembered /\ Heard BY <1>3, <1>4 DEF Entries, Remembered, Heard, Sent
<1>7. Limited
  <2>1. {k \in Keys : fragments[k] # Absent} = {} OBVIOUS
  <2>2. IsFiniteSet({}) /\ Cardinality({}) = 0 BY FS_EmptySet
  <2>3. 0 <= MaxFragmented BY Bounds
  <2> QED BY ONLY <2>1, <2>2, <2>3 DEF Limited
<1> QED BY <1>2, <1>5, <1>6, <1>7 DEF IInv

LEMMA InvStep == IInv /\ [Next]_vars => IInv'
<1> SUFFICES ASSUME IInv, [Next]_vars PROVE IInv' OBVIOUS
<1>1. ASSUME NEW p \in air, Receive(p) PROVE IInv' BY <1>1, ReceiveStep
<1>2. ASSUME NEW m \in Messages, Begin(m) \/ Resend(m) \/ Acknowledged(m) \/ GiveUp(m)
      PROVE  IInv'
  BY <1>2, BeginStep, ResendStep, AcknowledgedStep, GiveUpStep
<1>3. CASE Tick BY <1>3, TickStep
<1>4. CASE UNCHANGED vars
  BY <1>4 DEF vars, hostVars, IInv, TypeInv, Separated, FreshAir, HonestAcks, EarnedAck,
              Entries, EntryOf, Holds, InTime, Remembered, PastFirst, Keeps, Heard, Limited,
              Sent, Begun, Finished, AtFirst, Old
<1> QED BY <1>1, <1>2, <1>3, <1>4 DEF Next

LEMMA Invariance == Spec => []IInv
BY InitInv, InvStep, PTL DEF Spec

\* Every reachable state is well typed, and no entry holds more blocks than
\* its block 0 announced.
THEOREM TypeCorrect == Spec => []TypeOK
<1>1. IInv => TypeOK
  <2> SUFFICES ASSUME IInv PROVE TypeOK OBVIOUS
  <2>1. ASSUME NEW k \in Keys PROVE Len(fragments[k].blocks) <= fragments[k].total
    <3>1. CASE fragments[k] = Absent
      <4>1. Absent.blocks = <<>> /\ Absent.total = 0 BY DEF Absent
      <4> QED BY <3>1, <4>1, EmptySeq
    <3>2. CASE fragments[k] # Absent
      <4>1. PICK m \in Messages : EntryOf(k, m) BY <3>2 DEF IInv, Entries
      <4>2. PICK n \in 1 .. Total(m) : Holds(fragments[k], m, n) BY <4>1 DEF EntryOf
      <4>3. n \in Nat /\ n <= Total(m) BY TotalType
      <4>4. Len(Prefix(m, n)) = n BY <4>3, PrefixType
      <4> QED BY <4>2, <4>3, <4>4 DEF Holds
    <3> QED BY <3>1, <3>2
  <2> QED BY <2>1 DEF IInv, TypeInv, TypeOK, Block
<1> QED BY <1>1, Invariance, PTL

\* The blocks held under a key are the first of one message, whatever is lost,
\* repeated, reordered or given up, for any messages and times.
THEOREM EntriesHoldOneMessage == Spec => []OneMessagePerEntry
<1>1. IInv => OneMessagePerEntry
  <2> SUFFICES ASSUME IInv, NEW k \in Keys, fragments[k] # Absent
               PROVE  \E m \in Messages :
                        /\ KeyOf[m] = k
                        /\ fragments[k].total = Total(m)
                        /\ fragments[k].blocks =
                             SubSeq(Payload(m), 1, Len(fragments[k].blocks))
    BY DEF OneMessagePerEntry
  <2>1. PICK m \in Messages : EntryOf(k, m) BY DEF IInv, Entries
  <2>2. PICK n \in 1 .. Total(m) : Holds(fragments[k], m, n) BY <2>1 DEF EntryOf
  <2>3. n \in Nat /\ n \in 0 .. Total(m) BY TotalType
  <2>4. Len(Prefix(m, n)) = n BY <2>3, PrefixType
  <2> QED BY <2>1, <2>2, <2>3, <2>4, PrefixOfPayload DEF EntryOf, Holds
<1> QED BY <1>1, Invariance, PTL

\* A sender that had every block acknowledged was heard.
THEOREM AcknowledgedWasDelivered == Spec => []AcknowledgedIsDelivered
<1>1. IInv => AcknowledgedIsDelivered BY DEF IInv, Heard, Sent, AcknowledgedIsDelivered
<1> QED BY <1>1, Invariance, PTL

\* The host never holds more reassemblies than MAX_FRAGMENTED_MESSAGES.
THEOREM MemoryIsBounded == Spec => []WithinLimit
<1>1. IInv => WithinLimit BY DEF IInv, Limited, WithinLimit
<1> QED BY <1>1, Invariance, PTL

\* The reassembly implements at-most-once delivery of whole messages: every
\* step is one of MessageDelivery or leaves its variables alone.
THEOREM ImplementsDelivery == Spec => DeliversOnce
<1> DEFINE begun == {Payload(m) : m \in {n \in Messages : sender[n].at # "idle"}}
<1>1. Init => Delivery!Init
  BY DEF Init, Delivery!Init
<1>2. ASSUME IInv, [Next]_vars
      PROVE  [Delivery!Next]_<<begun, delivered>>
  <2>1. ASSUME NEW p \in air, Receive(p)
        PROVE  begun' = begun /\
               \/ UNCHANGED delivered
               \/ Delivery!Deliver(Payload(p.msg))
    <3>1. begun' = begun BY <2>1 DEF Receive
    <3>2. CASE Reject(p) \/ Acknowledge(p) \/ Ignore(p)
      BY <3>1, <3>2 DEF Reject, Acknowledge, Ignore
    <3>3. CASE Accept(p)
      <4> DEFINE m == p.msg
      <4>1. m \in Messages /\ Total(m) \in Nat /\ Total(m) >= 1
        BY <1>2, TotalType DEF IInv, TypeInv
      <4>2. \/ UNCHANGED delivered
            \/ p.index + 1 = Total(m) /\ delivered' = Append(delivered, Payload(m))
        BY <1>2, <3>3, AcceptTakes
      <4>3. ASSUME p.index + 1 = Total(m) PROVE WellFormed(m)
        <5>1. \A i \in 2 .. Total(m) : i < Total(m) => LengthsOf[m][i] = LengthsOf[m][1]
          BY <1>2, <3>3, <4>3, AcceptTakes
        <5> QED BY <4>1, <5>1 DEF WellFormed
      <4>4. Payload(m) \in begun BY <1>2, <4>1 DEF IInv, FreshAir, Begun
      <4>5. Payload(m) \notin Range(delivered) BY <1>2, <3>3, WantedIsNew DEF Accept, Sent
      <4> QED BY <3>1, <4>1, <4>2, <4>3, <4>4, <4>5
              DEF Delivery!Deliver, Range, Delivery!Range
    <3> QED BY <2>1, <3>1, <3>2, <3>3 DEF Receive
  <2>2. ASSUME NEW m \in Messages, Begin(m) PROVE Delivery!Send(Payload(m))
    <3>1. sender' = [sender EXCEPT ![m] = [at |-> "sending", block |-> 0, since |-> clock]]
          /\ UNCHANGED delivered
      BY <2>2 DEF Begin, Sending, hostVars
    <3>2. begun' = begun \cup {Payload(m)}
      <4>1. \A n \in Messages : Begun(n)' <=> Begun(n) \/ n = m
        BY <1>2, <3>1 DEF IInv, TypeInv, Begun
      <4>2. \A n \in Messages : Payload(n)' = Payload(n) BY DEF Payload, Total
      <4> QED BY <4>1, <4>2 DEF Begun
    <3> QED BY <3>1, <3>2 DEF Delivery!Send
  <2>3. ASSUME NEW m \in Messages, Resend(m) \/ Acknowledged(m) \/ GiveUp(m)
        PROVE  UNCHANGED <<begun, delivered>>
    <3>1. \A n \in Messages : (sender'[n].at # "idle") <=> (sender[n].at # "idle")
      <4>1. DOMAIN sender = Messages BY <1>2 DEF IInv, TypeInv
      <4>2. CASE Resend(m) BY <4>2 DEF Resend
      <4>3. CASE sender[m].at = "sending" /\ Sending(m, sender[m].block + 1)
        BY <4>1, <4>3 DEF Sending
      <4>4. ASSUME sender[m].at = "sending", NEW how \in {"sent", "gaveUp"}, Finish(m, how)
            PROVE  \A n \in Messages : (sender'[n].at # "idle") <=> (sender[n].at # "idle")
        <5>1. sender'[m].at = how /\ \A n \in Messages \ {m} : sender'[n] = sender[n]
          BY <1>2, <4>4 DEF Finish, IInv, TypeInv
        <5> QED BY <4>4, <5>1
      <4> QED BY <2>3, <4>2, <4>3, <4>4 DEF Acknowledged, GiveUp
    <3> QED BY <2>3, <3>1 DEF Resend, Acknowledged, GiveUp, hostVars, Payload, Total
  <2>4. CASE Tick \/ UNCHANGED vars BY <2>4 DEF Tick, vars, hostVars
  <2>5. ASSUME NEW m \in Messages, Delivery!Send(Payload(m)) \/ Delivery!Deliver(Payload(m))
        PROVE  Delivery!Next
    BY <2>5 DEF Delivery!Next
  <2>6. \A p \in air : p.msg \in Messages BY <1>2 DEF IInv, TypeInv
  <2> QED BY <1>2, <2>1, <2>2, <2>3, <2>4, <2>5, <2>6 DEF Next
<1> QED BY <1>1, <1>2, Invariance, PTL DEF Spec, DeliversOnce, Delivery!Spec
=============================================================================
