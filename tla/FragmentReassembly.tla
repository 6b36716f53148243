-------------------------- MODULE FragmentReassembly --------------------------
(***************************************************************************)
(* HomeyEmberAdapter.onIncomingMessage() (homey-ember.cjs): APS fragments  *)
(* are joined per sender and APS sequence, each accepted block is          *)
(* acknowledged, the joined payload is handed to herdsman once.            *)
(*                                                                         *)
(* The senders and the radio are external.  A sender sends a block, and    *)
(* sends it again until it is acknowledged or its patience ends (three APS *)
(* ACK timeouts, says the comment of FRAGMENT_TTL_MS), then sends the next.*)
(* The radio loses, repeats and reorders blocks and ACKs and holds none    *)
(* for more than Delay.  The 8-bit APS sequence of a sender comes round    *)
(* again, but not while the host can still hold its last message.          *)
(***************************************************************************)
EXTENDS Naturals, Sequences, FiniteSets, Functions

CONSTANTS Messages,       \* the messages of all senders
          Keys,           \* sender and APS sequence
          KeyOf,          \* [Messages -> Keys]
          LengthsOf,      \* the lengths of the blocks of a message
          MaxFragmented,  \* MAX_FRAGMENTED_MESSAGES
          Ttl,            \* FRAGMENT_TTL_MS
          Patience,       \* for how long a sender repeats a block
          Delay,          \* for how long the radio holds a frame
          MaxClock        \* bound: time

ASSUME FragmentAssumption ==
  /\ KeyOf \in [Messages -> Keys]
  /\ LengthsOf \in [Messages -> Seq(Nat) \ {<<>>}]
  /\ {MaxFragmented, Ttl, Patience, Delay, MaxClock} \subseteq Nat
  /\ Patience + Delay < Ttl

VARIABLES
  clock,          \* Date.now()
  fragments,      \* this.homeyFragments; Absent where there is no entry
  delivered,      \* payloads handed to super.onIncomingMessage()
  sender,         \* what the sender of each message is doing
  air,            \* blocks the radio may hand over
  acks            \* ACKs the radio may hand back

hostVars == <<fragments, delivered>>
vars == <<clock, hostVars, sender, air, acks>>

Total(m) == Len(LengthsOf[m])
Payload(m) == [i \in 1 .. Total(m) |-> [msg |-> m, index |-> i - 1]]
LengthOf(block) == LengthsOf[block.msg][block.index + 1]
Absent == [total |-> 0, blocks |-> <<>>, startedAt |-> 0]

Init ==
  /\ clock = 0
  /\ fragments = [k \in Keys |-> Absent]
  /\ delivered = <<>>
  /\ sender = [m \in Messages |-> [at |-> "idle", block |-> 0, since |-> 0]]
  /\ air = {}
  /\ acks = {}

-----------------------------------------------------------------------------
(* onIncomingMessage()                                                     *)

\* Mutant: no sweep.
ExpireNothing == fragments

\* The sweep at the head of the handler.
Swept ==
  [k \in Keys |-> IF clock - fragments[k].startedAt >= Ttl THEN Absent ELSE fragments[k]]

\* Mutant: one entry too many.
RoomForOneMore == Cardinality({k \in Keys : Swept[k] # Absent}) <= MaxFragmented

HasRoom == Cardinality({k \in Keys : Swept[k] # Absent}) < MaxFragmented

\* The entry of the block's message: held, or begun by its block 0.
Entry(p) ==
  LET held == Swept[KeyOf[p.msg]] IN
  IF held = Absent /\ p.index = 0 /\ HasRoom
  THEN [total |-> Total(p.msg), blocks |-> <<>>, startedAt |-> clock]
  ELSE held

Put(p, entry) == fragments' = [Swept EXCEPT ![KeyOf[p.msg]] = entry]

Ack(p) == [key |-> KeyOf[p.msg], index |-> p.index, at |-> clock]

\* Mutant: takes an earlier block for the next one.
IsNextOrEarlier(p) == p.index <= Len(Entry(p).blocks) /\ p.index < Entry(p).total

IsNext(p) == p.index = Len(Entry(p).blocks) /\ p.index < Entry(p).total

IsRepeat(p) == Entry(p) # Absent /\ p.index + 1 = Len(Entry(p).blocks)

\* Every block but the last must be as long as block 0.
IsMisfit(p) ==
  /\ p.index > 0 /\ p.index < Entry(p).total - 1
  /\ LengthOf(p) # LengthOf(Entry(p).blocks[1])

\* Mutant: a message is forgotten when it is complete.
AcceptForgetting(p) ==
  /\ IsNext(p) /\ ~IsMisfit(p)
  /\ LET blocks == Append(Entry(p).blocks, [msg |-> p.msg, index |-> p.index])
     IN IF Len(blocks) = Entry(p).total
        THEN Put(p, Absent) /\ delivered' = Append(delivered, blocks)
        ELSE Put(p, [Entry(p) EXCEPT !.blocks = blocks]) /\ UNCHANGED delivered
  /\ acks' = acks \cup {Ack(p)}

\* The block is stored and acknowledged; the last one completes the message.
Accept(p) ==
  /\ IsNext(p) /\ ~IsMisfit(p)
  /\ LET blocks == Append(Entry(p).blocks, [msg |-> p.msg, index |-> p.index])
     IN /\ Put(p, [Entry(p) EXCEPT !.blocks = blocks])
        /\ delivered' = IF Len(blocks) = Entry(p).total
                        THEN Append(delivered, blocks) ELSE delivered
  /\ acks' = acks \cup {Ack(p)}

Reject(p) ==
  /\ IsNext(p) /\ IsMisfit(p)
  /\ Put(p, Absent)
  /\ UNCHANGED <<delivered, acks>>

\* The newest block again: its ACK may have been lost.
Acknowledge(p) ==
  /\ ~IsNext(p) /\ IsRepeat(p)
  /\ fragments' = Swept
  /\ acks' = acks \cup {Ack(p)}
  /\ UNCHANGED delivered

\* Mutant: acknowledges what it drops.
IgnoreAcknowledged(p) ==
  /\ ~IsNext(p) /\ ~IsRepeat(p)
  /\ fragments' = Swept
  /\ acks' = acks \cup {Ack(p)}
  /\ UNCHANGED delivered

\* Outside the window, of no message, or there is no room.
Ignore(p) ==
  /\ ~IsNext(p) /\ ~IsRepeat(p)
  /\ fragments' = Swept
  /\ UNCHANGED <<delivered, acks>>

Receive(p) ==
  /\ Accept(p) \/ Reject(p) \/ Acknowledge(p) \/ Ignore(p)
  /\ UNCHANGED <<clock, sender, air>>

-----------------------------------------------------------------------------
(* The senders and the radio.                                              *)

Sending(m, i) ==
  /\ sender' = [sender EXCEPT ![m] = [at |-> "sending", block |-> i, since |-> clock]]
  /\ air' = air \cup {[msg |-> m, index |-> i, at |-> clock]}

Finish(m, how) ==
  /\ sender' = [sender EXCEPT ![m].at = how, ![m].since = clock]
  /\ UNCHANGED air

Begin(m) ==
  /\ sender[m].at = "idle"
  /\ \A n \in Messages \ {m} : KeyOf[n] = KeyOf[m] =>
       \/ sender[n].at = "idle"
       \/ sender[n].at \in {"sent", "gaveUp"} /\ clock - sender[n].since >= Ttl + Delay
  /\ Sending(m, 0)
  /\ UNCHANGED <<clock, hostVars, acks>>

Resend(m) ==
  /\ sender[m].at = "sending"
  /\ clock - sender[m].since <= Patience
  /\ air' = air \cup {[msg |-> m, index |-> sender[m].block, at |-> clock]}
  /\ UNCHANGED <<clock, hostVars, sender, acks>>

Acknowledged(m) ==
  /\ sender[m].at = "sending"
  /\ \E a \in acks : a.key = KeyOf[m] /\ a.index = sender[m].block
  /\ IF sender[m].block + 1 = Total(m)
     THEN Finish(m, "sent")
     ELSE Sending(m, sender[m].block + 1)
  /\ UNCHANGED <<clock, hostVars, acks>>

GiveUp(m) ==
  /\ sender[m].at = "sending"
  /\ clock - sender[m].since > Patience
  /\ Finish(m, "gaveUp")
  /\ UNCHANGED <<clock, hostVars, acks>>

\* What was not handed over in time is lost.
Tick ==
  /\ clock < MaxClock
  /\ clock' = clock + 1
  /\ air' = {p \in air : clock' - p.at <= Delay}
  /\ acks' = {a \in acks : clock' - a.at <= Delay}
  /\ UNCHANGED <<hostVars, sender>>

Next ==
  \/ \E p \in air : Receive(p)
  \/ \E m \in Messages : Begin(m) \/ Resend(m) \/ Acknowledged(m) \/ GiveUp(m)
  \/ Tick

Spec == Init /\ [][Next]_vars

-----------------------------------------------------------------------------
(* Properties *)

TypeOK ==
  /\ clock \in Nat
  /\ fragments \in [Keys -> [total : Nat, blocks : Seq([msg : Messages, index : Nat]),
                             startedAt : Nat]]
  /\ \A k \in Keys : Len(fragments[k].blocks) <= fragments[k].total
  /\ delivered \in Seq(Seq([msg : Messages, index : Nat]))
  /\ sender \in [Messages -> [at : {"idle", "sending", "sent", "gaveUp"},
                              block : Nat, since : Nat]]
  /\ air \subseteq [msg : Messages, index : Nat, at : Nat]
  /\ acks \subseteq [key : Keys, index : Nat, at : Nat]

\* No block between the first and the last differs in length from the first.
WellFormed(m) ==
  \A i \in 2 .. Total(m) - 1 : LengthsOf[m][i] = LengthsOf[m][1]

Delivery ==
  INSTANCE MessageDelivery
    WITH Messages <- {Payload(m) : m \in Messages},
         Deliverable <- {Payload(m) : m \in {n \in Messages : WellFormed(n)}},
         sent <- {Payload(m) : m \in {n \in Messages : sender[n].at # "idle"}}

\* Whatever is lost, repeated, reordered or given up, ZCL sees whole messages
\* that were sent, each at most once.
DeliversOnce == Delivery!Spec

\* A sender that has had every block acknowledged was heard: no ACK is sent
\* for a block that is then dropped.
AcknowledgedIsDelivered ==
  \A m \in Messages : sender[m].at = "sent" => Payload(m) \in Range(delivered)

\* The blocks held under a key are the first of one message, also when the
\* sequence comes round again after a message that was given up half way.
OneMessagePerEntry ==
  \A k \in Keys : fragments[k] # Absent =>
    \E m \in Messages :
      /\ KeyOf[m] = k
      /\ fragments[k].total = Total(m)
      /\ fragments[k].blocks = SubSeq(Payload(m), 1, Len(fragments[k].blocks))

\* Completed messages are kept for their retransmissions, and given up ones
\* until they expire, within the limit on memory.
WithinLimit == Cardinality({k \in Keys : fragments[k] # Absent}) <= MaxFragmented

\* homey-ember.cjs:20-21: a retransmitted final block, whose ACK was lost, is
\* acknowledged.  Refuted: the time to live counts from block 0, so a message
\* that took its time is forgotten while its last block is still repeated.
RetransmittedFinalBlockAcked ==
  [][\A p \in air :
       /\ Receive(p)
       /\ p.index + 1 = Total(p.msg)
       /\ Payload(p.msg) \in Range(delivered)
       => Ack(p) \in acks']_vars
=============================================================================
