--------------------------- MODULE MessageDelivery ---------------------------
(***************************************************************************)
(* What reassembly promises to ZCL: a message that was sent, and is well   *)
(* formed, is delivered whole, at most once, and nothing else is.          *)
(***************************************************************************)
EXTENDS Sequences, Functions

CONSTANTS Messages,       \* whole messages
          Deliverable     \* those a correct sender may send

VARIABLES sent,           \* messages whose sending has begun
          delivered       \* messages handed to ZCL, in order

Init ==
  /\ sent = {}
  /\ delivered = <<>>

Send(m) ==
  /\ sent' = sent \cup {m}
  /\ UNCHANGED delivered

Deliver(m) ==
  /\ m \in sent \cap Deliverable
  /\ m \notin Range(delivered)
  /\ delivered' = Append(delivered, m)
  /\ UNCHANGED sent

Next == \E m \in Messages : Send(m) \/ Deliver(m)

Spec == Init /\ [][Next]_<<sent, delivered>>
=============================================================================
