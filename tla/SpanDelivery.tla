---------------------------- MODULE SpanDelivery ----------------------------
(***************************************************************************)
(* What the pipeline behind the Kafka buffer promises, with no consumer,   *)
(* batch, process or failure in sight: messages are published to the       *)
(* partitions of a topic, the spans of a message are at some point in the  *)
(* store, and a partition is acknowledged up to an offset only once every  *)
(* message below that offset that carries a storable span has been         *)
(* delivered.  That is the ordering the docstring of                       *)
(* src/normalizer/consumer.py calls "the whole point of putting Kafka in". *)
(***************************************************************************)
EXTENDS Naturals, Sequences

CONSTANTS
    Partitions,   \* partitions of the topic
    Payloads      \* what a message may carry: [rows, rejects]

VARIABLES
    log,          \* the messages of each partition, the message at offset o at index o + 1
    delivered,    \* messages <<partition, offset>> whose rows the store holds
    acked         \* first offset of each partition that is not acknowledged

vars == <<log, delivered, acked>>

Message == Partitions \X Nat

(* A message is due when it carries at least one row; a message none of   *)
(* whose spans can be stored has nothing to deliver.                       *)
Due(p, o) == o < Len(log[p]) /\ log[p][o + 1].rows > 0

TypeOK ==
    /\ log \in [Partitions -> Seq(Payloads)]
    /\ delivered \subseteq Message
    /\ acked \in [Partitions -> Nat]

Init ==
    /\ log = [p \in Partitions |-> <<>>]
    /\ delivered = {}
    /\ acked = [p \in Partitions |-> 0]

Publish(p) ==
    /\ \E m \in Payloads : log' = [log EXCEPT ![p] = Append(@, m)]
    /\ UNCHANGED <<delivered, acked>>

(* Delivery only adds, and only adds messages that were published.         *)
Deliver ==
    /\ delivered \subseteq delivered'
    /\ \A m \in delivered' \ delivered : Due(m[1], m[2])
    /\ UNCHANGED <<log, acked>>

(* Acknowledging moves offsets forward, past delivered messages only.      *)
Acknowledge ==
    /\ \A p \in Partitions :
        /\ acked[p] <= acked'[p]
        /\ acked'[p] <= Len(log[p])
        /\ \A o \in 0 .. acked'[p] - 1 : Due(p, o) => <<p, o>> \in delivered
    /\ UNCHANGED <<log, delivered>>

Next == (\E p \in Partitions : Publish(p)) \/ Deliver \/ Acknowledge

Spec == Init /\ [][Next]_vars
=============================================================================
