--------------------------- MODULE MessageChannel ---------------------------
(***************************************************************************)
(* What a session promises to those who send messages to its client: the    *)
(* messages of one source arrive in the order they were sent, none twice,   *)
(* in batches that may mix the sources, and, unless the way to the client   *)
(* is lossy, all of them.  (ViriditySession::dispatchMessageToClient and    *)
(* handlerIsReadyForDispatch, src/src/viriditysessionmanager.h.)            *)
(*                                                                          *)
(* A message is the n-th of its source.  Those under way are a set of       *)
(* numbers for each source, as their order among each other says nothing    *)
(* before they arrive; those that arrived are a sequence.                   *)
(***************************************************************************)
EXTENDS Integers, Sequences

CONSTANTS Source, MaxMessages, Lossy

Message == [source : Source, n : 1..MaxMessages]

VARIABLES
    sent,      \* how many messages each source has sent
    pending,   \* the numbers of those under way
    received   \* those that arrived

vars == <<sent, pending, received>>

\* The numbers of the messages of a source in a sequence.
Numbers(s, q) == {q[i].n : i \in {j \in DOMAIN q : q[j].source = s}}

\* The messages of each source are in order, and none is there twice.
InOrder(q) ==
    \A i, j \in DOMAIN q : i < j /\ q[i].source = q[j].source => q[i].n < q[j].n

Init ==
    /\ sent = [s \in Source |-> 0]
    /\ pending = [s \in Source |-> {}]
    /\ received = <<>>

Send(s) ==
    /\ sent[s] < MaxMessages
    /\ sent' = [sent EXCEPT ![s] = @ + 1]
    /\ pending' = [pending EXCEPT ![s] = @ \cup {sent[s] + 1}]
    /\ UNCHANGED received

\* A batch arrives: of each source the first messages under way, in order.
Deliver(batch) ==
    /\ batch \in Seq(Message) /\ InOrder(batch)
    /\ received' = received \o batch
    /\ \A s \in Source : Numbers(s, batch) \subseteq pending[s]
    /\ pending' = [s \in Source |-> pending[s] \ Numbers(s, batch)]
    /\ \A s \in Source : \A n \in Numbers(s, batch), later \in pending'[s] : n < later
    /\ UNCHANGED sent

\* What has been added to the messages that arrived.
Arrived == SubSeq(received', Len(received) + 1, Len(received'))

\* Any of those under way may get lost.
Lose ==
    /\ Lossy
    /\ pending' = [s \in Source |-> pending[s] \cap pending'[s]]
    /\ UNCHANGED <<sent, received>>

Next ==
    \/ \E s \in Source : Send(s)
    \/ Deliver(Arrived)
    \/ Lose

Spec == Init /\ [][Next]_vars
=============================================================================
