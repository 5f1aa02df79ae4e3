------------------------------ MODULE AtLeastOnce ------------------------------
(***************************************************************************)
(* What an outbox promises towards one sink: an accepted event is sent     *)
(* before it is settled, possibly several times.  After that only a sender *)
(* that was cut off with the event in its hand, while the event was not    *)
(* settled yet, can send it, and once.                                     *)
(***************************************************************************)
EXTENDS Naturals

CONSTANT Event

VARIABLES
    accepted, \* the events taken in
    sent,     \* how many times each went out
    settled,  \* those done with
    stray     \* how many cut off senders have each event in hand

ChannelInit ==
    /\ accepted = {} /\ settled = {}
    /\ sent = [e \in Event |-> 0] /\ stray = [e \in Event |-> 0]

Accept(e) ==
    /\ e \notin accepted
    /\ accepted' = accepted \cup {e}
    /\ UNCHANGED <<sent, settled, stray>>

Send(e) ==
    /\ e \in accepted \ settled
    /\ sent' = [sent EXCEPT ![e] = @ + 1]
    /\ UNCHANGED <<accepted, settled, stray>>

(* A sender loses its hold on the event and does not know it yet.          *)
CutOff(e) ==
    /\ e \in accepted \ settled
    /\ stray' = [stray EXCEPT ![e] = @ + 1]
    /\ UNCHANGED <<accepted, sent, settled>>

StraySend(e) ==
    /\ stray[e] > 0
    /\ stray' = [stray EXCEPT ![e] = @ - 1]
    /\ sent' = [sent EXCEPT ![e] = @ + 1]
    /\ UNCHANGED <<accepted, settled>>

StrayStops(e) ==
    /\ stray[e] > 0
    /\ stray' = [stray EXCEPT ![e] = @ - 1]
    /\ UNCHANGED <<accepted, sent, settled>>

(* Events settle together, when their transaction commits.                 *)
Settle(batch) ==
    /\ batch \subseteq accepted \ settled
    /\ \A e \in batch : sent[e] > 0
    /\ settled' = settled \cup batch
    /\ UNCHANGED <<accepted, sent, stray>>

ChannelNext ==
    \/ \E e \in Event :
          Accept(e) \/ Send(e) \/ CutOff(e) \/ StraySend(e) \/ StrayStops(e)
    \/ \E batch \in SUBSET Event : Settle(batch)

ChannelSpec ==
    ChannelInit /\ [][ChannelNext]_<<accepted, sent, settled, stray>>
=============================================================================
