------------------------------ MODULE MsgQueue ------------------------------
(***************************************************************************)
(* What app/base/tcom promises to the modules that use it: every module    *)
(* has a FIFO queue of whole messages, header and body together.  A        *)
(* message is queued for the router, taken by it and queued for its        *)
(* receiver, or dropped there when the receiver's queue has no room.  A    *)
(* message is never altered, duplicated, reordered or split.               *)
(***************************************************************************)
EXTENDS Sequences

CONSTANTS Modules,   \* the modules that receive
          Router,    \* the queue of the router itself
          Msgs,      \* the messages: [hdr, body] with a receiver in hdr.to
          None       \* no message

VARIABLES chan,      \* the queue of every module and of the router
          hand,      \* the message the router is passing on
          inbox      \* the message each module is handling

mqVars == <<chan, hand, inbox>>

MQInit ==
    /\ chan = [q \in Modules \cup {Router} |-> <<>>]
    /\ hand = None
    /\ inbox = [q \in Modules |-> None]

Enqueue(q, m) == chan' = [chan EXCEPT ![q] = Append(@, m)]

Send(m) ==
    /\ Enqueue(Router, m)
    /\ UNCHANGED <<hand, inbox>>

Take ==
    /\ hand = None
    /\ chan[Router] # <<>>
    /\ hand' = Head(chan[Router])
    /\ chan' = [chan EXCEPT ![Router] = Tail(@)]
    /\ UNCHANGED inbox

Pass ==
    /\ hand # None
    /\ hand.hdr.to \in Modules
    /\ Enqueue(hand.hdr.to, hand)
    /\ hand' = None
    /\ UNCHANGED inbox

Drop ==
    /\ hand # None
    /\ hand' = None
    /\ UNCHANGED <<chan, inbox>>

Receive(q) ==
    /\ inbox[q] = None
    /\ chan[q] # <<>>
    /\ inbox' = [inbox EXCEPT ![q] = Head(chan[q])]
    /\ chan' = [chan EXCEPT ![q] = Tail(@)]
    /\ UNCHANGED hand

Handled(q) ==
    /\ inbox[q] # None
    /\ inbox' = [inbox EXCEPT ![q] = None]
    /\ UNCHANGED <<chan, hand>>

MQNext ==
    \/ \E m \in Msgs : Send(m)
    \/ Take \/ Pass \/ Drop
    \/ \E q \in Modules : Receive(q) \/ Handled(q)

MQSpec == MQInit /\ [][MQNext]_mqVars
=============================================================================
