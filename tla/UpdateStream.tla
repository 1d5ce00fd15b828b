---------------------------- MODULE UpdateStream ----------------------------
(***************************************************************************)
(* What a monitor promises its client, without goroutines, windows or      *)
(* pending values: a lossy stream of the values a channel publishes.       *)
(* Values are numbered in the order of publication.  A delivery needs a    *)
(* subscription that is on and, for a pipelined monitor, credit that the   *)
(* client granted; it is newer than everything delivered before, with one  *)
(* exception: the oldest value, the one that INIT described, may come late. *)
(***************************************************************************)
EXTENDS Naturals, Sequences

VARIABLES
  published,   \* the number of the newest value of the channel
  pipelined,   \* the client asked for flow control
  granted,     \* the total credit the client has granted
  subscribed,  \* the subscription is running
  delivered    \* the values delivered, in order

vars == <<published, pipelined, granted, subscribed, delivered>>

Init ==
  /\ published = 1
  /\ pipelined \in BOOLEAN
  /\ granted = 0
  /\ subscribed = FALSE
  /\ delivered = <<>>

Publish ==
  /\ published' = published + 1
  /\ UNCHANGED <<pipelined, granted, subscribed, delivered>>

NewestOrOldest(v) ==
  \/ \A i \in DOMAIN delivered : delivered[i] < v
  \/ \A i \in DOMAIN delivered : delivered[i] > v

Deliver(v) ==
  /\ subscribed'
  /\ NewestOrOldest(v)
  /\ delivered' = Append(delivered, v)
  /\ pipelined => Len(delivered) < granted'

(* The client grants credit, turns the subscription on or off, or does    *)
(* nothing; one value may be delivered in the same step.                  *)
Serve ==
  /\ granted' \in Nat /\ granted' >= granted
  /\ subscribed' \in BOOLEAN
  /\ delivered' = delivered \/ \E v \in 1..published : Deliver(v)
  /\ UNCHANGED <<published, pipelined>>

Next == Publish \/ Serve

Spec == Init /\ [][Next]_vars

=============================================================================
