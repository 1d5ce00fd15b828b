------------------------ MODULE SimpleChannelProofs ------------------------
(***************************************************************************)
(* NoMissedUpdate of SimpleChannel for any set of watches and any number   *)
(* of calls of Set.  It is not inductive: whether a goroutine may go to    *)
(* sleep was decided one step earlier, while it held c.mu, so the          *)
(* invariant also says who holds c.mu and that the decision still stands.  *)
(***************************************************************************)
EXTENDS SimpleChannel, TLAPS

(* c.mu is held by exactly the goroutine that is between Lock and Unlock. *)
MutexInv == \A w \in Watches : mu = w <=> pc[w] \in {"test", "park"}

(* The decision to wait cannot be overtaken by a Set. *)
DecisionInv == \A w \in Watches : pc[w] \in {"park", "sleep"} => wseq[w] >= seq

IInv == TypeOK /\ MutexInv /\ DecisionInv

LEMMA InitIInv == Init => IInv
  BY WatchesAssumption, MaxSetsAssumption
     DEF Init, IInv, TypeOK, MutexInv, DecisionInv, PCs

(* What Broadcast does to the program counters. *)
LEMMA BroadcastType ==
  ASSUME NEW p \in [Watches -> PCs]
  PROVE  /\ Broadcast(p) \in [Watches -> PCs]
         /\ \A w \in Watches :
              /\ Broadcast(p)[w] # "sleep"
              /\ Broadcast(p)[w] \in {"test", "park"} <=> p[w] \in {"test", "park"}
              /\ Broadcast(p)[w] = "park" <=> p[w] = "park"
  BY DEF Broadcast, PCs

LEMMA StepIInv == IInv /\ [Next]_vars => IInv'
<1> SUFFICES ASSUME IInv, [Next]_vars PROVE IInv'
  OBVIOUS
<1> USE WatchesAssumption, MaxSetsAssumption DEF IInv, TypeOK
<1>1. CASE Set
  <2>1. pc \in [Watches -> PCs] /\ pc' = Broadcast(pc)
    BY <1>1 DEF Set
  <2>2. TypeOK'
    BY <1>1, <2>1, BroadcastType DEF Set
  <2>3. MutexInv'
    BY <1>1, <2>1, BroadcastType DEF Set, MutexInv
  <2>4. DecisionInv'
    BY <1>1, <2>1, BroadcastType DEF Set, MutexInv, DecisionInv
  <2> QED BY <2>2, <2>3, <2>4
<1>2. ASSUME NEW w \in Watches, WatchLoop(w) PROVE IInv'
  BY <1>2 DEF WatchLoop, Goto, MutexInv, DecisionInv, PCs
<1>3. ASSUME NEW w \in Watches, NextEnter(w) PROVE IInv'
  BY <1>3 DEF NextEnter, Goto, MutexInv, DecisionInv, PCs
<1>4. ASSUME NEW w \in Watches, NextReturnsValue(w) PROVE IInv'
  BY <1>4 DEF NextReturnsValue, ReturnFromNext, Goto, MutexInv, DecisionInv, PCs
<1>5. ASSUME NEW w \in Watches, NextReturnsError(w) PROVE IInv'
  BY <1>5 DEF NextReturnsError, ReturnFromNext, Goto, MutexInv, DecisionInv, PCs
<1>6. ASSUME NEW w \in Watches, NextDecidesToWait(w) PROVE IInv'
  BY <1>6 DEF NextDecidesToWait, Goto, MutexInv, DecisionInv, PCs
<1>7. ASSUME NEW w \in Watches, CondWait(w) PROVE IInv'
  BY <1>7 DEF CondWait, Goto, MutexInv, DecisionInv, PCs
<1>8. ASSUME NEW w \in Watches, CondWaitReturns(w) PROVE IInv'
  BY <1>8 DEF CondWaitReturns, Goto, MutexInv, DecisionInv, PCs
<1>9. ASSUME NEW w \in Watches, HelperBroadcasts(w) PROVE IInv'
  <2>1. pc \in [Watches -> PCs] /\ pc' = Broadcast(pc)
    BY <1>9 DEF HelperBroadcasts
  <2>2. TypeOK'
    BY <1>9, <2>1, BroadcastType DEF HelperBroadcasts
  <2> QED BY <1>9, <2>1, <2>2, BroadcastType DEF HelperBroadcasts, MutexInv, DecisionInv
<1>10. ASSUME NEW w \in Watches, LateHelperBroadcasts(w) PROVE IInv'
  <2>1. pc \in [Watches -> PCs] /\ pc' = Broadcast(pc)
    BY <1>10 DEF LateHelperBroadcasts
  <2>2. TypeOK'
    BY <1>10, <2>1, BroadcastType DEF LateHelperBroadcasts
  <2> QED BY <1>10, <2>1, <2>2, BroadcastType DEF LateHelperBroadcasts, MutexInv, DecisionInv
<1>11. ASSUME NEW w \in Watches, EndContext(w) PROVE IInv'
  BY <1>11 DEF EndContext, MutexInv, DecisionInv
<1>12. CASE UNCHANGED vars
  BY <1>12 DEF vars, MutexInv, DecisionInv
<1> QED
  BY <1>1, <1>2, <1>3, <1>4, <1>5, <1>6, <1>7, <1>8, <1>9, <1>10, <1>11, <1>12
     DEF Next, Goroutine

(***************************************************************************)
(* However many watches there are and however often Set runs, the          *)
(* variables of channels.go keep their types and no watch runs ahead.      *)
(***************************************************************************)
THEOREM TypeCorrect == Spec => []TypeOK
<1>1. IInv => TypeOK
  BY DEF IInv
<1> QED BY <1>1, InitIInv, StepIInv, PTL DEF Spec

(***************************************************************************)
(* No goroutine sleeps in cond.Wait() while the channel holds a value its  *)
(* watch has not returned: Set, Next and the helper goroutines together    *)
(* never lose a notification of Set.                                       *)
(***************************************************************************)
THEOREM NoUpdateIsMissed == Spec => []NoMissedUpdate
<1>1. IInv => NoMissedUpdate
  BY DEF IInv, DecisionInv, NoMissedUpdate
<1> QED BY <1>1, InitIInv, StepIInv, PTL DEF Spec

=============================================================================
