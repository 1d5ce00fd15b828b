--------------------------- MODULE SimpleChannel ---------------------------
(***************************************************************************)
(* SimpleChannel of channels.go: a value guarded by a mutex, a condition   *)
(* variable that Set broadcasts on, and the watch values whose Next blocks *)
(* until the value is newer than the last one the watch returned.  Each    *)
(* watch is driven by one goroutine: the first Next by the handler of the  *)
(* monitor INIT, every later one by the loop Monitor.Watch of monitor.go.  *)
(*                                                                         *)
(* c.value and c.seq are written together under c.mu, so the number of the *)
(* Set that wrote the value stands for the value.                          *)
(*                                                                         *)
(* A step is one critical section, or one step between two of them that    *)
(* another goroutine can observe.  The goroutine that Next starts to turn  *)
(* the end of its context into a Broadcast does not take c.mu, so its      *)
(* Broadcast may fall between the test of ctx.Err() and cond.Wait().       *)
(***************************************************************************)
EXTENDS Integers

CONSTANTS
  Watches,   \* the watch values handed out by CreateChannelMonitor
  Free,      \* the value of mu when nobody holds c.mu
  MaxSets    \* bound on the number of calls of Set

ASSUME WatchesAssumption == Free \notin Watches
ASSUME MaxSetsAssumption == MaxSets \in Nat

VARIABLES
  seq,       \* c.seq, and with it c.value
  mu,        \* the holder of c.mu, or Free
  wseq,      \* wseq[w]: w.seq, the last value that w's Next returned
  pc,        \* pc[w]: where the goroutine that drives w is
  done,      \* done[w]: the context w's Next is called with has ended
  helper,    \* helper[w]: the call in progress has a goroutine that has not broadcast yet
  late       \* late[w]: goroutines of finished calls that have still to broadcast

vars == <<seq, mu, wseq, pc, done, helper, late>>

(***************************************************************************)
(* "loop"  at the test of ctx.Err() in Monitor.Watch                       *)
(* "enter" has called Next and waits for c.mu                              *)
(* "test"  holds c.mu, at the loop condition of Next                       *)
(* "park"  holds c.mu, found ctx.Err() = nil and is about to cond.Wait()   *)
(* "sleep" on the list of the condition variable                           *)
(* "wake"  was notified and waits for c.mu                                 *)
(* "stop"  Next or Watch has returned an error                             *)
(***************************************************************************)
PCs == {"loop", "enter", "test", "park", "sleep", "wake", "stop"}

Init ==
  /\ seq = 0
  /\ mu = Free
  /\ wseq = [w \in Watches |-> -1]
  /\ pc = [w \in Watches |-> "enter"]
  /\ done = [w \in Watches |-> FALSE]
  /\ helper = [w \in Watches |-> FALSE]
  /\ late = [w \in Watches |-> 0]

----------------------------------------------------------------------------
(* Every goroutine on the condition variable's list is notified. *)
Broadcast(p) == [w \in Watches |-> IF p[w] = "sleep" THEN "wake" ELSE p[w]]

Goto(w, from, to) ==
  /\ pc[w] = from
  /\ pc' = [pc EXCEPT ![w] = to]

(* Mutant of Set: it leaves out c.cond.Broadcast(). *)
SetWithoutBroadcast ==
  /\ mu = Free
  /\ seq < MaxSets
  /\ seq' = seq + 1
  /\ UNCHANGED <<mu, wseq, pc, done, helper, late>>

(* Mutant of Set: it calls c.cond.Signal() instead. *)
SetWithSignal ==
  /\ mu = Free
  /\ seq < MaxSets
  /\ seq' = seq + 1
  /\ IF \E w \in Watches : pc[w] = "sleep"
       THEN \E w \in Watches : pc[w] = "sleep" /\ pc' = [pc EXCEPT ![w] = "wake"]
       ELSE pc' = pc
  /\ UNCHANGED <<mu, wseq, done, helper, late>>

Set ==
  /\ mu = Free
  /\ seq < MaxSets
  /\ seq' = seq + 1
  /\ pc' = Broadcast(pc)
  /\ UNCHANGED <<mu, wseq, done, helper, late>>

(* Monitor.Watch tests its context before every call of Next. *)
WatchLoop(w) ==
  /\ Goto(w, "loop", IF done[w] THEN "stop" ELSE "enter")
  /\ UNCHANGED <<seq, mu, wseq, done, helper, late>>

(* Next takes c.mu, derives its context and starts the broadcasting goroutine. *)
NextEnter(w) ==
  /\ Goto(w, "enter", "test")
  /\ mu = Free
  /\ mu' = w
  /\ helper' = [helper EXCEPT ![w] = TRUE]
  /\ UNCHANGED <<seq, wseq, done, late>>

(* Returning from Next runs the deferred cancel(), which ends the context  *)
(* of the helper goroutine, and then unlocks c.mu.                         *)
ReturnFromNext(w) ==
  /\ helper' = [helper EXCEPT ![w] = FALSE]
  /\ late' = [late EXCEPT ![w] = IF helper[w] THEN @ + 1 ELSE @]
  /\ mu' = Free

(* w.seq < c.seq: the loop ends and Next returns the current value. *)
NextReturnsValue(w) ==
  /\ Goto(w, "test", "loop")
  /\ wseq[w] < seq
  /\ wseq' = [wseq EXCEPT ![w] = seq]
  /\ ReturnFromNext(w)
  /\ UNCHANGED <<seq, done>>

(* Nothing new and the context has ended: Next returns ctx.Err(). *)
NextReturnsError(w) ==
  /\ Goto(w, "test", "stop")
  /\ wseq[w] >= seq
  /\ done[w]
  /\ ReturnFromNext(w)
  /\ UNCHANGED <<seq, wseq, done>>

(* Nothing new and ctx.Err() = nil: Next goes on to cond.Wait(). *)
NextDecidesToWait(w) ==
  /\ Goto(w, "test", "park")
  /\ wseq[w] >= seq
  /\ ~done[w]
  /\ UNCHANGED <<seq, mu, wseq, done, helper, late>>

(* cond.Wait() puts the goroutine on the list and releases c.mu ... *)
CondWait(w) ==
  /\ Goto(w, "park", "sleep")
  /\ mu' = Free
  /\ UNCHANGED <<seq, wseq, done, helper, late>>

(* ... and takes c.mu again once it has been notified. *)
CondWaitReturns(w) ==
  /\ Goto(w, "wake", "test")
  /\ mu = Free
  /\ mu' = w
  /\ UNCHANGED <<seq, wseq, done, helper, late>>

(* The goroutine of the call in progress sees its context end. *)
HelperBroadcasts(w) ==
  /\ helper[w]
  /\ done[w]
  /\ helper' = [helper EXCEPT ![w] = FALSE]
  /\ pc' = Broadcast(pc)
  /\ UNCHANGED <<seq, mu, wseq, done, late>>

(* The goroutine of a call that has returned gets to run. *)
LateHelperBroadcasts(w) ==
  /\ late[w] > 0
  /\ late' = [late EXCEPT ![w] = @ - 1]
  /\ pc' = Broadcast(pc)
  /\ UNCHANGED <<seq, mu, wseq, done, helper>>

(* Monitor.Terminate, or the end of the connection's context. *)
EndContext(w) ==
  /\ ~done[w]
  /\ done' = [done EXCEPT ![w] = TRUE]
  /\ UNCHANGED <<seq, mu, wseq, pc, helper, late>>

----------------------------------------------------------------------------
Goroutine(w) ==
  \/ WatchLoop(w) \/ NextEnter(w) \/ NextReturnsValue(w) \/ NextReturnsError(w)
  \/ NextDecidesToWait(w) \/ CondWait(w) \/ CondWaitReturns(w)

Next ==
  \/ Set
  \/ \E w \in Watches :
       \/ Goroutine(w) \/ HelperBroadcasts(w) \/ LateHelperBroadcasts(w)
       \/ EndContext(w)

(***************************************************************************)
(* Go runs every goroutine that can run, and a sync.Mutex starves nobody,  *)
(* so taking c.mu is strongly fair.  Nobody promises to call Set or to end *)
(* a context.                                                              *)
(***************************************************************************)
Fairness ==
  \A w \in Watches :
    /\ WF_vars(Goroutine(w))
    /\ SF_vars(NextEnter(w)) /\ SF_vars(CondWaitReturns(w))
    /\ WF_vars(HelperBroadcasts(w)) /\ WF_vars(LateHelperBroadcasts(w))

Spec == Init /\ [][Next]_vars

FairSpec == Spec /\ Fairness

----------------------------------------------------------------------------
(***************************************************************************)
(* Every variable stays in its range; in particular no watch ever claims a *)
(* value (w.seq) that Set has not stored yet (c.seq is at most MaxSets).   *)
(***************************************************************************)
TypeOK ==
  /\ seq \in 0..MaxSets
  /\ mu \in Watches \cup {Free}
  /\ wseq \in [Watches -> -1..MaxSets]
  /\ pc \in [Watches -> PCs]
  /\ done \in [Watches -> BOOLEAN]
  /\ helper \in [Watches -> BOOLEAN]
  /\ late \in [Watches -> Nat]

(***************************************************************************)
(* No wakeup by Set is lost: a goroutine asleep in Next's cond.Wait() has  *)
(* already returned the newest value, whatever Set, the helper goroutines  *)
(* and the other watches did between its test of w.seq and its sleep.      *)
(***************************************************************************)
NoMissedUpdate == \A w \in Watches : pc[w] = "sleep" => wseq[w] >= seq

(***************************************************************************)
(* Set notifies every monitor: each value that was set is overtaken by     *)
(* what Next returns, unless the watch's context ends.                     *)
(***************************************************************************)
EveryWatchCatchesUp ==
  \A w \in Watches : \A n \in 0..MaxSets : (seq >= n) ~> (wseq[w] >= n \/ done[w])

(***************************************************************************)
(* A watch whose context has ended and that lags behind the channel stops: *)
(* the value wakes it, and Monitor.Watch then sees the ended context.      *)
(***************************************************************************)
SetReleasesEndedWatch ==
  \A w \in Watches : (done[w] /\ wseq[w] < seq) ~> (pc[w] = "stop")

(***************************************************************************)
(* What the comment in Monitor.Watch takes for granted ("in case Next      *)
(* doesn't use context"): a Next that does use its context returns when    *)
(* the context ends, and the goroutine stops.                              *)
(***************************************************************************)
EndedContextStopsWatch == \A w \in Watches : done[w] ~> (pc[w] = "stop")

=============================================================================
