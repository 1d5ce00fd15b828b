------------------------------ MODULE Monitor ------------------------------
(***************************************************************************)
(* Package internal/server/monitor, driven as handleChannelMonitor of      *)
(* server.go drives it.  Three parties share one Monitor: the handler of   *)
(* the INIT message, the goroutine Watch that New starts, and the handlers *)
(* of later messages on the same request.  Every method holds m.mu from    *)
(* its first line to its last, so a method call, its drain() included, is  *)
(* one step; the steps of the parties interleave.                          *)
(*                                                                         *)
(* Values are numbered in the order in which the channel publishes them.   *)
(* The Nexter (an interface; SimpleChannel's watch implements it) returns  *)
(* the newest value once there is one it has not returned yet, and may     *)
(* fail after its context ended.                                           *)
(***************************************************************************)
EXTENDS Integers, Sequences

CONSTANTS
  Requests,   \* the pvRequest structures an INIT may carry
  NFrees,     \* the credits a message may carry; 0 stands for no such field
  MaxValues,  \* bound on the number of values the channel publishes
  MaxAcked    \* bound on the credit granted in total

(* asked: record._options.pipeline is present and true.  nested: how the   *)
(* structures inside the request are held, "value" as FieldDesc.createZero *)
(* builds them for every decoded request, "pointer" if built by hand.      *)
RequestShapes == [asked : BOOLEAN, nested : {"value", "pointer"}]

ASSUME RequestsAssumption == Requests \subseteq RequestShapes
ASSUME NFreesAssumption == NFrees \subseteq Nat
ASSUME BoundsAssumption == MaxValues \in Nat \ {0} /\ MaxAcked \in Nat

VARIABLES
  src,         \* the newest value of the channel
  last,        \* the value that the Nexter returned last
  request,     \* the pvRequest of the INIT message
  m,           \* the Monitor; m.sent and m.acked record its history
  wpc,         \* the goroutine Watch
  wval,        \* the value that Watch got from Next
  hpc,         \* the handler of the INIT message
  v0,          \* the value that the handler got from Next
  registered,  \* the request table leads to the Monitor, with status READY
  ended        \* the context of the Monitor has ended

vars == <<src, last, request, m, wpc, wval, hpc, v0, registered, ended>>

None == 0
Values == 1..MaxValues

WatchPCs == {"off", "loop", "next", "send", "stop"}
HandlerPCs == {"next", "new", "ack", "add", "reply", "send", "done", "failed"}

(* SubField("record", "_options", "pipeline") and BoolValue: the way down  *)
(* goes through structures held by pointer only.                           *)
Pipeline(r) == r.nested = "pointer" /\ r.asked

Init ==
  /\ src = 1
  /\ last = None
  /\ request \in Requests
  /\ m = [pipeline |-> FALSE, running |-> FALSE, windowOpen |-> 0,
          toSend |-> None, sent |-> <<>>, acked |-> 0]
  /\ wpc = "off"
  /\ wval = None
  /\ hpc = "next"
  /\ v0 = None
  /\ registered = FALSE
  /\ ended = FALSE

----------------------------------------------------------------------------
(* The methods of Monitor, as functions of its state. *)

MaySend(mon) ==
  mon.running /\ (~mon.pipeline \/ mon.windowOpen > 0) /\ mon.toSend # None

Debit(n) == IF n > 0 THEN n - 1 ELSE n

Emit(mon, window, pending) ==
  [mon EXCEPT !.windowOpen = window, !.sent = Append(@, mon.toSend), !.toSend = pending]

(* Mutants of drain: the window is not debited; running is not tested. *)
DrainWithoutDebit(mon) == IF MaySend(mon) THEN Emit(mon, mon.windowOpen, None) ELSE mon
DrainWhileStopped(mon) ==
  IF MaySend([mon EXCEPT !.running = TRUE]) THEN Emit(mon, Debit(mon.windowOpen), None) ELSE mon

drain(mon) == IF MaySend(mon) THEN Emit(mon, Debit(mon.windowOpen), None) ELSE mon

(* Mutant of Ack: it does not drain. *)
AckWithoutDrain(mon, nfree) ==
  [mon EXCEPT !.windowOpen = @ + nfree, !.acked = @ + nfree]

Ack(mon, nfree) == drain([mon EXCEPT !.windowOpen = @ + nfree, !.acked = @ + nfree])

Start(mon) == drain([mon EXCEPT !.running = TRUE])

Stop(mon) == drain([mon EXCEPT !.running = FALSE])

(* Mutant of Send: a pending value is kept rather than replaced. *)
SendKeepsPending(mon, v) ==
  drain([mon EXCEPT !.toSend = IF @ = None THEN v ELSE @])

Send(mon, v) == drain([mon EXCEPT !.toSend = v])

----------------------------------------------------------------------------
(* The channel publishes a value. *)
Publish ==
  /\ src < MaxValues
  /\ src' = src + 1
  /\ UNCHANGED <<last, request, m, wpc, wval, hpc, v0, registered, ended>>

(* The handler of INIT, from nexter.Next to m.Send(ctx, value). *)
HandlerGoto(from, to) == hpc = from /\ hpc' = to

InitNext ==
  /\ HandlerGoto("next", "new")
  /\ v0' = src
  /\ last' = src
  /\ UNCHANGED <<src, request, m, wpc, wval, registered, ended>>

InitNextFails ==
  /\ HandlerGoto("next", "failed")
  /\ ended
  /\ UNCHANGED <<src, last, request, m, wpc, wval, v0, registered, ended>>

New ==
  /\ HandlerGoto("new", "ack")
  /\ m' = [m EXCEPT !.pipeline = Pipeline(request)]
  /\ wpc' = "loop"
  /\ UNCHANGED <<src, last, request, wval, v0, registered, ended>>

InitAck(nfree) ==
  /\ HandlerGoto("ack", "add")
  /\ m.acked + nfree <= MaxAcked
  /\ m' = Ack(m, nfree)
  /\ UNCHANGED <<src, last, request, wpc, wval, v0, registered, ended>>

AddRequest ==
  /\ HandlerGoto("add", "reply")
  /\ registered' = TRUE
  /\ UNCHANGED <<src, last, request, m, wpc, wval, v0, ended>>

(* The ID is taken: the handler gives up, Watch goes on. *)
AddRequestFails ==
  /\ HandlerGoto("add", "failed")
  /\ UNCHANGED <<src, last, request, m, wpc, wval, v0, registered, ended>>

InitReply ==
  /\ HandlerGoto("reply", "send")
  /\ UNCHANGED <<src, last, request, m, wpc, wval, v0, registered, ended>>

(* The value cannot be described or the response cannot be sent: the       *)
(* handler gives up, the request stays registered.                         *)
InitReplyFails ==
  /\ HandlerGoto("reply", "failed")
  /\ UNCHANGED <<src, last, request, m, wpc, wval, v0, registered, ended>>

InitSend ==
  /\ HandlerGoto("send", "done")
  /\ m' = Send(m, v0)
  /\ UNCHANGED <<src, last, request, wpc, wval, v0, registered, ended>>

Handler ==
  \/ InitNext \/ InitNextFails \/ New \/ \E n \in NFrees : InitAck(n)
  \/ AddRequest \/ AddRequestFails \/ InitReply \/ InitReplyFails \/ InitSend

----------------------------------------------------------------------------
(* The goroutine Watch. *)
WatchTest ==
  /\ wpc = "loop"
  /\ wpc' = IF ended THEN "stop" ELSE "next"
  /\ UNCHANGED <<src, last, request, m, wval, hpc, v0, registered, ended>>

WatchNext ==
  /\ wpc = "next"
  /\ last < src
  /\ last' = src
  /\ wval' = src
  /\ wpc' = "send"
  /\ UNCHANGED <<src, request, m, hpc, v0, registered, ended>>

(* Mutant of WatchNextFails: Next is given a context that never ends. *)
WatchNextNeverFails == WatchNext /\ ended

WatchNextFails ==
  /\ wpc = "next"
  /\ last >= src
  /\ ended
  /\ wpc' = "stop"
  /\ UNCHANGED <<src, last, request, m, wval, hpc, v0, registered, ended>>

WatchSend ==
  /\ wpc = "send"
  /\ m' = Send(m, wval)
  /\ wpc' = "loop"
  /\ UNCHANGED <<src, last, request, wval, hpc, v0, registered, ended>>

Watch == WatchTest \/ WatchNext \/ WatchNextFails \/ WatchSend

----------------------------------------------------------------------------
(* Later messages on the request.  A message that carries several flags    *)
(* makes these calls one after the other; Watch may run between them.      *)
ClientAck(nfree) ==
  /\ registered
  /\ m.acked + nfree <= MaxAcked
  /\ m' = Ack(m, nfree)
  /\ UNCHANGED <<src, last, request, wpc, wval, hpc, v0, registered, ended>>

ClientStart ==
  /\ registered
  /\ m' = Start(m)
  /\ UNCHANGED <<src, last, request, wpc, wval, hpc, v0, registered, ended>>

ClientStop ==
  /\ registered
  /\ m' = Stop(m)
  /\ UNCHANGED <<src, last, request, wpc, wval, hpc, v0, registered, ended>>

(* Terminate calls m.cancel() and leaves the request registered. *)
Terminate ==
  /\ registered
  /\ ended' = TRUE
  /\ UNCHANGED <<src, last, request, m, wpc, wval, hpc, v0, registered>>

(* REQUEST_CANCEL and REQUEST_DESTROY: the request has no cancel function, *)
(* so the Monitor goes on, out of the reach of further messages.           *)
Detach ==
  /\ registered
  /\ registered' = FALSE
  /\ UNCHANGED <<src, last, request, m, wpc, wval, hpc, v0, ended>>

EndConnection ==
  /\ ended' = TRUE
  /\ UNCHANGED <<src, last, request, m, wpc, wval, hpc, v0, registered>>

Client ==
  \/ \E n \in NFrees : ClientAck(n)
  \/ ClientStart \/ ClientStop \/ Terminate \/ Detach

Next == Publish \/ Handler \/ Watch \/ Client \/ EndConnection

Spec == Init /\ [][Next]_vars

(* Go runs the two goroutines; nothing makes a client or a channel act. *)
FairSpec == Spec /\ WF_vars(Handler) /\ WF_vars(Watch)

----------------------------------------------------------------------------
MonitorStates ==
  [pipeline : BOOLEAN, running : BOOLEAN, windowOpen : Nat,
   toSend : Values \cup {None}, sent : Seq(Values), acked : Nat]

(***************************************************************************)
(* The fields of Monitor and the locals of its users keep their types; the *)
(* window of drain() is never debited below zero.                          *)
(***************************************************************************)
TypeOK ==
  /\ src \in Values
  /\ last \in 0..src
  /\ request \in RequestShapes
  /\ m \in MonitorStates
  /\ wpc \in WatchPCs
  /\ wval \in Values \cup {None}
  /\ hpc \in HandlerPCs
  /\ v0 \in Values \cup {None}
  /\ registered \in BOOLEAN
  /\ ended \in BOOLEAN

(***************************************************************************)
(* Flow control: the window of a pipelined monitor accounts for every      *)
(* credit granted and every update sent, so the server never sends more    *)
(* than the client has made room for.                                      *)
(***************************************************************************)
FlowControl == m.pipeline => Len(m.sent) + m.windowOpen = m.acked

(***************************************************************************)
(* No stall: whenever m.mu is free, nothing that may be sent is pending.   *)
(* Every method that opens the way for a value has to call drain().        *)
(***************************************************************************)
NoStall == ~MaySend(m)

(* The monitor implements the stream of updates that a client relies on.   *)
Stream == INSTANCE UpdateStream WITH
  published <- src, pipelined <- Pipeline(request), granted <- m.acked,
  subscribed <- m.running, delivered <- m.sent
StreamSpec == Stream!Spec

Delivered(n) == \E i \in DOMAIN m.sent : m.sent[i] >= n

Blocked == ~m.running \/ (m.pipeline /\ m.windowOpen = 0) \/ ended

(***************************************************************************)
(* A client that in the end keeps its subscription started and in credit   *)
(* gets every value that Watch had still to fetch when the INIT handler    *)
(* was done, or a newer one, however long the value was held back by Stop  *)
(* or by an empty window.                                                  *)
(***************************************************************************)
LaterValuesDelivered ==
  \A n \in Values :
    <>[]~Blocked => ((hpc = "done" /\ last < n /\ n <= src) ~> Delivered(n))

(***************************************************************************)
(* The goroutine Watch of a Monitor ends with TERMINATE or with the        *)
(* connection, wherever it is, values still to be fetched or not, also if  *)
(* the request was never registered because its ID was taken and nobody    *)
(* else knows of it.  (Next returns when its context ends: see the run     *)
(* channel_end for where SimpleChannel does not.)                          *)
(***************************************************************************)
WatchEnds == (ended /\ wpc # "off") ~> wpc = "stop"

(***************************************************************************)
(* "Set changes the value in c and notifies any clients that are           *)
(* monitoring the channel": every value published after INIT fetched the   *)
(* first one reaches a client that keeps its subscription running.         *)
(***************************************************************************)
NotifiesMonitors ==
  \A n \in Values :
    (v0 # None /\ v0 < n /\ n <= src) ~> (Delivered(n) \/ Blocked \/ hpc = "failed")

=============================================================================
