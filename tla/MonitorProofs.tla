--------------------------- MODULE MonitorProofs ---------------------------
(***************************************************************************)
(* The safety of Monitor for every set of requests, every credit and every *)
(* number of values.  All updates pass through drain(), so the proof is    *)
(* about drain first (DrainLemma) and then about the steps that call it.   *)
(***************************************************************************)
EXTENDS Monitor, TLAPS

(* The accounting of the window, of any monitor. *)
Accounted(mon) == mon.pipeline => Len(mon.sent) + mon.windowOpen = mon.acked

(* drain() preserves types and accounts, and leaves nothing to be sent. *)
LEMMA DrainLemma ==
  ASSUME NEW mon \in MonitorStates
  PROVE  /\ drain(mon) \in MonitorStates
         /\ Accounted(mon) => Accounted(drain(mon))
         /\ ~MaySend(drain(mon))
         /\ drain(mon).pipeline = mon.pipeline
<1>1. CASE MaySend(mon)
  <2> DEFINE d == [mon EXCEPT !.windowOpen = Debit(mon.windowOpen),
                              !.sent = Append(@, mon.toSend), !.toSend = None]
  <2>1. drain(mon) = d
    BY <1>1 DEF drain, Emit
  <2>2. mon.toSend \in Values /\ mon.windowOpen \in Nat /\ mon.sent \in Seq(Values)
    BY <1>1 DEF MonitorStates, MaySend
  <2>3. Debit(mon.windowOpen) \in Nat
    BY <2>2 DEF Debit
  <2>4. /\ Append(mon.sent, mon.toSend) \in Seq(Values)
        /\ Len(Append(mon.sent, mon.toSend)) = Len(mon.sent) + 1
    BY <2>2
  <2>5. d \in MonitorStates
    BY <2>2, <2>3, <2>4 DEF MonitorStates
  <2>6. /\ d.pipeline = mon.pipeline /\ d.acked = mon.acked /\ d.toSend = None
        /\ d.windowOpen = Debit(mon.windowOpen)
        /\ d.sent = Append(mon.sent, mon.toSend)
    BY DEF MonitorStates
  <2>7. Accounted(mon) => Accounted(d)
    <3>1. mon.pipeline => Debit(mon.windowOpen) = mon.windowOpen - 1
      BY <1>1, <2>2 DEF MaySend, Debit
    <3>2. Len(mon.sent) \in Nat /\ mon.acked \in Nat
      BY <2>2 DEF MonitorStates
    <3> HIDE DEF d
    <3> SUFFICES ASSUME Accounted(mon), mon.pipeline
                 PROVE  Len(d.sent) + d.windowOpen = d.acked
      BY <2>6 DEF Accounted
    <3>3. Len(mon.sent) + mon.windowOpen = mon.acked
      BY DEF Accounted
    <3>4. Len(d.sent) = Len(mon.sent) + 1
      BY <2>4, <2>6
    <3>5. d.windowOpen = mon.windowOpen - 1 /\ d.acked = mon.acked
      BY <2>6, <3>1
    <3> QED BY <2>2, <3>2, <3>3, <3>4, <3>5
  <2> QED BY <2>1, <2>5, <2>6, <2>7 DEF MaySend
<1>2. CASE ~MaySend(mon)
  BY <1>2 DEF drain
<1> QED BY <1>1, <1>2

IInv == TypeOK /\ FlowControl /\ NoStall
        /\ (hpc \in {"next", "new"} => m.acked = 0 /\ m.windowOpen = 0 /\ m.sent = <<>>)
        /\ (hpc \in {"next", "new"} => ~registered /\ wpc = "off" /\ ~m.running)
        /\ (wpc = "send" => wval \in Values)
        /\ (hpc \notin {"next", "failed"} => v0 \in Values)
        /\ (hpc = "failed" /\ wpc # "off" => v0 \in Values)

LEMMA InitIInv == Init => IInv
<1> SUFFICES ASSUME Init PROVE IInv
  OBVIOUS
<1> USE DEF Init, None, Values
<1>1. src \in Values /\ last \in 0..src
  BY BoundsAssumption
<1>2. m \in MonitorStates
  BY DEF MonitorStates
<1>3. TypeOK
  BY <1>1, <1>2, RequestsAssumption DEF TypeOK, WatchPCs, HandlerPCs
<1> QED BY <1>3 DEF IInv, FlowControl, NoStall, MaySend

(* The three updates of the state that precede a drain() keep its types. *)
LEMMA MethodLemma ==
  ASSUME NEW mon \in MonitorStates, Accounted(mon)
  PROVE  /\ \A n \in Nat : /\ Ack(mon, n) \in MonitorStates
                           /\ Accounted(Ack(mon, n)) /\ ~MaySend(Ack(mon, n))
         /\ \A v \in Values : /\ Send(mon, v) \in MonitorStates
                              /\ Accounted(Send(mon, v)) /\ ~MaySend(Send(mon, v))
         /\ Start(mon) \in MonitorStates /\ Accounted(Start(mon)) /\ ~MaySend(Start(mon))
         /\ Stop(mon) \in MonitorStates /\ Accounted(Stop(mon)) /\ ~MaySend(Stop(mon))
<1>1. ASSUME NEW n \in Nat
      PROVE  /\ Ack(mon, n) \in MonitorStates
             /\ Accounted(Ack(mon, n)) /\ ~MaySend(Ack(mon, n))
  <2> DEFINE a == [mon EXCEPT !.windowOpen = @ + n, !.acked = @ + n]
  <2>2. /\ Len(mon.sent) \in Nat /\ mon.windowOpen \in Nat /\ mon.acked \in Nat
        /\ mon.windowOpen + n \in Nat /\ mon.acked + n \in Nat
    BY DEF MonitorStates
  <2>1. a \in MonitorStates
    BY <2>2 DEF MonitorStates
  <2>3. Accounted(a)
    BY <2>2 DEF Accounted, MonitorStates
  <2> QED BY <2>1, <2>3, DrainLemma DEF Ack
<1>2. ASSUME NEW v \in Values
      PROVE  /\ Send(mon, v) \in MonitorStates
             /\ Accounted(Send(mon, v)) /\ ~MaySend(Send(mon, v))
  <2> DEFINE a == [mon EXCEPT !.toSend = v]
  <2>1. a \in MonitorStates /\ Accounted(a)
    BY DEF MonitorStates, Accounted
  <2> QED BY <2>1, DrainLemma DEF Send
<1>3. Start(mon) \in MonitorStates /\ Accounted(Start(mon)) /\ ~MaySend(Start(mon))
  <2> DEFINE a == [mon EXCEPT !.running = TRUE]
  <2>1. a \in MonitorStates /\ Accounted(a)
    BY DEF MonitorStates, Accounted
  <2> QED BY <2>1, DrainLemma DEF Start
<1>4. Stop(mon) \in MonitorStates /\ Accounted(Stop(mon)) /\ ~MaySend(Stop(mon))
  <2> DEFINE a == [mon EXCEPT !.running = FALSE]
  <2>1. a \in MonitorStates /\ Accounted(a)
    BY DEF MonitorStates, Accounted
  <2> QED BY <2>1, DrainLemma DEF Stop
<1> QED BY <1>1, <1>2, <1>3, <1>4

LEMMA StepIInv == IInv /\ [Next]_vars => IInv'
<1> SUFFICES ASSUME IInv, [Next]_vars PROVE IInv'
  OBVIOUS
<1> USE DEF IInv, TypeOK, HandlerPCs, WatchPCs
<1>a. m \in MonitorStates /\ Accounted(m)
  BY DEF FlowControl, Accounted
<1>1. CASE Publish
  BY <1>1, BoundsAssumption DEF Publish, FlowControl, NoStall, Values, None
<1>2. CASE InitNext
  BY <1>2 DEF InitNext, HandlerGoto, FlowControl, NoStall, Values, None
<1>3. CASE InitNextFails \/ AddRequestFails \/ InitReply \/ InitReplyFails
  BY <1>3 DEF InitNextFails, AddRequestFails, InitReply, InitReplyFails,
              HandlerGoto, FlowControl, NoStall
<1>4. CASE New
  <2>1. /\ m' \in MonitorStates /\ m'.running = FALSE
        /\ m'.sent = <<>> /\ m'.windowOpen = 0 /\ m'.acked = 0
    BY <1>4 DEF New, HandlerGoto, MonitorStates, Pipeline
  <2> QED BY <1>4, <2>1 DEF New, HandlerGoto, FlowControl, NoStall, MaySend
<1>5. ASSUME NEW n \in NFrees, InitAck(n) PROVE IInv'
  <2>1. n \in Nat /\ m' = Ack(m, n)
    BY <1>5, NFreesAssumption DEF InitAck
  <2>2. m' \in MonitorStates /\ FlowControl' /\ NoStall'
    BY <1>a, <2>1, MethodLemma DEF FlowControl, NoStall, Accounted
  <2> QED BY <1>5, <2>2 DEF InitAck, HandlerGoto
<1>6. CASE AddRequest
  BY <1>6 DEF AddRequest, HandlerGoto, FlowControl, NoStall
<1>7. CASE InitSend
  <2>1. v0 \in Values /\ m' = Send(m, v0)
    BY <1>7 DEF InitSend, HandlerGoto
  <2>2. m' \in MonitorStates /\ FlowControl' /\ NoStall'
    BY <1>a, <2>1, MethodLemma DEF FlowControl, NoStall, Accounted
  <2> QED BY <1>7, <2>2 DEF InitSend, HandlerGoto
<1>8. CASE WatchTest \/ WatchNextFails
  BY <1>8 DEF WatchTest, WatchNextFails, FlowControl, NoStall
<1>9. CASE WatchNext
  BY <1>9 DEF WatchNext, FlowControl, NoStall, Values
<1>10. CASE WatchSend
  <2>1. wval \in Values /\ m' = Send(m, wval) /\ hpc \notin {"next", "new"}
    BY <1>10 DEF WatchSend
  <2>2. m' \in MonitorStates /\ FlowControl' /\ NoStall'
    BY <1>a, <2>1, MethodLemma DEF FlowControl, NoStall, Accounted
  <2> QED BY <1>10, <2>1, <2>2 DEF WatchSend
<1>11. ASSUME NEW n \in NFrees, ClientAck(n) PROVE IInv'
  <2>1. n \in Nat /\ m' = Ack(m, n) /\ hpc \notin {"next", "new"}
    BY <1>11, NFreesAssumption DEF ClientAck
  <2>2. m' \in MonitorStates /\ FlowControl' /\ NoStall'
    BY <1>a, <2>1, MethodLemma DEF FlowControl, NoStall, Accounted
  <2> QED BY <1>11, <2>1, <2>2 DEF ClientAck
<1>12. CASE ClientStart \/ ClientStop
  <2>1. (m' = Start(m) \/ m' = Stop(m)) /\ hpc \notin {"next", "new"}
    BY <1>12 DEF ClientStart, ClientStop
  <2>2. m' \in MonitorStates /\ FlowControl' /\ NoStall'
    BY <1>a, <2>1, MethodLemma DEF FlowControl, NoStall, Accounted
  <2> QED BY <1>12, <2>1, <2>2 DEF ClientStart, ClientStop
<1>13. CASE Terminate \/ Detach \/ EndConnection
  <2>1. CASE Terminate
    BY <2>1 DEF Terminate, FlowControl, NoStall
  <2>2. CASE Detach
    BY <2>2 DEF Detach, FlowControl, NoStall
  <2>3. CASE EndConnection
    BY <2>3 DEF EndConnection, FlowControl, NoStall
  <2> QED BY <1>13, <2>1, <2>2, <2>3
<1>14. CASE UNCHANGED vars
  BY <1>14 DEF vars, FlowControl, NoStall
<1> QED
  BY <1>1, <1>2, <1>3, <1>4, <1>5, <1>6, <1>7, <1>8, <1>9, <1>10, <1>11, <1>12,
     <1>13, <1>14 DEF Next, Handler, Watch, Client

(***************************************************************************)
(* The window of a pipelined Monitor accounts for every credit and every   *)
(* update, whatever the handlers and Watch do and in whatever order.       *)
(***************************************************************************)
THEOREM WindowAccounts == Spec => []FlowControl
<1>1. IInv => FlowControl
  BY DEF IInv
<1> QED BY <1>1, InitIInv, StepIInv, PTL DEF Spec

(***************************************************************************)
(* Between two method calls no value that may be sent is left pending, and *)
(* the state keeps its types: Ack, Start, Stop and Send all drain.         *)
(***************************************************************************)
THEOREM NothingStalls == Spec => [](TypeOK /\ NoStall)
<1>1. IInv => TypeOK /\ NoStall
  BY DEF IInv
<1> QED BY <1>1, InitIInv, StepIInv, PTL DEF Spec

----------------------------------------------------------------------------
(***************************************************************************)
(* The refinement of UpdateStream.  That a delivery is newer, or older,    *)
(* than all before it depends on values that are still on their way: the   *)
(* one that Watch holds, the one that the INIT handler holds and the one   *)
(* that waits in toSend.                                                   *)
(***************************************************************************)
Above(v, s) == \A i \in DOMAIN s : s[i] < v
Below(v, s) == \A i \in DOMAIN s : s[i] > v

(* A monitor that sends has the pipeline flag of its request. *)
FlagInv ==
  \/ m.pipeline = Pipeline(request)
  \/ hpc \in {"next", "new", "failed"} /\ ~registered /\ wpc = "off"

(* Everything that left the Nexter is at most its newest value. *)
FetchedInv ==
  /\ v0 <= last /\ m.toSend <= last
  /\ \A i \in DOMAIN m.sent : m.sent[i] <= last
  /\ hpc \in {"next", "new"} => m.toSend = None

(* The value that Watch holds is newer than all others. *)
WatchInv ==
  wpc = "send" => /\ v0 < wval /\ wval <= last /\ m.toSend < wval
                  /\ Above(wval, m.sent)

(* Until the INIT handler sends its value, all others are newer. *)
FirstInv ==
  hpc \in {"new", "ack", "add", "reply", "send"} =>
    Below(v0, m.sent) /\ (m.toSend # None => v0 < m.toSend)

PendingInv ==
  m.toSend # None => Above(m.toSend, m.sent) \/ Below(m.toSend, m.sent)

OrderInv == FlagInv /\ FetchedInv /\ WatchInv /\ FirstInv /\ PendingInv

(* b is a after a method that made v the value to be sent, and its drain(). *)
Drained(a, b, v) ==
  /\ b.pipeline = a.pipeline
  /\ b.acked >= a.acked
  /\ \/ b.sent = a.sent /\ b.toSend = v
     \/ v # None /\ b.running /\ b.sent = Append(a.sent, v) /\ b.toSend = None

(* Every method changes a monitor in the way that Drained says. *)
LEMMA DrainedLemma ==
  ASSUME NEW mon \in MonitorStates
  PROVE  /\ \A n \in Nat : Drained(mon, Ack(mon, n), mon.toSend)
         /\ \A v \in Values : Drained(mon, Send(mon, v), v)
         /\ Drained(mon, Start(mon), mon.toSend)
         /\ Drained(mon, Stop(mon), mon.toSend)
<1>a. ASSUME NEW a \in MonitorStates, a.pipeline = mon.pipeline,
             a.acked >= mon.acked, a.sent = mon.sent
      PROVE  Drained(mon, drain(a), a.toSend)
  <2>1. CASE MaySend(a)
    <3> DEFINE d == [a EXCEPT !.windowOpen = Debit(a.windowOpen),
                              !.sent = Append(@, a.toSend), !.toSend = None]
    <3>1. drain(a) = d
      BY <2>1 DEF drain, Emit
    <3>2. /\ d.pipeline = a.pipeline /\ d.acked = a.acked /\ d.toSend = None
          /\ d.running = a.running /\ d.sent = Append(a.sent, a.toSend)
      BY DEF MonitorStates
    <3> QED BY <1>a, <2>1, <3>1, <3>2 DEF Drained, MaySend
  <2>2. CASE ~MaySend(a)
    BY <1>a, <2>2 DEF drain, Drained
  <2> QED BY <2>1, <2>2
<1>1. ASSUME NEW n \in Nat PROVE Drained(mon, Ack(mon, n), mon.toSend)
  <2> DEFINE a == [mon EXCEPT !.windowOpen = @ + n, !.acked = @ + n]
  <2>1. /\ mon.windowOpen \in Nat /\ mon.acked \in Nat
        /\ mon.windowOpen + n \in Nat /\ mon.acked + n \in Nat /\ mon.acked + n >= mon.acked
    BY DEF MonitorStates
  <2>2. /\ a \in MonitorStates /\ a.pipeline = mon.pipeline
        /\ a.acked = mon.acked + n /\ a.sent = mon.sent /\ a.toSend = mon.toSend
    BY <2>1 DEF MonitorStates
  <2> HIDE DEF a
  <2>3. Drained(mon, drain(a), mon.toSend)
    BY <1>a, <2>1, <2>2
  <2> QED BY <2>3 DEF Ack, a
<1>2. ASSUME NEW v \in Values PROVE Drained(mon, Send(mon, v), v)
  <2> DEFINE a == [mon EXCEPT !.toSend = v]
  <2>1. /\ a \in MonitorStates /\ a.pipeline = mon.pipeline /\ a.acked >= mon.acked
        /\ a.sent = mon.sent /\ a.toSend = v
    BY DEF MonitorStates
  <2> HIDE DEF a
  <2>2. Drained(mon, drain(a), v)
    BY <1>a, <2>1
  <2> QED BY <2>2 DEF Send, a
<1>3. Drained(mon, Start(mon), mon.toSend) /\ Drained(mon, Stop(mon), mon.toSend)
  <2>1. ASSUME NEW b \in BOOLEAN
        PROVE  Drained(mon, drain([mon EXCEPT !.running = b]), mon.toSend)
    <3> DEFINE a == [mon EXCEPT !.running = b]
    <3>1. /\ a \in MonitorStates /\ a.pipeline = mon.pipeline /\ a.acked >= mon.acked
          /\ a.sent = mon.sent /\ a.toSend = mon.toSend
      BY DEF MonitorStates
    <3> HIDE DEF a
    <3>2. Drained(mon, drain(a), mon.toSend)
      BY <1>a, <3>1
    <3> QED BY <3>2 DEF a
  <2> QED BY <2>1 DEF Start, Stop
<1> QED BY <1>1, <1>2, <1>3

(* What a method sends besides what was sent before is the value v. *)
LEMMA SentLemma ==
  ASSUME NEW a \in MonitorStates, NEW b \in MonitorStates,
         NEW v \in Values \cup {None}, Drained(a, b, v)
  PROVE  /\ \A w \in Nat : Above(w, a.sent) /\ v < w => Above(w, b.sent)
         /\ \A w \in Nat : Below(w, a.sent) /\ (v # None => w < v) => Below(w, b.sent)
         /\ b.toSend # None => b.sent = a.sent /\ b.toSend = v
         /\ b.toSend \in {None, v}
<1>1. a.sent \in Seq(Values)
  BY DEF MonitorStates
<1>2. CASE b.sent = a.sent /\ b.toSend = v
  BY <1>2 DEF Above, Below
<1>3. CASE v # None /\ b.sent = Append(a.sent, v) /\ b.toSend = None
  <2>1. /\ DOMAIN b.sent = 1..(Len(a.sent) + 1) /\ DOMAIN a.sent = 1..Len(a.sent)
        /\ Len(a.sent) \in Nat
        /\ \A i \in 1..Len(a.sent) : b.sent[i] = a.sent[i]
        /\ b.sent[Len(a.sent) + 1] = v
    BY <1>1, <1>3
  <2>2. \A i \in DOMAIN b.sent : i \in DOMAIN a.sent \/ i = Len(a.sent) + 1
    BY <2>1
  <2> QED BY <1>3, <2>1, <2>2 DEF Above, Below
<1> QED BY <1>2, <1>3 DEF Drained

(* The values of a sequence of values are numbers. *)
LEMMA ValuesLemma == ASSUME NEW s \in Seq(Values) PROVE \A i \in DOMAIN s : s[i] \in Nat
<1>1. \A i \in DOMAIN s : s[i] \in Values
  OBVIOUS
<1>2. \A x \in Values : x \in Nat
  BY BoundsAssumption DEF Values
<1> QED BY <1>1, <1>2

(* The INIT handler has a value that it has not handed to m.Send. *)
FirstUnsent == hpc \in {"new", "ack", "add", "reply", "send"}

(* A method keeps the order if its value fits in, and it is one step of    *)
(* the stream.                                                             *)
LEMMA MethodOrder ==
  ASSUME IInv, IInv', OrderInv, NEW v \in Values \cup {None}, Drained(m, m', v),
         m.pipeline = Pipeline(request), UNCHANGED <<src, last, request, v0, wval, registered>>,
         v <= last, v # None => Above(v, m.sent) \/ Below(v, m.sent),
         wpc' = "send" => wpc = "send" /\ v < wval,
         FirstUnsent' => FirstUnsent /\ (v # None => v0 < v),
         hpc' \notin {"next", "new"}
  PROVE  OrderInv' /\ Stream!Serve
<1> USE DEF None
<1>1. /\ m \in MonitorStates /\ m' \in MonitorStates /\ v \in Nat /\ src \in Nat
      /\ last \in Nat /\ last <= src /\ v0 \in Nat /\ wval \in Nat
      /\ m.sent \in Seq(Values) /\ m'.sent \in Seq(Values) /\ m'.toSend \in Nat
      /\ m.acked \in Nat /\ m'.acked \in Nat /\ m'.windowOpen \in Nat
      /\ m'.running \in BOOLEAN
  BY DEF IInv, TypeOK, MonitorStates, Values
<1>2. /\ \A w \in Nat : Above(w, m.sent) /\ v < w => Above(w, m'.sent)
      /\ \A w \in Nat : Below(w, m.sent) /\ (v # None => w < v) => Below(w, m'.sent)
      /\ m'.toSend # None => m'.sent = m.sent /\ m'.toSend = v
      /\ m'.toSend \in {None, v}
  BY <1>1, SentLemma
<1>3. FlagInv'
  BY DEF FlagInv, Drained
<1>4. FetchedInv'
  <2>1. Above(last + 1, m.sent)
    <3>1. \A i \in DOMAIN m.sent : m.sent[i] \in Nat /\ m.sent[i] <= last
      BY <1>1, ValuesLemma DEF OrderInv, FetchedInv
    <3> QED BY <1>1, <3>1 DEF Above
  <2>2. v < last + 1 /\ last + 1 \in Nat
    BY <1>1
  <2>3. Above(last + 1, m'.sent)
    BY <1>2, <2>1, <2>2
  <2>4. \A i \in DOMAIN m'.sent : m'.sent[i] \in Nat /\ m'.sent[i] < last + 1
    BY <1>1, <2>3, ValuesLemma DEF Above
  <2>5. \A i \in DOMAIN m'.sent : m'.sent[i] <= last
    BY <1>1, <2>4
  <2> QED BY <1>1, <1>2, <2>5 DEF OrderInv, FetchedInv
<1>5. WatchInv'
  <2> SUFFICES ASSUME wpc' = "send"
               PROVE  v0 < wval /\ wval <= last /\ m'.toSend < wval /\ Above(wval, m'.sent)
    BY DEF WatchInv
  <2>1. v < wval /\ v0 < wval /\ wval <= last /\ Above(wval, m.sent)
    BY DEF OrderInv, WatchInv
  <2> QED BY <1>1, <1>2, <2>1
<1>6. FirstInv'
  <2> SUFFICES ASSUME FirstUnsent'
               PROVE  Below(v0, m'.sent) /\ (m'.toSend # None => v0 < m'.toSend)
    BY DEF FirstInv, FirstUnsent
  <2>1. Below(v0, m.sent) /\ (v # None => v0 < v)
    BY DEF OrderInv, FirstInv, FirstUnsent
  <2> QED BY <1>1, <1>2, <2>1
<1>7. PendingInv'
  BY <1>2 DEF PendingInv
<1>8. Stream!Serve
  <2>1. m'.acked >= m.acked
    BY DEF Drained
  <2>2. m'.sent = m.sent \/ \E w \in 1..src : Stream!Deliver(w)
    <3>1. CASE v # None /\ m'.running /\ m'.sent = Append(m.sent, v)
      <4>1. v \in 1..src
        BY <1>1, <3>1
      <4>2. Stream!NewestOrOldest(v)
        BY <3>1 DEF Stream!NewestOrOldest, Above, Below
      <4>3. Pipeline(request) => Len(m.sent) < m'.acked
        <5>1. m'.pipeline = m.pipeline
          BY DEF Drained
        <5>2. Pipeline(request) => Len(m'.sent) + m'.windowOpen = m'.acked
          BY <5>1 DEF IInv, FlowControl
        <5>3. Len(m'.sent) = Len(m.sent) + 1 /\ Len(m.sent) \in Nat
          BY <1>1, <3>1
        <5> QED BY <1>1, <5>2, <5>3
      <4>4. Stream!Deliver(v)
        BY <3>1, <4>2, <4>3 DEF Stream!Deliver
      <4> QED BY <4>1, <4>4
    <3> QED BY <3>1 DEF Drained
  <2>3. UNCHANGED <<src, Pipeline(request)>>
    BY DEF Pipeline
  <2> QED BY <1>1, <2>1, <2>2, <2>3 DEF Stream!Serve
<1> QED BY <1>3, <1>4, <1>5, <1>6, <1>7, <1>8 DEF OrderInv

LEMMA InitOrder == Init => OrderInv /\ Stream!Init
<1> SUFFICES ASSUME Init PROVE OrderInv /\ Stream!Init
  OBVIOUS
<1> USE DEF Init, None
<1>1. FlagInv /\ FetchedInv /\ WatchInv /\ FirstInv /\ PendingInv
  <2>1. /\ m.toSend = 0 /\ \A i \in DOMAIN m.sent : FALSE
        /\ ~registered /\ v0 = 0 /\ last = 0 /\ hpc = "next" /\ wpc = "off"
    OBVIOUS
  <2> QED BY ONLY <2>1 DEF None, FlagInv, FetchedInv, WatchInv, FirstInv, PendingInv
<1>2. Pipeline(request) \in BOOLEAN
  BY RequestsAssumption DEF Pipeline, RequestShapes
<1> QED BY <1>1, <1>2 DEF OrderInv, Stream!Init

(* A step keeps the order and is a step of the stream or none. *)
LEMMA StepOrder ==
  IInv /\ IInv' /\ OrderInv /\ [Next]_vars => OrderInv' /\ [Stream!Next]_(Stream!vars)
<1> SUFFICES ASSUME IInv, IInv', OrderInv, [Next]_vars
             PROVE  OrderInv' /\ [Stream!Next]_(Stream!vars)
  OBVIOUS
<1> USE DEF None
<1>a. /\ m \in MonitorStates /\ m.toSend \in Values \cup {None} /\ m.toSend \in Nat
      /\ src \in Nat /\ last \in Nat /\ last <= src /\ v0 \in Nat /\ wval \in Nat
      /\ m.sent \in Seq(Values)
  BY DEF IInv, TypeOK, MonitorStates, Values
(* Acks, Start and Stop leave it to drain() what becomes of toSend. *)
<1>b. ASSUME Drained(m, m', m.toSend), m.pipeline = Pipeline(request),
             UNCHANGED <<src, last, request, v0, wval, wpc, registered>>,
             FirstUnsent' => FirstUnsent, hpc' \notin {"next", "new"}
      PROVE  OrderInv' /\ Stream!Serve
  <2>1. /\ m.toSend <= last /\ (wpc = "send" => m.toSend < wval)
        /\ m.toSend # None => Above(m.toSend, m.sent) \/ Below(m.toSend, m.sent)
        /\ FirstUnsent => (m.toSend # None => v0 < m.toSend)
    BY DEF OrderInv, FetchedInv, WatchInv, FirstInv, PendingInv, FirstUnsent
  <2> QED BY <1>a, <1>b, <2>1, MethodOrder
<1>1. CASE Publish
  <2>1. Stream!Publish
    BY <1>1 DEF Publish, Stream!Publish
  <2>2. OrderInv'
    BY <1>1 DEF Publish, OrderInv, FlagInv, FetchedInv, WatchInv, FirstInv, PendingInv
  <2> QED BY <2>1, <2>2 DEF Stream!Next
<1>2. CASE InitNext
  <2>1. /\ m.sent = <<>> /\ m.toSend = None /\ wpc = "off" /\ m' = m
        /\ hpc' = "new" /\ hpc = "next" /\ v0' = src /\ last' = src
        /\ UNCHANGED <<src, request, registered, wpc>>
    BY <1>2 DEF InitNext, HandlerGoto, IInv, OrderInv, FetchedInv
  <2>2. OrderInv'
    BY <1>a, <2>1 DEF OrderInv, FlagInv, FetchedInv, WatchInv, FirstInv, PendingInv, Below
  <2> QED BY <2>1, <2>2 DEF Stream!vars, Pipeline
<1>3. CASE New
  <2>1. /\ m'.sent = m.sent /\ m'.toSend = m.toSend /\ m'.acked = m.acked
        /\ m'.running = m.running /\ m'.pipeline = Pipeline(request)
    BY <1>3, <1>a DEF New, MonitorStates
  <2>2. /\ hpc = "new" /\ hpc' = "ack" /\ wpc' = "loop"
        /\ UNCHANGED <<src, last, request, wval, v0, registered>>
    BY <1>3 DEF New, HandlerGoto
  <2>3. OrderInv'
    BY <2>1, <2>2 DEF OrderInv, FlagInv, FetchedInv, WatchInv, FirstInv, PendingInv, Pipeline
  <2> QED BY <2>1, <2>2, <2>3 DEF Stream!vars, Pipeline
<1>4. CASE InitNextFails \/ AddRequest \/ AddRequestFails \/ InitReply \/ InitReplyFails
  <2>1. UNCHANGED <<src, last, request, m, wpc, wval, v0>>
    BY <1>4 DEF InitNextFails, AddRequest, AddRequestFails, InitReply, InitReplyFails
  <2>2. /\ FirstUnsent' => FirstUnsent
        /\ hpc \in {"next", "new"} => hpc' \in {"next", "new", "failed"} /\ UNCHANGED registered
        /\ hpc' \notin {"next", "new"}
        /\ hpc # "failed"
    BY <1>4 DEF InitNextFails, AddRequest, AddRequestFails, InitReply, InitReplyFails,
                HandlerGoto, FirstUnsent
  <2>3. OrderInv'
    BY <2>1, <2>2 DEF OrderInv, FlagInv, FetchedInv, WatchInv, FirstInv, PendingInv,
                      FirstUnsent, Pipeline
  <2> QED BY <2>1, <2>3 DEF Stream!vars, Pipeline
<1>5. ASSUME NEW n \in NFrees, InitAck(n) \/ ClientAck(n)
      PROVE  OrderInv' /\ Stream!Serve
  <2>1. /\ n \in Nat /\ m' = Ack(m, n) /\ m.pipeline = Pipeline(request)
        /\ UNCHANGED <<src, last, request, v0, wval, wpc, registered>>
        /\ FirstUnsent' => FirstUnsent
        /\ hpc' \notin {"next", "new"}
    BY <1>5, NFreesAssumption
       DEF InitAck, ClientAck, HandlerGoto, IInv, OrderInv, FlagInv, FirstUnsent
  <2>2. Drained(m, m', m.toSend)
    BY <1>a, <2>1, DrainedLemma
  <2> QED BY <1>b, <2>1, <2>2
<1>6. CASE ClientStart \/ ClientStop
  <2>1. /\ m' = Start(m) \/ m' = Stop(m)
        /\ m.pipeline = Pipeline(request)
        /\ UNCHANGED <<src, last, request, v0, wval, wpc, registered, hpc>>
        /\ hpc \notin {"next", "new"}
    BY <1>6 DEF ClientStart, ClientStop, IInv, OrderInv, FlagInv
  <2>2. Drained(m, m', m.toSend)
    BY <1>a, <2>1, DrainedLemma
  <2>3. OrderInv' /\ Stream!Serve
    BY <1>b, <2>1, <2>2 DEF FirstUnsent
  <2> QED BY <2>3 DEF Stream!Next
<1>7. CASE InitSend
  <2>1. /\ m' = Send(m, v0) /\ v0 \in Values /\ m.pipeline = Pipeline(request)
        /\ UNCHANGED <<src, last, request, v0, wval, wpc, registered>>
        /\ hpc = "send" /\ hpc' = "done"
    BY <1>7 DEF InitSend, HandlerGoto, IInv, OrderInv, FlagInv
  <2>2. Drained(m, m', v0)
    BY <1>a, <2>1, DrainedLemma
  <2>3. v0 <= last /\ Below(v0, m.sent) /\ (wpc = "send" => v0 < wval)
    BY <2>1 DEF OrderInv, FetchedInv, FirstInv, WatchInv
  <2>4. ~FirstUnsent' /\ hpc' \notin {"next", "new"}
    BY <2>1 DEF FirstUnsent
  <2>5. OrderInv' /\ Stream!Serve
    BY <2>1, <2>2, <2>3, <2>4, MethodOrder
  <2> QED BY <2>5 DEF Stream!Next
<1>8. CASE WatchTest \/ WatchNextFails
  <2>1. /\ UNCHANGED <<src, last, request, m, wval, hpc, v0, registered>>
        /\ wpc # "off" /\ wpc' # "send"
    BY <1>8 DEF WatchTest, WatchNextFails
  <2>2. OrderInv'
    BY <2>1 DEF OrderInv, FlagInv, FetchedInv, WatchInv, FirstInv, PendingInv, Pipeline
  <2> QED BY <2>1, <2>2 DEF Stream!vars, Pipeline
<1>9. CASE WatchNext
  <2>1. /\ UNCHANGED <<src, request, m, hpc, v0, registered>>
        /\ wpc = "next" /\ last < src /\ last' = src /\ wval' = src
    BY <1>9 DEF WatchNext
  <2>2. \A i \in DOMAIN m.sent : m.sent[i] \in Nat /\ m.sent[i] <= last
    BY <1>a, ValuesLemma DEF OrderInv, FetchedInv
  <2>3. \A i \in DOMAIN m.sent : m.sent[i] < src /\ m.sent[i] <= src
    BY <1>a, <2>1, <2>2
  <2>4. v0 < src /\ m.toSend < src /\ hpc \notin {"next", "new"}
    BY <1>a, <2>1 DEF OrderInv, FetchedInv, IInv
  <2>5. FetchedInv' /\ WatchInv'
    BY <1>a, <2>1, <2>3, <2>4 DEF FetchedInv, WatchInv, Above
  <2>6. FlagInv' /\ FirstInv' /\ PendingInv'
    BY <2>1 DEF OrderInv, FlagInv, FirstInv, PendingInv, Pipeline
  <2> QED BY <2>1, <2>5, <2>6 DEF OrderInv, Stream!vars, Pipeline
<1>10. CASE WatchSend
  <2>1. /\ m' = Send(m, wval) /\ wval \in Values /\ m.pipeline = Pipeline(request)
        /\ UNCHANGED <<src, last, request, v0, wval, registered, hpc>>
        /\ wpc = "send" /\ wpc' = "loop" /\ hpc \notin {"next", "new"}
    BY <1>10 DEF WatchSend, IInv, OrderInv, FlagInv
  <2>2. Drained(m, m', wval)
    BY <1>a, <2>1, DrainedLemma
  <2>3. wval <= last /\ Above(wval, m.sent) /\ v0 < wval
    BY <2>1 DEF OrderInv, WatchInv
  <2>4. FirstUnsent' = FirstUnsent
    BY <2>1 DEF FirstUnsent
  <2>5. OrderInv' /\ Stream!Serve
    BY <2>1, <2>2, <2>3, <2>4, MethodOrder
  <2> QED BY <2>5 DEF Stream!Next
<1>11. CASE Terminate \/ Detach \/ EndConnection \/ UNCHANGED vars
  <2>1. /\ UNCHANGED <<src, last, request, m, wpc, wval, hpc, v0>>
        /\ registered' => registered
    BY <1>11 DEF Terminate, Detach, EndConnection, vars
  <2>2. OrderInv'
    BY <2>1 DEF OrderInv, FlagInv, FetchedInv, WatchInv, FirstInv, PendingInv, Pipeline
  <2> QED BY <2>1, <2>2 DEF Stream!vars, Pipeline
<1> QED
  BY <1>1, <1>2, <1>3, <1>4, <1>5, <1>6, <1>7, <1>8, <1>9, <1>10, <1>11
     DEF Next, Handler, Watch, Client, Stream!Next

(***************************************************************************)
(* The Monitor, its handlers and its Watch goroutine implement the stream  *)
(* of updates: a client gets values that were published, only while it is  *)
(* subscribed and within its credit, each newer than all before it, but    *)
(* for the initial value, which m.Send(ctx, value) of the INIT handler may *)
(* send late.                                                              *)
(***************************************************************************)
THEOREM ImplementsStream == Spec => StreamSpec
<1> USE InitIInv, StepIInv, InitOrder, StepOrder
<1>1. Spec => [](IInv /\ OrderInv) /\ Stream!Init /\ [][Stream!Next]_(Stream!vars)
  BY PTL DEF Spec
<1> QED BY <1>1 DEF StreamSpec, Stream!Spec

=============================================================================
