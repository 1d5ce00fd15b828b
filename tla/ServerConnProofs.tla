-------------------------- MODULE ServerConnProofs --------------------------
(***************************************************************************)
(* Proofs about ServerConn: for any numbers of channels, requests and      *)
(* tasks, a request is executed by one task at a time, a cancellation      *)
(* reaches that task, no request is left busy without one, and the table   *)
(* holds live requests under their own IDs.  Then, about ConnClient: with  *)
(* a client that keeps to the protocol the two sides agree on what is in   *)
(* the table, and without monitors no message finds its request missing.   *)
(***************************************************************************)
EXTENDS ConnClient, TLAPS

Statuses == {READY, REQUEST_IN_PROGRESS, CANCELLED, DESTROYED}
Executing == {"running", "finish"}
Early == {"unused", "begin", "init", "add"}

(* What is true of a task that executes a request. *)
RunnerInv ==
  \A t \in Tasks : pc[t] \in Executing =>
    /\ obj[t] \in Tasks
    /\ status[obj[t]] # READY
    /\ msg[obj[t]].rid = msg[t].rid
    /\ ctxDone[t] \/ (cancel[obj[t]] = t /\ status[obj[t]] = REQUEST_IN_PROGRESS)

(* A task that has not got through addRequest names no request object. *)
FreshInv ==
  \A t \in Tasks : pc[t] \in Early =>
    /\ \A rid \in RequestIDs : requests[rid] # t
    /\ \A u \in Tasks : ~Runs(u, t)

IInv ==
  /\ TypeOK
  /\ RunnerInv
  /\ FreshInv
  /\ ExclusiveExecution
  /\ BusyHasRunner
  /\ TableHoldsLive

----------------------------------------------------------------------------
(* The fields of a message. *)
LEMMA MessageFields ==
  ASSUME NEW m \in Messages
  PROVE  m.rid \in RequestIDs /\ m.chan \in ChannelIDs /\ m.kind \in {"get", "rpc", "monitor"}
BY KindsAssumption DEF Messages

(* A request object in the table stands for a task that is past addRequest. *)
LEMMA TableEntry ==
  ASSUME TypeOK, FreshInv, NEW rid \in RequestIDs, requests[rid] # None
  PROVE  requests[rid] \in Tasks /\ pc[requests[rid]] \notin Early /\ msg[requests[rid]] \in Messages
BY DEF TypeOK, FreshInv, Early

(* Raising a status. *)
LEMMA StopTypes ==
  ASSUME TypeOK, NEW rid \in RequestIDs, requests[rid] # None,
         NEW new \in {CANCELLED, DESTROYED}, StopRequest(requests[rid], new)
  PROVE  /\ status' \in [Tasks -> Statuses]
         /\ cancel' \in [Tasks -> Tasks \cup {None}]
         /\ ctxDone' \in [Tasks -> BOOLEAN]
<1>1. requests[rid] \in Tasks
  BY DEF TypeOK
<1>2. status' \in [Tasks -> Statuses]
  BY <1>1 DEF TypeOK, StopRequest, Statuses
<1>3. cancel' \in [Tasks -> Tasks \cup {None}]
  BY <1>1 DEF TypeOK, StopRequest
<1>4. ctxDone' \in [Tasks -> BOOLEAN]
  BY <1>1 DEF TypeOK, StopRequest
<1> QED
  BY <1>2, <1>3, <1>4

----------------------------------------------------------------------------
(* Types are kept by the read loop ... *)
LEMMA ReadLoopTypes ==
  ASSUME TypeOK, ReadLoop
  PROVE  TypeOK'
<1>1. ASSUME NEW c \in ChannelIDs, CreateBegin(c) PROVE TypeOK'
  BY <1>1 DEF TypeOK, CreateBegin, objVars, taskVars
<1>2. ASSUME NEW c \in ChannelIDs, DestroyChannel(c) PROVE TypeOK'
  BY <1>2 DEF TypeOK, DestroyChannel, objVars, taskVars
<1>3. ASSUME NEW found \in BOOLEAN, CreateEnd(found) PROVE TypeOK'
  BY <1>3 DEF TypeOK, CreateEnd, objVars, taskVars
<1>4. ASSUME NEW rid \in RequestIDs, CancelRequest(rid) PROVE TypeOK'
  BY <1>4, StopTypes DEF TypeOK, CancelRequest, Statuses
<1>5. ASSUME NEW rid \in RequestIDs, DestroyRequest(rid) PROVE TypeOK'
  BY <1>5, StopTypes DEF TypeOK, DestroyRequest, Statuses
<1>6. ASSUME NEW t \in Tasks, NEW m \in Messages, Spawn(t, m) PROVE TypeOK'
  BY <1>6 DEF TypeOK, Spawn, objVars, PCs
<1> QED
  BY <1>1, <1>2, <1>3, <1>4, <1>5, <1>6 DEF ReadLoop

(* ... and by the tasks. *)
LEMMA TaskTypes ==
  ASSUME TypeOK, NEW t \in Tasks, Task(t)
  PROVE  TypeOK'
<1>1. CASE GetChannel(t)
  BY <1>1 DEF TypeOK, GetChannel, Goto, objVars, PCs
<1>2. CASE RejectRPCArgs(t)
  BY <1>2 DEF TypeOK, RejectRPCArgs, Goto, objVars, PCs
<1>3. CASE InitDoer(t)
  <2>1. msg[t] \in Messages
    BY <1>3 DEF TypeOK, InitDoer, Goto
  <2>2. msg[t].kind \in {"get", "rpc", "monitor"}
    BY <2>1, MessageFields
  <2>3. doer' \in [Tasks -> SUBSET {"get", "rpc", "monitor"}]
    BY <1>3, <2>2 DEF TypeOK, InitDoer
  <2> QED
    BY <1>3, <2>3 DEF TypeOK, InitDoer, Goto, PCs
<1>4. CASE InitDoerFails(t)
  BY <1>4 DEF TypeOK, InitDoerFails, Goto, objVars, PCs
<1>5. CASE AddRequest(t)
  BY <1>5 DEF TypeOK, AddRequest, Goto, PCs
<1>6. CASE AddRequestFails(t)
  BY <1>6 DEF TypeOK, AddRequestFails, Goto, objVars, PCs
<1>7. CASE InitReply(t)
  BY <1>7 DEF TypeOK, InitReply, Goto, objVars, PCs
<1>8. CASE InitReplyFails(t)
  BY <1>8 DEF TypeOK, InitReplyFails, Goto, objVars, PCs
<1>9. CASE LookupUnknown(t)
  BY <1>9 DEF TypeOK, LookupUnknown, objVars, taskVars
<1>10. CASE LookupNotReady(t)
  BY <1>10 DEF TypeOK, LookupNotReady, Goto, objVars, PCs
<1>11. CASE LookupWrongDoer(t)
  BY <1>11 DEF TypeOK, LookupWrongDoer, Goto, objVars, PCs
<1>12. CASE Execute(t)
  BY <1>12 DEF TypeOK, Execute, Goto, PCs
<1>13. CASE Control(t)
  BY <1>13 DEF TypeOK, Control, Goto, objVars, PCs
<1>14. ASSUME NEW sent \in BOOLEAN, Reply(t, sent) PROVE TypeOK'
  BY <1>14 DEF TypeOK, Reply, Goto, objVars, PCs
<1>15. CASE Finish(t)
  BY <1>15 DEF TypeOK, Finish, Goto, PCs
<1>16. CASE ReportError(t)
  BY <1>16 DEF TypeOK, ReportError, Goto, objVars, PCs
<1>17. CASE ReplyPanics(t)
  BY <1>17 DEF TypeOK, ReplyPanics, objVars, taskVars
<1> QED
  BY <1>1, <1>2, <1>3, <1>4, <1>5, <1>6, <1>7, <1>8, <1>9, <1>10, <1>11, <1>12,
     <1>13, <1>14, <1>15, <1>16, <1>17 DEF Task

LEMMA TypesKept ==
  ASSUME TypeOK, [Next]_vars
  PROVE  TypeOK'
<1>1. CASE Next
  BY <1>1, ReadLoopTypes, TaskTypes DEF Next
<1>2. CASE UNCHANGED vars
  BY <1>2 DEF TypeOK, vars, objVars, taskVars
<1> QED
  BY <1>1, <1>2

----------------------------------------------------------------------------
(***************************************************************************)
(* A step of a task that neither starts nor ends an execution and leaves   *)
(* the table, the request objects and the messages alone.                  *)
(***************************************************************************)
LEMMA LocalStep ==
  ASSUME IInv, TypeOK', NEW t \in Tasks, NEW to \in PCs \ Executing,
         pc[t] \notin Executing, pc' = [pc EXCEPT ![t] = to],
         to \in Early => pc[t] \in Early,
         \A u \in Tasks : u # t => obj'[u] = obj[u],
         UNCHANGED <<requests, status, cancel, msg, ctxDone>>
  PROVE  IInv'
<1>1. \A u \in Tasks : /\ pc'[u] \in Executing <=> pc[u] \in Executing
                       /\ pc[u] \in Executing => obj'[u] = obj[u]
                       /\ pc'[u] \in Early => pc[u] \in Early
  BY DEF IInv, TypeOK
<1>2. \A u, r \in Tasks : Runs(u, r)' <=> Runs(u, r)
  BY <1>1 DEF Runs, Executing
<1>3. RunnerInv'
  BY <1>1 DEF IInv, RunnerInv
<1>4. FreshInv'
  BY <1>1, <1>2 DEF IInv, FreshInv
<1>5. ExclusiveExecution'
  BY <1>2 DEF IInv, ExclusiveExecution
<1>6. BusyHasRunner'
  BY <1>2 DEF IInv, BusyHasRunner
<1>7. TableHoldsLive'
  BY DEF IInv, TableHoldsLive
<1> QED
  BY <1>3, <1>4, <1>5, <1>6, <1>7 DEF IInv

(* A step that changes neither the tasks nor the table nor the objects. *)
LEMMA ForeignStep ==
  ASSUME IInv, TypeOK', UNCHANGED <<requests, status, cancel, msg, pc, obj, ctxDone>>
  PROVE  IInv'
BY DEF IInv, RunnerInv, FreshInv, ExclusiveExecution, BusyHasRunner, TableHoldsLive, Runs

(* REQUEST_CANCEL and REQUEST_DESTROY. *)
LEMMA StopStep ==
  ASSUME IInv, TypeOK', NEW rid \in RequestIDs, requests[rid] # None,
         NEW new \in {CANCELLED, DESTROYED}, StopRequest(requests[rid], new),
         requests' = (IF new = DESTROYED THEN [requests EXCEPT ![rid] = None] ELSE requests),
         UNCHANGED <<msg, pc, obj>>
  PROVE  IInv'
<1> DEFINE r == requests[rid]
<1>1. r \in Tasks /\ pc[r] \notin Early /\ status[r] # DESTROYED /\ msg[r].rid = rid
  BY TableEntry DEF IInv, TableHoldsLive
<1>2. /\ status' = [status EXCEPT ![r] = new]
      /\ status'[r] = new
      /\ \A q \in Tasks : q # r => status'[q] = status[q] /\ cancel'[q] = cancel[q]
  <2>1. status \in [Tasks -> Statuses] /\ cancel \in [Tasks -> Tasks \cup {None}]
    BY DEF IInv, TypeOK, Statuses
  <2>2. status[r] < new \/ status[r] = new
    BY <1>1, <2>1 DEF Statuses, READY, REQUEST_IN_PROGRESS, CANCELLED, DESTROYED
  <2>3. status' = [status EXCEPT ![r] = new] /\ cancel' = [cancel EXCEPT ![r] = None]
    BY <2>2 DEF StopRequest
  <2> QED
    BY <1>1, <2>1, <2>3
<1>3. \A u \in Tasks : ctxDone[u] => ctxDone'[u]
  <2>1. CASE cancel[r] = None
    BY <2>1 DEF StopRequest
  <2>2. CASE cancel[r] # None
    <3>1. ctxDone' = [ctxDone EXCEPT ![cancel[r]] = TRUE]
      BY <2>2 DEF StopRequest
    <3>2. ctxDone \in [Tasks -> BOOLEAN]
      BY DEF IInv, TypeOK
    <3> QED
      BY <3>1, <3>2, Zenon
  <2> QED
    BY <2>1, <2>2
<1>4. \A u \in Tasks : cancel[r] = u => ctxDone'[u]
  BY NoneAssumption, <1>1 DEF IInv, TypeOK, StopRequest
<1>5. RunnerInv'
  <2> SUFFICES ASSUME NEW t \in Tasks, pc[t] \in Executing
               PROVE  /\ obj[t] \in Tasks
                      /\ status'[obj[t]] # READY
                      /\ msg[obj[t]].rid = msg[t].rid
                      /\ \/ ctxDone'[t]
                         \/ cancel'[obj[t]] = t /\ status'[obj[t]] = REQUEST_IN_PROGRESS
    BY DEF RunnerInv
  <2>1. new # READY
    BY DEF READY, CANCELLED, DESTROYED
  <2>2. CASE obj[t] = r
    BY <1>2, <1>3, <1>4, <2>1, <2>2 DEF IInv, RunnerInv
  <2>3. CASE obj[t] # r
    BY <1>2, <1>3, <2>3 DEF IInv, RunnerInv
  <2> QED
    BY <2>2, <2>3
<1>6. FreshInv'
  BY NoneAssumption DEF IInv, TypeOK, FreshInv, Runs
<1>7. ExclusiveExecution'
  BY DEF IInv, ExclusiveExecution, Runs
<1>8. BusyHasRunner'
  BY <1>2 DEF IInv, BusyHasRunner, Runs, REQUEST_IN_PROGRESS, CANCELLED, DESTROYED
<1>9. TableHoldsLive'
  <2> SUFFICES ASSUME NEW k \in RequestIDs, requests'[k] # None
               PROVE  status'[requests'[k]] # DESTROYED /\ msg[requests'[k]].rid = k
    BY DEF TableHoldsLive
  <2>1. CASE new = DESTROYED
    <3>1. k # rid /\ requests'[k] = requests[k] /\ requests[k] \in Tasks
      BY <2>1 DEF IInv, TypeOK
    <3>2. requests[k] # r
      BY <1>1, <3>1 DEF IInv, TableHoldsLive
    <3> QED
      BY <1>2, <3>1, <3>2 DEF IInv, TableHoldsLive
  <2>2. CASE new = CANCELLED
    <3>1. requests' = requests
      BY <2>2 DEF CANCELLED, DESTROYED
    <3>2. requests[k] \in Tasks
      BY <3>1 DEF IInv, TypeOK
    <3> QED
      BY <1>2, <2>2, <3>1, <3>2 DEF IInv, TableHoldsLive, CANCELLED, DESTROYED
  <2> QED
    BY <2>1, <2>2
<1> QED
  BY <1>5, <1>6, <1>7, <1>8, <1>9 DEF IInv

(* The read loop starts a task. *)
LEMMA SpawnStep ==
  ASSUME IInv, TypeOK', NEW t \in Tasks, NEW m \in Messages, Spawn(t, m)
  PROVE  IInv'
<1>1. /\ pc[t] = "unused"
      /\ pc' = [pc EXCEPT ![t] = "begin"]
      /\ msg' = [msg EXCEPT ![t] = m]
      /\ UNCHANGED <<requests, status, cancel, obj, ctxDone>>
  BY DEF Spawn, objVars
<1>2. \A u \in Tasks : /\ pc'[u] \in Executing <=> pc[u] \in Executing
                       /\ pc'[u] \in Early <=> pc[u] \in Early
                       /\ u # t => msg'[u] = msg[u]
  BY <1>1 DEF IInv, TypeOK, Executing, Early
<1>3. \A u, r \in Tasks : Runs(u, r)' <=> Runs(u, r)
  BY <1>1, <1>2 DEF Runs, Executing
<1>4. t \notin {requests[rid] : rid \in RequestIDs} /\ \A u \in Tasks : ~Runs(u, t)
  BY <1>1 DEF IInv, FreshInv, Early
<1>5. RunnerInv'
  <2> SUFFICES ASSUME NEW u \in Tasks, pc'[u] \in Executing
               PROVE  /\ obj[u] \in Tasks
                      /\ status[obj[u]] # READY
                      /\ msg'[obj[u]].rid = msg'[u].rid
                      /\ ctxDone[u] \/ (cancel[obj[u]] = u /\ status[obj[u]] = REQUEST_IN_PROGRESS)
    BY <1>1 DEF RunnerInv
  <2>1. u # t /\ pc[u] \in Executing
    BY <1>1, <1>2 DEF Executing
  <2>2. obj[u] \in Tasks /\ obj[u] # t
    BY <1>4, <2>1 DEF IInv, RunnerInv, Runs, Executing
  <2> QED
    BY <1>2, <2>1, <2>2 DEF IInv, RunnerInv
<1>6. FreshInv'
  BY <1>1, <1>2, <1>3 DEF IInv, FreshInv
<1>7. ExclusiveExecution'
  BY <1>3 DEF IInv, ExclusiveExecution
<1>8. BusyHasRunner'
  BY <1>1, <1>3 DEF IInv, BusyHasRunner
<1>9. TableHoldsLive'
  BY <1>1, <1>2, <1>4, TableEntry DEF IInv, TableHoldsLive
<1> QED
  BY <1>5, <1>6, <1>7, <1>8, <1>9 DEF IInv

(* addRequest puts an object into the table that nobody has seen. *)
LEMMA AddStep ==
  ASSUME IInv, TypeOK', NEW t \in Tasks, AddRequest(t)
  PROVE  IInv'
<1>1. /\ pc[t] = "add"
      /\ pc' = [pc EXCEPT ![t] = "reply"]
      /\ requests' = [requests EXCEPT ![msg[t].rid] = t]
      /\ status' = [status EXCEPT ![t] = READY]
      /\ cancel' = [cancel EXCEPT ![t] = None]
      /\ UNCHANGED <<msg, obj, ctxDone>>
  BY DEF AddRequest, Goto
<1>2. \A u \in Tasks : /\ pc'[u] \in Executing <=> pc[u] \in Executing
                       /\ pc'[u] \in Early => pc[u] \in Early /\ u # t
                       /\ u # t => status'[u] = status[u] /\ cancel'[u] = cancel[u]
  BY <1>1 DEF IInv, TypeOK, Executing, Early
<1>3. \A u, r \in Tasks : Runs(u, r)' <=> Runs(u, r)
  BY <1>1, <1>2 DEF Runs, Executing
<1>4. \A u \in Tasks : ~Runs(u, t)
  BY <1>1 DEF IInv, FreshInv, Early
<1>5. status'[t] = READY /\ msg[t] \in Messages /\ msg[t].rid \in RequestIDs
  BY <1>1, MessageFields DEF IInv, TypeOK
<1>6. RunnerInv'
  <2> SUFFICES ASSUME NEW u \in Tasks, pc[u] \in Executing
               PROVE  /\ obj[u] \in Tasks
                      /\ status'[obj[u]] # READY
                      /\ msg[obj[u]].rid = msg[u].rid
                      /\ ctxDone[u] \/ (cancel'[obj[u]] = u /\ status'[obj[u]] = REQUEST_IN_PROGRESS)
    BY <1>1, <1>2 DEF RunnerInv
  <2>1. obj[u] \in Tasks /\ obj[u] # t
    BY <1>4 DEF IInv, RunnerInv, Runs, Executing
  <2> QED
    BY <1>2, <2>1 DEF IInv, RunnerInv
<1>7. FreshInv'
  <2> SUFFICES ASSUME NEW u \in Tasks, pc'[u] \in Early
               PROVE  /\ \A rid \in RequestIDs : requests'[rid] # u
                      /\ \A w \in Tasks : ~Runs(w, u)'
    BY DEF FreshInv
  <2> QED
    BY <1>1, <1>2, <1>3 DEF IInv, TypeOK, FreshInv
<1>8. ExclusiveExecution'
  BY <1>3 DEF IInv, ExclusiveExecution
<1>9. BusyHasRunner'
  BY <1>2, <1>3, <1>5 DEF IInv, BusyHasRunner, READY, REQUEST_IN_PROGRESS
<1>10. TableHoldsLive'
  <2> SUFFICES ASSUME NEW k \in RequestIDs, requests'[k] # None
               PROVE  status'[requests'[k]] # DESTROYED /\ msg[requests'[k]].rid = k
    BY <1>1 DEF TableHoldsLive
  <2>1. CASE k = msg[t].rid
    BY <1>1, <1>5, <2>1 DEF IInv, TypeOK, READY, DESTROYED
  <2>2. CASE k # msg[t].rid
    <3>1. requests'[k] = requests[k] /\ requests[k] \in Tasks /\ requests[k] # t
      BY <1>1, <2>2 DEF IInv, TypeOK, FreshInv, Early
    <3> QED
      BY <1>2, <3>1 DEF IInv, TableHoldsLive
  <2> QED
    BY <2>1, <2>2
<1> QED
  BY <1>6, <1>7, <1>8, <1>9, <1>10 DEF IInv

(* A task takes a READY request, which nobody executes, for itself. *)
LEMMA ExecuteStep ==
  ASSUME IInv, TypeOK', NEW t \in Tasks, Execute(t)
  PROVE  IInv'
<1> PICK r \in Tasks :
      /\ Found(t, r) /\ status[r] = READY
      /\ status' = [status EXCEPT ![r] = REQUEST_IN_PROGRESS]
      /\ cancel' = [cancel EXCEPT ![r] = t]
      /\ obj' = [obj EXCEPT ![t] = r]
      /\ Goto(t, "lookup", "running")
      /\ UNCHANGED <<requests, msg, ctxDone>>
  BY DEF Execute
<1>1. pc[t] = "lookup" /\ pc' = [pc EXCEPT ![t] = "running"] /\ r = requests[msg[t].rid]
  BY DEF Goto, Found
<1>2. msg[t].rid \in RequestIDs
  BY <1>1, MessageFields DEF IInv, TypeOK
<1>3. pc[r] \notin Early /\ msg[r].rid = msg[t].rid
  BY <1>1, <1>2, TableEntry, NoneAssumption DEF IInv, TableHoldsLive
<1>4. \A u \in Tasks : ~Runs(u, r)
  BY DEF IInv, RunnerInv, Runs, Executing
<1>5. \A u \in Tasks : u # t => pc'[u] = pc[u] /\ obj'[u] = obj[u]
  BY <1>1 DEF IInv, TypeOK
<1>6. pc'[t] = "running" /\ obj'[t] = r /\ status'[r] = REQUEST_IN_PROGRESS /\ cancel'[r] = t
  BY <1>1 DEF IInv, TypeOK
<1>7. \A q \in Tasks : q # r => status'[q] = status[q] /\ cancel'[q] = cancel[q]
  BY DEF IInv, TypeOK
<1>8. \A u, q \in Tasks : Runs(u, q)' <=> IF u = t THEN q = r ELSE Runs(u, q)
  BY <1>5, <1>6 DEF Runs
<1>9. RunnerInv'
  <2> SUFFICES ASSUME NEW u \in Tasks, pc'[u] \in Executing
               PROVE  /\ obj'[u] \in Tasks
                      /\ status'[obj'[u]] # READY
                      /\ msg[obj'[u]].rid = msg[u].rid
                      /\ ctxDone[u] \/ (cancel'[obj'[u]] = u /\ status'[obj'[u]] = REQUEST_IN_PROGRESS)
    BY DEF RunnerInv
  <2>1. CASE u = t
    BY <1>3, <1>6, <2>1 DEF READY, REQUEST_IN_PROGRESS
  <2>2. CASE u # t
    <3>1. pc[u] \in Executing /\ obj'[u] = obj[u] /\ obj[u] \in Tasks /\ obj[u] # r
      BY <1>4, <1>5, <2>2 DEF IInv, RunnerInv, Runs, Executing
    <3> QED
      BY <1>7, <3>1 DEF IInv, RunnerInv
  <2> QED
    BY <2>1, <2>2
<1>10. FreshInv'
  BY <1>1, <1>3, <1>5, <1>6, <1>8 DEF IInv, FreshInv, Early
<1>11. ExclusiveExecution'
  BY <1>4, <1>8 DEF IInv, ExclusiveExecution
<1>12. BusyHasRunner'
  <2> SUFFICES ASSUME NEW q \in Tasks, status'[q] = REQUEST_IN_PROGRESS
               PROVE  \E u \in Tasks : Runs(u, q)'
    BY DEF BusyHasRunner
  <2>1. CASE q = r
    BY <1>8, <2>1
  <2>2. CASE q # r
    <3>1. PICK u \in Tasks : Runs(u, q)
      BY <1>7, <2>2 DEF IInv, BusyHasRunner
    <3>2. u # t
      BY <1>1, <3>1 DEF Runs
    <3> QED
      BY <1>8, <3>1, <3>2
  <2> QED
    BY <2>1, <2>2
<1>13. TableHoldsLive'
  BY <1>6, <1>7 DEF IInv, TypeOK, TableHoldsLive, REQUEST_IN_PROGRESS, DESTROYED
<1> QED
  BY <1>9, <1>10, <1>11, <1>12, <1>13 DEF IInv

(* The result is sent; the task still executes the request. *)
LEMMA ReplyStep ==
  ASSUME IInv, TypeOK', NEW t \in Tasks, NEW sent \in BOOLEAN, Reply(t, sent)
  PROVE  IInv'
<1>1. /\ pc[t] = "running" /\ pc' = [pc EXCEPT ![t] = "finish"]
      /\ UNCHANGED <<requests, status, cancel, msg, obj, ctxDone>>
  BY DEF Reply, Goto, objVars
<1>2. \A u \in Tasks : /\ pc'[u] \in Executing <=> pc[u] \in Executing
                       /\ pc'[u] \in Early <=> pc[u] \in Early
  BY <1>1 DEF IInv, TypeOK, Executing, Early
<1>3. \A u, r \in Tasks : Runs(u, r)' <=> Runs(u, r)
  BY <1>1, <1>2 DEF Runs, Executing
<1> QED
  BY <1>1, <1>2, <1>3
  DEF IInv, RunnerInv, FreshInv, ExclusiveExecution, BusyHasRunner, TableHoldsLive

(* The runner lets go of its request: it is the only one. *)
LEMMA FinishStep ==
  ASSUME IInv, TypeOK', NEW t \in Tasks, Finish(t)
  PROVE  IInv'
<1> DEFINE r == obj[t]
<1>1. /\ pc[t] = "finish" /\ pc' = [pc EXCEPT ![t] = "done"]
      /\ UNCHANGED <<cancel, msg, obj, ctxDone>>
  BY DEF Finish, Goto
<1>2. Runs(t, r) /\ r \in Tasks /\ msg[r].rid = msg[t].rid
  BY <1>1 DEF Runs, IInv, RunnerInv, Executing
<1>3. \A u \in Tasks : u # t => ~Runs(u, r)
  BY <1>2 DEF IInv, ExclusiveExecution
<1>4. \A u \in Tasks : /\ pc'[u] \in Executing <=> pc[u] \in Executing /\ u # t
                       /\ pc'[u] \in Early <=> pc[u] \in Early
  BY <1>1 DEF IInv, TypeOK, Executing, Early
<1>5. \A u, q \in Tasks : Runs(u, q)' <=> Runs(u, q) /\ u # t
  BY <1>1, <1>4 DEF Runs, Executing
<1>6. /\ status'[r] \in {READY, DESTROYED}
      /\ \A q \in Tasks : q # r => status'[q] = status[q]
  BY <1>2 DEF Finish, IInv, TypeOK
<1>7. msg[t].rid \in RequestIDs
  BY <1>1, MessageFields DEF IInv, TypeOK
<1>8. /\ \A k \in RequestIDs : requests'[k] \in {requests[k], None}
      /\ status'[r] = DESTROYED => requests'[msg[t].rid] = None
  BY <1>2, <1>7 DEF Finish, IInv, TypeOK, READY, DESTROYED
<1>9. RunnerInv'
  <2> SUFFICES ASSUME NEW u \in Tasks, pc[u] \in Executing, u # t
               PROVE  /\ obj[u] \in Tasks
                      /\ status'[obj[u]] # READY
                      /\ msg[obj[u]].rid = msg[u].rid
                      /\ ctxDone[u] \/ (cancel[obj[u]] = u /\ status'[obj[u]] = REQUEST_IN_PROGRESS)
    BY <1>1, <1>4 DEF RunnerInv
  <2>1. obj[u] \in Tasks /\ obj[u] # r
    BY <1>3 DEF IInv, RunnerInv, Runs, Executing
  <2> QED
    BY <1>6, <2>1 DEF IInv, RunnerInv
<1>10. FreshInv'
  BY <1>4, <1>5, <1>8, NoneAssumption DEF IInv, FreshInv
<1>11. ExclusiveExecution'
  BY <1>5 DEF IInv, ExclusiveExecution
<1>12. BusyHasRunner'
  <2> SUFFICES ASSUME NEW q \in Tasks, status'[q] = REQUEST_IN_PROGRESS
               PROVE  \E u \in Tasks : Runs(u, q)'
    BY DEF BusyHasRunner
  <2>1. q # r /\ status[q] = REQUEST_IN_PROGRESS
    BY <1>6 DEF READY, REQUEST_IN_PROGRESS, DESTROYED
  <2>2. PICK u \in Tasks : Runs(u, q)
    BY <2>1 DEF IInv, BusyHasRunner
  <2>3. u # t
    BY <2>1, <2>2 DEF Runs
  <2> QED
    BY <1>5, <2>2, <2>3
<1>13. TableHoldsLive'
  <2> SUFFICES ASSUME NEW k \in RequestIDs, requests'[k] # None
               PROVE  status'[requests'[k]] # DESTROYED /\ msg[requests'[k]].rid = k
    BY <1>1 DEF TableHoldsLive
  <2>1. requests'[k] = requests[k] /\ requests[k] \in Tasks
    BY <1>8 DEF IInv, TypeOK
  <2>2. msg[requests[k]].rid = k /\ status[requests[k]] # DESTROYED
    BY <2>1, NoneAssumption DEF IInv, TableHoldsLive
  <2>3. CASE requests[k] = r
    BY <1>2, <1>8, <2>1, <2>2, <2>3
  <2>4. CASE requests[k] # r
    BY <1>6, <2>1, <2>2, <2>4
  <2> QED
    BY <2>3, <2>4
<1> QED
  BY <1>9, <1>10, <1>11, <1>12, <1>13 DEF IInv

----------------------------------------------------------------------------
LEMMA InitEstablishes == Init => IInv
<1> SUFFICES ASSUME Init PROVE IInv
  OBVIOUS
<1>1. TypeOK
  BY DEF Init, TypeOK, PCs, READY
<1>2. RunnerInv /\ FreshInv
  BY NoneAssumption DEF Init, RunnerInv, FreshInv, Runs, Executing
<1>3. ExclusiveExecution /\ BusyHasRunner /\ TableHoldsLive
  BY DEF Init, ExclusiveExecution, BusyHasRunner, TableHoldsLive, Runs, READY, REQUEST_IN_PROGRESS
<1> QED
  BY <1>1, <1>2, <1>3 DEF IInv

LEMMA ReadLoopKeeps ==
  ASSUME IInv, ReadLoop, TypeOK'
  PROVE  IInv'
<1>1. ASSUME NEW c \in ChannelIDs, CreateBegin(c) \/ DestroyChannel(c) PROVE IInv'
  BY <1>1, ForeignStep DEF CreateBegin, DestroyChannel, objVars, taskVars
<1>2. ASSUME NEW found \in BOOLEAN, CreateEnd(found) PROVE IInv'
  BY <1>2, ForeignStep DEF CreateEnd, objVars, taskVars
<1>3. ASSUME NEW rid \in RequestIDs, CancelRequest(rid) PROVE IInv'
  BY <1>3, StopStep DEF CancelRequest, CANCELLED, DESTROYED
<1>4. ASSUME NEW rid \in RequestIDs, DestroyRequest(rid) PROVE IInv'
  BY <1>4, StopStep DEF DestroyRequest
<1>5. ASSUME NEW t \in Tasks, NEW m \in Messages, Spawn(t, m) PROVE IInv'
  BY <1>5, SpawnStep
<1> QED
  BY <1>1, <1>2, <1>3, <1>4, <1>5 DEF ReadLoop

LEMMA TaskKeeps ==
  ASSUME IInv, NEW t \in Tasks, Task(t), TypeOK'
  PROVE  IInv'
<1> USE DEF Goto, objVars, Early, Executing, PCs
<1>1. CASE GetChannel(t)
  <2> DEFINE to == CASE channels[msg[t].chan] # "open" -> "error"
                     [] msg[t].sub = "init" -> "init"
                     [] OTHER -> "lookup"
  <2>1. to \in {"error", "init", "lookup"}
    OBVIOUS
  <2>2. pc[t] = "begin" /\ pc' = [pc EXCEPT ![t] = to]
        /\ UNCHANGED <<requests, status, cancel, msg, obj, ctxDone>>
    BY <1>1 DEF GetChannel
  <2> HIDE DEF to
  <2> QED
    BY <2>1, <2>2, LocalStep
<1>2. CASE RejectRPCArgs(t)
  BY <1>2, LocalStep DEF RejectRPCArgs
<1>3. CASE InitDoer(t)
  BY <1>3, LocalStep DEF InitDoer
<1>4. CASE InitDoerFails(t)
  BY <1>4, LocalStep DEF InitDoerFails
<1>5. CASE AddRequest(t)
  BY <1>5, AddStep
<1>6. CASE AddRequestFails(t)
  BY <1>6, LocalStep DEF AddRequestFails
<1>7. CASE InitReply(t)
  BY <1>7, LocalStep DEF InitReply
<1>8. CASE InitReplyFails(t)
  BY <1>8, LocalStep DEF InitReplyFails
<1>9. CASE LookupUnknown(t)
  BY <1>9, ForeignStep DEF LookupUnknown, taskVars
<1>10. CASE LookupNotReady(t)
  BY <1>10, LocalStep DEF LookupNotReady
<1>11. CASE LookupWrongDoer(t)
  BY <1>11, LocalStep DEF LookupWrongDoer
<1>12. CASE Execute(t)
  BY <1>12, ExecuteStep
<1>13. CASE Control(t)
  <2>1. /\ pc[t] = "lookup" /\ pc' = [pc EXCEPT ![t] = "done"]
        /\ UNCHANGED <<requests, status, cancel, msg, ctxDone>>
        /\ \A u \in Tasks : u # t => obj'[u] = obj[u]
    BY <1>13 DEF Control, IInv, TypeOK
  <2> QED
    BY <2>1, LocalStep
<1>14. ASSUME NEW sent \in BOOLEAN, Reply(t, sent) PROVE IInv'
  BY <1>14, ReplyStep
<1>15. CASE Finish(t)
  BY <1>15, FinishStep
<1>16. CASE ReportError(t)
  BY <1>16, LocalStep DEF ReportError
<1>17. CASE ReplyPanics(t)
  BY <1>17, ForeignStep DEF ReplyPanics, taskVars
<1> QED
  BY <1>1, <1>2, <1>3, <1>4, <1>5, <1>6, <1>7, <1>8, <1>9, <1>10, <1>11, <1>12,
     <1>13, <1>14, <1>15, <1>16, <1>17 DEF Task

LEMMA NextKeeps ==
  ASSUME IInv, [Next]_vars
  PROVE  IInv'
<1>1. TypeOK'
  BY TypesKept DEF IInv
<1>2. CASE Next
  BY <1>1, <1>2, ReadLoopKeeps, TaskKeeps DEF Next
<1>3. CASE UNCHANGED vars
  BY <1>1, <1>3, ForeignStep DEF vars, objVars, taskVars
<1> QED
  BY <1>2, <1>3

LEMMA Invariance == Spec => []IInv
BY InitEstablishes, NextKeeps, PTL DEF Spec

----------------------------------------------------------------------------
(***************************************************************************)
(* The tables, the request objects and the tasks of a serverConn keep      *)
(* their types, however many messages its client sends.                    *)
(***************************************************************************)
THEOREM TypeCorrect == Spec => []TypeOK
<1>1. IInv => TypeOK
  BY DEF IInv
<1> QED
  BY <1>1, Invariance, PTL

(***************************************************************************)
(* No request is executed by two goroutines at once: the test-and-set of   *)
(* r.status under c.mu in handleChannelGet and handleChannelRPCBody        *)
(* excludes all others until the runner is through.                        *)
(***************************************************************************)
THEOREM OneRunner == Spec => []ExclusiveExecution
<1>1. IInv => ExclusiveExecution
  BY DEF IInv
<1> QED
  BY <1>1, Invariance, PTL

(***************************************************************************)
(* cancelRequestLocked and destroyRequestLocked reach the execution in     *)
(* progress: its context has ended.                                        *)
(***************************************************************************)
THEOREM CancelReaches == Spec => []CancelReachesRunner
<1>1. IInv => CancelReachesRunner
  BY DEF IInv, RunnerInv, CancelReachesRunner, Runs, Executing,
         REQUEST_IN_PROGRESS, CANCELLED, DESTROYED
<1> QED
  BY <1>1, Invariance, PTL

(***************************************************************************)
(* A request that is in progress has a goroutine that will hand it back,   *)
(* whatever was cancelled, destroyed or refused in between.                *)
(***************************************************************************)
THEOREM NeverLeftBusy == Spec => []BusyHasRunner
<1>1. IInv => BusyHasRunner
  BY DEF IInv
<1> QED
  BY <1>1, Invariance, PTL

(***************************************************************************)
(* c.requests holds live requests only, each under the ID of its INIT.     *)
(***************************************************************************)
THEOREM TableLive == Spec => []TableHoldsLive
<1>1. IInv => TableHoldsLive
  BY DEF IInv
<1> QED
  BY <1>1, Invariance, PTL

(* Only four kinds of step write to the table. *)
LEMMA EvictionStep ==
  ASSUME IInv, Next, NEW rid \in RequestIDs
  PROVE  EvictionExplained(rid)
<1> DEFINE r == requests[rid]
<1> SUFFICES ASSUME r # None, requests'[rid] # r, status'[r] # DESTROYED
             PROVE  \E t \in Tasks : /\ pc[t] = "finish" /\ pc'[t] = "done"
                                     /\ msg[t].sub = "last" /\ msg[t].rid = rid
                                     /\ obj[t] # r
  BY DEF EvictionExplained
<1>1. r \in Tasks /\ status[r] # DESTROYED /\ status \in [Tasks -> Statuses]
  BY DEF IInv, TypeOK, TableHoldsLive, Statuses
<1>2. ASSUME ReadLoop PROVE FALSE
  <2>1. PICK k \in RequestIDs : DestroyRequest(k)
    BY <1>2 DEF ReadLoop, CreateBegin, DestroyChannel, CreateEnd, CancelRequest, Spawn
  <2>2. requests' = [requests EXCEPT ![k] = None] /\ requests \in [RequestIDs -> Tasks \cup {None}]
    BY <2>1 DEF DestroyRequest, IInv, TypeOK
  <2>3. k = rid
    BY <2>2
  <2>4. status' = [status EXCEPT ![r] = IF @ < DESTROYED THEN DESTROYED ELSE @]
    BY <2>1, <2>3 DEF DestroyRequest, StopRequest
  <2>5. status[r] < DESTROYED
    BY <1>1 DEF Statuses, READY, REQUEST_IN_PROGRESS, CANCELLED, DESTROYED
  <2> QED
    BY <1>1, <2>4, <2>5
<1>3. ASSUME NEW t \in Tasks, AddRequest(t) PROVE FALSE
  <2>1. ~IDTaken(msg[t].rid) /\ requests' = [requests EXCEPT ![msg[t].rid] = t]
    BY <1>3 DEF AddRequest
  <2>2. msg[t].rid = rid
    BY <2>1 DEF IInv, TypeOK
  <2> QED
    BY <1>1, <2>1, <2>2 DEF IDTaken
<1>4. ASSUME NEW t \in Tasks, Task(t), ~AddRequest(t) PROVE Finish(t)
  BY <1>4 DEF Task, GetChannel, RejectRPCArgs, InitDoer, InitDoerFails, AddRequestFails,
       InitReply, InitReplyFails, LookupUnknown, LookupNotReady, LookupWrongDoer, Execute,
       Control, Reply, ReplyPanics, ReportError
<1>5. PICK t \in Tasks : Finish(t)
  BY <1>2, <1>3, <1>4 DEF Next
<1>6. /\ pc[t] = "finish" /\ pc'[t] = "done" /\ msg[t].sub = "last" /\ msg[t].rid = rid
      /\ status' = [status EXCEPT ![obj[t]] = DESTROYED]
  BY <1>5 DEF Finish, Goto, IInv, TypeOK
<1>7. obj[t] # r
  BY <1>1, <1>6
<1> QED
  BY <1>6, <1>7

(***************************************************************************)
(* A live request is dropped from c.requests in one case only: the task    *)
(* that deletes the entry by ID, after an execution with the DESTROY flag, *)
(* had executed an older request of that ID.                               *)
(***************************************************************************)
THEOREM EvictionsExplained == Spec => EvictedOnlyByStaleFinish
<1>1. IInv /\ [Next]_vars => [\A rid \in RequestIDs : EvictionExplained(rid)]_vars
  BY EvictionStep
<1> QED
  BY <1>1, Invariance, PTL DEF Spec, EvictedOnlyByStaleFinish

----------------------------------------------------------------------------
(* ConnClient.  What the client knows of a message is its answer. *)

(* Where an answer may have been given, and what a task is there for. *)
AnswerOf(t) ==
  /\ pc[t] \notin {"finish", "done"} => answer[t] = "none"
  /\ pc[t] \in {"init", "add", "reply"} => msg[t].sub = "init"
  /\ pc[t] \in {"lookup", "running", "finish"} => msg[t].sub # "init"
  /\ pc[t] \in Executing => msg[t].kind # "monitor"

(* The client's request of an ID is an INIT that it sent with that ID. *)
CurrentInv ==
  /\ current \in [RequestIDs -> Tasks \cup {None}]
  /\ \A rid \in RequestIDs : current[rid] # None =>
       /\ pc[current[rid]] # "unused"
       /\ msg[current[rid]].sub = "init" /\ msg[current[rid]].rid = rid

(* The client waits for one answer at a time on an ID: for that of its     *)
(* INIT; of an exec; or of the last exec, with which it let go.            *)
WaitingInv ==
  \A rid \in RequestIDs, t \in Tasks : Waiting(t, rid) =>
    /\ \A u \in Tasks : Waiting(u, rid) => u = t
    /\ msg[t].sub = "init" => current[rid] = t
    /\ msg[t].sub = "last" => current[rid] = None

(* An INIT that is about to be answered with success is in the table. *)
Registered == \A t \in Tasks : pc[t] = "reply" => requests[msg[t].rid] = t

(* The execution that will delete the entry of its ID keeps the ID taken   *)
(* until then, and what it executes is no longer the client's.             *)
LastRun(t) == pc[t] \in Executing /\ msg[t].sub = "last"

LastHolds ==
  \A t \in Tasks : LastRun(t) =>
    requests[msg[t].rid] = obj[t] /\ current[msg[t].rid] # obj[t]

(* A get or an RPC on its way to its request will find one, and nobody is  *)
(* about to delete it.                                                     *)
ExecFinds ==
  \A t \in Tasks :
    pc[t] \in {"begin", "lookup"} /\ msg[t].sub # "init" /\ msg[t].kind # "monitor" =>
      /\ requests[msg[t].rid] # None
      /\ \A u \in Tasks : LastRun(u) => msg[u].rid # msg[t].rid

CInv ==
  /\ \A t \in Tasks : AnswerOf(t)
  /\ CurrentInv /\ WaitingInv /\ TablesAgree /\ Registered /\ LastHolds /\ ExecFinds

(* Steps that the client cannot see. *)
LEMMA UnseenStep ==
  ASSUME CInv, UNCHANGED <<requests, msg, pc, obj, answer, current>>
  PROVE  CInv'
BY DEF CInv, AnswerOf, CurrentInv, WaitingInv, Waiting, TablesAgree, Open, Registered,
       LastHolds, LastRun, ExecFinds

(* Steps of a task that leave the table alone and start no execution. *)
LEMMA TaskStep ==
  ASSUME IInv, CInv, NEW t \in Tasks, UNCHANGED <<requests, msg, current>>,
         pc[t] # "unused", pc'[t] \notin {"unused", "reply"}, AnswerOf(t)',
         \A u \in Tasks : u # t => pc'[u] = pc[u] /\ answer'[u] = answer[u] /\ obj'[u] = obj[u],
         answer'[t] = "none" => answer[t] = "none",
         answer'[t] = "ok" /\ msg[t].sub = "init" => answer[t] = "ok" \/ pc[t] = "reply",
         pc'[t] \in Executing => pc[t] \in Executing /\ obj'[t] = obj[t],
         pc'[t] \in {"begin", "lookup"} => pc[t] \in {"begin", "lookup"}
  PROVE  CInv'
<1>1. \A u \in Tasks : AnswerOf(u)'
  BY DEF CInv, AnswerOf
<1>2. CurrentInv'
  BY DEF CInv, CurrentInv
<1>3. \A u \in Tasks, rid \in RequestIDs : Waiting(u, rid)' => Waiting(u, rid)
  BY DEF Waiting
<1>4. WaitingInv'
  BY <1>3 DEF CInv, WaitingInv
<1>5. Registered'
  BY DEF CInv, Registered
<1>6. TablesAgree'
  <2> SUFFICES ASSUME NEW rid \in RequestIDs, Open(rid)'
               PROVE  requests[rid] = current[rid]
    BY DEF TablesAgree
  <2>1. current[rid] \in Tasks /\ answer'[current[rid]] = "ok"
    BY DEF Open, CInv, CurrentInv
  <2>2. CASE Open(rid)
    BY <2>2 DEF CInv, TablesAgree
  <2>3. CASE ~Open(rid)
    <3>1. current[rid] = t /\ msg[t].sub = "init" /\ msg[t].rid = rid
      BY <2>1, <2>3, NoneAssumption DEF Open, CInv, CurrentInv
    <3>2. pc[t] = "reply"
      BY <2>1, <2>3, <3>1, NoneAssumption DEF Open
    <3> QED BY <3>1, <3>2 DEF CInv, Registered
  <2> QED BY <2>2, <2>3
<1>7. \A u \in Tasks : LastRun(u)' => LastRun(u) /\ obj'[u] = obj[u]
  BY DEF LastRun
<1>8. LastHolds'
  BY <1>7 DEF CInv, LastHolds
<1>9. ExecFinds'
  BY <1>7 DEF CInv, ExecFinds
<1> QED BY <1>1, <1>2, <1>4, <1>5, <1>6, <1>8, <1>9 DEF CInv

(* addRequest: whoever is about to delete the entry of the ID holds it. *)
LEMMA AddClientStep ==
  ASSUME IInv, CInv, NEW t \in Tasks, AddRequest(t), UNCHANGED current
  PROVE  CInv'
<1> DEFINE k == msg[t].rid
<1>1. /\ pc[t] = "add" /\ pc' = [pc EXCEPT ![t] = "reply"]
      /\ ~IDTaken(k) /\ requests' = [requests EXCEPT ![k] = t]
      /\ UNCHANGED <<msg, obj, answer, current>>
  BY DEF AddRequest, Goto
<1>2. k \in RequestIDs /\ msg[t].sub = "init" /\ answer[t] = "none"
  BY <1>1, MessageFields DEF IInv, TypeOK, CInv, AnswerOf
<1>3. Waiting(t, k)
  BY <1>1, <1>2 DEF Waiting
<1>4. current[k] = t /\ \A u \in Tasks : Waiting(u, k) => u = t
  BY <1>2, <1>3 DEF CInv, WaitingInv
<1>5. \A u \in Tasks : LastRun(u) => msg[u].rid # k
  <2> SUFFICES ASSUME NEW u \in Tasks, LastRun(u), msg[u].rid = k
               PROVE  FALSE
    OBVIOUS
  <2>1. requests[k] = obj[u] /\ obj[u] \in Tasks
    BY DEF LastRun, CInv, LastHolds, IInv, RunnerInv
  <2>2. status[requests[k]] # DESTROYED
    BY <1>2, <2>1, NoneAssumption DEF IInv, TableHoldsLive
  <2> QED BY <1>1, <2>1, <2>2, NoneAssumption DEF IDTaken
<1>6. /\ pc'[t] = "reply" /\ \A u \in Tasks : u # t => pc'[u] = pc[u]
      /\ requests'[k] = t /\ \A j \in RequestIDs : j # k => requests'[j] = requests[j]
  BY <1>1, <1>2 DEF IInv, TypeOK
<1>7. \A u \in Tasks : AnswerOf(u)'
  BY <1>1, <1>2, <1>6 DEF CInv, AnswerOf, Executing
<1>8. CurrentInv' /\ \A u \in Tasks, rid \in RequestIDs : Waiting(u, rid)' <=> Waiting(u, rid)
  BY <1>1, <1>6 DEF CInv, CurrentInv, Waiting
<1>9. WaitingInv'
  BY <1>1, <1>8 DEF CInv, WaitingInv
<1>10. TablesAgree'
  BY <1>1, <1>2, <1>4, <1>6 DEF CInv, TablesAgree, Open
<1>11. Registered'
  <2> SUFFICES ASSUME NEW u \in Tasks, u # t, pc[u] = "reply" PROVE requests'[msg[u].rid] = u
    BY <1>1, <1>6 DEF Registered
  <2>1. msg[u].rid \in RequestIDs /\ msg[u].sub = "init" /\ answer[u] = "none"
    BY MessageFields DEF IInv, TypeOK, CInv, AnswerOf
  <2>2. Waiting(u, msg[u].rid)
    BY <2>1 DEF Waiting
  <2>3. msg[u].rid # k
    BY <1>4, <2>2
  <2> QED BY <1>6, <2>1, <2>3 DEF CInv, Registered
<1>12. \A u \in Tasks : LastRun(u)' <=> LastRun(u)
  BY <1>1, <1>6 DEF LastRun, Executing
<1>13. \A u \in Tasks : pc[u] # "unused" => msg[u].rid \in RequestIDs
  BY MessageFields DEF IInv, TypeOK
<1>14. LastHolds'
  BY <1>1, <1>5, <1>6, <1>12, <1>13 DEF CInv, LastHolds, LastRun, Executing
<1>15. ExecFinds'
  BY <1>1, <1>6, <1>12, <1>13, NoneAssumption DEF CInv, ExecFinds
<1> QED BY <1>7, <1>8, <1>9, <1>10, <1>11, <1>14, <1>15 DEF CInv

(* A get or an RPC finds what its client has, or has just let go of. *)
LEMMA ExecuteClientStep ==
  ASSUME IInv, CInv, NEW t \in Tasks, Execute(t), UNCHANGED current
  PROVE  CInv'
<1> DEFINE k == msg[t].rid
<1>1. /\ pc[t] = "lookup" /\ pc' = [pc EXCEPT ![t] = "running"]
      /\ requests[k] \in Tasks /\ obj' = [obj EXCEPT ![t] = requests[k]]
      /\ msg[t].kind # "monitor" /\ UNCHANGED <<requests, msg, answer, current>>
  BY DEF Execute, Goto, Found
<1>2. k \in RequestIDs /\ msg[t].sub # "init" /\ answer[t] = "none"
  BY <1>1, MessageFields DEF IInv, TypeOK, CInv, AnswerOf
<1>3. Waiting(t, k)
  BY <1>1, <1>2 DEF Waiting
<1>4. /\ pc'[t] = "running" /\ obj'[t] = requests[k]
      /\ \A u \in Tasks : u # t => pc'[u] = pc[u] /\ obj'[u] = obj[u]
  BY <1>1 DEF IInv, TypeOK
<1>5. \A u \in Tasks : AnswerOf(u)'
  BY <1>1, <1>2, <1>4 DEF CInv, AnswerOf, Executing
<1>6. CurrentInv' /\ \A u \in Tasks, rid \in RequestIDs : Waiting(u, rid)' <=> Waiting(u, rid)
  BY <1>1, <1>4 DEF CInv, CurrentInv, Waiting
<1>7. WaitingInv' /\ TablesAgree' /\ Registered'
  BY <1>1, <1>4, <1>6 DEF CInv, WaitingInv, TablesAgree, Open, Registered
<1>8. LastHolds'
  <2>1. msg[t].sub = "last" => current[k] = None
    BY <1>2, <1>3 DEF CInv, WaitingInv
  <2> QED BY <1>1, <1>4, <2>1, NoneAssumption DEF CInv, LastHolds, LastRun
<1>9. ExecFinds'
  <2> SUFFICES ASSUME NEW u \in Tasks, u # t, pc[u] \in {"begin", "lookup"},
                      msg[u].sub # "init", msg[u].kind # "monitor"
               PROVE  /\ requests[msg[u].rid] # None
                      /\ \A v \in Tasks : LastRun(v)' => msg[v].rid # msg[u].rid
    BY <1>1, <1>4 DEF ExecFinds
  <2>1. msg[u].rid \in RequestIDs /\ Waiting(u, msg[u].rid)
    BY MessageFields DEF IInv, TypeOK, CInv, AnswerOf, Waiting
  <2>2. msg[u].rid # k
    BY <1>2, <1>3, <2>1 DEF CInv, WaitingInv
  <2>3. \A v \in Tasks : v # t => (LastRun(v)' <=> LastRun(v))
    BY <1>1, <1>4 DEF LastRun
  <2> QED BY <2>2, <2>3 DEF CInv, ExecFinds
<1> QED BY <1>5, <1>6, <1>7, <1>8, <1>9 DEF CInv

(* The deletion by ID: nobody needs what it deletes. *)
LEMMA FinishClientStep ==
  ASSUME IInv, CInv, NEW t \in Tasks, Finish(t), UNCHANGED current
  PROVE  CInv'
<1> DEFINE k == msg[t].rid
<1>1. /\ pc[t] = "finish" /\ pc' = [pc EXCEPT ![t] = "done"]
      /\ UNCHANGED <<msg, obj, answer, current>>
  BY DEF Finish, Goto
<1>2. pc'[t] = "done" /\ \A u \in Tasks : u # t => pc'[u] = pc[u]
  BY <1>1 DEF IInv, TypeOK
<1>3. AnswerOf(t)'
  BY <1>1, <1>2 DEF CInv, AnswerOf, Executing
<1>4. CASE msg[t].sub # "last"
  <2>1. UNCHANGED requests
    BY <1>4 DEF Finish
  <2>2. answer'[t] = "ok" /\ msg[t].sub = "init" => answer[t] = "ok"
    BY <1>1
  <2> QED BY <1>1, <1>2, <1>3, <2>1, <2>2, TaskStep DEF Executing
<1>5. CASE msg[t].sub = "last"
  <2>1. requests' = [requests EXCEPT ![k] = None]
    BY <1>5 DEF Finish
  <2>2. k \in RequestIDs /\ LastRun(t)
    BY <1>1, <1>5, MessageFields DEF IInv, TypeOK, LastRun, Executing
  <2>3. /\ requests'[k] = None /\ \A j \in RequestIDs : j # k => requests'[j] = requests[j]
        /\ requests[k] = obj[t] /\ current[k] # obj[t] /\ obj[t] \in Tasks
    BY <2>1, <2>2 DEF IInv, TypeOK, RunnerInv, CInv, LastHolds, LastRun
  <2>4. \A u \in Tasks : pc[u] # "unused" => msg[u].rid \in RequestIDs
    BY MessageFields DEF IInv, TypeOK
  <2>5. \A u \in Tasks : AnswerOf(u)'
    BY <1>1, <1>2, <1>3 DEF CInv, AnswerOf
  <2>6. CurrentInv' /\ \A u \in Tasks, rid \in RequestIDs : Waiting(u, rid)' <=> Waiting(u, rid)
    BY <1>1, <1>2 DEF CInv, CurrentInv, Waiting
  <2>7. WaitingInv'
    BY <1>1, <2>6 DEF CInv, WaitingInv
  <2>8. TablesAgree'
    <3>1. ~Open(k)
      BY <2>2, <2>3 DEF CInv, TablesAgree
    <3> QED BY <1>1, <2>3, <3>1 DEF CInv, TablesAgree, Open
  <2>9. Registered'
    <3> SUFFICES ASSUME NEW u \in Tasks, pc[u] = "reply" PROVE requests'[msg[u].rid] = u
      BY <1>1, <1>2 DEF Registered
    <3>1. msg[u].rid \in RequestIDs /\ Waiting(u, msg[u].rid) /\ msg[u].sub = "init"
      BY <2>4 DEF CInv, AnswerOf, Waiting
    <3>2. current[msg[u].rid] = u /\ requests[msg[u].rid] = u
      BY <3>1 DEF CInv, WaitingInv, Registered
    <3> QED BY <2>3, <3>1, <3>2
  <2>10. \A u \in Tasks : LastRun(u)' <=> LastRun(u) /\ u # t
    BY <1>1, <1>2 DEF LastRun, Executing
  <2>11. LastHolds'
    <3> SUFFICES ASSUME NEW u \in Tasks, u # t, LastRun(u)
                 PROVE  requests'[msg[u].rid] = obj[u] /\ current[msg[u].rid] # obj[u]
      BY <1>1, <2>10 DEF LastHolds
    <3>1. requests[msg[u].rid] = obj[u] /\ current[msg[u].rid] # obj[u]
      BY DEF CInv, LastHolds
    <3>2. msg[u].rid # k
      BY <2>2, <2>3, <3>1 DEF IInv, ExclusiveExecution, Runs, LastRun, Executing
    <3> QED BY <2>3, <2>4, <3>1, <3>2 DEF LastRun, Executing
  <2>12. ExecFinds'
    <3> SUFFICES ASSUME NEW u \in Tasks, pc[u] \in {"begin", "lookup"},
                        msg[u].sub # "init", msg[u].kind # "monitor"
                 PROVE  /\ requests'[msg[u].rid] # None
                        /\ \A v \in Tasks : LastRun(v)' => msg[v].rid # msg[u].rid
      BY <1>1, <1>2 DEF ExecFinds
    <3>1. /\ requests[msg[u].rid] # None
          /\ \A v \in Tasks : LastRun(v) => msg[v].rid # msg[u].rid
      BY DEF CInv, ExecFinds
    <3> QED BY <2>2, <2>3, <2>4, <2>10, <3>1
  <2> QED BY <2>5, <2>6, <2>7, <2>8, <2>9, <2>11, <2>12 DEF CInv
<1> QED BY <1>4, <1>5

(* The client sends an INIT, an exec, or a REQUEST_DESTROY, when it waits  *)
(* for nothing on the ID.                                                  *)
LEMMA SendStep ==
  ASSUME IInv, CInv, NEW t \in Tasks, NEW m \in Messages, SendInit(t, m) \/ SendExec(t, m)
  PROVE  CInv'
<1> DEFINE k == m.rid
<1>1. /\ pc[t] = "unused" /\ pc' = [pc EXCEPT ![t] = "begin"]
      /\ msg' = [msg EXCEPT ![t] = m]
      /\ UNCHANGED <<requests, obj, answer>> /\ Quiet(k)
  BY DEF SendInit, SendExec, Spawn
<1>2. /\ pc'[t] = "begin" /\ msg'[t] = m
      /\ \A u \in Tasks : u # t => pc'[u] = pc[u] /\ msg'[u] = msg[u]
  BY <1>1 DEF IInv, TypeOK
<1>3. k \in RequestIDs /\ answer[t] = "none"
  BY <1>1, MessageFields DEF CInv, AnswerOf
<1>4. /\ \A j \in RequestIDs : j # k => current'[j] = current[j]
      /\ current' \in [RequestIDs -> Tasks \cup {None}]
      /\ current'[k] \in {current[k], None, t}
      /\ m.sub = "init" <=> current'[k] = t
      /\ m.sub = "last" => current'[k] = None
      /\ m.sub # "init" => Open(k)
  <2>1. \A j \in RequestIDs : current[j] # t
    BY <1>1, NoneAssumption DEF CInv, CurrentInv
  <2> QED BY <1>3, <2>1, NoneAssumption DEF SendInit, SendExec, CInv, CurrentInv
<1>5. \A u \in Tasks : AnswerOf(u)'
  BY <1>1, <1>2, <1>3 DEF CInv, AnswerOf, Executing
<1>6. CurrentInv'
  <2> SUFFICES ASSUME NEW rid \in RequestIDs, current'[rid] # None
               PROVE  /\ pc'[current'[rid]] # "unused"
                      /\ msg'[current'[rid]].sub = "init" /\ msg'[current'[rid]].rid = rid
    BY <1>4 DEF CurrentInv
  <2>1. CASE current'[rid] = t
    <3>1. rid = k
      BY <1>1, <1>4, <2>1, NoneAssumption DEF CInv, CurrentInv
    <3> QED BY <1>2, <1>4, <2>1, <3>1
  <2>2. CASE current'[rid] # t
    <3>1. current'[rid] = current[rid] /\ current[rid] \in Tasks
      BY <1>4, <2>2
    <3> QED BY <1>2, <2>2, <3>1, NoneAssumption DEF CInv, CurrentInv
  <2> QED BY <2>1, <2>2
<1>7. \A u \in Tasks, rid \in RequestIDs :
        Waiting(u, rid)' => IF u = t THEN rid = k ELSE Waiting(u, rid) /\ rid # k
  BY <1>1, <1>2 DEF Waiting, Quiet
<1>8. WaitingInv'
  BY <1>2, <1>3, <1>4, <1>7 DEF CInv, WaitingInv
<1>9. TablesAgree'
  BY <1>1, <1>3, <1>4, NoneAssumption DEF CInv, TablesAgree, Open
<1>10. Registered'
  BY <1>1, <1>2 DEF CInv, Registered
<1>11. \A u \in Tasks : LastRun(u)' <=> LastRun(u) /\ u # t
  BY <1>1, <1>2 DEF LastRun, Executing
<1>12. LastHolds'
  <2> SUFFICES ASSUME NEW u \in Tasks, u # t, LastRun(u)
               PROVE  requests[msg[u].rid] = obj[u] /\ current'[msg[u].rid] # obj[u]
    BY <1>1, <1>2, <1>11 DEF LastHolds
  <2>1. /\ requests[msg[u].rid] = obj[u] /\ current[msg[u].rid] # obj[u]
        /\ obj[u] \in Tasks /\ obj[u] # t
    BY <1>1 DEF CInv, LastHolds, IInv, RunnerInv, FreshInv, Early, Runs, LastRun, Executing
  <2>2. msg[u].rid \in RequestIDs
    BY MessageFields DEF IInv, TypeOK, LastRun, Executing
  <2> QED BY <1>4, <2>1, <2>2, NoneAssumption
<1>13. ExecFinds'
  <2> SUFFICES ASSUME NEW u \in Tasks, pc'[u] \in {"begin", "lookup"},
                      msg'[u].sub # "init", msg'[u].kind # "monitor"
               PROVE  /\ requests[msg'[u].rid] # None
                      /\ \A v \in Tasks : LastRun(v) => msg[v].rid # msg'[u].rid
    BY <1>1, <1>2, <1>11 DEF ExecFinds
  <2>1. CASE u # t
    BY <1>2, <2>1 DEF CInv, ExecFinds
  <2>2. CASE u = t
    <3>1. Open(k) /\ requests[k] = current[k] /\ msg'[u].rid = k
      BY <1>2, <1>3, <1>4, <2>2 DEF CInv, TablesAgree
    <3> QED BY <3>1 DEF Open, CInv, LastHolds
  <2> QED BY <2>1, <2>2
<1> QED BY <1>5, <1>6, <1>8, <1>9, <1>10, <1>12, <1>13 DEF CInv

LEMMA DestroyClientStep ==
  ASSUME IInv, CInv, NEW k \in RequestIDs, SendDestroy(k)
  PROVE  CInv'
<1>1. /\ Open(k) /\ Quiet(k) /\ current' = [current EXCEPT ![k] = None]
      /\ requests' = [requests EXCEPT ![k] = None] /\ UNCHANGED <<msg, pc, obj, answer>>
  BY DEF SendDestroy, DestroyRequest
<1>2. /\ \A j \in RequestIDs : j # k => current'[j] = current[j] /\ requests'[j] = requests[j]
      /\ current'[k] = None
  BY <1>1 DEF IInv, TypeOK, CInv, CurrentInv
<1>3. \A u \in Tasks : pc[u] # "unused" => msg[u].rid \in RequestIDs
  BY MessageFields DEF IInv, TypeOK
<1>4. (\A u \in Tasks : AnswerOf(u))' /\ CurrentInv'
  BY <1>1, <1>2 DEF CInv, AnswerOf, CurrentInv
<1>5. \A u \in Tasks, rid \in RequestIDs : Waiting(u, rid)' <=> Waiting(u, rid) /\ rid # k
  BY <1>1 DEF Waiting, Quiet
<1>6. WaitingInv'
  BY <1>1, <1>2, <1>5 DEF CInv, WaitingInv
<1>7. TablesAgree'
  BY <1>1, <1>2 DEF CInv, TablesAgree, Open
<1>8. Registered'
  <2> SUFFICES ASSUME NEW u \in Tasks, pc[u] = "reply" PROVE requests'[msg[u].rid] = u
    BY <1>1 DEF Registered
  <2>1. Waiting(u, msg[u].rid)
    BY DEF CInv, AnswerOf, Waiting
  <2>2. msg[u].rid \in RequestIDs /\ msg[u].rid # k
    BY <1>1, <1>3, <2>1 DEF Quiet
  <2> QED BY <1>2, <2>2 DEF CInv, Registered
<1>9. \A u \in Tasks : LastRun(u) => msg[u].rid # k
  BY <1>1 DEF CInv, LastHolds, TablesAgree
<1>10. LastHolds'
  BY <1>1, <1>2, <1>3, <1>9 DEF CInv, LastHolds, LastRun, Executing
<1>11. ExecFinds'
  <2> SUFFICES ASSUME NEW u \in Tasks, pc[u] \in {"begin", "lookup"},
                      msg[u].sub # "init", msg[u].kind # "monitor"
               PROVE  /\ requests'[msg[u].rid] # None
                      /\ \A v \in Tasks : LastRun(v) => msg[v].rid # msg[u].rid
    BY <1>1 DEF ExecFinds, LastRun
  <2>1. Waiting(u, msg[u].rid) /\ msg[u].rid \in RequestIDs
    BY <1>3 DEF CInv, AnswerOf, Waiting
  <2>2. msg[u].rid # k
    BY <1>1, <2>1 DEF Quiet
  <2> QED BY <1>2, <2>1, <2>2 DEF CInv, ExecFinds
<1> QED BY <1>4, <1>6, <1>7, <1>8, <1>10, <1>11 DEF CInv

LEMMA TaskClientStep ==
  ASSUME IInv, CInv, NEW t \in Tasks, Task(t), UNCHANGED current
  PROVE  CInv'
<1>1. CASE AddRequest(t)
  BY <1>1, AddClientStep
<1>2. CASE Execute(t)
  BY <1>2, ExecuteClientStep
<1>3. CASE Finish(t)
  BY <1>3, FinishClientStep
<1>4. CASE LookupUnknown(t) \/ ReplyPanics(t)
  BY <1>4, UnseenStep DEF LookupUnknown, ReplyPanics, taskVars
<1>5. CASE GetChannel(t)
  <2>1. /\ pc[t] = "begin" /\ UNCHANGED <<requests, msg, obj, answer>>
        /\ pc'[t] \in {"error", "init", "lookup"} /\ \A u \in Tasks : u # t => pc'[u] = pc[u]
        /\ (pc'[t] = "init" => msg[t].sub = "init") /\ (pc'[t] = "lookup" => msg[t].sub # "init")
    BY <1>5 DEF GetChannel, Goto, IInv, TypeOK
  <2>2. AnswerOf(t)'
    BY <2>1 DEF CInv, AnswerOf, Executing
  <2> QED BY <2>1, <2>2, TaskStep DEF Executing
<1>6. CASE InitDoer(t)
  <2>1. /\ pc[t] = "init" /\ UNCHANGED <<requests, msg, obj, answer>>
        /\ pc'[t] = "add" /\ \A u \in Tasks : u # t => pc'[u] = pc[u]
    BY <1>6 DEF InitDoer, Goto, IInv, TypeOK
  <2>2. AnswerOf(t)'
    BY <2>1 DEF CInv, AnswerOf, Executing
  <2> QED BY <2>1, <2>2, TaskStep DEF Executing
<1>7. CASE \/ RejectRPCArgs(t) \/ InitDoerFails(t) \/ AddRequestFails(t) \/ InitReplyFails(t)
           \/ LookupNotReady(t) \/ LookupWrongDoer(t)
  <2>1. /\ pc[t] \in {"lookup", "init", "add", "reply"} /\ UNCHANGED <<requests, msg, obj, answer>>
        /\ pc'[t] = "error" /\ \A u \in Tasks : u # t => pc'[u] = pc[u]
    BY <1>7 DEF RejectRPCArgs, InitDoerFails, AddRequestFails, InitReplyFails,
                LookupNotReady, LookupWrongDoer, Goto, IInv, TypeOK
  <2>2. AnswerOf(t)'
    BY <2>1 DEF CInv, AnswerOf, Executing
  <2> QED BY <2>1, <2>2, TaskStep DEF Executing
<1>8. CASE Control(t)
  <2>1. /\ pc[t] = "lookup" /\ UNCHANGED <<requests, msg, answer>>
        /\ pc'[t] = "done" /\ \A u \in Tasks : u # t => pc'[u] = pc[u] /\ obj'[u] = obj[u]
    BY <1>8 DEF Control, Goto, IInv, TypeOK
  <2>2. AnswerOf(t)'
    BY <2>1 DEF CInv, AnswerOf, Executing
  <2> QED BY <2>1, <2>2, TaskStep DEF Executing
<1>9. CASE InitReply(t)
  <2>1. /\ pc[t] = "reply" /\ UNCHANGED <<requests, msg, obj>>
        /\ pc'[t] = "done" /\ answer'[t] = "ok"
        /\ \A u \in Tasks : u # t => pc'[u] = pc[u] /\ answer'[u] = answer[u]
    BY <1>9 DEF InitReply, Goto, IInv, TypeOK
  <2>2. AnswerOf(t)'
    BY <2>1 DEF CInv, AnswerOf, Executing
  <2> QED BY <2>1, <2>2, TaskStep DEF Executing
<1>10. ASSUME NEW sent \in BOOLEAN, Reply(t, sent) PROVE CInv'
  <2>1. /\ pc[t] = "running" /\ UNCHANGED <<requests, msg, obj>>
        /\ pc'[t] = "finish" /\ answer'[t] \in {"ok", answer[t]}
        /\ \A u \in Tasks : u # t => pc'[u] = pc[u] /\ answer'[u] = answer[u]
    BY <1>10 DEF Reply, Goto, IInv, TypeOK
  <2>2. AnswerOf(t)' /\ msg[t].sub # "init"
    BY <2>1 DEF CInv, AnswerOf, Executing
  <2> QED BY <2>1, <2>2, TaskStep DEF Executing
<1>11. CASE ReportError(t)
  <2>1. /\ pc[t] = "error" /\ UNCHANGED <<requests, msg, obj>>
        /\ pc'[t] = "done" /\ answer'[t] = "error"
        /\ \A u \in Tasks : u # t => pc'[u] = pc[u] /\ answer'[u] = answer[u]
    BY <1>11 DEF ReportError, Goto, IInv, TypeOK
  <2>2. AnswerOf(t)'
    BY <2>1 DEF CInv, AnswerOf, Executing
  <2> QED BY <2>1, <2>2, TaskStep DEF Executing
<1> QED
  BY <1>1, <1>2, <1>3, <1>4, <1>5, <1>6, <1>7, <1>8, <1>9, <1>10, <1>11 DEF Task

(* The client's steps are steps of ServerConn. *)
LEMMA ClientSteps == [ClientNext]_clientVars => [Next]_vars
BY DEF ClientNext, clientVars, SendInit, SendExec, SendCancel, SendDestroy, Next, ReadLoop

LEMMA ClientKeeps ==
  ASSUME IInv, CInv, [ClientNext]_clientVars
  PROVE  CInv'
<1>1. ASSUME NEW rid \in RequestIDs, SendCancel(rid) PROVE CInv'
  BY <1>1, UnseenStep DEF SendCancel, CancelRequest
<1>2. ASSUME NEW c \in ChannelIDs, CreateBegin(c) \/ DestroyChannel(c), UNCHANGED current
      PROVE CInv'
  BY <1>2, UnseenStep DEF CreateBegin, DestroyChannel, taskVars
<1>3. ASSUME NEW found \in BOOLEAN, CreateEnd(found), UNCHANGED current PROVE CInv'
  BY <1>3, UnseenStep DEF CreateEnd, taskVars
<1>4. CASE UNCHANGED clientVars
  BY <1>4, UnseenStep DEF clientVars, vars, taskVars
<1> QED
  BY <1>1, <1>2, <1>3, <1>4, SendStep, DestroyClientStep, TaskClientStep DEF ClientNext

LEMMA ClientStarts == ClientInit => CInv
<1> SUFFICES ASSUME ClientInit PROVE CInv
  OBVIOUS
<1>1. \A t \in Tasks : pc[t] = "unused" /\ answer[t] = "none"
  BY DEF ClientInit, Init
<1>2. \A rid \in RequestIDs : current[rid] = None
  BY DEF ClientInit
<1>3. current \in [RequestIDs -> Tasks \cup {None}]
  BY DEF ClientInit
<1> QED BY <1>1, <1>2, <1>3 DEF CInv, AnswerOf, CurrentInv, WaitingInv, Waiting, TablesAgree,
           Open, Registered, LastHolds, LastRun, ExecFinds, Executing

LEMMA ClientInvariance == ClientSpec => [](IInv /\ CInv)
<1>1. ClientInit => IInv /\ CInv
  BY InitEstablishes, ClientStarts DEF ClientInit
<1>2. IInv /\ CInv /\ [ClientNext]_clientVars => (IInv /\ CInv)'
  BY ClientSteps, NextKeeps, ClientKeeps
<1> QED BY <1>1, <1>2, PTL DEF ClientSpec

(***************************************************************************)
(* With a client that keeps to the protocol, monitors included, a request  *)
(* that the client has open is the one in c.requests, for any number of    *)
(* IDs and messages and any schedule of the handlers' goroutines: the      *)
(* stale deletion of EvictionsExplained does not happen.                   *)
(***************************************************************************)
THEOREM SidesAgree == ClientSpec => []TablesAgree
<1>1. IInv /\ CInv => TablesAgree
  BY DEF CInv
<1> QED BY <1>1, ClientInvariance, PTL

(***************************************************************************)
(* A get or an RPC that finds its request not READY comes after a          *)
(* cancellation or in the window in which the runner before it has         *)
(* answered and has not set READY, whatever monitors the client has too.   *)
(* (A message on a monitor, which is not waited for, may reach the request *)
(* that the next INIT of its ID made.)                                     *)
(***************************************************************************)
THEOREM RefusedInWindow == ClientSpec => []RefusalWindow
<1>1. ASSUME IInv, CInv PROVE RefusalWindow
  <2> SUFFICES ASSUME NEW t \in Tasks, NEW r \in Tasks, msg[t].kind # "monitor", Found(t, r),
                      status[r] # READY, status[r] # CANCELLED
               PROVE  \E u \in Tasks : pc[u] = "finish" /\ obj[u] = r
    BY DEF RefusalWindow
  <2> DEFINE k == msg[t].rid
  <2>1. pc[t] = "lookup" /\ r = requests[k] /\ r # None
    BY DEF Found
  <2>2. msg[t] \in Messages /\ k \in RequestIDs /\ msg[t].kind # "monitor"
    BY <1>1, <2>1, MessageFields DEF IInv, TypeOK, Messages
  <2>3. status[r] = REQUEST_IN_PROGRESS
    BY <1>1, <2>1, <2>2 DEF IInv, TypeOK, TableHoldsLive
  <2>4. PICK u \in Tasks : Runs(u, r)
    BY <1>1, <2>3 DEF IInv, BusyHasRunner
  <2>5. msg[u].rid = k /\ pc[u] \in Executing
    BY <1>1, <2>1, <2>2, <2>4 DEF IInv, RunnerInv, TableHoldsLive, Runs, Executing
  <2>6. Waiting(t, k)
    BY <1>1, <2>1, <2>2 DEF CInv, AnswerOf, Waiting
  <2>7. pc[u] # "running"
    <3> SUFFICES ASSUME pc[u] = "running" PROVE FALSE
      OBVIOUS
    <3>1. Waiting(u, k)
      BY <1>1, <2>5 DEF CInv, AnswerOf, Waiting
    <3> QED BY <1>1, <2>1, <2>2, <2>6, <3>1 DEF CInv, WaitingInv
  <2> QED BY <2>4, <2>7 DEF Runs
<1> QED BY <1>1, ClientInvariance, PTL

(***************************************************************************)
(* Every get and RPC of a client that keeps to the protocol finds its      *)
(* request in the table, whatever monitors the client has besides and      *)
(* however the handlers are scheduled: the nil dereferences of             *)
(* handleChannelGet and handleChannelRPC are out of its reach.             *)
(***************************************************************************)
THEOREM ExecsFindRequests == ClientSpec => []RequestsFound
<1>1. IInv /\ CInv => RequestsFound
  <2> SUFFICES ASSUME IInv, CInv, NEW t \in Tasks, pc[t] = "lookup", msg[t].kind # "monitor"
               PROVE  requests[msg[t].rid] # None
    BY DEF RequestsFound
  <2>1. msg[t].sub # "init"
    BY DEF CInv, AnswerOf
  <2> QED BY <2>1 DEF CInv, ExecFinds
<1> QED BY <1>1, ClientInvariance, PTL

(* A message of a monitor whose lookup finds its request gone. *)
StaleMonitorMessage(t) ==
  /\ pc[t] = "lookup" /\ requests[msg[t].rid] = None
  /\ msg[t].kind = "monitor" /\ msg[t].sub # "init"

(* A get or an RPC whose call of the channel returned. *)
HasResult(t) == pc[t] = "running" /\ status[obj[t]] # READY

(***************************************************************************)
(* A client that keeps to the protocol sees the process end in two ways    *)
(* only: a START, STOP, ACK or TERMINATE of a monitor reaches its lookup   *)
(* after the request is gone, or an execution of a request that no other   *)
(* message may start has no data for its response.  No INIT, cancellation, *)
(* destruction, refused message or later step of an execution ends it.     *)
(***************************************************************************)
THEOREM CrashesExplained ==
  ClientSpec => [][~crashed /\ crashed' =>
                     \E t \in Tasks : StaleMonitorMessage(t) \/ HasResult(t)]_clientVars
<1>1. ASSUME IInv, CInv, NEW t \in Tasks, LookupUnknown(t) PROVE StaleMonitorMessage(t)
  <2>1. pc[t] = "lookup" /\ requests[msg[t].rid] = None
    BY <1>1 DEF LookupUnknown
  <2>2. msg[t].sub # "init"
    BY <1>1, <2>1 DEF CInv, AnswerOf
  <2> QED BY <1>1, <2>1, <2>2 DEF CInv, ExecFinds, StaleMonitorMessage
<1>2. ASSUME IInv, NEW t \in Tasks, ReplyPanics(t) PROVE HasResult(t)
  BY <1>2 DEF ReplyPanics, HasResult, IInv, RunnerInv, Executing
<1>3. ASSUME ReadLoop PROVE UNCHANGED crashed
  BY <1>3 DEF ReadLoop, CreateBegin, DestroyChannel, CreateEnd, CancelRequest,
              DestroyRequest, Spawn
<1>4. ASSUME NEW t \in Tasks, Task(t)
      PROVE  LookupUnknown(t) \/ ReplyPanics(t) \/ UNCHANGED crashed
  BY <1>4 DEF Task, GetChannel, RejectRPCArgs, InitDoer, InitDoerFails, AddRequest,
       AddRequestFails, InitReply, InitReplyFails, LookupNotReady, LookupWrongDoer,
       Execute, Control, Reply, Finish, ReportError
<1>5. ASSUME IInv, CInv, [ClientNext]_clientVars, ~crashed, crashed'
      PROVE  \E t \in Tasks : StaleMonitorMessage(t) \/ HasResult(t)
  <2>1. [Next]_vars /\ ~UNCHANGED crashed
    BY <1>5, ClientSteps
  <2>2. PICK t \in Tasks : LookupUnknown(t) \/ ReplyPanics(t)
    BY <1>3, <1>4, <2>1 DEF Next, vars
  <2> QED BY <1>1, <1>2, <1>5, <2>2
<1>6. ASSUME IInv, CInv, [ClientNext]_clientVars
      PROVE  [~crashed /\ crashed' =>
                \E t \in Tasks : StaleMonitorMessage(t) \/ HasResult(t)]_clientVars
  BY <1>5, <1>6
<1> QED BY <1>6, ClientInvariance, PTL DEF ClientSpec

=============================================================================
