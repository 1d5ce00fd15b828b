----------------------------- MODULE ServerConn -----------------------------
(***************************************************************************)
(* serverConn of server.go and channels.go: the table of channels and the  *)
(* table of requests of one connection, while its read loop runs.          *)
(*                                                                         *)
(* The read loop handles CREATE_CHANNEL, DESTROY_CHANNEL, REQUEST_CANCEL   *)
(* and REQUEST_DESTROY itself.  For each GET, RPC and MONITOR message it   *)
(* starts a goroutine, here a task, and goes on to the next message, so    *)
(* the tasks of one client overtake each other and the read loop.  A step  *)
(* is one critical section of c.mu or one call between two of them.        *)
(*                                                                         *)
(* A request object is named by the task that made it.  The client is      *)
(* unconstrained; ConnClient adds one that follows the protocol.           *)
(***************************************************************************)
EXTENDS Naturals, FiniteSets

CONSTANTS
  ChannelIDs,  \* the channel IDs the client uses
  RequestIDs,  \* the request IDs the client uses
  Tasks,       \* the GET, RPC and MONITOR messages handled, one task each
  None,        \* no task, no channel
  Kinds        \* which of "get", "rpc" and "monitor" the client uses

ASSUME NoneAssumption == None \notin Tasks /\ None \notin ChannelIDs
ASSUME KindsAssumption == Kinds \subseteq {"get", "rpc", "monitor"}

VARIABLES
  channels,  \* c.channels: "absent" (no entry), "nil" (an entry holding nil), "open"
  loop,      \* the channel ID that the read loop asks the providers for, or None
  requests,  \* c.requests: the request object of an ID, or None
  doer,      \* r.doer: the interfaces its dynamic type implements
  status,    \* r.status
  cancel,    \* r.cancel: the task whose context it ends, or None
  msg,       \* the message a task handles
  pc,        \* where a task is
  obj,       \* the request object a task works on
  ctxDone,   \* the context of a task's execution has been cancelled
  answer,    \* the response sent by a task: "none", "ok" or "error"
  crashed    \* a goroutine panicked, and with it the process

objVars == <<doer, status, cancel>>
taskVars == <<msg, pc, obj, ctxDone, answer>>
vars == <<channels, loop, requests, objVars, taskVars, crashed>>

READY == 1
REQUEST_IN_PROGRESS == 2
CANCELLED == 3
DESTROYED == 4

(* Subcommands: "init"; "exec", for a monitor START, STOP or ACK; "last",  *)
(* which is exec with the DESTROY flag, or TERMINATE for a monitor.        *)
Messages ==
  [kind : Kinds, sub : {"init", "exec", "last"}, chan : ChannelIDs, rid : RequestIDs]

(***************************************************************************)
(* "begin"    about to look its channel up                                 *)
(* "init"     about to make the doer      "add"     about to addRequest    *)
(* "reply"    about to describe the value and to answer an INIT            *)
(* "lookup"   about to look its request up                                 *)
(* "running"  in ChannelGet or ChannelRPC, or sending its result           *)
(* "finish"   about to update the request                                  *)
(* "error"    about to send the error response                             *)
(***************************************************************************)
PCs == {"unused", "begin", "init", "add", "reply", "lookup", "running",
        "finish", "error", "done"}

Init ==
  /\ channels = [c \in ChannelIDs |-> "absent"]
  /\ loop = None
  /\ requests = [r \in RequestIDs |-> None]
  /\ doer = [t \in Tasks |-> {}]
  /\ status = [t \in Tasks |-> READY]
  /\ cancel = [t \in Tasks |-> None]
  /\ msg = [t \in Tasks |-> None]
  /\ pc = [t \in Tasks |-> "unused"]
  /\ obj = [t \in Tasks |-> None]
  /\ ctxDone = [t \in Tasks |-> FALSE]
  /\ answer = [t \in Tasks |-> "none"]
  /\ crashed = FALSE

----------------------------------------------------------------------------
(* The read loop.  It reads nothing while createChannel asks the providers. *)

Reading == loop = None /\ ~crashed

(* A CREATE_CHANNEL for an ID that has an entry is refused and changes nothing. *)
CreateBegin(c) ==
  /\ Reading
  /\ channels[c] = "absent"
  /\ loop' = c
  /\ UNCHANGED <<channels, requests, objVars, taskVars, crashed>>

(* The entry is made whether or not a provider knew the channel. *)
CreateEnd(found) ==
  /\ loop # None /\ ~crashed
  /\ channels' = [channels EXCEPT ![loop] = IF found THEN "open" ELSE "nil"]
  /\ loop' = None
  /\ UNCHANGED <<requests, objVars, taskVars, crashed>>

DestroyChannel(c) ==
  /\ Reading
  /\ channels' = [channels EXCEPT ![c] = "absent"]
  /\ UNCHANGED <<loop, requests, objVars, taskVars, crashed>>

(* Mutant of StopRequest: the cancel function is forgotten, not called. *)
StopRequestQuietly(r, new) ==
  /\ status' = [status EXCEPT ![r] = IF @ < new THEN new ELSE @]
  /\ cancel' = [cancel EXCEPT ![r] = None]
  /\ ctxDone' = ctxDone

(* Both cancelRequestLocked and destroyRequestLocked raise the status of   *)
(* the object to new and call its cancel function, at most once.           *)
StopRequest(r, new) ==
  /\ status' = [status EXCEPT ![r] = IF @ < new THEN new ELSE @]
  /\ ctxDone' = IF cancel[r] = None THEN ctxDone
                                    ELSE [ctxDone EXCEPT ![cancel[r]] = TRUE]
  /\ cancel' = [cancel EXCEPT ![r] = None]

CancelRequest(rid) ==
  /\ Reading
  /\ requests[rid] # None
  /\ StopRequest(requests[rid], CANCELLED)
  /\ UNCHANGED <<channels, loop, requests, doer, msg, pc, obj, answer, crashed>>

DestroyRequest(rid) ==
  /\ Reading
  /\ requests[rid] # None
  /\ StopRequest(requests[rid], DESTROYED)
  /\ requests' = [requests EXCEPT ![rid] = None]
  /\ UNCHANGED <<channels, loop, doer, msg, pc, obj, answer, crashed>>

(* handleChannelGet, handleChannelRPC, handleChannelMonitor: c.g.Go. *)
Spawn(t, m) ==
  /\ Reading
  /\ pc[t] = "unused"
  /\ msg' = [msg EXCEPT ![t] = m]
  /\ pc' = [pc EXCEPT ![t] = "begin"]
  /\ UNCHANGED <<channels, loop, requests, objVars, obj, ctxDone, answer, crashed>>

----------------------------------------------------------------------------
(* The tasks. *)

Goto(t, from, to) ==
  /\ ~crashed
  /\ pc[t] = from
  /\ pc' = [pc EXCEPT ![t] = to]

(* getChannel refuses an ID without entry and an entry that holds nil. *)
GetChannel(t) ==
  /\ Goto(t, "begin", CASE channels[msg[t].chan] # "open" -> "error"
                        [] msg[t].sub = "init" -> "init"
                        [] OTHER -> "lookup")
  /\ UNCHANGED <<channels, loop, requests, objVars, msg, obj, ctxDone, answer, crashed>>

(* The arguments of an RPC are checked before its request is looked up. *)
RejectRPCArgs(t) ==
  /\ Goto(t, "lookup", "error")
  /\ msg[t].kind = "rpc"
  /\ UNCHANGED <<channels, loop, requests, objVars, msg, obj, ctxDone, answer, crashed>>

(* The doer comes from the channel or from its creator.  Its type answers  *)
(* for the kind asked for and may, unless it is a Monitor, do the other.   *)
InitDoer(t) ==
  /\ Goto(t, "init", "add")
  /\ \E others \in SUBSET (IF msg[t].kind = "monitor" THEN {} ELSE {"get", "rpc"}) :
       doer' = [doer EXCEPT ![t] = {msg[t].kind} \cup others]
  /\ UNCHANGED <<channels, loop, requests, status, cancel, msg, obj, ctxDone, answer, crashed>>

(* The arguments are no structure, the channel does not support the        *)
(* operation, or its creator or the first Next of a monitor fails.         *)
InitDoerFails(t) ==
  /\ Goto(t, "init", "error")
  /\ UNCHANGED <<channels, loop, requests, objVars, msg, obj, ctxDone, answer, crashed>>

IDTaken(rid) == requests[rid] # None /\ status[requests[rid]] # DESTROYED

(* Mutant of addRequest: an ID that is in use is taken over. *)
AddRequestAnyway(t) ==
  /\ Goto(t, "add", "reply")
  /\ requests' = [requests EXCEPT ![msg[t].rid] = t]
  /\ status' = [status EXCEPT ![t] = READY]
  /\ cancel' = [cancel EXCEPT ![t] = None]
  /\ UNCHANGED <<channels, loop, doer, msg, obj, ctxDone, answer, crashed>>

AddRequest(t) ==
  /\ Goto(t, "add", "reply")
  /\ ~IDTaken(msg[t].rid)
  /\ requests' = [requests EXCEPT ![msg[t].rid] = t]
  /\ status' = [status EXCEPT ![t] = READY]
  /\ cancel' = [cancel EXCEPT ![t] = None]
  /\ UNCHANGED <<channels, loop, doer, msg, obj, ctxDone, answer, crashed>>

AddRequestFails(t) ==
  /\ Goto(t, "add", "error")
  /\ IDTaken(msg[t].rid)
  /\ UNCHANGED <<channels, loop, requests, objVars, msg, obj, ctxDone, answer, crashed>>

InitReply(t) ==
  /\ Goto(t, "reply", "done")
  /\ answer' = [answer EXCEPT ![t] = "ok"]
  /\ UNCHANGED <<channels, loop, requests, objVars, msg, obj, ctxDone, crashed>>

(* The first get, the description of the value or the encoding of the      *)
(* response fails.  The request stays registered.                          *)
InitReplyFails(t) ==
  /\ Goto(t, "reply", "error")
  /\ UNCHANGED <<channels, loop, requests, objVars, msg, obj, ctxDone, answer, crashed>>

(* r := c.requests[id]; r.status with r = nil. *)
LookupUnknown(t) ==
  /\ ~crashed
  /\ pc[t] = "lookup"
  /\ requests[msg[t].rid] = None
  /\ crashed' = TRUE
  /\ UNCHANGED <<channels, loop, requests, objVars, taskVars>>

Found(t, r) ==
  /\ pc[t] = "lookup"
  /\ r = requests[msg[t].rid]
  /\ r # None

(* Mutant of LookupNotReady: the task waits for the request to be READY. *)
LookupNotReadyWaits(t) ==
  /\ \E r \in Tasks : Found(t, r) /\ status[r] = DESTROYED
  /\ Goto(t, "lookup", "error")
  /\ UNCHANGED <<channels, loop, requests, objVars, msg, obj, ctxDone, answer, crashed>>

LookupNotReady(t) ==
  /\ \E r \in Tasks : Found(t, r) /\ status[r] # READY
  /\ Goto(t, "lookup", "error")
  /\ UNCHANGED <<channels, loop, requests, objVars, msg, obj, ctxDone, answer, crashed>>

LookupWrongDoer(t) ==
  /\ \E r \in Tasks : Found(t, r) /\ status[r] = READY /\ msg[t].kind \notin doer[r]
  /\ Goto(t, "lookup", "error")
  /\ UNCHANGED <<channels, loop, requests, objVars, msg, obj, ctxDone, answer, crashed>>

(* Mutant of Execute: the status is not tested. *)
ExecuteAnyway(t) ==
  \E r \in Tasks :
    /\ Found(t, r) /\ msg[t].kind \in doer[r] \ {"monitor"}
    /\ status' = [status EXCEPT ![r] = REQUEST_IN_PROGRESS]
    /\ cancel' = [cancel EXCEPT ![r] = t]
    /\ obj' = [obj EXCEPT ![t] = r]
    /\ Goto(t, "lookup", "running")
    /\ UNCHANGED <<channels, loop, requests, doer, msg, ctxDone, answer, crashed>>

(* A get or an RPC starts on a request that is READY. *)
Execute(t) ==
  \E r \in Tasks :
    /\ Found(t, r) /\ status[r] = READY /\ msg[t].kind \in doer[r] \ {"monitor"}
    /\ status' = [status EXCEPT ![r] = REQUEST_IN_PROGRESS]
    /\ cancel' = [cancel EXCEPT ![r] = t]
    /\ obj' = [obj EXCEPT ![t] = r]
    /\ Goto(t, "lookup", "running")
    /\ UNCHANGED <<channels, loop, requests, doer, msg, ctxDone, answer, crashed>>

(* Ack, Start, Stop and Terminate change the Monitor and nothing here; a   *)
(* success is not answered.                                                *)
Control(t) ==
  \E r \in Tasks :
    /\ Found(t, r) /\ status[r] = READY /\ msg[t].kind = "monitor" /\ "monitor" \in doer[r]
    /\ obj' = [obj EXCEPT ![t] = r]
    /\ Goto(t, "lookup", "done")
    /\ UNCHANGED <<channels, loop, requests, objVars, msg, ctxDone, answer, crashed>>

(* The result is sent.  If it cannot be encoded that is logged, no more.   *)
Reply(t, sent) ==
  /\ Goto(t, "running", "finish")
  /\ answer' = [answer EXCEPT ![t] = IF sent THEN "ok" ELSE @]
  /\ UNCHANGED <<channels, loop, requests, objVars, msg, obj, ctxDone, crashed>>

(* The channel returned nil for its data, as an RPC that fails does by Go's *)
(* custom: NewPVAny reflects on it, which panics; so does the encoding of   *)
(* a get's nil when there is no error to report in its place.               *)
ReplyPanics(t) ==
  /\ ~crashed
  /\ pc[t] = "running"
  /\ crashed' = TRUE
  /\ UNCHANGED <<channels, loop, requests, objVars, taskVars>>

(* Mutant of Finish: a request that is not destroyed keeps its status. *)
FinishWithoutReady(t) ==
  /\ Goto(t, "finish", "done")
  /\ IF msg[t].sub = "last"
       THEN /\ status' = [status EXCEPT ![obj[t]] = DESTROYED]
            /\ requests' = [requests EXCEPT ![msg[t].rid] = None]
       ELSE UNCHANGED <<status, requests>>
  /\ UNCHANGED <<channels, loop, doer, cancel, msg, obj, ctxDone, answer, crashed>>

(* Mutant of Finish: every run deletes the entry. *)
FinishAlwaysDeletes(t) ==
  /\ Goto(t, "finish", "done")
  /\ status' = [status EXCEPT ![obj[t]] = IF msg[t].sub = "last" THEN DESTROYED ELSE READY]
  /\ requests' = [requests EXCEPT ![msg[t].rid] = None]
  /\ UNCHANGED <<channels, loop, doer, cancel, msg, obj, ctxDone, answer, crashed>>

(* The DESTROY flag deletes the entry of the ID, whatever it holds by now. *)
Finish(t) ==
  /\ Goto(t, "finish", "done")
  /\ IF msg[t].sub = "last"
       THEN /\ status' = [status EXCEPT ![obj[t]] = DESTROYED]
            /\ requests' = [requests EXCEPT ![msg[t].rid] = None]
       ELSE /\ status' = [status EXCEPT ![obj[t]] = READY]
            /\ UNCHANGED requests
  /\ UNCHANGED <<channels, loop, doer, cancel, msg, obj, ctxDone, answer, crashed>>

ReportError(t) ==
  /\ Goto(t, "error", "done")
  /\ answer' = [answer EXCEPT ![t] = "error"]
  /\ UNCHANGED <<channels, loop, requests, objVars, msg, obj, ctxDone, crashed>>

----------------------------------------------------------------------------
Task(t) ==
  \/ GetChannel(t) \/ RejectRPCArgs(t) \/ InitDoer(t) \/ InitDoerFails(t)
  \/ AddRequest(t) \/ AddRequestFails(t) \/ InitReply(t) \/ InitReplyFails(t)
  \/ LookupUnknown(t) \/ LookupNotReady(t) \/ LookupWrongDoer(t) \/ Execute(t)
  \/ Control(t) \/ (\E sent \in BOOLEAN : Reply(t, sent)) \/ ReplyPanics(t)
  \/ Finish(t) \/ ReportError(t)

ReadLoop ==
  \/ \E c \in ChannelIDs : CreateBegin(c) \/ DestroyChannel(c)
  \/ \E found \in BOOLEAN : CreateEnd(found)
  \/ \E rid \in RequestIDs : CancelRequest(rid) \/ DestroyRequest(rid)
  \/ \E t \in Tasks, m \in Messages : Spawn(t, m)

Next == ReadLoop \/ \E t \in Tasks : Task(t)

Spec == Init /\ [][Next]_vars

----------------------------------------------------------------------------
(* The tasks that execute a request. *)
Runs(t, r) == pc[t] \in {"running", "finish"} /\ obj[t] = r

(***************************************************************************)
(* The tables, the request objects and the tasks keep their types.         *)
(***************************************************************************)
TypeOK ==
  /\ channels \in [ChannelIDs -> {"absent", "nil", "open"}]
  /\ loop \in ChannelIDs \cup {None}
  /\ requests \in [RequestIDs -> Tasks \cup {None}]
  /\ doer \in [Tasks -> SUBSET {"get", "rpc", "monitor"}]
  /\ status \in [Tasks -> {READY, REQUEST_IN_PROGRESS, CANCELLED, DESTROYED}]
  /\ cancel \in [Tasks -> Tasks \cup {None}]
  /\ pc \in [Tasks -> PCs]
  /\ msg \in [Tasks -> Messages \cup {None}]
  /\ \A t \in Tasks : pc[t] # "unused" => msg[t] \in Messages
  /\ obj \in [Tasks -> Tasks \cup {None}]
  /\ ctxDone \in [Tasks -> BOOLEAN]
  /\ answer \in [Tasks -> {"none", "ok", "error"}]
  /\ crashed \in BOOLEAN

(***************************************************************************)
(* A request is executed by one task at a time: the test of r.status and   *)
(* the assignment of REQUEST_IN_PROGRESS exclude all others until the      *)
(* runner is through, even if the request is cancelled or destroyed and    *)
(* its ID is used again in between.                                        *)
(***************************************************************************)
ExclusiveExecution ==
  \A r, t1, t2 \in Tasks : Runs(t1, r) /\ Runs(t2, r) => t1 = t2

(***************************************************************************)
(* A request that is REQUEST_IN_PROGRESS has a task that will hand it      *)
(* back; without one every later exec would be refused.                    *)
(***************************************************************************)
BusyHasRunner ==
  \A r \in Tasks : status[r] = REQUEST_IN_PROGRESS => \E t \in Tasks : Runs(t, r)

(***************************************************************************)
(* REQUEST_CANCEL and REQUEST_DESTROY reach the execution in progress: the *)
(* runner of a cancelled or destroyed request has had its context ended.   *)
(***************************************************************************)
CancelReachesRunner ==
  \A r, t \in Tasks : Runs(t, r) /\ status[r] \in {CANCELLED, DESTROYED} => ctxDone[t]

(***************************************************************************)
(* The table holds no destroyed request, and holds every object under the  *)
(* one ID that its INIT carried.                                           *)
(***************************************************************************)
TableHoldsLive ==
  \A rid \in RequestIDs : requests[rid] # None =>
    /\ status[requests[rid]] # DESTROYED
    /\ msg[requests[rid]].rid = rid

(* A live request leaves the table only in the last step of a task that    *)
(* ran another one.                                                        *)
EvictionExplained(rid) ==
  LET r == requests[rid] IN
  r # None /\ requests'[rid] # r /\ status'[r] # DESTROYED =>
    \E t \in Tasks : /\ pc[t] = "finish" /\ pc'[t] = "done"
                     /\ msg[t].sub = "last" /\ msg[t].rid = rid
                     /\ obj[t] # r

(***************************************************************************)
(* A request leaves the table alive in one way only: a task with the       *)
(* DESTROY flag that ran an older request of the same ID deletes the       *)
(* entry by ID.                                                            *)
(***************************************************************************)
EvictedOnlyByStaleFinish == [][\A rid \in RequestIDs : EvictionExplained(rid)]_vars

(***************************************************************************)
(* Every message is served: its task ends, unless the process crashes.     *)
(***************************************************************************)
EveryMessageServed ==
  \A t \in Tasks : (pc[t] = "begin") ~> (pc[t] = "done" \/ crashed)

(***************************************************************************)
(* An execution that was cancelled hands its request back.                 *)
(***************************************************************************)
CancelledRunRecovers ==
  \A r \in Tasks :
    (status[r] = CANCELLED /\ \E t \in Tasks : Runs(t, r)) ~> (status[r] # CANCELLED \/ crashed)

=============================================================================
