----------------------------- MODULE ConnClient -----------------------------
(***************************************************************************)
(* ServerConn with a client that keeps to the protocol.  It INITs a        *)
(* request ID that it does not use, executes a get or an RPC only after    *)
(* the INIT was answered and one at a time, cancels only what it waits     *)
(* for, and destroys a request only when it waits for no answer on it.     *)
(* A START, STOP, ACK or TERMINATE of a monitor is answered only if it     *)
(* fails, so there is nothing to wait for.                                 *)
(*                                                                         *)
(* The connection delivers the client's messages in order.  What the       *)
(* client waits for before it sends stays true once it is, so the sending  *)
(* of a message and its reading by the server are one step.                *)
(***************************************************************************)
EXTENDS ServerConn

VARIABLE
  current    \* the INIT of the request that the client has under an ID, or None

clientVars == <<vars, current>>

ClientInit == Init /\ current = [rid \in RequestIDs |-> None]

(* The INIT was answered with success and the client has not let go of it. *)
Open(rid) == current[rid] # None /\ answer[current[rid]] = "ok"

(* Messages on the ID for which an answer must still come. *)
Waiting(t, rid) ==
  /\ pc[t] # "unused" /\ answer[t] = "none"
  /\ msg[t].rid = rid
  /\ msg[t].kind # "monitor" \/ msg[t].sub = "init"

Quiet(rid) == \A t \in Tasks : ~Waiting(t, rid)

SendInit(t, m) ==
  /\ m.sub = "init"
  /\ Quiet(m.rid) /\ ~Open(m.rid)
  /\ current' = [current EXCEPT ![m.rid] = t]
  /\ Spawn(t, m)

(* The message is for the channel and of the kind that the INIT named.  A  *)
(* message that ends the request is the last one the client sends on it.   *)
SendExec(t, m) ==
  /\ m.sub # "init"
  /\ Open(m.rid) /\ Quiet(m.rid)
  /\ m = [msg[current[m.rid]] EXCEPT !.sub = m.sub]
  /\ current' = IF m.sub = "last" THEN [current EXCEPT ![m.rid] = None] ELSE current
  /\ Spawn(t, m)

SendCancel(rid) ==
  /\ \E t \in Tasks : Waiting(t, rid) /\ msg[t].sub # "init"
  /\ CancelRequest(rid)
  /\ UNCHANGED current

SendDestroy(rid) ==
  /\ Open(rid) /\ Quiet(rid)
  /\ current' = [current EXCEPT ![rid] = None]
  /\ DestroyRequest(rid)

ClientNext ==
  \/ \E t \in Tasks, m \in Messages : SendInit(t, m) \/ SendExec(t, m)
  \/ \E rid \in RequestIDs : SendCancel(rid) \/ SendDestroy(rid)
  \/ \E c \in ChannelIDs : (CreateBegin(c) \/ DestroyChannel(c)) /\ UNCHANGED current
  \/ \E found \in BOOLEAN : CreateEnd(found) /\ UNCHANGED current
  \/ \E t \in Tasks : Task(t) /\ UNCHANGED current

ClientSpec == ClientInit /\ [][ClientNext]_clientVars

(* Go runs every goroutine.  That a call of ChannelGet or ChannelRPC comes *)
(* back is assumed of the channels, not of the server; the client may fall *)
(* silent at any time.                                                     *)
ClientFairSpec ==
  ClientSpec /\ \A t \in Tasks : WF_clientVars(Task(t) /\ UNCHANGED current)

----------------------------------------------------------------------------
(***************************************************************************)
(* The two sides agree: a request that the client has open is the one in   *)
(* the server's table, although INIT, execution, the deletion that follows *)
(* a DESTROY flag and the reuse of the ID run in different goroutines.     *)
(***************************************************************************)
TablesAgree == \A rid \in RequestIDs : Open(rid) => requests[rid] = current[rid]

(***************************************************************************)
(* A get or an RPC finds its request not READY for two reasons only: the   *)
(* client cancelled it, or the runner of the exec before it has sent its   *)
(* answer and has not taken c.mu again to set READY.                       *)
(***************************************************************************)
RefusalWindow ==
  \A t, r \in Tasks :
    Found(t, r) /\ msg[t].kind # "monitor" /\ status[r] # READY =>
      status[r] = CANCELLED \/ \E u \in Tasks : pc[u] = "finish" /\ obj[u] = r

(***************************************************************************)
(* A get or an RPC finds its request: when it looks c.requests up there is *)
(* an entry, so r.status is not read through nil, although the handlers    *)
(* that add and delete entries overtake it and each other.                 *)
(***************************************************************************)
RequestsFound ==
  \A t \in Tasks :
    pc[t] = "lookup" /\ msg[t].kind # "monitor" => requests[msg[t].rid] # None

(***************************************************************************)
(* "Serve runs a PVAccess server on l until the context is cancelled": no  *)
(* client that keeps to the protocol brings the process down.  The code    *)
(* breaks this in two ways: LookupUnknown, for a message of a monitor, and *)
(* ReplyPanics, for a result without data.                                 *)
(***************************************************************************)
NoCrash == ~crashed

=============================================================================
