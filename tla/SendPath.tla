------------------------------ MODULE SendPath ------------------------------
(***************************************************************************)
(* The goroutines of one serverConn on their way to the socket: Connection *)
(* composed with the locks that its callers hold and with back pressure.   *)
(*                                                                         *)
(* c.mu (serverConn.mu) is held by a monitor message handler for as long   *)
(* as it sends, m.mu (Monitor.mu) by that handler and by Watch; encoderMu  *)
(* is Connection's mu.  The read loop itself needs c.mu for                *)
(* REQUEST_CANCEL and REQUEST_DESTROY and encoderMu for its answers.  The  *)
(* socket holds Capacity tokens that the client has not read; a write to a *)
(* full socket waits for the client or for conn.Close.                     *)
(*                                                                         *)
(* A goroutine sends one message.  A handler that sends several goes the   *)
(* same way several times.                                                 *)
(***************************************************************************)
EXTENDS Connection

CONSTANTS
  Notifies,  \* messages on a running monitor, sent by its drain under c.mu
  Watches,   \* updates sent by Watch
  Capacity   \* tokens that the socket takes ahead of the client

ASSUME RolesAssumption ==
  /\ Notifies \cup Watches \subseteq Apps
  /\ Notifies \cap Watches = {}

(* The other calls of SendApp: responses to requests, sent without c.mu. *)
Responses == Apps \ (Notifies \cup Watches)

(* The buffered writer never holds more than one message, two tokens. *)
ASSUME CapacityAssumption == Capacity \in Nat \ {0, 1}

VARIABLES
  cmu,      \* the goroutine that holds c.mu across a send, or Free
  mmu,      \* the goroutine that holds m.mu, or Free
  stage,    \* stage[m]: what the goroutine that sends m waits for: "idle",
            \* "c.mu", "m.mu", "send", "c.mu again" or "end"
  waiting,  \* the read loop is in handleRequestCancelDestroy
  taken,    \* how many tokens of wire the client has read
  closed    \* conn.Close was called, or the client reset the connection

lockVars == <<cmu, mmu, stage>>
pathVars == <<vars, lockVars, waiting, taken, closed>>

PathInit ==
  /\ Init
  /\ cmu = Free
  /\ mmu = Free
  /\ stage = [m \in Sends |-> "idle"]
  /\ waiting = FALSE
  /\ taken = 0
  /\ closed = FALSE

Move(m, from, to) == stage[m] = from /\ stage' = [stage EXCEPT ![m] = to]

----------------------------------------------------------------------------
(* The read loop. *)

(* A message for which the handler starts a goroutine. *)
ReadRequest(m) ==
  /\ ~waiting
  /\ m \in Apps \ Watches
  /\ Move(m, "idle", "c.mu")
  /\ ReadMessage
  /\ UNCHANGED <<cmu, mmu, waiting, taken, closed>>

(* A message that the read loop answers itself. *)
ReadAndAnswer(m) ==
  /\ ~waiting
  /\ m \in Ctrls \cup Responses
  /\ Move(m, "idle", "send")
  /\ ReadEcho(m)
  /\ UNCHANGED <<cmu, mmu, waiting, taken, closed>>

(* CREATE_CHANNEL or DESTROY_CHANNEL: the same, after a look at c.channels. *)
ReadChannel(m) ==
  /\ ~waiting
  /\ m \in Responses
  /\ Move(m, "idle", "c.mu")
  /\ ReadHeader
  /\ loop' = m
  /\ UNCHANGED <<sendVars, force, cmu, mmu, waiting, taken, closed>>

ReadByteOrder ==
  /\ ~waiting
  /\ ReadSetByteOrder
  /\ UNCHANGED <<lockVars, waiting, taken, closed>>

ReadCancel ==
  /\ ~waiting /\ waiting' = TRUE
  /\ ReadMessage
  /\ UNCHANGED <<lockVars, taken, closed>>

CancelRequest ==
  /\ waiting /\ waiting' = FALSE
  /\ cmu = Free
  /\ UNCHANGED <<vars, lockVars, taken, closed>>

(* An error of the read loop ends the context of the group, which closes   *)
(* the socket.  After an end of file the loop just reads no more.          *)
ReadEnds ==
  /\ ~waiting
  /\ ReadFails
  /\ ~closed /\ closed' = TRUE
  /\ UNCHANGED <<lockVars, waiting, taken>>

----------------------------------------------------------------------------
(* The locks before and after a send. *)

NextUpdate(m) ==
  /\ m \in Watches
  /\ Move(m, "idle", "m.mu")
  /\ UNCHANGED <<vars, cmu, mmu, waiting, taken, closed>>

(* getChannel and the lookup of the request.  Only the monitor message     *)
(* handler keeps c.mu: the exec handlers hand over to a goroutine, and     *)
(* the INIT handlers and error responses send without it.                  *)
LockConn(m) ==
  /\ cmu = Free
  /\ \/ /\ m \in Notifies
        /\ Move(m, "c.mu", "m.mu")
        /\ cmu' = m
        /\ UNCHANGED <<vars, mmu>>
     \/ /\ m \notin Notifies
        /\ Move(m, "c.mu", "send")
        /\ Call(m)
        /\ UNCHANGED <<cmu, mmu>>
  /\ UNCHANGED <<waiting, taken, closed>>

(* Ack, Start, Stop and Send end in drain, which sends or does not. *)
LockMonitor(m) ==
  /\ mmu = Free
  /\ \/ /\ Move(m, "m.mu", "send")
        /\ mmu' = m
        /\ Call(m)
        /\ UNCHANGED cmu
     \/ /\ Move(m, "m.mu", "end")
        /\ cmu' = IF cmu = m THEN Free ELSE cmu
        /\ UNCHANGED <<vars, mmu>>
  /\ UNCHANGED <<waiting, taken, closed>>


(* Mutant of Drained: c.mu is taken before the deferred Unlock of m.mu. *)
DrainedRelocks(m) ==
  /\ m # loop
  /\ pc[m] = "done"
  /\ Move(m, "send", "c.mu again")
  /\ UNCHANGED <<vars, cmu, mmu, waiting, taken, closed>>

(* SendApp or SendCtrl has returned: the deferred Unlocks. *)
Drained(m) ==
  /\ m # loop
  /\ pc[m] = "done"
  /\ Move(m, "send", "end")
  /\ cmu' = IF cmu = m THEN Free ELSE cmu
  /\ mmu' = IF mmu = m THEN Free ELSE mmu
  /\ UNCHANGED <<vars, waiting, taken, closed>>

(* The read loop has its answer on the way and reads on, or fails. *)
Answered(m) ==
  /\ m = loop
  /\ EchoAnswered
  /\ Move(m, "send", "end")
  /\ UNCHANGED <<cmu, mmu, waiting, taken, closed>>

(* The runner of a get or an RPC makes the request READY again. *)
Sent(m) ==
  /\ m # loop /\ m \in Responses
  /\ pc[m] = "done"
  /\ Move(m, "send", "c.mu again")
  /\ UNCHANGED <<vars, cmu, mmu, waiting, taken, closed>>

RequestReady(m) ==
  /\ cmu = Free
  /\ Move(m, "c.mu again", "end")
  /\ UNCHANGED <<vars, cmu, mmu, waiting, taken, closed>>

----------------------------------------------------------------------------
(* The socket and the client. *)

Fits == Len(wire') - taken <= Capacity

(* A step of SendApp or SendCtrl.  A write waits for room in the socket;   *)
(* once the socket is closed every write fails, a waiting one included.    *)
SendStep(m) ==
  /\ Send(m)
  /\ wire' # wire => Fits
  /\ closed => wire' = wire \/ stuck'
  /\ stuck' => stuck \/ closed
  /\ UNCHANGED <<lockVars, waiting, taken, closed>>

ClientReads ==
  /\ ~closed /\ taken < Len(wire)
  /\ taken' = Len(wire)
  /\ UNCHANGED <<vars, lockVars, waiting, closed>>

(* The context of the group ends, or the client resets the connection. *)
Close ==
  /\ ~closed /\ closed' = TRUE
  /\ UNCHANGED <<vars, lockVars, waiting, taken>>

----------------------------------------------------------------------------
Goroutine(m) ==
  \/ LockConn(m) \/ LockMonitor(m) \/ SendStep(m)
  \/ Drained(m) \/ Answered(m) \/ Sent(m) \/ RequestReady(m)

PathNext ==
  \/ \E m \in Sends : ReadRequest(m) \/ ReadAndAnswer(m) \/ ReadChannel(m) \/ NextUpdate(m) \/ Goroutine(m)
  \/ ReadByteOrder \/ ReadCancel \/ CancelRequest \/ ReadEnds
  \/ ClientReads \/ Close

(* Started goroutines run, and a sync.Mutex that stays free is taken.      *)
(* Nothing obliges the client to read.                                     *)
PathSpec ==
  /\ PathInit
  /\ [][PathNext]_pathVars
  /\ \A m \in Sends : WF_pathVars(Goroutine(m))
  /\ WF_pathVars(CancelRequest)

----------------------------------------------------------------------------
(* The locks in the order in which they are taken, and the place in that   *)
(* order of the one that m waits for, or after all of them.                *)
Locks == <<cmu, mmu, mu>>

Awaited(m) ==
  CASE stage[m] \in {"c.mu", "c.mu again"} -> 1
    [] stage[m] = "m.mu" -> 2
    [] stage[m] = "send" /\ pc[m] = "lock" -> 3
    [] OTHER -> 4

(***************************************************************************)
(* No two goroutines of a connection wait for each other's locks: c.mu,    *)
(* m.mu and encoderMu are only waited for in this order, by the read loop  *)
(* while it is in no call that could hold one, and whoever has returned    *)
(* holds none.                                                             *)
(***************************************************************************)
LockOrder ==
  /\ \A m \in Sends :
       /\ \A k \in DOMAIN Locks : Locks[k] = m => k < Awaited(m)
       /\ stage[m] \in {"idle", "end"} => m \notin {cmu, mmu, mu}
  /\ waiting => loop = Free

(* Nobody is under way, and nobody holds a lock. *)
AtRest ==
  /\ ~waiting
  /\ \A m \in Sends : stage[m] \in {"idle", "end"}
  /\ {cmu, mmu, mu} = {Free}


=============================================================================
