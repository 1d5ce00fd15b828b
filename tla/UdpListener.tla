---------------------------- MODULE UdpListener ----------------------------
(***************************************************************************)
(* Package internal/udpconn: Listen binds the sockets of the host one      *)
(* after the other; from then on each has a goroutine (readLoop) that      *)
(* reads datagrams and hands each over on the unbuffered channel connCh.   *)
(* Once Listen has returned, the loop of search.serveSearch takes them     *)
(* from there by Accept.  If a socket cannot be bound, Listen calls Close, *)
(* the only call of Close that this program can reach: serveSearch calls   *)
(* it when Accept fails, and Accept fails only after Close.                *)
(*                                                                         *)
(* A panic of one goroutine ends the process: nothing happens after it.    *)
(***************************************************************************)
EXTENDS Naturals, Sequences

CONSTANTS
  Interfaces,  \* the sockets of the interfaces, in order: "unicast" or "broadcast"
  Cleanup,     \* listenMulticast returns a clean-up function (not on Windows)
  MaxPackets   \* bound on the number of datagrams a socket receives

ASSUME InterfacesAssumption == Interfaces \in Seq({"unicast", "broadcast"})
ASSUME CleanupAssumption == Cleanup \in BOOLEAN
ASSUME MaxPacketsAssumption == MaxPackets \in Nat

(* The sockets that are read; sendConn, socket 0 of ln.lns, is not. *)
Plan == Append(Interfaces, "multicast")
Socks == 1..Len(Plan)

VARIABLES
  lpc,       \* Listen: "start", "binding", "closing", "waiting", "listening", "failed"
  bound,     \* the sockets 1..bound are in ln.lns
  closed,    \* the number of sockets that Close has closed, sendConn included
  chOpen,    \* connCh is not closed
  leaked,    \* sockets that were opened and are neither in ln.lns nor closed
  reader,    \* reader[s]: readLoop, "none", "reading", "sending" or "returned"
  received,  \* received[s]: datagrams that have arrived at the socket
  taken,     \* taken[s]: datagrams that readLoop has read
  handed,    \* handed[s]: datagrams that Accept has returned
  cleaner,   \* the goroutine that cleans up after multicast: "none", "waiting", "done"
  ctxDone,   \* the context given to Listen has ended
  panicked   \* a goroutine sent on the closed connCh

listenVars == <<lpc, bound, closed, chOpen, leaked>>
readVars == <<reader, received, taken, handed>>
vars == <<listenVars, readVars, cleaner, ctxDone, panicked>>

Init ==
  /\ lpc = "start"
  /\ bound = 0
  /\ closed = 0
  /\ chOpen = TRUE
  /\ leaked = {}
  /\ reader = [s \in Socks |-> "none"]
  /\ received = [s \in Socks |-> 0]
  /\ taken = [s \in Socks |-> 0]
  /\ handed = [s \in Socks |-> 0]
  /\ cleaner = "none"
  /\ ctxDone = FALSE
  /\ panicked = FALSE

Running == ~panicked
SocketOpen(s) == s <= bound /\ closed <= s

----------------------------------------------------------------------------
(* Listen *)

OpenSendConn(ok) ==
  /\ Running /\ lpc = "start"
  /\ lpc' = IF ok THEN "binding" ELSE "failed"
  /\ UNCHANGED <<bound, closed, chOpen, leaked, readVars, cleaner, ctxDone, panicked>>

(* The goroutine is started as soon as there is a clean-up function.  It   *)
(* waits for the end of the context, not for Close.                        *)
StartCleaner(s) ==
  cleaner' = IF Plan[s] = "multicast" /\ Cleanup THEN "waiting" ELSE cleaner

(* bindUnicast, bindBroadcast, bindMulticast and addConn. *)
Bind(s) ==
  /\ Running /\ lpc = "binding" /\ s = bound + 1
  /\ bound' = s
  /\ reader' = [reader EXCEPT ![s] = "reading"]
  /\ StartCleaner(s)
  /\ lpc' = IF s = Len(Plan) THEN "listening" ELSE lpc
  /\ UNCHANGED <<closed, chOpen, leaked, received, taken, handed, ctxDone, panicked>>

(* The interfaces or their addresses cannot be listed, or the socket       *)
(* cannot be opened or bound.  listenMulticast, but on Windows, leaves the *)
(* socket open that it could not bind.                                     *)
BindFails(s) ==
  /\ Running /\ lpc = "binding" /\ s = bound + 1
  /\ lpc' = "closing"
  /\ leaked' \in {leaked} \cup (IF Plan[s] = "multicast" /\ Cleanup THEN {leaked \cup {s}} ELSE {})
  /\ UNCHANGED <<bound, closed, chOpen, readVars, cleaner, ctxDone, panicked>>

(* An option of the open socket cannot be set.  A broadcast socket has none. *)
ConfigureFails(s) ==
  /\ Running /\ lpc = "binding" /\ s = bound + 1
  /\ Plan[s] # "broadcast"
  /\ lpc' = "closing"
  /\ leaked' = leaked \cup {s}
  /\ StartCleaner(s)
  /\ UNCHANGED <<bound, closed, chOpen, readVars, ctxDone, panicked>>

----------------------------------------------------------------------------
(* Close: the channel, the sockets in the order of ln.lns, g.Wait(). *)

CloseChannel ==
  /\ Running /\ lpc = "closing" /\ chOpen
  /\ chOpen' = FALSE
  /\ UNCHANGED <<lpc, bound, closed, leaked, readVars, cleaner, ctxDone, panicked>>

CloseSocket ==
  /\ Running /\ lpc = "closing" /\ ~chOpen
  /\ closed' = closed + 1
  /\ lpc' = IF closed = bound THEN "waiting" ELSE lpc
  /\ UNCHANGED <<bound, chOpen, leaked, readVars, cleaner, ctxDone, panicked>>

(* Mutant of WaitReturns: g.Wait() is left out. *)
WaitReturnsAtOnce ==
  /\ Running /\ lpc = "waiting"
  /\ lpc' = "failed"
  /\ UNCHANGED <<bound, closed, chOpen, leaked, readVars, cleaner, ctxDone, panicked>>

WaitReturns ==
  /\ Running /\ lpc = "waiting"
  /\ \A s \in 1..bound : reader[s] = "returned"
  /\ cleaner # "waiting"
  /\ lpc' = "failed"
  /\ UNCHANGED <<bound, closed, chOpen, leaked, readVars, cleaner, ctxDone, panicked>>

----------------------------------------------------------------------------
(* The other goroutines. *)

Arrive(s) ==
  /\ Running /\ SocketOpen(s)
  /\ received[s] < MaxPackets
  /\ received' = [received EXCEPT ![s] = @ + 1]
  /\ UNCHANGED <<listenVars, reader, taken, handed, cleaner, ctxDone, panicked>>

(* Mutant of ReadPacket: it does not wait for the packet to be accepted. *)
ReadPacketDrops(s) ==
  /\ Running /\ reader[s] = "reading" /\ SocketOpen(s)
  /\ taken[s] < received[s]
  /\ taken' = [taken EXCEPT ![s] = @ + 1]
  /\ UNCHANGED <<listenVars, reader, received, handed, cleaner, ctxDone, panicked>>

ReadPacket(s) ==
  /\ Running /\ reader[s] = "reading" /\ SocketOpen(s)
  /\ taken[s] < received[s]
  /\ taken' = [taken EXCEPT ![s] = @ + 1]
  /\ reader' = [reader EXCEPT ![s] = "sending"]
  /\ UNCHANGED <<listenVars, received, handed, cleaner, ctxDone, panicked>>

(* The socket has been closed, or any other error: readLoop gives up. *)
ReadFails(s) ==
  /\ Running /\ reader[s] = "reading"
  /\ reader' = [reader EXCEPT ![s] = "returned"]
  /\ UNCHANGED <<listenVars, received, taken, handed, cleaner, ctxDone, panicked>>

(* The send of readLoop meets the Accept of serveSearch, which starts a    *)
(* goroutine for the packet and accepts again.                             *)
Accept(s) ==
  /\ Running /\ lpc = "listening" /\ chOpen
  /\ reader[s] = "sending"
  /\ reader' = [reader EXCEPT ![s] = "reading"]
  /\ handed' = [handed EXCEPT ![s] = @ + 1]
  /\ UNCHANGED <<listenVars, received, taken, cleaner, ctxDone, panicked>>

(* A send on a closed channel, be it blocked already or not. *)
SendPanics(s) ==
  /\ Running /\ reader[s] = "sending" /\ ~chOpen
  /\ panicked' = TRUE
  /\ UNCHANGED <<listenVars, readVars, cleaner, ctxDone>>

CleanUp ==
  /\ Running /\ cleaner = "waiting" /\ ctxDone
  /\ cleaner' = "done"
  /\ UNCHANGED <<listenVars, readVars, ctxDone, panicked>>

EndContext ==
  /\ Running /\ ~ctxDone
  /\ ctxDone' = TRUE
  /\ UNCHANGED <<listenVars, readVars, cleaner, panicked>>

----------------------------------------------------------------------------
Listen ==
  \/ \E ok \in BOOLEAN : OpenSendConn(ok)
  \/ \E s \in Socks : Bind(s) \/ BindFails(s) \/ ConfigureFails(s)
  \/ CloseChannel \/ CloseSocket \/ WaitReturns

ReadLoop(s) == ReadPacket(s) \/ ReadFails(s) \/ SendPanics(s)

Next ==
  \/ Listen \/ CleanUp \/ EndContext
  \/ \E s \in Socks : Arrive(s) \/ ReadLoop(s) \/ Accept(s)

Spec == Init /\ [][Next]_vars

(* Go runs every goroutine, a blocked read returns when its socket is      *)
(* closed, and the senders on a channel are served in their order.         *)
FairSpec ==
  /\ Spec
  /\ WF_vars(Listen) /\ WF_vars(CleanUp)
  /\ \A s \in Socks :
       /\ WF_vars(ReadPacket(s)) /\ WF_vars(SendPanics(s)) /\ WF_vars(Accept(s))
       /\ WF_vars(~SocketOpen(s) /\ ReadFails(s))

----------------------------------------------------------------------------
(***************************************************************************)
(* A Listen that fails leaves nothing running: the sockets in ln.lns are   *)
(* closed, and their readers and the clean-up goroutine have ended.  One   *)
(* socket may stay open, without a reader: the one that could not be bound *)
(* or configured, which Close does not know of; a broadcast socket never,  *)
(* and none after a Listen that succeeds.  A listener in use is never      *)
(* closed under its readers: the only send on a closed connCh is that of a *)
(* datagram that arrived while Listen was still binding sockets, one of    *)
(* which failed.                                                           *)
(***************************************************************************)
ListenFailsAlone ==
  /\ lpc = "failed" =>
       /\ \A s \in 1..bound : ~SocketOpen(s) /\ reader[s] = "returned"
       /\ cleaner # "waiting"
       /\ \A s \in leaked : s = bound + 1 /\ Plan[s] # "broadcast" /\ reader[s] = "none"
  /\ lpc = "listening" => leaked = {}
  /\ panicked => lpc \in {"closing", "waiting"}

(***************************************************************************)
(* Once Listen has returned, every datagram received is accepted, those    *)
(* included that arrived before, unless reading the socket fails.          *)
(***************************************************************************)
PacketsAccepted ==
  \A s \in Socks, n \in 1..MaxPackets :
    (lpc = "listening" /\ received[s] >= n) ~> (handed[s] >= n \/ reader[s] = "returned")

=============================================================================
