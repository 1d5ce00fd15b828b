-------------------------- MODULE ServerLifecycle --------------------------
(***************************************************************************)
(* The goroutines of Server.Serve and the contexts and errgroups that tie  *)
(* them together: the one that closes the listener, the accept loop, the   *)
(* UDP search server, and for each connection the goroutines of            *)
(* handleConnection: the one that closes the socket, the read loop         *)
(* (serve), the handlers that it starts and the watches that they start    *)
(* for monitors.  A watch is no member of the connection's group.          *)
(*                                                                         *)
(* The group of Serve has no context: an error of one of its members stops *)
(* nobody.  The group of a connection has one, which ends with the first   *)
(* error of a member or with the server's context.                         *)
(***************************************************************************)
EXTENDS Naturals

CONSTANTS
  Conns,        \* the connections that clients make
  MaxHandlers,  \* bound on the handlers of a connection at any time
  MaxWatches,   \* bound on the watches of a connection at any time
  Search        \* FALSE if DisableSearch is set

ASSUME MaxHandlersAssumption == MaxHandlers \in Nat
ASSUME MaxWatchesAssumption == MaxWatches \in Nat
ASSUME SearchAssumption == Search \in BOOLEAN

VARIABLES
  ctxDone,    \* the context given to Serve is cancelled
  listening,  \* the TCP listener is open
  lnCloser,   \* the goroutine that closes the listener still runs
  accepting,  \* the accept loop still runs
  search,     \* search.Serve: "listen", "beacons" or "returned"
  responder,  \* the goroutine serveSearch runs
  served,     \* Serve has returned
  sock,       \* sock[c]: "none", "open" or "closed", on the server's side
  peer,       \* peer[c]: the client is there
  serving,    \* serving[c]: the read loop, "hello", "reading" or "returned"
  eof,        \* eof[c]: the read loop returned nil after an EOF
  broken,     \* broken[c]: a member of the connection's group failed
  closer,     \* closer[c]: the goroutine that closes the socket still runs
  handlers,   \* handlers[c]: the handlers that run
  watches,    \* watches[c]: Monitor.Watch with the helper of the Next it is in
  handled     \* handled[c]: handleConnection has returned

serverVars == <<ctxDone, listening, lnCloser, accepting, search, responder, served>>
connVars == <<sock, peer, serving, eof, broken, closer, handlers, watches, handled>>
vars == <<serverVars, connVars>>

Init ==
  /\ ctxDone = FALSE
  /\ listening = TRUE
  /\ lnCloser = TRUE
  /\ accepting = TRUE
  /\ search = IF Search THEN "listen" ELSE "returned"
  /\ responder = FALSE
  /\ served = FALSE
  /\ sock = [c \in Conns |-> "none"]
  /\ peer = [c \in Conns |-> TRUE]
  /\ serving = [c \in Conns |-> "hello"]
  /\ eof = [c \in Conns |-> FALSE]
  /\ broken = [c \in Conns |-> FALSE]
  /\ closer = [c \in Conns |-> TRUE]
  /\ handlers = [c \in Conns |-> 0]
  /\ watches = [c \in Conns |-> 0]
  /\ handled = [c \in Conns |-> FALSE]

----------------------------------------------------------------------------
(* Server.Serve *)

CancelContext ==
  /\ ~ctxDone
  /\ ctxDone' = TRUE
  /\ UNCHANGED <<listening, lnCloser, accepting, search, responder, served, connVars>>

CloseListener ==
  /\ lnCloser /\ ctxDone
  /\ lnCloser' = FALSE
  /\ listening' = FALSE
  /\ UNCHANGED <<ctxDone, accepting, search, responder, served, connVars>>

(* A connection may be accepted between the end of the context and the     *)
(* closing of the listener.                                                *)
Accept(c) ==
  /\ accepting /\ listening
  /\ sock[c] = "none"
  /\ sock' = [sock EXCEPT ![c] = "open"]
  /\ UNCHANGED <<serverVars, peer, serving, eof, broken, closer, handlers, watches, handled>>

(* Accept fails for good: the listener is closed, or an error that is not  *)
(* temporary.  Temporary errors are retried.                               *)
AcceptFails ==
  /\ accepting
  /\ accepting' = FALSE
  /\ UNCHANGED <<ctxDone, listening, lnCloser, search, responder, served, connVars>>

(* serveSearch is started by go and ends when the UDP listener is closed,  *)
(* which only its own deferred call does: once started it runs for ever.   *)
SearchListens ==
  /\ search = "listen"
  /\ search' = "beacons"
  /\ responder' = TRUE
  /\ UNCHANGED <<ctxDone, listening, lnCloser, accepting, served, connVars>>

SearchListenFails ==
  /\ search = "listen"
  /\ search' = "returned"
  /\ UNCHANGED <<ctxDone, listening, lnCloser, accepting, responder, served, connVars>>

SearchReturns ==
  /\ search = "beacons" /\ ctxDone
  /\ search' = "returned"
  /\ UNCHANGED <<ctxDone, listening, lnCloser, accepting, responder, served, connVars>>

(* g.Wait() of Serve: the members are these and one per connection accepted. *)
ServeReturns ==
  /\ ~lnCloser /\ ~accepting /\ search = "returned"
  /\ \A c \in Conns : sock[c] = "none" \/ handled[c]
  /\ served' = TRUE
  /\ UNCHANGED <<ctxDone, listening, lnCloser, accepting, search, responder, connVars>>

----------------------------------------------------------------------------
(* handleConnection *)

Active(c) == sock[c] # "none" /\ ~handled[c]

GroupDoneOnShutdown(c) == ctxDone

(* The context of the group, which the goroutine that closes the socket    *)
(* waits for; and HandlerDone, the one that handlers run with, which serve *)
(* also ends when it meets EOF.                                            *)
GroupDone(c) == ctxDone \/ broken[c]

(* Mutant of HandlerDone: serve does not end the context it gave them. *)
HandlerDoneWithGroup(c) == GroupDone(c)

HandlerDone(c) == GroupDone(c) \/ eof[c]

(* The two messages fit the buffer of a new connection: sending them does  *)
(* not fail.                                                               *)
Hello(c) ==
  /\ Active(c) /\ serving[c] = "hello"
  /\ serving' = [serving EXCEPT ![c] = "reading"]
  /\ UNCHANGED <<serverVars, sock, peer, eof, broken, closer, handlers, watches, handled>>

(* A message that was received, or buffered, may still be read after the   *)
(* client has left or the socket has been closed.                          *)
StartHandler(c) ==
  /\ Active(c) /\ serving[c] = "reading"
  /\ handlers[c] < MaxHandlers
  /\ handlers' = [handlers EXCEPT ![c] = @ + 1]
  /\ UNCHANGED <<serverVars, sock, peer, serving, eof, broken, closer, watches, handled>>

(* The client is gone and the last message was complete. *)
ReadEOF(c) ==
  /\ Active(c) /\ serving[c] = "reading"
  /\ sock[c] = "open" /\ ~peer[c]
  /\ serving' = [serving EXCEPT ![c] = "returned"]
  /\ eof' = [eof EXCEPT ![c] = TRUE]
  /\ UNCHANGED <<serverVars, sock, peer, broken, closer, handlers, watches, handled>>

(* Mutant of ReadFails: the error ends every connection. *)
ReadFailsEverywhere(c) ==
  /\ Active(c) /\ serving[c] = "reading"
  /\ serving' = [serving EXCEPT ![c] = "returned"]
  /\ broken' = [d \in Conns |-> TRUE]
  /\ UNCHANGED <<serverVars, sock, peer, eof, closer, handlers, watches, handled>>

(* The socket is closed or reset, a message is cut short or malformed, or  *)
(* a response of the read loop cannot be sent.                             *)
ReadFails(c) ==
  /\ Active(c) /\ serving[c] = "reading"
  /\ serving' = [serving EXCEPT ![c] = "returned"]
  /\ broken' = [broken EXCEPT ![c] = TRUE]
  /\ UNCHANGED <<serverVars, sock, peer, eof, closer, handlers, watches, handled>>

HandlerReturns(c) ==
  /\ handlers[c] > 0
  /\ handlers' = [handlers EXCEPT ![c] = @ - 1]
  /\ UNCHANGED <<serverVars, sock, peer, serving, eof, broken, closer, watches, handled>>

(* Not even the error response could be sent. *)
HandlerFails(c) ==
  /\ handlers[c] > 0
  /\ sock[c] = "closed" \/ ~peer[c]
  /\ handlers' = [handlers EXCEPT ![c] = @ - 1]
  /\ broken' = [broken EXCEPT ![c] = TRUE]
  /\ UNCHANGED <<serverVars, sock, peer, serving, eof, closer, watches, handled>>

(* The INIT of a monitor: go m.Watch.  Nobody waits for it. *)
StartWatch(c) ==
  /\ handlers[c] > 0
  /\ watches[c] < MaxWatches
  /\ watches' = [watches EXCEPT ![c] = @ + 1]
  /\ UNCHANGED <<serverVars, sock, peer, serving, eof, broken, closer, handlers, handled>>

(* Next fails, or the watch finds its context ended: by TERMINATE, or with *)
(* the context that handlers run with.  It may do so after Serve returned. *)
WatchReturns(c) ==
  /\ watches[c] > 0
  /\ watches' = [watches EXCEPT ![c] = @ - 1]
  /\ UNCHANGED <<serverVars, sock, peer, serving, eof, broken, closer, handlers, handled>>

CloseSocket(c) ==
  /\ Active(c) /\ closer[c] /\ GroupDone(c)
  /\ closer' = [closer EXCEPT ![c] = FALSE]
  /\ sock' = [sock EXCEPT ![c] = "closed"]
  /\ UNCHANGED <<serverVars, peer, serving, eof, broken, handlers, watches, handled>>

(* Mutant of HandleReturns: the handlers are not members. *)
HandleReturnsOverHandlers(c) ==
  /\ Active(c)
  /\ serving[c] = "returned" /\ ~closer[c]
  /\ handled' = [handled EXCEPT ![c] = TRUE]
  /\ UNCHANGED <<serverVars, sock, peer, serving, eof, broken, closer, handlers, watches>>

(* g.Wait() of handleConnection: it does not wait for the watches. *)
HandleReturns(c) ==
  /\ Active(c)
  /\ serving[c] = "returned" /\ handlers[c] = 0 /\ ~closer[c]
  /\ handled' = [handled EXCEPT ![c] = TRUE]
  /\ UNCHANGED <<serverVars, sock, peer, serving, eof, broken, closer, handlers, watches>>

PeerLeaves(c) ==
  /\ peer[c]
  /\ peer' = [peer EXCEPT ![c] = FALSE]
  /\ UNCHANGED <<serverVars, sock, serving, eof, broken, closer, handlers, watches, handled>>

----------------------------------------------------------------------------
(* Clients, and the goroutines that wait for something to happen. *)
Server ==
  \/ CloseListener \/ SearchListens \/ SearchListenFails \/ SearchReturns \/ ServeReturns

Connection(c) ==
  \/ Hello(c) \/ ReadEOF(c) \/ CloseSocket(c) \/ HandleReturns(c)

Next ==
  \/ CancelContext \/ Server \/ AcceptFails
  \/ \E c \in Conns :
       \/ Accept(c) \/ Connection(c) \/ StartHandler(c) \/ ReadFails(c)
       \/ HandlerReturns(c) \/ HandlerFails(c) \/ PeerLeaves(c)
       \/ StartWatch(c) \/ WatchReturns(c)

Spec == Init /\ [][Next]_vars

(***************************************************************************)
(* Go runs the goroutines; a blocked Accept or Read returns an error once  *)
(* its listener or socket is closed.  A handler is expected to come back   *)
(* only once its context has ended; a watch may not even then (see         *)
(* EndedContextStopsWatch of SimpleChannel), so nothing is asked of it.    *)
(***************************************************************************)
FairSpec ==
  /\ Spec
  /\ WF_vars(CloseListener) /\ WF_vars(SearchListens \/ SearchListenFails)
  /\ WF_vars(SearchReturns) /\ WF_vars(ServeReturns)
  /\ WF_vars(~listening /\ AcceptFails)
  /\ \A c \in Conns :
       /\ WF_vars(Hello(c)) /\ WF_vars(ReadEOF(c))
       /\ WF_vars(CloseSocket(c)) /\ WF_vars(HandleReturns(c))
       /\ WF_vars(sock[c] = "closed" /\ ReadFails(c))
       /\ WF_vars(HandlerDone(c) /\ HandlerReturns(c))

----------------------------------------------------------------------------
(* The goroutines of a connection that still run. *)
Running(c) ==
  (IF closer[c] THEN {"closer"} ELSE {}) \cup (IF serving[c] # "returned" THEN {"serve"} ELSE {})
    \cup (IF handlers[c] > 0 THEN {"handler"} ELSE {})
    \cup (IF watches[c] > 0 THEN {"watch"} ELSE {})

(***************************************************************************)
(* When Serve returns, every socket that it accepted is closed, and of the *)
(* goroutines of its connections only watches may still run, each with the *)
(* context it got from its handler ended.  They are left because go m.Watch *)
(* and the helper in Next belong to no group.                              *)
(***************************************************************************)
OnlyWatchesLeft ==
  served => \A c \in Conns :
    sock[c] # "none" => sock[c] = "closed" /\ Running(c) \subseteq {"watch"} /\ HandlerDone(c)

(***************************************************************************)
(* Connections are isolated: the server closes a connection only when it   *)
(* shuts down or when that connection failed; no other connection and no   *)
(* failure of search or of Accept ends it.                                 *)
(***************************************************************************)
ClosedForCause ==
  \A c \in Conns : sock[c] = "closed" =>
    ctxDone \/ (broken[c] /\ (serving[c] = "returned" \/ ~peer[c]))


(***************************************************************************)
(* A connection that fails is closed and forgotten without a shutdown.     *)
(***************************************************************************)
FailureReleases == \A c \in Conns : broken[c] ~> handled[c]

(***************************************************************************)
(* A client that hangs up leaves no handler running, though the socket and *)
(* the group stay until shutdown: serve ends the context that it handed to *)
(* them, which neither an error nor the group's context would do.          *)
(***************************************************************************)
EofReleasesHandlers == \A c \in Conns : eof[c] ~> handlers[c] = 0

=============================================================================
