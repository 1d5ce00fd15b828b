----------------------- MODULE ServerLifecycleProofs -----------------------
(***************************************************************************)
(* The safety of ServerLifecycle for every set of connections and every    *)
(* number of handlers.  What Serve leaves behind depends on what each      *)
(* handleConnection leaves behind, and that on the goroutine that closes   *)
(* the socket: the invariant follows that chain.                           *)
(***************************************************************************)
EXTENDS ServerLifecycle, TLAPS

Types ==
  /\ ctxDone \in BOOLEAN /\ accepting \in BOOLEAN /\ served \in BOOLEAN
  /\ sock \in [Conns -> {"none", "open", "closed"}]
  /\ peer \in [Conns -> BOOLEAN]
  /\ serving \in [Conns -> {"hello", "reading", "returned"}]
  /\ broken \in [Conns -> BOOLEAN]
  /\ closer \in [Conns -> BOOLEAN]
  /\ handlers \in [Conns -> Nat]
  /\ watches \in [Conns -> Nat]
  /\ handled \in [Conns -> BOOLEAN]

(* The goroutine that closes the socket ends only by closing it, and does  *)
(* so only when the context of the group is done.                          *)
ClosedByCloser ==
  \A c \in Conns : /\ ~closer[c] => sock[c] = "closed"
                   /\ sock[c] = "closed" => GroupDone(c)

(* handleConnection returns when all of its goroutines have. *)
HandledIsOver ==
  \A c \in Conns : handled[c] =>
    serving[c] = "returned" /\ handlers[c] = 0 /\ ~closer[c]

(* A group fails by its own connection: its read loop, or its peer, or the *)
(* socket that was closed already.                                         *)
BrokenForCause ==
  \A c \in Conns : broken[c] => ctxDone \/ serving[c] = "returned" \/ ~peer[c]

(* After Serve has returned no connection is accepted, and none is open. *)
ServedIsOver ==
  served => ~accepting /\ \A c \in Conns : sock[c] = "none" \/ handled[c]

IInv == Types /\ ClosedByCloser /\ HandledIsOver /\ BrokenForCause /\ ServedIsOver

LEMMA InitIInv == Init => IInv
<1> SUFFICES ASSUME Init PROVE IInv
  OBVIOUS
<1>1. Types
  BY DEF Init, Types
<1>2. ClosedByCloser /\ HandledIsOver /\ BrokenForCause /\ ServedIsOver
  BY DEF Init, ClosedByCloser, HandledIsOver, BrokenForCause, ServedIsOver
<1> QED BY <1>1, <1>2 DEF IInv

(* The steps of Serve leave the connections alone: only the context and    *)
(* the accept loop matter to them.                                         *)
LEMMA ServeSteps ==
  ASSUME IInv, CancelContext \/ Server \/ AcceptFails
  PROVE  IInv'
<1> USE DEF IInv, Types, connVars
<1>1. UNCHANGED connVars
  BY DEF CancelContext, Server, AcceptFails, CloseListener, SearchListens,
         SearchListenFails, SearchReturns, ServeReturns
<1>2. (ctxDone => ctxDone') /\ ctxDone' \in BOOLEAN
  BY DEF CancelContext, Server, AcceptFails, CloseListener, SearchListens,
         SearchListenFails, SearchReturns, ServeReturns
<1>3. accepting' \in BOOLEAN /\ served' \in BOOLEAN /\ ServedIsOver'
  <2>1. CASE ServeReturns
    BY <2>1 DEF ServeReturns, ServedIsOver
  <2>2. CASE ~ServeReturns
    <3>1. served' = served /\ accepting' \in {accepting, FALSE}
      BY <2>2 DEF CancelContext, Server, AcceptFails, CloseListener, SearchListens,
                  SearchListenFails, SearchReturns
    <3>2. accepting' \in BOOLEAN /\ served' \in BOOLEAN
      BY <3>1
    <3>3. served' => ServedIsOver /\ served /\ ~accepting'
      BY <3>1 DEF ServedIsOver
    <3> QED BY <1>1, <3>2, <3>3 DEF ServedIsOver
  <2> QED BY <2>1, <2>2
<1>4. ClosedByCloser' /\ HandledIsOver' /\ BrokenForCause'
  BY <1>1, <1>2 DEF ClosedByCloser, HandledIsOver, BrokenForCause, GroupDone
<1> QED BY <1>1, <1>2, <1>3, <1>4

(* The steps of a connection. *)
LEMMA ConnSteps ==
  ASSUME IInv, NEW c \in Conns,
         \/ Accept(c) \/ Connection(c) \/ StartHandler(c) \/ ReadFails(c)
         \/ HandlerReturns(c) \/ HandlerFails(c) \/ PeerLeaves(c)
         \/ StartWatch(c) \/ WatchReturns(c)
  PROVE  IInv'
<1> USE DEF IInv, Types, serverVars, ClosedByCloser, HandledIsOver, BrokenForCause,
            ServedIsOver, GroupDone, Active
<1>1. CASE Accept(c)
  BY <1>1 DEF Accept
<1>2. CASE Hello(c)
  BY <1>2 DEF Hello
<1>3. CASE ReadEOF(c)
  BY <1>3 DEF ReadEOF
<1>4. CASE CloseSocket(c)
  BY <1>4 DEF CloseSocket
<1>5. CASE HandleReturns(c)
  BY <1>5 DEF HandleReturns
<1>6. CASE StartHandler(c)
  BY <1>6 DEF StartHandler
<1>7. CASE ReadFails(c)
  BY <1>7 DEF ReadFails
<1>8. CASE HandlerReturns(c)
  BY <1>8 DEF HandlerReturns
<1>9. CASE HandlerFails(c)
  BY <1>9 DEF HandlerFails
<1>10. CASE PeerLeaves(c)
  BY <1>10 DEF PeerLeaves
<1>11. CASE StartWatch(c)
  BY <1>11 DEF StartWatch
<1>12. CASE WatchReturns(c)
  BY <1>12 DEF WatchReturns
<1> QED BY <1>1, <1>2, <1>3, <1>4, <1>5, <1>6, <1>7, <1>8, <1>9, <1>10, <1>11, <1>12
        DEF Connection

LEMMA NextIInv == IInv /\ [Next]_vars => IInv'
<1> SUFFICES ASSUME IInv, [Next]_vars PROVE IInv'
  OBVIOUS
<1>1. CASE UNCHANGED vars
  BY <1>1 DEF vars, serverVars, connVars, IInv, Types, ClosedByCloser, HandledIsOver,
              BrokenForCause, ServedIsOver, GroupDone
<1> QED BY <1>1, ServeSteps, ConnSteps DEF Next

LEMMA Invariance == Spec => []IInv
BY InitIInv, NextIInv, PTL DEF Spec

(***************************************************************************)
(* Of the goroutines of its connections Serve leaves only watches behind,  *)
(* and each of them has been told to end, for any number of connections,   *)
(* handlers and watches: g.Wait() of Serve waits for every                 *)
(* handleConnection, g.Wait() of handleConnection for the closing of its   *)
(* socket, and the socket is closed when the group's context has ended,    *)
(* from which the contexts of the watches are derived.                     *)
(***************************************************************************)
THEOREM LeavesOnlyWatches == Spec => []OnlyWatchesLeft
<1>1. IInv => OnlyWatchesLeft
  <2> SUFFICES ASSUME IInv, served, NEW c \in Conns, sock[c] # "none"
               PROVE  sock[c] = "closed" /\ Running(c) \subseteq {"watch"} /\ HandlerDone(c)
    BY DEF OnlyWatchesLeft
  <2>1. serving[c] = "returned" /\ handlers[c] = 0 /\ ~closer[c]
    BY DEF IInv, ServedIsOver, HandledIsOver
  <2>2. sock[c] = "closed" /\ GroupDone(c)
    BY <2>1 DEF IInv, ClosedByCloser
  <2> QED BY <2>1, <2>2 DEF Running, HandlerDone
<1> QED BY <1>1, Invariance, PTL

(***************************************************************************)
(* Connections are isolated, for any number of them: the error that makes  *)
(* the server close one is its own.                                        *)
(***************************************************************************)
THEOREM Isolation == Spec => []ClosedForCause
<1>1. IInv => ClosedForCause
  BY DEF IInv, ClosedByCloser, BrokenForCause, ClosedForCause, GroupDone
<1> QED BY <1>1, Invariance, PTL

=============================================================================
