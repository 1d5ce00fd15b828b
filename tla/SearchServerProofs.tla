------------------------ MODULE SearchServerProofs ------------------------
(***************************************************************************)
(* The safety of the UDP listener, alone and under search.Server, and of   *)
(* the beacons, for every list of interfaces, every number of addresses    *)
(* and every number of packets and beacons.                                *)
(***************************************************************************)
EXTENDS SearchServer, TLAPS, FiniteSetTheorems

ListenTypes ==
  /\ lpc \in {"start", "binding", "closing", "waiting", "listening", "failed"}
  /\ bound \in Nat /\ bound <= Len(Plan)
  /\ closed \in Nat
  /\ chOpen \in BOOLEAN /\ panicked \in BOOLEAN
  /\ reader \in [Socks -> {"none", "reading", "sending", "returned"}]
  /\ cleaner \in {"none", "waiting", "done"}

(* A socket that is not in ln.lns has no reader. *)
ReadersOfBound == \A s \in Socks : s > bound => reader[s] = "none"

(* How far Close is. *)
CloseProgress ==
  /\ lpc = "start" => bound = 0 /\ cleaner = "none"
  /\ lpc \in {"start", "binding", "listening"} => closed = 0
  /\ lpc = "closing" => closed <= bound
  /\ lpc = "waiting" => closed = bound + 1
  /\ lpc = "failed" => bound = 0 \/ closed = bound + 1
  /\ ~chOpen => lpc \in {"closing", "waiting", "failed"}

(* What g.Wait() has waited for stays as it is. *)
WaitedFor ==
  lpc = "failed" => /\ \A s \in 1..bound : reader[s] = "returned"
                    /\ cleaner # "waiting"

PanicDuringClose == panicked => lpc \in {"closing", "waiting"}

(* Listen gives up at the first socket that fails. *)
OneLeak ==
  /\ lpc \in {"start", "binding", "listening"} => leaked = {}
  /\ \A s \in leaked : s \in Socks /\ s = bound + 1 /\ Plan[s] # "broadcast"

ListenInv ==
  /\ ListenTypes /\ ReadersOfBound /\ CloseProgress /\ WaitedFor /\ PanicDuringClose
  /\ OneLeak

LEMMA PlanLemma == Len(Plan) \in Nat /\ Socks = 1..Len(Plan)
BY InterfacesAssumption DEF Plan, Socks

LEMMA InitListen == Init => ListenInv
<1> SUFFICES ASSUME Init PROVE ListenInv
  OBVIOUS
<1>1. reader \in [Socks -> {"none", "reading", "sending", "returned"}]
  BY DEF Init
<1>2. bound = 0 /\ closed = 0 /\ lpc = "start" /\ cleaner = "none"
      /\ chOpen \in BOOLEAN /\ panicked \in BOOLEAN
  BY DEF Init
<1>3. ReadersOfBound /\ CloseProgress /\ WaitedFor /\ PanicDuringClose /\ OneLeak
  BY DEF Init, ReadersOfBound, CloseProgress, WaitedFor, PanicDuringClose, OneLeak
<1>4. ListenTypes
  <2>1. 0 <= Len(Plan)
    BY PlanLemma
  <2> QED BY <1>1, <1>2, <2>1 DEF ListenTypes
<1> QED BY <1>3, <1>4 DEF ListenInv

(* The steps of Listen and of the Close that it calls. *)
LEMMA ListenSteps ==
  ASSUME ListenInv, Listen
  PROVE  ListenInv'
<1> USE PlanLemma DEF ListenInv, ListenTypes, ReadersOfBound, CloseProgress, WaitedFor,
                      PanicDuringClose, OneLeak, readVars, Running
<1>1. ASSUME NEW ok \in BOOLEAN, OpenSendConn(ok) PROVE ListenInv'
  BY <1>1 DEF OpenSendConn
<1>2. ASSUME NEW s \in Socks, Bind(s) PROVE ListenInv'
  <2>1. bound' \in Nat /\ bound' <= Len(Plan) /\ bound' = bound + 1
    BY <1>2 DEF Bind
  <2>2. /\ reader' \in [Socks -> {"none", "reading", "sending", "returned"}]
        /\ ReadersOfBound'
    BY <1>2, <2>1 DEF Bind
  <2>3. cleaner' \in {"none", "waiting", "done"}
    BY <1>2 DEF Bind, StartCleaner
  <2>4. lpc' \in {"binding", "listening"}
    BY <1>2 DEF Bind
  <2> QED BY <1>2, <2>1, <2>2, <2>3, <2>4 DEF Bind
<1>3. ASSUME NEW s \in Socks, BindFails(s) PROVE ListenInv'
  BY <1>3 DEF BindFails
<1>4. ASSUME NEW s \in Socks, ConfigureFails(s) PROVE ListenInv'
  BY <1>4 DEF ConfigureFails, StartCleaner
<1>5. CASE CloseChannel
  BY <1>5 DEF CloseChannel
<1>6. CASE CloseSocket
  BY <1>6 DEF CloseSocket
<1>7. CASE WaitReturns
  BY <1>7 DEF WaitReturns
<1> QED BY <1>1, <1>2, <1>3, <1>4, <1>5, <1>6, <1>7 DEF Listen

(* The steps of the other goroutines, and of the network. *)
LEMMA GoroutineSteps ==
  ASSUME ListenInv,
         \/ CleanUp \/ EndContext
         \/ \E s \in Socks : Arrive(s) \/ ReadLoop(s) \/ Accept(s)
  PROVE  ListenInv'
<1> USE PlanLemma DEF ListenInv, ListenTypes, ReadersOfBound, CloseProgress, WaitedFor,
                      PanicDuringClose, OneLeak, listenVars, readVars, Running
<1>1. CASE CleanUp
  BY <1>1 DEF CleanUp
<1>2. CASE EndContext
  BY <1>2 DEF EndContext
<1>3. ASSUME NEW s \in Socks, Arrive(s) PROVE ListenInv'
  BY <1>3 DEF Arrive
<1>4. ASSUME NEW s \in Socks, ReadPacket(s) PROVE ListenInv'
  BY <1>4 DEF ReadPacket
<1>5. ASSUME NEW s \in Socks, ReadFails(s) PROVE ListenInv'
  BY <1>5 DEF ReadFails
<1>6. ASSUME NEW s \in Socks, SendPanics(s) PROVE ListenInv'
  BY <1>6 DEF SendPanics
<1>7. ASSUME NEW s \in Socks, Accept(s) PROVE ListenInv'
  BY <1>7 DEF Accept
<1> QED BY <1>1, <1>2, <1>3, <1>4, <1>5, <1>6, <1>7 DEF ReadLoop

LEMMA NextListen == ListenInv /\ [Next]_vars => ListenInv'
<1> SUFFICES ASSUME ListenInv, [Next]_vars PROVE ListenInv'
  OBVIOUS
<1>1. CASE UNCHANGED vars
  BY <1>1 DEF vars, listenVars, readVars, ListenInv, ListenTypes, ReadersOfBound,
              CloseProgress, WaitedFor, PanicDuringClose, OneLeak
<1> QED BY <1>1, ListenSteps, GoroutineSteps DEF Next

LEMMA ListenSafe == ListenInv => ListenFailsAlone
BY PlanLemma DEF ListenInv, ListenTypes, ReadersOfBound, CloseProgress, WaitedFor,
                 PanicDuringClose, OneLeak, ListenFailsAlone, SocketOpen

(***************************************************************************)
(* A Listen that fails leaves nothing running and at most one socket open, *)
(* the one at which it failed; one that succeeds leaves none unread; and   *)
(* only a failing Listen closes the channel under its readers, whatever    *)
(* the interfaces are.                                                     *)
(***************************************************************************)
THEOREM ListenFails == Spec => []ListenFailsAlone
<1>1. Spec => []ListenInv
  BY InitListen, NextListen, PTL DEF Spec
<1> QED BY <1>1, ListenSafe, PTL

----------------------------------------------------------------------------
(* Under search.Server every step is one of the listener's or leaves it    *)
(* alone.                                                                  *)
LEMMA ServerStepsListen == [ServerNext]_serverVars => [Next]_vars
BY DEF ServerNext, serverVars, Serve, FillGUID, ListenStep, ListenFailed, StartBeacons,
       ContextEnds, Tick, SendBeacon, SearchOverTCP, AcceptSearch, Listener, Next

LEMMA ServerListens == ServerSpec => []ListenInv
<1>1. ServerInit => ListenInv
  BY InitListen DEF ServerInit
<1>2. ListenInv /\ [ServerNext]_serverVars => ListenInv'
  BY NextListen, ServerStepsListen
<1> QED BY <1>1, <1>2, PTL DEF ServerSpec

(***************************************************************************)
(* As ListenFails, for the listener that search.Server.Serve opens.        *)
(***************************************************************************)
THEOREM ServerListenFails == ServerSpec => []ListenFailsAlone
BY ServerListens, ListenSafe, PTL

----------------------------------------------------------------------------
(* Serve calls Listen with the GUID filled in, and packets are accepted    *)
(* from a listener that Listen has returned.                               *)
IdentityInv ==
  /\ OneIdentityOverUDP
  /\ serve = "listen" => guid = "set"
  /\ lpc # "start" => guid = "set"

(***************************************************************************)
(* No search over UDP is answered with a blank GUID, in any order of the   *)
(* steps of Serve, of Listen and of the searches.                          *)
(***************************************************************************)
THEOREM OneIdentity == ServerSpec => []OneIdentityOverUDP
<1>1. ServerInit => IdentityInv
  BY DEF ServerInit, Init, IdentityInv, OneIdentityOverUDP
<1>2. ASSUME IdentityInv, [ServerNext]_serverVars PROVE IdentityInv'
  <2> USE DEF IdentityInv, OneIdentityOverUDP, vars, listenVars
  <2>1. CASE FillGUID
    BY <1>2, <2>1 DEF FillGUID
  <2>2. CASE ListenStep
    BY <1>2, <2>2 DEF ListenStep, Listener
  <2>3. CASE ListenFailed \/ StartBeacons \/ ContextEnds \/ Tick \/ SendBeacon
    BY <1>2, <2>3 DEF ListenFailed, StartBeacons, ContextEnds, Tick, SendBeacon
  <2>4. CASE SearchOverTCP
    BY <1>2, <2>4 DEF SearchOverTCP, Answer
  <2>5. CASE Listener(CleanUp) \/ Listener(EndContext)
    BY <1>2, <2>5 DEF Listener, CleanUp, EndContext
  <2>6. ASSUME NEW s \in Socks, Listener(Arrive(s) \/ ReadLoop(s)) PROVE IdentityInv'
    BY <1>2, <2>6 DEF Listener, Arrive, ReadLoop, ReadPacket, ReadFails, SendPanics
  <2>7. ASSUME NEW s \in Socks, AcceptSearch(s) PROVE IdentityInv'
    BY <1>2, <2>7 DEF AcceptSearch, Accept, Answer
  <2>8. CASE UNCHANGED serverVars
    BY <1>2, <2>8 DEF serverVars
  <2> QED BY <1>2, <2>1, <2>2, <2>3, <2>4, <2>5, <2>6, <2>7, <2>8 DEF ServerNext, Serve
<1>3. IdentityInv => OneIdentityOverUDP
  BY DEF IdentityInv
<1> QED BY <1>1, <1>2, <1>3, PTL DEF ServerSpec

----------------------------------------------------------------------------
(* A sender that has not failed has sent everything everywhere; one that   *)
(* has failed did so at one beacon, between two addresses.                 *)
HeardUpTo(k, last) ==
  \A a \in 1..Addresses : heard[a] = IF a <= last THEN 1..k ELSE 1..(k - 1)

BeaconInv ==
  /\ sent \in Nat
  /\ heard \in [1..Addresses -> SUBSET Nat]
  /\ silent \in BOOLEAN
  /\ ~silent => \A a \in 1..Addresses : heard[a] = 1..sent
  /\ silent => \E k \in Nat \ {0}, last \in 0..Addresses : HeardUpTo(k, last)

LEMMA WrittenLemma ==
  ASSUME BeaconInv, Written(sent + 1), sent' = sent + 1
  PROVE  BeaconInv'
<1>1. CASE silent
  BY <1>1 DEF BeaconInv, Written, HeardUpTo
<1>2. CASE ~silent
  <2>1. PICK last \in 0..Addresses :
          /\ heard' = [a \in 1..Addresses |->
                        IF a <= last THEN heard[a] \cup {sent + 1} ELSE heard[a]]
          /\ silent' = (last < Addresses)
    BY <1>2 DEF Written
  <2>2. \A n \in Nat : (1..n) \cup {n + 1} = 1..(n + 1)
    OBVIOUS
  <2>3. sent \in Nat /\ \A a \in 1..Addresses : heard[a] = 1..sent
    BY <1>2 DEF BeaconInv
  <2>4. \A a \in 1..Addresses : heard'[a] = IF a <= last THEN 1..(sent + 1) ELSE 1..sent
    BY <2>1, <2>2, <2>3
  <2>5. HeardUpTo(sent, last)'
    BY <2>3, <2>4 DEF HeardUpTo
  <2>6. ~silent' => \A a \in 1..Addresses : heard'[a] = 1..sent'
    <3>1. ~silent' => \A a \in 1..Addresses : a <= last
      <4>1. Addresses \in Nat
        BY BeaconsAssumption
      <4>2. ~silent' => ~(last < Addresses)
        BY <2>1
      <4> QED BY <4>1, <4>2
    <3> QED BY <2>4, <3>1
  <2>7. /\ sent' \in Nat /\ silent' \in BOOLEAN
        /\ heard' \in [1..Addresses -> SUBSET Nat]
    BY <2>1, <2>3
  <2> QED BY <2>3, <2>5, <2>6, <2>7 DEF BeaconInv
<1> QED BY <1>1, <1>2

LEMMA BeaconSafe == BeaconInv => BeaconsWithoutGap
<1> SUFFICES ASSUME BeaconInv PROVE BeaconsWithoutGap
  OBVIOUS
<1>1. \A n \in Nat : Cardinality(1..n) = n
  BY FS_Interval
<1>2. CASE ~silent
  BY <1>1, <1>2, BeaconsAssumption DEF BeaconInv, BeaconsWithoutGap
<1>3. CASE silent
  <2>1. PICK k \in Nat \ {0}, last \in 0..Addresses : HeardUpTo(k, last)
    BY <1>3 DEF BeaconInv
  <2>2. \A a \in 1..Addresses :
          /\ heard[a] = 1..Cardinality(heard[a])
          /\ Cardinality(heard[a]) = IF a <= last THEN k ELSE k - 1
    BY <1>1, <2>1 DEF HeardUpTo
  <2>3. \A a \in 1..Addresses : \A b \in 1..a : b \in 1..Addresses /\ b <= a
    BY BeaconsAssumption
  <2>4. \A a \in 1..Addresses : \A b \in 1..a :
          Cardinality(heard[b]) - Cardinality(heard[a]) \in {0, 1}
    BY <2>2, <2>3, BeaconsAssumption
  <2> QED BY <1>3, <2>2, <2>4 DEF BeaconsWithoutGap
<1> QED BY <1>2, <1>3

(***************************************************************************)
(* No address sees a gap in the beacons or is more than one behind, for    *)
(* any number of addresses: a failed write silences the sender for good.   *)
(***************************************************************************)
THEOREM Beacons == ServerSpec => []BeaconsWithoutGap
<1>1. ServerInit => BeaconInv
  <2>1. 1..0 = {}
    OBVIOUS
  <2> SUFFICES ASSUME ServerInit PROVE BeaconInv
    OBVIOUS
  <2>2. heard \in [1..Addresses -> SUBSET Nat] /\ \A a \in 1..Addresses : heard[a] = {}
    BY DEF ServerInit
  <2> QED BY <2>1, <2>2 DEF ServerInit, BeaconInv
<1>2. ASSUME BeaconInv, [ServerNext]_serverVars PROVE BeaconInv'
  <2>1. CASE SendBeacon
    BY <1>2, <2>1, WrittenLemma DEF SendBeacon, BeaconInv
  <2>2. CASE ~SendBeacon
    <3>1. UNCHANGED <<sent, heard, silent>>
      BY <1>2, <2>2 DEF ServerNext, serverVars, Serve, FillGUID, ListenStep, ListenFailed,
           StartBeacons, ContextEnds, Tick, SearchOverTCP, AcceptSearch, Listener, beaconVars
    <3> QED BY <1>2, <3>1 DEF BeaconInv, HeardUpTo
  <2> QED BY <2>1, <2>2
<1> QED BY <1>1, <1>2, BeaconSafe, PTL DEF ServerSpec

=============================================================================
