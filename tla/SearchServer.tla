---------------------------- MODULE SearchServer ----------------------------
(***************************************************************************)
(* search.Server.Serve: it fills in the GUID, listens (UdpListener), then  *)
(* starts serveSearch and sends beacons until the context ends.            *)
(* pvaccess.Server.Serve runs it beside the TCP server, whose connections  *)
(* may ask for a search at any time.                                       *)
(*                                                                         *)
(* A beacon is known by its BeaconSequenceID, which MaxBeacons keeps from  *)
(* wrapping at 256.  Beacons go through a buffered writer: one that has    *)
(* failed to write accepts nothing more.                                   *)
(***************************************************************************)
EXTENDS UdpListener, FiniteSets

CONSTANTS
  Addresses,     \* the number of broadcast addresses
  startupCount,  \* beacons sent in short intervals (15)
  MaxBeacons     \* bound on the number of beacons

ASSUME BeaconsAssumption == {Addresses, startupCount, MaxBeacons} \subseteq Nat

VARIABLES
  guid,     \* s.GUID: "blank" or "set"
  serve,    \* Serve: "start", "listen", "beacons" or "returned"
  ticker,   \* its ticker: "none", "startup", "beacon" or "stopped"
  tick,     \* there is a tick in ticker.C
  sent,     \* beacon.BeaconSequenceID, and i
  heard,    \* heard[a]: the beacons sent to address a
  silent,   \* the buffered writer of beaconSender has failed
  blank     \* the networks on which a search was answered with a blank GUID

beaconVars == <<ticker, tick, sent, heard, silent>>
serverVars == <<vars, guid, serve, beaconVars, blank>>

ServerInit ==
  /\ Init
  /\ guid = "blank"
  /\ serve = "start"
  /\ ticker = "none"
  /\ tick = FALSE
  /\ sent = 0
  /\ heard = [a \in 1..Addresses |-> {}]
  /\ silent = FALSE
  /\ blank = {}

(* A step of the listener that Serve's variables have no part in. *)
Listener(A) == A /\ UNCHANGED <<guid, serve, beaconVars, blank>>

----------------------------------------------------------------------------
(* Mutant of FillGUID: the GUID is left for later. *)
FillGUIDLater ==
  /\ Running /\ serve = "start"
  /\ serve' = "listen"
  /\ UNCHANGED <<vars, guid, beaconVars, blank>>

(* There may be no randomness to be had. *)
FillGUID ==
  /\ Running /\ serve = "start"
  /\ \/ serve' = "listen" /\ guid' = "set"
     \/ serve' = "returned" /\ UNCHANGED guid
  /\ UNCHANGED <<vars, beaconVars, blank>>

ListenStep == serve = "listen" /\ Listener(Listen)

ListenFailed ==
  /\ Running /\ serve = "listen" /\ lpc = "failed"
  /\ serve' = "returned"
  /\ UNCHANGED <<vars, guid, beaconVars, blank>>

StartBeacons ==
  /\ Running /\ serve = "listen" /\ lpc = "listening"
  /\ serve' = "beacons"
  /\ ticker' = "startup"
  /\ UNCHANGED <<vars, guid, tick, sent, heard, silent, blank>>

Tick ==
  /\ Running /\ serve = "beacons"
  /\ ticker # "stopped" /\ ~tick
  /\ tick' = TRUE
  /\ UNCHANGED <<vars, guid, serve, ticker, sent, heard, silent, blank>>

(* Mutant of NextTicker: the slow ticker is not started. *)
NextTickerStops(n) == IF n = startupCount THEN "stopped" ELSE ticker

NextTicker(n) == IF n = startupCount THEN "beacon" ELSE ticker

(* Mutant of Written: an address that fails is passed over. *)
WrittenAround(n) ==
  /\ UNCHANGED silent
  /\ \E reached \in SUBSET (1..Addresses) :
       heard' = [a \in 1..Addresses |-> IF a \in reached THEN heard[a] \cup {n} ELSE heard[a]]

(* Conn.Write writes to one address after the other, until one fails. *)
Written(n) ==
  \/ silent /\ UNCHANGED <<heard, silent>>
  \/ /\ ~silent
     /\ \E last \in 0..Addresses :
          /\ heard' = [a \in 1..Addresses |-> IF a <= last THEN heard[a] \cup {n} ELSE heard[a]]
          /\ silent' = (last < Addresses)

(* The error of SendApp is dropped. *)
SendBeacon ==
  /\ Running /\ serve = "beacons" /\ tick
  /\ sent < MaxBeacons
  /\ tick' = FALSE
  /\ sent' = sent + 1
  /\ Written(sent')
  /\ ticker' = NextTicker(sent')
  /\ UNCHANGED <<vars, guid, serve, blank>>

ContextEnds ==
  /\ Running /\ serve = "beacons" /\ ctxDone
  /\ serve' = "returned"
  /\ UNCHANGED <<vars, guid, beaconVars, blank>>

----------------------------------------------------------------------------
(* Search: the GUID of the response is what s.GUID is now. *)
Answer(network) == blank' = IF guid = "blank" THEN blank \cup {network} ELSE blank

(* serveSearch and its handlers, which outlive Serve; a handler answers. *)
AcceptSearch(s) ==
  /\ serve \in {"beacons", "returned"}
  /\ Accept(s)
  /\ Answer("udp")
  /\ UNCHANGED <<guid, serve, beaconVars>>

(* handleSearchRequest of a TCP connection. *)
SearchOverTCP ==
  /\ Running
  /\ Answer("tcp")
  /\ UNCHANGED <<vars, guid, serve, beaconVars>>

----------------------------------------------------------------------------
Serve ==
  FillGUID \/ ListenStep \/ ListenFailed \/ StartBeacons \/ ContextEnds

ServerNext ==
  \/ Serve \/ Tick \/ SendBeacon \/ SearchOverTCP
  \/ Listener(CleanUp) \/ Listener(EndContext)
  \/ \E s \in Socks : Listener(Arrive(s) \/ ReadLoop(s)) \/ AcceptSearch(s)

(* As FairSpec of UdpListener, and the ticker ticks. *)
ServerSpec ==
  /\ ServerInit
  /\ [][ServerNext]_serverVars
  /\ WF_serverVars(Serve) /\ WF_serverVars(Tick) /\ WF_serverVars(SendBeacon)
  /\ WF_serverVars(Listener(CleanUp))
  /\ \A s \in Socks :
       /\ WF_serverVars(Listener(ReadPacket(s))) /\ WF_serverVars(Listener(SendPanics(s)))
       /\ WF_serverVars(Listener(~SocketOpen(s) /\ ReadFails(s)))
       /\ WF_serverVars(AcceptSearch(s))

----------------------------------------------------------------------------
(***************************************************************************)
(* Clients that find the server by UDP see one identity: no packet is      *)
(* answered before Serve has filled in the GUID.  A search over TCP may be *)
(* answered with a blank GUID, while Serve has not run, or if it fails.    *)
(***************************************************************************)
OneIdentityOverUDP == "udp" \notin blank

(***************************************************************************)
(* No address sees a gap in the sequence IDs, and no address is more than  *)
(* one beacon behind another, because the first failed write silences the  *)
(* sender for good and for every address.                                  *)
(***************************************************************************)
BeaconsWithoutGap ==
  \A a \in 1..Addresses :
    /\ heard[a] = 1..Cardinality(heard[a])
    /\ \A b \in 1..a : Cardinality(heard[b]) - Cardinality(heard[a]) \in {0, 1}
    /\ ~silent => Cardinality(heard[a]) = sent

(***************************************************************************)
(* Beacons go on past the change of tickers, and reach every address,      *)
(* until the context ends or a write fails; and when the context ends      *)
(* Serve returns, wherever it is, a failing Listen included: pvaccess's    *)
(* Serve waits for it.                                                     *)
(***************************************************************************)
BeaconsUntilTheEnd ==
  /\ (serve = "beacons") ~>
       (\A a \in 1..Addresses : MaxBeacons \in heard[a]) \/ silent \/ ctxDone \/ panicked
  /\ ctxDone ~> (serve = "returned" \/ panicked)

=============================================================================
