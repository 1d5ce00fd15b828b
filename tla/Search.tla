------------------------------- MODULE Search -------------------------------
(***************************************************************************)
(* Package internal/search: the search servers of one host and the search  *)
(* packets that reach them.  A packet may start with an ORIGIN_TAG.  A     *)
(* search whose unicast flag is set is first forwarded to the local        *)
(* multicast group, on which every server of the host listens, the         *)
(* forwarder too.  Handling a packet touches no shared state, so it is one *)
(* step; packets arrive in any order and may be lost.                      *)
(***************************************************************************)
EXTENDS Naturals, SequencesExt

CONSTANTS
  Servers,      \* the servers of the host
  NProviders,   \* the number of channel providers of a server
  Has,          \* Has[s][p]: the names that provider p of server s knows
  Names,        \* the channel names that clients ask for
  Clients,      \* the addresses of the clients
  MaxSearches   \* bound on the number of searches sent

Provs == 1..NProviders

ASSUME BoundsAssumption == NProviders \in Nat /\ MaxSearches \in Nat
ASSUME HasAssumption == Has \in [Servers -> [Provs -> SUBSET Names]]

VARIABLES
  net,      \* the packets under way to a server, each with what the client asked
  replies,  \* the SearchResponses sent
  searches  \* the number of searches sent so far

vars == <<net, replies, searches>>

(* Bits of SearchRequest.Flags, and the constants that proto.go has for them. *)
SEARCH_REPLY_REQUIRED == 7
SEARCH_UNICAST == 0

(* Addresses: the clients', and these. *)
Unspecified == "unspecified"
Forwarder == "forwarder"     \* another server of the host
Misplaced == "misplaced"     \* an IPv4 address in the first 4 of the 16 bytes

(* No client sends from the unspecified address. *)
ASSUME ClientsAssumption == Unspecified \notin Clients

(* A search instance whose encoding was garbled: its name is known to nobody. *)
Garbled == [id |-> 0, name |-> "garbled"]
ASSUME GarbledAssumption == Garbled.name \notin Names

Init ==
  /\ net = {}
  /\ replies = {}
  /\ searches = 0

----------------------------------------------------------------------------
(* Server.Search *)

(* The calls <<p, i>>, of a provider for a channel it knows, that may fail. *)
(* An error of one that does not know it makes no difference.              *)
Calls(s, channels) ==
  {call \in Provs \X DOMAIN channels : channels[call[2]].name \in Has[s][call[1]]}

(* What a provider contributes for channels[i]; the calls in fails return  *)
(* an error.                                                               *)
Answer(s, p, channels, i, fails) ==
  IF <<p, i>> \notin fails /\ channels[i].name \in Has[s][p] THEN <<channels[i].id>> ELSE <<>>

(* The IDs reported, provider after provider, channel after channel. *)
FoundIDs(s, channels, fails) ==
  FlattenSeq([p \in Provs |->
    FlattenSeq([i \in DOMAIN channels |-> Answer(s, p, channels, i, fails)])])

AllIDs(channels) == [i \in DOMAIN channels |-> channels[i].id]

(* Mutant of SearchResponse: Found is not reset. *)
SearchResponseFound(s, channels, fails) ==
  LET ids == FoundIDs(s, channels, fails)
  IN [found |-> TRUE, ids |-> IF ids = <<>> THEN AllIDs(channels) ELSE ids]

(* If nothing was found, the response lists every ID asked for. *)
SearchResponse(s, channels, fails) ==
  LET ids == FoundIDs(s, channels, fails)
  IN [found |-> ids # <<>>, ids |-> IF ids = <<>> THEN AllIDs(channels) ELSE ids]

----------------------------------------------------------------------------
(* Server.handleConnection, for one packet. *)

(* IsTappedIP: an ORIGIN_TAG is accepted if it names no address or one of  *)
(* this host.                                                              *)
TagAccepted(tag) == tag \in {"none", "unspecified", "local"}

(* Mutant of ForwardedRequest: the unicast flag is kept. *)
ForwardedStillUnicast(req, from) ==
  [req EXCEPT !.response = IF @ = Unspecified THEN Misplaced ELSE @,
              !.channels = [i \in DOMAIN @ |-> Garbled]]

(* The request as the group receives it: the unicast flag is cleared; the  *)
(* 4 bytes of the sender's address are copied to the front of the 16 of    *)
(* ResponseAddress; and each of the channels is encoded with a byte that   *)
(* the decoder takes for a part of it.                                     *)
ForwardedRequest(req, from) ==
  [req EXCEPT !.flags = @ \ {SEARCH_UNICAST},
              !.response = IF @ = Unspecified THEN Misplaced ELSE @,
              !.channels = [i \in DOMAIN @ |-> Garbled]]

Forwarded(pkt) ==
  IF SEARCH_UNICAST \notin pkt.req.flags THEN {}
  ELSE {[pkt EXCEPT !.to = s, !.from = Forwarder, !.tag = "unspecified", !.hops = @ + 1,
                    !.req = ForwardedRequest(pkt.req, pkt.from)] : s \in Servers}

(* Mutant of ReplyAddress: SetSendAddress is not called. *)
ReplyToSender(pkt) == pkt.from

ReplyAddress(pkt) ==
  IF pkt.req.response = Unspecified THEN pkt.from ELSE pkt.req.response

Reply(pkt, fails) ==
  [to |-> ReplyAddress(pkt), pkt |-> pkt, fails |-> fails,
   resp |-> SearchResponse(pkt.to, pkt.req.channels, fails)]

(* A list without IDs, of a search without channels, is sent only if a     *)
(* reply is required.                                                      *)
Sent(r) == r.resp.ids # <<>> \/ SEARCH_REPLY_REQUIRED \in r.pkt.req.flags

Handle(pkt, fails) ==
  /\ TagAccepted(pkt.tag)
  /\ net' = (net \ {pkt}) \cup Forwarded(pkt)
  /\ replies' = replies \cup {r \in {Reply(pkt, fails)} : Sent(r)}
  /\ UNCHANGED searches

Ignore(pkt) ==
  /\ ~TagAccepted(pkt.tag)
  /\ net' = net \ {pkt}
  /\ UNCHANGED <<replies, searches>>

(* UDP loses a packet, or a garbled one cannot be decoded. *)
Lose(pkt) ==
  /\ net' = net \ {pkt}
  /\ UNCHANGED <<replies, searches>>

----------------------------------------------------------------------------
(* Clients.  They set the flags as SearchRequest documents them: bit 7 if  *)
(* and only if the search is sent as unicast, bit 0 if a reply is required. *)

Channels(names) == [i \in DOMAIN names |-> [id |-> i, name |-> names[i]]]

Packet(c, s, from, tag, flags, response, names) ==
  [asker |-> c, asked |-> Channels(names), to |-> s, from |-> from, tag |-> tag, hops |-> 0,
   req |-> [flags |-> flags, response |-> response, channels |-> Channels(names)]]

SendUnicast(c, s, required, response, names) ==
  net' = net \cup {Packet(c, s, c, "none", {7} \cup required, response, names)}

SendBroadcast(c, required, response, names) ==
  net' = net \cup {Packet(c, s, c, "none", required, response, names) : s \in Servers}

(* A server of another make, on this host or on another one, forwards a    *)
(* search with its tag and the address of the client.                      *)
ForwardedByOther(c, tag, required, names) ==
  net' = net \cup {Packet(c, s, Forwarder, tag, required, c, names) : s \in Servers}

Asked == {<<>>} \cup {<<n>> : n \in Names} \cup {<<n, k>> : n, k \in Names}

ClientSearch ==
  /\ searches < MaxSearches
  /\ searches' = searches + 1
  /\ \E c \in Clients, required \in {{}, {0}}, names \in Asked :
       \/ \E s \in Servers, a \in {Unspecified, c} : SendUnicast(c, s, required, a, names)
       \/ \E a \in {Unspecified, c} : SendBroadcast(c, required, a, names)
       \/ \E tag \in {"unspecified", "local", "foreign"} : ForwardedByOther(c, tag, required, names)
  /\ UNCHANGED replies

Next ==
  \/ ClientSearch
  \/ \E pkt \in net :
       \/ Ignore(pkt) \/ Lose(pkt)
       \/ \E fails \in SUBSET Calls(pkt.to, pkt.req.channels) : Handle(pkt, fails)

Spec == Init /\ [][Next]_vars

----------------------------------------------------------------------------
(***************************************************************************)
(* Searches do not circulate: what a server has forwarded, and receives    *)
(* from the group like everybody else, is not forwarded again.             *)
(***************************************************************************)
NoForwardingLoop == \A pkt \in net : pkt.hops <= 1

(* The channels[i] that some provider knows and was able to report. *)
Hits(s, channels, fails) ==
  {i \in DOMAIN channels : \E p \in Provs :
     channels[i].name \in Has[s][p] /\ <<p, i>> \notin fails}

Truthful(resp, channels, hits) ==
  /\ resp.found <=> hits # {}
  /\ Range(resp.ids) = {channels[i].id : i \in IF hits = {} THEN DOMAIN channels ELSE hits}

(***************************************************************************)
(* A response to a packet that no server of this kind forwarded says       *)
(* "found" for exactly the IDs under which the client asked for a channel  *)
(* that some provider knows and was able to report, and "not found" only   *)
(* if there is none; then it lists every ID.  The response to a forwarded  *)
(* packet never says "found", whatever the client asked for: forwarding    *)
(* garbles the channels, and the server that knows one denies it.          *)
(***************************************************************************)
RepliesTruthful ==
  \A r \in replies :
    IF r.pkt.hops = 0
    THEN Truthful(r.resp, r.pkt.asked, Hits(r.pkt.to, r.pkt.asked, r.fails))
    ELSE ~r.resp.found

(***************************************************************************)
(* The response to a packet that no server of this kind forwarded goes to  *)
(* the client that asks, be it named in the packet or its sender.          *)
(***************************************************************************)
FirstHandRepliesReachAsker ==
  \A r \in replies : r.pkt.hops = 0 => r.to = r.pkt.asker

=============================================================================
