---------------------------- MODULE SearchProofs ----------------------------
(***************************************************************************)
(* Where search packets and replies go and what replies say, for any       *)
(* number of servers, providers, channels, clients and searches.  What the *)
(* two loops of Search collect is an induction over the providers and over *)
(* the channels, made with the least number that an interval lacks.        *)
(***************************************************************************)
EXTENDS Search, TLAPS, SequenceTheorems, WellFoundedInduction

----------------------------------------------------------------------------
(* Induction over an interval, and what FlattenSeq returns. *)

LEMMA LeastElement ==
  ASSUME NEW T, T \subseteq Nat, T # {}
  PROVE  \E x \in T : \A y \in T : x <= y
<1> DEFINE R == OpToRel(<, Nat)
<1>1. IsWellFoundedOn(R, Nat)
  BY NatLessThanWellFounded
<1>2. \A x, y \in Nat : y < x => <<y, x>> \in R
  BY DEF OpToRel
<1> HIDE DEF R
<1>3. PICK x \in T : \A y \in T : <<y, x>> \notin R
  BY <1>1, WFMin
<1>4. ASSUME NEW y \in T PROVE x <= y
  <2>1. x \in Nat /\ y \in Nat /\ ~(y < x)
    BY <1>2, <1>3
  <2> QED BY <2>1
<1> QED BY <1>4

LEMMA IntervalInduction ==
  ASSUME NEW n \in Nat \ {0}, NEW S, 1 \in S,
         \A i \in 1..n : i \in S /\ i < n => i + 1 \in S
  PROVE  n \in S
<1> SUFFICES ASSUME n \notin S PROVE FALSE
  OBVIOUS
<1> DEFINE T == (1..n) \ S
<1>1. n \in T /\ T \subseteq Nat
  OBVIOUS
<1>2. PICK x \in T : \A y \in T : x <= y
  <2> HIDE DEF T
  <2> QED BY <1>1, LeastElement
<1>3. x \in 2..n
  OBVIOUS
<1>4. x - 1 \in 1..n /\ x - 1 < n /\ (x - 1) + 1 = x /\ ~(x <= x - 1)
  BY <1>3
<1>5. x - 1 \in S
  BY <1>2, <1>4
<1> QED BY <1>2, <1>4, <1>5

LEMMA FlattenRecursion ==
  ASSUME NEW s, NEW n \in Nat \ {0}
  PROVE  LET flatten[i \in 1..n] == IF i = 1 THEN s[i] ELSE flatten[i-1] \o s[i]
         IN  flatten = [i \in 1..n |-> IF i = 1 THEN s[i] ELSE flatten[i-1] \o s[i]]
<1> DEFINE Flat(g, k) == g = [i \in 1..k |-> IF i = 1 THEN s[i] ELSE g[i-1] \o s[i]]
           S == {k \in 1..n : \E g : Flat(g, k)}
<1>1. 1 \in S
  <2> DEFINE g == [i \in 1..1 |-> s[1]]
  <2>1. Flat(g, 1)
    OBVIOUS
  <2> HIDE DEF Flat, g
  <2> QED BY <2>1
<1>2. ASSUME NEW k \in 1..n, k \in S, k < n PROVE k + 1 \in S
  <2>1. PICK g : Flat(g, k)
    BY <1>2
  <2> DEFINE h == [i \in 1..(k+1) |-> IF i = k + 1 THEN g[k] \o s[k+1] ELSE g[i]]
  <2>2. ASSUME NEW i \in 1..(k+1) 
        PROVE  h[i] = IF i = 1 THEN s[i] ELSE h[i-1] \o s[i]
    <3>1. CASE i = k + 1
      <4>1. k \in 1..(k+1) /\ k # k + 1 /\ i # 1 /\ i - 1 = k
        BY <3>1
      <4>2. h[i] = g[k] \o s[k+1] /\ h[k] = g[k]
        BY <3>1, <4>1
      <4> HIDE DEF h, Flat
      <4> QED BY <3>1, <4>1, <4>2
    <3>2. CASE i # k + 1
      <4>1. i \in 1..k /\ (i # 1 => i - 1 \in 1..k)
        BY <3>2
      <4>2. g[i] = IF i = 1 THEN s[i] ELSE g[i-1] \o s[i]
        BY <2>1, <4>1
      <4>3. h[i] = g[i] /\ (i # 1 => h[i-1] = g[i-1])
        BY <4>1
      <4> QED BY <4>2, <4>3
    <3> QED BY <3>1, <3>2
  <2>3. Flat(h, k + 1)
    <3>1. h = [i \in 1..(k+1) |-> h[i]]
      OBVIOUS
    <3> HIDE DEF h
    <3> QED BY <2>2, <3>1
  <2>4. k + 1 \in 1..n
    BY <1>2
  <2> HIDE DEF Flat, h
  <2> QED BY <2>3, <2>4
<1>3. \E g : Flat(g, n)
  <2> HIDE DEF S
  <2>1. \A i \in 1..n : i \in S /\ i < n => i + 1 \in S
    BY <1>2
  <2>2. n \in S
    BY <1>1, <2>1, IntervalInduction
  <2> HIDE DEF Flat
  <2> QED BY <2>2 DEF S
<1>4. Flat(CHOOSE g : Flat(g, n), n)
  <2> HIDE DEF Flat
  <2> QED BY <1>3
<1> QED BY <1>4

LEMMA FlattenStep ==
  ASSUME NEW s, NEW n \in Nat \ {0}
  PROVE  LET flatten[i \in 1..n] == IF i = 1 THEN s[i] ELSE flatten[i-1] \o s[i]
         IN  /\ flatten[1] = s[1]
             /\ \A i \in 1..n : i < n => flatten[i + 1] = flatten[i] \o s[i + 1]
<1> DEFINE flatten[i \in 1..n] == IF i = 1 THEN s[i] ELSE flatten[i-1] \o s[i]
<1>1. flatten = [i \in 1..n |-> IF i = 1 THEN s[i] ELSE flatten[i-1] \o s[i]]
  BY FlattenRecursion
<1> HIDE DEF flatten
<1>2. \A i \in 1..n : flatten[i] = IF i = 1 THEN s[i] ELSE flatten[i-1] \o s[i]
  BY <1>1
<1>3. flatten[1] = s[1]
  BY <1>2
<1>4. ASSUME NEW i \in 1..n, i < n PROVE flatten[i + 1] = flatten[i] \o s[i + 1]
  <2>1. i + 1 \in 1..n /\ i + 1 # 1 /\ (i + 1) - 1 = i
    BY <1>4
  <2> QED BY <1>2, <2>1
<1> QED BY <1>3, <1>4 DEF flatten

LEMMA FlattenRange ==
  ASSUME NEW T, NEW ss \in Seq(Seq(T))
  PROVE  /\ FlattenSeq(ss) \in Seq(T)
         /\ Range(FlattenSeq(ss)) = UNION {Range(ss[i]) : i \in 1..Len(ss)}
<1>1. CASE Len(ss) = 0
  <2>1. FlattenSeq(ss) = ss /\ ss = <<>>
    BY <1>1 DEF FlattenSeq
  <2> QED BY <2>1, <1>1 DEF Range
<1>2. CASE Len(ss) # 0
  <2> DEFINE n == Len(ss)
             flatten[i \in 1..n] == IF i = 1 THEN ss[i] ELSE flatten[i-1] \o ss[i]
             U(k) == UNION {Range(ss[i]) : i \in 1..k}
             S == {k \in 1..n : flatten[k] \in Seq(T) /\ Range(flatten[k]) = U(k)}
  <2>1. FlattenSeq(ss) = flatten[n]
    BY <1>2 DEF FlattenSeq
  <2>2. n \in Nat \ {0} /\ \A i \in 1..n : ss[i] \in Seq(T)
    BY <1>2
  <2>3. /\ flatten[1] = ss[1]
        /\ \A i \in 1..n : i < n => flatten[i + 1] = flatten[i] \o ss[i + 1]
    BY <2>2, FlattenStep
  <2> HIDE DEF flatten, n
  <2>4. 1 \in S
    <3>1. U(1) = Range(ss[1])
      OBVIOUS
    <3>2. 1 \in 1..n
      BY <2>2
    <3> QED BY <2>2, <2>3, <3>1, <3>2
  <2>5. ASSUME NEW k \in 1..n, k \in S, k < n PROVE k + 1 \in S
    <3>1. k + 1 \in 1..n
      BY <2>2, <2>5
    <3>2. U(k + 1) = U(k) \cup Range(ss[k + 1])
      <4>1. 1..(k + 1) = (1..k) \cup {k + 1}
        BY <2>2
      <4> HIDE DEF Range
      <4> QED BY <4>1
    <3>3. flatten[k + 1] = flatten[k] \o ss[k + 1]
      BY <2>3, <2>5
    <3>4. flatten[k] \in Seq(T) /\ Range(flatten[k]) = U(k) /\ ss[k + 1] \in Seq(T)
      BY <2>2, <2>5, <3>1
    <3>5. flatten[k + 1] \in Seq(T) /\ Range(flatten[k + 1]) = U(k + 1)
      <4> DEFINE f == flatten[k]
                 e == ss[k + 1]
      <4>1. f \in Seq(T) /\ e \in Seq(T)
        BY <3>4
      <4> HIDE DEF f, e
      <4>2. f \o e \in Seq(T) /\ Range(f \o e) = Range(f) \cup Range(e)
        BY <4>1, RangeConcatenation
      <4> HIDE DEF U
      <4> QED BY <3>2, <3>3, <3>4, <4>2 DEF f, e
    <3> QED BY <3>1, <3>5
  <2>6. n \in S
    <3> HIDE DEF S
    <3>1. \A i \in 1..n : i \in S /\ i < n => i + 1 \in S
      BY <2>5
    <3> QED BY <2>2, <2>4, <3>1, IntervalInduction
  <2> QED BY <2>1, <2>6 DEF n
<1> QED BY <1>1, <1>2

----------------------------------------------------------------------------
(* Packets, and where they go. *)

Addresses == Clients \cup {Unspecified, Forwarder, Misplaced}

SearchChannels == Seq([id : Nat, name : Names \cup {"garbled"}])

Requests ==
  [flags : SUBSET {SEARCH_UNICAST, SEARCH_REPLY_REQUIRED},
   response : Addresses,
   channels : SearchChannels]

Packets ==
  [asker : Clients, asked : SearchChannels, to : Servers, from : Addresses,
   tag : {"none", "unspecified", "local", "foreign"}, hops : Nat, req : Requests]

(* What a server forwards is no longer unicast and no longer what was      *)
(* asked; what it did not forward names its client, or comes from it.      *)
Routed(pkt) ==
  \/ pkt.hops = 0 /\ ReplyAddress(pkt) = pkt.asker /\ pkt.req.channels = pkt.asked
  \/ /\ pkt.hops = 1 /\ SEARCH_UNICAST \notin pkt.req.flags
     /\ \A i \in DOMAIN pkt.req.channels : pkt.req.channels[i] = Garbled

IInv ==
  /\ \A pkt \in net : pkt \in Packets /\ Routed(pkt)
  /\ FirstHandRepliesReachAsker
  /\ RepliesTruthful

LEMMA ChannelsLemma ==
  ASSUME NEW names \in Asked
  PROVE  Channels(names) \in SearchChannels
<1>1. \/ names = <<>>
      \/ \E n, k \in Names : names = <<n>> \/ names = <<n, k>>
  BY DEF Asked
<1>2. CASE names = <<>>
  BY <1>2 DEF Channels, SearchChannels
<1>3. ASSUME NEW n \in Names, NEW k \in Names, names = <<n>> \/ names = <<n, k>>
      PROVE  Channels(names) \in SearchChannels
  <2>1. CASE names = <<n>>
    <3>1. DOMAIN names = 1..1 /\ names[1] = n
      BY <2>1
    <3> QED BY <3>1 DEF Channels, SearchChannels
  <2>2. CASE names = <<n, k>>
    <3>1. DOMAIN names = 1..2 /\ names[1] = n /\ names[2] = k
      BY <2>2
    <3> QED BY <3>1 DEF Channels, SearchChannels
  <2> QED BY <1>3, <2>1, <2>2
<1> QED BY <1>1, <1>2, <1>3

(* A search as a client sends it, or a server of another make forwards it. *)
LEMMA SentLemma ==
  ASSUME NEW c \in Clients, NEW s \in Servers, NEW from \in {c, Forwarder},
         NEW tag \in {"none", "unspecified", "local", "foreign"},
         NEW flags \in SUBSET {0, 7}, NEW response \in {Unspecified, c},
         NEW names \in Asked,
         response = Unspecified => from = c
  PROVE  LET pkt == Packet(c, s, from, tag, flags, response, names)
         IN  pkt \in Packets /\ Routed(pkt)
<1> DEFINE pkt == Packet(c, s, from, tag, flags, response, names)
<1>1. pkt \in Packets
  BY ChannelsLemma DEF Packet, Packets, Requests, Addresses, SEARCH_UNICAST,
                       SEARCH_REPLY_REQUIRED
<1>2. /\ pkt.hops = 0 /\ pkt.asker = c /\ pkt.from = from /\ pkt.req.response = response
      /\ pkt.req.channels = pkt.asked
  BY DEF Packet
<1>3. ReplyAddress(pkt) = c
  BY <1>2, ClientsAssumption DEF ReplyAddress
<1> QED BY <1>1, <1>2, <1>3 DEF Routed

(* A packet that is forwarded was not forwarded before. *)
LEMMA ForwardedLemma ==
  ASSUME NEW pkt \in Packets, Routed(pkt), NEW q \in Forwarded(pkt)
  PROVE  q \in Packets /\ Routed(q)
<1>1. SEARCH_UNICAST \in pkt.req.flags /\ pkt.hops = 0
  BY DEF Forwarded, Routed
<1>2. PICK s \in Servers :
        q = [pkt EXCEPT !.to = s, !.from = Forwarder, !.tag = "unspecified", !.hops = @ + 1,
                        !.req = ForwardedRequest(pkt.req, pkt.from)]
  BY <1>1 DEF Forwarded
<1>3. /\ ForwardedRequest(pkt.req, pkt.from) \in Requests
      /\ SEARCH_UNICAST \notin ForwardedRequest(pkt.req, pkt.from).flags
      /\ \A i \in DOMAIN ForwardedRequest(pkt.req, pkt.from).channels :
           ForwardedRequest(pkt.req, pkt.from).channels[i] = Garbled
  <2> DEFINE r == pkt.req
             chs == [i \in DOMAIN r.channels |-> Garbled]
  <2>1. r \in Requests
    BY DEF Packets
  <2>2. chs \in SearchChannels
    BY <2>1 DEF Requests, Garbled, SearchChannels
  <2>3. ForwardedRequest(r, pkt.from) =
          [r EXCEPT !.flags = r.flags \ {SEARCH_UNICAST},
                    !.response = IF r.response = Unspecified THEN Misplaced ELSE r.response,
                    !.channels = chs]
    BY DEF ForwardedRequest
  <2> HIDE DEF r, chs
  <2> DEFINE f == ForwardedRequest(r, pkt.from)
  <2>4. /\ f.flags = r.flags \ {SEARCH_UNICAST} /\ f.channels = chs
        /\ f.response = IF r.response = Unspecified THEN Misplaced ELSE r.response
        /\ f = [flags |-> f.flags, response |-> f.response, channels |-> f.channels]
    BY <2>1, <2>3 DEF Requests
  <2>5. f \in Requests /\ SEARCH_UNICAST \notin f.flags
    BY <2>1, <2>2, <2>4 DEF Requests, Addresses
  <2>6. \A i \in DOMAIN f.channels : f.channels[i] = Garbled
    BY <2>4 DEF chs
  <2> QED BY <2>5, <2>6 DEF r
<1>4. q \in Packets /\ q.hops = 1 /\ q.req = ForwardedRequest(pkt.req, pkt.from)
  <2> DEFINE f == ForwardedRequest(pkt.req, pkt.from)
  <2>1. f \in Requests
    BY <1>3
  <2> HIDE DEF f
  <2>2. q = [asker |-> pkt.asker, asked |-> pkt.asked, to |-> s, from |-> Forwarder, tag |-> "unspecified",
             hops |-> pkt.hops + 1, req |-> f]
    BY <1>2 DEF Packets, f
  <2> QED BY <1>1, <2>1, <2>2 DEF Packets, Addresses, f
<1> QED BY <1>3, <1>4 DEF Routed

----------------------------------------------------------------------------
(* What a reply says. *)

LEMMA FoundLemma ==
  ASSUME NEW s \in Servers, NEW channels \in SearchChannels, NEW fails
  PROVE  /\ FoundIDs(s, channels, fails) \in Seq(Nat)
         /\ Range(FoundIDs(s, channels, fails)) =
              {channels[i].id : i \in Hits(s, channels, fails)}
<1> DEFINE n == Len(channels)
           answers(p) == [i \in DOMAIN channels |-> Answer(s, p, channels, i, fails)]
           found == [p \in Provs |-> FlattenSeq(answers(p))]
           reported(p) == {channels[i].id : i \in
                             {j \in DOMAIN channels :
                                channels[j].name \in Has[s][p] /\ <<p, j>> \notin fails}}
<1>1. n \in Nat /\ DOMAIN channels = 1..n /\ \A i \in 1..n : channels[i].id \in Nat
  <2>1. n \in Nat /\ DOMAIN channels = 1..n
    BY DEF SearchChannels
  <2> DEFINE R == [id : Nat, name : Names \cup {"garbled"}]
  <2>2. channels \in Seq(R)
    BY DEF SearchChannels
  <2>3. \A i \in 1..n : channels[i] \in R
    <3> HIDE DEF R
    <3> QED BY <2>2
  <2> QED BY <2>1, <2>3
<1>2. ASSUME NEW p \in Provs
      PROVE  FlattenSeq(answers(p)) \in Seq(Nat) /\ Range(FlattenSeq(answers(p))) = reported(p)
  <2>1. \A i \in 1..n : /\ Answer(s, p, channels, i, fails) \in Seq(Nat)
                        /\ Range(Answer(s, p, channels, i, fails)) =
                             IF channels[i].name \in Has[s][p] /\ <<p, i>> \notin fails
                             THEN {channels[i].id} ELSE {}
    BY <1>1 DEF Answer, Range
  <2>2. \A i \in 1..n : answers(p)[i] = Answer(s, p, channels, i, fails)
    BY <1>1
  <2>3. answers(p) \in Seq(Seq(Nat)) /\ Len(answers(p)) = n
    <3>1. answers(p) \in [1..n -> Seq(Nat)]
      <4> HIDE DEF n
      <4> QED BY <1>1, <2>1
    <3> HIDE DEF answers, n
    <3> QED BY <1>1, <3>1
  <2>4. /\ FlattenSeq(answers(p)) \in Seq(Nat)
        /\ Range(FlattenSeq(answers(p))) = UNION {Range(answers(p)[i]) : i \in 1..n}
    <3> HIDE DEF answers, n
    <3> QED BY <2>3, FlattenRange
  <2>5. UNION {Range(answers(p)[i]) : i \in 1..n} = reported(p)
    <3> HIDE DEF answers, n
    <3> QED BY <1>1, <2>1, <2>2
  <2> QED BY <2>4, <2>5
<1> HIDE DEF answers
<1>3. found \in Seq(Seq(Nat)) /\ Len(found) = NProviders
  BY <1>2, BoundsAssumption DEF Provs
<1>4. \A p \in Provs : found[p] = FlattenSeq(answers(p))
  OBVIOUS
<1>5. FoundIDs(s, channels, fails) = FlattenSeq(found)
  BY DEF FoundIDs, answers
<1> HIDE DEF found
<1>6. /\ FlattenSeq(found) \in Seq(Nat)
      /\ Range(FlattenSeq(found)) = UNION {Range(found[p]) : p \in Provs}
  BY <1>3, FlattenRange DEF Provs
<1>7. UNION {Range(found[p]) : p \in Provs} = UNION {reported(p) : p \in Provs}
  <2> HIDE DEF reported
  <2> QED BY <1>2, <1>4
<1>8. UNION {reported(p) : p \in Provs} = {channels[i].id : i \in Hits(s, channels, fails)}
  <2>1. ASSUME NEW p \in Provs, NEW x \in reported(p)
        PROVE  x \in {channels[i].id : i \in Hits(s, channels, fails)}
    BY <2>1 DEF Hits
  <2>2. ASSUME NEW i \in Hits(s, channels, fails)
        PROVE  \E p \in Provs : channels[i].id \in reported(p)
    BY <2>2 DEF Hits
  <2> HIDE DEF reported
  <2> QED BY <2>1, <2>2
<1> QED BY <1>5, <1>6, <1>7, <1>8

LEMMA TruthfulLemma ==
  ASSUME NEW s \in Servers, NEW channels \in SearchChannels, NEW fails
  PROVE  Truthful(SearchResponse(s, channels, fails), channels, Hits(s, channels, fails))
<1> DEFINE ids == FoundIDs(s, channels, fails)
           hits == Hits(s, channels, fails)
           resp == SearchResponse(s, channels, fails)
<1>1. ids \in Seq(Nat) /\ Range(ids) = {channels[i].id : i \in hits}
  BY FoundLemma
<1>2. /\ resp.found <=> ids # <<>>
      /\ resp.ids = IF ids = <<>> THEN AllIDs(channels) ELSE ids
  BY DEF SearchResponse
<1> HIDE DEF ids, hits, resp
<1>3. ids = <<>> <=> Range(ids) = {}
  BY <1>1 DEF Range
<1>4. ids = <<>> <=> hits = {}
  BY <1>1, <1>3
<1>5. Range(AllIDs(channels)) = {channels[i].id : i \in DOMAIN channels}
  BY DEF AllIDs, Range
<1> QED BY <1>1, <1>2, <1>4, <1>5 DEF Truthful, ids, hits, resp

----------------------------------------------------------------------------
LEMMA NextIInv == IInv /\ [Next]_vars => IInv'
<1> SUFFICES ASSUME IInv, [Next]_vars PROVE IInv'
  OBVIOUS
<1>1. CASE ClientSearch
  <2>1. UNCHANGED replies
    BY <1>1 DEF ClientSearch
  <2>2. PICK c \in Clients, required \in {{}, {0}}, names \in Asked :
          \/ \E s \in Servers, a \in {Unspecified, c} : SendUnicast(c, s, required, a, names)
          \/ \E a \in {Unspecified, c} : SendBroadcast(c, required, a, names)
          \/ \E tag \in {"unspecified", "local", "foreign"} : ForwardedByOther(c, tag, required, names)
    BY <1>1 DEF ClientSearch
  <2>3. ASSUME NEW q \in net', q \notin net PROVE q \in Packets /\ Routed(q)
    <3>1. CASE \E s \in Servers, a \in {Unspecified, c} : SendUnicast(c, s, required, a, names)
      <4>1. PICK s \in Servers, a \in {Unspecified, c} :
              q = Packet(c, s, c, "none", {7} \cup required, a, names)
        BY <2>3, <3>1 DEF SendUnicast
      <4>2. {7} \cup required \in SUBSET {0, 7}
        OBVIOUS
      <4> QED BY <4>1, <4>2, SentLemma
    <3>2. CASE \E a \in {Unspecified, c} : SendBroadcast(c, required, a, names)
      <4>1. PICK s \in Servers, a \in {Unspecified, c} :
              q = Packet(c, s, c, "none", required, a, names)
        BY <2>3, <3>2 DEF SendBroadcast
      <4>2. required \in SUBSET {0, 7}
        OBVIOUS
      <4> QED BY <4>1, <4>2, SentLemma
    <3>3. CASE \E tag \in {"unspecified", "local", "foreign"} :
                 ForwardedByOther(c, tag, required, names)
      <4>1. PICK s \in Servers, tag \in {"unspecified", "local", "foreign"} :
              q = Packet(c, s, Forwarder, tag, required, c, names)
        BY <2>3, <3>3 DEF ForwardedByOther
      <4>2. required \in SUBSET {0, 7} /\ c # Unspecified
        BY ClientsAssumption
      <4> QED BY <4>1, <4>2, SentLemma
    <3> QED BY <2>2, <3>1, <3>2, <3>3
  <2> QED BY <2>1, <2>3 DEF IInv, FirstHandRepliesReachAsker, RepliesTruthful
<1>2. ASSUME NEW pkt \in net, Ignore(pkt) \/ Lose(pkt) PROVE IInv'
  BY <1>2 DEF Ignore, Lose, IInv, FirstHandRepliesReachAsker, RepliesTruthful
<1>3. ASSUME NEW pkt \in net, NEW fails, Handle(pkt, fails) PROVE IInv'
  <2>1. \A q \in net' : q \in Packets /\ Routed(q)
    BY <1>3, ForwardedLemma DEF Handle, IInv
  <2>2. ASSUME NEW r \in replies', r \notin replies, r.pkt.hops = 0
        PROVE  r.to = r.pkt.asker
    <3>1. r.to = ReplyAddress(pkt) /\ r.pkt = pkt
      BY <1>3, <2>2 DEF Handle, Reply
    <3> QED BY <2>2, <3>1 DEF IInv, Routed
  <2>3. ASSUME NEW r \in replies', r \notin replies
        PROVE  IF r.pkt.hops = 0
               THEN Truthful(r.resp, r.pkt.asked, Hits(r.pkt.to, r.pkt.asked, r.fails))
               ELSE ~r.resp.found
    <3> DEFINE chs == pkt.req.channels
               hits == Hits(pkt.to, chs, fails)
    <3>1. r.pkt = pkt /\ r.fails = fails /\ r.resp = SearchResponse(pkt.to, chs, fails)
      BY <1>3, <2>3 DEF Handle, Reply
    <3>2. pkt.to \in Servers /\ chs \in SearchChannels /\ Routed(pkt)
      BY DEF IInv, Packets, Requests
    <3>3. Truthful(r.resp, chs, hits)
      BY <3>1, <3>2, TruthfulLemma
    <3>4. CASE pkt.hops = 0
      BY <3>1, <3>2, <3>3, <3>4 DEF Routed
    <3>5. CASE pkt.hops # 0
      <4>1. \A i \in DOMAIN chs : chs[i] = Garbled
        BY <3>2, <3>5 DEF Routed
      <4>2. \A p \in Provs : Garbled.name \notin Has[pkt.to][p]
        BY <3>2, HasAssumption, GarbledAssumption
      <4>3. hits = {}
        BY <4>1, <4>2 DEF Hits
      <4> QED BY <3>1, <3>3, <3>5, <4>3 DEF Truthful
    <3> QED BY <3>4, <3>5
  <2> QED BY <2>1, <2>2, <2>3 DEF IInv, FirstHandRepliesReachAsker, RepliesTruthful
<1>4. CASE UNCHANGED vars
  BY <1>4 DEF vars, IInv, FirstHandRepliesReachAsker, RepliesTruthful
<1> QED BY <1>1, <1>2, <1>3, <1>4 DEF Next

LEMMA Invariance == Spec => []IInv
<1>1. Init => IInv
  BY DEF Init, IInv, FirstHandRepliesReachAsker, RepliesTruthful
<1> QED BY <1>1, NextIInv, PTL DEF Spec

(***************************************************************************)
(* Searches do not circulate among any number of servers of a host: a      *)
(* packet is forwarded at most once, since forwarding clears its flag.     *)
(***************************************************************************)
THEOREM NoLoop == Spec => []NoForwardingLoop
<1>1. IInv => NoForwardingLoop
  BY DEF IInv, Routed, Packets, NoForwardingLoop
<1> QED BY <1>1, Invariance, PTL

(***************************************************************************)
(* A reply to a packet that was not forwarded here reaches the client that *)
(* asked, if no client has the unspecified address.                        *)
(***************************************************************************)
THEOREM RepliesReachAsker == Spec => []FirstHandRepliesReachAsker
<1>1. IInv => FirstHandRepliesReachAsker
  BY DEF IInv
<1> QED BY <1>1, Invariance, PTL

(***************************************************************************)
(* What a response to a client's own packet says is true, for any          *)
(* providers and any search: "found" names the IDs of the channels asked   *)
(* for that some provider reported, each error costing no more than its    *)
(* own call, and "not found" names all.  What a server answers to a packet *)
(* forwarded here is never "found".                                        *)
(***************************************************************************)
THEOREM RepliesTrue == Spec => []RepliesTruthful
<1>1. IInv => RepliesTruthful
  BY DEF IInv
<1> QED BY <1>1, Invariance, PTL

=============================================================================
