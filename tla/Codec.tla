-------------------------------- MODULE Codec --------------------------------
(***************************************************************************)
(* The messages of one connection, encoded with its one EncoderState and   *)
(* read by a client that uses package pvdata too.  The state of the        *)
(* encoder outlives a message, a failed one included; the client decodes   *)
(* the values of a request into what it made of the description in the     *)
(* answer to INIT.                                                         *)
(*                                                                         *)
(* A Send action is one call of SendApp, which encodes into a buffer and   *)
(* sends nothing if that fails.  The connection keeps the order and what   *)
(* the server sends does not depend on what the client has read, so one    *)
(* message at a time is under way.                                         *)
(***************************************************************************)
EXTENDS PVData

CONSTANTS
  Values,      \* what the channel may be set to (structures)
  Results,     \* what RPCs return
  MaxSets,     \* bound on the changes of the channel's value
  MaxSends     \* bound on the messages sent

ASSUME BoundsAssumption == MaxSets \in Nat /\ MaxSends \in Nat

VARIABLES
  enc,     \* [on, bits]: useChangedBitSet and changedBitSet.Present
  value,   \* the channel's value
  inited,  \* INIT has been answered with a description
  wire,    \* the message under way: [kind, sent, tokens], or NoMessage
  held,    \* the description the client has for the request
  heard,   \* [expected, intact]: the client could be expected to read the
           \* message read last; it has read all of it as it was sent
  read,    \* [intact, arg]: the server has read the client's message as it was
           \* sent; the PVRequest it holds
  sets,    \* the number of changes of value
  sends    \* the number of calls of SendApp

vars == <<enc, value, inited, wire, held, heard, read, sets, sends>>

----------------------------------------------------------------------------
(* The messages of package proto. *)

CHANNEL_INIT == 8
CHANNEL_MONITOR_PIPELINE_SUPPORT == 128
Flag(sub, bit) == sub & bit = bit

ID(name) == Field(name, Scalar(INT, 1))
Subcommand(sub) == Field("Subcommand", Scalar(BYTE, sub))
OK == Status(0, "", "")

ChannelResponseError(sub, status) ==
  Struct("", <<ID("RequestID"), Subcommand(sub), Field("Status", status)>>)

(* ChannelGetResponseInit and ChannelMonitorResponseInit. *)
ResponseInit(status, f) ==
  Struct("", <<ID("RequestID"), Subcommand(CHANNEL_INIT),
               TaggedField("Status", "breakonerror", 0, status), Field("PVStructureIF", f)>>)

ChannelGetResponse(status, v) ==
  Struct("", <<ID("RequestID"), Subcommand(0),
               TaggedField("Status", "breakonerror", 0, status), Field("Value", Diff(v))>>)

ChannelMonitorResponse(v) ==
  Struct("", <<ID("RequestID"), Subcommand(0), Field("Value", Diff(v)),
               Field("OverrunBitSet", BitSet(<<>>))>>)

ChannelRPCResponseInit(sub, status) ==
  Struct("", <<ID("RequestID"),
               TaggedField("Subcommand", "always", CHANNEL_INIT, Scalar(BYTE, sub)),
               Field("Status", status)>>)

ChannelRPCResponse(status, data) ==
  Struct("", <<ID("RequestID"), Subcommand(0),
               TaggedField("Status", "breakonerror", 0, status),
               Field("PVResponseData", Variant(data))>>)

CreateChannelResponse(status) ==
  Struct("", <<ID("ClientChannelID"), ID("ServerChannelID"),
               TaggedField("Status", "breakonerror", 0, status),
               Field("AccessRights", Scalar(SHORT, 0))>>)

SearchResponse(ids) ==
  Struct("", <<Field("GUID", Array(Scalar(UBYTE, 0), <<Scalar(UBYTE, 7)>>, TRUE)),
               Field("SearchSequenceID", Scalar(UINT, 3)),
               Field("ServerAddress", Array(Scalar(UBYTE, 0), <<Scalar(UBYTE, 255)>>, TRUE)),
               Field("ServerPort", Scalar(USHORT, 5075)), Field("Protocol", Text("tcp")),
               Field("Found", Scalar(BOOL, 1)),
               TaggedField("SearchInstanceIDs", "short", 0, Slice(Scalar(UINT, 0), ids))>>)

(* The argument of a monitor's INIT: the option record._options.pipeline.  *)
PVRequest(asked, ptr) ==
  LET Nested(name, v) == <<Field(name, [Struct("", v) EXCEPT !.ptr = ptr])>>
      option == <<Field("pipeline", Scalar(BOOL, IF asked THEN 1 ELSE 0))>>
  IN Struct("", Nested("record", Nested("_options", option)))

(* Mutant of FlaggedItems: PVRequest comes with the subcommand INIT only. *)
FlaggedItemsExact(sub, arg, nfree) ==
  (IF sub = CHANNEL_INIT THEN <<Variant(arg)>> ELSE <<>>)
  \o (IF Flag(sub, CHANNEL_MONITOR_PIPELINE_SUPPORT)
      THEN <<Scalar(INT, nfree), Scalar(INT, nfree)>> ELSE <<>>)

(* The items that ChannelMonitorRequest.PVDecode reads by the flags; a     *)
(* ChannelGetRequest has no pipeline flag.                                 *)
FlaggedItems(sub, arg, nfree) ==
  (IF Flag(sub, CHANNEL_INIT) THEN <<Variant(arg)>> ELSE <<>>)
  \o (IF Flag(sub, CHANNEL_MONITOR_PIPELINE_SUPPORT)
      THEN <<Scalar(INT, nfree), Scalar(INT, nfree)>> ELSE <<>>)

(* The items that ChannelMonitorRequest.PVEncode writes. *)
RequestItems(q) ==
  <<Scalar(INT, 1), Scalar(INT, 2), Scalar(UBYTE, q.sub)>>
  \o (IF Flag(q.sub, CHANNEL_INIT) THEN <<Variant(q.arg)>> ELSE <<>>)
  \o (IF Flag(q.sub, CHANNEL_MONITOR_PIPELINE_SUPPORT)
      THEN <<Scalar(INT, q.nfree), Scalar(INT, q.nfree)>> ELSE <<>>)

ChannelToCreate(name) ==
  Struct("", <<ID("ClientChannelID"), TaggedField("ChannelName", "bound", 500, Text(name))>>)

(* CreateChannelRequest.PVEncode: a short count, then the channels. *)
CreateItems(q) ==
  <<Scalar(SHORT, Len(q.names))>> \o [i \in DOMAIN q.names |-> ChannelToCreate(q.names[i])]

Encoder(on, bits) == [ok |-> TRUE, out |-> <<>>, on |-> on, bits |-> bits]
Decoder(tokens) == [ok |-> TRUE, in |-> tokens, on |-> FALSE, bits |-> <<>>, idx |-> 0]

(* What clients write: requests with any combination of flags, channels to *)
(* create, and fields on their own, with the zero values they are read     *)
(* into: scalars and sizes at their limits, bit sets, descriptions.        *)
Alone(v, zero) == [kind |-> "field", v |-> v, zero |-> zero]
Questions ==
  LET leaf == LET plain == {Desc(c) : c \in {LONG, STR, VARIANT_UNION, STR | VARIABLE_ARRAY}}
                           \cup {[Desc(LONG | FIXED_ARRAY) EXCEPT !.size = 3]}
              IN plain \cup {[f EXCEPT !.hasID = TRUE, !.id = 5] : f \in plain}
                       \cup {[f EXCEPT !.hasID = TRUE, !.id = 5, !.hasTag = TRUE, !.tag = 9] :
                                f \in plain}
      struct == {[Desc(STRUCT) EXCEPT !.type = type, !.fields = <<[name |-> "a", f |-> f]>> \o more] :
                   type \in {"", "alarm_t"}, f \in leaf,
                   more \in {<<>>, <<[name |-> "b", f |-> [Desc(STRUCT) EXCEPT !.hasID = TRUE]]>>}}
      bytes(n) == Slice(Scalar(BYTE, 0), [i \in 1..n |-> Scalar(BYTE, i % 2)])
      limits(code) == LET half == Modulus(code) \div 2 IN {-half, -1, 0, half - 1}
  IN [kind : {"monitor"}, sub : {0, 4, 8, 16, 68, 72, 128, 136, 132, 196},
      arg : {PVRequest(asked, FALSE) : asked \in BOOLEAN}, nfree : {0, 3}]
     \cup [kind : {"create"}, names : {<<>>, <<"a">>, <<"ab", "">>}]
     \cup {Alone(f, Desc(NULL_TYPE_CODE)) : f \in leaf \cup struct}
     \cup {Alone(BitSet(present), BitSet(<<>>)) : present \in BitSeqs(2 * WordBits)}
     \cup {Alone(bytes(n), bytes(0)) : n \in {size \in Sizes : size >= 0}}
     \cup UNION {{Alone(Scalar(code, n), Scalar(code, 0)) : n \in limits(code)} :
                   code \in {BYTE, SHORT, INT, LONG}}

Written(q) ==
  CASE q.kind = "monitor" -> RequestItems(q)
    [] q.kind = "create" -> CreateItems(q)
    [] q.kind = "field" -> <<q.v>>

(* What PVDecode reads of the message first, and after it has seen that.   *)
ReadFirst(q) ==
  CASE q.kind = "monitor" -> <<Scalar(INT, 0), Scalar(INT, 0), Scalar(UBYTE, 0)>>
    [] q.kind = "create" -> <<Scalar(SHORT, 0)>>
    [] q.kind = "field" -> <<q.zero>>
ReadThen(q, first) ==
  CASE q.kind = "monitor" -> FlaggedItems(first[3].n, Nil, 0)
    [] q.kind = "create" -> [i \in 1..first[1].n |-> ChannelToCreate("")]
    [] q.kind = "field" -> <<>>

(* Statuses that handlers answer with, errors by errorToStatus among them. *)
Warning == Status(WARNING, "w", "")
Fatal == Status(3, "no", "")
FoundIDs == {<<>>, <<Scalar(UINT, 1), Scalar(UINT, 2)>>}

----------------------------------------------------------------------------
NoMessage == [kind |-> "none", sent |-> Nil, tokens |-> <<>>]

Init ==
  /\ enc = [on |-> FALSE, bits |-> <<>>]
  /\ value \in Values
  /\ inited = FALSE
  /\ wire = NoMessage
  /\ held = NoDesc
  /\ heard = [expected |-> FALSE, intact |-> FALSE]
  /\ read = [intact |-> TRUE, arg |-> Nil]
  /\ sets = 0
  /\ sends = 0

(* The description in the answer to INIT.  NewPVStructure drops the ID. *)
Interface(v) == Describe([v EXCEPT !.id = ""])

(* A description without the sizes that are not encoded. *)
RECURSIVE OnWire(_)
OnWire(f) ==
  [f EXCEPT !.size = IF Sized(f.code) THEN @ ELSE 0,
            !.fields = [i \in DOMAIN @ |-> [@[i] EXCEPT !.f = OnWire(@)]]]

(* The descriptions that PVDecode reads to their end: none of an array of  *)
(* structures, unions or variants, of a bounded string or by ID alone.     *)
RECURSIVE Readable(_)
Readable(f) ==
  /\ f.code < STRUCT \/ f.code \in {STRUCT, UNION_CODE, VARIANT_UNION, NULL_TYPE_CODE}
  /\ f.hasID => f.code # NULL_TYPE_CODE
  /\ \A i \in DOMAIN f.fields : Readable(f.fields[i].f)

(* The client can read the description and make a zero value for what the  *)
(* message brings, and the value still has the type that INIT described.   *)
Expected(msg) ==
  LET f == FieldOf(msg, "PVStructureIF")
      v == FieldOf(msg, "Value")
      data == FieldOf(msg, "PVResponseData")
  IN /\ f # Nil => Readable(f)
     /\ v # Nil => /\ held # NoDesc /\ CreateZero(held) # Opaque
                   /\ OnWire(Interface(v.value)) = held
     /\ data # Nil => LET g == Describe(data.data) IN Readable(g) /\ CreateZero(g) # Opaque

(* A value as a reader sees it: what is omitted or not reached is gone. *)
RECURSIVE Plain(_)
Plain(v) ==
  CASE v.k = "scalar" -> <<v.k, v.code, v.n>>
    [] v.k \in {"string", "bounded"} -> <<"string", v.str>>
    [] v.k = "array" -> <<v.k, [i \in DOMAIN v.elems |-> Plain(v.elems[i])]>>
    [] v.k = "struct" ->
         LET fields == FieldsWritten(v.fields)
         IN <<v.k, [i \in DOMAIN fields |-> <<fields[i].name, Plain(WithOptions(fields[i]))>>]>>
    [] v.k = "any" -> <<v.k, Plain(v.data)>>
    [] v.k = "diff" -> <<v.k, Plain(v.value)>>
    [] v.k = "desc" -> <<v.k, OnWire(v)>>
    [] v.k = "bitset" -> <<v.k, Trimmed(v.present)>>
    [] OTHER -> <<v.k, v>>

(* What the client decodes a message into: structures for the kind of the  *)
(* message and, for a value, what it makes of the description it holds.    *)
Target(kind) ==
  LET zero == CreateZero(held)
  IN CASE kind = "init" -> ResponseInit(OK, Desc(NULL_TYPE_CODE))
       [] kind = "get" -> ChannelGetResponse(OK, zero)
       [] kind = "monitor" -> ChannelMonitorResponse(zero)
       [] kind = "rpc_init" -> ChannelRPCResponseInit(0, OK)
       [] kind = "rpc" -> ChannelRPCResponse(OK, Nil)
       [] kind = "create" -> CreateChannelResponse(OK)
       [] kind = "search" -> SearchResponse(<<>>)

(* The client has decoded the message under way with result r. *)
Heard(r) ==
  LET f == FieldOf(r.v, "PVStructureIF")
  IN /\ heard' = [expected |-> Expected(wire.sent),
                  intact |-> r.d.ok /\ r.d.in = <<>> /\ Plain(r.v) = Plain(wire.sent)]
     /\ held' = IF f # Nil /\ f.code # NULL_TYPE_CODE THEN f ELSE held

Receive ==
  /\ wire # NoMessage
  /\ Heard(Dec(Decoder(wire.tokens), Target(wire.kind)))
  /\ wire' = NoMessage
  /\ UNCHANGED <<enc, value, inited, read, sets, sends>>

(* The message was encoded with result r. *)
Encoded(kind, msg, r) ==
  /\ enc' = [on |-> r.on, bits |-> r.bits]
  /\ wire' = IF r.ok THEN [kind |-> kind, sent |-> msg, tokens |-> r.out] ELSE NoMessage

(* SendApp. *)
Send(kind, msg) ==
  /\ wire = NoMessage
  /\ sends < MaxSends
  /\ sends' = sends + 1
  /\ Encoded(kind, msg, Enc(Encoder(enc.on, enc.bits), msg))
  /\ UNCHANGED <<value, held, heard, read, sets>>

(* Set, which may change the type of the value. *)
Set(v) ==
  /\ sets < MaxSets
  /\ sets' = sets + 1
  /\ value' = v
  /\ UNCHANGED <<enc, inited, wire, held, heard, read, sends>>

(* The answer to INIT of a get or a monitor. *)
SendInit ==
  LET f == Interface(value)
  IN /\ inited' = (inited \/ f # NoDesc)
     /\ Send("init", IF f = NoDesc THEN ChannelResponseError(CHANNEL_INIT, Fatal)
                     ELSE ResponseInit(OK, f))

(* The answers of executions. *)
SendGet(status) ==
  /\ inited
  /\ Send("get", ChannelGetResponse(status, value))
  /\ UNCHANGED inited

SendGetError == Send("get", ChannelResponseError(0, Fatal)) /\ UNCHANGED inited

SendUpdate ==
  /\ inited
  /\ Send("monitor", ChannelMonitorResponse(value))
  /\ UNCHANGED inited

SendRPCInit(status) ==
  Send("rpc_init", ChannelRPCResponseInit(24, status)) /\ UNCHANGED inited

SendRPC(status, data) ==
  Send("rpc", ChannelRPCResponse(status, data)) /\ UNCHANGED inited

SendCreate(status) == Send("create", CreateChannelResponse(status)) /\ UNCHANGED inited

SendFound(ids) == Send("search", SearchResponse(ids)) /\ UNCHANGED inited

(* The server has decoded the message q with result r, having decoded the  *)
(* values first to begin with.                                             *)
Asked(q, first, r) ==
  LET got == first \o r.v
      sent == Written(q)
  IN read' = [intact |-> /\ r.d.ok /\ r.d.in = <<>> /\ Len(got) = Len(sent)
                         /\ \A i \in DOMAIN sent : Plain(got[i]) = Plain(sent[i]),
              arg |-> IF q.kind = "monitor" /\ r.v # <<>> /\ r.v[1].k = "any" THEN r.v[1].data
                      ELSE Nil]

AskedFirst(q, r) == Asked(q, r.v, DecAll(r.d, ReadThen(q, r.v)))

(* A message of the client, which the server reads.  Decoding leaves the   *)
(* state of the decoder as it found it, so messages are read alike at all  *)
(* times: they are taken before the first answer.                          *)
Ask(q) ==
  /\ sends = 0 /\ sets = 0
  /\ AskedFirst(q, DecAll(Decoder(EncAll(Encoder(FALSE, <<>>), Written(q)).out), ReadFirst(q)))
  /\ UNCHANGED <<enc, value, inited, wire, held, heard, sets, sends>>

Next ==
  \/ \E v \in Values : Set(v)
  \/ SendInit
  \/ \E status \in {OK, Warning, Fatal} : SendGet(status)
  \/ SendGetError
  \/ SendUpdate
  \/ \E status \in {OK, Fatal} : SendRPCInit(status)
  \/ \E status \in {OK, Fatal}, data \in Results : SendRPC(status, data)
  \/ \E status \in {OK, Fatal} : SendCreate(status)
  \/ \E ids \in FoundIDs : SendFound(ids)
  \/ Receive
  \/ \E q \in Questions : Ask(q)

Spec == Init /\ [][Next]_vars

----------------------------------------------------------------------------
(* Properties. *)

(* What the client reads is what was sent, to the last token: every answer *)
(* of the server, errors included, and every value of the type described   *)
(* in the answer to INIT, whatever was sent, or failed to be, before.      *)
Understood == heard.expected => heard.intact

(* The bytes of a message do not depend on the messages before it, though  *)
(* they leave useChangedBitSet and changedBitSet behind in the encoder.    *)
HistoryIndependent ==
  wire # NoMessage => wire.tokens = Enc(Encoder(FALSE, <<>>), wire.sent).out

(* The nodes of a description below its root. *)
RECURSIVE Nodes(_)
Nodes(f) ==
  IF f.code = STRUCT THEN Len(f.fields) + FoldLeft(LAMBDA n, g : n + Nodes(g.f), 0, f.fields)
  ELSE 0

(* The nodes of the structures in v's variants, by the description that    *)
(* each variant brings along.                                              *)
RECURSIVE Carried(_)
Carried(v) ==
  CASE v.k = "struct" -> FoldLeft(LAMBDA n, f : n + Carried(f.v), 0, v.fields)
    [] v.k = "any" /\ v.data # Nil -> Nodes(Describe(v.data)) + Carried(v.data)
    [] OTHER -> 0

(* The changed bits of a structure diff have one bit for each node of the  *)
(* description that INIT answers with and none for the elements of arrays. *)
(* PVAny passes useChangedBitSet on, so the nodes of the structures in     *)
(* variants have bits too, though that description does not have them: all *)
(* bits are set, and a client that walks the description finds each of its *)
(* nodes set, whichever node the server meant the bit for.                 *)
BitsFollowDescription ==
  LET r == Enc(Encoder(FALSE, <<>>), Diff(value))
  IN Interface(value) # NoDesc /\ r.ok =>
       r.bits = <<FALSE>> \o [i \in 1..(Nodes(Interface(value)) + Carried(value)) |-> TRUE]

(* Whatever combination of flags the subcommand of a get or monitor has,   *)
(* the server reads exactly the fields that the client wrote, to the last  *)
(* token, the request structure with its description included, and as many *)
(* channels as CREATE_CHANNEL asks for.  Type codes, IDs, tags and nested  *)
(* fields of descriptions, the longs and bytes of bit sets, sizes where    *)
(* their form changes and integers at their limits are read back too.      *)
ReadBack == read.intact

(* Of the option record._options.pipeline, monitor.New learns only if the  *)
(* structures on the way are held by pointer; in a request that came over  *)
(* the wire they are not, and any option nested in it goes unnoticed.      *)
OptionLookup ==
  LET path == <<"record", "_options", "pipeline">>
  IN read.arg # Nil =>
       /\ SubField(read.arg, path) = Nil /\ SubField(read.arg, <<"record">>) # Nil
       /\ \E asked \in BOOLEAN :
            LET byHand == PVRequest(asked, TRUE)
            IN Plain(read.arg) = Plain(byHand) /\ IsTrue(SubField(byHand, path)) = asked
============================================================================
