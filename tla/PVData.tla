------------------------------- MODULE PVData -------------------------------
(***************************************************************************)
(* Package pvdata: values, their descriptions and their encoding.          *)
(*                                                                         *)
(* A value is what valueToPVField makes of a Go value, a record whose kind *)
(* k names the PVField: scalar, string, bounded, array, struct, any,       *)
(* status, desc, bitset, diff, time, or opaque for a Go value that no      *)
(* PVField fits.  A structure has fields [name, tag, v]; a tag is the pair *)
(* of a key and a number (<<"bound", 500>>), a field of the code has at    *)
(* most one.  An array carries the zero value of its element type (elem),  *)
(* a structure whether its Go value is a pointer to a PVStructure (ptr).   *)
(*                                                                         *)
(* The encoder's state s is [ok, out, on, bits]: no error so far, the      *)
(* tokens written, useChangedBitSet and changedBitSet.Present.  The        *)
(* decoder's d is [ok, in, on, bits, idx], idx being changedBitSetIndex.   *)
(* The definitions are recursive, as values are: this module is for TLC.   *)
(***************************************************************************)
EXTENDS PVPrimitives, SequencesExt, Bitwise

CONSTANT IntBits  \* the bits kept of integers wider than that, for TLC's sake

ASSUME IntBitsAssumption == IntBits \in 16..28

BOOL == 0
BYTE == 32
SHORT == 33
INT == 34
LONG == 35
UBYTE == 36
USHORT == 37
UINT == 38
ULONG == 39
FLOAT == 66
DOUBLE == 67
STR == 96
ARRAY_BITS == 24
VARIABLE_ARRAY == 8
FIXED_ARRAY == 24
BOUNDED_STRING == 134
STRUCT == 128
UNION_CODE == 129
VARIANT_UNION == 130
STRUCT_ARRAY == 136
UNION_ARRAY == 137
NULL_TYPE_CODE == 255
ONLY_ID_TYPE_CODE == 254
FULL_WITH_ID_TYPE_CODE == 253
FULL_TAGGED_ID_TYPE_CODE == 252

WARNING == 1

(* Bytes of the scalar types. *)
Width(code) ==
  CASE code \in {BOOL, BYTE, UBYTE} -> 1
    [] code \in {SHORT, USHORT} -> 2
    [] code \in {INT, UINT, FLOAT} -> 4
    [] code \in {LONG, ULONG, DOUBLE} -> 8
Scalars == {BOOL, BYTE, SHORT, INT, LONG, UBYTE, USHORT, UINT, ULONG, FLOAT, DOUBLE}

Scalar(code, n) == [k |-> "scalar", code |-> code, n |-> n]
Text(str) == [k |-> "string", str |-> str]
Bounded(str, bound) == [k |-> "bounded", str |-> str, bound |-> bound]
Array(elem, elems, fixed) ==
  [k |-> "array", elem |-> elem, elems |-> elems, fixed |-> fixed, short |-> FALSE]
Slice(elem, elems) == Array(elem, elems, FALSE)
Struct(id, fields) == [k |-> "struct", id |-> id, fields |-> fields, ptr |-> FALSE]
Variant(data) == [k |-> "any", data |-> data]
BitSet(present) == [k |-> "bitset", present |-> present]
Diff(v) == [k |-> "diff", value |-> v]
Time(seconds, nanoseconds, userTag) ==
  [k |-> "time", items |-> <<Scalar(LONG, seconds), Scalar(INT, nanoseconds), Scalar(INT, userTag)>>]
Opaque == [k |-> "opaque"]
Nil == [k |-> "nil"]

NoTag == <<"", 0>>
Field(name, v) == [name |-> name, tag |-> NoTag, v |-> v]
TaggedField(name, key, val, v) == [name |-> name, tag |-> <<key, val>>, v |-> v]

(* A field whose tag has omitifnil and whose value is a nil pointer. *)
Omitted(f) == f.tag[1] = "omitifnil" /\ f.v = Nil

(* breakonerror: the status in this field ends its structure. *)
Breaks(f) == f.tag[1] = "breakonerror" /\ f.v.type > WARNING

(* valueToPVField with the options of the field's tag. *)
WithOptions(f) ==
  CASE f.tag[1] = "always" /\ f.v.k = "scalar" -> [f.v EXCEPT !.n = f.tag[2]]
    [] f.tag[1] = "bound" /\ f.v.k = "string" -> Bounded(f.v.str, f.tag[2])
    [] f.tag[1] = "short" /\ f.v.k = "array" -> [f.v EXCEPT !.short = TRUE]
    [] OTHER -> f.v

----------------------------------------------------------------------------
(* Field descriptions. *)

Desc(code) ==
  [k |-> "desc", code |-> code, hasID |-> FALSE, hasTag |-> FALSE, id |-> 0, tag |-> 0,
   size |-> 0, type |-> "", fields |-> <<>>]
NoDesc == [Desc(NULL_TYPE_CODE) EXCEPT !.k = "error"]

(* valueToField and the FieldDesc methods.  Tags are not looked at but for *)
(* omitifnil; statuses, bit sets, descriptions and times have no FieldDesc. *)
RECURSIVE Describe(_)
Describe(v) ==
  CASE v.k = "scalar" -> Desc(v.code)
    [] v.k = "string" -> [Desc(STR) EXCEPT !.size = Len(v.str)]
    [] v.k = "bounded" -> [Desc(BOUNDED_STRING) EXCEPT !.size = v.bound]
    [] v.k = "any" -> Desc(VARIANT_UNION)
    [] v.k = "array" ->
         LET f == Describe(IF v.elems # <<>> THEN v.elems[1] ELSE v.elem)
         IN IF f = NoDesc THEN NoDesc
            ELSE IF v.fixed
            THEN [f EXCEPT !.code = @ | FIXED_ARRAY, !.size = Len(v.elems)]
            ELSE [f EXCEPT !.code = @ | VARIABLE_ARRAY]
    [] v.k = "struct" ->
         LET kept == SelectSeq(v.fields, LAMBDA f : ~Omitted(f))
             fields == [i \in DOMAIN kept |-> [name |-> kept[i].name, f |-> Describe(kept[i].v)]]
         IN IF \E i \in DOMAIN fields : fields[i].f = NoDesc THEN NoDesc
            ELSE [Desc(STRUCT) EXCEPT !.type = v.id, !.fields = fields]
    [] OTHER -> NoDesc

(* Whether the code is followed by a size. *)
Sized(code) == code & 16 = 16 \/ code = BOUNDED_STRING

(* What comes before the code of a description with an ID. *)
TypeID(f) ==
  CASE f.hasID /\ f.hasTag ->
         <<Byte(FULL_TAGGED_ID_TYPE_CODE), Token(2, f.id), Token(4, f.tag)>>
    [] f.hasID /\ ~f.hasTag -> <<Byte(FULL_WITH_ID_TYPE_CODE), Token(2, f.id)>>
    [] ~f.hasID -> <<>>

(* FieldDesc.PVEncode. *)
RECURSIVE DescEncode(_)
DescEncode(f) ==
  LET size == IF Sized(f.code) THEN SizeEncode(f.size) ELSE <<>>
      element == CASE f.code = STRUCT_ARRAY -> <<Byte(STRUCT)>>
                   [] f.code = UNION_ARRAY -> <<Byte(UNION_CODE)>>
                   [] OTHER -> <<>>
      fields == FoldLeft(LAMBDA out, g : out \o TextEncode(g.name) \o DescEncode(g.f),
                         <<>>, f.fields)
      structure == IF f.code & STRUCT = STRUCT
                   THEN TextEncode(f.type) \o SizeEncode(Len(f.fields)) \o fields
                   ELSE <<>>
  IN IF f.hasID /\ ~f.hasTag /\ f.code = NULL_TYPE_CODE
     THEN <<Byte(ONLY_ID_TYPE_CODE), Token(2, f.id)>>
     ELSE IF f.code \in {NULL_TYPE_CODE, VARIANT_UNION}
     THEN TypeID(f) \o <<Byte(f.code)>>
     ELSE TypeID(f) \o <<Byte(f.code)>> \o size \o element \o structure

(* The next step of decoding, where this one succeeded. *)
Then(r, step(_, _)) == IF r.ok THEN step(r.v, r.rest) ELSE Lost

(* The ID, the tag if there is one, and the code after them. *)
TypeIDDecode(tagged, in) ==
  Then(Read(2, in), LAMBDA id, rest :
    Then(IF tagged THEN Read(4, rest) ELSE Got(0, rest), LAMBDA tag, more :
      Then(Read(1, more), LAMBDA code, last :
        Got([Desc(code) EXCEPT !.hasID = TRUE, !.hasTag = tagged, !.id = id, !.tag = tag], last))))

(* FieldDesc.PVDecode.  An ID alone is not read; the descriptions of       *)
(* structure and union arrays stop after their code.                       *)
RECURSIVE DescDecode(_)
RECURSIVE DescFieldsDecode(_, _, _)

(* The n fields that are left of structure f. *)
DescFieldsDecode(f, n, in) ==
  IF n <= 0 THEN Got(f, in)
  ELSE Then(TextDecode(in), LAMBDA name, rest :
         Then(DescDecode(rest), LAMBDA g, more :
           DescFieldsDecode([f EXCEPT !.fields = Append(@, [name |-> name, f |-> g])], n - 1, more)))

(* What follows the code: a size, and the type and fields of a structure. *)
DescBodyDecode(f, in) ==
  Then(IF Sized(f.code) THEN SizeDecode(in) ELSE Got(0, in), LAMBDA size, rest :
    IF f.code \notin {STRUCT, UNION_CODE} THEN Got([f EXCEPT !.size = size], rest)
    ELSE Then(TextDecode(rest), LAMBDA type, more :
           Then(SizeDecode(more), LAMBDA n, last :
             DescFieldsDecode([f EXCEPT !.size = size, !.type = type], n, last))))

DescDecode(in) ==
  Then(Read(1, in), LAMBDA code, rest :
    CASE code \in {NULL_TYPE_CODE, VARIANT_UNION} -> Got(Desc(code), rest)
      [] code = ONLY_ID_TYPE_CODE -> Got([Desc(NULL_TYPE_CODE) EXCEPT !.hasID = TRUE], rest)
      [] code \in {FULL_WITH_ID_TYPE_CODE, FULL_TAGGED_ID_TYPE_CODE} ->
           Then(TypeIDDecode(code = FULL_TAGGED_ID_TYPE_CODE, rest), DescBodyDecode)
      [] OTHER -> DescBodyDecode(Desc(code), rest))

----------------------------------------------------------------------------
(* Encoding. *)

(* The values that the bytes of a scalar can have. *)
Modulus(code) == 2^Min({8 * Width(code), IntBits})

(* Integers go to the wire in two's complement, floats by their bits. *)
ScalarEncode(code, n) == Token(Width(code), n % Modulus(code))

Put(s, tokens) == [s EXCEPT !.out = @ \o tokens]
Failed(s) == [s EXCEPT !.ok = FALSE]

RECURSIVE Enc(_, _)

(* Encode(s, vs...): stops at the first error. *)
EncAll(s, vs) == FoldLeft(Enc, s, vs)

(* The elements of structure arrays are preceded by a byte. *)
EncElement(s, v) == Enc(IF v.k = "struct" THEN Put(s, <<Byte(1)>>) ELSE s, v)

(* Mutant of EncArray: elements contribute to the changed bits. *)
EncArrayCollects(s, v) ==
  LET n == Len(v.elems)
      size == IF v.fixed THEN <<>>
              ELSE IF v.short THEN <<ScalarEncode(USHORT, n)>> ELSE SizeEncode(n)
  IN FoldLeft(EncElement, Put(s, size), v.elems)

(* PVArray.PVEncode. *)
EncArray(s, v) ==
  LET n == Len(v.elems)
      size == IF v.fixed THEN <<>>
              ELSE IF v.short THEN <<ScalarEncode(USHORT, n)>> ELSE SizeEncode(n)
      r == FoldLeft(EncElement, [Put(s, size) EXCEPT !.on = FALSE], v.elems)
  IN [r EXCEPT !.on = @ \/ s.on]

(* One field of a structure. *)
EncField(s, f) ==
  LET pvf == WithOptions(f)
  IN CASE ~s.ok -> s
       [] s.ok /\ pvf.k = "opaque" -> Failed(s)
       [] s.ok /\ pvf.k # "opaque" ->
            Enc(IF s.on THEN [s EXCEPT !.bits = Append(@, TRUE)] ELSE s, pvf)

(* The fields that PVStructure.PVEncode gets to. *)
FieldsWritten(fields) ==
  LET last == Min({i \in DOMAIN fields : Breaks(fields[i])} \cup {Len(fields)})
  IN SelectSeq(SubSeq(fields, 1, last), LAMBDA f : ~Omitted(f))

(* A nil PVAny.Data is a NULL description; a value that cannot be described *)
(* cannot be encoded.                                                      *)
EncAny(s, v) ==
  CASE v.data = Nil -> Put(s, DescEncode(Desc(NULL_TYPE_CODE)))
    [] v.data # Nil /\ Describe(v.data) = NoDesc -> Failed(s)
    [] v.data # Nil /\ Describe(v.data) # NoDesc ->
         Enc(Put(s, DescEncode(Describe(v.data))), v.data)

(* Mutant of DiffStart: the bits are reset for the first diff only. *)
DiffStartKeepsBits(s) ==
  [s EXCEPT !.out = <<>>, !.on = TRUE, !.bits = IF s.on THEN @ ELSE <<FALSE>>]

(* The state in which the value of a PVStructureDiff is encoded, into a    *)
(* buffer of its own.                                                      *)
DiffStart(s) == [s EXCEPT !.out = <<>>, !.on = TRUE, !.bits = <<FALSE>>]

(* PVStructureDiff.PVEncode: the bits, then the value.  Neither the bits   *)
(* nor useChangedBitSet are reset afterwards.                              *)
EncDiff(s, v) ==
  LET r == Enc(DiffStart(s), v.value)
  IN [r EXCEPT !.out = IF r.ok THEN s.out \o BitSetEncode(r.bits) \o @ ELSE s.out]

Enc(s, v) ==
  CASE ~s.ok -> s
    [] s.ok /\ v.k = "scalar" -> Put(s, <<ScalarEncode(v.code, v.n)>>)
    [] s.ok /\ v.k = "string" -> Put(s, TextEncode(v.str))
    [] s.ok /\ v.k = "bounded" ->
         IF Len(v.str) > v.bound THEN Failed(s) ELSE Put(s, TextEncode(v.str))
    [] s.ok /\ v.k = "array" -> EncArray(s, v)
    [] s.ok /\ v.k = "struct" -> FoldLeft(EncField, s, FieldsWritten(v.fields))
    [] s.ok /\ v.k = "any" -> EncAny(s, v)
    [] s.ok /\ v.k = "status" -> Put(s, StatusEncode(v))
    [] s.ok /\ v.k = "desc" -> Put(s, DescEncode(v))
    [] s.ok /\ v.k = "bitset" -> Put(s, BitSetEncode(v.present))
    [] s.ok /\ v.k = "diff" -> EncDiff(s, v)
    [] s.ok /\ v.k = "time" -> EncAll(s, v.items)
    [] s.ok /\ v.k = "opaque" -> Failed(s)

----------------------------------------------------------------------------
(* Zero values: what a reader makes of a description. *)

(* The Go types of nt.go, which createZero takes for their type IDs.       *)
(* time.Time is a structure of fields that no PVField fits.                *)
NTTypes ==
  LET F(name, code) == Field(name, Scalar(code, 0))
      S(name) == Field(name, Text(""))
      enum == <<F("index", INT), Field("choices", Slice(Text(""), <<>>))>>
      limits == <<F("lowAlarmLimit", DOUBLE), F("lowWarningLimit", DOUBLE),
                  F("highWarningLimit", DOUBLE), F("highAlarmLimit", DOUBLE)>>
      severities == <<F("lowAlarmSeverity", INT), F("lowWarningSeverity", INT),
                      F("highWarningSeverity", INT), F("highAlarmSeverity", INT)>>
      alarmLimit == <<F("active", BOOL)>> \o limits \o severities \o <<F("hysteresis", DOUBLE)>>
  IN [enum_t |-> enum,
      time_t |-> <<Field("Time", Struct("", <<Field("wall", Opaque)>>)), F("UserTag", INT)>>,
      alarm_t |-> <<F("severity", INT), F("status", INT), S("message")>>,
      alarmLimit_t |-> alarmLimit,
      valueAlarm_t |-> alarmLimit,
      display_t |-> <<F("limitLow", DOUBLE), F("limitHigh", DOUBLE), S("description"), S("units"),
                      F("precision", INT), Field("enum", Struct("enum_t", enum))>>,
      control_t |-> <<F("limitLow", DOUBLE), F("limitHigh", DOUBLE), F("minStep", DOUBLE)>>]

(* FieldDesc.createZero; Opaque stands for its error. *)
RECURSIVE CreateZero(_)
CreateZero(f) ==
  CASE f.code = NULL_TYPE_CODE -> Nil
    [] f.code \in Scalars -> Scalar(f.code, 0)
    [] f.code = STR -> Text("")
    [] f.code = BOUNDED_STRING -> Bounded("", f.size)
    [] f.code = STRUCT /\ f.type \in DOMAIN NTTypes -> Struct(f.type, NTTypes[f.type])
    [] f.code = STRUCT /\ f.type \notin DOMAIN NTTypes ->
         LET zeros == [i \in DOMAIN f.fields |-> Field(f.fields[i].name, CreateZero(f.fields[i].f))]
         IN IF \E i \in DOMAIN zeros : zeros[i].v = Opaque THEN Opaque ELSE Struct(f.type, zeros)
    [] OTHER -> Opaque

----------------------------------------------------------------------------
(* Decoding into a value v, which supplies the types. *)

ScalarDecode(code, u) ==
  CASE code = BOOL -> IF u # 0 THEN 1 ELSE 0
    [] code \in {BYTE, SHORT, INT, LONG} /\ 2 * u >= Modulus(code) -> u - Modulus(code)
    [] OTHER -> u

(* The state after a primitive was read, and the value read. *)
Take(d, r, v) == [d |-> [d EXCEPT !.ok = r.ok, !.in = r.rest], v |-> v]
Stop(d, v) == [d |-> [d EXCEPT !.ok = FALSE], v |-> v]

(* The value that r has read, as Made makes it; v stays if nothing was read. *)
TakeAs(d, r, v, Made(_)) == IF r.ok THEN Take(d, r, Made(r.v)) ELSE Stop(d, v)

(* The result r of decoding the rest, with v decoded before it. *)
After(v, r) == [r EXCEPT !.v = <<v>> \o @]

RECURSIVE Dec(_, _)
RECURSIVE DecElements(_, _, _)
RECURSIVE DecFields(_, _, _)

(* Decode(s, vs...). *)
DecAll(d, vs) == DecElements(d, vs, Len(vs))

(* n values, decoded into the values vs one after the other. *)
DecElements(d, vs, n) ==
  LET r == Dec(d, Head(vs))
  IN IF n <= 0 \/ ~d.ok THEN [d |-> d, v |-> <<>>]
     ELSE After(r.v, DecElements(r.d, Tail(vs), n - 1))

(* PVArray.PVDecode: no byte is expected before a structure.  With the     *)
(* null size SetLen panics, which is a failure here: nothing is decoded.   *)
DecArray(d, v) ==
  LET n == IF v.fixed THEN Got(Len(v.elems), d.in)
           ELSE IF v.short THEN Read(Width(USHORT), d.in) ELSE SizeDecode(d.in)
      r == DecElements([d EXCEPT !.in = n.rest, !.on = FALSE], [i \in 1..n.v |-> v.elem], n.v)
  IN IF ~n.ok \/ n.v < 0 THEN Stop(d, v)
     ELSE [d |-> [r.d EXCEPT !.on = d.on], v |-> [v EXCEPT !.elems = r.v]]

(* The field of the Go structure that was decoded with the field's options. *)
Stored(f, v) ==
  CASE v.k = "bounded" /\ f.v.k = "string" -> [f EXCEPT !.v.str = v.str]
    [] v.k = "array" /\ f.v.k = "array" -> [f EXCEPT !.v.elems = v.elems]
    [] OTHER -> [f EXCEPT !.v = v]

(* Mutant of IsPresent: the bit of the structure is taken for its field's. *)
IsPresentLate(d, full, pvf) ==
  full \/ (pvf.k = "struct" /\ ~pvf.ptr) \/ Get(d.bits, d.idx - 1)

(* Whether the field that idx has come to is there to be decoded. *)
IsPresent(d, full, pvf) == full \/ (pvf.k = "struct" /\ ~pvf.ptr) \/ Get(d.bits, d.idx)

(* The fields of PVStructure.PVDecode after the first was decoded as r. *)
DecOthers(r, full, fields) ==
  LET f == Stored(Head(fields), r.v)
  IN IF ~r.d.ok \/ Breaks(f) THEN [d |-> r.d, v |-> <<f>> \o Tail(fields)]
     ELSE After(f, DecFields(r.d, full, Tail(fields)))

(* The fields of PVStructure.PVDecode; full is fullStruct. *)
DecFields(d, full, fields) ==
  LET pvf == WithOptions(Head(fields))
      at == IF d.on THEN [d EXCEPT !.idx = @ + 1] ELSE d
  IN IF fields = <<>> \/ ~d.ok THEN [d |-> d, v |-> fields]
     ELSE IF pvf.k = "opaque" THEN Stop(at, fields)
     ELSE DecOthers(IF IsPresent(at, full, pvf) THEN Dec(at, pvf) ELSE [d |-> at, v |-> pvf],
                    full, fields)

DecStruct(d, v) ==
  LET r == DecFields(d, ~d.on \/ Get(d.bits, d.idx), v.fields)
  IN [d |-> r.d, v |-> [v EXCEPT !.fields = r.v]]

(* The data of a PVAny, whose description was read as f. *)
DecData(d, f) ==
  LET zero == CreateZero(f.v)
      r == Dec([d EXCEPT !.in = f.rest], zero)
  IN CASE ~f.ok -> Stop(d, Variant(Nil))
       [] f.ok /\ f.v.code = NULL_TYPE_CODE -> Take(d, f, Variant(Nil))
       [] f.ok /\ f.v.code # NULL_TYPE_CODE ->
            IF zero = Opaque THEN Stop(d, Variant(Nil)) ELSE [d |-> r.d, v |-> Variant(r.v)]

DecAny(d) == DecData(d, DescDecode(d.in))

(* PVStructureDiff.PVDecode: pushChangedBitSet for the time of the value. *)
DecDiff(d, v) ==
  LET present == BitSetDecode(d.in)
      r == Dec([d EXCEPT !.in = present.rest, !.on = TRUE, !.bits = present.v, !.idx = 0], v.value)
  IN IF ~present.ok THEN Stop(d, v)
     ELSE [d |-> [r.d EXCEPT !.on = d.on, !.bits = d.bits, !.idx = d.idx], v |-> Diff(r.v)]

Dec(d, v) ==
  CASE ~d.ok -> [d |-> d, v |-> v]
    [] d.ok /\ v.k = "scalar" ->
         TakeAs(d, Read(Width(v.code), d.in), v,
                LAMBDA n : Scalar(v.code, ScalarDecode(v.code, n)))
    [] d.ok /\ v.k \in {"string", "bounded"} ->
         TakeAs(d, TextDecode(d.in), v, LAMBDA str : [v EXCEPT !.str = str])
    [] d.ok /\ v.k = "array" -> DecArray(d, v)
    [] d.ok /\ v.k = "struct" -> DecStruct(d, v)
    [] d.ok /\ v.k = "any" -> DecAny(d)
    [] d.ok /\ v.k = "status" ->
         TakeAs(d, StatusDecode(d.in), v, LAMBDA status : status)
    [] d.ok /\ v.k = "desc" -> TakeAs(d, DescDecode(d.in), v, LAMBDA f : f)
    [] d.ok /\ v.k = "bitset" -> TakeAs(d, BitSetDecode(d.in), v, BitSet)
    [] d.ok /\ v.k = "diff" -> DecDiff(d, v)
    [] d.ok /\ v.k = "time" ->
         LET r == DecAll(d, v.items) IN [d |-> r.d, v |-> [v EXCEPT !.items = r.v]]
    [] d.ok /\ v.k \in {"opaque", "nil"} -> Stop(d, v)

----------------------------------------------------------------------------
(* Looking fields up. *)

(* PVStructure.Field. *)
FieldOf(v, name) ==
  LET named == SelectSeq(v.fields, LAMBDA f : f.name = name)
  IN IF named = <<>> THEN Nil ELSE named[1].v

(* Mutant of SubField: the names after the first are not followed. *)
SubFieldFirst(v, names) == FieldOf(v, names[1])

(* PVStructure.SubField: only a pointer to a structure is descended into. *)
RECURSIVE SubField(_, _)
SubField(v, names) ==
  LET f == FieldOf(v, names[1])
  IN CASE f = Nil \/ Len(names) = 1 -> f
       [] OTHER -> IF f.k = "struct" /\ f.ptr THEN SubField(f, Tail(names)) ELSE Nil

(* BoolValue; FALSE also where the value is not a number or Boolean. *)
IsTrue(v) == v.k = "scalar" /\ v.code \notin {FLOAT, DOUBLE} /\ v.n # 0
============================================================================
