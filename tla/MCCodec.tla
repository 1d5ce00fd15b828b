------------------------------ MODULE MCCodec ------------------------------
(* Values for Codec: nested structures, the types of nt.go, arrays,        *)
(* variants with a scalar and with structures, an omitted field, a string  *)
(* beyond its bound and a time.                                            *)
EXTENDS Codec

Alarm(n, message) ==
  Struct("alarm_t", <<Field("severity", Scalar(INT, n)), Field("status", Scalar(INT, -n)),
                      Field("message", Text(message))>>)
Choice(n) ==
  Struct("enum_t", <<Field("index", Scalar(INT, n)),
                     Field("choices", Slice(Text(""), <<Text("off"), Text("")>>))>>)
Labelled(label) ==
  Struct("", <<Field("n", Scalar(SHORT, -3)), TaggedField("label", "bound", 2, Text(label)),
               Field("alarm", Alarm(1, ""))>>)

NTScalar == Struct("epics:nt/NTScalar:1.0", <<Field("value", Scalar(LONG, -2))>>)
Record ==
  Struct("", <<TaggedField("opt", "omitifnil", 1, Nil), Field("alarm", Alarm(2, "hi")),
               Field("choice", Choice(1)), Field("any", Variant(Scalar(INT, 5)))>>)
Table ==
  Struct("", <<Field("rows", Slice(NTScalar, <<NTScalar, NTScalar>>)), Field("alarm", Alarm(0, ""))>>)
Stamped == Struct("", <<Field("value", Scalar(BYTE, -1)), Field("timeStamp", Time(1, 2, 3))>>)
Wrapped ==
  Struct("", <<Field("any", Variant(Struct("", <<Field("inner", Variant(Alarm(3, ""))),
                                                 Field("n", Scalar(INT, 4))>>))),
               Field("after", NTScalar)>>)

MCValues == {NTScalar, Record, Table, Wrapped, Labelled("ab"), Labelled("abc"), Stamped}
MCResults == {Struct("", <<>>), Record, Stamped}
============================================================================
