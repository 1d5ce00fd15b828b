-------------------------- MODULE ConnectionProofs --------------------------
(***************************************************************************)
(* The safety of Connection for every set of senders, alone and under the  *)
(* callers of SendPath.                                                    *)
(*                                                                         *)
(* The proof is about Out, what has been written in all: the socket's part *)
(* followed by the buffer's.  A write appends one token to Out, wherever   *)
(* it goes, and an error or a flush leaves Out as it is (WriterLemma).     *)
(* From there on the buffer matters only to CleanHandover.                 *)
(***************************************************************************)
EXTENDS SendPath, TLAPS, SequenceTheorems

Out == wire \o buf

Tokens == Sends \X {"head", "body"}

LEMMA TokenLemma ==
  ASSUME NEW m \in Sends
  PROVE  /\ HeadOf(m) \in Tokens /\ HeadOf(m)[1] = m /\ HeadOf(m)[2] = "head"
         /\ BodyOf(m) \in Tokens /\ BodyOf(m)[1] = m /\ BodyOf(m)[2] = "body"
BY DEF HeadOf, BodyOf, Tokens

OutTypes ==
  /\ wire \in Seq(Tokens) /\ buf \in Seq(Tokens)
  /\ stuck \in BOOLEAN

(* What the buffered writer may do with a token, and without one. *)
LEMMA WriterLemma ==
  ASSUME OutTypes
  PROVE  /\ Out \in Seq(Tokens)
         /\ \A t \in Tokens :
              Buffered(t) \/ WrittenThrough(<<t>>) =>
                ~stuck /\ OutTypes' /\ Out' = Append(Out, t)
         /\ WrittenThrough(<<>>) => ~stuck /\ OutTypes' /\ Out' = Out /\ buf' = <<>>
         /\ WriteError => stuck' /\ OutTypes' /\ Out' = Out
<1> USE DEF OutTypes
<1>1. Out \in Seq(Tokens)
  BY ConcatProperties DEF Out
<1>2. ASSUME NEW t \in Tokens, Buffered(t)
      PROVE  ~stuck /\ OutTypes' /\ Out' = Append(Out, t)
  <2>1. Append(buf, t) \in Seq(Tokens) /\ Append(buf, t) = buf \o <<t>> /\ <<t>> \in Seq(Tokens)
    BY AppendProperties, AppendIsConcat
  <2>2. wire \o (buf \o <<t>>) = (wire \o buf) \o <<t>>
    BY <2>1, ConcatAssociative
  <2>3. Append(Out, t) = Out \o <<t>>
    BY <1>1, AppendIsConcat
  <2> QED BY <1>2, <2>1, <2>2, <2>3 DEF Buffered, Out
<1>3. ASSUME NEW t \in Tokens, WrittenThrough(<<t>>)
      PROVE  ~stuck /\ OutTypes' /\ Out' = Append(Out, t)
  <2>1. Append(Out, t) = Out \o <<t>> /\ Append(Out, t) \in Seq(Tokens)
    BY <1>1, AppendIsConcat, AppendProperties
  <2>2. Append(Out, t) \o <<>> = Append(Out, t)
    BY <2>1, ConcatEmptySeq
  <2> QED BY <1>3, <2>1, <2>2 DEF WrittenThrough, Out
<1>4. ASSUME WrittenThrough(<<>>)
      PROVE  ~stuck /\ OutTypes' /\ Out' = Out /\ buf' = <<>>
  <2>1. Out \o <<>> = Out
    BY <1>1, ConcatEmptySeq
  <2> QED BY <1>1, <1>4, <2>1 DEF WrittenThrough, Out
<1>5. ASSUME WriteError
      PROVE  stuck' /\ OutTypes' /\ Out' = Out
  <2>1. CASE stuck
    BY <1>5, <2>1 DEF WriteError, outVars, Out
  <2>2. CASE ~stuck
    <3>1. PICK k \in 0..Len(buf) : /\ wire' = wire \o SubSeq(buf, 1, k)
                                   /\ buf' = SubSeq(buf, k + 1, Len(buf))
      BY <1>5, <2>2 DEF WriteError
    <3>2. Len(buf) \in Nat /\ \A i \in 1..Len(buf) : buf[i] \in Tokens
      BY LenProperties, ElementOfSeq
    <3>3. SubSeq(buf, 1, k) \in Seq(Tokens) /\ SubSeq(buf, k + 1, Len(buf)) \in Seq(Tokens)
      BY <3>2, SubSeqProperties
    <3>4. SubSeq(buf, 1, k) \o SubSeq(buf, k + 1, Len(buf)) = buf
      <4>1. 1 \in 1..(Len(buf) + 1) /\ k \in (1 - 1)..Len(buf) /\ Len(buf) \in k..Len(buf)
        BY <3>2
      <4>2. SubSeq(buf, 1, k) \o SubSeq(buf, k + 1, Len(buf)) = SubSeq(buf, 1, Len(buf))
        BY <4>1, ConcatAdjacentSubSeq
      <4> QED BY <4>2, SubSeqFull
    <3>5. (wire \o SubSeq(buf, 1, k)) \o SubSeq(buf, k + 1, Len(buf)) = wire \o buf
      <4> DEFINE x == SubSeq(buf, 1, k)
                 y == SubSeq(buf, k + 1, Len(buf))
      <4>1. wire \in Seq(Tokens) /\ x \in Seq(Tokens) /\ y \in Seq(Tokens)
        BY <3>3
      <4> HIDE DEF x, y
      <4>2. (wire \o x) \o y = wire \o (x \o y)
        BY <4>1, ConcatAssociative
      <4> QED BY <3>4, <4>2 DEF x, y
    <3>6. wire' \in Seq(Tokens)
      BY <3>1, <3>3, ConcatProperties
    <3>7. stuck' = TRUE
      BY <1>5, <2>2 DEF WriteError
    <3> QED BY <3>1, <3>3, <3>5, <3>6, <3>7 DEF Out
  <2> QED BY <2>1, <2>2
<1> QED BY <1>1, <1>2, <1>3, <1>4, <1>5

----------------------------------------------------------------------------
(* The inductive invariant. *)

SendTypes ==
  /\ OutTypes
  /\ pc \in [Sends -> {"unused", "lock", "head", "body", "flush", "done"}]
  /\ result \in [Sends -> {"nil", "error"}]
  /\ mu \in Sends \cup {Free}

(* encoderMu is held from the head to the flush. *)
Mutex == \A m \in Sends : mu = m <=> pc[m] \in {"head", "body", "flush"}

(* Nothing of a message is written before its head. *)
NotYetWritten ==
  \A m \in Sends : pc[m] \in {"unused", "lock", "head"} =>
    \A i \in DOMAIN Out : Out[i][1] # m

(* The message that is open, and none other, is the one whose body is due. *)
OpenEnd(s) == Len(s) > 0 /\ s[Len(s)][2] = "head" /\ s[Len(s)][1] \in Apps

BodyDue ==
  ~stuck => /\ \A m \in Sends : pc[m] = "body" => Len(Out) > 0 /\ Out[Len(Out)] = HeadOf(m)
            /\ OpenEnd(Out) => \E m \in Sends : pc[m] = "body"

(* An error ends its message, and until a write fails there is nothing of  *)
(* a message that ended so.                                                *)
OnlyGood ==
  /\ \A m \in Sends : pc[m] \in {"unused", "lock", "head", "body"} => result[m] = "nil"
  /\ ~stuck => \A i \in DOMAIN Out : result[Out[i][1]] = "nil"

Flushed == mu = Free /\ ~stuck => buf = <<>>

(* Whole frames, of any sequence of tokens. *)
Framed(s) ==
  \A i \in DOMAIN s :
    /\ s[i][2] = "head" /\ s[i][1] \in Apps /\ i < Len(s) => s[i + 1] = BodyOf(s[i][1])
    /\ s[i][2] = "body" => i > 1 /\ s[i - 1] = HeadOf(s[i][1])

SendInv ==
  /\ SendTypes /\ Mutex /\ NotYetWritten /\ BodyDue /\ OnlyGood /\ Flushed
  /\ Framed(Out)

(* A head may follow what is not an open end; a body its own head. *)
LEMMA FrameLemma ==
  ASSUME NEW s \in Seq(Tokens), Framed(s), NEW m \in Sends
  PROVE  /\ ~OpenEnd(s) => Framed(Append(s, HeadOf(m)))
         /\ Len(s) > 0 /\ s[Len(s)] = HeadOf(m) => Framed(Append(s, BodyOf(m)))
<1>1. Len(s) \in Nat /\ DOMAIN s = 1..Len(s)
  BY LenProperties
<1>2. ASSUME NEW t \in Tokens
      PROVE  /\ DOMAIN Append(s, t) = 1..(Len(s) + 1) /\ Len(Append(s, t)) = Len(s) + 1
             /\ \A i \in 1..Len(s) : Append(s, t)[i] = s[i]
             /\ Append(s, t)[Len(s) + 1] = t
  BY <1>1, AppendProperties, LenProperties
<1>3. ASSUME ~OpenEnd(s) PROVE Framed(Append(s, HeadOf(m)))
  <2> DEFINE a == Append(s, HeadOf(m))
  <2>1. /\ DOMAIN a = 1..(Len(s) + 1) /\ Len(a) = Len(s) + 1
        /\ \A i \in 1..Len(s) : a[i] = s[i]
        /\ a[Len(s) + 1] = HeadOf(m)
    BY <1>2, TokenLemma
  <2> HIDE DEF a
  <2>2. ASSUME NEW i \in 1..Len(s), s[i][2] = "head", s[i][1] \in Apps
        PROVE  i < Len(s)
    BY <1>1, <1>3, <2>2 DEF OpenEnd
  <2> SUFFICES ASSUME NEW i \in 1..(Len(s) + 1)
      PROVE  /\ a[i][2] = "head" /\ a[i][1] \in Apps /\ i < Len(a)
                  => a[i + 1] = BodyOf(a[i][1])
             /\ a[i][2] = "body" => i > 1 /\ a[i - 1] = HeadOf(a[i][1])
    BY <2>1 DEF Framed, a
  <2>3. CASE i = Len(s) + 1
    BY <2>1, <2>3, <1>1, TokenLemma
  <2>4. CASE i \in 1..Len(s)
    <3>1. s[i][2] = "head" /\ s[i][1] \in Apps => i + 1 \in 1..Len(s) /\ s[i + 1] = BodyOf(s[i][1])
      BY <1>1, <2>2, <2>4 DEF Framed
    <3>2. s[i][2] = "body" => i > 1 /\ i - 1 \in 1..Len(s) /\ s[i - 1] = HeadOf(s[i][1])
      BY <1>1, <2>4 DEF Framed
    <3> QED BY <2>1, <2>4, <3>1, <3>2
  <2> QED BY <1>1, <2>3, <2>4
<1>4. ASSUME Len(s) > 0, s[Len(s)] = HeadOf(m) PROVE Framed(Append(s, BodyOf(m)))
  <2> DEFINE a == Append(s, BodyOf(m))
  <2>1. /\ DOMAIN a = 1..(Len(s) + 1) /\ Len(a) = Len(s) + 1
        /\ \A i \in 1..Len(s) : a[i] = s[i]
        /\ a[Len(s) + 1] = BodyOf(m)
    BY <1>2, TokenLemma
  <2> HIDE DEF a
  <2> SUFFICES ASSUME NEW i \in 1..(Len(s) + 1)
      PROVE  /\ a[i][2] = "head" /\ a[i][1] \in Apps /\ i < Len(a)
                  => a[i + 1] = BodyOf(a[i][1])
             /\ a[i][2] = "body" => i > 1 /\ a[i - 1] = HeadOf(a[i][1])
    BY <2>1 DEF Framed, a
  <2>2. CASE i = Len(s) + 1
    BY <2>1, <2>2, <1>1, <1>4, TokenLemma
  <2>3. CASE i = Len(s)
    <3>1. s[i][2] = "body" => i > 1 /\ i - 1 \in 1..Len(s) /\ s[i - 1] = HeadOf(s[i][1])
      BY <1>1, <1>4, <2>3 DEF Framed
    <3> QED BY <2>1, <2>3, <1>1, <1>4, <3>1, TokenLemma
  <2>4. CASE i \in 1..(Len(s) - 1)
    <3>1. /\ s[i][2] = "head" /\ s[i][1] \in Apps => s[i + 1] = BodyOf(s[i][1])
          /\ s[i][2] = "body" => i > 1 /\ i - 1 \in 1..Len(s) /\ s[i - 1] = HeadOf(s[i][1])
      BY <1>1, <2>4 DEF Framed
    <3>2. i \in 1..Len(s) /\ i + 1 \in 1..Len(s)
      BY <1>1, <2>4
    <3> QED BY <2>1, <3>1, <3>2
  <2>5. i = Len(s) + 1 \/ i = Len(s) \/ i \in 1..(Len(s) - 1)
    <3>1. \A n \in Nat : \A j \in 1..(n + 1) : j = n + 1 \/ j = n \/ j \in 1..(n - 1)
      OBVIOUS
    <3> QED BY <1>1, <3>1
  <2> QED BY <2>2, <2>3, <2>4, <2>5
<1> QED BY <1>3, <1>4

LEMMA InitSend == Init => SendInv
<1> SUFFICES ASSUME Init PROVE SendInv
  OBVIOUS
<1>1. wire = <<>> /\ buf = <<>> /\ stuck \in BOOLEAN /\ mu = Free
  BY DEF Init
<1>2. Out = <<>> /\ Len(Out) = 0 /\ DOMAIN Out = {}
  BY <1>1 DEF Out
<1>3. pc = [m \in Sends |-> "unused"] /\ result = [m \in Sends |-> "nil"]
  BY DEF Init
<1>4. SendTypes
  BY <1>1, <1>3, EmptySeq DEF SendTypes, OutTypes
<1>5. Mutex
  BY <1>1, <1>3, SendsAssumption DEF Mutex, Sends
<1>6. NotYetWritten /\ OnlyGood /\ Flushed /\ Framed(Out)
  BY <1>1, <1>2, <1>3 DEF NotYetWritten, OnlyGood, Flushed, Framed
<1>7. BodyDue
  BY <1>2, <1>3 DEF BodyDue, OpenEnd
<1> QED BY <1>4, <1>5, <1>6, <1>7 DEF SendInv

(* A call joins the senders, or nothing happens to them. *)
LEMMA CallLemma ==
  ASSUME SendInv, NEW m \in Sends, Goto(m, "unused", "lock"), UNCHANGED <<mu, result, outVars>>
  PROVE  SendInv'
<1>1. Out' = Out /\ UNCHANGED <<wire, buf, stuck>>
  BY DEF Out, outVars
<1>2. SendTypes' /\ Mutex'
  BY <1>1 DEF SendInv, SendTypes, OutTypes, Mutex, Goto
<1>3. NotYetWritten' /\ BodyDue' /\ OnlyGood' /\ Flushed'
  BY <1>1 DEF SendInv, SendTypes, NotYetWritten, BodyDue, OnlyGood, Flushed, Goto, OpenEnd
<1> QED BY <1>1, <1>2, <1>3 DEF SendInv, Framed

LEMMA IdleLemma == SendInv /\ UNCHANGED sendVars => SendInv'
<1> SUFFICES ASSUME SendInv, UNCHANGED sendVars PROVE SendInv'
  OBVIOUS
<1>1. Out' = Out /\ UNCHANGED <<wire, buf, stuck, mu, pc, result>>
  BY DEF Out, sendVars, outVars
<1>2. SendTypes' /\ Mutex' /\ NotYetWritten' /\ OnlyGood' /\ Flushed'
  BY <1>1 DEF SendInv, SendTypes, OutTypes, Mutex, NotYetWritten, OnlyGood, Flushed
<1>3. BodyDue' /\ Framed(Out)'
  BY <1>1 DEF SendInv, BodyDue, OpenEnd, Framed
<1> QED BY <1>2, <1>3 DEF SendInv

(* The steps of SendApp and SendCtrl. *)
LEMMA LockStep ==
  ASSUME SendInv, NEW m \in Sends, Lock(m)
  PROVE  SendInv'
<1>1. Out' = Out /\ UNCHANGED <<wire, buf, stuck, result>> /\ mu' = m /\ mu = Free
  BY DEF Out, outVars, Lock
<1>2. pc[m] = "lock" /\ pc' = [pc EXCEPT ![m] = "head"]
  BY DEF Lock, Goto
<1>3. SendTypes'
  BY <1>1, <1>2 DEF SendInv, SendTypes, OutTypes
<1>4. Mutex'
  BY <1>1, <1>2, SendsAssumption DEF SendInv, SendTypes, Mutex, Sends
<1>5. NotYetWritten' /\ BodyDue' /\ OnlyGood' /\ Flushed'
  BY <1>1, <1>2, SendsAssumption DEF SendInv, SendTypes, NotYetWritten, BodyDue, OnlyGood,
     Flushed, OpenEnd, Sends
<1> QED BY <1>1, <1>3, <1>4, <1>5 DEF SendInv, Framed

(* A step that ends in the flush with an error and has written nothing. *)
LEMMA ErrorStep ==
  ASSUME SendInv, NEW m \in Sends, mu' = mu,
         pc[m] \in {"head", "body"}, pc' = [pc EXCEPT ![m] = "flush"],
         result' = [result EXCEPT ![m] = "error"],
         Out' = Out, OutTypes', stuck => stuck', stuck' \/ pc[m] = "head"
  PROVE  SendInv'
<1>1. SendTypes' /\ Mutex'
  BY DEF SendInv, SendTypes, Mutex
<1>2. NotYetWritten'
  BY DEF SendInv, SendTypes, NotYetWritten
<1>3. BodyDue'
  BY DEF SendInv, SendTypes, BodyDue, OpenEnd
<1>4. OnlyGood'
  BY DEF SendInv, SendTypes, OnlyGood, NotYetWritten
<1>5. mu = m /\ m # Free
  BY SendsAssumption DEF SendInv, Mutex, Sends
<1> QED BY <1>1, <1>2, <1>3, <1>4, <1>5 DEF SendInv, Framed, Flushed

(* A token of the message that holds encoderMu is added to Out. *)
LEMMA TokenStep ==
  ASSUME SendInv, NEW m \in Sends, mu' = mu, UNCHANGED result, ~stuck, ~stuck', OutTypes',
         NEW t \in Tokens, t[1] = m, Out' = Append(Out, t), Framed(Append(Out, t)),
         \/ /\ pc[m] = "head" /\ t = HeadOf(m)
            /\ pc' = [pc EXCEPT ![m] = IF m \in Apps THEN "body" ELSE "flush"]
         \/ /\ pc[m] = "body" /\ t = BodyOf(m)
            /\ pc' = [pc EXCEPT ![m] = "flush"]
  PROVE  SendInv'
<1>1. /\ Len(Out) \in Nat /\ DOMAIN Out = 1..Len(Out)
      /\ Len(Out') = Len(Out) + 1 /\ DOMAIN Out' = 1..(Len(Out) + 1)
      /\ \A i \in 1..Len(Out) : Out'[i] = Out[i]
      /\ Out'[Len(Out) + 1] = t
  <2>1. Out \in Seq(Tokens)
    BY WriterLemma DEF SendInv, SendTypes
  <2>2. Append(Out, t) \in Seq(Tokens)
    BY <2>1, AppendProperties
  <2> QED BY <2>1, <2>2, AppendProperties, LenProperties
<1>2. pc'[m] # pc[m] /\ \A n \in Sends : n # m => pc'[n] = pc[n]
  BY DEF SendInv, SendTypes
<1>3. mu = m /\ m # Free /\ result[m] = "nil"
  BY SendsAssumption DEF SendInv, Mutex, OnlyGood, Sends
<1>4. SendTypes' /\ Mutex'
  BY <1>3 DEF SendInv, SendTypes, Mutex
<1>5. NotYetWritten'
  <2> SUFFICES ASSUME NEW n \in Sends, pc'[n] \in {"unused", "lock", "head"},
                      NEW i \in 1..(Len(Out) + 1)
               PROVE  Out'[i][1] # n
    BY <1>1 DEF NotYetWritten
  <2>1. n # m
    BY <1>2 DEF SendInv, SendTypes
  <2>2. CASE i = Len(Out) + 1
    BY <1>1, <2>1, <2>2
  <2>3. CASE i \in 1..Len(Out)
    BY <1>1, <1>2, <2>1, <2>3 DEF SendInv, NotYetWritten
  <2> QED BY <1>1, <2>2, <2>3
<1>6. BodyDue'
  <2>1. \A n \in Sends : pc'[n] = "body" => n = m
    BY <1>2, <1>3 DEF SendInv, Mutex
  <2>2. pc'[m] = "body" => t = HeadOf(m)
    BY DEF SendInv, SendTypes
  <2>3. t[2] = "head" /\ m \in Apps => pc'[m] = "body"
    BY TokenLemma DEF SendInv, SendTypes
  <2> QED BY <1>1, <2>1, <2>2, <2>3 DEF BodyDue, OpenEnd
<1>7. OnlyGood'
  <2>1. \A n \in Sends : pc'[n] \in {"unused", "lock", "head", "body"} => result'[n] = "nil"
    BY <1>2, <1>3 DEF SendInv, OnlyGood
  <2>2. ASSUME NEW i \in 1..(Len(Out) + 1) PROVE result'[Out'[i][1]] = "nil"
    <3>1. CASE i = Len(Out) + 1
      BY <1>1, <1>3, <3>1
    <3>2. CASE i \in 1..Len(Out)
      BY <1>1, <3>2 DEF SendInv, OnlyGood
    <3> QED BY <1>1, <3>1, <3>2
  <2> QED BY <1>1, <2>1, <2>2 DEF OnlyGood
<1> QED BY <1>3, <1>4, <1>5, <1>6, <1>7 DEF SendInv, Flushed, Framed

LEMMA PutStep ==
  ASSUME SendInv, NEW m \in Sends, PutHead(m) \/ PutBody(m)
  PROVE  SendInv'
<1>1. OutTypes /\ Out \in Seq(Tokens) /\ Framed(Out)
  BY WriterLemma DEF SendInv, SendTypes
<1>2. CASE WriteError /\ result' = [result EXCEPT ![m] = "error"]
  <2>1. stuck' /\ OutTypes' /\ Out' = Out
    BY <1>1, <1>2, WriterLemma
  <2>2. pc[m] \in {"head", "body"} /\ pc' = [pc EXCEPT ![m] = "flush"] /\ mu' = mu
    <3>1. stuck'
      BY <2>1
    <3>2. ~Buffered(HeadOf(m)) /\ ~WrittenThrough(<<HeadOf(m)>>)
      BY <3>1 DEF Buffered, WrittenThrough
    <3> QED BY <3>2 DEF PutHead, PutBody, Goto
  <2> QED BY <1>2, <2>1, <2>2, ErrorStep
<1>3. CASE PutHead(m) /\ (Buffered(HeadOf(m)) \/ WrittenThrough(<<HeadOf(m)>>))
  <2>1. /\ ~stuck /\ OutTypes' /\ Out' = Append(Out, HeadOf(m))
        /\ HeadOf(m) \in Tokens /\ HeadOf(m)[1] = m
    BY <1>1, <1>3, WriterLemma, TokenLemma
  <2>2. ~stuck'
    BY <1>3, <2>1 DEF Buffered, WrittenThrough
  <2>3. ~WriteError
    BY <2>1, <2>2 DEF WriteError
  <2>4. /\ pc[m] = "head" /\ mu' = mu /\ UNCHANGED result
        /\ pc' = [pc EXCEPT ![m] = IF m \in Apps THEN "body" ELSE "flush"]
    BY <1>3, <2>3 DEF PutHead, Goto
  <2>5. ~OpenEnd(Out)
    BY <2>1, <2>4 DEF SendInv, BodyDue, Mutex
  <2>6. Framed(Append(Out, HeadOf(m)))
    BY <1>1, <2>5, FrameLemma
  <2> QED BY <2>1, <2>2, <2>4, <2>6, TokenStep
<1>4. CASE PutBody(m) /\ (Buffered(BodyOf(m)) \/ WrittenThrough(<<BodyOf(m)>>))
  <2>1. /\ ~stuck /\ OutTypes' /\ Out' = Append(Out, BodyOf(m))
        /\ BodyOf(m) \in Tokens /\ BodyOf(m)[1] = m
    BY <1>1, <1>4, WriterLemma, TokenLemma
  <2>2. ~stuck'
    BY <1>4, <2>1 DEF Buffered, WrittenThrough
  <2>3. ~WriteError
    BY <2>1, <2>2 DEF WriteError
  <2>4. pc[m] = "body" /\ mu' = mu /\ UNCHANGED result /\ pc' = [pc EXCEPT ![m] = "flush"]
    BY <1>4, <2>3 DEF PutBody, Goto
  <2>5. Len(Out) > 0 /\ Out[Len(Out)] = HeadOf(m)
    BY <2>1, <2>4 DEF SendInv, BodyDue
  <2>6. Framed(Append(Out, BodyOf(m)))
    BY <1>1, <2>5, FrameLemma
  <2> QED BY <2>1, <2>2, <2>4, <2>6, TokenStep
<1> QED BY <1>2, <1>3, <1>4 DEF PutHead, PutBody

LEMMA FlushStep ==
  ASSUME SendInv, NEW m \in Sends, Flush(m)
  PROVE  SendInv'
<1>1. OutTypes' /\ Out' = Out /\ (stuck' \/ (~stuck /\ buf' = <<>>))
  BY WriterLemma DEF SendInv, SendTypes, Flush
<1>2. /\ pc[m] = "flush" /\ pc' = [pc EXCEPT ![m] = "done"]
      /\ mu' = Free /\ UNCHANGED result
  BY DEF Flush, Goto
<1>3. mu = m
  BY <1>2 DEF SendInv, Mutex
<1>4. SendTypes' /\ Mutex'
  BY <1>1, <1>2, <1>3, SendsAssumption DEF SendInv, SendTypes, Mutex, Sends
<1>5. NotYetWritten' /\ Flushed'
  BY <1>1, <1>2 DEF SendInv, SendTypes, NotYetWritten, Flushed
<1>6. stuck => stuck'
  BY DEF Flush, WrittenThrough, WriteError, outVars
<1>7. BodyDue' /\ OnlyGood'
  BY <1>1, <1>2, <1>6 DEF SendInv, SendTypes, BodyDue, OpenEnd, OnlyGood
<1> QED BY <1>1, <1>4, <1>5, <1>7 DEF SendInv, Framed

LEMMA SendLemma ==
  ASSUME SendInv, NEW m \in Sends, Send(m)
  PROVE  SendInv'
<1>1. CASE EncodeFails(m)
  <2>1. /\ pc[m] = "head" /\ pc' = [pc EXCEPT ![m] = "flush"] /\ mu' = mu
        /\ result' = [result EXCEPT ![m] = "error"] /\ UNCHANGED <<wire, buf, stuck>>
    BY <1>1 DEF EncodeFails, Goto, outVars
  <2>2. Out' = Out /\ OutTypes'
    BY <2>1 DEF Out, OutTypes, SendInv, SendTypes
  <2> QED BY <2>1, <2>2, ErrorStep
<1> QED BY <1>1, LockStep, PutStep, FlushStep DEF Send

----------------------------------------------------------------------------
(* The reader: after SET_BYTE_ORDER(0) the order of the last header is the *)
(* peer's, which no longer changes.                                        *)
OrderInv == ByteOrderAgreed /\ (force => order = peer)

LEMMA HeaderLemma ==
  ASSUME OrderInv, ReadHeader
  PROVE  OrderInv'
<1>1. order' = peer'
  <2>1. CASE force
    BY <2>1 DEF OrderInv, ReadHeader, HeaderOrder
  <2>2. CASE ~force
    BY <2>2 DEF ReadHeader, HeaderOrder
  <2> QED BY <2>1, <2>2
<1>2. ~garbled'
  BY <1>1 DEF OrderInv, ByteOrderAgreed, ReadHeader
<1> QED BY <1>1, <1>2 DEF OrderInv, ByteOrderAgreed

LEMMA OrderStays == OrderInv /\ UNCHANGED <<order, force, garbled, peer>> => OrderInv'
BY DEF OrderInv, ByteOrderAgreed

IInv == SendInv /\ OrderInv

LEMMA InitIInv == Init => IInv
<1>1. Init => OrderInv
  BY DEF Init, OrderInv, ByteOrderAgreed
<1> QED BY <1>1, InitSend DEF IInv

LEMMA NextIInv == IInv /\ [Next]_vars => IInv'
<1> SUFFICES ASSUME SendInv, OrderInv, [Next]_vars PROVE SendInv' /\ OrderInv'
  BY DEF IInv
<1>1. ASSUME NEW m \in Sends, Call(m) PROVE SendInv' /\ OrderInv'
  BY <1>1, CallLemma, OrderStays DEF Call, readVars
<1>2. ASSUME NEW m \in Sends, Send(m) PROVE SendInv' /\ OrderInv'
  <2>1. UNCHANGED <<order, force, garbled, peer>>
    BY <1>2 DEF Send, Lock, EncodeFails, PutHead, PutBody, Flush, readVars
  <2> QED BY <1>2, <2>1, SendLemma, OrderStays
<1>3. ASSUME NEW m \in Sends, ReadEcho(m) PROVE SendInv' /\ OrderInv'
  BY <1>3, CallLemma, HeaderLemma DEF ReadEcho
<1>4. CASE ReadMessage \/ ReadSetByteOrder
  BY <1>4, IdleLemma, HeaderLemma DEF ReadMessage, ReadSetByteOrder
<1>5. CASE EchoAnswered \/ ReadFails
  BY <1>5, IdleLemma, OrderStays DEF EchoAnswered, ReadFails
<1>6. CASE UNCHANGED vars
  BY <1>6, IdleLemma, OrderStays DEF vars, readVars
<1> QED BY <1>1, <1>2, <1>3, <1>4, <1>5, <1>6 DEF Next

LEMMA Safety ==
  IInv => FramesIntact /\ CleanHandover /\ ByteOrderAgreed
<1> SUFFICES ASSUME IInv PROVE FramesIntact /\ CleanHandover /\ ByteOrderAgreed
  OBVIOUS
<1>1. FramesIntact
  BY DEF IInv, SendInv, Framed, Out, FramesIntact
<1>2. ASSUME mu = Free, ~stuck
      PROVE  buf = <<>> /\ \A i \in DOMAIN wire : result[wire[i][1]] = "nil"
  <2>1. buf = <<>>
    BY <1>2 DEF IInv, SendInv, Flushed
  <2>2. Out = wire
    BY <2>1, ConcatEmptySeq DEF IInv, SendInv, SendTypes, OutTypes, Out
  <2> QED BY <1>2, <2>1, <2>2 DEF IInv, SendInv, OnlyGood
<1> QED BY <1>1, <1>2 DEF CleanHandover, IInv, OrderInv

LEMMA Invariance == Spec => []IInv
BY InitIInv, NextIInv, PTL DEF Spec

(* Under the callers of SendPath every step is one of Connection's, or     *)
(* leaves it alone, or is the read loop's lookup before its answer.        *)
LEMMA PathSteps ==
  ASSUME [PathNext]_pathVars
  PROVE  \/ [Next]_vars
         \/ ReadHeader /\ UNCHANGED <<sendVars, force>>
<1>1. ASSUME NEW m \in Sends, ReadRequest(m) \/ ReadAndAnswer(m) PROVE Next
  BY <1>1 DEF ReadRequest, ReadAndAnswer, Next
<1>2. ASSUME NEW m \in Sends, ReadChannel(m) PROVE ReadHeader /\ UNCHANGED <<sendVars, force>>
  BY <1>2 DEF ReadChannel
<1>3. ASSUME NEW m \in Sends, Goroutine(m) PROVE [Next]_vars
  BY <1>3 DEF Goroutine, LockConn, LockMonitor, SendStep, Drained, Answered, Sent,
              RequestReady, Next
<1>4. ASSUME NEW m \in Sends, NextUpdate(m) PROVE UNCHANGED vars
  BY <1>4 DEF NextUpdate
<1>5. CASE ReadByteOrder \/ ReadCancel \/ ReadEnds
  BY <1>5 DEF ReadByteOrder, ReadCancel, ReadEnds, Next
<1>6. CASE CancelRequest \/ ClientReads \/ Close \/ UNCHANGED pathVars
  BY <1>6 DEF CancelRequest, ClientReads, Close, pathVars
<1> QED BY <1>1, <1>2, <1>3, <1>4, <1>5, <1>6 DEF PathNext

LEMMA PathInvariance == PathSpec => []IInv
<1>1. PathInit => IInv
  BY InitIInv DEF PathInit
<1>2. ASSUME IInv, [PathNext]_pathVars PROVE IInv'
  <2>1. CASE [Next]_vars
    BY <1>2, <2>1, NextIInv
  <2>2. CASE ReadHeader /\ UNCHANGED <<sendVars, force>>
    BY <1>2, <2>2, IdleLemma, HeaderLemma DEF IInv
  <2> QED BY <1>2, <2>1, <2>2, PathSteps
<1> QED BY <1>1, <1>2, PTL DEF PathSpec

(***************************************************************************)
(* Any number of goroutines may call SendApp and SendCtrl, in any order    *)
(* and with any errors of the encoder and of the socket: the wire carries  *)
(* whole messages, with at most one cut short at its end.  Whoever takes   *)
(* encoderMu finds nothing buffered and nothing of a call that failed.     *)
(***************************************************************************)
THEOREM Framing == Spec => [](FramesIntact /\ CleanHandover)
<1>1. IInv => FramesIntact /\ CleanHandover
  BY Safety
<1> QED BY <1>1, Invariance, PTL

(***************************************************************************)
(* The same for the goroutines of a serverConn and the locks they hold,    *)
(* however slow the client is and whenever the socket is closed.           *)
(***************************************************************************)
THEOREM PathFraming == PathSpec => []FramesIntact
<1>1. IInv => FramesIntact
  BY Safety
<1> QED BY <1>1, PathInvariance, PTL

(***************************************************************************)
(* Each call of SendApp or SendCtrl on that path finds the encoder as if   *)
(* those before it had been sent whole or not at all, until a write fails. *)
(***************************************************************************)
THEOREM PathHandover == PathSpec => []CleanHandover
<1>1. IInv => CleanHandover
  BY Safety
<1> QED BY <1>1, PathInvariance, PTL

(***************************************************************************)
(* No header is decoded in another byte order than the peer's, whenever    *)
(* SET_BYTE_ORDER(0) arrives and whatever flags follow it.                 *)
(***************************************************************************)
THEOREM ByteOrder == PathSpec => []ByteOrderAgreed
<1>1. IInv => ByteOrderAgreed
  BY Safety
<1> QED BY <1>1, PathInvariance, PTL

----------------------------------------------------------------------------
(***************************************************************************)
(* The locks around a send.  Which locks a goroutine holds is told by its  *)
(* stage; how far its SendApp is, by pc, which only moves while the stage  *)
(* is "send".                                                              *)
(***************************************************************************)
Stages == {"idle", "c.mu", "m.mu", "send", "c.mu again", "end"}

StageInv ==
  /\ stage \in [Sends -> Stages]
  /\ pc \in [Sends -> {"unused", "lock", "head", "body", "flush", "done"}]
  /\ \A m \in Sends :
       /\ stage[m] \in {"idle", "c.mu", "m.mu"} => pc[m] = "unused"
       /\ stage[m] \in {"c.mu again", "end"} => pc[m] \in {"unused", "done"}
       /\ stage[m] = "m.mu" => m \in Notifies \cup Watches
       /\ cmu = m => m \in Notifies /\ stage[m] \in {"m.mu", "send"}
       /\ mmu = m => m \in Notifies \cup Watches /\ stage[m] = "send"
  /\ loop # Free => loop \in Ctrls \cup Responses
  /\ waiting => loop = Free

(* A goroutine that moves from stage to stage, and takes or drops locks. *)
LEMMA StageLemma ==
  ASSUME StageInv, NEW m \in Sends, NEW s \in Stages,
         stage' = [stage EXCEPT ![m] = s],
         pc' \in [Sends -> {"unused", "lock", "head", "body", "flush", "done"}],
         \A n \in Sends \ {m} : pc'[n] = pc[n],
         cmu' \in {cmu, m, Free}, mmu' \in {mmu, m, Free},
         s \in {"idle", "c.mu", "m.mu"} => pc'[m] = "unused",
         s \in {"c.mu again", "end"} => pc'[m] \in {"unused", "done"},
         s = "m.mu" => m \in Notifies \cup Watches,
         cmu' = m => m \in Notifies /\ s \in {"m.mu", "send"},
         mmu' = m => m \in Notifies \cup Watches /\ s = "send",
         loop' # Free => loop' \in Ctrls \cup Responses,
         waiting' => loop' = Free
  PROVE  StageInv'
<1>1. Free \notin Sends
  BY SendsAssumption DEF Sends
<1>2. stage' \in [Sends -> Stages] /\ stage'[m] = s /\ \A n \in Sends \ {m} : stage'[n] = stage[n]
  BY DEF StageInv
<1>3. ASSUME NEW n \in Sends, n # m
      PROVE  /\ stage'[n] = stage[n] /\ pc'[n] = pc[n]
             /\ cmu' = n => cmu = n
             /\ mmu' = n => mmu = n
  <2>1. n \in Sends \ {m} /\ n # Free
    BY <1>1, <1>3
  <2>2. stage'[n] = stage[n] /\ pc'[n] = pc[n]
    BY <1>2, <2>1
  <2> QED BY <1>3, <2>1, <2>2
<1> QED BY <1>2, <1>3 DEF StageInv

(* Steps that leave the stages and the locks of the callers alone. *)
LEMMA StageStays ==
  ASSUME StageInv, UNCHANGED <<stage, cmu, mmu, pc>>,
         loop' # Free => loop' \in Ctrls \cup Responses, waiting' => loop' = Free
  PROVE  StageInv'
BY DEF StageInv

LEMMA StageSteps == StageInv /\ [PathNext]_pathVars => StageInv'
<1> SUFFICES ASSUME StageInv, [PathNext]_pathVars PROVE StageInv'
  OBVIOUS
<1>a. /\ \A m \in Sends : m # Free
      /\ Notifies \cup Watches \subseteq Apps /\ Apps \cap Ctrls = {}
      /\ Responses = Apps \ (Notifies \cup Watches)
  BY SendsAssumption, RolesAssumption DEF Sends, Responses
<1>1. ASSUME NEW m \in Sends, ReadRequest(m) PROVE StageInv'
  BY <1>1, <1>a, StageLemma
     DEF ReadRequest, ReadMessage, ReadHeader, Move, StageInv, Stages, sendVars
<1>2. ASSUME NEW m \in Sends, ReadAndAnswer(m) PROVE StageInv'
  BY <1>2, <1>a, StageLemma
     DEF ReadAndAnswer, ReadEcho, ReadHeader, Move, Goto, StageInv, Stages
<1>3. ASSUME NEW m \in Sends, ReadChannel(m) PROVE StageInv'
  BY <1>3, <1>a, StageLemma
     DEF ReadChannel, ReadHeader, Move, StageInv, Stages, sendVars
<1>4. ASSUME NEW m \in Sends, NextUpdate(m) PROVE StageInv'
  BY <1>4, <1>a, StageLemma
     DEF NextUpdate, Move, StageInv, Stages, vars, sendVars
<1>5. ASSUME NEW m \in Sends, LockConn(m) PROVE StageInv'
  <2>1. cmu = Free /\ UNCHANGED <<mmu, loop, waiting>> /\ stage[m] = "c.mu"
    BY <1>5 DEF LockConn, Call, Move, vars
  <2>2. CASE m \in Notifies
    <3>1. stage' = [stage EXCEPT ![m] = "m.mu"] /\ cmu' = m /\ pc' = pc
      BY <1>5, <2>2 DEF LockConn, Move, vars, sendVars
    <3>2. pc[m] = "unused" /\ mmu # m
      BY <2>1 DEF StageInv
    <3> QED BY <1>a, <2>1, <2>2, <3>1, <3>2, StageLemma DEF StageInv, Stages
  <2>3. CASE m \notin Notifies
    <3>1. stage' = [stage EXCEPT ![m] = "send"] /\ cmu' = cmu /\ pc' = [pc EXCEPT ![m] = "lock"]
      BY <1>5, <2>3 DEF LockConn, Call, Move, Goto
    <3>2. mmu # m /\ cmu # m
      BY <1>a, <2>1 DEF StageInv
    <3> QED BY <1>a, <2>1, <3>1, <3>2, StageLemma DEF StageInv, Stages
  <2> QED BY <2>2, <2>3
<1>6. ASSUME NEW m \in Sends, LockMonitor(m) PROVE StageInv'
  BY <1>6, <1>a, StageLemma
     DEF LockMonitor, Call, Move, Goto, StageInv, Stages, vars, sendVars
<1>7. ASSUME NEW m \in Sends, Drained(m) \/ Sent(m) \/ RequestReady(m) PROVE StageInv'
  <2>1. CASE Drained(m)
    BY <2>1, <1>a, StageLemma DEF Drained, Move, StageInv, Stages, vars, sendVars
  <2>2. CASE Sent(m)
    <3>1. /\ stage' = [stage EXCEPT ![m] = "c.mu again"] /\ pc[m] = "done"
          /\ UNCHANGED <<pc, cmu, mmu, waiting, loop>> /\ m \in Responses
      BY <2>2 DEF Sent, Move, vars, sendVars
    <3>2. m \notin Notifies \cup Watches
      BY <1>a, <3>1
    <3>3. cmu # m /\ mmu # m
      BY <3>2 DEF StageInv
    <3> QED BY <3>1, <3>3, StageLemma DEF StageInv, Stages
  <2>3. CASE RequestReady(m)
    <3>1. /\ stage' = [stage EXCEPT ![m] = "end"] /\ stage[m] = "c.mu again"
          /\ UNCHANGED <<pc, cmu, mmu, waiting, loop>>
      BY <2>3 DEF RequestReady, Move, vars, sendVars
    <3>2. cmu # m /\ mmu # m /\ pc[m] \in {"unused", "done"}
      BY <3>1 DEF StageInv
    <3> QED BY <3>1, <3>2, StageLemma DEF StageInv, Stages
  <2> QED BY <1>7, <2>1, <2>2, <2>3
<1>8. ASSUME NEW m \in Sends, Answered(m) PROVE StageInv'
  BY <1>8, <1>a, StageLemma
     DEF Answered, EchoAnswered, Move, StageInv, Stages, sendVars
<1>9. ASSUME NEW m \in Sends, SendStep(m) PROVE StageInv'
  <2>1. /\ UNCHANGED <<stage, cmu, mmu, loop, waiting>>
        /\ pc[m] \in {"lock", "head", "body", "flush"}
        /\ \E s \in {"head", "body", "flush", "done"} : pc' = [pc EXCEPT ![m] = s]
    BY <1>9 DEF SendStep, Send, Lock, EncodeFails, PutHead, PutBody, Flush, Goto, lockVars
  <2>2. stage[m] = "send" /\ stage' = [stage EXCEPT ![m] = "send"]
    BY <2>1 DEF StageInv, Stages
  <2>3. /\ pc' \in [Sends -> {"unused", "lock", "head", "body", "flush", "done"}]
        /\ \A n \in Sends \ {m} : pc'[n] = pc[n]
    BY <2>1 DEF StageInv
  <2>4. /\ cmu = m => m \in Notifies
        /\ mmu = m => m \in Notifies \cup Watches
        /\ loop # Free => loop \in Ctrls \cup Responses
        /\ waiting => loop = Free
    BY DEF StageInv
  <2> QED BY <2>1, <2>2, <2>3, <2>4, StageLemma DEF Stages
<1>10. CASE ReadByteOrder \/ ReadCancel \/ ReadEnds
  BY <1>10, StageStays
     DEF ReadByteOrder, ReadCancel, ReadEnds, ReadSetByteOrder, ReadMessage, ReadFails,
         ReadHeader, StageInv, lockVars, sendVars
<1>11. CASE CancelRequest \/ ClientReads \/ Close \/ UNCHANGED pathVars
  <2>1. UNCHANGED <<stage, cmu, mmu, pc, loop>> /\ (waiting' => waiting)
    BY <1>11 DEF CancelRequest, ClientReads, Close, pathVars, vars, sendVars, lockVars
  <2> QED BY <2>1, StageStays DEF StageInv
<1> QED BY <1>1, <1>2, <1>3, <1>4, <1>5, <1>6, <1>7, <1>8, <1>9, <1>10, <1>11
           DEF PathNext, Goroutine

LEMMA StageInvariance == PathSpec => []StageInv
<1>1. PathInit => StageInv
  <2> SUFFICES ASSUME PathInit PROVE StageInv
    OBVIOUS
  <2>1. \A m \in Sends : m # Free
    BY SendsAssumption DEF Sends
  <2>2. /\ stage = [m \in Sends |-> "idle"] /\ pc = [m \in Sends |-> "unused"]
        /\ cmu = Free /\ mmu = Free /\ loop = Free /\ waiting = FALSE
    BY DEF PathInit, Init
  <2> QED BY <2>1, <2>2 DEF StageInv, Stages
<1> QED BY <1>1, StageSteps, PTL DEF PathSpec

(***************************************************************************)
(* The handlers, runners, Watch goroutines and the read loop of a          *)
(* serverConn, however many, never wait for c.mu, m.mu and encoderMu in a  *)
(* circle, and none of them returns with a lock: what holds one of them up *)
(* is at the end of the line, in a write to the socket.                    *)
(***************************************************************************)
THEOREM NoLockCycle == PathSpec => []LockOrder
<1>1. IInv /\ StageInv => LockOrder
  <2> SUFFICES ASSUME IInv, StageInv PROVE LockOrder
    OBVIOUS
  <2>1. ASSUME NEW m \in Sends
        PROVE  /\ \A k \in DOMAIN Locks : Locks[k] = m => k < Awaited(m)
               /\ stage[m] \in {"idle", "end"} => m \notin {cmu, mmu, mu}
    <3>1. mu = m => pc[m] \in {"head", "body", "flush"} /\ stage[m] = "send"
      BY DEF IInv, SendInv, Mutex, StageInv, Stages
    <3>2. cmu = m => stage[m] \in {"m.mu", "send"}
      BY DEF StageInv
    <3>3. mmu = m => stage[m] = "send"
      BY DEF StageInv
    <3>4. /\ cmu = m => 1 < Awaited(m)
          /\ mmu = m => 2 < Awaited(m)
          /\ mu = m => 3 < Awaited(m)
      <4>1. stage[m] = "send" => Awaited(m) = IF pc[m] = "lock" THEN 3 ELSE 4
        BY DEF Awaited
      <4>2. stage[m] = "m.mu" => Awaited(m) = 2
        BY DEF Awaited
      <4> QED BY <3>1, <3>2, <3>3, <4>1, <4>2
    <3>5. DOMAIN Locks = {1, 2, 3} /\ Locks[1] = cmu /\ Locks[2] = mmu /\ Locks[3] = mu
      BY DEF Locks
    <3> QED BY <3>1, <3>2, <3>3, <3>4, <3>5
  <2>2. waiting => loop = Free
    BY DEF StageInv
  <2> QED BY <2>1, <2>2 DEF LockOrder
<1> QED BY <1>1, StageInvariance, PathInvariance, PTL

(* A lock is free or held by a goroutine of the connection. *)
LockTypes == {cmu, mmu, mu} \subseteq Sends \cup {Free}

LEMMA LockTypesInvariance == PathSpec => []LockTypes
<1>1. PathInit => LockTypes
  BY DEF PathInit, Init, LockTypes
<1>2. ASSUME LockTypes, [PathNext]_pathVars PROVE LockTypes'
  <2>1. ASSUME NEW m \in Sends,
               ReadRequest(m) \/ ReadAndAnswer(m) \/ ReadChannel(m) \/ NextUpdate(m)
        PROVE  UNCHANGED <<cmu, mmu, mu>>
    BY <2>1 DEF ReadRequest, ReadAndAnswer, ReadChannel, NextUpdate, ReadMessage, ReadEcho,
                ReadHeader, Goto, vars, sendVars
  <2>2. ASSUME NEW m \in Sends, LockConn(m) \/ LockMonitor(m)
        PROVE  UNCHANGED mu /\ cmu' \in {cmu, m, Free} /\ mmu' \in {mmu, m, Free}
    BY <2>2 DEF LockConn, LockMonitor, Call, Goto, vars, sendVars
  <2>3. ASSUME NEW m \in Sends, Drained(m) \/ Answered(m) \/ Sent(m) \/ RequestReady(m)
        PROVE  UNCHANGED mu /\ cmu' \in {cmu, m, Free} /\ mmu' \in {mmu, m, Free}
    BY <2>3 DEF Drained, Answered, Sent, RequestReady, EchoAnswered, vars, sendVars
  <2>4. ASSUME NEW m \in Sends, SendStep(m)
        PROVE  UNCHANGED <<cmu, mmu>> /\ mu' \in {mu, m, Free}
    BY <2>4 DEF SendStep, lockVars, Send, Lock, EncodeFails, PutHead, PutBody, Flush
  <2>5. CASE ReadByteOrder \/ ReadCancel \/ CancelRequest \/ ReadEnds \/ ClientReads \/ Close
             \/ UNCHANGED pathVars
    <3>1. UNCHANGED <<cmu, mmu, mu>>
      BY <2>5 DEF ReadByteOrder, ReadCancel, CancelRequest, ReadEnds, ClientReads, Close,
                  ReadSetByteOrder, ReadMessage, ReadFails, ReadHeader, pathVars, vars,
                  sendVars, lockVars
    <3> QED BY <1>2, <3>1 DEF LockTypes
  <2> QED BY <1>2, <2>1, <2>2, <2>3, <2>4, <2>5 DEF PathNext, Goroutine, LockTypes
<1> QED BY <1>1, <1>2, PTL DEF PathSpec

(* m is on its way, and not held up by a lock that somebody holds. *)
UnderWay(m) == stage[m] \notin {"idle", "end"}
Unlocked(m) == Awaited(m) \in DOMAIN Locks => Locks[Awaited(m)] = Free

(***************************************************************************)
(* c.mu, m.mu and encoderMu never bring a connection to a stop: as long as *)
(* a goroutine is on its way, or the read loop waits for c.mu, one of them *)
(* waits for no lock, or for one that is free.                             *)
(***************************************************************************)
THEOREM NoDeadlock ==
  PathSpec => [](waiting \/ (\E m \in Sends : UnderWay(m)) =>
                   \/ waiting /\ cmu = Free
                   \/ \E m \in Sends : UnderWay(m) /\ Unlocked(m))
<1>1. ASSUME LockOrder, LockTypes, waiting \/ \E m \in Sends : UnderWay(m)
      PROVE  (waiting /\ cmu = Free) \/ \E m \in Sends : UnderWay(m) /\ Unlocked(m)
  <2> SUFFICES ASSUME ~(waiting /\ cmu = Free),
                      \A m \in Sends : UnderWay(m) => ~Unlocked(m)
               PROVE  FALSE
    OBVIOUS
  <2>1. DOMAIN Locks = {1, 2, 3} /\ Locks[1] = cmu /\ Locks[2] = mmu /\ Locks[3] = mu
    BY DEF Locks
  <2>2. \A m \in Sends : Awaited(m) \in {1, 2, 3, 4}
    BY DEF Awaited
  (* Whoever is on its way waits for another, which waits for a later lock. *)
  <2>3. ASSUME NEW m \in Sends, UnderWay(m)
        PROVE  \E u \in Sends : UnderWay(u) /\ Awaited(u) > Awaited(m)
    <3>1. Awaited(m) \in {1, 2, 3} /\ Locks[Awaited(m)] # Free
      BY <2>1, <2>3 DEF Unlocked
    <3>2. Locks[Awaited(m)] \in Sends
      BY <1>1, <2>1, <3>1 DEF LockTypes
    <3> DEFINE u == Locks[Awaited(m)]
    <3>3. u \in {cmu, mmu, mu}
      BY <2>1, <3>1
    <3>4. Awaited(m) < Awaited(u) /\ UnderWay(u)
      <4>1. \A k \in DOMAIN Locks : Locks[k] = u => k < Awaited(u)
        BY <1>1, <3>2 DEF LockOrder
      <4> QED BY <1>1, <2>1, <3>1, <3>2, <3>3, <4>1 DEF LockOrder, UnderWay
    <3> HIDE DEF u
    <3>5. Awaited(u) > Awaited(m)
      BY <2>2, <3>1, <3>2, <3>4 DEF u
    <3> QED BY <3>2, <3>4, <3>5 DEF u
  <2>4. PICK a \in Sends : UnderWay(a)
    <3>1. CASE waiting
      <4>1. cmu \in Sends
        BY <1>1, <3>1 DEF LockTypes
      <4> QED BY <1>1, <4>1 DEF LockOrder, UnderWay
    <3> QED BY <1>1, <3>1
  <2>5. PICK b \in Sends : UnderWay(b) /\ Awaited(b) > Awaited(a)
    BY <2>3, <2>4
  <2>6. PICK c \in Sends : UnderWay(c) /\ Awaited(c) > Awaited(b)
    BY <2>3, <2>5
  <2>7. PICK d \in Sends : UnderWay(d) /\ Awaited(d) > Awaited(c)
    BY <2>3, <2>6
  <2>8. PICK e \in Sends : UnderWay(e) /\ Awaited(e) > Awaited(d)
    BY <2>3, <2>7
  <2> QED BY <2>2, <2>5, <2>6, <2>7, <2>8
<1> QED BY <1>1, NoLockCycle, LockTypesInvariance, PTL

=============================================================================
