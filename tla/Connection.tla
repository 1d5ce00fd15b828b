----------------------------- MODULE Connection -----------------------------
(***************************************************************************)
(* Package internal/connection: one connection, written by many goroutines *)
(* (SendApp and SendCtrl are called by the read loop, by every handler and *)
(* by every monitor) and read by one (Next).                               *)
(*                                                                         *)
(* A message on the wire is a head and, for an application message, a      *)
(* body; its bytes are abstracted to these two tokens.  What a goroutine   *)
(* does under encoderMu is split into the steps at which an error can stop *)
(* it.  The buffered writer and the socket are external: a write may stay  *)
(* in the buffer or push the buffer to the socket, the socket may fail     *)
(* after a part of it, and a buffer that failed once accepts nothing more. *)
(***************************************************************************)
EXTENDS Naturals, Sequences

CONSTANTS
  Apps,     \* the calls of SendApp
  Ctrls,    \* the calls of SendCtrl
  Free,     \* the value of mu and of loop when there is no call
  MaxReads  \* bound on the number of messages read

ASSUME SendsAssumption == Free \notin Apps \cup Ctrls /\ Apps \cap Ctrls = {}
ASSUME MaxReadsAssumption == MaxReads \in Nat

Sends == Apps \cup Ctrls

VARIABLES
  mu,       \* the holder of encoderMu, or Free
  pc,       \* pc[m]: "unused", "lock", "head", "body", "flush" or "done"
  result,   \* result[m]: what it returns, "nil" or "error"
  buf,      \* the tokens in the buffered writer
  wire,     \* the tokens that the socket has taken
  stuck,    \* the buffered writer has failed
  loop,     \* the call that the read loop is in, or Free
  reading,  \* the read loop has met no error
  order,    \* decoderState.ByteOrder
  force,    \* forceByteOrder: the peer has sent SET_BYTE_ORDER(0)
  peer,     \* the byte order in which the peer encodes
  garbled,  \* a header was decoded in another order
  reads     \* the number of messages read

outVars == <<buf, wire, stuck>>
sendVars == <<mu, pc, result, outVars>>
readVars == <<reading, order, force, garbled, reads>>
vars == <<sendVars, loop, readVars, peer>>

Orders == {"LE", "BE"}

HeadOf(m) == <<m, "head">>
BodyOf(m) == <<m, "body">>

Init ==
  /\ mu = Free
  /\ pc = [m \in Sends |-> "unused"]
  /\ result = [m \in Sends |-> "nil"]
  /\ buf = <<>>
  /\ wire = <<>>
  /\ stuck = FALSE
  /\ loop = Free
  /\ reading = TRUE
  /\ order = "none"
  /\ force = FALSE
  /\ peer = "LE"
  /\ garbled = FALSE
  /\ reads = 0

----------------------------------------------------------------------------
(* bufio.Writer and the socket. *)

Buffered(token) ==
  /\ ~stuck
  /\ buf' = Append(buf, token)
  /\ UNCHANGED <<wire, stuck>>

WrittenThrough(tokens) ==
  /\ ~stuck
  /\ wire' = wire \o buf \o tokens
  /\ buf' = <<>>
  /\ UNCHANGED stuck

(* The socket takes the first tokens of the buffer and fails, or did so before. *)
WriteError ==
  \/ stuck /\ UNCHANGED outVars
  \/ /\ ~stuck
     /\ stuck' = TRUE
     /\ \E k \in 0..Len(buf) :
          /\ wire' = wire \o SubSeq(buf, 1, k)
          /\ buf' = SubSeq(buf, k + 1, Len(buf))

----------------------------------------------------------------------------
(* SendApp and SendCtrl. *)

Goto(m, from, to) == pc[m] = from /\ pc' = [pc EXCEPT ![m] = to]

Call(m) ==
  /\ Goto(m, "unused", "lock")
  /\ UNCHANGED <<mu, result, outVars, loop, readVars, peer>>

(* Mutant of Lock: encoderMu is not taken. *)
LockAnyway(m) ==
  /\ Goto(m, "lock", "head")
  /\ mu' = m
  /\ UNCHANGED <<result, outVars, loop, readVars, peer>>

Lock(m) ==
  /\ mu = Free
  /\ mu' = m
  /\ Goto(m, "lock", "head")
  /\ UNCHANGED <<result, outVars, loop, readVars, peer>>

(* encodePayload writes to a buffer of its own, by PushWriter, before the  *)
(* head is written.                                                        *)
EncodeFails(m) ==
  /\ m \in Apps
  /\ Goto(m, "head", "flush")
  /\ result' = [result EXCEPT ![m] = "error"]
  /\ UNCHANGED <<mu, outVars, loop, readVars, peer>>

PutHead(m) ==
  /\ \/ /\ Buffered(HeadOf(m)) \/ WrittenThrough(<<HeadOf(m)>>)
        /\ Goto(m, "head", IF m \in Apps THEN "body" ELSE "flush")
        /\ UNCHANGED result
     \/ /\ WriteError
        /\ Goto(m, "head", "flush")
        /\ result' = [result EXCEPT ![m] = "error"]
  /\ UNCHANGED <<mu, loop, readVars, peer>>

PutBody(m) ==
  /\ Goto(m, "body", "flush")
  /\ \/ /\ Buffered(BodyOf(m)) \/ WrittenThrough(<<BodyOf(m)>>)
        /\ UNCHANGED result
     \/ /\ WriteError
        /\ result' = [result EXCEPT ![m] = "error"]
  /\ UNCHANGED <<mu, loop, readVars, peer>>

(* Mutant of Flush: an error return skips the flush and keeps the buffer. *)
FlushSkipped(m) ==
  /\ Goto(m, "flush", "done")
  /\ mu' = Free
  /\ UNCHANGED <<result, outVars, loop, readVars, peer>>

(* The deferred flush, whose error is dropped, and the deferred Unlock. *)
Flush(m) ==
  /\ Goto(m, "flush", "done")
  /\ WrittenThrough(<<>>) \/ WriteError
  /\ mu' = Free
  /\ UNCHANGED <<result, loop, readVars, peer>>

----------------------------------------------------------------------------
(* Next. *)

(* Mutant of HeaderOrder: a forced byte order is not honoured. *)
HeaderOrderByFlag(flag) == flag

(* The order in which a header with this byte order flag is decoded. *)
HeaderOrder(flag) == IF force THEN order ELSE flag

(* A peer may change its byte order from message to message until it has  *)
(* sent SET_BYTE_ORDER(0); after that its flag means nothing.              *)
ReadHeader ==
  /\ reading /\ loop = Free
  /\ reads < MaxReads
  /\ reads' = reads + 1
  /\ peer' \in IF force THEN {peer} ELSE Orders
  /\ \E flag \in IF force THEN Orders ELSE {peer'} : order' = HeaderOrder(flag)
  /\ garbled' = (garbled \/ order' # peer')
  /\ UNCHANGED reading

(* An application message for the caller of Next, or a control message     *)
(* without effect.                                                         *)
ReadMessage ==
  /\ ReadHeader
  /\ UNCHANGED <<sendVars, loop, force>>

ReadSetByteOrder ==
  /\ ReadHeader
  /\ force' = TRUE
  /\ UNCHANGED <<sendVars, loop>>

(* An echo of either kind, or MARK_TOTAL_BYTE_SENT, is answered at once. *)
ReadEcho(m) ==
  /\ ReadHeader
  /\ loop' = m
  /\ Goto(m, "unused", "lock")
  /\ UNCHANGED <<mu, result, outVars, force>>

(* If the answer fails, so does Next. *)
EchoAnswered ==
  /\ loop # Free
  /\ pc[loop] = "done"
  /\ loop' = Free
  /\ reading' = (result[loop] = "nil")
  /\ UNCHANGED <<sendVars, order, force, garbled, reads, peer>>

ReadFails ==
  /\ reading /\ loop = Free
  /\ reading' = FALSE
  /\ UNCHANGED <<sendVars, loop, order, force, garbled, reads, peer>>

----------------------------------------------------------------------------
Send(m) ==
  Lock(m) \/ EncodeFails(m) \/ PutHead(m) \/ PutBody(m) \/ Flush(m)

Next ==
  \/ \E m \in Sends : Call(m) \/ Send(m) \/ ReadEcho(m)
  \/ ReadMessage \/ ReadSetByteOrder \/ EchoAnswered \/ ReadFails

Spec == Init /\ [][Next]_vars

----------------------------------------------------------------------------
(***************************************************************************)
(* "It is safe to call SendApp from any goroutine": whatever senders and   *)
(* errors there are, the socket sees whole messages one after the other,   *)
(* and at most one message cut short, at the very end.                     *)
(***************************************************************************)
FramesIntact ==
  LET out == wire \o buf IN
  \A i \in DOMAIN out :
    /\ out[i][2] = "head" /\ out[i][1] \in Apps /\ i < Len(out) => out[i + 1] = BodyOf(out[i][1])
    /\ out[i][2] = "body" => i > 1 /\ out[i - 1] = HeadOf(out[i][1])

(***************************************************************************)
(* Whoever takes encoderMu finds the connection as if every call before it *)
(* had been sent or had not been made: nothing waits in the buffer, and a  *)
(* payload that could not be encoded has left no trace, so that the error  *)
(* response that follows it can be read.                                   *)
(***************************************************************************)
CleanHandover ==
  mu = Free /\ ~stuck =>
    /\ buf = <<>>
    /\ \A i \in DOMAIN wire : result[wire[i][1]] = "nil"

(***************************************************************************)
(* Headers are decoded in the byte order of the peer, before and after     *)
(* SET_BYTE_ORDER(0), after which the flag is to be ignored.               *)
(***************************************************************************)
ByteOrderAgreed == ~garbled

=============================================================================
