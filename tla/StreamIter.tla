----------------------------- MODULE StreamIter -----------------------------
(***************************************************************************)
(* iterator/grpc.go: an Iterator over a grpc stream.  A goroutine receives *)
(* from the stream and hands each message over an unbuffered channel to    *)
(* whoever receives: Next, or the Close that waits for the goroutine.      *)
(* The consumer calls Next, each time with a context of its own that may   *)
(* end, and Close, which may come from another goroutine while Next waits. *)
(*                                                                         *)
(* The stream is external: it delivers its messages in order, then io.EOF  *)
(* or an error; once its context is done Recv fails.                       *)
(***************************************************************************)
EXTENDS Integers, Sequences

CONSTANTS MaxMessages,   \* messages a stream has
          MaxCancels     \* contexts of Next that end

ASSUME StreamAssumption == MaxMessages \in Nat /\ MaxCancels \in Nat

VARIABLES
  len,       \* messages of this stream
  ends,      \* how it ends: "EOF" or "broken"
  acks,      \* FromStreamWithAck rather than FromStream
  received,  \* messages the goroutine has received
  routine,   \* "recv", "send", "ack", "sendErr" or "done"; done closes ch
  holding,   \* the message it is about to send: data and err
  done,      \* the stream's context is done: by Close, or by its own owner
  next,      \* the consumer is in Next
  got,       \* the messages Next has returned
  over,      \* Next has returned false for the end of the stream
  errs,      \* Err() is not nil
  closing,   \* "no", "waiting" in Close, "closed"
  cancels    \* contexts of Next that ended

streamVars == <<len, ends, acks, received, routine, holding, done, next, got, over, errs,
                closing, cancels>>

Msg(data, err) == [data |-> data, err |-> err]

StreamInit ==
  /\ len \in 0..MaxMessages
  /\ ends \in {"EOF", "broken"}
  /\ acks \in BOOLEAN
  /\ received = 0 /\ routine = "recv" /\ holding = Msg(0, "nil") /\ done = FALSE
  /\ next = FALSE /\ got = <<>> /\ over = FALSE /\ errs = FALSE
  /\ closing = "no" /\ cancels = 0

fixed == <<len, ends, acks>>

-----------------------------------------------------------------------------
\* The goroutine.

Recv ==
  /\ routine = "recv"
  /\ \/ /\ received < len /\ received' = received + 1 /\ holding' = Msg(received + 1, "nil")
     \/ /\ received = len /\ holding' = Msg(0, ends) /\ UNCHANGED received
     \/ /\ done /\ holding' = Msg(0, "cancelled") /\ UNCHANGED received
  /\ routine' = "send"
  /\ UNCHANGED <<fixed, done, next, got, over, errs, closing, cancels>>

\* What the goroutine does once its message is taken.
Sent == routine' = CASE holding.err # "nil" -> "done"
                     [] holding.err = "nil" /\ acks -> "ack"
                     [] holding.err = "nil" /\ ~acks -> "recv"

\* Next: the message, or the end of the iteration with the stream's error,
\* io.EOF not being one.
NextResult(m) ==
  IF m.err # "nil"
  THEN over' = TRUE /\ errs' = (errs \/ m.err # "EOF") /\ UNCHANGED got
  ELSE got' = Append(got, m.data) /\ UNCHANGED <<over, errs>>

SendToNext ==
  /\ routine \in {"send", "sendErr"} /\ next
  /\ NextResult(holding)
  /\ next' = FALSE
  /\ Sent
  /\ UNCHANGED <<fixed, received, holding, done, closing, cancels>>

\* The receive in Close takes a message like any other.
SendToClose ==
  /\ routine \in {"send", "sendErr"} /\ closing = "waiting"
  /\ closing' = "closed"
  /\ Sent
  /\ UNCHANGED <<fixed, received, holding, done, next, got, over, errs, cancels>>

\* Mutant: the channel is not closed when the context ends.
StopNoClose ==
  /\ routine \in {"send", "sendErr"} /\ done
  /\ routine' = "gone"
  /\ UNCHANGED <<fixed, received, holding, done, next, got, over, errs, closing, cancels>>

Stop ==
  /\ routine \in {"send", "sendErr"} /\ done
  /\ routine' = "done"
  /\ UNCHANGED <<fixed, received, holding, done, next, got, over, errs, closing, cancels>>

\* Mutant: the goroutine returns without a word when its ack fails.
AckSilent ==
  /\ routine = "ack"
  /\ routine' \in {"recv", "done"}
  /\ UNCHANGED <<fixed, received, holding, done, next, got, over, errs, closing, cancels>>

Ack ==
  /\ routine = "ack"
  /\ \/ routine' = "recv" /\ UNCHANGED holding
     \/ routine' = "sendErr" /\ holding' = Msg(0, "nack")
  /\ UNCHANGED <<fixed, received, done, next, got, over, errs, closing, cancels>>

-----------------------------------------------------------------------------
\* The consumer.

CallNext ==
  /\ ~next /\ ~over
  /\ next' = TRUE
  /\ UNCHANGED <<fixed, received, routine, holding, done, got, over, errs, closing, cancels>>

\* The channel is closed: false, and no error.
NextAtEnd ==
  /\ next /\ routine = "done"
  /\ next' = FALSE /\ over' = TRUE
  /\ UNCHANGED <<fixed, received, routine, holding, done, got, errs, closing, cancels>>

\* Mutant: the message is taken from the channel and dropped.
NextCancelledTakes ==
  /\ next /\ cancels < MaxCancels
  /\ cancels' = cancels + 1
  /\ next' = FALSE /\ errs' = TRUE
  /\ IF routine = "send" THEN Sent ELSE UNCHANGED routine
  /\ UNCHANGED <<fixed, received, holding, done, got, over, closing>>

\* The context of this Next ends: false and its error; the message stays
\* where it is.
NextCancelled ==
  /\ next /\ cancels < MaxCancels
  /\ cancels' = cancels + 1
  /\ next' = FALSE /\ errs' = TRUE
  /\ UNCHANGED <<fixed, received, routine, holding, done, got, over, closing>>

\* Mutant: Close waits for the goroutine without cancelling it.
CallCloseNoCancel ==
  /\ closing = "no"
  /\ closing' = "waiting"
  /\ UNCHANGED <<fixed, received, routine, holding, done, next, got, over, errs, cancels>>

\* Close cancels, then receives from the channel once; a second Close does
\* nothing.
CallClose ==
  /\ closing = "no"
  /\ closing' = "waiting" /\ done' = TRUE
  /\ UNCHANGED <<fixed, received, routine, holding, next, got, over, errs, cancels>>

CloseReturns ==
  /\ closing = "waiting" /\ routine = "done"
  /\ closing' = "closed"
  /\ UNCHANGED <<fixed, received, routine, holding, done, next, got, over, errs, cancels>>

\* The stream's context ends by itself: a deadline, or the caller above.
ContextEnds ==
  /\ ~done
  /\ done' = TRUE
  /\ UNCHANGED <<fixed, received, routine, holding, next, got, over, errs, closing, cancels>>

Routine == Recv \/ SendToNext \/ SendToClose \/ Stop \/ Ack

StreamNext ==
  \/ Routine \/ CallNext \/ NextAtEnd \/ NextCancelled
  \/ CallClose \/ CloseReturns \/ ContextEnds

StreamSpec == StreamInit /\ [][StreamNext]_streamVars

\* Goroutines run; a select takes a case that stays ready; a Recv whose
\* context is done returns.
StreamFairness ==
  /\ WF_streamVars(Recv /\ (done \/ received = len))
  /\ WF_streamVars(SendToNext \/ SendToClose \/ Stop)
  /\ WF_streamVars(Ack)
  /\ WF_streamVars(NextAtEnd)
  /\ WF_streamVars(CloseReturns)

-----------------------------------------------------------------------------
\* What Next returned is the stream from its start, without gap or
\* repetition, whatever contexts ended in between; a message is skipped only
\* where the receive in Close took it.
StreamInOrder ==
  \A i \in DOMAIN got : /\ closing # "closed" => got[i] = i
                        /\ i > 1 => got[i - 1] < got[i]

\* An iteration that ended without an error had all of the stream, unless
\* the stream's context was done: an ack that failed and a broken stream are
\* always reported.
NoSilentTruncation ==
  over /\ ~errs /\ ~done => Len(got) = len /\ ends = "EOF"

\* What an iteration gives out is the stream, all of it unless it says so.
StreamIsWhole == StreamInOrder /\ NoSilentTruncation

\* Close returns, whatever the goroutine was doing when it was called.
CloseTerminates == closing = "waiting" ~> closing = "closed"

\* A Next that waits when the stream's context ends is not left waiting.
NextTerminates == next /\ done ~> ~next

\* Nobody waits for a stream that is over.
StreamEnds == CloseTerminates /\ NextTerminates
=============================================================================
