------------------------------ MODULE ChanConn ------------------------------
(***************************************************************************)
(* bluenet/chan_conn.go: a net.Conn over two unbuffered channels, used in  *)
(* pairs: what one conn writes its peer reads.                             *)
(*                                                                         *)
(* Writers and readers are goroutines in Write and Read.  The mutex of a   *)
(* conn is only held for short, non-blocking sections, which are one step  *)
(* each, except by Close, which keeps it while it waits for the writers:   *)
(* the mutex is taken exactly while closer[c] = "waiting".                 *)
(*                                                                         *)
(* A deadline is "never" (the zero time) or "soon": a timer armed for a    *)
(* "soon" deadline may fire at any moment.  SetWriteDeadline replaces the  *)
(* channel newWriteDeadline after closing the old one, so a goroutine      *)
(* notices a new deadline when the generation it holds is not the latest.  *)
(***************************************************************************)
EXTENDS Integers, Sequences, FiniteSets, SequencesExt

CONSTANTS Conns,          \* the two ends
          Peer,           \* each end's other end
          Writers, Readers,
          Home,           \* the conn a goroutine works on
          MsgLen,         \* bytes per Write
          BufLens,        \* buffer sizes tried by Read
          MaxWrites,      \* bound: Write calls per writer
          MaxDeadlines,   \* bound: SetWriteDeadline and SetReadDeadline calls,
                          \* of both kinds and on all conns together
          Closable        \* the conns that somebody closes

ASSUME ConnAssumption ==
  /\ Peer \in [Conns -> Conns] /\ \A c \in Conns : Peer[Peer[c]] = c
  /\ Home \in [Writers \cup Readers -> Conns]
  /\ Closable \subseteq Conns
  /\ MsgLen \in Nat /\ BufLens \subseteq Nat

VARIABLES closer,     \* conn -> "open", "waiting" (in Close) or "closed"
          wdl, rdl,   \* conn -> [kind, gen]: the deadlines
          pending,    \* conn -> bytes received but not yet read
          writer,     \* what each writer is doing
          reader,     \* what each reader is doing
          sent,       \* history: bytes handed to the peer of the conn, in order
          received,   \* history: bytes Read gave to its callers, per conn
          acked       \* history: messages whose Write returned success

vars == <<closer, wdl, rdl, pending, writer, reader, sent, received, acked>>

MutexFree(c) == closer[c] # "waiting"
CloseCtxDone(c) == closer[c] # "open"

\* The bytes of the k-th Write of w.
Message(w, k) == [i \in 1..MsgLen |-> <<w, k, i>>]

-----------------------------------------------------------------------------
(***************************************************************************)
(* Write.  pc: "idle", "select" (offering the message), "relock" (a new    *)
(* deadline was noticed there), "handed" (the reader has the message, its  *)
(* acknowledgement is awaited), "relockHanded" (a new deadline was noticed *)
(* there).  A writer that is not idle counts in writeCloseWg.              *)
(***************************************************************************)
InWrite(c) == {w \in Writers : Home[w] = c /\ writer[w].pc # "idle"}

WriteReturns(w) == writer' = [writer EXCEPT ![w].pc = "idle"]

WriteStart(w) ==
  LET c == Home[w]
  IN  /\ writer[w].pc = "idle"
      /\ writer[w].count < MaxWrites
      /\ MutexFree(c)
      /\ \/ /\ ~CloseCtxDone(c)
            /\ writer' = [writer EXCEPT
                 ![w] = [pc |-> "select", count |-> @.count + 1,
                         dl |-> wdl[c].kind, gen |-> wdl[c].gen]]
         \/ /\ wdl[c].kind = "soon" \/ CloseCtxDone(c)
            /\ writer' = [writer EXCEPT ![w].count = @ + 1]
  /\ UNCHANGED <<closer, wdl, rdl, pending, reader, sent, received, acked>>

\* The deadline channel the writer holds was closed.  While offering it looks
\* at the close context once more before it goes for the mutex.
WriteNoticesDeadline(w) ==
  /\ writer[w].gen < wdl[Home[w]].gen
  /\ \/ /\ writer[w].pc = "select"
        /\ IF CloseCtxDone(Home[w]) THEN WriteReturns(w)
           ELSE writer' = [writer EXCEPT ![w].pc = "relock"]
     \/ /\ writer[w].pc = "handed"
        /\ writer' = [writer EXCEPT ![w].pc = "relockHanded"]
  /\ UNCHANGED <<closer, wdl, rdl, pending, reader, sent, received, acked>>

\* Mutant: the channel of the next deadline is taken, but the timer is not
\* reset to the new deadline.
WriteRelockStale(w) ==
  LET c == Home[w]
  IN  /\ writer[w].pc \in {"relock", "relockHanded"}
      /\ MutexFree(c)
      /\ writer' = [writer EXCEPT
           ![w] = [pc |-> IF writer[w].pc = "relock" THEN "select" ELSE "handed",
                   count |-> writer[w].count,
                   dl |-> writer[w].dl, gen |-> wdl[c].gen]]
  /\ UNCHANGED <<closer, wdl, rdl, pending, reader, sent, received, acked>>

\* The new deadline is read under the mutex and the timer reset.
WriteRelock(w) ==
  LET c == Home[w]
  IN  /\ writer[w].pc \in {"relock", "relockHanded"}
      /\ MutexFree(c)
      /\ writer' = [writer EXCEPT
           ![w] = [pc |-> IF writer[w].pc = "relock" THEN "select" ELSE "handed",
                   count |-> writer[w].count,
                   dl |-> wdl[c].kind, gen |-> wdl[c].gen]]
  /\ UNCHANGED <<closer, wdl, rdl, pending, reader, sent, received, acked>>

\* Mutant: a write that a Close interrupts reports success.
WriteFailsSilently(w) ==
  /\ writer[w].pc \in {"select", "handed"}
  /\ CloseCtxDone(Home[w]) \/ writer[w].dl = "soon"
  /\ WriteReturns(w)
  /\ acked' = acked \cup {<<w, writer[w].count>>}
  /\ UNCHANGED <<closer, wdl, rdl, pending, reader, sent, received>>

\* Mutant: only a timeout interrupts the wait.
WriteFailsOnTimeout(w) ==
  /\ writer[w].pc \in {"select", "handed"}
  /\ writer[w].dl = "soon"
  /\ WriteReturns(w)
  /\ UNCHANGED <<closer, wdl, rdl, pending, reader, sent, received, acked>>

\* net.ErrClosed or a timeout, whether or not the message was handed over.
WriteFails(w) ==
  /\ writer[w].pc \in {"select", "handed"}
  /\ CloseCtxDone(Home[w]) \/ writer[w].dl = "soon"
  /\ WriteReturns(w)
  /\ UNCHANGED <<closer, wdl, rdl, pending, reader, sent, received, acked>>

\* The reader closed res.Ch.
WriteAcked(w) ==
  /\ writer[w].pc = "handed"
  /\ \A r \in Readers : reader[r].from # <<w, writer[w].count>>
  /\ WriteReturns(w)
  /\ acked' = acked \cup {<<w, writer[w].count>>}
  /\ UNCHANGED <<closer, wdl, rdl, pending, reader, sent, received>>

-----------------------------------------------------------------------------
(***************************************************************************)
(* Read.  pc: "idle", "select", "relock", "ack" (a message was received,   *)
(* res.Ch is still open; from says whose) and "copy".  room is how many    *)
(* bytes of the caller's buffer are still free.                            *)
(***************************************************************************)
NoMessage == <<>>
ReadReturns(r) == reader' = [reader EXCEPT ![r].pc = "idle"]

\* What is pending is copied first; only if the buffer is not full the reader
\* waits for more.  A deadline in the past is looked at before anything else.
ReadStart(r, len) ==
  LET c == Home[r]
      n == IF Len(pending[c]) < len THEN Len(pending[c]) ELSE len
  IN  /\ reader[r].pc = "idle"
      /\ MutexFree(c)
      /\ \/ /\ received' = [received EXCEPT ![c] = @ \o SubSeq(pending[c], 1, n)]
            /\ pending' = [pending EXCEPT ![c] = SubSeq(@, n + 1, Len(@))]
            /\ IF CloseCtxDone(c) \/ n = len THEN UNCHANGED reader
               ELSE reader' = [reader EXCEPT
                      ![r] = [@ EXCEPT !.pc = "select", !.room = len - n,
                                       !.dl = rdl[c].kind, !.gen = rdl[c].gen]]
         \/ rdl[c].kind = "soon" /\ UNCHANGED <<received, pending, reader>>
      /\ UNCHANGED <<closer, wdl, rdl, writer, sent, acked>>

ReadNoticesDeadline(r) ==
  /\ reader[r].pc = "select"
  /\ reader[r].gen < rdl[Home[r]].gen
  /\ reader' = [reader EXCEPT ![r].pc = "relock"]
  /\ UNCHANGED <<closer, wdl, rdl, pending, writer, sent, received, acked>>

ReadRelock(r) ==
  LET c == Home[r]
  IN  /\ reader[r].pc = "relock"
      /\ MutexFree(c)
      /\ reader' = [reader EXCEPT
           ![r] = [@ EXCEPT !.dl = rdl[c].kind, !.gen = rdl[c].gen,
                            !.pc = "select"]]
      /\ UNCHANGED <<closer, wdl, rdl, pending, writer, sent, received, acked>>

\* net.ErrClosed, a timeout, or io.EOF once the peer closed its channel.
ReadFails(r) ==
  /\ reader[r].pc = "select"
  /\ \/ CloseCtxDone(Home[r])
     \/ reader[r].dl = "soon"
     \/ closer[Peer[Home[r]]] = "closed"
  /\ ReadReturns(r)
  /\ UNCHANGED <<closer, wdl, rdl, pending, writer, sent, received, acked>>

\* The rendezvous of c.write <- res with <-c.read.
HandOver(w, r) ==
  LET c == Home[w]
  IN  /\ writer[w].pc = "select"
      /\ reader[r].pc = "select"
      /\ Peer[c] = Home[r]
      /\ writer' = [writer EXCEPT ![w].pc = "handed"]
      /\ reader' = [reader EXCEPT ![r].pc = "ack",
                                  ![r].from = <<w, writer[w].count>>,
                                  ![r].data = Message(w, writer[w].count)]
      /\ sent' = [sent EXCEPT ![c] = @ \o Message(w, writer[w].count)]
      /\ UNCHANGED <<closer, wdl, rdl, pending, received, acked>>

\* close(result.Ch).
ReadAcks(r) ==
  /\ reader[r].pc = "ack"
  /\ reader' = [reader EXCEPT ![r].pc = "copy", ![r].from = NoMessage]
  /\ UNCHANGED <<closer, wdl, rdl, pending, writer, sent, received, acked>>

\* Mutant: what does not fit is dropped.
ReadCopiesDropping(r) ==
  LET c == Home[r]
      data == reader[r].data
      n == IF Len(data) < reader[r].room THEN Len(data) ELSE reader[r].room
  IN  /\ reader[r].pc = "copy"
      /\ MutexFree(c)
      /\ received' = [received EXCEPT ![c] = @ \o SubSeq(data, 1, n)]
      /\ reader' = [reader EXCEPT ![r].pc = "idle", ![r].data = NoMessage]
      /\ UNCHANGED <<closer, wdl, rdl, pending, writer, sent, acked>>

\* As much as fits goes to the caller, the rest becomes pending.
ReadCopies(r) ==
  LET c == Home[r]
      data == reader[r].data
      n == IF Len(data) < reader[r].room THEN Len(data) ELSE reader[r].room
  IN  /\ reader[r].pc = "copy"
      /\ MutexFree(c)
      /\ received' = [received EXCEPT ![c] = @ \o SubSeq(data, 1, n)]
      /\ pending' = [pending EXCEPT ![c] = @ \o SubSeq(data, n + 1, Len(data))]
      /\ reader' = [reader EXCEPT ![r].pc = "idle", ![r].data = NoMessage]
      /\ UNCHANGED <<closer, wdl, rdl, writer, sent, acked>>

-----------------------------------------------------------------------------
DeadlinesSet == MapThenSumSet(LAMBDA c : wdl[c].gen + rdl[c].gen, Conns)

SetWriteDeadline(c, kind) ==
  /\ MutexFree(c)
  /\ DeadlinesSet < MaxDeadlines
  /\ wdl' = [wdl EXCEPT ![c] = [kind |-> kind, gen |-> @.gen + 1]]
  /\ UNCHANGED <<closer, rdl, pending, writer, reader, sent, received, acked>>

SetReadDeadline(c, kind) ==
  /\ MutexFree(c)
  /\ DeadlinesSet < MaxDeadlines
  /\ rdl' = [rdl EXCEPT ![c] = [kind |-> kind, gen |-> @.gen + 1]]
  /\ UNCHANGED <<closer, wdl, pending, writer, reader, sent, received, acked>>

\* Close cancels the context and waits for the writers with the mutex held.
\* A second Close finds cancelCloseCtx nil and returns.
CloseStart(c) ==
  /\ closer[c] = "open"
  /\ closer' = [closer EXCEPT ![c] = "waiting"]
  /\ UNCHANGED <<wdl, rdl, pending, writer, reader, sent, received, acked>>

\* Mutant: the channel is closed without waiting for the writers.
CloseFinishAtOnce(c) ==
  /\ closer[c] = "waiting"
  /\ closer' = [closer EXCEPT ![c] = "closed"]
  /\ UNCHANGED <<wdl, rdl, pending, writer, reader, sent, received, acked>>

\* All writers returned: the write channel is closed, the mutex released.
CloseFinish(c) ==
  /\ closer[c] = "waiting"
  /\ InWrite(c) = {}
  /\ closer' = [closer EXCEPT ![c] = "closed"]
  /\ UNCHANGED <<wdl, rdl, pending, writer, reader, sent, received, acked>>

-----------------------------------------------------------------------------
Init ==
  /\ closer = [c \in Conns |-> "open"]
  /\ wdl = [c \in Conns |-> [kind |-> "never", gen |-> 0]]
  /\ rdl = [c \in Conns |-> [kind |-> "never", gen |-> 0]]
  /\ pending = [c \in Conns |-> <<>>]
  /\ writer = [w \in Writers |->
                 [pc |-> "idle", count |-> 0, dl |-> "never", gen |-> 0]]
  /\ reader = [r \in Readers |->
                 [pc |-> "idle", room |-> 0, dl |-> "never", gen |-> 0,
                  from |-> NoMessage, data |-> NoMessage]]
  /\ sent = [c \in Conns |-> <<>>]
  /\ received = [c \in Conns |-> <<>>]
  /\ acked = {}

\* The steps a goroutine inside Write or Read takes by itself.
WriteStep(w) == WriteNoticesDeadline(w) \/ WriteRelock(w) \/ WriteFails(w)
                  \/ WriteAcked(w)
ReadStep(r) == ReadNoticesDeadline(r) \/ ReadRelock(r) \/ ReadFails(r)
                 \/ ReadAcks(r) \/ ReadCopies(r)

Next ==
  \/ \E w \in Writers : WriteStart(w) \/ WriteStep(w)
  \/ \E r \in Readers : ReadStep(r) \/ \E len \in BufLens : ReadStart(r, len)
  \/ \E w \in Writers, r \in Readers : HandOver(w, r)
  \/ \E kind \in {"never", "soon"} :
       \/ \E w \in Writers : SetWriteDeadline(Home[w], kind)
       \/ \E r \in Readers : SetReadDeadline(Home[r], kind)
  \/ \E c \in Closable : CloseStart(c) \/ CloseFinish(c)

Spec == Init /\ [][Next]_vars

(***************************************************************************)
(* Scheduling: a goroutine that can go on does; the Go runtime lets timers *)
(* fire and wakes goroutines up.  Nobody is obliged to call anything.      *)
(***************************************************************************)
LiveSpec ==
  /\ Spec
  /\ \A w \in Writers : WF_vars(WriteStep(w))
  /\ \A r \in Readers : WF_vars(ReadStep(r))
  /\ \A c \in Closable : WF_vars(CloseFinish(c))

-----------------------------------------------------------------------------
(***************************************************************************)
(* A send on a closed channel panics: once Close closed the write channel  *)
(* no Write is offering anything on it, and none will start to.            *)
(***************************************************************************)
NoSendOnClosed ==
  \A w \in Writers : closer[Home[w]] = "closed" => writer[w].pc = "idle"

(***************************************************************************)
(* With one reader per conn the stream arrives whole and in order: what    *)
(* Read gave out, what is pending and what the reader is holding are, in   *)
(* this order, exactly the bytes handed over by the peer, and no message   *)
(* was handed over twice, whatever timed out, was closed or got a new      *)
(* deadline in between.                                                    *)
(***************************************************************************)
Held(c) == IF \E r \in Readers : Home[r] = c
           THEN reader[CHOOSE r \in Readers : Home[r] = c].data ELSE <<>>
StreamIntact ==
  \A c \in Conns :
    /\ received[c] \o pending[c] \o Held(c) = sent[Peer[c]]
    /\ IsInjective(sent[c])

(***************************************************************************)
(* Success means delivery: a message whose Write returned its length was   *)
(* taken by a Read of the peer.                                            *)
(***************************************************************************)
AckedWasDelivered ==
  \A m \in acked : \A i \in 1..MsgLen :
    \E k \in DOMAIN sent[Home[m[1]]] : sent[Home[m[1]]][k] = <<m[1], m[2], i>>

\* Nothing is lost, repeated or reordered, and success means delivery.
StreamIsReliable == StreamIntact /\ AckedWasDelivered

(***************************************************************************)
(* The comment in Write promises protection from "a deadlock between Lock  *)
(* below and wg.Wait in close": a Close that was started returns.          *)
(***************************************************************************)
CloseReturns == \A c \in Conns : (closer[c] = "waiting") ~> (closer[c] = "closed")

(***************************************************************************)
(* Where that promise holds: a Close that starts while no Write of the     *)
(* conn has a deadline change still to notice or to take over returns.     *)
(***************************************************************************)
Settled(c) ==
  \A w \in Writers : (Home[w] = c /\ writer[w].pc # "idle") =>
    writer[w].pc \in {"select", "handed"} /\ writer[w].gen = wdl[c].gen

SettledCloseReturns ==
  \A c \in Conns : (closer[c] = "waiting" /\ Settled(c)) ~> (closer[c] = "closed")

(***************************************************************************)
(* Deadlines reach goroutines that are blocked already: with a deadline    *)
(* set, every Write and every Read in progress returns, also when it had   *)
(* another deadline before or the change comes while it takes over an      *)
(* earlier one, unless the deadline is lifted again or the conn is being   *)
(* closed.                                                                 *)
(***************************************************************************)
DeadlineWakes ==
  /\ \A w \in Writers :
       (writer[w].pc # "idle" /\ wdl[Home[w]].kind = "soon")
         ~> (\/ writer[w].pc = "idle" \/ wdl[Home[w]].kind = "never"
             \/ closer[Home[w]] # "open")
  /\ \A r \in Readers :
       (reader[r].pc # "idle" /\ rdl[Home[r]].kind = "soon")
         ~> (\/ reader[r].pc = "idle" \/ rdl[Home[r]].kind = "never"
             \/ closer[Home[r]] # "open")

\* Whoever waits on a conn with a deadline, or in Close, gets on.
WaitsEnd == DeadlineWakes /\ SettledCloseReturns
=============================================================================
