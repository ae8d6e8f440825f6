--------------------------- MODULE ChanConnProofs ---------------------------
(***************************************************************************)
(* For any number of conns, goroutines, deadlines and message sizes: Close *)
(* never closes the write channel under a running Write, and what is read  *)
(* at one end of a pair is what was written at the other.                  *)
(***************************************************************************)
EXTENDS ChanConn, SequenceTheorems, TLAPS

\* What the argument needs to know of the variables' shape.
WriterShape ==
  /\ closer \in [Conns -> {"open", "waiting", "closed"}]
  /\ wdl \in [Conns -> [kind : {"never", "soon"}, gen : Nat]]
  /\ writer \in [Writers ->
                   [pc : {"idle", "select", "relock", "handed", "relockHanded"},
                    count : Nat, dl : {"never", "soon"}, gen : Nat]]

SafeInv == WriterShape /\ NoSendOnClosed

\* At first every conn is open and every writer idle.
LEMMA InitSafe == Init => SafeInv
BY ConnAssumption DEF Init, SafeInv, WriterShape, NoSendOnClosed

\* Starting a Write: under the mutex the conn is either found open, or the
\* call returns without ever offering its message.
LEMMA WriteStartSafe ==
  ASSUME SafeInv, NEW w \in Writers, WriteStart(w)
  PROVE  SafeInv'
<1>0. Home[w] \in Conns
  BY ConnAssumption
<1>1. WriterShape'
  BY <1>0 DEF SafeInv, WriterShape, WriteStart
<1>2. NoSendOnClosed'
  BY <1>0 DEF SafeInv, WriterShape, NoSendOnClosed, WriteStart, CloseCtxDone
<1> QED  BY <1>1, <1>2 DEF SafeInv

\* A Write in progress: its conn is not closed, and no step of it closes it.
LEMMA WriteStepSafe ==
  ASSUME SafeInv, NEW w \in Writers, WriteStep(w)
  PROVE  SafeInv'
<1>0. Home[w] \in Conns
  BY ConnAssumption
<1>1. CASE WriteNoticesDeadline(w)
  BY SMTT(30), <1>0, <1>1 DEF SafeInv, WriterShape, NoSendOnClosed, WriteNoticesDeadline,
                    WriteReturns
<1>2. CASE WriteRelock(w)
  BY <1>0, <1>2 DEF SafeInv, WriterShape, NoSendOnClosed, WriteRelock
<1>3. CASE WriteFails(w)
  BY <1>0, <1>3 DEF SafeInv, WriterShape, NoSendOnClosed, WriteFails, WriteReturns
<1>4. CASE WriteAcked(w)
  BY <1>0, <1>4 DEF SafeInv, WriterShape, NoSendOnClosed, WriteAcked, WriteReturns
<1> QED  BY <1>1, <1>2, <1>3, <1>4 DEF WriteStep

\* The rendezvous moves a writer that is offering already.
LEMMA HandOverSafe ==
  ASSUME SafeInv, NEW w \in Writers, NEW r \in Readers, HandOver(w, r)
  PROVE  SafeInv'
<1>1. writer' = [writer EXCEPT ![w].pc = "handed"] /\ writer[w].pc = "select"
      /\ closer' = closer /\ wdl' = wdl
  BY DEF HandOver
<1> QED  BY <1>1 DEF SafeInv, WriterShape, NoSendOnClosed

\* The invariant does not look at readers and their deadlines.
LEMMA OthersSafe ==
  ASSUME SafeInv, writer' = writer, closer' = closer, wdl' = wdl
  PROVE  SafeInv'
BY DEF SafeInv, WriterShape, NoSendOnClosed

\* Close gets past its wait only when no Write of the conn is left.
LEMMA CloseSafe ==
  ASSUME SafeInv, NEW c \in Conns, CloseStart(c) \/ CloseFinish(c)
  PROVE  SafeInv'
<1>1. CASE CloseStart(c)
  BY <1>1, ConnAssumption
     DEF SafeInv, WriterShape, NoSendOnClosed, CloseStart
<1>2. CASE CloseFinish(c)
  <2>1. \A w \in Writers : Home[w] = c => writer[w].pc = "idle"
    BY <1>2 DEF CloseFinish, InWrite
  <2> QED  BY <1>2, <2>1, ConnAssumption
              DEF SafeInv, WriterShape, NoSendOnClosed, CloseFinish
<1> QED  BY <1>1, <1>2

\* Every step of every goroutine keeps the invariant.
LEMMA NextSafe == SafeInv /\ [Next]_vars => SafeInv'
<1> SUFFICES ASSUME SafeInv, [Next]_vars PROVE SafeInv'
  OBVIOUS
<1>1. ASSUME NEW w \in Writers, WriteStart(w) \/ WriteStep(w) PROVE SafeInv'
  BY <1>1, WriteStartSafe, WriteStepSafe
<1>2. ASSUME NEW r \in Readers,
             ReadStep(r) \/ \E len \in BufLens : ReadStart(r, len)
      PROVE  SafeInv'
  <2>1. writer' = writer /\ closer' = closer /\ wdl' = wdl
    BY <1>2 DEF ReadStep, ReadStart, ReadNoticesDeadline, ReadRelock, ReadFails,
                ReadAcks, ReadCopies
  <2> QED  BY <2>1, OthersSafe
<1>3. ASSUME NEW w \in Writers, NEW r \in Readers, HandOver(w, r) PROVE SafeInv'
  BY <1>3, HandOverSafe
<1>4. ASSUME NEW w \in Writers, NEW kind \in {"never", "soon"},
             SetWriteDeadline(Home[w], kind)
      PROVE  SafeInv'
  <2>1. Home[w] \in Conns
    BY ConnAssumption
  <2> QED  BY <1>4, <2>1 DEF SafeInv, WriterShape, NoSendOnClosed, SetWriteDeadline
<1>5. ASSUME NEW r \in Readers, NEW kind \in {"never", "soon"},
             SetReadDeadline(Home[r], kind)
      PROVE  SafeInv'
  BY <1>5, OthersSafe DEF SetReadDeadline
<1>6. ASSUME NEW c \in Closable, CloseStart(c) \/ CloseFinish(c) PROVE SafeInv'
  BY <1>6, CloseSafe, ConnAssumption
<1>7. CASE UNCHANGED vars
  BY <1>7, OthersSafe DEF vars
<1> QED  BY <1>1, <1>2, <1>3, <1>4, <1>5, <1>6, <1>7 DEF Next

(***************************************************************************)
(* No Write ever sends on a closed channel, which would panic: Close       *)
(* closes it only after the last Write returned, and later calls see the   *)
(* conn closed before they offer anything.                                 *)
(***************************************************************************)
THEOREM WritesNeverPanic == Spec => []NoSendOnClosed
<1>1. SafeInv => NoSendOnClosed
  BY DEF SafeInv
<1> QED  BY InitSafe, NextSafe, <1>1, PTL DEF Spec

-----------------------------------------------------------------------------
(***************************************************************************)
(* The stream between two conns, each read by one goroutine at a time.     *)
(***************************************************************************)
OneReaderEach == \A r, s \in Readers : Home[r] = Home[s] => r = s

Byte == Writers \X Nat \X Nat
ReaderState == [pc : {"idle", "select", "relock", "ack", "copy"}, room : Nat,
                dl : {"never", "soon"}, gen : Nat,
                from : {NoMessage} \cup (Writers \X Nat), data : Seq(Byte)]

StreamShape ==
  /\ rdl \in [Conns -> [kind : {"never", "soon"}, gen : Nat]]
  /\ pending \in [Conns -> Seq(Byte)]
  /\ sent \in [Conns -> Seq(Byte)]
  /\ received \in [Conns -> Seq(Byte)]
  /\ reader \in [Readers -> ReaderState]
  /\ acked \subseteq Writers \X Nat

\* A reader holds bytes between the rendezvous and the copy only, and waits
\* only after it has emptied c.pending.
ReadersInv ==
  \A r \in Readers :
    /\ reader[r].pc \notin {"ack", "copy"} => reader[r].data = <<>>
    /\ reader[r].pc # "idle" => pending[Home[r]] = <<>>

\* What a conn has handed over are bytes of its own writers' earlier calls;
\* of the call that still offers its message there is none.
SentIsPast ==
  \A c \in Conns : \A i \in DOMAIN sent[c] :
    LET w == sent[c][i][1]
        k == sent[c][i][2]
    IN  /\ Home[w] = c /\ k <= writer[w].count
        /\ writer[w].pc \in {"select", "relock"} => k < writer[w].count

SentOnce == \A c \in Conns : IsInjective(sent[c])

Delivered(w, k) ==
  \A i \in 1..MsgLen : \E j \in DOMAIN sent[Home[w]] : sent[Home[w]][j] = <<w, k, i>>

HandedIsSent ==
  \A w \in Writers : writer[w].pc \in {"handed", "relockHanded"} =>
    Delivered(w, writer[w].count)

AckedIsSent == \A m \in acked : Delivered(m[1], m[2])

InOrder == \A c \in Conns : received[c] \o pending[c] \o Held(c) = sent[Peer[c]]

StreamInv == /\ SafeInv /\ StreamShape /\ ReadersInv /\ SentIsPast /\ SentOnce
             /\ HandedIsSent /\ AckedIsSent /\ InOrder

LEMMA StreamInitInv == OneReaderEach /\ Init => StreamInv
  <1> SUFFICES ASSUME Init PROVE StreamInv
    OBVIOUS
  <1> USE DEF Init
  <1>1. SafeInv
    BY InitSafe
  <1>2. <<>> \in Seq(Byte) /\ Len(<<>>) = 0 /\ DOMAIN <<>> = {} /\ <<>> \o <<>> = <<>>
    BY EmptySeq, ConcatEmptySeq
  <1>3. StreamShape
    BY <1>2, ConnAssumption DEF StreamShape, ReaderState, NoMessage
  <1>4. ReadersInv
    BY ConnAssumption DEF ReadersInv, NoMessage
  <1>5. SentIsPast /\ SentOnce
    BY <1>2 DEF SentIsPast, SentOnce, IsInjective
  <1>6. HandedIsSent /\ AckedIsSent
    BY DEF HandedIsSent, AckedIsSent
  <1>7. InOrder
    <2> SUFFICES ASSUME NEW c \in Conns PROVE Held(c) = <<>>
      BY <1>2, ConnAssumption DEF InOrder
    <2> QED BY DEF Held, NoMessage
  <1> QED BY <1>1, <1>3, <1>4, <1>5, <1>6, <1>7 DEF StreamInv

\* The bytes the one reader of a conn holds.
LEMMA HeldIs ==
  ASSUME OneReaderEach, NEW r \in Readers
  PROVE  Held(Home[r]) = reader[r].data /\ Held(Home[r])' = reader'[r].data
  <1>1. (CHOOSE s \in Readers : Home[s] = Home[r]) = r
    BY DEF OneReaderEach
  <1> QED BY <1>1 DEF Held

LEMMA HeldKept ==
  ASSUME NEW c, \A s \in Readers : Home[s] = c => reader'[s].data = reader[s].data
  PROVE  Held(c)' = Held(c)
  <1>1. CASE \E s \in Readers : Home[s] = c
    <2>1. (CHOOSE s \in Readers : Home[s] = c) \in {s \in Readers : Home[s] = c}
      BY <1>1
    <2> QED BY <1>1, <2>1 DEF Held
  <1>2. CASE ~\E s \in Readers : Home[s] = c
    BY <1>2 DEF Held
  <1> QED BY <1>1, <1>2

\* A step of a writer that hands nothing over.
LEMMA WriterMoves ==
  ASSUME StreamInv, SafeInv', NEW w \in Writers, UNCHANGED <<rdl, pending, reader, sent, received>>,
         \A v \in Writers \ {w} : writer'[v] = writer[v],
         \/ writer'[w].count > writer[w].count
         \/ /\ writer'[w].count = writer[w].count
            /\ writer'[w].pc \in {"select", "relock"} => writer[w].pc \in {"select", "relock"},
         writer'[w].pc \in {"handed", "relockHanded"} =>
           writer'[w].count = writer[w].count /\ writer[w].pc \in {"handed", "relockHanded"},
         acked' \subseteq acked \cup {<<w, writer[w].count>>},
         acked' # acked => writer[w].pc \in {"handed", "relockHanded"}
  PROVE  StreamInv'
  <1> USE DEF StreamInv
  <1>1. \A v \in Writers : writer[v].count \in Nat /\ writer'[v].count \in Nat
    BY DEF SafeInv, WriterShape
  <1>2. StreamShape'
    <2>1. acked' \subseteq Writers \X Nat
      BY <1>1 DEF StreamShape
    <2> QED BY <2>1 DEF StreamShape
  <1>3. ReadersInv'
    BY DEF ReadersInv
  <1>4. SentIsPast'
    <2> SUFFICES ASSUME NEW c \in Conns, NEW i \in DOMAIN sent[c], NEW v, NEW k,
                        v = sent[c][i][1], k = sent[c][i][2]
                 PROVE  /\ Home[v] = c /\ k <= writer'[v].count
                        /\ writer'[v].pc \in {"select", "relock"} => k < writer'[v].count
      BY DEF SentIsPast
    <2>1. sent[c][i] \in Byte
      BY DEF StreamShape
    <2>2. v \in Writers /\ k \in Nat
      BY <2>1 DEF Byte
    <2>3. /\ Home[v] = c /\ k <= writer[v].count
          /\ writer[v].pc \in {"select", "relock"} => k < writer[v].count
      BY DEF SentIsPast
    <2>4. CASE v # w
      BY <2>2, <2>3, <2>4
    <2>5. CASE v = w
      BY <1>1, <2>2, <2>3, <2>5
    <2> QED BY <2>4, <2>5
  <1>5. SentOnce'
    BY DEF SentOnce
  <1>6. \A v \in Writers : \A k : Delivered(v, k)' <=> Delivered(v, k)
    BY DEF Delivered
  <1>7. HandedIsSent'
    BY <1>6 DEF HandedIsSent
  <1>8. AckedIsSent'
    <2> SUFFICES ASSUME NEW m \in acked', m \notin acked PROVE Delivered(m[1], m[2])'
      <3>1. \A m \in acked : m[1] \in Writers
        BY DEF StreamShape
      <3> QED BY <3>1, <1>6 DEF AckedIsSent
    <2>1. m = <<w, writer[w].count>> /\ writer[w].pc \in {"handed", "relockHanded"}
      OBVIOUS
    <2> QED BY <1>6, <2>1 DEF HandedIsSent
  <1>9. InOrder'
    BY HeldKept DEF InOrder
  <1> QED BY <1>2, <1>3, <1>4, <1>5, <1>7, <1>8, <1>9

\* Write: its own steps.
LEMMA WriteStreams ==
  ASSUME StreamInv, NEW w \in Writers, WriteStart(w) \/ WriteStep(w)
  PROVE  StreamInv'
  <1>0. SafeInv'
    BY WriteStartSafe, WriteStepSafe DEF StreamInv
  <1>1. UNCHANGED <<rdl, pending, reader, sent, received>>
    BY DEF WriteStart, WriteStep, WriteNoticesDeadline, WriteRelock, WriteFails, WriteAcked
  <1>2. /\ Home[w] \in Conns /\ writer \in [Writers ->
             [pc : {"idle", "select", "relock", "handed", "relockHanded"},
              count : Nat, dl : {"never", "soon"}, gen : Nat]]
        /\ wdl \in [Conns -> [kind : {"never", "soon"}, gen : Nat]]
    BY ConnAssumption DEF StreamInv, SafeInv, WriterShape
  <1>3. CASE WriteStart(w)
    <2>1. acked' = acked
      BY <1>3 DEF WriteStart
    <2>2. /\ \A v \in Writers \ {w} : writer'[v] = writer[v]
          /\ writer'[w].count = writer[w].count + 1
          /\ writer'[w].pc \in {"idle", "select"}
      BY <1>2, <1>3 DEF WriteStart
    <2> QED BY <1>0, <1>1, <1>2, <2>1, <2>2, WriterMoves
  <1>4. CASE WriteNoticesDeadline(w)
    <2>1. /\ acked' = acked
          /\ \A v \in Writers \ {w} : writer'[v] = writer[v]
          /\ writer'[w].count = writer[w].count
          /\ writer'[w].pc \in {"select", "relock"} => writer[w].pc \in {"select", "relock"}
          /\ writer'[w].pc \in {"handed", "relockHanded"} =>
               writer[w].pc \in {"handed", "relockHanded"}
      BY <1>2, <1>4 DEF WriteNoticesDeadline, WriteReturns
    <2> QED BY <1>0, <1>1, <2>1, WriterMoves
  <1>5. CASE WriteRelock(w)
    <2>1. /\ acked' = acked
          /\ \A v \in Writers \ {w} : writer'[v] = writer[v]
          /\ writer'[w].count = writer[w].count
          /\ writer'[w].pc \in {"select", "relock"} => writer[w].pc \in {"select", "relock"}
          /\ writer'[w].pc \in {"handed", "relockHanded"} =>
               writer[w].pc \in {"handed", "relockHanded"}
      BY <1>2, <1>5 DEF WriteRelock
    <2> QED BY <1>0, <1>1, <2>1, WriterMoves
  <1>6. CASE WriteFails(w) \/ WriteAcked(w)
    <2>1. /\ acked' \subseteq acked \cup {<<w, writer[w].count>>}
          /\ acked' # acked => writer[w].pc \in {"handed", "relockHanded"}
      BY <1>6 DEF WriteFails, WriteAcked
    <2>2. /\ \A v \in Writers \ {w} : writer'[v] = writer[v]
          /\ writer'[w].count = writer[w].count
          /\ writer'[w].pc = "idle"
      BY <1>2, <1>6 DEF WriteFails, WriteAcked, WriteReturns
    <2> QED BY <1>0, <1>1, <2>1, <2>2, WriterMoves
  <1> QED BY <1>3, <1>4, <1>5, <1>6 DEF WriteStep

\* A sequence is what comes before a place of it and what comes after.
LEMMA SplitAt ==
  ASSUME NEW S, NEW s \in Seq(S), NEW n \in 0..Len(s)
  PROVE  /\ SubSeq(s, 1, n) \in Seq(S) /\ SubSeq(s, n + 1, Len(s)) \in Seq(S)
         /\ SubSeq(s, 1, n) \o SubSeq(s, n + 1, Len(s)) = s
  <1>1. \A i \in 1..Len(s) : s[i] \in S
    BY ElementOfSeq
  <1>2. Len(s) \in Nat
    BY LenProperties
  <1>3. SubSeq(s, 1, n) \in Seq(S)
    <2>1. \A i \in 1..n : s[i] \in S
      BY <1>1, <1>2
    <2> QED BY <1>2, <2>1, SubSeqProperties
  <1>4. SubSeq(s, n + 1, Len(s)) \in Seq(S)
    <2>1. \A i \in (n + 1)..Len(s) : s[i] \in S
      BY <1>1, <1>2
    <2> QED BY <1>2, <2>1, SubSeqProperties
  <1>5. SubSeq(s, 1, n) \o SubSeq(s, n + 1, Len(s)) = SubSeq(s, 1, Len(s))
    <2>1. 1 \in 1..Len(s) + 1 /\ n \in 1 - 1..Len(s) /\ Len(s) \in n..Len(s)
      BY <1>2
    <2> QED BY <2>1, ConcatAdjacentSubSeq
  <1> QED BY <1>3, <1>4, <1>5, SubSeqFull

\* Bytes move from the front of the second part to the back of the first.
LEMMA Regroup ==
  ASSUME NEW S, NEW a \in Seq(S), NEW x \in Seq(S), NEW y \in Seq(S), NEW c \in Seq(S)
  PROVE  (a \o x) \o y \o c = a \o (x \o y) \o c
  OBVIOUS

LEMMA ReadStartStreams ==
  ASSUME OneReaderEach, StreamInv, NEW r \in Readers, NEW len \in BufLens, ReadStart(r, len)
  PROVE  StreamInv'
  <1> DEFINE c == Home[r]
             p == pending[c]
             n == IF Len(p) < len THEN Len(p) ELSE len
  <1>1. c \in Conns /\ len \in Nat /\ reader[r].pc = "idle"
        /\ UNCHANGED <<closer, wdl, rdl, writer, sent, acked>>
    BY ConnAssumption DEF ReadStart
  <1>2. p \in Seq(Byte) /\ Len(p) \in Nat /\ n \in 0..Len(p) /\ n <= len
    BY <1>1, LenProperties DEF StreamInv, StreamShape
  <1> HIDE DEF c, p, n
  <1>3. CASE UNCHANGED <<received, pending, reader>>
    <2>1. UNCHANGED vars
      BY <1>1, <1>3 DEF vars
    <2>2. Held(c)' = Held(c) /\ \A d : Held(d)' = Held(d)
      BY <1>3, HeldKept
    <2>3. SafeInv'
      BY <1>1, OthersSafe DEF StreamInv
    <2>4. StreamShape' /\ ReadersInv'
      BY <2>1 DEF vars, StreamInv, StreamShape, ReadersInv
    <2>5. SentIsPast' /\ SentOnce' /\ HandedIsSent' /\ AckedIsSent'
      BY <2>1 DEF vars, StreamInv, SentIsPast, SentOnce, HandedIsSent, AckedIsSent, Delivered
    <2>6. InOrder'
      BY <2>1, <2>2 DEF vars, StreamInv, InOrder
    <2> QED BY <2>3, <2>4, <2>5, <2>6 DEF StreamInv
  <1>4. CASE /\ received' = [received EXCEPT ![c] = @ \o SubSeq(p, 1, n)]
             /\ pending' = [pending EXCEPT ![c] = SubSeq(p, n + 1, Len(p))]
             /\ IF CloseCtxDone(c) \/ n = len THEN UNCHANGED reader
                ELSE reader' = [reader EXCEPT
                       ![r] = [@ EXCEPT !.pc = "select", !.room = len - n,
                                        !.dl = rdl[c].kind, !.gen = rdl[c].gen]]
    <2>1. SafeInv'
      BY <1>1, OthersSafe DEF StreamInv
    <2>2. SubSeq(p, 1, n) \in Seq(Byte) /\ SubSeq(p, n + 1, Len(p)) \in Seq(Byte)
      BY <1>2, SplitAt
    <2>3. received' \in [Conns -> Seq(Byte)] /\ pending' \in [Conns -> Seq(Byte)]
      <3>1. received[c] \o SubSeq(p, 1, n) \in Seq(Byte)
        BY <1>1, <2>2, ConcatProperties DEF StreamInv, StreamShape
      <3> QED BY <1>4, <2>2, <3>1 DEF StreamInv, StreamShape
    <2>4. /\ reader' \in [Readers -> ReaderState]
          /\ \A s \in Readers : reader'[s].data = reader[s].data
          /\ \A s \in Readers \ {r} : reader'[s] = reader[s]
          /\ reader'[r].pc \in {"idle", "select"} /\ (reader'[r].pc = "select" => n # len)
      <3>1. reader \in [Readers -> ReaderState] /\ reader[r] \in ReaderState
        BY DEF StreamInv, StreamShape
      <3>2. CASE UNCHANGED reader
        BY <1>1, <3>1, <3>2
      <3>3. CASE reader' # reader
        <4> DEFINE x == [reader[r] EXCEPT !.pc = "select", !.room = len - n,
                                           !.dl = rdl[c].kind, !.gen = rdl[c].gen]
        <4>1. reader' = [reader EXCEPT ![r] = x] /\ n # len
          BY <1>4, <3>3
        <4>2. len - n \in Nat
          BY <1>1, <1>2
        <4>3. rdl[c].kind \in {"never", "soon"} /\ rdl[c].gen \in Nat
          BY <1>1 DEF StreamInv, StreamShape
        <4>4. x \in ReaderState /\ x.pc = "select" /\ x.data = reader[r].data
          BY <3>1, <4>2, <4>3 DEF ReaderState
        <4> HIDE DEF x
        <4> QED BY <3>1, <4>1, <4>4
      <3> QED BY <3>2, <3>3
    <2>5. StreamShape'
      BY <1>1, <2>3, <2>4 DEF StreamInv, StreamShape
    <2>6. reader'[r].pc # "idle" => pending'[c] = <<>>
      <3>1. reader'[r].pc # "idle" => n = Len(p)
        BY <1>1, <1>2, <2>4 DEF n
      <3>2. n = Len(p) => SubSeq(p, n + 1, Len(p)) = <<>>
        BY <1>2, SubSeqEmpty
      <3> QED BY <1>1, <1>4, <3>1, <3>2 DEF StreamInv, StreamShape
    <2>7. ReadersInv'
      <3> SUFFICES ASSUME NEW s \in Readers
                   PROVE  /\ reader'[s].pc \notin {"ack", "copy"} => reader'[s].data = <<>>
                          /\ reader'[s].pc # "idle" => pending'[Home[s]] = <<>>
        BY DEF ReadersInv
      <3>1. CASE s = r
        BY <1>1, <2>4, <2>6, <3>1 DEF StreamInv, ReadersInv, c
      <3>2. CASE s # r
        <4>1. Home[s] # c
          BY <3>2 DEF OneReaderEach, c
        <4>2. Home[s] \in Conns
          BY ConnAssumption
        <4> QED BY <1>4, <2>4, <3>2, <4>1, <4>2 DEF StreamInv, StreamShape, ReadersInv
      <3> QED BY <3>1, <3>2
    <2>8. InOrder'
      <3> SUFFICES ASSUME NEW d \in Conns
                   PROVE  received'[d] \o pending'[d] \o Held(d)' = sent[Peer[d]]
        BY <1>1 DEF InOrder
      <3>1. Held(d)' = Held(d) /\ received[d] \o pending[d] \o Held(d) = sent[Peer[d]]
        BY <2>4, HeldKept DEF StreamInv, InOrder
      <3>2. CASE d # c
        BY <1>4, <3>1, <3>2 DEF StreamInv, StreamShape
      <3>3. CASE d = c
        <4>1. received'[d] = received[d] \o SubSeq(p, 1, n) /\ pending'[d] = SubSeq(p, n + 1, Len(p))
          BY <1>4, <3>3 DEF StreamInv, StreamShape
        <4>2. Held(d) \in Seq(Byte)
          BY <3>3, HeldIs DEF StreamInv, StreamShape, ReaderState, c
        <4>3. received[d] \in Seq(Byte) /\ pending[d] = p
          BY <3>3 DEF StreamInv, StreamShape, p
        <4>4. (received[d] \o SubSeq(p, 1, n)) \o SubSeq(p, n + 1, Len(p)) \o Held(d)
                = received[d] \o p \o Held(d)
          <5>1. PICK a \in Seq(Byte), x \in Seq(Byte), y \in Seq(Byte), z \in Seq(Byte) :
                  /\ a = received[d] /\ z = Held(d)
                  /\ x = SubSeq(p, 1, n) /\ y = SubSeq(p, n + 1, Len(p))
            BY <2>2, <4>2, <4>3
          <5>2. p = x \o y
            BY <1>2, <5>1, SplitAt
          <5>3. (a \o x) \o y \o z = a \o (x \o y) \o z
            <6>1. a \in Seq(Byte) /\ x \in Seq(Byte) /\ y \in Seq(Byte) /\ z \in Seq(Byte)
              BY <5>1
            <6> QED BY SMTT(30), <6>1, Regroup
          <5> QED BY <5>1, <5>2, <5>3
        <4> QED BY <3>1, <4>1, <4>3, <4>4
      <3> QED BY <3>2, <3>3
    <2>9. SentIsPast' /\ SentOnce' /\ HandedIsSent' /\ AckedIsSent'
      BY <1>1 DEF StreamInv, SentIsPast, SentOnce, HandedIsSent, AckedIsSent, Delivered
    <2> QED BY <2>1, <2>5, <2>7, <2>8, <2>9 DEF StreamInv
  <1> QED BY <1>3, <1>4 DEF ReadStart, c, p, n

\* A step of a reader that moves no bytes.
LEMMA ReaderMoves ==
  ASSUME StreamInv, UNCHANGED <<closer, wdl, rdl, pending, writer, sent, received, acked>>,
         NEW r \in Readers, NEW x \in ReaderState, reader' = [reader EXCEPT ![r] = x],
         x.data = reader[r].data,
         x.pc \notin {"ack", "copy"} => reader[r].pc \notin {"ack", "copy"},
         x.pc # "idle" => reader[r].pc # "idle"
  PROVE  StreamInv'
  <1>1. SafeInv'
    BY OthersSafe DEF StreamInv
  <1>2. /\ reader' \in [Readers -> ReaderState] /\ reader'[r] = x
        /\ \A s \in Readers \ {r} : reader'[s] = reader[s]
    BY DEF StreamInv, StreamShape
  <1>3. StreamShape'
    BY <1>2 DEF StreamInv, StreamShape
  <1>4. ReadersInv'
    BY <1>2 DEF StreamInv, ReadersInv
  <1>5. SentIsPast' /\ SentOnce' /\ HandedIsSent' /\ AckedIsSent'
    <2>1. \A w, k : Delivered(w, k)' <=> Delivered(w, k)
      BY DEF Delivered
    <2>2. HandedIsSent' /\ AckedIsSent'
      BY <2>1 DEF StreamInv, HandedIsSent, AckedIsSent
    <2>3. SentOnce'
      BY DEF StreamInv, SentOnce
    <2>4. SentIsPast'
      BY DEF StreamInv, SentIsPast
    <2> QED BY <2>2, <2>3, <2>4
  <1>6. InOrder'
    <2>1. \A s \in Readers : reader'[s].data = reader[s].data
      BY <1>2
    <2> QED BY <2>1, HeldKept DEF StreamInv, InOrder
  <1> QED BY <1>1, <1>3, <1>4, <1>5, <1>6 DEF StreamInv

LEMMA ReadWaitStreams ==
  ASSUME StreamInv, NEW r \in Readers,
         ReadNoticesDeadline(r) \/ ReadRelock(r) \/ ReadFails(r) \/ ReadAcks(r)
  PROVE  StreamInv'
  <1>1. UNCHANGED <<closer, wdl, rdl, pending, writer, sent, received, acked>>
    BY DEF ReadNoticesDeadline, ReadRelock, ReadFails, ReadAcks
  <1>2. reader[r] \in ReaderState /\ reader \in [Readers -> ReaderState]
    BY DEF StreamInv, StreamShape
  <1>3. CASE ReadNoticesDeadline(r) \/ ReadFails(r)
    <2>1. PICK pc \in {"idle", "relock"} : reader' = [reader EXCEPT ![r].pc = pc]
      BY <1>3 DEF ReadNoticesDeadline, ReadFails, ReadReturns
    <2> DEFINE x == [reader[r] EXCEPT !.pc = pc]
    <2>2. x \in ReaderState /\ x.data = reader[r].data /\ x.pc = pc
      BY <1>2, <2>1 DEF ReaderState
    <2>3. reader' = [reader EXCEPT ![r] = x]
      BY <1>2, <2>1
    <2>4. reader[r].pc = "select"
      BY <1>3 DEF ReadNoticesDeadline, ReadFails
    <2> HIDE DEF x
    <2> QED BY <1>1, <2>1, <2>2, <2>3, <2>4, ReaderMoves
  <1>4. CASE ReadRelock(r)
    <2> DEFINE dl == rdl[Home[r]]
               x == [reader[r] EXCEPT !.dl = dl.kind, !.gen = dl.gen, !.pc = "select"]
    <2>1. dl.kind \in {"never", "soon"} /\ dl.gen \in Nat
      BY ConnAssumption DEF StreamInv, StreamShape
    <2>2. x \in ReaderState /\ x.data = reader[r].data /\ x.pc = "select"
      BY <1>2, <2>1 DEF ReaderState
    <2>3. reader' = [reader EXCEPT ![r] = x] /\ reader[r].pc = "relock"
      BY <1>4 DEF ReadRelock
    <2> HIDE DEF x
    <2> QED BY <1>1, <2>2, <2>3, ReaderMoves
  <1>5. CASE ReadAcks(r)
    <2> DEFINE x == [reader[r] EXCEPT !.pc = "copy", !.from = NoMessage]
    <2>1. x \in ReaderState /\ x.data = reader[r].data /\ x.pc = "copy"
      BY <1>2 DEF ReaderState
    <2>2. reader' = [reader EXCEPT ![r] = x] /\ reader[r].pc = "ack"
      BY <1>2, <1>5 DEF ReadAcks
    <2> HIDE DEF x
    <2> QED BY <1>1, <2>1, <2>2, ReaderMoves
  <1> QED BY <1>3, <1>4, <1>5

\* What the reader holds goes to the caller and, for the rest, to c.pending.
LEMMA ReadCopiesStreams ==
  ASSUME OneReaderEach, StreamInv, NEW r \in Readers, ReadCopies(r)
  PROVE  StreamInv'
  <1> DEFINE c == Home[r]
             data == reader[r].data
             n == IF Len(data) < reader[r].room THEN Len(data) ELSE reader[r].room
             x == [reader[r] EXCEPT !.pc = "idle", !.data = NoMessage]
  <1>1. reader[r] \in ReaderState /\ reader \in [Readers -> ReaderState] /\ c \in Conns
    BY ConnAssumption DEF StreamInv, StreamShape
  <1>2. data \in Seq(Byte) /\ Len(data) \in Nat /\ reader[r].room \in Nat
    BY <1>1, LenProperties DEF ReaderState
  <1>3. n \in 0..Len(data)
    BY <1>2
  <1>4. x \in ReaderState /\ x.data = <<>> /\ x.pc = "idle"
    <2>1. NoMessage \in Seq(Byte) /\ NoMessage = <<>>
      BY EmptySeq DEF NoMessage
    <2> QED BY <1>1, <2>1 DEF ReaderState
  <1>5. UNCHANGED <<closer, wdl, rdl, writer, sent, acked>> /\ reader[r].pc = "copy"
        /\ reader' = [reader EXCEPT ![r] = x]
    BY <1>1 DEF ReadCopies
  <1>6. /\ received' = [received EXCEPT ![c] = @ \o SubSeq(data, 1, n)]
        /\ pending' = [pending EXCEPT ![c] = @ \o SubSeq(data, n + 1, Len(data))]
    BY DEF ReadCopies
  <1> HIDE DEF c, data, n, x
  <1>7. SubSeq(data, 1, n) \in Seq(Byte) /\ SubSeq(data, n + 1, Len(data)) \in Seq(Byte)
        /\ SubSeq(data, 1, n) \o SubSeq(data, n + 1, Len(data)) = data
    BY <1>2, <1>3, SplitAt
  <1>8. PICK a \in Seq(Byte), y \in Seq(Byte), z \in Seq(Byte) :
          a = received[c] /\ y = SubSeq(data, 1, n) /\ z = SubSeq(data, n + 1, Len(data))
    BY <1>1, <1>7 DEF StreamInv, StreamShape
  <1>9. pending[c] = <<>>
    BY <1>5 DEF StreamInv, ReadersInv, c
  <1>10. received'[c] = a \o y /\ pending'[c] = z
    <2>1. received'[c] = received[c] \o y /\ pending'[c] = pending[c] \o z
      BY <1>1, <1>6, <1>8 DEF StreamInv, StreamShape
    <2>2. <<>> \o z = z
      BY <1>8, ConcatEmptySeq
    <2> QED BY <1>8, <1>9, <2>1, <2>2
  <1>11. received' \in [Conns -> Seq(Byte)] /\ pending' \in [Conns -> Seq(Byte)]
    <2>1. a \o y \in Seq(Byte) /\ z \in Seq(Byte)
      BY <1>8, ConcatProperties
    <2>2. /\ received' = [received EXCEPT ![c] = a \o y]
          /\ pending' = [pending EXCEPT ![c] = z]
      BY <1>1, <1>6, <1>10 DEF StreamInv, StreamShape
    <2> QED BY <2>1, <2>2 DEF StreamInv, StreamShape
  <1>12. SafeInv'
    BY <1>5, OthersSafe DEF StreamInv
  <1>13. /\ reader' \in [Readers -> ReaderState] /\ reader'[r] = x
         /\ \A s \in Readers \ {r} : reader'[s] = reader[s]
    BY <1>1, <1>4, <1>5
  <1>14. StreamShape'
    BY <1>5, <1>11, <1>13 DEF StreamInv, StreamShape
  <1>15. \A s \in Readers \ {r} : Home[s] # c /\ Home[s] \in Conns
    BY ConnAssumption DEF OneReaderEach, c
  <1>16. \A d \in Conns \ {c} : received'[d] = received[d] /\ pending'[d] = pending[d]
    BY <1>6 DEF StreamInv, StreamShape
  <1>17. ReadersInv'
    BY <1>4, <1>13, <1>15, <1>16 DEF StreamInv, ReadersInv
  <1>18. SentIsPast' /\ SentOnce' /\ HandedIsSent' /\ AckedIsSent'
    BY <1>5 DEF StreamInv, SentIsPast, SentOnce, HandedIsSent, AckedIsSent, Delivered
  <1>19. InOrder'
    <2> SUFFICES ASSUME NEW d \in Conns
                 PROVE  received'[d] \o pending'[d] \o Held(d)' = sent[Peer[d]]
      BY <1>5 DEF InOrder
    <2>1. CASE d # c
      <3>1. Held(d)' = Held(d)
        BY <1>13, <2>1, HeldKept DEF c
      <3> QED BY <1>16, <2>1, <3>1 DEF StreamInv, InOrder
    <2>2. CASE d = c
      <3>1. Held(c) = data /\ Held(c)' = <<>>
        BY <1>4, <1>13, HeldIs DEF c, data
      <3>2. received[c] \o pending[c] \o Held(c) = sent[Peer[c]]
        BY <1>1 DEF StreamInv, InOrder
      <3>3. a \o <<>> = a /\ (a \o y) \o z \o <<>> = a \o (y \o z)
        <4>1. a \in Seq(Byte) /\ y \in Seq(Byte) /\ z \in Seq(Byte)
          BY <1>8
        <4> QED BY <4>1
      <3>4. y \o z = data
        BY <1>7, <1>8
      <3> QED BY <1>8, <1>9, <1>10, <2>2, <3>1, <3>2, <3>3, <3>4
    <2> QED BY <2>1, <2>2
  <1> QED BY <1>12, <1>14, <1>17, <1>18, <1>19 DEF StreamInv

LEMMA MessageIs ==
  ASSUME NEW w \in Writers, NEW k \in Nat
  PROVE  /\ Message(w, k) \in Seq(Byte) /\ Len(Message(w, k)) = MsgLen
         /\ \A i \in 1..MsgLen : Message(w, k)[i] = <<w, k, i>>
  <1>1. \A i \in 1..MsgLen : <<w, k, i>> \in Byte
    BY ConnAssumption DEF Byte
  <1>2. Message(w, k) \in [1..MsgLen -> Byte] /\ \A i \in 1..MsgLen : Message(w, k)[i] = <<w, k, i>>
    BY <1>1 DEF Message
  <1> HIDE DEF Message
  <1>3. Message(w, k) \in Seq(Byte) /\ Len(Message(w, k)) = MsgLen
    BY <1>2, ConnAssumption
  <1> QED BY <1>2, <1>3

LEMMA ConcatIs ==
  ASSUME NEW S, NEW s \in Seq(S), NEW m \in Seq(S), NEW t \in Seq(S), t = s \o m
  PROVE  /\ DOMAIN t = 1..Len(s) + Len(m)
         /\ \A i \in 1..Len(s) : t[i] = s[i]
         /\ \A i \in 1..Len(m) : t[Len(s) + i] = m[i]
         /\ \A i \in 1..Len(s) + Len(m) : i > Len(s) => t[i] = m[i - Len(s)]
  <1>1. Len(s) \in Nat /\ Len(m) \in Nat
    BY LenProperties
  <1> QED BY <1>1

\* Messages that differ in every byte from what was sent are sent once.
LEMMA ConcatInjective ==
  ASSUME NEW S, NEW s \in Seq(S), NEW m \in Seq(S), IsInjective(s), IsInjective(m),
         \A i \in DOMAIN s, j \in DOMAIN m : s[i] # m[j]
  PROVE  IsInjective(s \o m)
  <1>1. Len(s) \in Nat /\ Len(m) \in Nat /\ DOMAIN s = 1..Len(s) /\ DOMAIN m = 1..Len(m)
    BY LenProperties
  <1>2. PICK t \in Seq(S) : t = s \o m
    BY ConcatProperties
  <1>3. /\ DOMAIN t = 1..Len(s) + Len(m)
        /\ \A i \in 1..Len(s) : t[i] = s[i]
        /\ \A i \in 1..Len(s) + Len(m) : i > Len(s) => t[i] = m[i - Len(s)]
    BY <1>2, ConcatIs
  <1>4. ASSUME NEW i \in DOMAIN t, NEW j \in DOMAIN t, t[i] = t[j] PROVE i = j
    <2>1. ASSUME NEW n \in DOMAIN t
          PROVE  \/ n \in DOMAIN s /\ t[n] = s[n]
                 \/ n - Len(s) \in DOMAIN m /\ t[n] = m[n - Len(s)]
      <3>0. n \in 1..Len(s) + Len(m)
        BY <1>3
      <3>1. CASE n <= Len(s)
        <4>1. n \in 1..Len(s)
          BY <1>1, <3>0, <3>1
        <4> QED BY <1>1, <1>3, <4>1
      <3>2. CASE n > Len(s)
        <4>1. n - Len(s) \in 1..Len(m)
          BY <1>1, <3>0, <3>2
        <4> QED BY <1>1, <1>3, <3>0, <3>2, <4>1
      <3> QED BY <1>1, <3>0, <3>1, <3>2
    <2>2. CASE i \in DOMAIN s /\ t[i] = s[i] /\ j \in DOMAIN s /\ t[j] = s[j]
      BY <1>4, <2>2 DEF IsInjective
    <2>3. CASE /\ i - Len(s) \in DOMAIN m /\ t[i] = m[i - Len(s)]
               /\ j - Len(s) \in DOMAIN m /\ t[j] = m[j - Len(s)]
      <3>1. i - Len(s) = j - Len(s)
        BY <1>4, <2>3 DEF IsInjective
      <3> QED BY <1>1, <1>3, <3>1
    <2> QED BY <1>4, <2>1, <2>2, <2>3
  <1>5. IsInjective(t)
    BY <1>4 DEF IsInjective
  <1> QED BY <1>2, <1>5

LEMMA HandOverStreams ==
  ASSUME OneReaderEach, StreamInv, NEW w \in Writers, NEW r \in Readers, HandOver(w, r)
  PROVE  StreamInv'
  <1> DEFINE c == Home[w]
             d == Home[r]
             k == writer[w].count
             m == Message(w, k)
             x == [reader[r] EXCEPT !.pc = "ack", !.from = <<w, k>>, !.data = m]
  <1>1. /\ writer[w].pc = "select" /\ reader[r].pc = "select" /\ Peer[c] = d
        /\ UNCHANGED <<closer, wdl, rdl, pending, received, acked>>
        /\ writer' = [writer EXCEPT ![w].pc = "handed"]
        /\ sent' = [sent EXCEPT ![c] = @ \o m]
    BY DEF HandOver
  <1>2. c \in Conns /\ d \in Conns /\ k \in Nat /\ Peer[d] = c
        /\ \A e \in Conns \ {d} : Peer[e] \in Conns \ {c}
    BY <1>1, ConnAssumption DEF StreamInv, SafeInv, WriterShape
  <1>3. m \in Seq(Byte) /\ Len(m) = MsgLen /\ \A i \in 1..MsgLen : m[i] = <<w, k, i>>
    BY <1>2, MessageIs
  <1>4. reader[r] \in ReaderState /\ reader \in [Readers -> ReaderState]
    BY DEF StreamInv, StreamShape
  <1> HIDE DEF m
  <1>5. x \in ReaderState /\ x.pc = "ack" /\ x.data = m
    <2>1. <<w, k>> \in Writers \X Nat
      BY <1>2
    <2> HIDE DEF k
    <2> QED BY <1>3, <1>4, <2>1 DEF ReaderState
  <1>6. reader' = [reader EXCEPT ![r] = x]
    BY <1>4 DEF HandOver, m
  <1> HIDE DEF x
  <1>7. /\ reader' \in [Readers -> ReaderState] /\ reader'[r] = x
        /\ \A s \in Readers \ {r} : reader'[s] = reader[s]
    BY <1>4, <1>5, <1>6
  <1>8. /\ \A v \in Writers \ {w} : writer'[v] = writer[v]
        /\ writer'[w].pc = "handed" /\ writer'[w].count = k
    BY <1>1 DEF StreamInv, SafeInv, WriterShape
  <1> HIDE DEF c, d, k
  <1>9. PICK s \in Seq(Byte), t \in Seq(Byte) : s = sent[c] /\ t = s \o m
    <2>1. sent[c] \in Seq(Byte)
      BY <1>2 DEF StreamInv, StreamShape
    <2>2. sent[c] \o m \in Seq(Byte)
      BY <1>3, <2>1, ConcatProperties
    <2> QED BY <2>1, <2>2
  <1>10. sent' = [sent EXCEPT ![c] = t]
    BY <1>1, <1>9
  <1>11. /\ sent' \in [Conns -> Seq(Byte)] /\ sent'[c] = t
         /\ \A e \in Conns \ {c} : sent'[e] = sent[e]
    BY <1>2, <1>9, <1>10 DEF StreamInv, StreamShape
  <1>12. /\ Len(s) \in Nat /\ DOMAIN s = 1..Len(s) /\ DOMAIN m = 1..MsgLen
         /\ DOMAIN t = 1..Len(s) + MsgLen
         /\ \A i \in 1..Len(s) : t[i] = s[i]
         /\ \A i \in 1..MsgLen : t[Len(s) + i] = <<w, k, i>>
    <2>1. /\ Len(s) \in Nat /\ DOMAIN s = 1..Len(s) /\ DOMAIN m = 1..MsgLen
          /\ DOMAIN t = 1..Len(t) /\ MsgLen \in Nat
      BY <1>3, <1>9, LenProperties, ConnAssumption
    <2>2. /\ DOMAIN t = 1..Len(s) + Len(m)
          /\ \A i \in 1..Len(s) : t[i] = s[i]
          /\ \A i \in 1..Len(m) : t[Len(s) + i] = m[i]
      BY <1>3, <1>9, ConcatIs
    <2> QED BY <1>3, <2>1, <2>2
  <1>13. \A i \in 1..Len(s) : /\ s[i] \in Byte /\ Home[s[i][1]] = c
                              /\ s[i][2] <= writer[s[i][1]].count
                              /\ s[i][1] = w => s[i][2] < k
                              /\ writer[s[i][1]].pc \in {"select", "relock"} =>
                                   s[i][2] < writer[s[i][1]].count
    BY <1>1, <1>2, <1>9, <1>12 DEF StreamInv, SentIsPast, k
  <1>14. SafeInv'
    BY HandOverSafe DEF StreamInv
  <1>15. StreamShape'
    BY <1>1, <1>7, <1>11 DEF StreamInv, StreamShape
  <1>16. ReadersInv'
    BY <1>1, <1>5, <1>7 DEF StreamInv, ReadersInv
  <1>17. SentIsPast'
    <2> SUFFICES ASSUME NEW e \in Conns, NEW i \in DOMAIN sent'[e], NEW v, NEW j,
                        v = sent'[e][i][1], j = sent'[e][i][2]
                 PROVE  /\ Home[v] = e /\ j <= writer'[v].count
                        /\ writer'[v].pc \in {"select", "relock"} => j < writer'[v].count
      BY DEF SentIsPast
    <2>1. ASSUME NEW y \in Byte, Home[y[1]] = e, y[2] <= writer[y[1]].count,
                 writer[y[1]].pc \in {"select", "relock"} => y[2] < writer[y[1]].count,
                 v = y[1], j = y[2]
          PROVE  /\ Home[v] = e /\ j <= writer'[v].count
                 /\ writer'[v].pc \in {"select", "relock"} => j < writer'[v].count
      <3>1. v \in Writers /\ j \in Nat
        BY <2>1 DEF Byte
      <3>2. CASE v = w
        BY <1>2, <1>8, <2>1, <3>1, <3>2 DEF k
      <3>3. CASE v # w
        BY <1>8, <2>1, <3>1, <3>3
      <3> QED BY <3>2, <3>3
    <2>2. CASE e # c
      <3>1. sent'[e] = sent[e] /\ i \in DOMAIN sent[e] /\ sent[e][i] \in Byte
        BY <1>11, <2>2 DEF StreamInv, StreamShape
      <3>2. /\ Home[sent[e][i][1]] = e /\ sent[e][i][2] <= writer[sent[e][i][1]].count
            /\ writer[sent[e][i][1]].pc \in {"select", "relock"} =>
                 sent[e][i][2] < writer[sent[e][i][1]].count
        BY <3>1 DEF StreamInv, SentIsPast
      <3> QED BY <2>1, <3>1, <3>2
    <2>3. CASE e = c /\ i <= Len(s)
      <3>1. i \in 1..Len(s) /\ sent'[e][i] = s[i]
        BY <1>11, <1>12, <2>3
      <3> QED BY <1>13, <2>1, <2>3, <3>1
    <2>4. CASE e = c /\ ~(i <= Len(s))
      <3>1. i - Len(s) \in 1..MsgLen /\ Len(s) + (i - Len(s)) = i
        BY <1>11, <1>12, <2>4, ConnAssumption
      <3>2. sent'[e][i] = <<w, k, i - Len(s)>>
        BY <1>11, <1>12, <2>4, <3>1
      <3>3. v = w /\ j = k
        BY <3>2
      <3> QED BY <1>2, <1>8, <2>4, <3>3 DEF c
    <2> QED BY <2>2, <2>3, <2>4
  <1>18. SentOnce'
    <2>1. IsInjective(t)
      <3>1. IsInjective(s)
        BY <1>2, <1>9 DEF StreamInv, SentOnce
      <3>2. IsInjective(m)
        BY <1>3, <1>12 DEF IsInjective
      <3>3. \A i \in DOMAIN s, j \in DOMAIN m : s[i] # m[j]
        <4> SUFFICES ASSUME NEW i \in 1..Len(s), NEW j \in 1..MsgLen, s[i] = <<w, k, j>>
                     PROVE  FALSE
          BY <1>3, <1>12
        <4>1. s[i][1] = w /\ s[i][2] = k
          OBVIOUS
        <4> QED BY <1>2, <1>13, <4>1
      <3>4. IsInjective(s \o m)
        BY <1>3, <1>9, <3>1, <3>2, <3>3, ConcatInjective
      <3> QED BY <1>9, <3>4
    <2> QED BY <1>11, <2>1 DEF StreamInv, SentOnce
  <1>19. \A v \in Writers : \A n : Delivered(v, n) => Delivered(v, n)'
    <2> SUFFICES ASSUME NEW v \in Writers, NEW n, Delivered(v, n), NEW i \in 1..MsgLen
                 PROVE  \E j \in DOMAIN sent'[Home[v]] : sent'[Home[v]][j] = <<v, n, i>>
      BY DEF Delivered
    <2>1. PICK j \in DOMAIN sent[Home[v]] : sent[Home[v]][j] = <<v, n, i>>
      BY DEF Delivered
    <2>2. Home[v] \in Conns
      BY ConnAssumption
    <2>3. CASE Home[v] = c
      <3>1. j \in 1..Len(s) /\ t[j] = <<v, n, i>>
        BY <1>9, <1>12, <2>1, <2>3
      <3>2. j \in 1..Len(s) + MsgLen
        BY <1>12, <3>1, ConnAssumption
      <3> QED BY <1>11, <1>12, <2>3, <3>1, <3>2
    <2>4. CASE Home[v] # c
      BY <1>11, <2>1, <2>2, <2>4
    <2> QED BY <2>3, <2>4
  <1>20. Delivered(w, k)'
    <2> SUFFICES ASSUME NEW i \in 1..MsgLen
                 PROVE  \E j \in DOMAIN sent'[c] : sent'[c][j] = <<w, k, i>>
      <3>1. Delivered(w, k)' = \A i \in 1..MsgLen : \E j \in DOMAIN sent'[c] : sent'[c][j] = <<w, k', i>>
        BY DEF Delivered, c
      <3>2. k' = k
        BY <1>8 DEF k
      <3> QED BY <3>1, <3>2
    <2>1. Len(s) + i \in 1..Len(s) + MsgLen
      BY <1>12, ConnAssumption
    <2> QED BY <1>11, <1>12, <2>1
  <1>21. HandedIsSent'
    <2> SUFFICES ASSUME NEW v \in Writers, writer'[v].pc \in {"handed", "relockHanded"}
                 PROVE  Delivered(v, writer[v].count)'
      BY DEF HandedIsSent
    <2>1. CASE v = w
      BY <1>20, <2>1 DEF k
    <2>2. CASE v # w
      <3>1. Delivered(v, writer[v].count)
        BY <1>8, <2>2 DEF StreamInv, HandedIsSent
      <3>2. writer'[v].count = writer[v].count
        BY <1>8, <2>2
      <3>3. PICK n : n = writer[v].count
        OBVIOUS
      <3>4. Delivered(v, n)'
        BY <1>19, <3>1, <3>3
      <3> QED BY <3>2, <3>3, <3>4 DEF Delivered
    <2> QED BY <2>1, <2>2
  <1>22. AckedIsSent'
    <2>1. \A a \in acked : a[1] \in Writers /\ Delivered(a[1], a[2])
      BY DEF StreamInv, StreamShape, AckedIsSent
    <2> QED BY <1>1, <1>19, <2>1 DEF AckedIsSent
  <1>23. InOrder'
    <2> SUFFICES ASSUME NEW e \in Conns
                 PROVE  received[e] \o pending[e] \o Held(e)' = sent'[Peer[e]]
      BY <1>1 DEF InOrder
    <2>1. CASE e # d
      <3>1. Held(e)' = Held(e)
        BY <1>7, <2>1, HeldKept DEF d
      <3>2. sent'[Peer[e]] = sent[Peer[e]]
        BY <1>2, <1>11, <2>1
      <3> QED BY <3>1, <3>2 DEF StreamInv, InOrder
    <2>2. CASE e = d
      <3>1. Held(d) = <<>> /\ Held(d)' = m /\ pending[d] = <<>>
        BY <1>1, <1>5, <1>7, HeldIs DEF d, StreamInv, ReadersInv
      <3>2. received[d] \o pending[d] \o Held(d) = s
        BY <1>2, <1>9 DEF StreamInv, InOrder
      <3>3. PICK a \in Seq(Byte) : a = received[d]
        BY <1>2 DEF StreamInv, StreamShape
      <3>4. a \o <<>> = a
        BY <3>3, ConcatEmptySeq
      <3> QED BY <1>2, <1>9, <1>11, <2>2, <3>1, <3>2, <3>3, <3>4
    <2> QED BY <2>1, <2>2
  <1> QED BY <1>14, <1>15, <1>16, <1>17, <1>18, <1>21, <1>22, <1>23 DEF StreamInv

\* Deadlines and Close touch neither the streams nor a goroutine's place.
LEMMA OthersStream ==
  ASSUME StreamInv, SafeInv', UNCHANGED <<pending, writer, reader, sent, received, acked>>,
         rdl' \in [Conns -> [kind : {"never", "soon"}, gen : Nat]]
  PROVE  StreamInv'
  <1>1. StreamShape' /\ ReadersInv'
    BY DEF StreamInv, StreamShape, ReadersInv
  <1>2. SentIsPast' /\ SentOnce' /\ HandedIsSent' /\ AckedIsSent'
    BY DEF StreamInv, SentIsPast, SentOnce, HandedIsSent, AckedIsSent, Delivered
  <1>3. InOrder'
    BY HeldKept DEF StreamInv, InOrder
  <1> QED BY <1>1, <1>2, <1>3 DEF StreamInv

LEMMA StreamNextInv == OneReaderEach /\ StreamInv /\ [Next]_vars => StreamInv'
  <1> SUFFICES ASSUME OneReaderEach, StreamInv, [Next]_vars PROVE StreamInv'
    OBVIOUS
  <1>0. SafeInv' /\ rdl \in [Conns -> [kind : {"never", "soon"}, gen : Nat]]
    BY NextSafe DEF StreamInv, StreamShape
  <1>1. ASSUME NEW w \in Writers, WriteStart(w) \/ WriteStep(w) PROVE StreamInv'
    BY <1>1, WriteStreams
  <1>2. ASSUME NEW r \in Readers, ReadStep(r) PROVE StreamInv'
    BY <1>2, ReadWaitStreams, ReadCopiesStreams DEF ReadStep
  <1>3. ASSUME NEW r \in Readers, NEW len \in BufLens, ReadStart(r, len) PROVE StreamInv'
    BY <1>3, ReadStartStreams
  <1>4. ASSUME NEW w \in Writers, NEW r \in Readers, HandOver(w, r) PROVE StreamInv'
    BY <1>4, HandOverStreams
  <1>5. ASSUME NEW c, NEW kind, SetWriteDeadline(c, kind) PROVE StreamInv'
    BY <1>0, <1>5, OthersStream DEF SetWriteDeadline
  <1>6. ASSUME NEW r \in Readers, NEW kind \in {"never", "soon"}, SetReadDeadline(Home[r], kind)
        PROVE  StreamInv'
    <2>1. Home[r] \in Conns
      BY ConnAssumption
    <2>2. rdl' = [rdl EXCEPT ![Home[r]] = [kind |-> kind, gen |-> rdl[Home[r]].gen + 1]]
      BY <1>6 DEF SetReadDeadline
    <2>3. rdl' \in [Conns -> [kind : {"never", "soon"}, gen : Nat]]
      BY <1>0, <2>1, <2>2
    <2> QED BY <1>0, <1>6, <2>3, OthersStream DEF SetReadDeadline
  <1>7. ASSUME NEW c, CloseStart(c) \/ CloseFinish(c) PROVE StreamInv'
    BY <1>0, <1>7, OthersStream DEF CloseStart, CloseFinish
  <1>8. CASE UNCHANGED vars
    BY <1>0, <1>8, OthersStream DEF vars
  <1> QED BY <1>1, <1>2, <1>3, <1>4, <1>5, <1>6, <1>7, <1>8 DEF Next

(***************************************************************************)
(* With one reader per conn, for any number of writers, any message and    *)
(* buffer size and however deadlines and Close fall between the steps of   *)
(* Read and Write: the bytes Read gave out, the pending ones and those the *)
(* reader is holding are the bytes its peer handed over, in their order;   *)
(* nothing was handed over twice, and every Write that returned success    *)
(* was handed over whole.                                                  *)
(***************************************************************************)
THEOREM StreamArrives ==
  ASSUME OneReaderEach
  PROVE  Spec => []StreamIsReliable
  <1>1. Init => StreamInv
    BY StreamInitInv
  <1>2. StreamInv /\ [Next]_vars => StreamInv'
    BY StreamNextInv
  <1>3. StreamInv => StreamIsReliable
    BY DEF StreamInv, StreamIsReliable, StreamIntact, AckedWasDelivered, InOrder,
           SentOnce, AckedIsSent, Delivered
  <1> QED BY <1>1, <1>2, <1>3, PTL DEF Spec
=============================================================================
