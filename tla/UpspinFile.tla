----------------------------- MODULE UpspinFile -----------------------------
(***************************************************************************)
(* upspin: files held in memory.  Open reads the whole file, reads and     *)
(* writes go to the buffer, Sync and Close put it back; Sync then looks    *)
(* the entry up until it finds its own version.                            *)
(*                                                                         *)
(* A buffer is a Go slice: an array as long as its capacity, of which the  *)
(* first len bytes are the data; what Open gets has no spare capacity. The *)
(* reader shares the array, but every write marks it as dirty and the next *)
(* read makes a new one, so a copy tells the same. A File is used by one   *)
(* goroutine at a time; files of several processes meet in the directory.  *)
(*                                                                         *)
(* The upspin client is external: a put adds a version under the next      *)
(* sequence number, which lookups and gets see some time later.            *)
(***************************************************************************)
EXTENDS Integers, Sequences, SequencesExt

CONSTANTS Files,     \* files opened, all of one name
          Chunks,    \* what a write may write
          MaxInt,    \* maxInt, the largest offset
          SyncTries, \* attempts of syncStrategy
          MaxOps     \* bound on the operations of all files

ASSUME FileAssumption == Chunks \subseteq Seq(Nat) /\ MaxInt \in Nat

VARIABLES files,     \* the File values
          versions,  \* contents put so far, by sequence number
          seen,      \* the sequence number lookups find, 0 for none
          ops        \* operations so far

fileVars == <<files, versions, seen, ops>>

-----------------------------------------------------------------------------
NotOpen == [pc |-> "not open"]
Smaller(a, b) == IF a < b THEN a ELSE b
Zeros(n) == [i \in 1..n |-> 0]
Data(f) == SubSeq(f.array, 1, f.len)
Op == ops < MaxOps /\ ops' = ops + 1
Becomes(h, f) == files' = [files EXCEPT ![h] = f]
Usable(h) == files[h].pc = "idle"

\* What the file should hold, as far as a truncation lets us tell.
Expected(f) == [i \in DOMAIN f.want |-> IF i \in f.cut THEN f.array[i] ELSE f.want[i]]

\* b written over a sequence at an offset, zeros in between.
Patched(s, b, off) ==
  [i \in 1..(IF off + Len(b) > Len(s) THEN off + Len(b) ELSE Len(s)) |->
     IF off < i /\ i <= off + Len(b) THEN b[i - off] ELSE IF i <= Len(s) THEN s[i] ELSE 0]

\* Open.  An open that fails leaves nothing.  The last three fields tell
\* what a reader of the file may expect: the bytes written, the offsets cut
\* off and not written since, and what Sync was to save.
Open(h, create, excl, writable) ==
  LET data == IF seen = 0 THEN <<>> ELSE versions[seen] IN
  /\ files[h] = NotOpen
  /\ IF seen = 0 THEN create ELSE ~(create /\ excl)
  /\ Becomes(h, [pc |-> "idle", writable |-> writable, create |-> create, dirty |-> TRUE,
             closed |-> FALSE, array |-> data, len |-> Len(data), readOffset |-> 0,
             writeOffset |-> Len(data), reader |-> <<>>, at |-> 0, lastPutSeqID |-> 0,
             tries |-> 0, synced |-> 0, want |-> data, cut |-> {}, saving |-> <<>>])
  /\ UNCHANGED <<versions, seen>>

\* initRead, which a dirty file does before it reads or seeks.
InitRead(f) ==
  IF ~f.dirty THEN f
  ELSE [f EXCEPT !.dirty = FALSE, !.reader = Data(f), !.at = f.readOffset]

\* File.Read into n bytes.  A closed file is still read.
Read(h, n) ==
  LET f == InitRead(files[h])
      count == Smaller(n, Len(f.reader) - f.at)
  IN  /\ Usable(h)
      /\ Becomes(h, IF f.at >= Len(f.reader) THEN f
                ELSE [f EXCEPT !.at = @ + count, !.readOffset = @ + count])
      /\ UNCHANGED <<versions, seen>>

\* File.ReadAt moves nothing.
ReadAt(h) ==
  /\ Usable(h)
  /\ Becomes(h, InitRead(files[h]))
  /\ UNCHANGED <<versions, seen>>

\* File.Seek.  Whatever whence is, the offset is checked against both
\* offsets, and moves both.
Seek(h, offset, whence) ==
  LET f == InitRead(files[h])
      bad == \/ f.writeOffset + offset < 0 \/ f.readOffset + offset < 0
             \/ offset > MaxInt \/ (~f.writable /\ offset > f.len)
      ret == CASE whence = 0 -> offset
               [] whence = 1 -> f.at + offset
               [] whence = 2 -> Len(f.reader) + offset
  IN  /\ Usable(h) /\ ~f.closed
      /\ Becomes(h, IF bad \/ ret < 0 THEN f
                ELSE [f EXCEPT !.at = ret, !.readOffset = ret, !.writeOffset = ret])
      /\ UNCHANGED <<versions, seen>>

-----------------------------------------------------------------------------
\* The array grows to half as much again as is needed, up to maxInt.
Grown(f, end) ==
  IF end <= Len(f.array) THEN f.array
  ELSE Data(f) \o Zeros(Smaller((end * 3) \div 2, MaxInt) - f.len)

\* Mutant: the reader is kept.
writeAtKeepsReader(f, b, off) ==
  LET end == off + Len(b) IN
  [f EXCEPT !.array = Patched(Grown(f, end), b, off),
            !.len = IF end > @ THEN end ELSE @,
            !.want = Patched(@, b, off),
            !.cut = @ \ (off + 1)..end]

\* File.writeAt.
writeAt(f, b, off) ==
  LET end == off + Len(b) IN
  [f EXCEPT !.dirty = TRUE,
            !.array = Patched(Grown(f, end), b, off),
            !.len = IF end > @ THEN end ELSE @,
            !.want = Patched(@, b, off),
            !.cut = @ \ (off + 1)..end]

\* What writeAt refuses.
CanWrite(f, b, off) == ~f.closed /\ f.writable /\ off + Len(b) <= MaxInt

WriteNext(h, b) ==
  LET f == files[h] IN
  /\ Usable(h) /\ CanWrite(f, b, f.writeOffset)
  /\ Becomes(h, [writeAt(f, b, f.writeOffset) EXCEPT !.writeOffset = @ + Len(b)])
  /\ UNCHANGED <<versions, seen>>

WriteAt(h, b, off) ==
  /\ Usable(h) /\ CanWrite(files[h], b, off)
  /\ Becomes(h, writeAt(files[h], b, off))
  /\ UNCHANGED <<versions, seen>>

\* File.Truncate shortens the slice; the array keeps what was cut off.
Truncate(h, size) ==
  LET f == files[h] IN
  /\ Usable(h) /\ ~f.closed /\ f.writable /\ size < f.len
  /\ Becomes(h, [f EXCEPT !.dirty = TRUE, !.len = size,
                      !.writeOffset = Smaller(size, @), !.readOffset = Smaller(size, @),
                      !.want = SubSeq(@, 1, size), !.cut = @ \cup (size + 1)..f.len])
  /\ UNCHANGED <<versions, seen>>

-----------------------------------------------------------------------------
\* File.put.
put(f) == versions' = Append(versions, Data(f))

\* File.Sync up to the put.  An empty file opened with O_CREATE is created
\* even if it is not writable.
Sync(h) ==
  LET f == files[h] IN
  /\ Usable(h) /\ ~f.closed
  /\ f.writable \/ (f.len = 0 /\ f.create)
  /\ put(f)
  /\ Becomes(h, [f EXCEPT !.pc = "lookup", !.lastPutSeqID = Len(versions) + 1, !.tries = 0,
                      !.saving = Expected(f)])
  /\ UNCHANGED seen

\* Mutant: any entry will do.
FoundAny(f, entry) == entry > 0

\* Whether a lookup found the version that was put.
Found(f, entry) == entry = f.lastPutSeqID

\* One attempt of the retry loop: no entry and another sequence number are
\* tried again, another error or the end of syncTimeout is not.
Lookup(h) ==
  LET f == files[h] IN
  /\ f.pc = "lookup"
  /\ Becomes(h, IF Found(f, seen) THEN [f EXCEPT !.pc = "idle", !.synced = f.lastPutSeqID]
            ELSE IF f.tries + 1 = SyncTries THEN [f EXCEPT !.pc = "idle"]
            ELSE [f EXCEPT !.tries = @ + 1])
  /\ UNCHANGED <<versions, seen, ops>>

LookupFails(h) ==
  /\ files[h].pc = "lookup"
  /\ Becomes(h, [files[h] EXCEPT !.pc = "idle"])
  /\ UNCHANGED <<versions, seen, ops>>

\* File.Close puts and forgets the data, whether the put succeeded or not,
\* and does not wait for it to be seen.  The reader keeps its bytes.
Close(h) ==
  LET f == files[h]
      closed == [f EXCEPT !.closed = TRUE]
      dropped == [closed EXCEPT !.array = <<>>, !.len = 0]
  IN  /\ Usable(h) /\ ~f.closed
      /\ \/ ~f.writable /\ Becomes(h, closed) /\ UNCHANGED versions
         \/ f.writable /\ put(f) /\ Becomes(h, [dropped EXCEPT !.lastPutSeqID = Len(versions) + 1])
         \/ f.writable /\ Becomes(h, dropped) /\ UNCHANGED versions
      /\ UNCHANGED seen

\* The directory catches up.
Settle ==
  /\ seen < Len(versions)
  /\ seen' \in (seen + 1)..Len(versions)
  /\ UNCHANGED <<files, versions, ops>>

Offsets == 0..MaxInt - 1
FileNext ==
  \/ \E h \in Files :
       /\ \/ \E create, excl, writable \in BOOLEAN : Open(h, create, excl, writable)
          \/ \E n \in 1..2 : Read(h, n)
          \/ ReadAt(h)
          \/ \E offset \in -1..2, whence \in 0..2 : Seek(h, offset, whence)
          \/ \E b \in Chunks : WriteNext(h, b) \/ \E off \in Offsets : WriteAt(h, b, off)
          \/ \E size \in Offsets : Truncate(h, size)
          \/ Sync(h) \/ Close(h)
       /\ Op
  \/ \E h \in Files : Lookup(h) \/ LookupFails(h)
  \/ Settle

FileInit ==
  /\ files = [h \in Files |-> NotOpen]
  /\ versions \in {<<>>, << <<1, 2>> >>}
  /\ seen = Len(versions)
  /\ ops = 0

FileSpec == FileInit /\ [][FileNext]_fileVars

-----------------------------------------------------------------------------
\* A read after any writes, seeks and truncations returns what was written
\* last, at the offset reached: array, reader and the two offsets never
\* disagree.  Only bytes that a truncation cut off may come back where a
\* later write leaves a gap, since the array keeps them.
ReadsSeeWrites ==
  \A h \in Files : files[h] # NotOpen /\ ~files[h].closed =>
    LET f == files[h]
        r == InitRead(f)
    IN  /\ r.at = f.readOffset
        /\ r.reader = Expected(f)

\* When Sync reports success the directory shows the version it put, with
\* the bytes the file had, or a later one: whoever opens the file next reads
\* no older version.
SyncedIsSeen ==
  \A h \in Files : files[h] # NotOpen /\ files[h].synced > 0 =>
    LET f == files[h] IN
    /\ seen >= f.synced
    /\ f.synced = f.lastPutSeqID => versions[f.synced] = f.saving

\* What was written is what is read, here and, after Sync, elsewhere.
FileIsFaithful == ReadsSeeWrites /\ SyncedIsSeen
=============================================================================
