----------------------------- MODULE DocRelease -----------------------------
(***************************************************************************)
(* release/docrelease: packages, bundles and their data kept as documents. *)
(*                                                                         *)
(* One package is modelled (packages share nothing).  An operation is a    *)
(* call of some caller that makes one document.Service call per step, so   *)
(* calls interleave; a store call may fail, with or without having taken   *)
(* effect; a caller may die between two steps.  An artifact is a sequence  *)
(* of chunks and stands for its own checksum.                              *)
(*                                                                         *)
(* The manager may be used as it is or as the inner manager of gcsrelease  *)
(* (module GcsRelease): outer is what the wrapper undoes after a failed    *)
(* inner Upload, and is empty when there is no wrapper.                    *)
(***************************************************************************)
EXTENDS Integers, Sequences, FiniteSets, Collection

CONSTANTS Callers,
          Versions,
          Latest,       \* the reserved version
          None,
          MaxCalls,     \* bound: operations started
          MaxPacks,     \* bound: operations on the package document
          MaxFaults,    \* bound: store calls and streams that fail
          MaxDeaths     \* bound: callers that die during an operation

VARIABLES pack,       \* the package document, or None
          bundles,    \* the release documents, by version
          chunks,     \* the data documents, by <<version, index>>
          call,       \* what each caller is doing
          count,      \* how often each bounded event happened
          published,  \* history: what the last Upload that returned nil wrote
          crossed,    \* history: versions with an Upload and a Delete at once
          torn        \* history: versions with a failed Set after chunks

docVars == <<pack, bundles, chunks>>
history == <<published, crossed, torn>>

Finished == {"ok", "err"}
Busy(c) == call[c].pc \notin Finished

NoSource == [file |-> <<>>, size |-> 0, sig |-> None]
Idle == [pc |-> "err", op |-> "none", ver |-> None, url |-> None, id |-> 0,
         mode |-> "none", from |-> NoSource, src |-> <<>>, read |-> <<>>,
         sha |-> None, undo |-> <<>>, outer |-> <<>>, doc |-> None,
         data |-> <<>>, missed |-> FALSE, leak |-> FALSE]

DocInit ==
  /\ pack \in {None, [latest |-> None, meta |-> FALSE]}
  /\ bundles = EmptyCollection
  /\ chunks = EmptyCollection
  /\ call = [c \in Callers |-> Idle]
  /\ count = [calls |-> 0, packs |-> 0, faults |-> 0, deaths |-> 0]
  /\ published = EmptyCollection
  /\ crossed = {}
  /\ torn = {}

Tick(what, bound) == /\ count[what] < bound
                     /\ count' = [count EXCEPT ![what] = @ + 1]
Fault == Tick("faults", MaxFaults)
NoFault == UNCHANGED count

-----------------------------------------------------------------------------
(***************************************************************************)
(* Calls.                                                                  *)
(***************************************************************************)
\* Caller c starts the operation described by r.
Begin(c, r) ==
  /\ ~Busy(c)
  /\ Tick("calls", MaxCalls)
  /\ call' = [call EXCEPT ![c] = [r EXCEPT !.id = count.calls + 1]]
  /\ published' = IF r.op = "delete" THEN Without(published, r.ver) ELSE published
  /\ crossed' = IF \E d \in Callers \ {c} :
                     /\ Busy(d)
                     /\ call[d].ver = r.ver
                     /\ {call[d].op, r.op} = {"upload", "delete"}
                THEN crossed \cup {r.ver} ELSE crossed
  /\ UNCHANGED <<docVars, torn>>

\* The caller's process dies.
Die(c) ==
  /\ Busy(c)
  /\ Tick("deaths", MaxDeaths)
  /\ call' = [call EXCEPT ![c] = [Idle EXCEPT !.leak = TRUE]]
  /\ UNCHANGED <<docVars, history>>

\* The call r moves on to pc.  What a finished call remembers is its outcome.
At(r, pc) ==
  CASE pc \notin Finished -> [r EXCEPT !.pc = pc]
    [] r.op = "get" /\ pc = "ok" ->
         [Idle EXCEPT !.pc = pc, !.op = r.op, !.mode = r.mode, !.doc = r.doc,
                      !.data = r.data]
    [] OTHER ->
         [Idle EXCEPT !.pc = pc, !.op = r.op, !.ver = r.ver, !.id = r.id,
                      !.leak = r.leak]

GoTo(c, pc) == call' = [call EXCEPT ![c] = At(@, pc)]

\* An Upload that fails: what is left to undo, then the error is returned.
Fail(c, items, leak) ==
  LET r == call[c]
      failed == [r EXCEPT !.undo = items, !.leak = r.leak \/ leak]
  IN  call' = [call EXCEPT ![c] = At(failed, IF items = <<>> THEN "err" ELSE "undo")]

DocItem == [kind |-> "doc", i |-> 0]
ChunkItems(n) == [i \in 1..n |-> [kind |-> "chunk", i |-> i]]

-----------------------------------------------------------------------------
(***************************************************************************)
(* Packages.                                                               *)
(***************************************************************************)
\* bluectl never fills in Latest.
CreatePackage ==
  /\ Tick("packs", MaxPacks)
  /\ pack' = [latest |-> None, meta |-> FALSE]
  /\ UNCHANGED <<bundles, chunks, call, history>>

UpdatePackageMetadata ==
  /\ pack # None
  /\ Tick("packs", MaxPacks)
  /\ pack' = [pack EXCEPT !.meta = TRUE]
  /\ UNCHANGED <<bundles, chunks, call, history>>

\* The Delete only needs that the package was there before.
DeletePackage ==
  /\ pack # None
  /\ Tick("packs", MaxPacks)
  /\ pack' = None
  /\ UNCHANGED <<bundles, chunks, call, history>>

-----------------------------------------------------------------------------
(***************************************************************************)
(* Upload: create the release document, write the chunks, complete the     *)
(* document, then move the package's Latest.                               *)
(***************************************************************************)
BundleOf(r) == [id |-> r.id, from |-> r.from, sha |-> r.sha,
                ids |-> 0, sum |-> None]
FullBundleOf(r) == [BundleOf(r) EXCEPT !.ids = Len(r.read), !.sum = r.read]

CreateBundle(c) ==
  LET r == call[c]  v == r.ver
      created == Put(bundles, v, BundleOf(r))
  IN  /\ r.pc = "create"
      /\ \/ ~Has(bundles, v) /\ bundles' = created /\ NoFault /\ GoTo(c, "chunk")
         \/ Has(bundles, v) /\ NoFault /\ Fail(c, r.outer, FALSE) /\ UNCHANGED bundles
         \/ Fault /\ Fail(c, r.outer, FALSE) /\ UNCHANGED bundles
         \/ ~Has(bundles, v) /\ Fault /\ Fail(c, r.outer, TRUE) /\ bundles' = created
      /\ UNCHANGED <<pack, chunks, history>>

\* One turn of the loop of createDataChunks.  A cut stream reads as its end.
PutChunk(c) ==
  LET r == call[c]  i == Len(r.read) + 1
      written == Put(chunks, <<r.ver, i>>, r.src[i])
      undo == ChunkItems(i - 1) \o <<DocItem>> \o r.outer
  IN  /\ r.pc = "chunk"
      /\ \/ /\ i <= Len(r.src) /\ NoFault
            /\ chunks' = written
            /\ call' = [call EXCEPT ![c].read = Append(@, r.src[i])]
         \/ /\ i <= Len(r.src) /\ Fault
            /\ chunks' = written
            /\ Fail(c, undo, FALSE)
         \/ /\ r.src # <<>> /\ Fault
            /\ UNCHANGED chunks
            /\ Fail(c, undo, FALSE)
         \/ NoFault /\ GoTo(c, "set") /\ UNCHANGED chunks
      /\ UNCHANGED <<pack, bundles, history>>

SetBundle(c) ==
  LET r == call[c]
      full == Put(bundles, r.ver, FullBundleOf(r))
  IN  /\ r.pc = "set"
      /\ \/ NoFault /\ bundles' = full /\ GoTo(c, "latest") /\ UNCHANGED torn
         \/ /\ Fault
            /\ bundles' \in {bundles, full}
            /\ Fail(c, <<DocItem>> \o ChunkItems(Len(r.read)) \o r.outer, FALSE)
            /\ torn' = IF r.read = <<>> THEN torn ELSE torn \cup {r.ver}
      /\ UNCHANGED <<pack, chunks, published, crossed>>

\* Mutant: a version whose package is missing is left behind.
SetLatestKeepsDoc(c) ==
  LET r == call[c]
      moved == IF pack = None THEN None ELSE [pack EXCEPT !.latest = r.ver]
  IN  /\ r.pc = "latest"
      /\ \/ /\ pack # None /\ NoFault
            /\ pack' = moved
            /\ GoTo(c, "ok")
            /\ published' = Put(published, r.ver, FullBundleOf(r))
         \/ pack = None /\ NoFault /\ Fail(c, r.outer, FALSE) /\ UNCHANGED <<pack, published>>
         \/ Fault /\ pack' \in {pack, moved} /\ Fail(c, r.outer, FALSE) /\ UNCHANGED published
      /\ UNCHANGED <<bundles, chunks, crossed, torn>>

SetLatest(c) ==
  LET r == call[c]
      moved == IF pack = None THEN None ELSE [pack EXCEPT !.latest = r.ver]
      undo == <<DocItem>> \o r.outer
  IN  /\ r.pc = "latest"
      /\ \/ /\ pack # None /\ NoFault
            /\ pack' = moved
            /\ GoTo(c, "ok")
            /\ published' = Put(published, r.ver, FullBundleOf(r))
         \/ pack = None /\ NoFault /\ Fail(c, undo, FALSE) /\ UNCHANGED <<pack, published>>
         \/ Fault /\ pack' \in {pack, moved} /\ Fail(c, undo, FALSE) /\ UNCHANGED published
      /\ UNCHANGED <<bundles, chunks, crossed, torn>>

\* forceDelete and forceRemoveChunks, one Delete at a time.  A failed Delete
\* is logged and the next one is tried.
Undone(c, leak) ==
  Fail(c, Tail(call[c].undo), leak)

UndoDoc(c) ==
  LET v == call[c].ver
  IN  /\ call[c].pc = "undo" /\ Head(call[c].undo).kind = "doc"
      /\ \/ NoFault /\ bundles' = Without(bundles, v) /\ Undone(c, FALSE)
         \/ Fault /\ bundles' \in {bundles, Without(bundles, v)} /\ Undone(c, TRUE)
      /\ UNCHANGED <<pack, chunks, history>>

UndoChunk(c) ==
  LET item == Head(call[c].undo)  k == <<call[c].ver, item.i>>
  IN  /\ call[c].pc = "undo" /\ item.kind = "chunk"
      /\ \/ NoFault /\ chunks' = Without(chunks, k) /\ Undone(c, FALSE)
         \/ Fault /\ chunks' \in {chunks, Without(chunks, k)} /\ Undone(c, TRUE)
      /\ UNCHANGED <<pack, bundles, history>>

-----------------------------------------------------------------------------
(***************************************************************************)
(* Delete: read the release document, delete its chunks, then delete it.   *)
(***************************************************************************)
\* Mutant: deleting a version without metadata succeeds at once.
InnerDeletedIdempotent(c, missed) ==
  call' = [call EXCEPT ![c] = At([@ EXCEPT !.missed = missed],
                                 IF @.outer # <<>> /\ ~missed THEN "dobj" ELSE "ok")]

InnerDeleted(c, missed) ==
  call' = [call EXCEPT ![c] = At([@ EXCEPT !.missed = missed],
                                 IF @.outer # <<>> THEN "dobj"
                                 ELSE IF missed THEN "err" ELSE "ok")]

DeleteGet(c) ==
  LET v == call[c].ver
  IN  /\ call[c].pc = "dget"
      /\ \/ /\ Has(bundles, v) /\ NoFault
            /\ call' = [call EXCEPT ![c].undo = ChunkItems(bundles[v].ids),
                                    ![c].pc = IF bundles[v].ids = 0 THEN "ddoc" ELSE "drm"]
         \/ ~Has(bundles, v) /\ NoFault /\ InnerDeleted(c, TRUE)
         \/ Fault /\ GoTo(c, "err")
      /\ UNCHANGED <<docVars, history>>

\* removeChunks tries every chunk and reports the first error.
DeleteChunk(c) ==
  LET r == call[c]  k == <<r.ver, Head(r.undo).i>>
      Removed(leak) ==
        call' = [call EXCEPT ![c] =
                   At([r EXCEPT !.undo = Tail(r.undo), !.leak = r.leak \/ leak],
                      IF Len(r.undo) > 1 THEN "drm"
                      ELSE IF r.leak \/ leak THEN "err" ELSE "ddoc")]
  IN  /\ r.pc = "drm"
      /\ \/ NoFault /\ chunks' = Without(chunks, k) /\ Removed(FALSE)
         \/ Fault /\ chunks' \in {chunks, Without(chunks, k)} /\ Removed(TRUE)
      /\ UNCHANGED <<pack, bundles, history>>

DeleteDoc(c) ==
  LET v == call[c].ver
  IN  /\ call[c].pc = "ddoc"
      /\ \/ NoFault /\ bundles' = Without(bundles, v) /\ InnerDeleted(c, FALSE)
         \/ Fault /\ bundles' \in {bundles, Without(bundles, v)} /\ GoTo(c, "err")
      /\ UNCHANGED <<pack, chunks, history>>

-----------------------------------------------------------------------------
(***************************************************************************)
(* Get: read the release document, then its chunks, and compare checksums. *)
(* A signed Get (release/signedrelease) also compares with the signature.  *)
(***************************************************************************)
GetDoc(c) ==
  LET r == call[c]
  IN  /\ r.pc = "gdoc"
      /\ \/ /\ Has(bundles, r.ver) /\ NoFault
            /\ call' = [call EXCEPT ![c] =
                          At([@ EXCEPT !.doc = bundles[r.ver]],
                             IF r.mode = "discard" THEN "ok"
                             ELSE IF r.outer # <<>> THEN "gobj" ELSE "gchunk")]
         \/ ~Has(bundles, r.ver) /\ NoFault /\ GoTo(c, "err")
         \/ Fault /\ GoTo(c, "err")
      /\ UNCHANGED <<docVars, history>>

\* What the signing manager accepts once the inner Get succeeded.
VerifySignature(r, data) == r.mode = "signed" => r.doc.from.sig = data

\* Mutant: the checksum of the download is not compared.
DeliverUnchecked(c, data, checksum) ==
  call' = [call EXCEPT ![c] = At([@ EXCEPT !.data = data],
                                 IF VerifySignature(@, data) THEN "ok" ELSE "err")]

Deliver(c, data, checksum) ==
  call' = [call EXCEPT ![c] = At([@ EXCEPT !.data = data],
                                 IF data = checksum /\ VerifySignature(@, data)
                                 THEN "ok" ELSE "err")]

GetChunk(c) ==
  LET r == call[c]  i == Len(r.data) + 1  k == <<r.ver, i>>
  IN  /\ r.pc = "gchunk"
      /\ \/ i <= r.doc.ids /\ Has(chunks, k) /\ NoFault
            /\ call' = [call EXCEPT ![c].data = Append(@, chunks[k])]
         \/ i <= r.doc.ids /\ ~Has(chunks, k) /\ NoFault /\ GoTo(c, "err")
         \/ i <= r.doc.ids /\ Fault /\ GoTo(c, "err")
         \/ i > r.doc.ids /\ NoFault /\ Deliver(c, r.data, r.doc.sum)
      /\ UNCHANGED <<docVars, history>>

DocStep(c) ==
  \/ CreateBundle(c) \/ PutChunk(c) \/ SetBundle(c) \/ SetLatest(c)
  \/ UndoDoc(c) \/ UndoChunk(c)
  \/ DeleteGet(c) \/ DeleteChunk(c) \/ DeleteDoc(c)
  \/ GetDoc(c) \/ GetChunk(c)
=============================================================================
