---------------------------- MODULE ReleaseProofs ----------------------------
(***************************************************************************)
(* Proofs about GcsRelease, with DocRelease inside or by itself: what a    *)
(* download delivers, what an upload leaves and what a delete frees.       *)
(***************************************************************************)
EXTENDS GcsRelease, SequenceTheorems, TLAPS

File == Seq(Chunk)
From == [file : File, size : Nat, sig : File \cup {None}]
Bundle == [id : Nat, from : From, sha : File \cup {None}, ids : Nat,
           sum : File \cup {None}]
Object == [by : Nat, data : File]
Item == [kind : {"doc", "object", "chunk"}, i : Nat]
Names == Versions \cup {Latest, None}

UploadPc == {"check", "stream", "create", "chunk", "set", "latest", "undo"}
DeletePc == {"dget", "drm", "ddoc", "dobj"}
GetPc == {"glatest", "gdoc", "gobj", "gchunk"}

CallRec ==
  [pc : Finished \cup UploadPc \cup DeletePc \cup GetPc,
   op : {"none", "upload", "delete", "get"},
   ver : Names, url : Names, id : Nat,
   mode : {"none", "discard", "plain", "signed", "cdn"},
   from : From, src : File, read : File, sha : File \cup {None},
   undo : Seq(Item), outer : {<<>>, <<ObjectItem>>},
   doc : Bundle \cup {None}, data : File, missed : BOOLEAN, leak : BOOLEAN]

(***************************************************************************)
(* The shape of the state; which call is at which step; what is known of   *)
(* a call of a deployment.                                                 *)
(***************************************************************************)
Shape ==
  /\ deployment \in {"docs", "gcs"}
  /\ pack \in {None} \cup [latest : Names, meta : BOOLEAN]
  /\ bundles \in [DOMAIN bundles -> Bundle]
  /\ chunks \in [DOMAIN chunks -> Chunk]
  /\ objects \in [DOMAIN objects -> Object]
  /\ deployment = "docs" => DOMAIN objects = {}
  /\ call \in [Callers -> CallRec]
  /\ count \in [calls : Nat, packs : Nat, faults : Nat, deaths : Nat]

StepOf(r) ==
  /\ r.pc \in UploadPc => r.op = "upload"
  /\ r.pc \in DeletePc => r.op = "delete"
  /\ r.pc \in GetPc => r.op = "get"
  /\ r.pc \notin Finished => r.outer = Outer
  /\ r.pc \in {"check", "stream", "dobj", "glatest", "gobj"} => deployment = "gcs"
  /\ r.pc = "gchunk" => deployment = "docs"
  /\ r.pc \in {"undo", "drm"} => r.undo # <<>>

Prefix(s, t) == \E n \in 0..Len(t) : s = SubSeq(t, 1, n)

\* A document of either deployment shows a beginning of the uploaded file, and
\* all of it when gcsrelease knew its size.
Sound(b) ==
  /\ b \in Bundle
  /\ deployment = "gcs" => /\ b.sha \in File /\ Prefix(b.sha, b.from.file)
                           /\ b.from.size > 0 => b.sha = b.from.file
  /\ deployment = "docs" => \/ b.ids = 0
                            \/ b.sum \in File /\ Prefix(b.sum, b.from.file)

\* What an upload knows: before gcsrelease has streamed it, and in docrelease.
Uploading(r) ==
  /\ r.pc \in {"check", "stream"} \/ (deployment = "docs" /\ r.pc \in UploadPc) =>
       \E s \in Sources : r.src = s.src /\ r.from = s.from
  /\ deployment = "gcs" /\ r.pc \in {"create", "chunk", "set", "latest"} =>
       /\ r.src = <<>> /\ r.read = <<>>
       /\ r.sha \in File /\ Prefix(r.sha, r.from.file)
       /\ r.from.size > 0 => r.sha = r.from.file
  /\ r.pc \in {"check", "stream", "create"} => r.read = <<>>
  /\ deployment = "docs" /\ r.pc \in {"chunk", "set", "latest"} => Prefix(r.read, r.src)

\* What a download holds, and what it has delivered.
Getting(r) ==
  /\ r.pc \in {"glatest", "gdoc"} => r.data = <<>>
  /\ r.pc \in {"gobj", "gchunk"} => Sound(r.doc)
  /\ r.pc = "gchunk" => Len(r.data) <= r.doc.ids
  /\ r.op = "get" /\ r.pc = "ok" /\ r.mode # "discard" =>
       /\ r.doc \in Bundle /\ Prefix(r.data, r.doc.from.file)
       /\ deployment = "docs" => r.doc.sum = r.data
       /\ deployment = "gcs" /\ r.doc.from.size > 0 => r.data = r.doc.from.file
       /\ r.mode = "signed" => r.doc.from.sig = r.data

\* A record that is the record of some call.
Fit(r) == r \in CallRec /\ StepOf(r) /\ Uploading(r) /\ Getting(r)

ContentInv ==
  /\ Shape
  /\ \A c \in Callers : Fit(call[c])
  /\ \A v \in DOMAIN bundles : Sound(bundles[v])

-----------------------------------------------------------------------------
(***************************************************************************)
(* Who owns what.                                                          *)
(***************************************************************************)
Lists(u, x) == \E i \in DOMAIN u : u[i] = x

HoldsDoc(r) ==
  \/ r.pc \in {"chunk", "set", "latest"}
  \/ r.pc = "undo" /\ Lists(r.undo, DocItem)

HoldsObject(r) ==
  \/ deployment = "gcs" /\ r.pc \in {"create", "chunk", "set", "latest"}
  \/ r.pc = "undo" /\ Lists(r.undo, ObjectItem)

\* A call that thinks something is its own is right.
Owns(r) ==
  r.ver \notin crossed =>
    /\ HoldsDoc(r) => Has(bundles, r.ver) /\ bundles[r.ver].id = r.id
    /\ HoldsObject(r) => Has(objects, r.ver) /\ objects[r.ver].by = r.id

\* What is a call's own, and not leaked, it knows of.
Knows(r) ==
  r.op = "upload" /\ ~r.leak =>
    /\ Has(bundles, r.ver) /\ bundles[r.ver].id = r.id => HoldsDoc(r) \/ r.pc = "ok"
    /\ Has(objects, r.ver) /\ objects[r.ver].by = r.id => HoldsObject(r) \/ r.pc = "ok"

\* Undo lists name nothing twice; chunks are undone while the document is
\* still there, unless the version is torn.
Distinct(u) ==
  /\ \A i, j \in DOMAIN u : u[i] = u[j] => i = j
  /\ \A i \in DOMAIN u : /\ u[i].kind = "doc" => u[i] = DocItem
                         /\ u[i].kind = "object" => u[i] = ObjectItem

ChunksFirst(u) ==
  \A i \in DOMAIN u : u[i].kind = "chunk" => \E j \in DOMAIN u : i < j /\ u[j] = DocItem

UndoSound(r) ==
  r.pc = "undo" => Distinct(r.undo) /\ (r.ver \notin torn => ChunksFirst(r.undo))

\* What an upload has written so far is still there.
WrittenSound(r) ==
  /\ r.ver \notin crossed /\ deployment = "gcs"
       /\ r.pc \in {"create", "chunk", "set", "latest"} => objects[r.ver].data = r.sha
  /\ r.ver \notin crossed \cup torn /\ deployment = "docs"
       /\ r.pc \in {"chunk", "set", "latest"} =>
       \A i \in 1..Len(r.read) : Has(chunks, <<r.ver, i>>) /\ chunks[<<r.ver, i>>] = r.read[i]
  /\ r.ver \notin crossed /\ r.pc = "latest" => bundles[r.ver] = FullBundleOf(r)

Claims(r) == Owns(r) /\ Knows(r) /\ UndoSound(r) /\ WrittenSound(r)

\* Every call has an ID of its own, and what it writes carries it.
IdsInv ==
  /\ \A c \in Callers : call[c].id <= count.calls /\ (Busy(c) => call[c].id # 0)
  /\ \A c, d \in Callers : c # d /\ call[c].id # 0 => call[c].id # call[d].id
  /\ \A v \in DOMAIN bundles : bundles[v].id <= count.calls
  /\ \A v \in DOMAIN objects : objects[v].by <= count.calls
  /\ \A v \in DOMAIN published : published[v].id \in 0..count.calls

CrossedInv ==
  \A c, d \in Callers :
    call[c].pc \in UploadPc /\ call[d].pc \in DeletePc /\ call[c].ver = call[d].ver =>
      call[c].ver \in crossed

\* A published version is nobody's to change.
Intact(v) ==
  Has(published, v) /\ v \notin crossed =>
    /\ \A c \in Callers : call[c].pc \in DeletePc => call[c].ver # v
    /\ \A c \in Callers : call[c].pc \in UploadPc => call[c].id # published[v].id
    /\ Has(bundles, v) /\ bundles[v] = published[v]
    /\ deployment = "gcs" => /\ Has(objects, v) /\ objects[v].by = published[v].id
                             /\ objects[v].data = published[v].sha
    /\ deployment = "docs" /\ v \notin torn => Downloadable(v, published[v])

\* A Delete that got past the document has removed it.
DeletedInv ==
  \A c \in Callers :
    call[c].pc = "dobj" /\ call[c].ver \notin crossed => ~Has(bundles, call[c].ver)

OwnershipInv ==
  /\ ContentInv /\ IdsInv /\ CrossedInv /\ DeletedInv
  /\ \A c \in Callers : Claims(call[c])
  /\ \A v \in Versions : Intact(v)

-----------------------------------------------------------------------------
(***************************************************************************)
(* Records of calls.                                                       *)
(***************************************************************************)
AllPc == Finished \cup UploadPc \cup DeletePc \cup GetPc

LEMMA PcsApart ==
  /\ Finished = {"ok", "err"}
  /\ UploadPc \cap Finished = {} /\ DeletePc \cap Finished = {} /\ GetPc \cap Finished = {}
  /\ UploadPc \cap DeletePc = {} /\ UploadPc \cap GetPc = {} /\ DeletePc \cap GetPc = {}
  BY DEF Finished, UploadPc, DeletePc, GetPc

LEMMA IdleIs ==
  /\ Idle \in CallRec /\ Idle.pc = "err" /\ Idle.op = "none" /\ Idle.id = 0
  /\ Idle.src = <<>> /\ Idle.read = <<>> /\ Idle.undo = <<>> /\ Idle.data = <<>>
  <1>1. <<>> \in File /\ <<>> \in Seq(Item)
    BY EmptySeq DEF File
  <1>2. NoSource \in From
    BY <1>1 DEF NoSource, From
  <1>3. None \in Names
    BY DEF Names
  <1> QED BY <1>1, <1>2, <1>3 DEF Idle, CallRec, Finished

\* A call that goes on keeps everything; a finished one its outcome.
LEMMA AtIs ==
  ASSUME NEW r \in CallRec, NEW pc \in AllPc
  PROVE  /\ At(r, pc) \in CallRec /\ At(r, pc).pc = pc /\ At(r, pc).op = r.op
         /\ pc \notin Finished => At(r, pc) = [r EXCEPT !.pc = pc]
         /\ pc \in Finished /\ (r.op # "get" \/ pc = "err") =>
              At(r, pc).ver = r.ver /\ At(r, pc).id = r.id /\ At(r, pc).leak = r.leak
         /\ r.op = "get" /\ pc = "ok" =>
              At(r, pc).mode = r.mode /\ At(r, pc).doc = r.doc /\ At(r, pc).data = r.data
                /\ At(r, pc).id = 0
  <1> DEFINE got == [Idle EXCEPT !.pc = pc, !.op = r.op, !.mode = r.mode, !.doc = r.doc,
                                 !.data = r.data]
             ended == [Idle EXCEPT !.pc = pc, !.op = r.op, !.ver = r.ver, !.id = r.id,
                                   !.leak = r.leak]
  <1>0. /\ r.op \in {"none", "upload", "delete", "get"}
        /\ r.ver \in Names /\ r.id \in Nat /\ r.leak \in BOOLEAN
        /\ r.mode \in {"none", "discard", "plain", "signed", "cdn"}
        /\ r.doc \in Bundle \cup {None} /\ r.data \in File
    BY DEF CallRec
  <1>z. PICK z \in CallRec : z = Idle
    BY IdleIs
  <1>1. CASE pc \notin Finished
    <2>1. At(r, pc) = [r EXCEPT !.pc = pc]
      BY <1>1, PcsApart, Zenon DEF At
    <2>2. [r EXCEPT !.pc = pc] \in CallRec
      BY DEF CallRec, AllPc
    <2> QED BY <1>1, <2>1, <2>2, PcsApart DEF CallRec
  <1>2. CASE pc \in Finished /\ r.op = "get" /\ pc = "ok"
    <2>1. At(r, pc) = got
      BY <1>2 DEF At
    <2>2. got \in CallRec /\ got.pc = pc /\ got.op = r.op /\ got.mode = r.mode
          /\ got.doc = r.doc /\ got.data = r.data /\ got.id = 0
      <3>1. got = [z EXCEPT !.pc = pc, !.op = r.op, !.mode = r.mode, !.doc = r.doc, !.data = r.data]
        BY <1>z
      <3>2. got \in CallRec
        BY ZenonT(40), <1>0, <1>z, <3>1 DEF CallRec, AllPc
      <3>3. got.pc = pc /\ got.op = r.op /\ got.mode = r.mode /\ got.doc = r.doc
            /\ got.data = r.data /\ got.id = z.id
        BY <1>z, <3>1 DEF CallRec
      <3> QED BY <1>z, <3>2, <3>3, IdleIs
    <2> QED BY <1>2, <2>1, <2>2
  <1>3. CASE pc \in Finished /\ ~(r.op = "get" /\ pc = "ok")
    <2>1. At(r, pc) = ended
      BY <1>3 DEF At
    <2>2. ended \in CallRec /\ ended.pc = pc /\ ended.op = r.op /\ ended.ver = r.ver
          /\ ended.id = r.id /\ ended.leak = r.leak
      <3>1. ended = [z EXCEPT !.pc = pc, !.op = r.op, !.ver = r.ver, !.id = r.id, !.leak = r.leak]
        BY <1>z
      <3>2. ended \in CallRec
        BY ZenonT(40), <1>0, <1>z, <3>1 DEF CallRec, AllPc
      <3>3. ended.pc = pc /\ ended.op = r.op /\ ended.ver = r.ver /\ ended.id = r.id
            /\ ended.leak = r.leak
        BY <1>z, <3>1 DEF CallRec
      <3> QED BY <3>2, <3>3
    <2> QED BY <1>3, <2>1, <2>2
  <1> QED BY <1>1, <1>2, <1>3

\* A call that has ended, and got nothing, knows nothing that could be wrong.
LEMMA EndedIsSound ==
  ASSUME NEW r, r.pc \in Finished, r.op # "get" \/ r.pc = "err"
  PROVE  StepOf(r) /\ Uploading(r) /\ Getting(r)
  <1>1. /\ r.pc \notin UploadPc /\ r.pc \notin DeletePc /\ r.pc \notin GetPc
        /\ r.pc \in {"ok", "err"}
    BY PcsApart
  <1> QED BY <1>1 DEF StepOf, Uploading, Getting

\* The step of one call changes the records of no other.
LEMMA ContentStep ==
  ASSUME ContentInv, NEW c \in Callers, NEW q, call' = [call EXCEPT ![c] = q], Fit(q),
         deployment' = deployment, Shape',
         \A v \in DOMAIN bundles' : Sound(bundles'[v])
  PROVE  ContentInv'
  <1>1. \A d \in Callers : call'[d] = q \/ call'[d] = call[d]
    BY DEF ContentInv, Shape
  <1>2. \A d \in Callers : Fit(call'[d])
    BY <1>1 DEF ContentInv
  <1>3. \A d \in Callers : Fit(call[d])'
    BY <1>2 DEF Fit, StepOf, Outer, Uploading, Getting, Sound
  <1>4. \A v \in DOMAIN bundles' : Sound(bundles[v])'
    BY DEF Sound
  <1> QED BY <1>3, <1>4 DEF ContentInv

\* Collections keep the kind of their documents.
LEMMA PutKeeps ==
  ASSUME NEW S, NEW f, f \in [DOMAIN f -> S], NEW k, NEW x \in S
  PROVE  /\ Put(f, k, x) \in [DOMAIN Put(f, k, x) -> S]
         /\ DOMAIN Put(f, k, x) = DOMAIN f \cup {k} /\ Put(f, k, x)[k] = x
         /\ \A j \in DOMAIN f : j # k => Put(f, k, x)[j] = f[j]
  BY DEF Put

LEMMA WithoutKeeps ==
  ASSUME NEW S, NEW f, f \in [DOMAIN f -> S], NEW k
  PROVE  /\ Without(f, k) \in [DOMAIN Without(f, k) -> S]
         /\ DOMAIN Without(f, k) = DOMAIN f \ {k}
         /\ \A j \in DOMAIN f : j # k => Without(f, k)[j] = f[j]
  BY DEF Without

CountRec == [calls : Nat, packs : Nat, faults : Nat, deaths : Nat]

LEMMA TickIs ==
  ASSUME count \in CountRec, NEW what \in {"packs", "faults", "deaths"}, NEW b, Tick(what, b)
  PROVE  count' \in CountRec /\ count'.calls = count.calls
  BY DEF CountRec, Tick

LEMMA FaultIs ==
  ASSUME count \in CountRec, Fault \/ NoFault
  PROVE  count' \in CountRec /\ count'.calls = count.calls
  BY TickIs DEF Fault, NoFault

\* The error path of Upload, wherever it starts.
FailsWith(r, q, items, leak) ==
  /\ Fit(q)
  /\ q.op = "upload" /\ q.ver = r.ver /\ q.id = r.id /\ q.leak = (r.leak \/ leak)
  /\ q.pc = IF items = <<>> THEN "err" ELSE "undo"
  /\ items # <<>> => q.undo = items

LEMMA FailIs ==
  ASSUME ContentInv, NEW c \in Callers, NEW items \in Seq(Item), NEW leak \in BOOLEAN,
         call[c].pc \in UploadPc, Fail(c, items, leak)
  PROVE  \E q : FailsWith(call[c], q, items, leak) /\ call' = [call EXCEPT ![c] = q]
  <1> DEFINE r == call[c]
             f == [r EXCEPT !.undo = items, !.leak = r.leak \/ leak]
             pc == IF items = <<>> THEN "err" ELSE "undo"
             q == At(f, pc)
  <1>1. r \in CallRec /\ StepOf(r) /\ Uploading(r) /\ r.op = "upload" /\ r.outer = Outer
    BY PcsApart DEF ContentInv, Fit, StepOf
  <1>2. f \in CallRec /\ f.op = r.op /\ f.ver = r.ver /\ f.id = r.id /\ f.undo = items
        /\ f.leak = (r.leak \/ leak) /\ f.outer = r.outer /\ f.src = r.src /\ f.from = r.from
    BY <1>1 DEF CallRec
  <1>3. pc \in AllPc /\ (items = <<>> <=> pc \in Finished)
    BY PcsApart DEF AllPc, Finished, UploadPc
  <1>4. call' = [call EXCEPT ![c] = q]
    BY DEF Fail
  <1> HIDE DEF r, f
  <1>5. CASE items = <<>>
    <2>1. q.pc = "err" /\ q \in CallRec /\ q.op = "upload" /\ q.ver = r.ver /\ q.id = r.id
          /\ q.leak = (r.leak \/ leak)
      BY <1>1, <1>2, <1>3, <1>5, AtIs
    <2>2. StepOf(q) /\ Uploading(q) /\ Getting(q)
      <3> HIDE DEF q
      <3> QED BY <2>1, EndedIsSound DEF Finished
    <2> QED BY <1>4, <1>5, <2>1, <2>2 DEF FailsWith, Fit, r
  <1>6. CASE items # <<>>
    <2>1. q \in CallRec /\ q = [f EXCEPT !.pc = "undo"]
      BY <1>2, <1>3, <1>6, AtIs
    <2>2. q.pc = "undo" /\ q.op = "upload" /\ q.ver = r.ver /\ q.id = r.id /\ q.undo = items
          /\ q.leak = (r.leak \/ leak) /\ q.outer = Outer /\ q.src = r.src /\ q.from = r.from
      BY <1>1, <1>2, <2>1 DEF CallRec
    <2> HIDE DEF q
    <2>3. StepOf(q) /\ Uploading(q) /\ Getting(q)
      BY <1>1, <1>6, <2>2 DEF StepOf, Uploading, Getting, UploadPc, DeletePc, GetPc, Finished, r
    <2> QED BY <1>4, <1>6, <2>1, <2>2, <2>3 DEF FailsWith, Fit, r
  <1> QED BY <1>5, <1>6

\* A call that returns without a download.
LEMMA EndIs ==
  ASSUME ContentInv, NEW c \in Callers, NEW pc \in Finished,
         call[c].op # "get" \/ pc = "err", GoTo(c, pc)
  PROVE  \E q : /\ Fit(q) /\ call' = [call EXCEPT ![c] = q]
                /\ q.pc = pc /\ q.op = call[c].op /\ q.ver = call[c].ver /\ q.id = call[c].id
                /\ q.leak = call[c].leak
  <1> DEFINE q == At(call[c], pc)
  <1>1. call[c] \in CallRec /\ pc \in AllPc
    BY DEF ContentInv, Fit, AllPc
  <1>2. q \in CallRec /\ q.pc = pc /\ q.op = call[c].op /\ q.ver = call[c].ver /\ q.id = call[c].id
        /\ q.leak = call[c].leak
    BY <1>1, AtIs
  <1>3. call' = [call EXCEPT ![c] = q]
    BY DEF GoTo
  <1> HIDE DEF q
  <1> QED BY <1>2, <1>3, EndedIsSound DEF Fit

\* A call that goes on to its next step.
LEMMA GoOnIs ==
  ASSUME ContentInv, NEW c \in Callers, NEW pc \in AllPc \ Finished, GoTo(c, pc)
  PROVE  /\ call' = [call EXCEPT ![c] = [call[c] EXCEPT !.pc = pc]]
         /\ [call[c] EXCEPT !.pc = pc] \in CallRec
  BY ZenonT(40), AtIs DEF ContentInv, Fit, GoTo

-----------------------------------------------------------------------------
(***************************************************************************)
(* Sources and beginnings.                                                 *)
(***************************************************************************)
LEMMA BeginningIs ==
  ASSUME NEW t \in File, NEW n \in 0..Len(t)
  PROVE  /\ SubSeq(t, 1, n) \in File /\ Len(SubSeq(t, 1, n)) = n
         /\ \A i \in 1..n : SubSeq(t, 1, n)[i] = t[i]
         /\ Prefix(SubSeq(t, 1, n), t)
  <1>1. Len(t) \in Nat /\ \A i \in 1..n : t[i] \in Chunk
    BY LenProperties, ElementOfSeq DEF File
  <1>2. n \in Int /\ 1 \in Int
    BY <1>1
  <1>3. /\ SubSeq(t, 1, n) \in Seq(Chunk)
        /\ Len(SubSeq(t, 1, n)) = IF 1 <= n THEN n - 1 + 1 ELSE 0
        /\ \A i \in 1..n - 1 + 1 : SubSeq(t, 1, n)[i] = t[1 + i - 1]
    BY <1>1, <1>2, SubSeqProperties
  <1>4. Len(SubSeq(t, 1, n)) = n
    BY <1>1, <1>3
  <1>5. \A i \in 1..n : SubSeq(t, 1, n)[i] = t[i]
    BY <1>1, <1>3
  <1> QED BY <1>3, <1>4, <1>5 DEF File, Prefix

LEMMA EmptyBegins ==
  ASSUME NEW t \in File
  PROVE  Prefix(<<>>, t) /\ <<>> \in File /\ Len(<<>>) = 0
  <1>1. Len(t) \in Nat
    BY LenProperties DEF File
  <1>2. 0 \in 0..Len(t) /\ SubSeq(t, 1, 0) = <<>>
    BY <1>1, SubSeqEmpty
  <1> QED BY <1>2, EmptySeq DEF Prefix, File

LEMMA FullBegins ==
  ASSUME NEW t \in File
  PROVE  Prefix(t, t) /\ SubSeq(t, 1, Len(t)) = t
  <1>1. Len(t) \in 0..Len(t)
    BY LenProperties DEF File
  <1> QED BY <1>1, SubSeqFull DEF Prefix, File

\* A beginning is told by its length and its elements.
LEMMA PrefixIs ==
  ASSUME NEW s \in File, NEW t \in File
  PROVE  /\ Prefix(s, t) <=> Len(s) <= Len(t) /\ \A i \in 1..Len(s) : s[i] = t[i]
         /\ Prefix(s, t) => s = SubSeq(t, 1, Len(s))
  <1>1. Len(s) \in Nat /\ Len(t) \in Nat /\ DOMAIN s = 1..Len(s) /\ DOMAIN t = 1..Len(t)
    BY LenProperties DEF File
  <1>2. ASSUME Len(s) <= Len(t), \A i \in 1..Len(s) : s[i] = t[i] PROVE Prefix(s, t)
    <2>1. Len(s) \in 0..Len(t)
      BY <1>1, <1>2
    <2>2. SubSeq(t, 1, Len(s)) \in File /\ Len(SubSeq(t, 1, Len(s))) = Len(s)
          /\ \A i \in 1..Len(s) : SubSeq(t, 1, Len(s))[i] = t[i]
      BY <2>1, BeginningIs
    <2>3. s = SubSeq(t, 1, Len(s))
      BY <1>2, <2>2, SeqEqual DEF File
    <2> QED BY <2>1, <2>3 DEF Prefix
  <1>3. ASSUME Prefix(s, t)
        PROVE  /\ Len(s) <= Len(t) /\ \A i \in 1..Len(s) : s[i] = t[i]
               /\ s = SubSeq(t, 1, Len(s))
    <2>1. PICK n \in 0..Len(t) : s = SubSeq(t, 1, n)
      BY <1>3 DEF Prefix
    <2>2. Len(s) = n /\ \A i \in 1..n : s[i] = t[i]
      BY <2>1, BeginningIs
    <2> QED BY <1>1, <2>1, <2>2
  <1> QED BY <1>2, <1>3

LEMMA PrefixOfPrefix ==
  ASSUME NEW s \in File, NEW t \in File, Prefix(s, t), NEW n \in 0..Len(s)
  PROVE  Prefix(SubSeq(s, 1, n), t)
  <1>1. Len(s) \in Nat /\ Len(t) \in Nat
    BY LenProperties DEF File
  <1>2. SubSeq(s, 1, n) \in File /\ Len(SubSeq(s, 1, n)) = n
        /\ \A i \in 1..n : SubSeq(s, 1, n)[i] = s[i]
    BY BeginningIs
  <1>3. Len(s) <= Len(t) /\ \A i \in 1..Len(s) : s[i] = t[i]
    BY PrefixIs
  <1>4. n <= Len(t) /\ \A i \in 1..n : SubSeq(s, 1, n)[i] = t[i]
    BY <1>1, <1>2, <1>3
  <1> QED BY <1>2, <1>4, PrefixIs

\* What is uploaded is a beginning of a file, and all of one whose size is known.
LEMMA SourceIs ==
  ASSUME NEW s \in Sources
  PROVE  /\ s.from.file \in File /\ s.src \in File /\ s.from \in From
         /\ Prefix(s.src, s.from.file)
         /\ s.from.size > 0 => s.src = s.from.file /\ s.from.size = Len(s.from.file)
  <1> DEFINE f == s.from.file
  <1>1. f \in File /\ s \in Plain(f) \cup Signed(f)
    BY SourcesAssumption DEF File
  <1>2. Len(f) \in Nat /\ Prefix(f, f)
    BY <1>1, LenProperties, FullBegins DEF File
  <1> HIDE DEF f
  <1>3. CASE s \in Plain(f)
    <2>1. PICK n \in {0, Len(f)} :
            s = [src |-> f, from |-> [file |-> f, size |-> n, sig |-> None]]
      BY <1>3 DEF Plain
    <2>2. s.src = f /\ s.from.file = f /\ s.from.size = n
          /\ s.from = [file |-> f, size |-> n, sig |-> None]
      BY <2>1
    <2>3. s.from \in From
      BY <1>1, <1>2, <2>1, <2>2 DEF From
    <2> QED BY <1>1, <1>2, <2>1, <2>2, <2>3 DEF f
  <1>4. CASE s = [src |-> f, from |-> [file |-> f, size |-> Len(f), sig |-> f]]
    <2>2. s.src = f /\ s.from.file = f /\ s.from.size = Len(f)
          /\ s.from = [file |-> f, size |-> Len(f), sig |-> f]
      BY <1>4
    <2>3. s.from \in From
      BY <1>1, <1>2, <2>2 DEF From
    <2> QED BY <1>1, <1>2, <2>2, <2>3 DEF f
  <1>5. ASSUME NEW k \in 0..Len(f),
               s = [src |-> SubSeq(f, 1, k),
                    from |-> [file |-> f, size |-> 0, sig |-> SubSeq(f, 1, k)]]
        PROVE  /\ f \in File /\ s.src \in File /\ s.from \in From /\ Prefix(s.src, f)
               /\ s.from.size = 0
    <2>1. SubSeq(f, 1, k) \in File /\ Prefix(SubSeq(f, 1, k), f)
      BY <1>1, BeginningIs
    <2>2. s.src = SubSeq(f, 1, k) /\ s.from = [file |-> f, size |-> 0, sig |-> SubSeq(f, 1, k)]
      BY <1>5
    <2>3. s.from \in From /\ s.from.size = 0
      BY <1>1, <2>1, <2>2 DEF From
    <2> QED BY <1>1, <2>1, <2>2, <2>3
  <1>6. CASE s \in Signed(f)
    <2>1. \/ s = [src |-> f, from |-> [file |-> f, size |-> Len(f), sig |-> f]]
          \/ \E k \in 0..Len(f) : s = [src |-> SubSeq(f, 1, k),
                    from |-> [file |-> f, size |-> 0, sig |-> SubSeq(f, 1, k)]]
      BY <1>6 DEF Signed
    <2>2. CASE s = [src |-> f, from |-> [file |-> f, size |-> Len(f), sig |-> f]]
      BY <1>4, <2>2
    <2>3. ASSUME NEW k \in 0..Len(f), s = [src |-> SubSeq(f, 1, k),
                    from |-> [file |-> f, size |-> 0, sig |-> SubSeq(f, 1, k)]]
          PROVE  /\ s.from.file \in File /\ s.src \in File /\ s.from \in From
                 /\ Prefix(s.src, s.from.file) /\ s.from.size = 0
      <3>1. f \in File /\ s.src \in File /\ s.from \in From /\ Prefix(s.src, f)
            /\ s.from.size = 0
        BY <1>5, <2>3
      <3> QED BY <3>1 DEF f
    <2> QED BY <2>1, <2>2, <2>3
  <1> QED BY <1>1, <1>3, <1>6

-----------------------------------------------------------------------------
(***************************************************************************)
(* What each step of a call does: the new record q of the call, and the    *)
(* change of the store that goes with it.                                  *)
(***************************************************************************)
Turns(c, q) == Fit(q) /\ call' = [call EXCEPT ![c] = q]
Same(r, q) == q.op = r.op /\ q.ver = r.ver /\ q.id = r.id
Counted == count' \in CountRec /\ count'.calls = count.calls

LEMMA FailTurns ==
  ASSUME ContentInv, NEW c \in Callers, NEW items \in Seq(Item), NEW leak \in BOOLEAN,
         call[c].pc \in UploadPc, Fail(c, items, leak)
  PROVE  \E q : /\ Turns(c, q) /\ Same(call[c], q) /\ q.leak = (call[c].leak \/ leak)
                /\ q.pc = IF items = <<>> THEN "err" ELSE "undo"
                /\ items # <<>> => q.undo = items
  <1>1. PICK q : FailsWith(call[c], q, items, leak) /\ call' = [call EXCEPT ![c] = q]
    BY FailIs
  <1>2. call[c].op = "upload"
    BY DEF ContentInv, Fit, StepOf
  <1> QED BY <1>1, <1>2 DEF FailsWith, Turns, Same

LEMMA CountedIs ==
  ASSUME ContentInv, Fault \/ NoFault
  PROVE  Counted
  BY FaultIs DEF ContentInv, Shape, CountRec, Counted

LEMMA CheckIs ==
  ASSUME ContentInv, NEW c \in Callers, CheckPublished(c)
  PROVE  /\ Counted /\ call[c].pc = "check"
         /\ \E q : /\ Turns(c, q) /\ Same(call[c], q) /\ q.leak = call[c].leak
                   /\ q.pc \in {"err", "stream"}
  <1> DEFINE r == call[c]
  <1>0. call[c].pc = "check" /\ (NoFault \/ Fault) /\ (GoTo(c, "err") \/ GoTo(c, "stream"))
    BY DEF CheckPublished
  <1>1. Counted
    BY <1>0, CountedIs
  <1>2. r \in CallRec /\ StepOf(r) /\ Uploading(r) /\ r.op = "upload" /\ r.outer = Outer
        /\ deployment = "gcs"
    BY <1>0, PcsApart DEF ContentInv, Fit, StepOf, UploadPc
  <1>3. CASE GoTo(c, "err")
    <2>1. PICK q : /\ Fit(q) /\ call' = [call EXCEPT ![c] = q]
                /\ q.pc = "err" /\ q.op = call[c].op /\ q.ver = call[c].ver /\ q.id = call[c].id
                /\ q.leak = call[c].leak
      BY <1>3, EndIs DEF Finished
    <2> QED BY <1>0, <1>1, <2>1 DEF Turns, Same
  <1>4. CASE GoTo(c, "stream")
    <2> DEFINE q == [r EXCEPT !.pc = "stream"]
    <2>1. "stream" \in AllPc \ Finished
      BY DEF AllPc, UploadPc, Finished
    <2>2. call' = [call EXCEPT ![c] = q] /\ q \in CallRec
      BY <1>4, <2>1, GoOnIs
    <2>3. /\ q.pc = "stream" /\ q.op = r.op /\ q.ver = r.ver /\ q.id = r.id /\ q.leak = r.leak
          /\ q.src = r.src /\ q.from = r.from /\ q.read = r.read /\ q.outer = r.outer
      BY <1>2 DEF CallRec
    <2> HIDE DEF q, r
    <2>4. StepOf(q) /\ Uploading(q) /\ Getting(q)
      BY <1>0, <1>2, <2>3 DEF StepOf, Uploading, Getting, UploadPc, DeletePc, GetPc, Finished, r
    <2> QED BY <1>0, <1>1, <2>2, <2>3, <2>4 DEF Turns, Fit, Same, r
  <1> QED BY <1>0, <1>3, <1>4

\* The bucket after a write of call c: whether it was committed, and how the
\* call went on.
Written(c, s) == /\ ~Has(objects, call[c].ver)
                 /\ objects' = Put(objects, call[c].ver, [by |-> call[c].id, data |-> s])

StreamTurns(c, q, s) ==
  \/ objects' = objects /\ q.pc = "err" /\ q.leak = call[c].leak
  \/ Written(c, s) /\ q.pc = "undo" /\ q.undo = <<ObjectItem>> /\ q.leak = call[c].leak
  \/ Written(c, s) /\ q.pc = "err" /\ q.leak = TRUE
  \/ Written(c, s) /\ q.pc = "create" /\ q.sha = s /\ q.leak = call[c].leak

LEMMA StreamIs ==
  ASSUME ContentInv, NEW c \in Callers, Stream(c)
  PROVE  /\ Counted /\ call[c].pc = "stream" /\ deployment = "gcs"
         /\ \E q, s : /\ Turns(c, q) /\ Same(call[c], q) /\ s \in File
                      /\ StreamTurns(c, q, s)
  <1> DEFINE r == call[c]
  <1>0. r.pc = "stream"
    BY DEF Stream
  <1>1. r \in CallRec /\ StepOf(r) /\ Uploading(r) /\ r.op = "upload" /\ r.outer = Outer
        /\ deployment = "gcs" /\ r.read = <<>> /\ r.leak \in BOOLEAN
    BY <1>0, PcsApart DEF ContentInv, Fit, StepOf, UploadPc, Uploading, CallRec
  <1>2. r.pc \in UploadPc
    BY <1>0 DEF UploadPc
  <1>3. PICK s \in Sources : r.src = s.src /\ r.from = s.from
    BY <1>0, <1>1 DEF Uploading
  <1>4. PICK n \in 0..Len(r.src) :
           \/ Fault /\ AbortUpload(c, SubSeq(r.src, 1, n))
           \/ Truncated(r, SubSeq(r.src, 1, n)) /\ NoFault /\ AbortUpload(c, SubSeq(r.src, 1, n))
           \/ ~Truncated(r, SubSeq(r.src, 1, n)) /\ CloseUpload(c, SubSeq(r.src, 1, n))
    BY DEF Stream
  <1>5. r.src \in File /\ r.from.file \in File /\ Prefix(r.src, r.from.file)
        /\ (r.from.size > 0 => r.src = r.from.file /\ r.from.size = Len(r.from.file))
    BY <1>3, SourceIs
  <1>6. SubSeq(r.src, 1, n) \in File /\ Len(SubSeq(r.src, 1, n)) = n
        /\ Prefix(SubSeq(r.src, 1, n), r.from.file)
    BY <1>4, <1>5, BeginningIs, PrefixOfPrefix
  <1>7. PICK t \in File : t = SubSeq(r.src, 1, n)
    BY <1>6
  <1>8. \/ Fault /\ AbortUpload(c, t)
        \/ NoFault /\ AbortUpload(c, t)
        \/ ~Truncated(r, t) /\ CloseUpload(c, t)
    BY <1>4, <1>7
  <1>9. ~Truncated(r, t) /\ r.from.size > 0 => t = r.from.file
    <2> SUFFICES ASSUME ~Truncated(r, t), r.from.size > 0 PROVE t = r.from.file
      OBVIOUS
    <2>1. n = Len(r.src) /\ r.src = r.from.file
      BY <1>5, <1>6, <1>7 DEF Truncated
    <2> QED BY <1>5, <1>7, <2>1, FullBegins
  <1>10. <<>> \in Seq(Item) /\ <<ObjectItem>> \in Seq(Item) /\ <<ObjectItem>> # <<>>
    BY DEF Item, ObjectItem
  <1> HIDE DEF r
  <1>11. ASSUME AbortUpload(c, t)
         PROVE  \E q : Turns(c, q) /\ Same(call[c], q) /\ StreamTurns(c, q, t)
    <2>1. CASE Written(c, t) /\ Fail(c, <<ObjectItem>>, FALSE)
      <3>1. PICK q : /\ Turns(c, q) /\ Same(call[c], q) /\ q.leak = (call[c].leak \/ FALSE)
                     /\ q.pc = IF <<ObjectItem>> = <<>> THEN "err" ELSE "undo"
                     /\ <<ObjectItem>> # <<>> => q.undo = <<ObjectItem>>
        BY <1>2, <1>10, <2>1, FailTurns DEF r
      <3> QED BY <1>1, <1>10, <2>1, <3>1 DEF StreamTurns, r
    <2>2. CASE objects' = objects /\ Fail(c, <<>>, FALSE)
      <3>1. PICK q : /\ Turns(c, q) /\ Same(call[c], q) /\ q.leak = (call[c].leak \/ FALSE)
                     /\ q.pc = "err"
        BY ZenonT(40), <1>2, <1>10, <2>2, FailTurns DEF r
      <3> QED BY <1>1, <2>2, <3>1 DEF StreamTurns, r
    <2>3. CASE Written(c, t) /\ Fail(c, <<>>, TRUE)
      <3>1. PICK q : /\ Turns(c, q) /\ Same(call[c], q) /\ q.leak = (call[c].leak \/ TRUE)
                     /\ q.pc = "err"
        BY ZenonT(40), <1>2, <1>10, <2>3, FailTurns DEF r
      <3> QED BY <1>1, <2>3, <3>1 DEF StreamTurns, r
    <2> QED BY <1>11, <2>1, <2>2, <2>3 DEF AbortUpload, Written
  <1>12. ASSUME ~Truncated(r, t), CloseUpload(c, t)
         PROVE  \E q : Turns(c, q) /\ Same(call[c], q) /\ StreamTurns(c, q, t)
    <2>1. CASE /\ Written(c, t)
               /\ call' = [call EXCEPT ![c].pc = "create", ![c].src = <<>>, ![c].sha = t]
      <3> DEFINE q == [r EXCEPT !.pc = "create", !.src = <<>>, !.sha = t]
      <3>1. call' = [call EXCEPT ![c] = q]
        BY <2>1 DEF r, ContentInv, Shape
      <3>2. q \in CallRec
        <4>1. "create" \in AllPc /\ <<>> \in File
          BY EmptySeq DEF AllPc, UploadPc, File
        <4> QED BY <1>1, <4>1 DEF CallRec, AllPc
      <3>3. /\ q.pc = "create" /\ q.op = r.op /\ q.ver = r.ver /\ q.id = r.id /\ q.leak = r.leak
            /\ q.src = <<>> /\ q.sha = t /\ q.from = r.from /\ q.read = r.read /\ q.outer = r.outer
        BY <1>1 DEF CallRec
      <3> HIDE DEF q
      <3>4. StepOf(q)
        BY <1>1, <3>3 DEF StepOf, UploadPc, DeletePc, GetPc, Finished
      <3>5. Prefix(t, r.from.file)
        BY <1>6, <1>7
      <3>6. Uploading(q) /\ Getting(q)
        BY <1>1, <1>9, <1>12, <3>3, <3>5 DEF Uploading, Getting, UploadPc
      <3> QED BY <2>1, <3>1, <3>2, <3>3, <3>4, <3>6 DEF Turns, Fit, Same, StreamTurns, r
    <2>2. CASE objects' = objects /\ Fail(c, <<>>, FALSE)
      <3>1. PICK q : /\ Turns(c, q) /\ Same(call[c], q) /\ q.leak = (call[c].leak \/ FALSE)
                     /\ q.pc = "err"
        BY ZenonT(40), <1>2, <1>10, <2>2, FailTurns DEF r
      <3> QED BY <1>1, <2>2, <3>1 DEF StreamTurns, r
    <2>3. CASE Written(c, t) /\ Fail(c, <<>>, TRUE)
      <3>1. PICK q : /\ Turns(c, q) /\ Same(call[c], q) /\ q.leak = (call[c].leak \/ TRUE)
                     /\ q.pc = "err"
        BY ZenonT(40), <1>2, <1>10, <2>3, FailTurns DEF r
      <3> QED BY <1>1, <2>3, <3>1 DEF StreamTurns, r
    <2> QED BY <1>12, <2>1, <2>2, <2>3 DEF CloseUpload, Written
  <1>13. NoFault \/ Fault
    BY <1>8 DEF CloseUpload
  <1> QED BY <1>0, <1>1, <1>7, <1>8, <1>11, <1>12, <1>13, CountedIs DEF r

\* Three lists in a row.
LEMMA ThreeParts ==
  ASSUME NEW a \in Seq(Item), NEW b \in Seq(Item), NEW o \in Seq(Item)
  PROVE  /\ a \o b \o o \in Seq(Item)
         /\ Len(a) \in Nat /\ Len(b) \in Nat /\ Len(o) \in Nat
         /\ Len(a \o b \o o) = Len(a) + Len(b) + Len(o)
         /\ \A i \in 1..Len(a) : (a \o b \o o)[i] = a[i]
         /\ \A i \in 1..Len(b) : (a \o b \o o)[Len(a) + i] = b[i]
         /\ \A i \in 1..Len(o) : (a \o b \o o)[Len(a) + Len(b) + i] = o[i]
  <1>1. Len(a) \in Nat /\ Len(b) \in Nat /\ Len(o) \in Nat
    BY LenProperties
  <1>2. PICK d \in Seq(Item) : d = a \o b
    BY ConcatProperties
  <1>3. Len(d) = Len(a) + Len(b)
        /\ \A i \in 1..(Len(a) + Len(b)) : d[i] = IF i <= Len(a) THEN a[i] ELSE b[i - Len(a)]
    BY <1>2, ConcatProperties
  <1>4. PICK e \in Seq(Item) : e = d \o o
    BY ConcatProperties
  <1>5. Len(e) = Len(d) + Len(o)
        /\ \A i \in 1..(Len(d) + Len(o)) : e[i] = IF i <= Len(d) THEN d[i] ELSE o[i - Len(d)]
    BY <1>4, ConcatProperties
  <1>6. \A i \in 1..Len(a) : e[i] = a[i]
    BY <1>1, <1>3, <1>5
  <1>7. ASSUME NEW i \in 1..Len(b) PROVE e[Len(a) + i] = b[i]
    <2>1. e[Len(a) + i] = d[Len(a) + i]
      BY <1>1, <1>3, <1>5
    <2>2. d[Len(a) + i] = b[(Len(a) + i) - Len(a)] /\ (Len(a) + i) - Len(a) = i
      BY <1>1, <1>3
    <2> QED BY <2>1, <2>2
  <1>8. ASSUME NEW i \in 1..Len(o) PROVE e[Len(a) + Len(b) + i] = o[i]
    <2>1. e[Len(d) + i] = o[(Len(d) + i) - Len(d)] /\ (Len(d) + i) - Len(d) = i
      BY SMTT(30), <1>1, <1>3, <1>5
    <2> QED BY <1>3, <2>1
  <1> QED BY <1>1, <1>2, <1>3, <1>4, <1>5, <1>6, <1>7, <1>8

\* Undo lists are made of items.
LEMMA ItemLists ==
  ASSUME NEW n \in Nat, NEW o \in {<<>>, <<ObjectItem>>}
  PROVE  /\ o \in Seq(Item) /\ <<DocItem>> \in Seq(Item) /\ ChunkItems(n) \in Seq(Item)
         /\ ChunkItems(n) \o <<DocItem>> \o o \in Seq(Item)
         /\ <<DocItem>> \o ChunkItems(n) \o o \in Seq(Item)
         /\ <<DocItem>> \o o \in Seq(Item)
         /\ ChunkItems(n) \o <<DocItem>> \o o # <<>>
         /\ <<DocItem>> \o ChunkItems(n) \o o # <<>>
         /\ <<DocItem>> \o o # <<>>
         /\ Len(ChunkItems(n)) = n /\ \A i \in 1..n : ChunkItems(n)[i] = [kind |-> "chunk", i |-> i]
  <1>1. ObjectItem \in Item /\ DocItem \in Item /\ \A i \in 1..n : [kind |-> "chunk", i |-> i] \in Item
    BY DEF ObjectItem, DocItem, Item
  <1>2. o \in Seq(Item) /\ <<DocItem>> \in Seq(Item)
    <2>1. PICK x \in Item, y \in Item : x = ObjectItem /\ y = DocItem
      BY <1>1
    <2>2. <<x>> \in Seq(Item) /\ <<y>> \in Seq(Item) /\ <<>> \in Seq(Item)
      OBVIOUS
    <2> QED BY <2>1, <2>2
  <1>3. ChunkItems(n) \in Seq(Item) /\ Len(ChunkItems(n)) = n
        /\ \A i \in 1..n : ChunkItems(n)[i] = [kind |-> "chunk", i |-> i]
    <2>1. ChunkItems(n) \in [1..n -> Item]
      BY <1>1 DEF ChunkItems
    <2>2. ChunkItems(n) \in Seq(Item)
      BY <2>1, SeqDef
    <2>3. DOMAIN ChunkItems(n) = 1..n
      BY DEF ChunkItems
    <2>4. Len(ChunkItems(n)) = n
      BY <2>2, <2>3, LenProperties
    <2> QED BY <2>2, <2>4 DEF ChunkItems
  <1>4. PICK a \in Seq(Item), b \in Seq(Item) : a = ChunkItems(n) /\ b = <<DocItem>>
    BY <1>2, <1>3
  <1>5. a \o b \in Seq(Item) /\ b \o a \in Seq(Item) /\ b \o o \in Seq(Item)
    BY <1>2, <1>4, ConcatProperties
  <1>6. a \o b \o o \in Seq(Item) /\ b \o a \o o \in Seq(Item)
    BY <1>2, ThreeParts
  <1>7. Len(b) = 1 /\ Len(a) \in Nat /\ Len(o) \in Nat
    BY <1>2, <1>4, LenProperties
  <1>8. PICK x \in Seq(Item), y \in Seq(Item), z \in Seq(Item) :
          x = a \o b \o o /\ y = b \o a \o o /\ z = b \o o
    BY <1>5, <1>6
  <1>9. Len(x) = Len(a) + Len(b) + Len(o) /\ Len(y) = Len(b) + Len(a) + Len(o)
        /\ Len(z) = Len(b) + Len(o)
    BY <1>2, <1>8, ThreeParts, ConcatProperties
  <1>10. x # <<>> /\ y # <<>> /\ z # <<>>
    BY <1>7, <1>9
  <1> QED BY <1>2, <1>3, <1>4, <1>5, <1>6, <1>8, <1>10

\* What is known of an upload in the inner manager.
LEMMA UploaderIs ==
  ASSUME ContentInv, NEW c \in Callers, call[c].pc \in UploadPc
  PROVE  /\ call[c] \in CallRec /\ StepOf(call[c]) /\ Uploading(call[c])
         /\ call[c].op = "upload" /\ call[c].outer = Outer
         /\ call[c].outer \in {<<>>, <<ObjectItem>>} /\ call[c].leak \in BOOLEAN
         /\ call[c].read \in File /\ call[c].src \in File /\ call[c].from.file \in File
         /\ Len(call[c].read) \in Nat /\ Len(call[c].src) \in Nat
  <1>1. call[c] \in CallRec /\ StepOf(call[c]) /\ Uploading(call[c])
         /\ call[c].op = "upload" /\ call[c].outer = Outer
    BY PcsApart DEF ContentInv, Fit, StepOf
  <1>2. call[c].outer \in {<<>>, <<ObjectItem>>} /\ call[c].leak \in BOOLEAN
         /\ call[c].read \in File /\ call[c].src \in File /\ call[c].from \in From
    BY <1>1 DEF CallRec
  <1> QED BY <1>1, <1>2, LenProperties DEF From, File

Created(c) == /\ ~Has(bundles, call[c].ver)
              /\ bundles' = Put(bundles, call[c].ver, BundleOf(call[c]))

CreateTurns(c, q) ==
  \/ /\ bundles' = bundles /\ q.leak = call[c].leak
     /\ q.pc = IF call[c].outer = <<>> THEN "err" ELSE "undo"
     /\ call[c].outer # <<>> => q.undo = call[c].outer
  \/ /\ Created(c) /\ q.leak = TRUE
     /\ q.pc = IF call[c].outer = <<>> THEN "err" ELSE "undo"
     /\ call[c].outer # <<>> => q.undo = call[c].outer
  \/ Created(c) /\ q = [call[c] EXCEPT !.pc = "chunk"]

LEMMA CreateIs ==
  ASSUME ContentInv, NEW c \in Callers, CreateBundle(c)
  PROVE  /\ Counted /\ call[c].pc = "create"
         /\ \E q : Turns(c, q) /\ Same(call[c], q) /\ CreateTurns(c, q)
  <1> DEFINE r == call[c]
  <1>0. r.pc = "create" /\ (Fault \/ NoFault) /\ r.pc \in UploadPc
    BY DEF CreateBundle, UploadPc
  <1>1. /\ r \in CallRec /\ StepOf(r) /\ Uploading(r) /\ r.op = "upload" /\ r.outer = Outer
        /\ r.outer \in {<<>>, <<ObjectItem>>} /\ r.leak \in BOOLEAN /\ r.read = <<>>
        /\ r.src \in File
    BY <1>0, UploaderIs DEF Uploading
  <1>2. r.outer \in Seq(Item)
    BY <1>1, ItemLists
  <1> HIDE DEF r
  <1>3. ASSUME NEW leak \in BOOLEAN, Fail(c, r.outer, leak)
        PROVE  \E q : /\ Turns(c, q) /\ Same(call[c], q) /\ q.leak = (r.leak \/ leak)
                      /\ q.pc = IF r.outer = <<>> THEN "err" ELSE "undo"
                      /\ r.outer # <<>> => q.undo = r.outer
    BY <1>0, <1>2, <1>3, FailTurns DEF r
  <1>c. Counted /\ call[c].pc = "create"
    BY <1>0, CountedIs DEF r
  <1>4. CASE Created(c) /\ GoTo(c, "chunk")
    <2> DEFINE q == [r EXCEPT !.pc = "chunk"]
    <2>1. "chunk" \in AllPc \ Finished
      BY DEF AllPc, UploadPc, Finished
    <2>2. call' = [call EXCEPT ![c] = q] /\ q \in CallRec
      BY <1>4, <2>1, GoOnIs DEF r
    <2>3. /\ q.pc = "chunk" /\ q.op = r.op /\ q.ver = r.ver /\ q.id = r.id /\ q.leak = r.leak
          /\ q.src = r.src /\ q.from = r.from /\ q.read = r.read /\ q.outer = r.outer
          /\ q.sha = r.sha
      BY <1>1 DEF CallRec
    <2>4. q = [call[c] EXCEPT !.pc = "chunk"]
      BY DEF r
    <2> HIDE DEF q
    <2>5. Prefix(q.read, q.src)
      BY <1>1, <2>3, EmptyBegins
    <2>6. StepOf(q)
      BY <1>0, <1>1, <2>3 DEF StepOf, UploadPc, DeletePc, GetPc, Finished
    <2>7. Uploading(q) /\ Getting(q)
      BY <1>0, <1>1, <2>3, <2>5 DEF Uploading, Getting, UploadPc
    <2> QED BY <1>c, <1>4, <2>2, <2>3, <2>4, <2>6, <2>7 DEF Turns, Fit, Same, CreateTurns, r
  <1>5. CASE bundles' = bundles /\ Fail(c, r.outer, FALSE)
    <2>1. PICK q : /\ Turns(c, q) /\ Same(call[c], q) /\ q.leak = (r.leak \/ FALSE)
                   /\ q.pc = IF r.outer = <<>> THEN "err" ELSE "undo"
                   /\ r.outer # <<>> => q.undo = r.outer
      BY <1>3, <1>5
    <2>2. q.leak = r.leak
      BY <1>1, <2>1
    <2> QED BY <1>c, <1>5, <2>1, <2>2 DEF CreateTurns, r
  <1>6. CASE Created(c) /\ Fail(c, r.outer, TRUE)
    <2>1. PICK q : /\ Turns(c, q) /\ Same(call[c], q) /\ q.leak = (r.leak \/ TRUE)
                   /\ q.pc = IF r.outer = <<>> THEN "err" ELSE "undo"
                   /\ r.outer # <<>> => q.undo = r.outer
      BY <1>3, <1>6
    <2>2. q.leak = TRUE
      BY <1>1, <2>1
    <2> QED BY <1>c, <1>6, <2>1, <2>2 DEF CreateTurns, r
  <1>7. \/ Created(c) /\ GoTo(c, "chunk")
        \/ bundles' = bundles /\ Fail(c, r.outer, FALSE)
        \/ Created(c) /\ Fail(c, r.outer, TRUE)
    BY DEF CreateBundle, Created, r
  <1> QED BY <1>4, <1>5, <1>6, <1>7

\* How a chunk document may change.
Chunked(c) ==
  LET r == call[c]
  IN  /\ Len(r.read) + 1 <= Len(r.src) /\ r.src[Len(r.read) + 1] \in Chunk
      /\ chunks' = Put(chunks, <<r.ver, Len(r.read) + 1>>, r.src[Len(r.read) + 1])

ChunkTurns(c, q) ==
  \/ Chunked(c) /\ q = [call[c] EXCEPT !.read = Append(call[c].read, call[c].src[Len(call[c].read) + 1])]
  \/ /\ Chunked(c) \/ chunks' = chunks
     /\ q.leak = call[c].leak /\ q.pc = "undo"
     /\ q.undo = ChunkItems(Len(call[c].read)) \o <<DocItem>> \o call[c].outer
  \/ chunks' = chunks /\ q = [call[c] EXCEPT !.pc = "set"]

\* The beginning of src that was read grows by one.
LEMMA ReadGrows ==
  ASSUME NEW s \in File, NEW t \in File, Prefix(s, t), Len(s) + 1 <= Len(t)
  PROVE  /\ t[Len(s) + 1] \in Chunk
         /\ Append(s, t[Len(s) + 1]) \in File /\ Prefix(Append(s, t[Len(s) + 1]), t)
         /\ Len(Append(s, t[Len(s) + 1])) = Len(s) + 1
         /\ \A i \in 1..Len(s) : Append(s, t[Len(s) + 1])[i] = s[i]
         /\ Append(s, t[Len(s) + 1])[Len(s) + 1] = t[Len(s) + 1]
  <1>1. Len(s) \in Nat /\ Len(t) \in Nat
    BY LenProperties DEF File
  <1>2. t[Len(s) + 1] \in Chunk
    BY <1>1, ElementOfSeq DEF File
  <1>3. PICK x \in Chunk : x = t[Len(s) + 1]
    BY <1>2
  <1>4. /\ Append(s, x) \in File /\ Len(Append(s, x)) = Len(s) + 1
        /\ \A i \in 1..Len(s) : Append(s, x)[i] = s[i]
        /\ Append(s, x)[Len(s) + 1] = x
    BY AppendProperties DEF File
  <1>5. \A i \in 1..Len(s) : s[i] = t[i]
    BY PrefixIs
  <1>6. \A i \in 1..(Len(s) + 1) : Append(s, x)[i] = t[i]
    BY <1>1, <1>3, <1>4, <1>5
  <1>7. Prefix(Append(s, x), t)
    BY <1>4, <1>6, PrefixIs
  <1> QED BY <1>2, <1>3, <1>4, <1>7

LEMMA PutChunkIs ==
  ASSUME ContentInv, NEW c \in Callers, PutChunk(c)
  PROVE  /\ Counted /\ call[c].pc = "chunk"
         /\ \E q : Turns(c, q) /\ Same(call[c], q) /\ ChunkTurns(c, q)
  <1> DEFINE r == call[c]
             i == Len(r.read) + 1
             undo == ChunkItems(Len(r.read)) \o <<DocItem>> \o r.outer
  <1>0. r.pc = "chunk" /\ (Fault \/ NoFault) /\ r.pc \in UploadPc
    BY DEF PutChunk, UploadPc
  <1>c. Counted /\ call[c].pc = "chunk"
    BY <1>0, CountedIs
  <1>1. /\ r \in CallRec /\ StepOf(r) /\ Uploading(r) /\ r.op = "upload" /\ r.outer = Outer
        /\ r.outer \in {<<>>, <<ObjectItem>>} /\ r.leak \in BOOLEAN /\ r.read \in File
        /\ r.src \in File /\ Len(r.read) \in Nat /\ Len(r.src) \in Nat
    BY <1>0, UploaderIs
  <1>2. Prefix(r.read, r.src) /\ (deployment = "gcs" => Len(r.src) = 0)
    <2>1. deployment \in {"docs", "gcs"}
      BY DEF ContentInv, Shape
    <2>2. CASE deployment = "gcs"
      BY <1>0, <1>1, <2>2, EmptyBegins DEF Uploading
    <2>3. CASE deployment = "docs"
      BY <1>0, <1>1, <2>3 DEF Uploading
    <2> QED BY <2>1, <2>2, <2>3
  <1>3. undo \in Seq(Item) /\ undo # <<>>
    BY <1>1, ItemLists
  <1>4. i <= Len(r.src) => /\ r.src[i] \in Chunk
                           /\ Append(r.read, r.src[i]) \in File /\ Prefix(Append(r.read, r.src[i]), r.src)
    BY <1>1, <1>2, ReadGrows
  <1>5. \/ /\ Chunked(c)
           /\ call' = [call EXCEPT ![c].read = Append(call[c].read, r.src[i])]
        \/ (Chunked(c) \/ chunks' = chunks) /\ Fail(c, undo, FALSE)
        \/ chunks' = chunks /\ GoTo(c, "set")
    <2>1. ChunkItems(i - 1) = ChunkItems(Len(r.read))
      <3>1. i - 1 = Len(r.read)
        BY <1>1
      <3> QED BY <3>1
    <2>2. i <= Len(r.src) /\ chunks' = Put(chunks, <<r.ver, i>>, r.src[i]) => Chunked(c)
      BY <1>4 DEF Chunked
    <2> QED BY <2>1, <2>2, Zenon DEF PutChunk
  <1> HIDE DEF r, undo
  <1>6. CASE (Chunked(c) \/ chunks' = chunks) /\ Fail(c, undo, FALSE)
    <2>1. PICK q : /\ Turns(c, q) /\ Same(call[c], q) /\ q.leak = (r.leak \/ FALSE)
                   /\ q.pc = IF undo = <<>> THEN "err" ELSE "undo"
                   /\ undo # <<>> => q.undo = undo
      BY <1>0, <1>3, <1>6, FailTurns DEF r
    <2>2. q.leak = r.leak /\ q.pc = "undo" /\ q.undo = undo
      BY <1>1, <1>3, <2>1
    <2> QED BY <1>c, <1>6, <2>1, <2>2 DEF ChunkTurns, r, undo
  <1>7. CASE chunks' = chunks /\ GoTo(c, "set")
    <2> DEFINE q == [r EXCEPT !.pc = "set"]
    <2>1. "set" \in AllPc \ Finished
      BY DEF AllPc, UploadPc, Finished
    <2>2. call' = [call EXCEPT ![c] = q] /\ q \in CallRec
      BY <1>7, <2>1, GoOnIs DEF r
    <2>3. /\ q.pc = "set" /\ q.op = r.op /\ q.ver = r.ver /\ q.id = r.id /\ q.leak = r.leak
          /\ q.src = r.src /\ q.from = r.from /\ q.read = r.read /\ q.outer = r.outer
          /\ q.sha = r.sha
      BY <1>1 DEF CallRec
    <2>4. q = [call[c] EXCEPT !.pc = "set"]
      BY DEF r
    <2> HIDE DEF q
    <2>6. StepOf(q)
      BY <1>0, <1>1, <2>3 DEF StepOf, UploadPc, DeletePc, GetPc, Finished
    <2>7. Uploading(q) /\ Getting(q)
      BY <1>0, <1>1, <2>3 DEF Uploading, Getting, UploadPc
    <2> QED BY <1>c, <1>7, <2>2, <2>3, <2>4, <2>6, <2>7 DEF Turns, Fit, Same, ChunkTurns, r
  <1>8. CASE /\ Chunked(c)
             /\ call' = [call EXCEPT ![c].read = Append(call[c].read, r.src[i])]
    <2>1. PICK a \in File : a = Append(r.read, r.src[i]) /\ Prefix(a, r.src)
      BY <1>4, <1>8 DEF Chunked, r
    <2> DEFINE q == [r EXCEPT !.read = a]
    <2>2. call' = [call EXCEPT ![c] = q]
      BY <1>8, <2>1 DEF r, ContentInv, Shape
    <2>3. /\ q \in CallRec
          /\ q.pc = "chunk" /\ q.op = r.op /\ q.ver = r.ver /\ q.id = r.id /\ q.leak = r.leak
          /\ q.src = r.src /\ q.from = r.from /\ q.read = a /\ q.outer = r.outer
          /\ q.sha = r.sha
      BY <1>0, <1>1 DEF CallRec
    <2>4. q = [call[c] EXCEPT !.read = Append(call[c].read, call[c].src[Len(call[c].read) + 1])]
      BY <2>1 DEF r
    <2>5. deployment # "gcs"
      BY <1>1, <1>2, <1>8 DEF Chunked, r
    <2> HIDE DEF q
    <2>6. StepOf(q)
      BY <1>0, <1>1, <2>3 DEF StepOf, UploadPc, DeletePc, GetPc, Finished
    <2>7. Uploading(q) /\ Getting(q)
      BY <1>0, <1>1, <2>1, <2>3, <2>5 DEF Uploading, Getting, UploadPc
    <2> QED BY <1>c, <1>8, <2>2, <2>3, <2>4, <2>6, <2>7 DEF Turns, Fit, Same, ChunkTurns, r
  <1> QED BY <1>5, <1>6, <1>7, <1>8

SetTurns(c, q) ==
  \/ /\ q = [call[c] EXCEPT !.pc = "latest"] /\ torn' = torn
     /\ bundles' = Put(bundles, call[c].ver, FullBundleOf(call[c]))
  \/ /\ bundles' \in {bundles, Put(bundles, call[c].ver, FullBundleOf(call[c]))}
     /\ torn' = IF call[c].read = <<>> THEN torn ELSE torn \cup {call[c].ver}
     /\ q.pc = "undo" /\ q.leak = call[c].leak
     /\ q.undo = <<DocItem>> \o ChunkItems(Len(call[c].read)) \o call[c].outer

LEMMA SetIs ==
  ASSUME ContentInv, NEW c \in Callers, SetBundle(c)
  PROVE  /\ Counted /\ call[c].pc = "set"
         /\ \E q : Turns(c, q) /\ Same(call[c], q) /\ SetTurns(c, q)
  <1> DEFINE r == call[c]
             undo == <<DocItem>> \o ChunkItems(Len(r.read)) \o r.outer
             full == Put(bundles, call[c].ver, FullBundleOf(call[c]))
             tear == IF call[c].read = <<>> THEN torn ELSE torn \cup {call[c].ver}
  <1>0. r.pc = "set" /\ (Fault \/ NoFault) /\ r.pc \in UploadPc
    BY DEF SetBundle, UploadPc
  <1>c. Counted /\ call[c].pc = "set"
    BY <1>0, CountedIs
  <1>1. /\ r \in CallRec /\ StepOf(r) /\ Uploading(r) /\ r.op = "upload" /\ r.outer = Outer
        /\ r.outer \in {<<>>, <<ObjectItem>>} /\ r.leak \in BOOLEAN /\ Len(r.read) \in Nat
    BY <1>0, UploaderIs
  <1>3. undo \in Seq(Item) /\ undo # <<>>
    BY <1>1, ItemLists
  <1>5. \/ bundles' = full /\ GoTo(c, "latest") /\ torn' = torn
        \/ bundles' \in {bundles, full} /\ Fail(c, undo, FALSE) /\ torn' = tear
    BY DEF SetBundle
  <1> HIDE DEF r, undo, full, tear
  <1>6. CASE bundles' \in {bundles, full} /\ Fail(c, undo, FALSE) /\ torn' = tear
    <2>1. PICK q : /\ Turns(c, q) /\ Same(call[c], q) /\ q.leak = (r.leak \/ FALSE)
                   /\ q.pc = IF undo = <<>> THEN "err" ELSE "undo"
                   /\ undo # <<>> => q.undo = undo
      BY <1>0, <1>3, <1>6, FailTurns DEF r
    <2>2. q.leak = r.leak /\ q.pc = "undo" /\ q.undo = undo
      BY <1>1, <1>3, <2>1
    <2> QED BY <1>c, <1>6, <2>1, <2>2 DEF SetTurns, r, undo, full, tear
  <1>7. CASE bundles' = full /\ GoTo(c, "latest") /\ torn' = torn
    <2> DEFINE q == [r EXCEPT !.pc = "latest"]
    <2>1. "latest" \in AllPc \ Finished
      BY DEF AllPc, UploadPc, Finished
    <2>2. call' = [call EXCEPT ![c] = q] /\ q \in CallRec
      BY <1>7, <2>1, GoOnIs DEF r
    <2>3. /\ q.pc = "latest" /\ q.op = r.op /\ q.ver = r.ver /\ q.id = r.id /\ q.leak = r.leak
          /\ q.src = r.src /\ q.from = r.from /\ q.read = r.read /\ q.outer = r.outer
          /\ q.sha = r.sha
      BY <1>1 DEF CallRec
    <2>4. q = [call[c] EXCEPT !.pc = "latest"]
      BY DEF r
    <2> HIDE DEF q
    <2>6. StepOf(q)
      BY <1>0, <1>1, <2>3 DEF StepOf, UploadPc, DeletePc, GetPc, Finished
    <2>7. Uploading(q) /\ Getting(q)
      BY <1>0, <1>1, <2>3 DEF Uploading, Getting, UploadPc
    <2> QED BY <1>c, <1>7, <2>2, <2>3, <2>4, <2>6, <2>7 DEF Turns, Fit, Same, SetTurns, r, full
  <1> QED BY <1>5, <1>6, <1>7

LatestTurns(c, q) ==
  \/ /\ q.pc = "ok" /\ published' = Put(published, call[c].ver, FullBundleOf(call[c]))
  \/ /\ published' = published /\ q.pc = "undo" /\ q.leak = call[c].leak
     /\ q.undo = <<DocItem>> \o call[c].outer

LEMMA LatestIs ==
  ASSUME ContentInv, NEW c \in Callers, SetLatest(c)
  PROVE  /\ Counted /\ call[c].pc = "latest" /\ pack' \in {None} \cup [latest : Names, meta : BOOLEAN]
         /\ \E q : Turns(c, q) /\ Same(call[c], q) /\ LatestTurns(c, q)
  <1> DEFINE r == call[c]
             undo == <<DocItem>> \o r.outer
             moved == IF pack = None THEN None ELSE [pack EXCEPT !.latest = r.ver]
  <1>0. r.pc = "latest" /\ (Fault \/ NoFault) /\ r.pc \in UploadPc
    BY DEF SetLatest, UploadPc
  <1>1. /\ r \in CallRec /\ StepOf(r) /\ Uploading(r) /\ r.op = "upload" /\ r.outer = Outer
        /\ r.outer \in {<<>>, <<ObjectItem>>} /\ r.leak \in BOOLEAN /\ Len(r.read) \in Nat
    BY <1>0, UploaderIs
  <1>2. pack' \in {pack, moved}
    BY DEF SetLatest
  <1>p. pack' \in {None} \cup [latest : Names, meta : BOOLEAN]
    <2>1. r.ver \in Names
      BY <1>1 DEF CallRec
    <2>2. pack \in {None} \cup [latest : Names, meta : BOOLEAN]
      BY DEF ContentInv, Shape
    <2> HIDE DEF r
    <2> QED BY <1>2, <2>1, <2>2
  <1>c. Counted /\ call[c].pc = "latest"
    BY <1>0, CountedIs
  <1>3. undo \in Seq(Item) /\ undo # <<>>
    BY <1>1, ItemLists
  <1>5. \/ GoTo(c, "ok") /\ published' = Put(published, call[c].ver, FullBundleOf(call[c]))
        \/ published' = published /\ Fail(c, undo, FALSE)
    BY DEF SetLatest
  <1> HIDE DEF r, undo
  <1>6. CASE published' = published /\ Fail(c, undo, FALSE)
    <2>1. PICK q : /\ Turns(c, q) /\ Same(call[c], q) /\ q.leak = (r.leak \/ FALSE)
                   /\ q.pc = IF undo = <<>> THEN "err" ELSE "undo"
                   /\ undo # <<>> => q.undo = undo
      BY <1>0, <1>3, <1>6, FailTurns DEF r
    <2>2. q.leak = r.leak /\ q.pc = "undo" /\ q.undo = undo
      BY <1>1, <1>3, <2>1
    <2> QED BY <1>c, <1>p, <1>6, <2>1, <2>2 DEF LatestTurns, r, undo
  <1>7. CASE GoTo(c, "ok") /\ published' = Put(published, call[c].ver, FullBundleOf(call[c]))
    <2>1. PICK q : /\ Fit(q) /\ call' = [call EXCEPT ![c] = q]
                /\ q.pc = "ok" /\ q.op = call[c].op /\ q.ver = call[c].ver /\ q.id = call[c].id
                /\ q.leak = call[c].leak
      BY <1>1, <1>7, EndIs DEF Finished, r
    <2> QED BY <1>c, <1>p, <1>7, <2>1 DEF Turns, Same, LatestTurns
  <1> QED BY <1>5, <1>6, <1>7

\* The next item is done, and what follows is left.
UndoneTo(c, q, leak) ==
  /\ q.leak = (call[c].leak \/ leak)
  /\ q.pc = IF Tail(call[c].undo) = <<>> THEN "err" ELSE "undo"
  /\ Tail(call[c].undo) # <<>> => q.undo = Tail(call[c].undo)

LEMMA UndoneIs ==
  ASSUME ContentInv, NEW c \in Callers, call[c].pc = "undo", NEW leak \in BOOLEAN, Undone(c, leak)
  PROVE  \E q : Turns(c, q) /\ Same(call[c], q) /\ UndoneTo(c, q, leak)
  <1>1. call[c].undo \in Seq(Item) /\ call[c].undo # <<>> /\ call[c].pc \in UploadPc
    BY DEF ContentInv, Fit, StepOf, CallRec, UploadPc
  <1>2. PICK t \in Seq(Item) : t = Tail(call[c].undo)
    BY <1>1, HeadTailProperties
  <1>3. Fail(c, t, leak)
    BY <1>2 DEF Undone
  <1>4. PICK q : /\ Turns(c, q) /\ Same(call[c], q) /\ q.leak = (call[c].leak \/ leak)
                 /\ q.pc = IF t = <<>> THEN "err" ELSE "undo"
                 /\ t # <<>> => q.undo = t
    BY <1>1, <1>3, FailTurns
  <1>5. UndoneTo(c, q, leak)
    BY <1>2, <1>4 DEF UndoneTo
  <1> QED BY <1>4, <1>5

\* One Delete of an undo: it may take effect and still fail.
Erased(f, g, k, leak) == g = Without(f, k) \/ (leak /\ g = f)

LEMMA UndoDocIs ==
  ASSUME ContentInv, NEW c \in Callers, UndoDoc(c)
  PROVE  /\ Counted /\ call[c].pc = "undo" /\ Head(call[c].undo).kind = "doc"
         /\ \E q, leak : /\ leak \in BOOLEAN /\ Turns(c, q) /\ Same(call[c], q)
                         /\ UndoneTo(c, q, leak) /\ Erased(bundles, bundles', call[c].ver, leak)
  <1>1. PICK leak \in BOOLEAN : Undone(c, leak) /\ Erased(bundles, bundles', call[c].ver, leak)
    BY DEF UndoDoc, Erased
  <1>2. call[c].pc = "undo" /\ Head(call[c].undo).kind = "doc" /\ (Fault \/ NoFault)
    BY DEF UndoDoc
  <1> QED BY <1>1, <1>2, UndoneIs, CountedIs

LEMMA UndoChunkIs ==
  ASSUME ContentInv, NEW c \in Callers, UndoChunk(c)
  PROVE  /\ Counted /\ call[c].pc = "undo" /\ Head(call[c].undo).kind = "chunk"
         /\ \E q, leak : /\ leak \in BOOLEAN /\ Turns(c, q) /\ Same(call[c], q)
                         /\ UndoneTo(c, q, leak)
                         /\ Erased(chunks, chunks', <<call[c].ver, Head(call[c].undo).i>>, leak)
  <1>1. PICK leak \in BOOLEAN :
          Undone(c, leak) /\ Erased(chunks, chunks', <<call[c].ver, Head(call[c].undo).i>>, leak)
    BY DEF UndoChunk, Erased
  <1>2. call[c].pc = "undo" /\ Head(call[c].undo).kind = "chunk" /\ (Fault \/ NoFault)
    BY DEF UndoChunk
  <1> QED BY <1>1, <1>2, UndoneIs, CountedIs

LEMMA UndoObjectIs ==
  ASSUME ContentInv, NEW c \in Callers, UndoObject(c)
  PROVE  /\ Counted /\ call[c].pc = "undo" /\ Head(call[c].undo).kind = "object"
         /\ \E q, leak : /\ leak \in BOOLEAN /\ Turns(c, q) /\ Same(call[c], q)
                         /\ UndoneTo(c, q, leak) /\ Erased(objects, objects', call[c].ver, leak)
  <1>1. PICK leak \in BOOLEAN : Undone(c, leak) /\ Erased(objects, objects', call[c].ver, leak)
    BY DEF UndoObject, Erased
  <1>2. call[c].pc = "undo" /\ Head(call[c].undo).kind = "object" /\ (Fault \/ NoFault)
    BY DEF UndoObject
  <1> QED BY <1>1, <1>2, UndoneIs, CountedIs

-----------------------------------------------------------------------------
(***************************************************************************)
(* Delete.                                                                 *)
(***************************************************************************)
LEMMA DeleterIs ==
  ASSUME ContentInv, NEW c \in Callers, call[c].pc \in DeletePc
  PROVE  /\ call[c] \in CallRec /\ call[c].op = "delete" /\ call[c].outer = Outer
         /\ call[c].leak \in BOOLEAN /\ call[c].undo \in Seq(Item)
  BY PcsApart DEF ContentInv, Fit, StepOf, CallRec

\* A Delete that goes on: the record fits wherever it goes.
LEMMA DeleterFits ==
  ASSUME NEW q \in CallRec, q.pc \in DeletePc, q.op = "delete", q.outer = Outer,
         q.pc = "dobj" => deployment = "gcs", q.pc = "drm" => q.undo # <<>>
  PROVE  Fit(q)
  BY PcsApart DEF Fit, StepOf, Uploading, Getting, UploadPc, DeletePc, GetPc, Finished

DeletesTo(c, q) ==
  /\ q.pc \in {"err", "ok"} \cup DeletePc
  /\ q.pc = "ok" => call[c].pc \in {"ddoc", "dobj"}
  /\ q.pc \in {"dobj", "ok"} /\ call[c].pc # "dobj" => ~Has(bundles', call[c].ver)
  /\ q.pc = "ok" /\ call[c].pc = "ddoc" => deployment = "docs"

\* InnerDeleted: gcsrelease goes on to the object, docrelease is done.
LEMMA InnerDeletedIs ==
  ASSUME ContentInv, NEW c \in Callers, call[c].pc \in DeletePc, NEW missed \in BOOLEAN,
         InnerDeleted(c, missed)
  PROVE  \E q : /\ Turns(c, q) /\ Same(call[c], q)
                /\ q.pc = IF deployment = "gcs" THEN "dobj" ELSE IF missed THEN "err" ELSE "ok"
  <1> DEFINE r == call[c]
             m == [r EXCEPT !.missed = missed]
             pc == IF deployment = "gcs" THEN "dobj" ELSE IF missed THEN "err" ELSE "ok"
             q == At(m, pc)
  <1>1. r \in CallRec /\ r.op = "delete" /\ r.outer = Outer
    BY DeleterIs
  <1>2. m \in CallRec /\ m.op = r.op /\ m.ver = r.ver /\ m.id = r.id /\ m.outer = r.outer
    BY <1>1 DEF CallRec
  <1>3. (r.outer # <<>>) <=> (deployment = "gcs")
    BY <1>1 DEF Outer
  <1>4. call' = [call EXCEPT ![c] = q]
    <2>1. call' = [call EXCEPT ![c] = At([call[c] EXCEPT !.missed = missed],
                     IF call[c].outer # <<>> THEN "dobj" ELSE IF missed THEN "err" ELSE "ok")]
      BY DEF InnerDeleted
    <2>2. (IF call[c].outer # <<>> THEN "dobj" ELSE IF missed THEN "err" ELSE "ok") = pc
      BY <1>3
    <2> QED BY <2>1, <2>2
  <1>5. pc \in AllPc
    BY DEF AllPc, DeletePc, Finished
  <1> HIDE DEF m, r
  <1>6. q \in CallRec /\ q.pc = pc /\ q.op = m.op
        /\ (pc \notin Finished => q = [m EXCEPT !.pc = pc])
        /\ (pc \in Finished => q.ver = m.ver /\ q.id = m.id)
    BY <1>1, <1>2, <1>5, AtIs
  <1>7. Same(r, q) /\ (pc \notin Finished => q.outer = Outer)
    BY <1>1, <1>2, <1>6 DEF Same, CallRec
  <1> HIDE DEF q
  <1>8. Fit(q)
    <2>1. CASE deployment = "gcs"
      BY <1>1, <1>2, <1>6, <1>7, <2>1, DeleterFits DEF DeletePc, Finished
    <2>2. CASE deployment # "gcs"
      BY <1>1, <1>2, <1>6, <2>2, EndedIsSound DEF Fit, Finished
    <2> QED BY <2>1, <2>2
  <1> QED BY <1>4, <1>6, <1>7, <1>8 DEF Turns, r

LEMMA DeleteGetIs ==
  ASSUME ContentInv, NEW c \in Callers, DeleteGet(c), bundles' = bundles
  PROVE  /\ Counted /\ call[c].pc = "dget"
         /\ \E q : Turns(c, q) /\ Same(call[c], q) /\ DeletesTo(c, q)
  <1> DEFINE r == call[c]
  <1>0. r.pc = "dget" /\ (Fault \/ NoFault) /\ r.pc \in DeletePc
    BY DEF DeleteGet, DeletePc
  <1>c. Counted /\ call[c].pc = "dget"
    BY <1>0, CountedIs
  <1>1. r \in CallRec /\ r.op = "delete" /\ r.outer = Outer
    BY <1>0, DeleterIs
  <1>2. CASE ~Has(bundles, r.ver) /\ InnerDeleted(c, TRUE)
    <2>1. PICK q : /\ Turns(c, q) /\ Same(call[c], q)
                   /\ q.pc = IF deployment = "gcs" THEN "dobj" ELSE "err"
      BY <1>0, <1>2, InnerDeletedIs
    <2>2. DeletesTo(c, q)
      BY <1>0, <1>2, <2>1 DEF DeletesTo, DeletePc
    <2> QED BY <1>c, <2>1, <2>2
  <1>3. CASE GoTo(c, "err")
    <2>1. PICK q : /\ Fit(q) /\ call' = [call EXCEPT ![c] = q]
                /\ q.pc = "err" /\ q.op = call[c].op /\ q.ver = call[c].ver /\ q.id = call[c].id
      BY <1>3, EndIs DEF Finished
    <2> QED BY <1>c, <2>1 DEF Turns, Same, DeletesTo
  <1>4. CASE /\ Has(bundles, r.ver)
             /\ call' = [call EXCEPT ![c].undo = ChunkItems(bundles[r.ver].ids),
                                     ![c].pc = IF bundles[r.ver].ids = 0 THEN "ddoc" ELSE "drm"]
    <2>1. PICK n \in Nat : n = bundles[r.ver].ids
      BY <1>4 DEF ContentInv, Shape, Has, Bundle
    <2>2. PICK u \in Seq(Item) : u = ChunkItems(n) /\ Len(u) = n
      BY ItemLists
    <2>3. PICK p : p = IF n = 0 THEN "ddoc" ELSE "drm"
      OBVIOUS
    <2> DEFINE q == [r EXCEPT !.undo = u, !.pc = p]
    <2>4. call' = [call EXCEPT ![c] = q]
      BY <1>4, <2>1, <2>2, <2>3 DEF ContentInv, Shape
    <2>5. p \in {"ddoc", "drm"} /\ p \in AllPc
      BY <2>3 DEF AllPc, DeletePc
    <2> HIDE DEF r
    <2>6. q \in CallRec /\ q.pc = p /\ q.op = r.op /\ q.ver = r.ver /\ q.id = r.id
          /\ q.outer = r.outer /\ q.undo = u
      BY ZenonT(40), <1>1, <2>2, <2>5 DEF CallRec, AllPc
    <2> HIDE DEF q
    <2>7. p = "drm" => u # <<>>
      BY <2>2, <2>3
    <2>8. Fit(q)
      BY <1>1, <2>5, <2>6, <2>7, DeleterFits DEF DeletePc
    <2> QED BY <1>c, <2>4, <2>5, <2>6, <2>8 DEF Turns, Same, DeletesTo, DeletePc, r
  <1> QED BY <1>2, <1>3, <1>4 DEF DeleteGet

LEMMA DeleteChunkIs ==
  ASSUME ContentInv, NEW c \in Callers, DeleteChunk(c)
  PROVE  /\ Counted /\ call[c].pc = "drm"
         /\ chunks' \in {chunks, Without(chunks, <<call[c].ver, Head(call[c].undo).i>>)}
         /\ \E q : Turns(c, q) /\ Same(call[c], q) /\ DeletesTo(c, q)
  <1> DEFINE r == call[c]
  <1>0. r.pc = "drm" /\ (Fault \/ NoFault) /\ r.pc \in DeletePc
        /\ chunks' \in {chunks, Without(chunks, <<call[c].ver, Head(call[c].undo).i>>)}
    BY DEF DeleteChunk, DeletePc
  <1>c. Counted /\ call[c].pc = "drm"
    BY <1>0, CountedIs
  <1>1. r \in CallRec /\ r.op = "delete" /\ r.outer = Outer /\ r.leak \in BOOLEAN
        /\ r.undo \in Seq(Item)
    BY <1>0, DeleterIs
  <1>2. r.undo # <<>>
    BY <1>0 DEF ContentInv, Fit, StepOf
  <1>3. PICK t \in Seq(Item) : t = Tail(r.undo) /\ Len(t) = Len(r.undo) - 1
    BY <1>1, <1>2, HeadTailProperties
  <1>4. PICK leak \in BOOLEAN :
          call' = [call EXCEPT ![c] =
                   At([r EXCEPT !.undo = Tail(r.undo), !.leak = r.leak \/ leak],
                      IF Len(r.undo) > 1 THEN "drm"
                      ELSE IF r.leak \/ leak THEN "err" ELSE "ddoc")]
    BY DEF DeleteChunk
  <1>5. PICK p : p = IF Len(r.undo) > 1 THEN "drm" ELSE IF r.leak \/ leak THEN "err" ELSE "ddoc"
    OBVIOUS
  <1>6. PICK l \in BOOLEAN : l = (r.leak \/ leak)
    OBVIOUS
  <1> DEFINE m == [r EXCEPT !.undo = t, !.leak = l]
             q == At(m, p)
  <1>7. call' = [call EXCEPT ![c] = q]
    BY <1>3, <1>4, <1>5, <1>6
  <1>8. p \in {"drm", "err", "ddoc"} /\ p \in AllPc
    BY <1>5 DEF AllPc, DeletePc, Finished
  <1> HIDE DEF r
  <1>9. m \in CallRec /\ m.op = r.op /\ m.ver = r.ver /\ m.id = r.id /\ m.outer = r.outer
        /\ m.undo = t
    BY <1>1, <1>3 DEF CallRec
  <1> HIDE DEF m
  <1>10. q \in CallRec /\ q.pc = p /\ q.op = m.op
        /\ (p \notin Finished => q = [m EXCEPT !.pc = p])
        /\ (p \in Finished => q.ver = m.ver /\ q.id = m.id)
    BY <1>1, <1>8, <1>9, AtIs
  <1>11. Same(r, q) /\ (p \notin Finished => q.outer = Outer /\ q.undo = t)
    BY <1>1, <1>9, <1>10 DEF Same, CallRec
  <1>12. p = "drm" => t # <<>>
    <2>1. Len(r.undo) \in Nat
      BY <1>1, LenProperties
    <2>2. p = "drm" => Len(r.undo) > 1
      BY <1>5
    <2>3. p = "drm" => Len(t) > 0
      BY <1>3, <2>1, <2>2
    <2> QED BY <2>3
  <1> HIDE DEF q
  <1>13. Fit(q)
    <2>1. CASE p \in {"drm", "ddoc"}
      BY <1>1, <1>9, <1>10, <1>11, <1>12, <2>1, DeleterFits DEF DeletePc, Finished
    <2>2. CASE p = "err"
      BY <1>1, <1>9, <1>10, <2>2, EndedIsSound DEF Fit, Finished
    <2> QED BY <1>8, <2>1, <2>2
  <1>14. DeletesTo(c, q)
    BY <1>8, <1>10 DEF DeletesTo, DeletePc
  <1> QED BY <1>0, <1>c, <1>7, <1>11, <1>13, <1>14 DEF Turns, r

LEMMA DeleteDocIs ==
  ASSUME ContentInv, NEW c \in Callers, DeleteDoc(c)
  PROVE  /\ Counted /\ call[c].pc = "ddoc" /\ bundles' \in {bundles, Without(bundles, call[c].ver)}
         /\ \E q : Turns(c, q) /\ Same(call[c], q) /\ DeletesTo(c, q)
  <1>0. call[c].pc = "ddoc" /\ (Fault \/ NoFault) /\ call[c].pc \in DeletePc
        /\ bundles' \in {bundles, Without(bundles, call[c].ver)}
    BY DEF DeleteDoc, DeletePc
  <1>c. Counted /\ call[c].pc = "ddoc" /\ bundles' \in {bundles, Without(bundles, call[c].ver)}
    BY <1>0, CountedIs
  <1>1. call[c].op = "delete"
    BY <1>0, DeleterIs
  <1>2. CASE bundles' = Without(bundles, call[c].ver) /\ InnerDeleted(c, FALSE)
    <2>1. PICK q : /\ Turns(c, q) /\ Same(call[c], q)
                   /\ q.pc = IF deployment = "gcs" THEN "dobj" ELSE "ok"
      BY <1>0, <1>2, InnerDeletedIs
    <2>2. ~Has(bundles', call[c].ver)
      BY <1>2 DEF Has, Without
    <2>3. DeletesTo(c, q)
      <3>1. deployment \in {"docs", "gcs"}
        BY DEF ContentInv, Shape
      <3> QED BY <1>0, <2>1, <2>2, <3>1 DEF DeletesTo, DeletePc
    <2> QED BY <1>c, <2>1, <2>3
  <1>3. CASE GoTo(c, "err")
    <2>1. PICK q : /\ Fit(q) /\ call' = [call EXCEPT ![c] = q]
                /\ q.pc = "err" /\ q.op = call[c].op /\ q.ver = call[c].ver /\ q.id = call[c].id
      BY <1>3, EndIs DEF Finished
    <2> QED BY <1>c, <2>1 DEF Turns, Same, DeletesTo
  <1> QED BY <1>2, <1>3 DEF DeleteDoc

LEMMA DeleteObjectIs ==
  ASSUME ContentInv, NEW c \in Callers, DeleteObject(c)
  PROVE  /\ Counted /\ call[c].pc = "dobj" /\ objects' \in {objects, Without(objects, call[c].ver)}
         /\ \E q : /\ Turns(c, q) /\ Same(call[c], q) /\ DeletesTo(c, q) /\ q.pc \in Finished
                   /\ q.pc = "ok" => ~Has(objects', call[c].ver)
  <1>0. call[c].pc = "dobj" /\ (Fault \/ NoFault) /\ call[c].pc \in DeletePc
        /\ objects' \in {objects, Without(objects, call[c].ver)}
    BY DEF DeleteObject, DeletePc
  <1>c. Counted /\ call[c].pc = "dobj" /\ objects' \in {objects, Without(objects, call[c].ver)}
    BY <1>0, CountedIs
  <1>1. call[c].op = "delete"
    BY <1>0, DeleterIs
  <1>2. \/ GoTo(c, "err")
        \/ GoTo(c, "ok") /\ objects' = Without(objects, call[c].ver)
    BY DEF DeleteObject
  <1>3. PICK p \in Finished : GoTo(c, p) /\ (p = "ok" => objects' = Without(objects, call[c].ver))
    BY <1>2 DEF Finished
  <1>4. PICK q : /\ Fit(q) /\ call' = [call EXCEPT ![c] = q]
                /\ q.pc = p /\ q.op = call[c].op /\ q.ver = call[c].ver /\ q.id = call[c].id
    BY <1>1, <1>3, EndIs
  <1>5. q.pc = "ok" => ~Has(objects', call[c].ver)
    BY <1>3, <1>4 DEF Has, Without
  <1> QED BY <1>c, <1>3, <1>4, <1>5 DEF Turns, Same, DeletesTo, Finished

-----------------------------------------------------------------------------
(***************************************************************************)
(* Get.                                                                    *)
(***************************************************************************)
LEMMA GetterIs ==
  ASSUME ContentInv, NEW c \in Callers, call[c].pc \in GetPc
  PROVE  /\ call[c] \in CallRec /\ call[c].op = "get" /\ call[c].outer = Outer
         /\ Getting(call[c]) /\ StepOf(call[c])
  BY PcsApart DEF ContentInv, Fit, StepOf

\* A Get writes nothing, and when it ends it gives up its number or keeps it.
ReadsTo(r, q) == /\ q.op = "get" /\ q.pc \in Finished \cup GetPc /\ q.id \in {0, r.id}
                 /\ q.pc \in GetPc => q.id = r.id

LEMMA GetErrs ==
  ASSUME ContentInv, NEW c \in Callers, call[c].pc \in GetPc, GoTo(c, "err")
  PROVE  \E q : Turns(c, q) /\ ReadsTo(call[c], q)
  <1>1. PICK q : /\ Fit(q) /\ call' = [call EXCEPT ![c] = q]
                 /\ q.pc = "err" /\ q.op = call[c].op /\ q.ver = call[c].ver /\ q.id = call[c].id
    BY EndIs DEF Finished
  <1> QED BY <1>1, GetterIs, PcsApart DEF Turns, ReadsTo

\* A Get that goes on with what it has found.
LEMMA GetterFits ==
  ASSUME NEW q \in CallRec, q.pc \in GetPc, q.op = "get", q.outer = Outer, Getting(q),
         q.pc \in {"glatest", "gobj"} => deployment = "gcs",
         q.pc = "gchunk" => deployment = "docs"
  PROVE  Fit(q)
  BY PcsApart DEF Fit, StepOf, Uploading, UploadPc, GetPc, Finished

LEMMA ResolveIs ==
  ASSUME ContentInv, NEW c \in Callers, ResolveLatest(c)
  PROVE  Counted /\ call[c].pc \in GetPc /\ \E q : Turns(c, q) /\ ReadsTo(call[c], q)
  <1> DEFINE r == call[c]
  <1>0. r.pc = "glatest" /\ (Fault \/ NoFault) /\ r.pc \in GetPc
    BY DEF ResolveLatest, GetPc
  <1>c. Counted /\ call[c].pc \in GetPc
    BY <1>0, CountedIs
  <1>1. r \in CallRec /\ r.op = "get" /\ r.outer = Outer /\ Getting(r)
    BY <1>0, GetterIs
  <1>2. CASE GoTo(c, "err")
    BY <1>c, <1>2, GetErrs
  <1>3. CASE pack # None /\ call' = [call EXCEPT ![c].pc = "gdoc", ![c].ver = pack.latest]
    <2>1. PICK v \in Names : v = pack.latest
      BY <1>3 DEF ContentInv, Shape
    <2> DEFINE q == [r EXCEPT !.pc = "gdoc", !.ver = v]
    <2>2. call' = [call EXCEPT ![c] = q]
      BY <1>3, <2>1 DEF ContentInv, Shape
    <2>3. q \in CallRec /\ q.pc = "gdoc" /\ q.op = r.op /\ q.id = r.id /\ q.outer = r.outer
          /\ q.data = r.data
      <3>1. "gdoc" \in Finished \cup UploadPc \cup DeletePc \cup GetPc
        BY DEF GetPc
      <3> HIDE DEF r
      <3> QED BY <1>1, <3>1 DEF CallRec
    <2> HIDE DEF q
    <2>4. Getting(q)
      BY <1>0, <1>1, <2>3 DEF Getting
    <2>5. Fit(q)
      BY <1>1, <2>3, <2>4, GetterFits DEF GetPc
    <2> QED BY <1>c, <1>1, <2>2, <2>3, <2>5 DEF Turns, ReadsTo, GetPc
  <1> QED BY <1>2, <1>3 DEF ResolveLatest

\* The end of a download, in either deployment: what was read is a beginning
\* of the file where it equals the checksum.
LEMMA DeliverIs ==
  ASSUME ContentInv, NEW c \in Callers, call[c].pc \in GetPc, NEW data \in File, NEW checksum,
         call[c].doc \in Bundle,
         data = checksum =>
           /\ Prefix(data, call[c].doc.from.file)
           /\ deployment = "docs" => call[c].doc.sum = data
           /\ deployment = "gcs" /\ call[c].doc.from.size > 0 => data = call[c].doc.from.file,
         Deliver(c, data, checksum)
  PROVE  \E q : Turns(c, q) /\ ReadsTo(call[c], q)
  <1> DEFINE r == call[c]
             m == [r EXCEPT !.data = data]
  <1>1. r \in CallRec /\ r.op = "get"
    BY GetterIs
  <1>2. PICK p \in {"ok", "err"} :
          /\ p = "ok" => data = checksum /\ VerifySignature(r, data)
          /\ call' = [call EXCEPT ![c] = At(m, p)]
    BY DEF Deliver
  <1> DEFINE q == At(m, p)
  <1>3. m \in CallRec /\ m.op = "get" /\ m.mode = r.mode /\ m.doc = r.doc /\ m.data = data
        /\ m.id = r.id
    <2> HIDE DEF r
    <2> QED BY <1>1 DEF CallRec
  <1>4. p \in AllPc /\ p \in Finished
    BY DEF AllPc, Finished
  <1> HIDE DEF m
  <1>5. q \in CallRec /\ q.pc = p /\ q.op = "get"
        /\ (p = "err" => q.id = m.id)
        /\ (p = "ok" => q.mode = m.mode /\ q.doc = m.doc /\ q.data = m.data /\ q.id = 0)
    BY <1>3, <1>4, AtIs
  <1> HIDE DEF q
  <1>6. StepOf(q) /\ Uploading(q)
    BY <1>4, <1>5, PcsApart DEF StepOf, Uploading
  <1>7. Getting(q)
    <2>1. CASE p = "err"
      BY <1>5, <2>1 DEF Getting
    <2>2. CASE p = "ok"
      BY <1>2, <1>3, <1>5, <2>2 DEF Getting, VerifySignature
    <2> QED BY <2>1, <2>2
  <1>8. call' = [call EXCEPT ![c] = q]
    BY <1>2 DEF q
  <1>9. ReadsTo(r, q)
    BY <1>3, <1>4, <1>5, PcsApart DEF ReadsTo
  <1> QED BY <1>5, <1>6, <1>7, <1>8, <1>9 DEF Turns, Fit

LEMMA ReadObjectIs ==
  ASSUME ContentInv, NEW c \in Callers, NEW name, ReadObject(c, name)
  PROVE  Counted /\ call[c].pc \in GetPc /\ \E q : Turns(c, q) /\ ReadsTo(call[c], q)
  <1> DEFINE r == call[c]
  <1>0. r.pc = "gobj" /\ (Fault \/ NoFault) /\ r.pc \in GetPc
    BY DEF ReadObject, GetPc
  <1>c. Counted /\ call[c].pc \in GetPc
    BY <1>0, CountedIs
  <1>1. Sound(r.doc) /\ deployment = "gcs"
    BY <1>0, GetterIs DEF Getting, StepOf
  <1>2. CASE GoTo(c, "err")
    BY <1>c, <1>2, GetErrs
  <1>3. CASE Has(objects, name) /\ Deliver(c, objects[name].data, r.doc.sha)
    <2>1. PICK d \in File : d = objects[name].data
      BY <1>3 DEF ContentInv, Shape, Has, Object
    <2>2. d = r.doc.sha => /\ Prefix(d, r.doc.from.file)
                           /\ deployment = "docs" => r.doc.sum = d
                           /\ deployment = "gcs" /\ r.doc.from.size > 0 => d = r.doc.from.file
      BY <1>1 DEF Sound
    <2>3. Deliver(c, d, r.doc.sha)
      BY <1>3, <2>1
    <2>4. r.doc \in Bundle
      BY <1>1 DEF Sound
    <2> QED BY <1>0, <1>c, <2>2, <2>3, <2>4, DeliverIs
  <1> QED BY <1>2, <1>3 DEF ReadObject

LEMMA GetDocIs ==
  ASSUME ContentInv, NEW c \in Callers, GetDoc(c)
  PROVE  Counted /\ call[c].pc \in GetPc /\ \E q : Turns(c, q) /\ ReadsTo(call[c], q)
  <1> DEFINE r == call[c]
  <1>0. r.pc = "gdoc" /\ (Fault \/ NoFault) /\ r.pc \in GetPc
    BY DEF GetDoc, GetPc
  <1>c. Counted /\ call[c].pc \in GetPc
    BY <1>0, CountedIs
  <1>1. r \in CallRec /\ r.op = "get" /\ r.outer = Outer /\ r.data = <<>>
    BY <1>0, GetterIs DEF Getting
  <1>2. CASE GoTo(c, "err")
    BY <1>c, <1>2, GetErrs
  <1>3. CASE /\ Has(bundles, r.ver)
             /\ call' = [call EXCEPT ![c] =
                          At([@ EXCEPT !.doc = bundles[r.ver]],
                             IF r.mode = "discard" THEN "ok"
                             ELSE IF r.outer # <<>> THEN "gobj" ELSE "gchunk")]
    <2>1. PICK b \in Bundle : b = bundles[r.ver] /\ Sound(b)
      BY <1>3 DEF ContentInv, Shape, Has
    <2>2. PICK p : p = IF r.mode = "discard" THEN "ok"
                       ELSE IF r.outer # <<>> THEN "gobj" ELSE "gchunk"
      OBVIOUS
    <2> DEFINE m == [r EXCEPT !.doc = b]
               q == At(m, p)
    <2>3. call' = [call EXCEPT ![c] = q]
      BY <1>3, <2>1, <2>2
    <2>4. /\ p \in {"ok", "gobj", "gchunk"} /\ p \in AllPc /\ (p = "ok" => r.mode = "discard")
          /\ (p = "gobj" => deployment = "gcs") /\ (p = "gchunk" => deployment = "docs")
      <3>1. deployment \in {"docs", "gcs"}
        BY DEF ContentInv, Shape
      <3> QED BY <1>1, <2>2, <3>1 DEF AllPc, GetPc, Finished, Outer
    <2>5. m \in CallRec /\ m.op = "get" /\ m.mode = r.mode /\ m.doc = b /\ m.data = <<>>
          /\ m.id = r.id /\ m.outer = Outer
      <3> HIDE DEF r
      <3> QED BY <1>1 DEF CallRec
    <2> HIDE DEF m
    <2>6. q \in CallRec /\ q.pc = p /\ q.op = "get"
          /\ (p \notin Finished => q = [m EXCEPT !.pc = p])
          /\ (p = "ok" => q.mode = m.mode /\ q.id = 0)
      BY <2>4, <2>5, AtIs DEF Finished
    <2>7. CASE p = "ok"
      <3> HIDE DEF q
      <3>1. StepOf(q) /\ Uploading(q)
        BY <2>6, <2>7, PcsApart DEF StepOf, Uploading
      <3>2. Getting(q)
        BY <2>4, <2>5, <2>6, <2>7 DEF Getting
      <3>3. ReadsTo(r, q)
        BY <2>6, <2>7, PcsApart DEF ReadsTo
      <3> QED BY <1>c, <2>3, <2>6, <3>1, <3>2, <3>3 DEF Turns, Fit, q
    <2>8. CASE p # "ok"
      <3>1. q = [m EXCEPT !.pc = p] /\ p \in GetPc
        BY <2>4, <2>6, <2>8 DEF Finished, GetPc
      <3>2. q.doc = b /\ q.data = <<>> /\ q.id = r.id /\ q.outer = Outer
        BY <2>5, <3>1 DEF CallRec
      <3> HIDE DEF q
      <3>3. Len(<<>>) <= b.ids
        BY DEF Bundle
      <3>4. Getting(q)
        BY <2>1, <2>4, <2>6, <2>8, <3>2, <3>3 DEF Getting
      <3>5. Fit(q)
        BY <2>4, <2>6, <3>1, <3>2, <3>4, GetterFits
      <3> QED BY <1>c, <2>3, <2>6, <3>1, <3>2, <3>5 DEF Turns, ReadsTo, q
    <2> QED BY <2>7, <2>8
  <1> QED BY <1>2, <1>3 DEF GetDoc

LEMMA GetChunkIs ==
  ASSUME ContentInv, NEW c \in Callers, GetChunk(c)
  PROVE  Counted /\ call[c].pc \in GetPc /\ \E q : Turns(c, q) /\ ReadsTo(call[c], q)
  <1> DEFINE r == call[c]
             i == Len(r.data) + 1
  <1>0. r.pc = "gchunk" /\ (Fault \/ NoFault) /\ r.pc \in GetPc
    BY DEF GetChunk, GetPc
  <1>c. Counted /\ call[c].pc \in GetPc
    BY <1>0, CountedIs
  <1>1. r \in CallRec /\ r.op = "get" /\ r.outer = Outer /\ Sound(r.doc) /\ deployment = "docs"
        /\ Len(r.data) <= r.doc.ids /\ r.data \in File
    BY <1>0, GetterIs DEF Getting, StepOf, CallRec
  <1>n. Len(r.data) \in Nat /\ r.doc \in Bundle /\ r.doc.ids \in Nat /\ r.doc.from.file \in File
    <2>1. r.doc \in Bundle
      BY <1>1 DEF Sound
    <2>2. r.doc.ids \in Nat /\ r.doc.from \in From
      BY <2>1 DEF Bundle
    <2> QED BY <1>1, <2>1, <2>2, LenProperties DEF From, File
  <1>2. CASE GoTo(c, "err")
    BY <1>c, <1>2, GetErrs
  <1>3. CASE /\ i <= r.doc.ids /\ Has(chunks, <<r.ver, i>>)
             /\ call' = [call EXCEPT ![c].data = Append(@, chunks[<<r.ver, i>>])]
    <2>1. PICK x \in Chunk : x = chunks[<<r.ver, i>>]
      BY <1>3 DEF ContentInv, Shape, Has
    <2>a. PICK d \in File : d = r.data
      BY <1>1
    <2>b. Append(d, x) \in File /\ Len(Append(d, x)) = Len(d) + 1
      BY AppendProperties DEF File
    <2>2. PICK a \in File : a = Append(r.data, x) /\ Len(a) = Len(r.data) + 1
      BY <2>a, <2>b
    <2> DEFINE q == [r EXCEPT !.data = a]
    <2>3. call' = [call EXCEPT ![c] = q]
      BY <1>3, <2>1, <2>2 DEF ContentInv, Shape
    <2>4. q \in CallRec /\ q.pc = "gchunk" /\ q.op = "get" /\ q.id = r.id /\ q.outer = Outer
          /\ q.doc = r.doc /\ q.data = a
      <3> HIDE DEF r
      <3> QED BY <1>0, <1>1 DEF CallRec
    <2> HIDE DEF q
    <2>5. Len(a) <= r.doc.ids
      BY <1>3, <1>n, <2>2
    <2>6. Getting(q)
      BY <1>1, <2>4, <2>5 DEF Getting
    <2>7. Fit(q)
      BY <1>1, <2>4, <2>6, GetterFits DEF GetPc
    <2> QED BY <1>c, <2>3, <2>4, <2>7 DEF Turns, ReadsTo, GetPc
  <1>4. CASE Deliver(c, r.data, r.doc.sum)
    <2>1. r.data = r.doc.sum => Prefix(r.data, r.doc.from.file)
      <3>1. CASE r.doc.ids = 0
        <4>1. Len(r.data) = 0
          BY <1>1, <1>n, <3>1
        <4>2. r.data = <<>>
          BY <1>1, <4>1, EmptySeq DEF File
        <4> QED BY <1>n, <4>2, EmptyBegins
      <3>2. CASE r.doc.ids # 0
        BY <1>1, <3>2 DEF Sound
      <3> QED BY <3>1, <3>2
    <2>2. PICK d \in File : d = r.data
      BY <1>1
    <2>3. d = r.doc.sum => /\ Prefix(d, r.doc.from.file)
                           /\ deployment = "docs" => r.doc.sum = d
                           /\ deployment = "gcs" /\ r.doc.from.size > 0 => d = r.doc.from.file
      BY <1>1, <2>1, <2>2
    <2>4. Deliver(c, d, r.doc.sum)
      BY <1>4, <2>2
    <2> QED BY <1>0, <1>c, <1>n, <2>3, <2>4, DeliverIs
  <1> QED BY <1>2, <1>3, <1>4 DEF GetChunk

-----------------------------------------------------------------------------
(***************************************************************************)
(* The contents are an inductive invariant.                                *)
(***************************************************************************)
LEMMA KindKept ==
  ASSUME NEW S, NEW f, f \in [DOMAIN f -> S], NEW k, NEW x, NEW g,
         g \in {f, Without(f, k)} \/ (x \in S /\ g = Put(f, k, x))
  PROVE  g \in [DOMAIN g -> S]
  BY DEF Put, Without

LEMMA ShapeStep ==
  ASSUME ContentInv, NEW c \in Callers, NEW q, Turns(c, q), count' \in CountRec,
         pack' \in {None} \cup [latest : Names, meta : BOOLEAN],
         bundles' \in [DOMAIN bundles' -> Bundle], chunks' \in [DOMAIN chunks' -> Chunk],
         objects' \in [DOMAIN objects' -> Object],
         deployment = "docs" => DOMAIN objects' = {},
         deployment' = deployment,
         \A v \in DOMAIN bundles' : Sound(bundles'[v])
  PROVE  ContentInv'
  <1>1. q \in CallRec /\ call \in [Callers -> CallRec]
    BY DEF Turns, Fit, ContentInv, Shape
  <1>2. call' \in [Callers -> CallRec]
    BY <1>1 DEF Turns
  <1>3. Shape'
    BY <1>2 DEF Shape, CountRec, ContentInv
  <1> QED BY <1>3, ContentStep DEF Turns

\* A step of a call that leaves the documents and the objects alone.
LEMMA ReadStep ==
  ASSUME ContentInv, NEW c \in Callers, NEW q, Turns(c, q), count' \in CountRec,
         UNCHANGED <<docVars, objects, deployment>>
  PROVE  ContentInv'
  BY ShapeStep DEF docVars, ContentInv, Shape

\* A step that changes release documents only, to sound ones.
LEMMA BundleStep ==
  ASSUME ContentInv, NEW c \in Callers, NEW q, Turns(c, q), Counted, NEW v, NEW b,
         \/ bundles' \in {bundles, Without(bundles, v)}
         \/ Sound(b) /\ bundles' = Put(bundles, v, b),
         UNCHANGED <<pack, chunks, objects, deployment>>
  PROVE  ContentInv'
  <1>1. (Sound(b) => b \in Bundle) /\ bundles \in [DOMAIN bundles -> Bundle]
        /\ \A k \in DOMAIN bundles : Sound(bundles[k])
    BY DEF Sound, ContentInv, Shape
  <1>2. bundles' \in [DOMAIN bundles' -> Bundle]
    <2>1. PICK f, g : f = bundles /\ g = bundles'
      OBVIOUS
    <2>2. f \in [DOMAIN f -> Bundle] /\ (g \in {f, Without(f, v)} \/ (b \in Bundle /\ g = Put(f, v, b)))
      BY <1>1, <2>1
    <2>3. g \in [DOMAIN g -> Bundle]
      BY <2>2, KindKept
    <2> QED BY <2>1, <2>3
  <1>3. \A k \in DOMAIN bundles' : Sound(bundles'[k])
    <2>1. CASE bundles' = bundles
      BY <1>1, <2>1
    <2>2. CASE bundles' = Without(bundles, v)
      <3>1. DOMAIN bundles' = DOMAIN bundles \ {v} /\ \A j \in DOMAIN bundles : j # v => bundles'[j] = bundles[j]
        BY <2>2 DEF Without
      <3> QED BY <1>1, <3>1
    <2>3. CASE Sound(b) /\ bundles' = Put(bundles, v, b)
      <3>1. DOMAIN bundles' = DOMAIN bundles \cup {v} /\ bundles'[v] = b
            /\ \A j \in DOMAIN bundles : j # v => bundles'[j] = bundles[j]
        BY <2>3 DEF Put
      <3> QED BY <1>1, <2>3, <3>1
    <2> QED BY <2>1, <2>2, <2>3
  <1> QED BY <1>2, <1>3, ShapeStep DEF ContentInv, Shape, Counted

\* A step that changes data documents only.
LEMMA ChunkStep ==
  ASSUME ContentInv, NEW c \in Callers, NEW q, Turns(c, q), Counted, NEW k, NEW x,
         \/ chunks' \in {chunks, Without(chunks, k)}
         \/ x \in Chunk /\ chunks' = Put(chunks, k, x),
         UNCHANGED <<pack, bundles, objects, deployment>>
  PROVE  ContentInv'
  <1>1. chunks' \in [DOMAIN chunks' -> Chunk]
    <2>1. PICK f, g : f = chunks /\ g = chunks'
      OBVIOUS
    <2>2. f \in [DOMAIN f -> Chunk] /\ (g \in {f, Without(f, k)} \/ (x \in Chunk /\ g = Put(f, k, x)))
      BY <2>1 DEF ContentInv, Shape
    <2>3. g \in [DOMAIN g -> Chunk]
      BY <2>2, KindKept
    <2> QED BY <2>1, <2>3
  <1> QED BY <1>1, ShapeStep DEF ContentInv, Shape, Counted

\* A step of gcsrelease on its bucket.
LEMMA ObjectStep ==
  ASSUME ContentInv, NEW c \in Callers, NEW q, Turns(c, q), Counted, NEW v, NEW x,
         \/ objects' \in {objects, Without(objects, v)}
         \/ x \in Object /\ objects' = Put(objects, v, x) /\ deployment = "gcs",
         UNCHANGED <<docVars, deployment>>
  PROVE  ContentInv'
  <1>1. objects \in [DOMAIN objects -> Object] /\ (deployment = "docs" => DOMAIN objects = {})
    BY DEF ContentInv, Shape
  <1>2. objects' \in [DOMAIN objects' -> Object]
    <2>1. PICK f, g : f = objects /\ g = objects'
      OBVIOUS
    <2>2. f \in [DOMAIN f -> Object] /\ (g \in {f, Without(f, v)} \/ (x \in Object /\ g = Put(f, v, x)))
      BY <1>1, <2>1
    <2>3. g \in [DOMAIN g -> Object]
      BY <2>2, KindKept
    <2> QED BY <2>1, <2>3
  <1>3. deployment = "docs" => DOMAIN objects' = {}
    BY ZenonT(40), <1>1, WithoutKeeps
  <1> QED BY <1>2, <1>3, ShapeStep DEF docVars, ContentInv, Shape, Counted

\* The documents that an upload writes.
LEMMA BundlesAreSound ==
  ASSUME ContentInv, NEW c \in Callers, call[c].pc \in {"create", "set", "latest"}
  PROVE  /\ BundleOf(call[c]) \in Bundle /\ BundleOf(call[c]).id = call[c].id
         /\ Sound(BundleOf(call[c]))
         /\ call[c].pc # "create" => Sound(FullBundleOf(call[c]))
         /\ FullBundleOf(call[c]) \in Bundle /\ FullBundleOf(call[c]).id = call[c].id
         /\ FullBundleOf(call[c]).sha = call[c].sha /\ FullBundleOf(call[c]).ids = Len(call[c].read)
         /\ FullBundleOf(call[c]).sum = call[c].read
  <1> DEFINE r == call[c]
  <1>0. r.pc \in UploadPc
    BY DEF UploadPc
  <1>1. /\ r \in CallRec /\ Uploading(r) /\ r.read \in File /\ r.src \in File
        /\ r.from.file \in File /\ Len(r.read) \in Nat
    BY <1>0, UploaderIs
  <1>2. r.id \in Nat /\ r.from \in From /\ r.sha \in File \cup {None}
    BY <1>1 DEF CallRec
  <1> HIDE DEF r
  <1>3. BundleOf(r) \in Bundle /\ BundleOf(r).id = r.id /\ BundleOf(r).from = r.from
        /\ BundleOf(r).sha = r.sha /\ BundleOf(r).ids = 0
    BY <1>2 DEF BundleOf, Bundle
  <1>4. PICK b \in Bundle : b = BundleOf(r)
    BY <1>3
  <1>5. FullBundleOf(r) = [b EXCEPT !.ids = Len(r.read), !.sum = r.read]
    BY <1>4 DEF FullBundleOf
  <1>6. FullBundleOf(r) \in Bundle /\ FullBundleOf(r).id = r.id /\ FullBundleOf(r).from = r.from
        /\ FullBundleOf(r).sha = r.sha /\ FullBundleOf(r).sum = r.read
        /\ FullBundleOf(r).ids = Len(r.read)
    BY <1>1, <1>3, <1>4, <1>5 DEF Bundle
  <1>7. deployment = "gcs" => /\ r.sha \in File /\ Prefix(r.sha, r.from.file)
                              /\ r.from.size > 0 => r.sha = r.from.file
    BY <1>1 DEF Uploading, r
  <1>8. deployment = "docs" /\ r.pc # "create" => Prefix(r.read, r.from.file)
    <2> SUFFICES ASSUME deployment = "docs", r.pc # "create" PROVE Prefix(r.read, r.from.file)
      OBVIOUS
    <2>1. PICK s \in Sources : r.src = s.src /\ r.from = s.from
      BY <1>0, <1>1 DEF Uploading
    <2>2. Prefix(r.read, r.src) /\ Prefix(r.src, r.from.file)
      BY <1>1, <2>1, SourceIs DEF Uploading, r
    <2>3. r.read = SubSeq(r.src, 1, Len(r.read)) /\ Len(r.read) <= Len(r.src)
      BY <1>1, <2>2, PrefixIs
    <2>4. Len(r.src) \in Nat
      BY <1>1, LenProperties DEF File
    <2>5. Len(r.read) \in 0..Len(r.src)
      BY <1>1, <2>3, <2>4
    <2> QED BY <1>1, <2>2, <2>3, <2>5, PrefixOfPrefix
  <1>9. Sound(BundleOf(r))
    BY <1>3, <1>7 DEF Sound
  <1>10. r.pc # "create" => Sound(FullBundleOf(r))
    BY <1>1, <1>6, <1>7, <1>8 DEF Sound
  <1> QED BY <1>3, <1>6, <1>9, <1>10 DEF r

LEMMA ContentInit == Init => ContentInv
  <1> SUFFICES ASSUME Init PROVE ContentInv
    OBVIOUS
  <1>1. call = [c \in Callers |-> Idle] /\ Idle \in CallRec /\ Idle.pc = "err" /\ Idle.op = "none"
    BY IdleIs DEF Init, DocInit
  <1>2. \A c \in Callers : Fit(call[c])
    BY <1>1, EndedIsSound DEF Fit, Finished
  <1>3. DOMAIN bundles = {} /\ DOMAIN chunks = {} /\ DOMAIN objects = {}
        /\ bundles \in [DOMAIN bundles -> Bundle] /\ chunks \in [DOMAIN chunks -> Chunk]
        /\ objects \in [DOMAIN objects -> Object]
    BY DEF Init, DocInit, EmptyCollection
  <1>4. pack \in {None} \cup [latest : Names, meta : BOOLEAN]
    <2>1. None \in Names
      BY DEF Names
    <2>2. [latest |-> None, meta |-> FALSE] \in [latest : Names, meta : BOOLEAN]
      BY <2>1
    <2> QED BY <2>2 DEF Init, DocInit
  <1>5. Shape
    BY <1>1, <1>3, <1>4 DEF Shape, Init, DocInit
  <1> QED BY <1>2, <1>3, <1>5 DEF ContentInv

-----------------------------------------------------------------------------
(***************************************************************************)
(* A new call, and the death of one.                                       *)
(***************************************************************************)
OpPc(op) == CASE op = "upload" -> {"check", "create"}
              [] op = "delete" -> {"dget"}
              [] op = "get" -> {"glatest", "gdoc"}

Begun(c, q) ==
  /\ ~Busy(c) /\ Turns(c, q)
  /\ q.op \in {"upload", "delete", "get"} /\ q.pc \in OpPc(q.op) /\ q.id = count.calls + 1
  /\ q.pc = "create" => deployment # "gcs"
  /\ count' \in CountRec /\ count'.calls = count.calls + 1
  /\ published' = IF q.op = "delete" THEN Without(published, q.ver) ELSE published
  /\ crossed' = IF \E d \in Callers \ {c} :
                     /\ Busy(d)
                     /\ call[d].ver = q.ver
                     /\ {call[d].op, q.op} = {"upload", "delete"}
                THEN crossed \cup {q.ver} ELSE crossed
  /\ UNCHANGED <<docVars, torn, objects, deployment>>

LEMMA CountCalls ==
  ASSUME ContentInv, Tick("calls", MaxCalls)
  PROVE  count' \in CountRec /\ count'.calls = count.calls + 1 /\ count.calls \in Nat
  BY DEF ContentInv, Shape, CountRec, Tick

\* Begin, for a record that will fit.
LEMMA BeginIs ==
  ASSUME ContentInv, NEW c \in Callers, NEW r \in CallRec, Begin(c, r),
         UNCHANGED <<objects, deployment>>,
         r.op \in {"upload", "delete", "get"}, r.pc \in OpPc(r.op),
         r.pc = "create" => deployment # "gcs",
         StepOf(r), Uploading(r), Getting(r)
  PROVE  \E q : Begun(c, q)
  <1>1. count' \in CountRec /\ count'.calls = count.calls + 1 /\ count.calls \in Nat
    BY CountCalls DEF Begin
  <1>2. PICK n \in Nat : n = count.calls + 1
    BY <1>1
  <1> DEFINE q == [r EXCEPT !.id = n]
  <1>3. call' = [call EXCEPT ![c] = q]
    BY <1>2 DEF Begin
  <1>4. q \in CallRec /\ q.id = n /\ q.pc = r.pc /\ q.op = r.op /\ q.ver = r.ver
        /\ q.outer = r.outer /\ q.src = r.src /\ q.from = r.from /\ q.read = r.read
        /\ q.sha = r.sha /\ q.doc = r.doc /\ q.data = r.data /\ q.mode = r.mode /\ q.undo = r.undo
    BY DEF CallRec
  <1> HIDE DEF q
  <1>5. StepOf(q)
    BY <1>4 DEF StepOf
  <1>6. Uploading(q)
    BY <1>4 DEF Uploading
  <1>7. Getting(q)
    BY <1>4 DEF Getting
  <1>8. Turns(c, q)
    BY <1>3, <1>4, <1>5, <1>6, <1>7 DEF Turns, Fit
  <1>9. published' = IF q.op = "delete" THEN Without(published, q.ver) ELSE published
    BY <1>4 DEF Begin
  <1>10. crossed' = IF \E d \in Callers \ {c} :
                     /\ Busy(d)
                     /\ call[d].ver = q.ver
                     /\ {call[d].op, q.op} = {"upload", "delete"}
                THEN crossed \cup {q.ver} ELSE crossed
    BY <1>4 DEF Begin
  <1>11. q.op \in {"upload", "delete", "get"} /\ q.pc \in OpPc(q.op)
    BY <1>4
  <1>12. ~Busy(c) /\ UNCHANGED <<docVars, torn>>
    BY DEF Begin
  <1> QED BY <1>1, <1>2, <1>4, <1>8, <1>9, <1>10, <1>11, <1>12 DEF Begun

LEMMA OuterIs == Outer \in {<<>>, <<ObjectItem>>}
  BY DEF Outer

LEMMA UploadIs ==
  ASSUME ContentInv, NEW c \in Callers, Upload(c)
  PROVE  \E q : Begun(c, q)
  <1>1. PICK v \in Versions, s \in Sources :
          /\ Begin(c, [Idle EXCEPT !.pc = IF deployment = "gcs" THEN "check" ELSE "create",
                                   !.op = "upload", !.ver = v, !.outer = Outer,
                                   !.src = s.src, !.from = s.from])
          /\ UNCHANGED <<objects, deployment>>
    BY DEF Upload
  <1>z. PICK z \in CallRec : z = Idle
    BY IdleIs
  <1>2. PICK p : p = IF deployment = "gcs" THEN "check" ELSE "create"
    OBVIOUS
  <1> DEFINE r == [z EXCEPT !.pc = p, !.op = "upload", !.ver = v, !.outer = Outer,
                            !.src = s.src, !.from = s.from]
  <1>3. Begin(c, r)
    BY <1>1, <1>2, <1>z
  <1>4. s.src \in File /\ s.from \in From /\ v \in Names /\ Outer \in {<<>>, <<ObjectItem>>}
    BY SourceIs, OuterIs DEF Names
  <1>5. p \in {"check", "create"} /\ p \in Finished \cup UploadPc \cup DeletePc \cup GetPc
        /\ (p = "check" <=> deployment = "gcs")
    BY <1>2 DEF UploadPc
  <1>6. r \in CallRec /\ r.pc = p /\ r.op = "upload" /\ r.outer = Outer /\ r.src = s.src
        /\ r.from = s.from /\ r.read = z.read
    BY ZenonT(40), <1>4, <1>5 DEF CallRec
  <1>7. r.read = <<>>
    BY <1>6, <1>z, IdleIs
  <1> HIDE DEF r
  <1>8. StepOf(r)
    BY <1>5, <1>6 DEF StepOf, UploadPc, DeletePc, GetPc
  <1>9. Uploading(r)
    BY <1>5, <1>6, <1>7 DEF Uploading
  <1>10. Getting(r)
    BY <1>5, <1>6 DEF Getting
  <1>11. r.pc \in OpPc(r.op)
    BY <1>5, <1>6 DEF OpPc
  <1>12. r.pc = "create" => deployment # "gcs"
    BY <1>5, <1>6
  <1> QED BY <1>1, <1>3, <1>6, <1>8, <1>9, <1>10, <1>11, <1>12, BeginIs

LEMMA DeleteIs ==
  ASSUME ContentInv, NEW c \in Callers, Delete(c)
  PROVE  \E q : Begun(c, q)
  <1>1. PICK v \in Versions :
          /\ Begin(c, [Idle EXCEPT !.pc = "dget", !.op = "delete", !.ver = v, !.outer = Outer])
          /\ UNCHANGED <<objects, deployment>>
    BY DEF Delete
  <1>z. PICK z \in CallRec : z = Idle
    BY IdleIs
  <1> DEFINE r == [z EXCEPT !.pc = "dget", !.op = "delete", !.ver = v, !.outer = Outer]
  <1>3. Begin(c, r)
    BY <1>1, <1>z
  <1>4. v \in Names /\ Outer \in {<<>>, <<ObjectItem>>}
        /\ "dget" \in Finished \cup UploadPc \cup DeletePc \cup GetPc
    BY OuterIs DEF Names, DeletePc
  <1>6. r \in CallRec /\ r.pc = "dget" /\ r.op = "delete" /\ r.outer = Outer
    BY ZenonT(40), <1>4 DEF CallRec
  <1> HIDE DEF r
  <1>8. Fit(r)
    BY <1>6, DeleterFits DEF DeletePc
  <1>11. r.pc \in OpPc(r.op)
    BY <1>6 DEF OpPc
  <1> QED BY <1>1, <1>3, <1>6, <1>8, <1>11, BeginIs DEF Fit

LEMMA GetIs ==
  ASSUME ContentInv, NEW c \in Callers, Get(c)
  PROVE  \E q : Begun(c, q)
  <1>1. PICK v \in Versions \cup {Latest}, mode \in {"discard", "plain", "signed", "cdn"} :
          /\ Begin(c, [Idle EXCEPT !.pc = IF v = Latest /\ deployment = "gcs"
                                          THEN "glatest" ELSE "gdoc",
                                   !.op = "get", !.ver = v, !.url = v, !.mode = mode,
                                   !.outer = Outer])
          /\ UNCHANGED <<objects, deployment>>
    BY DEF Get
  <1>z. PICK z \in CallRec : z = Idle
    BY IdleIs
  <1>2. PICK p : p = IF v = Latest /\ deployment = "gcs" THEN "glatest" ELSE "gdoc"
    OBVIOUS
  <1> DEFINE r == [z EXCEPT !.pc = p, !.op = "get", !.ver = v, !.url = v, !.mode = mode,
                            !.outer = Outer]
  <1>3. Begin(c, r)
    BY <1>1, <1>2, <1>z
  <1>4. v \in Names /\ Outer \in {<<>>, <<ObjectItem>>}
        /\ mode \in {"none", "discard", "plain", "signed", "cdn"}
    BY <1>1, OuterIs DEF Names
  <1>5. p \in {"glatest", "gdoc"} /\ p \in Finished \cup UploadPc \cup DeletePc \cup GetPc
        /\ (p = "glatest" => deployment = "gcs")
    BY <1>2 DEF GetPc
  <1>6. r \in CallRec /\ r.pc = p /\ r.op = "get" /\ r.outer = Outer /\ r.data = z.data
    <2>1. PICK w \in Names, m \in {"none", "discard", "plain", "signed", "cdn"},
               o \in {<<>>, <<ObjectItem>>} : w = v /\ m = mode /\ o = Outer
      BY <1>4
    <2> DEFINE y == [z EXCEPT !.pc = p, !.op = "get", !.ver = w, !.url = w, !.mode = m, !.outer = o]
    <2>2. y \in CallRec
      BY ZenonT(40), <1>5 DEF CallRec
    <2>3. y.pc = p /\ y.op = "get" /\ y.outer = o /\ y.data = z.data
      BY DEF CallRec
    <2>4. r = y
      BY <2>1
    <2> QED BY <2>1, <2>2, <2>3, <2>4
  <1>7. r.data = <<>>
    BY <1>6, <1>z, IdleIs
  <1> HIDE DEF r
  <1>9. Getting(r)
    BY <1>5, <1>6, <1>7 DEF Getting
  <1>10. Fit(r)
    BY <1>5, <1>6, <1>9, GetterFits DEF GetPc
  <1>11. r.pc \in OpPc(r.op)
    BY <1>5, <1>6 DEF OpPc
  <1>12. r.pc # "create"
    BY <1>5, <1>6
  <1> QED BY <1>1, <1>3, <1>6, <1>10, <1>11, <1>12, BeginIs DEF Fit

LEMMA DieIs ==
  ASSUME ContentInv, NEW c \in Callers, Die(c)
  PROVE  Counted /\ Busy(c) /\ \E q : Turns(c, q) /\ q.op = "none" /\ q.id = 0 /\ q.pc = "err"
  <1>z. PICK z \in CallRec : z = Idle
    BY IdleIs
  <1> DEFINE q == [z EXCEPT !.leak = TRUE]
  <1>1. call' = [call EXCEPT ![c] = q] /\ Busy(c) /\ Tick("deaths", MaxDeaths)
    BY <1>z DEF Die
  <1>2. q \in CallRec /\ q.pc = z.pc /\ q.op = z.op /\ q.id = z.id
    BY DEF CallRec
  <1> HIDE DEF q
  <1>3. q.pc = "err" /\ q.op = "none" /\ q.id = 0
    BY <1>z, <1>2, IdleIs
  <1>4. Fit(q)
    BY <1>2, <1>3, EndedIsSound DEF Fit, Finished
  <1>5. Counted
    BY <1>1, TickIs DEF Counted, ContentInv, Shape, CountRec
  <1> QED BY <1>1, <1>3, <1>4, <1>5 DEF Turns

-----------------------------------------------------------------------------
(***************************************************************************)
(* Contents: one lemma per group of actions.                               *)
(***************************************************************************)
LEMMA ContentGcs ==
  ASSUME ContentInv, NEW c \in Callers, GcsStep(c)
  PROVE  ContentInv'
  <1>1. CASE CheckPublished(c)
    BY <1>1, CheckIs, ReadStep DEF CheckPublished, Counted
  <1>2. CASE Stream(c)
    <2>1. PICK q, s : Turns(c, q) /\ s \in File /\ StreamTurns(c, q, s) /\ deployment = "gcs" /\ Counted
      BY <1>2, StreamIs
    <2>2. PICK n \in Nat : n = call[c].id
      BY DEF ContentInv, Shape, CallRec
    <2>3. PICK x \in Object : x = [by |-> call[c].id, data |-> s]
      BY <2>1, <2>2 DEF Object
    <2>4. objects' = objects \/ objects' = Put(objects, call[c].ver, x)
      BY <2>1, <2>3 DEF StreamTurns, Written
    <2> QED BY <1>2, <2>1, <2>4, ObjectStep DEF Stream
  <1>3. CASE UndoObject(c)
    BY <1>3, UndoObjectIs, ObjectStep DEF UndoObject, Erased
  <1>4. CASE DeleteObject(c)
    BY <1>4, DeleteObjectIs, ObjectStep DEF DeleteObject
  <1>5. CASE ResolveLatest(c)
    BY <1>5, ResolveIs, ReadStep DEF ResolveLatest, Counted
  <1>6. ASSUME NEW name, ReadObject(c, name) PROVE ContentInv'
    BY <1>6, ReadObjectIs, ReadStep DEF ReadObject, Counted
  <1> QED BY <1>1, <1>2, <1>3, <1>4, <1>5, <1>6 DEF GcsStep, GetObject, Download

LEMMA ContentDoc ==
  ASSUME ContentInv, NEW c \in Callers, DocStep(c), UNCHANGED <<objects, deployment>>
  PROVE  ContentInv'
  <1>1. CASE CreateBundle(c)
    <2>1. PICK q : Turns(c, q) /\ CreateTurns(c, q) /\ Counted /\ call[c].pc = "create"
      BY <1>1, CreateIs
    <2>2. Sound(BundleOf(call[c]))
      BY <2>1, BundlesAreSound
    <2>3. bundles' = bundles \/ bundles' = Put(bundles, call[c].ver, BundleOf(call[c]))
      BY <2>1 DEF CreateTurns, Created
    <2>4. UNCHANGED <<pack, chunks>>
      BY <1>1 DEF CreateBundle
    <2> QED BY <2>1, <2>2, <2>3, <2>4, BundleStep
  <1>2. CASE PutChunk(c)
    <2>1. PICK q : Turns(c, q) /\ ChunkTurns(c, q) /\ Counted
      BY <1>2, PutChunkIs
    <2>2. PICK k, x : k = <<call[c].ver, Len(call[c].read) + 1>> /\ x = call[c].src[Len(call[c].read) + 1]
      OBVIOUS
    <2>3. chunks' = chunks \/ (x \in Chunk /\ chunks' = Put(chunks, k, x))
      BY <2>1, <2>2 DEF ChunkTurns, Chunked
    <2>4. UNCHANGED <<pack, bundles>>
      BY <1>2 DEF PutChunk
    <2> QED BY <2>1, <2>3, <2>4, ChunkStep
  <1>3. CASE SetBundle(c)
    <2>1. PICK q : Turns(c, q) /\ SetTurns(c, q) /\ Counted /\ call[c].pc = "set"
      BY <1>3, SetIs
    <2>2. Sound(FullBundleOf(call[c]))
      BY <2>1, BundlesAreSound
    <2>3. bundles' = bundles \/ bundles' = Put(bundles, call[c].ver, FullBundleOf(call[c]))
      BY <2>1 DEF SetTurns
    <2>4. UNCHANGED <<pack, chunks>>
      BY <1>3 DEF SetBundle
    <2> QED BY <2>1, <2>2, <2>3, <2>4, BundleStep
  <1>4. CASE SetLatest(c)
    <2>1. PICK q : Turns(c, q) /\ Counted /\ pack' \in {None} \cup [latest : Names, meta : BOOLEAN]
      BY <1>4, LatestIs
    <2>2. UNCHANGED <<bundles, chunks>>
      BY <1>4 DEF SetLatest
    <2> QED BY <2>1, <2>2, ShapeStep DEF Counted, ContentInv, Shape
  <1>5. CASE UndoDoc(c)
    <2>1. PICK q : Turns(c, q) /\ Counted /\ bundles' \in {bundles, Without(bundles, call[c].ver)}
      BY <1>5, UndoDocIs DEF Erased
    <2>2. UNCHANGED <<pack, chunks>>
      BY <1>5 DEF UndoDoc
    <2> QED BY <2>1, <2>2, BundleStep
  <1>6. CASE UndoChunk(c)
    <2>1. PICK q, k : Turns(c, q) /\ Counted /\ chunks' \in {chunks, Without(chunks, k)}
      BY <1>6, UndoChunkIs DEF Erased
    <2>2. UNCHANGED <<pack, bundles>>
      BY <1>6 DEF UndoChunk
    <2> QED BY <2>1, <2>2, ChunkStep
  <1>7. CASE DeleteGet(c)
    BY <1>7, DeleteGetIs, ReadStep DEF DeleteGet, docVars, Counted
  <1>8. CASE DeleteChunk(c)
    <2>1. PICK q, k : Turns(c, q) /\ Counted /\ chunks' \in {chunks, Without(chunks, k)}
      BY <1>8, DeleteChunkIs
    <2>2. UNCHANGED <<pack, bundles>>
      BY <1>8 DEF DeleteChunk
    <2> QED BY <2>1, <2>2, ChunkStep
  <1>9. CASE DeleteDoc(c)
    <2>1. PICK q : Turns(c, q) /\ Counted /\ bundles' \in {bundles, Without(bundles, call[c].ver)}
      BY <1>9, DeleteDocIs
    <2>2. UNCHANGED <<pack, chunks>>
      BY <1>9 DEF DeleteDoc
    <2> QED BY <2>1, <2>2, BundleStep
  <1>10. CASE GetDoc(c)
    BY <1>10, GetDocIs, ReadStep DEF GetDoc, Counted
  <1>11. CASE GetChunk(c)
    BY <1>11, GetChunkIs, ReadStep DEF GetChunk, Counted
  <1> QED BY <1>1, <1>2, <1>3, <1>4, <1>5, <1>6, <1>7, <1>8, <1>9, <1>10, <1>11 DEF DocStep

Packages == CreatePackage \/ UpdatePackageMetadata \/ DeletePackage

LEMMA PackagesAre ==
  ASSUME ContentInv, Packages
  PROVE  Counted /\ UNCHANGED <<bundles, chunks, call, history>>
         /\ pack' \in {None} \cup [latest : Names, meta : BOOLEAN]
  <1>1. Tick("packs", MaxPacks) /\ UNCHANGED <<bundles, chunks, call, history>>
    BY DEF Packages, CreatePackage, UpdatePackageMetadata, DeletePackage
  <1>2. Counted
    BY <1>1, TickIs DEF Counted, ContentInv, Shape, CountRec
  <1>3. pack \in {None} \cup [latest : Names, meta : BOOLEAN] /\ None \in Names
    BY DEF ContentInv, Shape, Names
  <1>4. [latest |-> None, meta |-> FALSE] \in [latest : Names, meta : BOOLEAN]
    BY <1>3
  <1>5. pack # None => [pack EXCEPT !.meta = TRUE] \in [latest : Names, meta : BOOLEAN]
    BY <1>3
  <1> QED BY <1>1, <1>2, <1>3, <1>4, <1>5 DEF Packages, CreatePackage, UpdatePackageMetadata, DeletePackage

LEMMA ContentIdle ==
  ASSUME ContentInv, call' = call, bundles' = bundles, deployment' = deployment, Shape'
  PROVE  ContentInv'
  <1>1. \A d \in Callers : Fit(call[d])'
    BY DEF ContentInv, Fit, StepOf, Outer, Uploading, Getting, Sound
  <1>2. \A v \in DOMAIN bundles' : Sound(bundles[v])'
    BY DEF ContentInv, Sound
  <1> QED BY <1>1, <1>2 DEF ContentInv

LEMMA ContentNext == ContentInv /\ [Next]_vars => ContentInv'
  <1> SUFFICES ASSUME ContentInv, [Next]_vars PROVE ContentInv'
    OBVIOUS
  <1>1. ASSUME NEW c \in Callers, NEW q, Begun(c, q) PROVE ContentInv'
    BY <1>1, ReadStep DEF Begun
  <1>2. ASSUME NEW c \in Callers, Die(c), UNCHANGED <<objects, deployment>> PROVE ContentInv'
    <2>1. PICK q : Turns(c, q) /\ Counted
      BY <1>2, DieIs
    <2>2. UNCHANGED docVars
      BY <1>2 DEF Die
    <2> QED BY <1>2, <2>1, <2>2, ReadStep DEF Counted
  <1>3. CASE Packages /\ UNCHANGED <<objects, deployment>>
    <2>1. Counted /\ UNCHANGED <<bundles, chunks, call>>
          /\ pack' \in {None} \cup [latest : Names, meta : BOOLEAN]
      BY <1>3, PackagesAre
    <2>2. Shape'
      BY <1>3, <2>1 DEF ContentInv, Shape, Counted, CountRec
    <2> QED BY <1>3, <2>1, <2>2, ContentIdle
  <1>4. CASE UNCHANGED vars
    <2>1. Shape'
      BY <1>4 DEF ContentInv, Shape, vars, docVars
    <2> QED BY <1>4, <2>1, ContentIdle DEF vars, docVars
  <1> QED BY <1>1, <1>2, <1>3, <1>4, UploadIs, DeleteIs, GetIs, ContentGcs, ContentDoc DEF Next, Packages

\* DownloadsAreOneUpload: whatever interleaves, fails or dies, a Get that returns
\* nil has delivered bytes of one upload only, and those that were signed where
\* a signature was verified (Get and Download of gcsrelease, Get of docrelease,
\* the signing and the CDN reader), and gcsrelease never publishes a file of
\* known size that was cut short.  docrelease does.
THEOREM DownloadsAreUploads == Spec => []DownloadsAreOneUpload
  <1>1. ContentInv => DownloadsAreOneUpload
    <2> SUFFICES ASSUME ContentInv PROVE DownloadsAreOneUpload
      OBVIOUS
    <2>1. TruncatedNeverPublished
      BY DEF TruncatedNeverPublished, ContentInv, Sound, Has
    <2>2. ASSUME NEW c \in Callers, call[c].op = "get", call[c].pc = "ok", call[c].mode # "discard"
          PROVE  /\ call[c].data = SubSeq(call[c].doc.from.file, 1, Len(call[c].data))
                 /\ deployment = "docs" => call[c].doc.sum = call[c].data
                 /\ deployment = "gcs" /\ call[c].doc.from.size > 0 => call[c].data = call[c].doc.from.file
                 /\ call[c].mode = "signed" => call[c].doc.from.sig = call[c].data
      <3>1. /\ call[c].doc \in Bundle /\ call[c] \in CallRec
            /\ Prefix(call[c].data, call[c].doc.from.file)
            /\ deployment = "docs" => call[c].doc.sum = call[c].data
            /\ deployment = "gcs" /\ call[c].doc.from.size > 0 => call[c].data = call[c].doc.from.file
            /\ call[c].mode = "signed" => call[c].doc.from.sig = call[c].data
        BY <2>2 DEF ContentInv, Fit, Getting
      <3>2. call[c].data \in File /\ call[c].doc.from \in From
        BY <3>1 DEF CallRec, Bundle
      <3>3. call[c].data = SubSeq(call[c].doc.from.file, 1, Len(call[c].data))
        BY <3>1, <3>2, PrefixIs DEF From
      <3> QED BY <3>1, <3>3
    <2> QED BY <2>1, <2>2 DEF DownloadsAreOneUpload, DownloadIsOneUpload
  <1> QED BY <1>1, ContentInit, ContentNext, PTL DEF Spec

-----------------------------------------------------------------------------
(***************************************************************************)
(* Ownership: steps that leave a version alone.                            *)
(***************************************************************************)
Kept(f, g, k) == (Has(g, k) <=> Has(f, k)) /\ (Has(f, k) => g[k] = f[k])

KeptAt(v) == /\ Kept(bundles, bundles', v) /\ Kept(objects, objects', v)
             /\ \A i \in Nat : Kept(chunks, chunks', <<v, i>>)

\* Claims on a version that a step leaves alone.
LEMMA ClaimsKept ==
  ASSUME NEW s \in CallRec, Claims(s), KeptAt(s.ver), deployment' = deployment,
         crossed \subseteq crossed', torn \subseteq torn'
  PROVE  Claims(s)'
  <1>1. (HoldsDoc(s) <=> HoldsDoc(s)') /\ (HoldsObject(s) <=> HoldsObject(s)')
    BY DEF HoldsDoc, HoldsObject
  <1>2. Owns(s)'
    BY <1>1 DEF Claims, Owns, KeptAt, Kept
  <1>3. Knows(s)'
    BY <1>1 DEF Claims, Knows, KeptAt, Kept
  <1>4. UndoSound(s)'
    BY DEF Claims, UndoSound
  <1>5. WrittenSound(s)'
    <2>1. s.ver \notin crossed' /\ deployment = "gcs"
            /\ s.pc \in {"create", "chunk", "set", "latest"} => objects'[s.ver].data = s.sha
      BY DEF Claims, Owns, HoldsObject, WrittenSound, KeptAt, Kept
    <2>2. s.ver \notin crossed' \cup torn' /\ deployment = "docs"
            /\ s.pc \in {"chunk", "set", "latest"} =>
             \A i \in 1..Len(s.read) : Has(chunks', <<s.ver, i>>) /\ chunks'[<<s.ver, i>>] = s.read[i]
      <3>1. Len(s.read) \in Nat
        BY LenProperties DEF CallRec, File
      <3>2. \A i \in 1..Len(s.read) : i \in Nat
        BY <3>1
      <3>3. s.ver \notin crossed' \cup torn' => s.ver \notin crossed \cup torn
        OBVIOUS
      <3> QED BY <3>2, <3>3 DEF Claims, WrittenSound, KeptAt, Kept
    <2>3. s.ver \notin crossed' /\ s.pc = "latest" => bundles'[s.ver] = FullBundleOf(s)
      BY DEF Claims, Owns, HoldsDoc, WrittenSound, KeptAt, Kept
    <2> QED BY <2>1, <2>2, <2>3 DEF WrittenSound
  <1> QED BY <1>2, <1>3, <1>4, <1>5 DEF Claims

\* A published version that a step leaves alone.
LEMMA IntactKept ==
  ASSUME ContentInv, NEW v, Intact(v), deployment' = deployment,
         Has(published, v) /\ v \notin crossed =>
           /\ Kept(bundles, bundles', v) /\ Kept(objects, objects', v)
           /\ v \in torn \/ \A i \in Nat : Kept(chunks, chunks', <<v, i>>),
         crossed \subseteq crossed', torn \subseteq torn',
         Has(published', v) => Has(published, v) /\ published'[v] = published[v],
         \A c \in Callers : call'[c].pc \in DeletePc /\ call'[c].ver = v => ~Has(published', v) \/ v \in crossed'
                              \/ (call[c].pc \in DeletePc /\ call[c].ver = v),
         \A c \in Callers : call'[c].pc \in UploadPc =>
                              \/ call[c].pc \in UploadPc /\ call'[c].id = call[c].id
                              \/ call'[c].id # published[v].id
  PROVE  Intact(v)'
  <1> SUFFICES ASSUME Has(published', v), v \notin crossed' PROVE
        /\ \A c \in Callers : call'[c].pc \in DeletePc => call'[c].ver # v
        /\ \A c \in Callers : call'[c].pc \in UploadPc => call'[c].id # published'[v].id
        /\ Has(bundles', v) /\ bundles'[v] = published'[v]
        /\ deployment' = "gcs" => /\ Has(objects', v) /\ objects'[v].by = published'[v].id
                             /\ objects'[v].data = published'[v].sha
        /\ deployment' = "docs" /\ v \notin torn' => Downloadable(v, published[v])'
    BY DEF Intact
  <1>1. Has(published, v) /\ published'[v] = published[v] /\ v \notin crossed
    OBVIOUS
  <1>2. \A c \in Callers : call'[c].pc \in DeletePc => call'[c].ver # v
    BY <1>1 DEF Intact
  <1>3. \A c \in Callers : call'[c].pc \in UploadPc => call'[c].id # published'[v].id
    BY <1>1 DEF Intact
  <1>4. Has(bundles', v) /\ bundles'[v] = published'[v]
    BY <1>1 DEF Intact, Kept
  <1>5. deployment' = "gcs" => /\ Has(objects', v) /\ objects'[v].by = published'[v].id
                             /\ objects'[v].data = published'[v].sha
    BY <1>1 DEF Intact, Kept
  <1>6. ASSUME deployment' = "docs", v \notin torn' PROVE Downloadable(v, published[v])'
    <2>1. Downloadable(v, published[v])
      BY <1>1, <1>6 DEF Intact
    <2>2. \A i \in 1..published[v].ids : Has(chunks, <<v, i>>) /\ chunks[<<v, i>>] = published[v].sum[i]
      BY <1>6, <2>1 DEF Downloadable
    <2>3. \A i \in 1..published[v].ids : i \in Nat
      <3>1. published[v].ids \in Nat
        BY <1>1 DEF Intact, ContentInv, Shape, Has, Bundle
      <3> QED BY <3>1
    <2>4. \A i \in 1..published[v].ids : Has(chunks', <<v, i>>) /\ chunks'[<<v, i>>] = published[v].sum[i]
      BY <1>1, <1>6, <2>2, <2>3 DEF Kept
    <2> QED BY <1>1, <1>4, <1>6, <2>4 DEF Downloadable
  <1> QED BY <1>2, <1>3, <1>4, <1>5, <1>6

-----------------------------------------------------------------------------
(***************************************************************************)
(* Ownership: a step of an upload changes what is its own, or free.        *)
(***************************************************************************)
Touches(r, q) ==
  /\ \A w \in Names \ {r.ver} : KeptAt(w)
  /\ \/ Kept(bundles, bundles', r.ver)
     \/ /\ ~Has(bundles, r.ver) \/ HoldsDoc(r)
        /\ Has(bundles', r.ver) => bundles'[r.ver].id = r.id
  /\ \/ Kept(objects, objects', r.ver)
     \/ /\ ~Has(objects, r.ver) \/ HoldsObject(r)
        /\ Has(objects', r.ver) => objects'[r.ver].by = r.id
  /\ \/ \A i \in Nat : Kept(chunks, chunks', <<r.ver, i>>)
     \/ HoldsDoc(r)
     \/ r.ver \in torn

\* Nobody else can claim what the upload of c may change.
LEMMA OthersKeep ==
  ASSUME OwnershipInv, NEW c \in Callers, NEW d \in Callers, c # d, NEW q, Touches(call[c], q),
         call[c].pc \in UploadPc, deployment' = deployment, crossed' = crossed, torn \subseteq torn',
         NEW s, s = call[d]
  PROVE  Claims(s)'
  <1> DEFINE r == call[c]
  <1>1. s \in CallRec /\ Claims(s) /\ Claims(r) /\ r \in CallRec
    BY DEF OwnershipInv, ContentInv, Shape
  <1>2. r.id # 0 /\ r.id # s.id
    BY PcsApart DEF OwnershipInv, IdsInv, Busy
  <1>3. s.ver \in Names /\ r.ver \in Names
    BY <1>1 DEF CallRec
  <1>4. CASE s.ver # r.ver
    <2>1. KeptAt(s.ver)
      BY <1>3, <1>4 DEF Touches
    <2> QED BY <1>1, <2>1, ClaimsKept
  <1>5. CASE s.ver = r.ver
    <2>1. r.ver \notin crossed /\ HoldsDoc(s) => Kept(bundles, bundles', r.ver) /\ ~HoldsDoc(r)
      BY <1>1, <1>2, <1>5 DEF Claims, Owns, Touches
    <2>2. r.ver \notin crossed /\ HoldsObject(s) => Kept(objects, objects', r.ver)
      BY <1>1, <1>2, <1>5 DEF Claims, Owns, Touches
    <2>3. (HoldsDoc(s) <=> HoldsDoc(s)') /\ (HoldsObject(s) <=> HoldsObject(s)')
      BY DEF HoldsDoc, HoldsObject
    <2>4. Owns(s)'
      BY <1>1, <1>5, <2>1, <2>2, <2>3 DEF Claims, Owns, Kept
    <2>5. Knows(s)'
      <3>1. Has(bundles', s.ver) /\ bundles'[s.ver].id = s.id =>
              Has(bundles, s.ver) /\ bundles[s.ver].id = s.id
        BY <1>2, <1>5 DEF Touches, Kept
      <3>2. Has(objects', s.ver) /\ objects'[s.ver].by = s.id =>
              Has(objects, s.ver) /\ objects[s.ver].by = s.id
        BY <1>2, <1>5 DEF Touches, Kept
      <3> QED BY <1>1, <2>3, <3>1, <3>2 DEF Claims, Knows
    <2>6. UndoSound(s)'
      BY <1>1 DEF Claims, UndoSound
    <2>7. WrittenSound(s)'
      <3>1. s.ver \notin crossed' /\ deployment = "gcs"
              /\ s.pc \in {"create", "chunk", "set", "latest"} => objects'[s.ver].data = s.sha
        BY <1>1, <1>5, <2>2 DEF Claims, Owns, HoldsObject, WrittenSound, Kept
      <3>2. ASSUME s.ver \notin crossed' \cup torn', deployment = "docs",
                   s.pc \in {"chunk", "set", "latest"}, NEW i \in 1..Len(s.read)
            PROVE  Has(chunks', <<s.ver, i>>) /\ chunks'[<<s.ver, i>>] = s.read[i]
        <4>1. Len(s.read) \in Nat
          BY <1>1, LenProperties DEF CallRec, File
        <4>2. i \in Nat
          BY <4>1
        <4>3. HoldsDoc(s) /\ s.ver \notin crossed \cup torn
          BY <3>2 DEF HoldsDoc
        <4>4. ~HoldsDoc(r)
          BY <1>5, <2>1, <4>3
        <4>5. Kept(chunks, chunks', <<s.ver, i>>)
          BY <1>5, <4>2, <4>3, <4>4 DEF Touches
        <4>6. Has(chunks, <<s.ver, i>>) /\ chunks[<<s.ver, i>>] = s.read[i]
          BY <1>1, <3>2, <4>3 DEF Claims, WrittenSound
        <4> QED BY <4>5, <4>6 DEF Kept
      <3>3. s.ver \notin crossed' /\ s.pc = "latest" => bundles'[s.ver] = FullBundleOf(s)
        BY <1>1, <1>5, <2>1 DEF Claims, Owns, HoldsDoc, WrittenSound, Kept
      <3> QED BY <3>1, <3>2, <3>3 DEF WrittenSound
    <2> QED BY <2>4, <2>5, <2>6, <2>7 DEF Claims
  <1> QED BY <1>4, <1>5

\* The IDs after a step of a call that is not new.
LEMMA IdsStep ==
  ASSUME OwnershipInv, ContentInv', NEW c \in Callers, NEW q, Turns(c, q), Counted,
         q.id \in {0, call[c].id}, q.pc \notin Finished => q.id = call[c].id /\ Busy(c),
         \A v \in DOMAIN bundles' : bundles'[v].id <= count.calls,
         \A v \in DOMAIN objects' : objects'[v].by <= count.calls,
         \A v \in DOMAIN published' : published'[v].id \in 0..count.calls
  PROVE  IdsInv'
  <1>1. call'[c] = q /\ \A d \in Callers : d # c => call'[d] = call[d]
    BY DEF Turns, OwnershipInv, ContentInv, Shape
  <1>2. \A d \in Callers : call[d].id \in Nat
    BY DEF OwnershipInv, ContentInv, Shape, CallRec
  <1>3. count'.calls = count.calls /\ count.calls \in Nat
    BY DEF Counted, OwnershipInv, ContentInv, Shape, CountRec
  <1>4. \A d \in Callers : call'[d].id <= count'.calls /\ (Busy(d)' => call'[d].id # 0)
    <2> SUFFICES ASSUME NEW d \in Callers
                 PROVE  call'[d].id <= count'.calls /\ (Busy(d)' => call'[d].id # 0)
      OBVIOUS
    <2>1. CASE d = c
      BY <1>1, <1>2, <1>3, <2>1 DEF OwnershipInv, IdsInv, Busy
    <2>2. CASE d # c
      BY <1>1, <1>2, <1>3, <2>2 DEF OwnershipInv, IdsInv, Busy
    <2> QED BY <2>1, <2>2
  <1>5. \A b, d \in Callers : b # d /\ call'[b].id # 0 => call'[b].id # call'[d].id
    BY <1>1 DEF OwnershipInv, IdsInv
  <1> QED BY <1>3, <1>4, <1>5 DEF IdsInv

\* Uploads and deletes of one version, when the step starts no call.
LEMMA CrossedStep ==
  ASSUME OwnershipInv, NEW c \in Callers, NEW q, Turns(c, q), crossed' = crossed,
         q.pc \in UploadPc => call[c].pc \in UploadPc /\ q.ver = call[c].ver,
         q.pc \in DeletePc => call[c].pc \in DeletePc /\ q.ver = call[c].ver
  PROVE  CrossedInv'
  <1>1. call'[c] = q /\ \A d \in Callers : d # c => call'[d] = call[d]
    BY DEF Turns, OwnershipInv, ContentInv, Shape
  <1>2. ASSUME NEW b \in Callers, NEW d \in Callers,
               call'[b].pc \in UploadPc, call'[d].pc \in DeletePc, call'[b].ver = call'[d].ver
        PROVE  call'[b].ver \in crossed'
    <2>1. call[b].pc \in UploadPc /\ call[b].ver = call'[b].ver
      BY <1>1, <1>2
    <2>2. call[d].pc \in DeletePc /\ call[d].ver = call'[d].ver
      BY <1>1, <1>2
    <2> QED BY <1>2, <2>1, <2>2 DEF OwnershipInv, CrossedInv
  <1> QED BY <1>2 DEF CrossedInv

LEMMA UploadStep ==
  ASSUME OwnershipInv, ContentInv', NEW c \in Callers, NEW q, Turns(c, q), Same(call[c], q), Counted,
         call[c].pc \in UploadPc, Touches(call[c], q), Claims(q)',
         UNCHANGED <<published, crossed, deployment>>, torn \subseteq torn',
         \A v \in DOMAIN bundles' : bundles'[v].id <= count.calls,
         \A v \in DOMAIN objects' : objects'[v].by <= count.calls
  PROVE  OwnershipInv'
  <1> DEFINE r == call[c]
  <1>1. call'[c] = q /\ \A d \in Callers : d # c => call'[d] = call[d]
    BY DEF Turns, OwnershipInv, ContentInv, Shape
  <1>2. r.op = "upload" /\ r \in CallRec /\ Claims(r) /\ Busy(c)
    BY UploaderIs, PcsApart DEF OwnershipInv, Busy
  <1>3. q.pc \in UploadPc \cup Finished /\ q.ver = r.ver /\ q.id = r.id
    BY <1>2 DEF Turns, Fit, StepOf, CallRec, Same
  <1>4. IdsInv'
    BY <1>2, <1>3, IdsStep DEF OwnershipInv, IdsInv
  <1>5. CrossedInv'
    BY <1>3, CrossedStep, PcsApart
  <1>6. \A d \in Callers : Claims(call[d])'
    <2> SUFFICES ASSUME NEW d \in Callers PROVE Claims(call[d])'
      OBVIOUS
    <2>1. CASE d = c
      <3>1. call'[d] = q
        BY <1>1, <2>1
      <3> QED BY <3>1 DEF Claims, Owns, Knows, UndoSound, WrittenSound, HoldsDoc, HoldsObject
    <2>2. CASE d # c
      <3>1. PICK s : s = call[d]
        OBVIOUS
      <3>2. Claims(s)' /\ call'[d] = s
        BY <1>1, <2>2, <3>1, OthersKeep
      <3> QED BY <3>2 DEF Claims, Owns, Knows, UndoSound, WrittenSound, HoldsDoc, HoldsObject
    <2> QED BY <2>1, <2>2
  <1>7. ASSUME NEW v \in Versions PROVE Intact(v)'
    <2>1. v \in Names /\ Intact(v)
      BY DEF Names, OwnershipInv
    <2>2. ASSUME Has(published, v), v \notin crossed
          PROVE  /\ Kept(bundles, bundles', v) /\ Kept(objects, objects', v)
                 /\ v \in torn \/ \A i \in Nat : Kept(chunks, chunks', <<v, i>>)
      <3>1. CASE v # r.ver
        BY <2>1, <3>1 DEF Touches, KeptAt
      <3>2. CASE v = r.ver
        <4>1. bundles[v].id # r.id /\ Has(bundles, v)
          BY <2>1, <2>2 DEF Intact
        <4>2. ~HoldsDoc(r)
          BY <1>2, <2>2, <3>2, <4>1 DEF Claims, Owns
        <4>3. Kept(bundles, bundles', v)
          BY <3>2, <4>1, <4>2 DEF Touches
        <4>4. Kept(objects, objects', v)
          <5>1. deployment \in {"docs", "gcs"}
            BY DEF OwnershipInv, ContentInv, Shape
          <5>2. CASE deployment = "gcs"
            <6>1. objects[v].by # r.id /\ Has(objects, v)
              BY <2>1, <2>2, <5>2 DEF Intact
            <6>2. ~HoldsObject(r)
              BY <1>2, <2>2, <3>2, <6>1 DEF Claims, Owns
            <6> QED BY <3>2, <6>1, <6>2 DEF Touches
          <5>3. CASE deployment = "docs"
            BY <5>3 DEF OwnershipInv, ContentInv, Shape, Kept, Has
          <5> QED BY <5>1, <5>2, <5>3
        <4> QED BY <3>2, <4>2, <4>3, <4>4 DEF Touches
      <3> QED BY <3>1, <3>2
    <2>3. \A d \in Callers : call'[d].pc \in DeletePc => call[d] = call'[d]
      BY <1>1, <1>3, PcsApart
    <2>4. \A d \in Callers : call'[d].pc \in UploadPc => call[d].pc \in UploadPc /\ call'[d].id = call[d].id
      BY <1>1, <1>3
    <2>5. crossed \subseteq crossed'
      OBVIOUS
    <2>6. Has(published', v) => Has(published, v) /\ published'[v] = published[v]
      OBVIOUS
    <2>7. \A d \in Callers : call'[d].pc \in DeletePc /\ call'[d].ver = v =>
                              ~Has(published', v) \/ v \in crossed'
                              \/ (call[d].pc \in DeletePc /\ call[d].ver = v)
      BY <2>3
    <2> QED BY <2>1, <2>2, <2>4, <2>5, <2>6, <2>7, IntactKept DEF OwnershipInv
  <1>8. DeletedInv'
    <2> SUFFICES ASSUME NEW d \in Callers, call'[d].pc = "dobj", call'[d].ver \notin crossed'
                 PROVE  ~Has(bundles', call'[d].ver)
      BY DEF DeletedInv
    <2>1. d # c /\ call'[d] = call[d] /\ call[d].pc \in DeletePc
      BY <1>1, <1>3 DEF UploadPc, DeletePc, Finished
    <2>2. call[d].ver # r.ver
      BY <2>1 DEF OwnershipInv, CrossedInv
    <2>3. call[d].ver \in Names
      BY DEF OwnershipInv, ContentInv, Shape, CallRec
    <2>4. Kept(bundles, bundles', call[d].ver)
      BY <2>2, <2>3 DEF Touches, KeptAt
    <2> QED BY <2>1, <2>4 DEF OwnershipInv, DeletedInv, Kept
  <1> QED BY <1>4, <1>5, <1>6, <1>7, <1>8 DEF OwnershipInv

\* A step that writes nothing: of a download, or the end of one.
LEMMA QuietStep ==
  ASSUME OwnershipInv, ContentInv', NEW c \in Callers, NEW q, Turns(c, q), Counted, Busy(c),
         q.op \in {"get", "none"}, q.id \in {0, call[c].id}, q.pc \notin Finished => q.id = call[c].id,
         UNCHANGED <<bundles, chunks, objects, published, crossed, torn, deployment>>
  PROVE  OwnershipInv'
  <1>1. call'[c] = q /\ \A d \in Callers : d # c => call'[d] = call[d]
    BY DEF Turns, OwnershipInv, ContentInv, Shape
  <1>2. q \in CallRec /\ q.pc \in Finished \cup GetPc
    BY DEF Turns, Fit, StepOf, CallRec
  <1>3. q.pc \notin UploadPc /\ q.pc \notin DeletePc
    BY <1>2, PcsApart
  <1>4. IdsInv'
    BY IdsStep DEF OwnershipInv, IdsInv
  <1>5. CrossedInv'
    BY <1>3, CrossedStep
  <1>k. \A v : KeptAt(v)
    BY DEF KeptAt, Kept
  <1>6. \A d \in Callers : Claims(call[d])'
    <2> SUFFICES ASSUME NEW d \in Callers PROVE Claims(call[d])'
      OBVIOUS
    <2>1. CASE d = c
      <3>1. call'[d] = q
        BY <1>1, <2>1
      <3> QED BY <1>3, <3>1 DEF Claims, Owns, Knows, UndoSound, WrittenSound, HoldsDoc, HoldsObject, UploadPc
    <2>2. CASE d # c
      <3>1. PICK s \in CallRec : s = call[d] /\ Claims(s)
        BY DEF OwnershipInv, ContentInv, Shape
      <3>2. Claims(s)' /\ call'[d] = s
        BY <1>1, <1>k, <2>2, <3>1, ClaimsKept
      <3> QED BY <3>2 DEF Claims, Owns, Knows, UndoSound, WrittenSound, HoldsDoc, HoldsObject
    <2> QED BY <2>1, <2>2
  <1>7. ASSUME NEW v \in Versions PROVE Intact(v)'
    <2>2. Kept(bundles, bundles', v) /\ Kept(objects, objects', v) /\ \A i \in Nat : Kept(chunks, chunks', <<v, i>>)
      BY <1>k DEF KeptAt
    <2>3. \A d \in Callers : call'[d].pc \in DeletePc => call[d] = call'[d]
      BY <1>1, <1>3
    <2>4. \A d \in Callers : call'[d].pc \in UploadPc => call[d].pc \in UploadPc /\ call'[d].id = call[d].id
      BY <1>1, <1>3
    <2>6. Has(published', v) => Has(published, v) /\ published'[v] = published[v]
      OBVIOUS
    <2>7. \A d \in Callers : call'[d].pc \in DeletePc /\ call'[d].ver = v =>
                              ~Has(published', v) \/ v \in crossed'
                              \/ (call[d].pc \in DeletePc /\ call[d].ver = v)
      BY <2>3
    <2>8. Intact(v) /\ ContentInv /\ crossed \subseteq crossed' /\ torn \subseteq torn'
      BY DEF OwnershipInv
    <2> QED BY <2>2, <2>4, <2>6, <2>7, <2>8, IntactKept
  <1>8. DeletedInv'
    <2> SUFFICES ASSUME NEW d \in Callers, call'[d].pc = "dobj", call'[d].ver \notin crossed'
                 PROVE  ~Has(bundles', call'[d].ver)
      BY DEF DeletedInv
    <2>1. call'[d] = call[d]
      BY <1>1, <1>3 DEF DeletePc
    <2> QED BY <2>1 DEF OwnershipInv, DeletedInv
  <1> QED BY <1>4, <1>5, <1>6, <1>7, <1>8 DEF OwnershipInv

-----------------------------------------------------------------------------
(***************************************************************************)
(* Ownership: a step of a delete removes, from a version that no upload    *)
(* claims unless the two have crossed.                                     *)
(***************************************************************************)
Removes(v) ==
  /\ \A w \in Names \ {v} : KeptAt(w)
  /\ Has(bundles', v) => Has(bundles, v) /\ bundles'[v] = bundles[v]
  /\ Has(objects', v) => Has(objects, v) /\ objects'[v] = objects[v]

LEMMA DeleteStep ==
  ASSUME OwnershipInv, ContentInv', NEW c \in Callers, NEW q, Turns(c, q), Same(call[c], q), Counted,
         call[c].pc \in DeletePc, DeletesTo(c, q), call[c].pc = "dobj" => q.pc \in Finished,
         Removes(call[c].ver), UNCHANGED <<published, crossed, torn, deployment>>,
         \A v \in DOMAIN bundles' : bundles'[v].id <= count.calls,
         \A v \in DOMAIN objects' : objects'[v].by <= count.calls
  PROVE  OwnershipInv'
  <1> DEFINE r == call[c]
  <1>1. call'[c] = q /\ \A d \in Callers : d # c => call'[d] = call[d]
    BY DEF Turns, OwnershipInv, ContentInv, Shape
  <1>2. r.op = "delete" /\ r \in CallRec /\ Busy(c)
    BY DeleterIs, PcsApart DEF OwnershipInv, Busy
  <1>3. q.pc \in DeletePc \cup Finished /\ q.ver = r.ver /\ q.id = r.id /\ q.op = "delete"
    BY <1>2 DEF DeletesTo, Same, Finished
  <1>u. q.pc \notin UploadPc
    BY <1>3, PcsApart
  <1>4. IdsInv'
    BY <1>2, <1>3, IdsStep DEF OwnershipInv, IdsInv
  <1>5. CrossedInv'
    BY <1>3, <1>u, CrossedStep
  <1>6. \A d \in Callers : Claims(call[d])'
    <2> SUFFICES ASSUME NEW d \in Callers PROVE Claims(call[d])'
      OBVIOUS
    <2>1. CASE d = c
      <3>1. call'[d] = q
        BY <1>1, <2>1
      <3> QED BY <1>3, <1>u, <3>1 DEF Claims, Owns, Knows, UndoSound, WrittenSound, HoldsDoc, HoldsObject, UploadPc
    <2>2. CASE d # c
      <3>1. PICK s \in CallRec : s = call[d] /\ Claims(s)
        BY DEF OwnershipInv, ContentInv, Shape
      <3>2. s.ver \in Names /\ call'[d] = s
        BY <1>1, <2>2, <3>1 DEF CallRec
      <3>3. CASE s.ver # r.ver
        <4>1. KeptAt(s.ver)
          BY <3>2, <3>3 DEF Removes
        <4>2. Claims(s)'
          BY <3>1, <4>1, ClaimsKept
        <4> QED BY <3>2, <4>2 DEF Claims, Owns, Knows, UndoSound, WrittenSound, HoldsDoc, HoldsObject
      <3>4. CASE s.ver = r.ver
        <4>1. s.ver \notin crossed => s.pc \notin UploadPc
          BY <3>1, <3>4 DEF OwnershipInv, CrossedInv
        <4>2. (HoldsDoc(s) <=> HoldsDoc(s)') /\ (HoldsObject(s) <=> HoldsObject(s)')
          BY DEF HoldsDoc, HoldsObject
        <4>3. HoldsDoc(s) \/ HoldsObject(s) => s.pc \in UploadPc
          BY DEF HoldsDoc, HoldsObject, UploadPc
        <4>4. Owns(s)'
          BY <4>1, <4>2, <4>3 DEF Owns
        <4>5. Knows(s)'
          BY <3>1, <3>4, <4>2 DEF Claims, Knows, Removes
        <4>6. UndoSound(s)'
          BY <3>1 DEF Claims, UndoSound
        <4>7. WrittenSound(s)'
          BY <4>1 DEF WrittenSound, UploadPc
        <4>8. Claims(s)'
          BY <4>4, <4>5, <4>6, <4>7 DEF Claims
        <4> QED BY <3>2, <4>8 DEF Claims, Owns, Knows, UndoSound, WrittenSound, HoldsDoc, HoldsObject
      <3> QED BY <3>3, <3>4
    <2> QED BY <2>1, <2>2
  <1>7. ASSUME NEW v \in Versions PROVE Intact(v)'
    <2>2. ASSUME Has(published, v), v \notin crossed
          PROVE  /\ Kept(bundles, bundles', v) /\ Kept(objects, objects', v)
                 /\ v \in torn \/ \A i \in Nat : Kept(chunks, chunks', <<v, i>>)
      <3>1. v # r.ver /\ v \in Names
        BY <2>2 DEF OwnershipInv, Intact, Names
      <3> QED BY <3>1 DEF Removes, KeptAt
    <2>3. \A d \in Callers : call'[d].pc \in DeletePc => call[d].pc \in DeletePc /\ call[d].ver = call'[d].ver
      BY <1>1, <1>3
    <2>4. \A d \in Callers : call'[d].pc \in UploadPc => call[d].pc \in UploadPc /\ call'[d].id = call[d].id
      BY <1>1, <1>u
    <2>6. Has(published', v) => Has(published, v) /\ published'[v] = published[v]
      OBVIOUS
    <2>7. \A d \in Callers : call'[d].pc \in DeletePc /\ call'[d].ver = v =>
                              ~Has(published', v) \/ v \in crossed'
                              \/ (call[d].pc \in DeletePc /\ call[d].ver = v)
      BY <2>3
    <2>8. Intact(v) /\ ContentInv /\ crossed \subseteq crossed' /\ torn \subseteq torn'
      BY DEF OwnershipInv
    <2> QED BY <2>2, <2>4, <2>6, <2>7, <2>8, IntactKept
  <1>8. DeletedInv'
    <2> SUFFICES ASSUME NEW d \in Callers, call'[d].pc = "dobj", call'[d].ver \notin crossed'
                 PROVE  ~Has(bundles', call'[d].ver)
      BY DEF DeletedInv
    <2>1. CASE d = c
      BY <1>1, <1>3, <2>1 DEF DeletesTo, Finished
    <2>2. CASE d # c
      <3>1. call'[d] = call[d]
        BY <1>1, <2>2
      <3>2. call[d].ver \in Names /\ ~Has(bundles, call[d].ver)
        BY <3>1 DEF OwnershipInv, ContentInv, Shape, CallRec, DeletedInv
      <3>3. ~Has(bundles', call[d].ver)
        BY <3>2 DEF Removes, KeptAt, Kept
      <3> QED BY <3>1, <3>3
    <2> QED BY <2>1, <2>2
  <1> QED BY <1>4, <1>5, <1>6, <1>7, <1>8 DEF OwnershipInv

\* A new call claims nothing; it may cross with another.
LEMMA BeginStep ==
  ASSUME OwnershipInv, ContentInv', NEW c \in Callers, NEW q, Begun(c, q)
  PROVE  OwnershipInv'
  <1>0. Turns(c, q) /\ q.op \in {"upload", "delete", "get"} /\ q.id = count.calls + 1
        /\ (q.pc = "create" => deployment # "gcs")
        /\ count'.calls = count.calls + 1 /\ UNCHANGED <<docVars, torn, objects, deployment>>
    BY DEF Begun
  <1>1. call'[c] = q /\ \A d \in Callers : d # c => call'[d] = call[d]
    BY <1>0 DEF Turns, OwnershipInv, ContentInv, Shape
  <1>2. q \in CallRec /\ (q.pc \in UploadPc => q.op = "upload") /\ (q.pc \in DeletePc => q.op = "delete")
        /\ q.pc \in {"check", "create", "dget", "glatest", "gdoc"}
    <2>1. q.pc \in OpPc(q.op)
      BY DEF Begun
    <2> QED BY <1>0, <2>1 DEF Turns, Fit, StepOf, OpPc
  <1>n. count.calls \in Nat /\ \A d \in Callers : call[d].id \in Nat /\ call[d].id <= count.calls
    BY DEF OwnershipInv, ContentInv, Shape, CountRec, CallRec, IdsInv
  <1>k. \A v : KeptAt(v)
    BY <1>0 DEF KeptAt, Kept, docVars
  <1>c. crossed \subseteq crossed'
    BY DEF Begun
  <1>p. \A v : Has(published', v) =>
          /\ Has(published, v) /\ published'[v] = published[v]
          /\ q.op = "delete" => v # q.ver
    BY DEF Begun, Has, Without
  <1>x. ASSUME NEW d \in Callers, d # c, call[d].ver = q.ver,
               \/ call[d].pc \in UploadPc /\ q.op = "delete"
               \/ call[d].pc \in DeletePc /\ q.op = "upload"
        PROVE  q.ver \in crossed'
    <2>1. Busy(d) /\ (call[d].pc \in UploadPc => call[d].op = "upload")
          /\ (call[d].pc \in DeletePc => call[d].op = "delete")
      BY <1>x, PcsApart DEF Busy, OwnershipInv, ContentInv, Fit, StepOf
    <2>2. {call[d].op, q.op} = {"upload", "delete"}
      BY <1>x, <2>1
    <2> QED BY <1>x, <2>1, <2>2 DEF Begun
  <1>4. IdsInv'
    <2>1. \A d \in Callers : call'[d].id <= count'.calls /\ (Busy(d)' => call'[d].id # 0)
      <3> SUFFICES ASSUME NEW d \in Callers
                   PROVE  call'[d].id <= count'.calls /\ (Busy(d)' => call'[d].id # 0)
        OBVIOUS
      <3>1. CASE d = c
        BY <1>0, <1>1, <1>n, <3>1
      <3>2. CASE d # c
        BY <1>0, <1>1, <1>n, <3>2 DEF OwnershipInv, IdsInv, Busy
      <3> QED BY <3>1, <3>2
    <2>2. \A b, d \in Callers : b # d /\ call'[b].id # 0 => call'[b].id # call'[d].id
      <3> SUFFICES ASSUME NEW b \in Callers, NEW d \in Callers, b # d, call'[b].id # 0
                   PROVE  call'[b].id # call'[d].id
        OBVIOUS
      <3>1. CASE b = c
        BY <1>0, <1>1, <1>n, <3>1
      <3>2. CASE d = c
        BY <1>0, <1>1, <1>n, <3>2
      <3>3. CASE b # c /\ d # c
        BY <1>1, <3>3 DEF OwnershipInv, IdsInv
      <3> QED BY <3>1, <3>2, <3>3
    <2>3. \A v \in DOMAIN bundles' : bundles'[v].id <= count'.calls
      <3>1. \A v \in DOMAIN bundles : bundles[v].id \in Nat /\ bundles[v].id <= count.calls
        BY DEF OwnershipInv, ContentInv, Shape, Bundle, IdsInv
      <3> QED BY <1>0, <1>n, <3>1 DEF docVars
    <2>4. \A v \in DOMAIN objects' : objects'[v].by <= count'.calls
      <3>1. \A v \in DOMAIN objects : objects[v].by \in Nat /\ objects[v].by <= count.calls
        BY DEF OwnershipInv, ContentInv, Shape, Object, IdsInv
      <3> QED BY <1>0, <1>n, <3>1
    <2>5. \A v \in DOMAIN published' : published'[v].id \in 0..count'.calls
      <3> SUFFICES ASSUME NEW v \in DOMAIN published' PROVE published'[v].id \in 0..count'.calls
        OBVIOUS
      <3>1. v \in DOMAIN published /\ published'[v] = published[v]
        BY <1>p DEF Has
      <3>2. published[v].id \in 0..count.calls
        BY <3>1 DEF OwnershipInv, IdsInv
      <3> QED BY <1>0, <1>n, <3>1, <3>2
    <2> QED BY <2>1, <2>2, <2>3, <2>4, <2>5 DEF IdsInv
  <1>5. CrossedInv'
    <2> SUFFICES ASSUME NEW b \in Callers, NEW d \in Callers,
                        call'[b].pc \in UploadPc, call'[d].pc \in DeletePc, call'[b].ver = call'[d].ver
                 PROVE  call'[b].ver \in crossed'
      BY DEF CrossedInv
    <2>0. b # d
      BY PcsApart
    <2>1. CASE b = c
      BY <1>1, <1>2, <1>x, <2>0, <2>1
    <2>2. CASE d = c
      BY <1>1, <1>2, <1>x, <2>0, <2>2
    <2>3. CASE b # c /\ d # c
      BY <1>1, <1>c, <2>3 DEF OwnershipInv, CrossedInv
    <2> QED BY <2>1, <2>2, <2>3
  <1>6. \A d \in Callers : Claims(call[d])'
    <2> SUFFICES ASSUME NEW d \in Callers PROVE Claims(call[d])'
      OBVIOUS
    <2>1. CASE d = c
      <3>1. ~HoldsDoc(q)' /\ ~HoldsObject(q)'
        BY <1>0, <1>2 DEF HoldsDoc, HoldsObject
      <3>2. Owns(q)'
        BY <3>1 DEF Owns
      <3>3. Knows(q)'
        <4>1. Has(bundles', q.ver) => bundles'[q.ver].id # q.id
          <5>1. \A v \in DOMAIN bundles : bundles[v].id \in Nat /\ bundles[v].id <= count.calls
            BY DEF OwnershipInv, ContentInv, Shape, Bundle, IdsInv
          <5> QED BY <1>0, <1>n, <5>1 DEF docVars, Has
        <4>2. Has(objects', q.ver) => objects'[q.ver].by # q.id
          <5>1. \A v \in DOMAIN objects : objects[v].by \in Nat /\ objects[v].by <= count.calls
            BY DEF OwnershipInv, ContentInv, Shape, Object, IdsInv
          <5> QED BY <1>0, <1>n, <5>1 DEF Has
        <4> QED BY <4>1, <4>2 DEF Knows
      <3>4. UndoSound(q)' /\ WrittenSound(q)'
        BY <1>0, <1>2 DEF UndoSound, WrittenSound
      <3>5. Claims(q)' /\ call'[d] = q
        BY <1>1, <2>1, <3>2, <3>3, <3>4 DEF Claims
      <3> QED BY <3>5 DEF Claims, Owns, Knows, UndoSound, WrittenSound, HoldsDoc, HoldsObject
    <2>2. CASE d # c
      <3>1. PICK s \in CallRec : s = call[d] /\ Claims(s)
        BY DEF OwnershipInv, ContentInv, Shape
      <3>2. Claims(s)' /\ call'[d] = s
        BY <1>0, <1>1, <1>c, <1>k, <2>2, <3>1, ClaimsKept
      <3> QED BY <3>2 DEF Claims, Owns, Knows, UndoSound, WrittenSound, HoldsDoc, HoldsObject
    <2> QED BY <2>1, <2>2
  <1>7. ASSUME NEW v \in Versions PROVE Intact(v)'
    <2>2. Kept(bundles, bundles', v) /\ Kept(objects, objects', v) /\ \A i \in Nat : Kept(chunks, chunks', <<v, i>>)
      BY <1>k DEF KeptAt
    <2>4. Has(published', v) =>
            \A d \in Callers : call'[d].pc \in UploadPc =>
                                 \/ call[d].pc \in UploadPc /\ call'[d].id = call[d].id
                                 \/ call'[d].id # published[v].id
      <3> SUFFICES ASSUME Has(published', v), NEW d \in Callers, call'[d].pc \in UploadPc
                   PROVE  \/ call[d].pc \in UploadPc /\ call'[d].id = call[d].id
                          \/ call'[d].id # published[v].id
        OBVIOUS
      <3>1. published[v].id \in 0..count.calls
        BY <1>p DEF OwnershipInv, IdsInv, Has
      <3> QED BY <1>0, <1>1, <1>n, <3>1
    <2>6. Has(published', v) => Has(published, v) /\ published'[v] = published[v]
      BY <1>p
    <2>7. \A d \in Callers : call'[d].pc \in DeletePc /\ call'[d].ver = v =>
                              ~Has(published', v) \/ v \in crossed'
                              \/ (call[d].pc \in DeletePc /\ call[d].ver = v)
      BY <1>1, <1>2, <1>p
    <2>8. Intact(v) /\ ContentInv /\ crossed \subseteq crossed' /\ torn \subseteq torn' /\ deployment' = deployment
      BY <1>0, <1>c DEF OwnershipInv
    <2>9. CASE ~Has(published', v)
      BY <2>9 DEF Intact
    <2>10. CASE Has(published', v)
      BY <2>2, <2>4, <2>6, <2>7, <2>8, <2>10, IntactKept
    <2> QED BY <2>9, <2>10
  <1>8. DeletedInv'
    <2> SUFFICES ASSUME NEW d \in Callers, call'[d].pc = "dobj", call'[d].ver \notin crossed'
                 PROVE  ~Has(bundles', call'[d].ver)
      BY DEF DeletedInv
    <2>1. call'[d] = call[d] /\ call[d].ver \notin crossed
      BY <1>1, <1>2, <1>c
    <2> QED BY <1>0, <2>1 DEF OwnershipInv, DeletedInv, docVars
  <1> QED BY <1>4, <1>5, <1>6, <1>7, <1>8 DEF OwnershipInv

\* SetLatest that succeeds: the version is published as it was written.
LEMMA PublishStep ==
  ASSUME OwnershipInv, ContentInv', NEW c \in Callers, NEW q, Turns(c, q), Same(call[c], q), Counted,
         call[c].pc = "latest", q.pc = "ok",
         published' = Put(published, call[c].ver, FullBundleOf(call[c])),
         UNCHANGED <<bundles, chunks, objects, crossed, torn, deployment>>
  PROVE  OwnershipInv'
  <1> DEFINE r == call[c]
             full == FullBundleOf(r)
  <1>1. call'[c] = q /\ \A d \in Callers : d # c => call'[d] = call[d]
    BY DEF Turns, OwnershipInv, ContentInv, Shape
  <1>2. r.op = "upload" /\ r \in CallRec /\ Claims(r) /\ Busy(c) /\ r.pc \in UploadPc
        /\ r.read \in File /\ Len(r.read) \in Nat
    <2>1. r.pc \in UploadPc /\ r.pc \notin Finished
      BY DEF UploadPc, Finished
    <2> QED BY <2>1, UploaderIs DEF OwnershipInv, Busy
  <1>3. q.pc \notin UploadPc /\ q.pc \notin DeletePc /\ q.pc \in Finished
    BY DEF UploadPc, DeletePc, Finished
  <1>f. full \in Bundle /\ full.id = r.id /\ full.sha = r.sha /\ full.ids = Len(r.read)
        /\ full.sum = r.read
    BY BundlesAreSound DEF OwnershipInv
  <1>p. /\ Has(published', r.ver) /\ published'[r.ver] = full
        /\ \A v : v # r.ver /\ Has(published', v) => Has(published, v) /\ published'[v] = published[v]
    BY DEF Put, Has
  <1>4. IdsInv'
    <2>1. r.id \in 0..count.calls
      BY <1>2 DEF OwnershipInv, IdsInv, CallRec, ContentInv, Shape
    <2>2. \A v \in DOMAIN published' : published'[v].id \in 0..count.calls
      BY <1>f, <1>p, <2>1 DEF OwnershipInv, IdsInv, Has
    <2> QED BY <1>3, <2>2, IdsStep DEF OwnershipInv, IdsInv, Same
  <1>5. CrossedInv'
    BY <1>3, CrossedStep
  <1>k. \A v : KeptAt(v)
    BY DEF KeptAt, Kept
  <1>6. \A d \in Callers : Claims(call[d])'
    <2> SUFFICES ASSUME NEW d \in Callers PROVE Claims(call[d])'
      OBVIOUS
    <2>1. CASE d = c
      <3>1. call'[d] = q
        BY <1>1, <2>1
      <3> QED BY <1>3, <3>1 DEF Claims, Owns, Knows, UndoSound, WrittenSound, HoldsDoc, HoldsObject, UploadPc
    <2>2. CASE d # c
      <3>1. PICK s \in CallRec : s = call[d] /\ Claims(s)
        BY DEF OwnershipInv, ContentInv, Shape
      <3>2. Claims(s)' /\ call'[d] = s
        BY <1>1, <1>k, <2>2, <3>1, ClaimsKept
      <3> QED BY <3>2 DEF Claims, Owns, Knows, UndoSound, WrittenSound, HoldsDoc, HoldsObject
    <2> QED BY <2>1, <2>2
  <1>7. ASSUME NEW v \in Versions PROVE Intact(v)'
    <2>1. CASE v # r.ver
      <3>2. Kept(bundles, bundles', v) /\ Kept(objects, objects', v) /\ \A i \in Nat : Kept(chunks, chunks', <<v, i>>)
        BY <1>k DEF KeptAt
      <3>3. \A d \in Callers : call'[d].pc \in DeletePc => call[d] = call'[d]
        BY <1>1, <1>3
      <3>4. \A d \in Callers : call'[d].pc \in UploadPc => call[d].pc \in UploadPc /\ call'[d].id = call[d].id
        BY <1>1, <1>3
      <3>6. Has(published', v) => Has(published, v) /\ published'[v] = published[v]
        BY <1>p, <2>1
      <3>7. \A d \in Callers : call'[d].pc \in DeletePc /\ call'[d].ver = v =>
                                ~Has(published', v) \/ v \in crossed'
                                \/ (call[d].pc \in DeletePc /\ call[d].ver = v)
        BY <3>3
      <3>8. Intact(v) /\ ContentInv /\ crossed \subseteq crossed' /\ torn \subseteq torn'
        BY DEF OwnershipInv
      <3> QED BY <3>2, <3>4, <3>6, <3>7, <3>8, IntactKept
    <2>2. CASE v = r.ver
      <3> SUFFICES ASSUME v \notin crossed PROVE
            /\ \A d \in Callers : call'[d].pc \in DeletePc => call'[d].ver # v
            /\ \A d \in Callers : call'[d].pc \in UploadPc => call'[d].id # full.id
            /\ Has(bundles, v) /\ bundles[v] = full
            /\ deployment = "gcs" => /\ Has(objects, v) /\ objects[v].by = full.id
                                     /\ objects[v].data = full.sha
            /\ deployment = "docs" /\ v \notin torn => Downloadable(v, full)
        <4>1. published'[v] = full
          BY <1>p, <2>2
        <4> QED BY <4>1 DEF Intact, Downloadable
      <3>1. \A d \in Callers : call'[d].pc \in DeletePc => call'[d].ver # v
        BY <1>1, <1>2, <1>3, <2>2 DEF OwnershipInv, CrossedInv
      <3>2. \A d \in Callers : call'[d].pc \in UploadPc => call'[d].id # full.id
        BY <1>1, <1>2, <1>3, <1>f DEF OwnershipInv, IdsInv
      <3>3. Has(bundles, v) /\ bundles[v] = full
        BY <1>2, <2>2 DEF Claims, Owns, HoldsDoc, WrittenSound
      <3>4. deployment = "gcs" => /\ Has(objects, v) /\ objects[v].by = full.id
                                  /\ objects[v].data = full.sha
        BY <1>2, <1>f, <2>2 DEF Claims, Owns, HoldsObject, WrittenSound
      <3>5. ASSUME deployment = "docs", v \notin torn PROVE Downloadable(v, full)
        <4>1. \A i \in 1..Len(r.read) : Has(chunks, <<v, i>>) /\ chunks[<<v, i>>] = r.read[i]
          BY <1>2, <2>2, <3>5 DEF Claims, WrittenSound
        <4>2. \A i \in 1..full.ids : Has(chunks, <<v, i>>) /\ chunks[<<v, i>>] = full.sum[i]
          BY <1>f, <4>1
        <4> HIDE DEF full
        <4> QED BY <3>3, <3>5, <4>2 DEF Downloadable
      <3> QED BY <3>1, <3>2, <3>3, <3>4, <3>5
    <2> QED BY <2>1, <2>2
  <1>8. DeletedInv'
    <2> SUFFICES ASSUME NEW d \in Callers, call'[d].pc = "dobj", call'[d].ver \notin crossed'
                 PROVE  ~Has(bundles', call'[d].ver)
      BY DEF DeletedInv
    <2>1. call'[d] = call[d]
      BY <1>1
    <2> QED BY <2>1 DEF OwnershipInv, DeletedInv
  <1> QED BY <1>4, <1>5, <1>6, <1>7, <1>8 DEF OwnershipInv

-----------------------------------------------------------------------------
(***************************************************************************)
(* Undo lists.                                                             *)
(***************************************************************************)
LEMMA ItemKinds ==
  /\ DocItem.kind = "doc" /\ ObjectItem.kind = "object"
  /\ \A i : [kind |-> "chunk", i |-> i].kind = "chunk" /\ [kind |-> "chunk", i |-> i].i = i
  BY DEF DocItem, ObjectItem

\* The object alone.
LEMMA ObjectAlone ==
  ASSUME NEW u, u = <<ObjectItem>>
  PROVE  /\ Distinct(u) /\ ChunksFirst(u) /\ ~Lists(u, DocItem) /\ Lists(u, ObjectItem)
  <1>1. DOMAIN u = {1} /\ u[1] = ObjectItem
    OBVIOUS
  <1> HIDE DEF Distinct
  <1>2. Distinct(u) /\ ChunksFirst(u)
    BY <1>1, ItemKinds DEF Distinct, ChunksFirst
  <1>3. ~Lists(u, DocItem) /\ Lists(u, ObjectItem)
    BY <1>1, ItemKinds DEF Lists
  <1> QED BY <1>2, <1>3

\* Chunks, then the document, then the object.
LEMMA ChunksDocObject ==
  ASSUME NEW u \in Seq(Item), NEW n \in Nat, NEW m \in {0, 1}, Len(u) = n + 1 + m,
         \A k \in 1..n : u[k] = [kind |-> "chunk", i |-> k],
         u[n + 1] = DocItem, m = 1 => u[n + 2] = ObjectItem
  PROVE  /\ Distinct(u) /\ ChunksFirst(u) /\ Lists(u, DocItem) /\ (Lists(u, ObjectItem) <=> m = 1)
  <1>1. DOMAIN u = 1..(n + 1 + m)
    BY LenProperties
  <1>2. \A k \in DOMAIN u : \/ k \in 1..n /\ u[k].kind = "chunk" /\ u[k].i = k
                            \/ k = n + 1 /\ u[k] = DocItem
                            \/ k = n + 2 /\ m = 1 /\ u[k] = ObjectItem
    <2> SUFFICES ASSUME NEW k \in DOMAIN u PROVE
                            \/ k \in 1..n /\ u[k].kind = "chunk" /\ u[k].i = k
                            \/ k = n + 1 /\ u[k] = DocItem
                            \/ k = n + 2 /\ m = 1 /\ u[k] = ObjectItem
      OBVIOUS
    <2>1. k \in 1..n \/ k = n + 1 \/ (k = n + 2 /\ m = 1)
      BY <1>1
    <2>2. CASE k \in 1..n
      <3>1. u[k] = [kind |-> "chunk", i |-> k]
        BY <2>2
      <3> QED BY <2>2, <3>1
    <2> QED BY <2>1, <2>2
  <1>3. n + 1 \in DOMAIN u /\ (m = 1 => n + 2 \in DOMAIN u)
    BY <1>1
  <1>4. Distinct(u)
    <2>1. \A i, j \in DOMAIN u : u[i] = u[j] => i = j
      BY <1>2, ItemKinds
    <2>2. \A i \in DOMAIN u : (u[i].kind = "doc" => u[i] = DocItem) /\ (u[i].kind = "object" => u[i] = ObjectItem)
      BY <1>2, ItemKinds
    <2> QED BY <2>1, <2>2 DEF Distinct
  <1>5. ChunksFirst(u)
    <2> SUFFICES ASSUME NEW i \in DOMAIN u, u[i].kind = "chunk"
                 PROVE  \E j \in DOMAIN u : i < j /\ u[j] = DocItem
      BY DEF ChunksFirst
    <2>1. i \in 1..n
      BY <1>2, ItemKinds
    <2> QED BY <1>3, <2>1
  <1>6. Lists(u, DocItem)
    BY <1>3 DEF Lists
  <1>7. Lists(u, ObjectItem) <=> m = 1
    BY <1>2, <1>3, ItemKinds DEF Lists
  <1> QED BY <1>4, <1>5, <1>6, <1>7

\* The document, then chunks, then the object.
LEMMA DocChunksObject ==
  ASSUME NEW u \in Seq(Item), NEW n \in Nat, NEW m \in {0, 1}, Len(u) = 1 + n + m,
         u[1] = DocItem, \A k \in 1..n : u[1 + k] = [kind |-> "chunk", i |-> k],
         m = 1 => u[1 + n + 1] = ObjectItem
  PROVE  /\ Distinct(u) /\ (n = 0 => ChunksFirst(u)) /\ Lists(u, DocItem)
         /\ (Lists(u, ObjectItem) <=> m = 1)
  <1>1. DOMAIN u = 1..(n + 1 + m)
    BY LenProperties
  <1>2. \A k \in DOMAIN u : \/ k - 1 \in 1..n /\ u[k].kind = "chunk" /\ u[k].i = k - 1
                            \/ k = 1 /\ u[k] = DocItem
                            \/ k = n + 2 /\ m = 1 /\ u[k] = ObjectItem
    <2> SUFFICES ASSUME NEW k \in DOMAIN u PROVE
                            \/ k - 1 \in 1..n /\ u[k].kind = "chunk" /\ u[k].i = k - 1
                            \/ k = 1 /\ u[k] = DocItem
                            \/ k = n + 2 /\ m = 1 /\ u[k] = ObjectItem
      OBVIOUS
    <2>1. k - 1 \in 1..n \/ k = 1 \/ (k = n + 2 /\ m = 1)
      BY <1>1
    <2>2. CASE k - 1 \in 1..n
      <3>1. 1 + (k - 1) = k
        BY <1>1
      <3>2. u[1 + (k - 1)] = [kind |-> "chunk", i |-> k - 1]
        BY <2>2
      <3>3. u[k] = [kind |-> "chunk", i |-> k - 1]
        BY <3>1, <3>2
      <3> QED BY <2>2, <3>3, ItemKinds
    <2>3. CASE k = n + 2 /\ m = 1
      <3>1. 1 + n + 1 = n + 2
        OBVIOUS
      <3> QED BY <2>3, <3>1
    <2> QED BY <2>1, <2>2, <2>3
  <1>3. 1 \in DOMAIN u /\ (m = 1 => n + 2 \in DOMAIN u)
    BY <1>1
  <1>4. Distinct(u)
    <2>1. \A i, j \in DOMAIN u : u[i] = u[j] => i = j
      <3> SUFFICES ASSUME NEW i \in DOMAIN u, NEW j \in DOMAIN u, u[i] = u[j] PROVE i = j
        OBVIOUS
      <3>1. i \in Int /\ j \in Int
        BY <1>1
      <3> QED BY <1>2, <3>1, ItemKinds
    <2>2. \A i \in DOMAIN u : (u[i].kind = "doc" => u[i] = DocItem) /\ (u[i].kind = "object" => u[i] = ObjectItem)
      BY <1>2, ItemKinds
    <2> QED BY <2>1, <2>2 DEF Distinct
  <1>5. n = 0 => ChunksFirst(u)
    BY <1>2, ItemKinds DEF ChunksFirst
  <1>6. Lists(u, DocItem)
    BY <1>3 DEF Lists
  <1>7. Lists(u, ObjectItem) <=> m = 1
    BY <1>2, <1>3, ItemKinds DEF Lists
  <1> QED BY <1>4, <1>5, <1>6, <1>7

\* What follows the first item.
LEMMA TailOf ==
  ASSUME NEW u \in Seq(Item), u # <<>>, Distinct(u), NEW t, t = Tail(u)
  PROVE  /\ Distinct(t) /\ (ChunksFirst(u) => ChunksFirst(t))
         /\ \A x : Lists(t, x) <=> Lists(u, x) /\ x # Head(u)
         /\ Head(u) = u[1] /\ 1 \in DOMAIN u
  <1>1. Len(u) \in Nat /\ Len(u) # 0 /\ DOMAIN u = 1..Len(u)
    BY LenProperties, EmptySeq
  <1>2. t \in Seq(Item) /\ Len(t) = Len(u) - 1 /\ Head(u) = u[1]
        /\ \A i \in 1..Len(t) : t[i] = u[i + 1]
    BY HeadTailProperties
  <1>3. DOMAIN t = 1..(Len(u) - 1)
    BY <1>2, LenProperties
  <1>4. \A i \in DOMAIN t : i + 1 \in DOMAIN u /\ t[i] = u[i + 1] /\ i \in Nat
    BY <1>1, <1>2, <1>3
  <1>5. \A i \in DOMAIN u : i = 1 \/ (i - 1 \in DOMAIN t /\ t[i - 1] = u[i])
    <2> SUFFICES ASSUME NEW i \in DOMAIN u, i # 1 PROVE i - 1 \in DOMAIN t /\ t[i - 1] = u[i]
      OBVIOUS
    <2>1. i - 1 \in DOMAIN t /\ (i - 1) + 1 = i
      BY <1>1, <1>3
    <2>2. t[i - 1] = u[(i - 1) + 1]
      BY <1>4, <2>1
    <2> QED BY <2>1, <2>2
  <1>6. Distinct(t)
    <2>1. ASSUME NEW i \in DOMAIN t, NEW j \in DOMAIN t, t[i] = t[j] PROVE i = j
      <3>1. i + 1 = j + 1
        BY <1>4, <2>1 DEF Distinct
      <3> QED BY <1>4, <3>1
    <2>2. ASSUME NEW i \in DOMAIN t
          PROVE  (t[i].kind = "doc" => t[i] = DocItem) /\ (t[i].kind = "object" => t[i] = ObjectItem)
      BY <1>4 DEF Distinct
    <2> QED BY <2>1, <2>2 DEF Distinct
  <1>7. ChunksFirst(u) => ChunksFirst(t)
    <2> SUFFICES ASSUME ChunksFirst(u), NEW i \in DOMAIN t, t[i].kind = "chunk"
                 PROVE  \E j \in DOMAIN t : i < j /\ t[j] = DocItem
      BY DEF ChunksFirst
    <2>1. PICK j \in DOMAIN u : i + 1 < j /\ u[j] = DocItem
      BY <1>4 DEF ChunksFirst
    <2>2. j # 1 /\ j - 1 \in DOMAIN t /\ t[j - 1] = DocItem /\ i < j - 1
      BY <1>1, <1>4, <1>5, <2>1
    <2> QED BY <2>2
  <1>8. ASSUME NEW x PROVE Lists(t, x) <=> Lists(u, x) /\ x # Head(u)
    <2>1. ASSUME Lists(t, x) PROVE Lists(u, x) /\ x # Head(u)
      <3>1. PICK i \in DOMAIN t : t[i] = x
        BY <2>1 DEF Lists
      <3>2. i + 1 \in DOMAIN u /\ u[i + 1] = x /\ i + 1 # 1
        BY <1>3, <1>4, <3>1
      <3>3. x # u[1]
        BY <1>1, <3>2 DEF Distinct
      <3> QED BY <1>2, <3>2, <3>3 DEF Lists
    <2>2. ASSUME Lists(u, x), x # Head(u) PROVE Lists(t, x)
      BY <1>2, <1>5, <2>2 DEF Lists
    <2> QED BY <2>1, <2>2
  <1> QED BY <1>1, <1>2, <1>6, <1>7, <1>8

-----------------------------------------------------------------------------
(***************************************************************************)
(* Ownership: the steps of Upload.                                         *)
(***************************************************************************)
LEMMA KeptIs ==
  ASSUME NEW f, NEW g, NEW k, NEW x, g \in {f, Without(f, k)} \/ g = Put(f, k, x)
  PROVE  /\ \A j : j # k => Kept(f, g, j)
         /\ g = f => Kept(f, g, k)
         /\ g = Without(f, k) => ~Has(g, k)
         /\ g = Put(f, k, x) => Has(g, k) /\ g[k] = x
  BY DEF Kept, Has, Put, Without

\* The chunks of other versions.
LEMMA KeptChunks ==
  ASSUME NEW f, NEW g, NEW v, NEW n, NEW x, g \in {f, Without(f, <<v, n>>)} \/ g = Put(f, <<v, n>>, x)
  PROVE  /\ \A w, i : w # v => Kept(f, g, <<w, i>>)
         /\ \A i : i # n => Kept(f, g, <<v, i>>)
         /\ g = Put(f, <<v, n>>, x) => Has(g, <<v, n>>) /\ g[<<v, n>>] = x
  <1>1. \A w, i : w # v => <<w, i>> # <<v, n>>
    OBVIOUS
  <1>2. \A i : i # n => <<v, i>> # <<v, n>>
    OBVIOUS
  <1> QED BY <1>1, <1>2, KeptIs

LEMMA ChunksKept ==
  ASSUME NEW v, NEW n, NEW x,
         \/ chunks' \in {chunks, Without(chunks, <<v, n>>)}
         \/ chunks' = Put(chunks, <<v, n>>, x)
  PROVE  /\ \A w, i : w # v => Kept(chunks, chunks', <<w, i>>)
         /\ \A i : i # n => Kept(chunks, chunks', <<v, i>>)
  <1>1. PICK f, g : f = chunks /\ g = chunks'
    OBVIOUS
  <1>2. g \in {f, Without(f, <<v, n>>)} \/ g = Put(f, <<v, n>>, x)
    BY <1>1
  <1>3. /\ \A w, i : w # v => Kept(f, g, <<w, i>>)
        /\ \A i : i # n => Kept(f, g, <<v, i>>)
    BY <1>2, KeptChunks
  <1> QED BY <1>1, <1>3

LEMMA BundleIds ==
  ASSUME OwnershipInv, NEW c \in Callers, NEW v, NEW b,
         \/ bundles' \in {bundles, Without(bundles, v)}
         \/ b.id = call[c].id /\ bundles' = Put(bundles, v, b)
  PROVE  \A w \in DOMAIN bundles' : bundles'[w].id <= count.calls
  <1>1. call[c].id <= count.calls /\ \A w \in DOMAIN bundles : bundles[w].id <= count.calls
    BY DEF OwnershipInv, IdsInv
  <1> QED BY <1>1 DEF Put, Without

LEMMA ObjectIds ==
  ASSUME OwnershipInv, NEW c \in Callers, NEW v, NEW x,
         \/ objects' \in {objects, Without(objects, v)}
         \/ x.by = call[c].id /\ objects' = Put(objects, v, x)
  PROVE  \A w \in DOMAIN objects' : objects'[w].by <= count.calls
  <1>1. call[c].id <= count.calls /\ \A w \in DOMAIN objects : objects[w].by <= count.calls
    BY DEF OwnershipInv, IdsInv
  <1> QED BY <1>1 DEF Put, Without

\* An upload that returns an error and has nothing left, or has leaked it.
LEMMA EndClaims ==
  ASSUME NEW r, NEW q, Same(r, q), q.pc = "err",
         q.leak \/ (/\ Has(bundles', r.ver) => bundles'[r.ver].id # r.id
                    /\ Has(objects', r.ver) => objects'[r.ver].by # r.id)
  PROVE  Claims(q)'
  BY DEF Claims, Owns, Knows, UndoSound, WrittenSound, HoldsDoc, HoldsObject, Same

\* An upload that goes on to undo what its list names.
LEMMA UndoClaims ==
  ASSUME NEW r, NEW q, Same(r, q), q.pc = "undo", Distinct(q.undo),
         r.ver \notin torn' => ChunksFirst(q.undo),
         r.ver \notin crossed' =>
           /\ Lists(q.undo, DocItem) => Has(bundles', r.ver) /\ bundles'[r.ver].id = r.id
           /\ Lists(q.undo, ObjectItem) => Has(objects', r.ver) /\ objects'[r.ver].by = r.id,
         q.leak \/ (/\ Has(bundles', r.ver) /\ bundles'[r.ver].id = r.id => Lists(q.undo, DocItem)
                    /\ Has(objects', r.ver) /\ objects'[r.ver].by = r.id => Lists(q.undo, ObjectItem))
  PROVE  Claims(q)'
  <1>1. Owns(q)'
    BY DEF Owns, HoldsDoc, HoldsObject, Same
  <1>2. Knows(q)'
    BY DEF Knows, HoldsDoc, HoldsObject, Same
  <1>3. UndoSound(q)' /\ WrittenSound(q)'
    BY DEF UndoSound, WrittenSound, Same
  <1> QED BY <1>1, <1>2, <1>3 DEF Claims

LEMMA OwnershipCheck ==
  ASSUME OwnershipInv, ContentInv', NEW c \in Callers, CheckPublished(c)
  PROVE  OwnershipInv'
  <1>0. UNCHANGED <<docVars, history, objects, deployment>>
    BY DEF CheckPublished
  <1>1. PICK q : Turns(c, q) /\ Same(call[c], q) /\ q.leak = call[c].leak /\ q.pc \in {"err", "stream"}
                 /\ Counted /\ call[c].pc = "check"
    BY CheckIs DEF OwnershipInv
  <1>2. call[c].pc \in UploadPc /\ Claims(call[c]) /\ call[c].op = "upload"
    BY <1>1, UploaderIs DEF UploadPc, OwnershipInv
  <1>3. Claims(q)'
    BY <1>0, <1>1, <1>2 DEF Claims, Owns, Knows, UndoSound, WrittenSound, HoldsDoc, HoldsObject, Same,
                            docVars, history
  <1>4. Touches(call[c], q)
    BY <1>0 DEF Touches, KeptAt, Kept, docVars
  <1>5. /\ \A v \in DOMAIN bundles' : bundles'[v].id <= count.calls
        /\ \A v \in DOMAIN objects' : objects'[v].by <= count.calls
    BY <1>0 DEF OwnershipInv, IdsInv, docVars
  <1>6. UNCHANGED <<published, crossed, deployment>> /\ torn \subseteq torn'
    BY <1>0 DEF history
  <1> QED BY <1>1, <1>2, <1>3, <1>4, <1>5, <1>6, UploadStep

LEMMA OwnershipStream ==
  ASSUME OwnershipInv, ContentInv', NEW c \in Callers, Stream(c)
  PROVE  OwnershipInv'
  <1> DEFINE r == call[c]
  <1>0. UNCHANGED <<docVars, history, deployment>>
    BY DEF Stream
  <1>1. PICK q, s : Turns(c, q) /\ Same(call[c], q) /\ StreamTurns(c, q, s) /\ s \in File
                    /\ Counted /\ call[c].pc = "stream" /\ deployment = "gcs"
    BY StreamIs DEF OwnershipInv
  <1>2. r.pc \in UploadPc /\ Claims(r) /\ r.op = "upload"
    BY <1>1, UploaderIs DEF UploadPc, OwnershipInv
  <1>3. PICK x : x = [by |-> r.id, data |-> s] /\ x.by = r.id /\ x.data = s
    <2>1. [by |-> r.id, data |-> s].by = r.id /\ [by |-> r.id, data |-> s].data = s
      OBVIOUS
    <2> QED BY <2>1
  <1>4. Has(bundles, r.ver) /\ ~r.leak => bundles[r.ver].id # r.id
    BY <1>1, <1>2 DEF Claims, Knows, HoldsDoc
  <1>5. Has(objects, r.ver) /\ ~r.leak => objects[r.ver].by # r.id
    BY <1>1, <1>2 DEF Claims, Knows, HoldsObject
  <1>6. objects' = objects \/ (~Has(objects, r.ver) /\ objects' = Put(objects, r.ver, x))
    BY <1>1, <1>3 DEF StreamTurns, Written
  <1>7. Written(c, s) => Has(objects', r.ver) /\ objects'[r.ver] = x
    BY <1>3 DEF Written, Put, Has
  <1>u. UNCHANGED <<bundles, chunks, published, crossed, torn, deployment>>
    BY <1>0 DEF docVars, history
  <1>8. Touches(r, q)
    <2>1. \A w : w # r.ver => Kept(objects, objects', w)
      BY <1>6, KeptIs
    <2>2. Kept(objects, objects', r.ver) \/
            (~Has(objects, r.ver) /\ (Has(objects', r.ver) => objects'[r.ver].by = r.id))
      BY SMTT(30), <1>3, <1>6, KeptIs
    <2>3. \A w : Kept(bundles, bundles', w) /\ \A i \in Nat : Kept(chunks, chunks', <<w, i>>)
      BY <1>u DEF Kept
    <2> QED BY <2>1, <2>2, <2>3 DEF Touches, KeptAt
  <1>9. Claims(q)'
    <2>1. CASE objects' = objects /\ q.pc = "err" /\ q.leak = r.leak
      BY <1>1, <1>4, <1>5, <1>u, <2>1, EndClaims
    <2>2. CASE Written(c, s) /\ q.pc = "undo" /\ q.undo = <<ObjectItem>> /\ q.leak = r.leak
      <3>1. Distinct(q.undo) /\ ChunksFirst(q.undo) /\ ~Lists(q.undo, DocItem) /\ Lists(q.undo, ObjectItem)
        BY <2>2, ObjectAlone
      <3>2. Has(objects', r.ver) /\ objects'[r.ver].by = r.id
        BY <1>3, <1>7, <2>2
      <3>3. q.leak \/ ~(Has(bundles', r.ver) /\ bundles'[r.ver].id = r.id)
        BY <1>2, <1>4, <1>u, <2>2
      <3> QED BY <1>1, <2>2, <3>1, <3>2, <3>3, UndoClaims
    <2>3. CASE Written(c, s) /\ q.pc = "err" /\ q.leak = TRUE
      BY <1>1, <2>3, EndClaims
    <2>4. CASE Written(c, s) /\ q.pc = "create" /\ q.sha = s /\ q.leak = r.leak
      <3>1. Has(objects', r.ver) /\ objects'[r.ver].by = r.id /\ objects'[r.ver].data = s
        BY <1>3, <1>7, <2>4
      <3>2. ~HoldsDoc(q)' /\ HoldsObject(q)'
        BY <1>1, <1>u, <2>4 DEF HoldsDoc, HoldsObject
      <3>3. Owns(q)'
        BY <1>1, <3>1, <3>2 DEF Owns, Same
      <3>4. Knows(q)'
        BY <1>1, <1>4, <1>u, <2>4, <3>2 DEF Knows, Same
      <3>5. UndoSound(q)'
        BY <2>4 DEF UndoSound
      <3>6. WrittenSound(q)'
        BY <1>1, <1>u, <2>4, <3>1 DEF WrittenSound, Same
      <3> QED BY <3>3, <3>4, <3>5, <3>6 DEF Claims
    <2> QED BY <1>1, <2>1, <2>2, <2>3, <2>4 DEF StreamTurns
  <1>10. /\ \A v \in DOMAIN bundles' : bundles'[v].id <= count.calls
         /\ \A v \in DOMAIN objects' : objects'[v].by <= count.calls
    <2>1. \A v \in DOMAIN objects' : objects'[v].by <= count.calls
      BY <1>3, <1>6, ObjectIds
    <2> QED BY <1>u, <2>1 DEF OwnershipInv, IdsInv
  <1>11. torn \subseteq torn'
    BY <1>u
  <1> QED BY <1>1, <1>2, <1>8, <1>9, <1>10, <1>11, <1>u, UploadStep

LEMMA OwnershipCreate ==
  ASSUME OwnershipInv, ContentInv', NEW c \in Callers, CreateBundle(c), UNCHANGED <<objects, deployment>>
  PROVE  OwnershipInv'
  <1> DEFINE r == call[c]
  <1>0. UNCHANGED <<pack, chunks, history>>
    BY DEF CreateBundle
  <1>u. UNCHANGED <<chunks, objects, published, crossed, torn, deployment>>
    BY <1>0 DEF history
  <1>1. PICK q : Turns(c, q) /\ Same(call[c], q) /\ CreateTurns(c, q) /\ Counted /\ call[c].pc = "create"
    BY CreateIs DEF OwnershipInv
  <1>2. /\ r.pc \in UploadPc /\ Claims(r) /\ r.op = "upload" /\ r \in CallRec /\ r.outer = Outer
        /\ r.leak \in BOOLEAN /\ r.read = <<>>
    BY <1>1, UploaderIs DEF UploadPc, OwnershipInv, Uploading
  <1>3. /\ BundleOf(r) \in Bundle /\ BundleOf(r).id = r.id
    BY <1>1, BundlesAreSound DEF OwnershipInv
  <1>4. Has(bundles, r.ver) /\ ~r.leak => bundles[r.ver].id # r.id
    BY <1>1, <1>2 DEF Claims, Knows, HoldsDoc
  <1>5. Has(objects, r.ver) /\ objects[r.ver].by = r.id /\ ~r.leak => deployment = "gcs"
    BY <1>1, <1>2 DEF Claims, Knows, HoldsObject
  <1>6. deployment = "gcs" /\ r.ver \notin crossed =>
          Has(objects, r.ver) /\ objects[r.ver].by = r.id /\ objects[r.ver].data = r.sha
    BY <1>1, <1>2 DEF Claims, Owns, HoldsObject, WrittenSound
  <1>7. (deployment = "gcs" => r.outer = <<ObjectItem>>) /\ (deployment # "gcs" => r.outer = <<>>)
        /\ <<ObjectItem>> # <<>>
    BY <1>2 DEF Outer
  <1>8. bundles' = bundles \/ (~Has(bundles, r.ver) /\ bundles' = Put(bundles, r.ver, BundleOf(r)))
    BY <1>1 DEF CreateTurns, Created
  <1>9. Created(c) => Has(bundles', r.ver) /\ bundles'[r.ver].id = r.id
    BY <1>3 DEF Created, Put, Has
  <1>10. Touches(r, q)
    <2>1. \A w : w # r.ver => Kept(bundles, bundles', w)
      BY <1>8, KeptIs
    <2>2. Kept(bundles, bundles', r.ver) \/
            (~Has(bundles, r.ver) /\ (Has(bundles', r.ver) => bundles'[r.ver].id = r.id))
      BY <1>3, <1>8, KeptIs
    <2>3. \A w : Kept(objects, objects', w) /\ \A i \in Nat : Kept(chunks, chunks', <<w, i>>)
      BY <1>u DEF Kept
    <2> QED BY <2>1, <2>2, <2>3 DEF Touches, KeptAt
  <1>11. ASSUME q.pc = IF r.outer = <<>> THEN "err" ELSE "undo",
                r.outer # <<>> => q.undo = r.outer,
                q.leak \/ ~(Has(bundles', r.ver) /\ bundles'[r.ver].id = r.id),
                q.leak \/ ~r.leak
         PROVE  Claims(q)'
    <2>1. CASE deployment = "gcs"
      <3>1. q.pc = "undo" /\ q.undo = <<ObjectItem>>
        BY <1>7, <1>11, <2>1
      <3>2. Distinct(q.undo) /\ ChunksFirst(q.undo) /\ ~Lists(q.undo, DocItem) /\ Lists(q.undo, ObjectItem)
        BY <3>1, ObjectAlone
      <3>3. r.ver \notin crossed' => Has(objects', r.ver) /\ objects'[r.ver].by = r.id
        BY <1>6, <1>u, <2>1
      <3> QED BY <1>1, <1>11, <3>1, <3>2, <3>3, UndoClaims
    <2>2. CASE deployment # "gcs"
      <3>1. q.pc = "err"
        BY <1>7, <1>11, <2>2
      <3>2. q.leak \/ ~(Has(objects', r.ver) /\ objects'[r.ver].by = r.id)
        BY <1>5, <1>11, <1>u, <2>2
      <3> QED BY <1>1, <1>11, <3>1, <3>2, EndClaims
    <2> QED BY <2>1, <2>2
  <1>12. Claims(q)'
    <2>1. CASE /\ bundles' = bundles /\ q.leak = r.leak
               /\ q.pc = IF r.outer = <<>> THEN "err" ELSE "undo"
               /\ r.outer # <<>> => q.undo = r.outer
      BY <1>2, <1>4, <1>11, <2>1
    <2>2. CASE /\ Created(c) /\ q.leak = TRUE
               /\ q.pc = IF r.outer = <<>> THEN "err" ELSE "undo"
               /\ r.outer # <<>> => q.undo = r.outer
      BY <1>11, <2>2
    <2>3. CASE Created(c) /\ q = [r EXCEPT !.pc = "chunk"]
      <3>0. q.pc = "chunk" /\ q.op = r.op /\ q.ver = r.ver /\ q.id = r.id /\ q.leak = r.leak
            /\ q.sha = r.sha /\ q.read = <<>>
        <4> HIDE DEF r
        <4> QED BY <1>2, <2>3 DEF CallRec
      <3>1. HoldsDoc(q)' /\ (HoldsObject(q)' <=> deployment = "gcs")
        BY <1>u, <3>0 DEF HoldsDoc, HoldsObject
      <3>2. Owns(q)'
        BY <1>6, <1>9, <1>u, <2>3, <3>0, <3>1 DEF Owns
      <3>3. Knows(q)'
        BY <1>5, <1>u, <3>0, <3>1 DEF Knows
      <3>4. UndoSound(q)'
        BY <3>0 DEF UndoSound
      <3>5. \A i \in 1..Len(q.read) : FALSE
        BY <3>0
      <3>6. WrittenSound(q)'
        BY <1>6, <1>u, <3>0, <3>5 DEF WrittenSound
      <3> QED BY <3>2, <3>3, <3>4, <3>6 DEF Claims
    <2> QED BY <1>1, <2>1, <2>2, <2>3 DEF CreateTurns
  <1>13. /\ \A v \in DOMAIN bundles' : bundles'[v].id <= count.calls
         /\ \A v \in DOMAIN objects' : objects'[v].by <= count.calls
    <2>1. \A v \in DOMAIN bundles' : bundles'[v].id <= count.calls
      BY <1>3, <1>8, BundleIds
    <2> QED BY <1>u, <2>1 DEF OwnershipInv, IdsInv
  <1>14. torn \subseteq torn'
    BY <1>u
  <1> QED BY <1>1, <1>2, <1>10, <1>12, <1>13, <1>14, <1>u, UploadStep

\* What an upload that holds its document knows, wherever it stands.
LEMMA HolderIs ==
  ASSUME OwnershipInv, NEW c \in Callers, call[c].pc \in {"chunk", "set", "latest"}
  PROVE  /\ call[c].pc \in UploadPc /\ Claims(call[c]) /\ call[c].op = "upload" /\ call[c] \in CallRec
         /\ call[c].leak \in BOOLEAN /\ HoldsDoc(call[c]) /\ call[c].ver \in Names
         /\ call[c].read \in File /\ call[c].src \in File /\ Len(call[c].read) \in Nat
         /\ call[c].outer \in {<<>>, <<ObjectItem>>}
         /\ (deployment = "gcs" <=> call[c].outer # <<>>)
         /\ (HoldsObject(call[c]) <=> deployment = "gcs")
         /\ Prefix(call[c].read, call[c].src)
         /\ Has(objects, call[c].ver) /\ objects[call[c].ver].by = call[c].id /\ ~call[c].leak => deployment = "gcs"
         /\ call[c].ver \notin crossed =>
              /\ Has(bundles, call[c].ver) /\ bundles[call[c].ver].id = call[c].id
              /\ deployment = "gcs" => /\ Has(objects, call[c].ver) /\ objects[call[c].ver].by = call[c].id
                                       /\ objects[call[c].ver].data = call[c].sha
  <1> DEFINE r == call[c]
  <1>1. r.pc \in UploadPc /\ Claims(r)
    BY DEF UploadPc, OwnershipInv
  <1>2. /\ r \in CallRec /\ r.op = "upload" /\ r.outer = Outer /\ r.leak \in BOOLEAN
        /\ r.outer \in {<<>>, <<ObjectItem>>} /\ r.read \in File /\ r.src \in File
        /\ Len(r.read) \in Nat /\ Uploading(r)
    BY <1>1, UploaderIs DEF OwnershipInv
  <1>3. deployment = "gcs" <=> r.outer # <<>>
    BY <1>2 DEF Outer
  <1>4. HoldsDoc(r) /\ (HoldsObject(r) <=> deployment = "gcs")
    BY DEF HoldsDoc, HoldsObject
  <1>5. r.ver \in Names
    BY <1>2 DEF CallRec
  <1>6. Prefix(r.read, r.src)
    <2>1. deployment \in {"docs", "gcs"}
      BY DEF OwnershipInv, ContentInv, Shape
    <2>2. CASE deployment = "gcs"
      <3>1. r.read = <<>> /\ r.src = <<>>
        BY <1>2, <2>2 DEF Uploading
      <3> QED BY <1>2, <3>1, EmptyBegins
    <2>3. CASE deployment = "docs"
      BY <1>2, <2>3 DEF Uploading
    <2> QED BY <2>1, <2>2, <2>3
  <1>7. Has(objects, r.ver) /\ objects[r.ver].by = r.id /\ ~r.leak => deployment = "gcs"
    BY <1>1, <1>2, <1>4 DEF Claims, Knows
  <1>8. r.ver \notin crossed =>
              /\ Has(bundles, r.ver) /\ bundles[r.ver].id = r.id
              /\ deployment = "gcs" => /\ Has(objects, r.ver) /\ objects[r.ver].by = r.id
                                       /\ objects[r.ver].data = r.sha
    BY <1>1, <1>4 DEF Claims, Owns, WrittenSound
  <1> QED BY <1>1, <1>2, <1>3, <1>4, <1>5, <1>6, <1>7, <1>8

\* The lists such an upload leaves to undo.
LEMMA HolderLists ==
  ASSUME NEW n \in Nat, NEW o \in {<<>>, <<ObjectItem>>}
  PROVE  /\ \A u : u = ChunkItems(n) \o <<DocItem>> \o o =>
              Distinct(u) /\ ChunksFirst(u) /\ Lists(u, DocItem) /\ (Lists(u, ObjectItem) <=> o # <<>>)
         /\ \A u : u = <<DocItem>> \o ChunkItems(n) \o o =>
              /\ Distinct(u) /\ (n = 0 => ChunksFirst(u)) /\ Lists(u, DocItem)
              /\ (Lists(u, ObjectItem) <=> o # <<>>)
         /\ \A u : u = <<DocItem>> \o o =>
              Distinct(u) /\ ChunksFirst(u) /\ Lists(u, DocItem) /\ (Lists(u, ObjectItem) <=> o # <<>>)
  <1>1. /\ o \in Seq(Item) /\ <<DocItem>> \in Seq(Item) /\ ChunkItems(n) \in Seq(Item)
        /\ Len(ChunkItems(n)) = n /\ \A i \in 1..n : ChunkItems(n)[i] = [kind |-> "chunk", i |-> i]
    BY ItemLists
  <1>2. PICK a \in Seq(Item), b \in Seq(Item), e \in Seq(Item) :
          a = ChunkItems(n) /\ b = <<DocItem>> /\ e = o
    BY <1>1
  <1>3. Len(b) = 1 /\ b[1] = DocItem /\ 1 \in 1..Len(b)
    BY <1>2
  <1>4. PICK m \in {0, 1} : (m = 1 <=> o # <<>>) /\ Len(e) = m /\ (m = 1 => e[1] = ObjectItem /\ 1 \in 1..Len(e))
    <2>1. CASE o = <<>>
      BY <1>2, <2>1
    <2>2. CASE o = <<ObjectItem>>
      BY <1>2, <2>2
    <2> QED BY <2>1, <2>2
  <1>5. Len(a) = n /\ \A i \in 1..n : a[i] = [kind |-> "chunk", i |-> i]
    BY <1>1, <1>2
  <1>6. ASSUME NEW u, u = a \o b \o e
        PROVE  Distinct(u) /\ ChunksFirst(u) /\ Lists(u, DocItem) /\ (Lists(u, ObjectItem) <=> o # <<>>)
    <2>1. u \in Seq(Item) /\ Len(u) = n + 1 + m
          /\ (\A i \in 1..Len(a) : u[i] = a[i]) /\ (\A i \in 1..Len(b) : u[Len(a) + i] = b[i])
          /\ (\A i \in 1..Len(e) : u[Len(a) + Len(b) + i] = e[i])
      <3>1. a \o b \o e \in Seq(Item) /\ Len(a \o b \o e) = Len(a) + Len(b) + Len(e)
            /\ (\A i \in 1..Len(a) : (a \o b \o e)[i] = a[i])
            /\ (\A i \in 1..Len(b) : (a \o b \o e)[Len(a) + i] = b[i])
            /\ (\A i \in 1..Len(e) : (a \o b \o e)[Len(a) + Len(b) + i] = e[i])
        BY ThreeParts
      <3>2. Len(a) + Len(b) + Len(e) = n + 1 + m
        BY <1>3, <1>4, <1>5
      <3> QED BY <1>6, <3>1, <3>2, Zenon
    <2>2. (\A k \in 1..n : u[k] = [kind |-> "chunk", i |-> k]) /\ u[n + 1] = DocItem
      BY <1>3, <1>5, <2>1
    <2>3. m = 1 => u[n + 2] = ObjectItem
      <3>1. m = 1 => u[n + 1 + 1] = ObjectItem
        BY <1>3, <1>4, <1>5, <2>1
      <3>2. n + 1 + 1 = n + 2
        OBVIOUS
      <3> QED BY <3>1, <3>2
    <2> QED BY <1>4, <2>1, <2>2, <2>3, ChunksDocObject
  <1>7. ASSUME NEW u, u = b \o a \o e
        PROVE  /\ Distinct(u) /\ (n = 0 => ChunksFirst(u)) /\ Lists(u, DocItem)
               /\ (Lists(u, ObjectItem) <=> o # <<>>)
    <2>1. u \in Seq(Item) /\ Len(u) = 1 + n + m
          /\ (\A i \in 1..Len(b) : u[i] = b[i]) /\ (\A i \in 1..Len(a) : u[Len(b) + i] = a[i])
          /\ (\A i \in 1..Len(e) : u[Len(b) + Len(a) + i] = e[i])
      <3>1. b \o a \o e \in Seq(Item) /\ Len(b \o a \o e) = Len(b) + Len(a) + Len(e)
            /\ (\A i \in 1..Len(b) : (b \o a \o e)[i] = b[i])
            /\ (\A i \in 1..Len(a) : (b \o a \o e)[Len(b) + i] = a[i])
            /\ (\A i \in 1..Len(e) : (b \o a \o e)[Len(b) + Len(a) + i] = e[i])
        BY ThreeParts
      <3>2. Len(b) + Len(a) + Len(e) = 1 + n + m
        BY <1>3, <1>4, <1>5
      <3> QED BY <1>7, <3>1, <3>2, Zenon
    <2>2. u[1] = DocItem /\ \A k \in 1..n : u[1 + k] = [kind |-> "chunk", i |-> k]
      BY <1>3, <1>5, <2>1
    <2>3. m = 1 => u[1 + n + 1] = ObjectItem
      BY <1>3, <1>4, <1>5, <2>1
    <2> QED BY <1>4, <2>1, <2>2, <2>3, DocChunksObject
  <1>8. ASSUME NEW u, u = b \o e
        PROVE  Distinct(u) /\ ChunksFirst(u) /\ Lists(u, DocItem) /\ (Lists(u, ObjectItem) <=> o # <<>>)
    <2>1. u \in Seq(Item) /\ Len(u) = 1 + m
          /\ \A i \in 1..(Len(b) + Len(e)) : u[i] = IF i <= Len(b) THEN b[i] ELSE e[i - Len(b)]
      BY <1>3, <1>4, <1>8, ConcatProperties
    <2>2. u[1] = DocItem /\ (m = 1 => u[2] = ObjectItem)
      BY <1>3, <1>4, <2>1
    <2>3. (\A k \in 1..0 : u[k] = [kind |-> "chunk", i |-> k]) /\ 0 \in Nat
          /\ Len(u) = 0 + 1 + m /\ u[0 + 1] = DocItem /\ (m = 1 => u[0 + 2] = ObjectItem)
      BY <2>1, <2>2
    <2> QED BY <1>4, <2>1, <2>3, ChunksDocObject
  <1> QED BY <1>2, <1>6, <1>7, <1>8

\* An upload that holds its document and fails: its list names all it holds.
LEMMA HolderFails ==
  ASSUME OwnershipInv, NEW c \in Callers, call[c].pc \in {"chunk", "set", "latest"},
         NEW q, Same(call[c], q), q.pc = "undo", q.leak = call[c].leak,
         Distinct(q.undo), Lists(q.undo, DocItem), Lists(q.undo, ObjectItem) <=> call[c].outer # <<>>,
         call[c].ver \notin torn' => ChunksFirst(q.undo),
         call[c].ver \notin crossed => Has(bundles', call[c].ver) /\ bundles'[call[c].ver].id = call[c].id,
         UNCHANGED <<objects, crossed, deployment>>
  PROVE  Claims(q)'
  <1> DEFINE r == call[c]
  <1>1. /\ (deployment = "gcs" <=> r.outer # <<>>) /\ r.leak \in BOOLEAN
        /\ Has(objects, r.ver) /\ objects[r.ver].by = r.id /\ ~r.leak => deployment = "gcs"
        /\ r.ver \notin crossed => (deployment = "gcs" => Has(objects, r.ver) /\ objects[r.ver].by = r.id)
    BY HolderIs
  <1>2. r.ver \notin crossed' =>
          /\ Lists(q.undo, DocItem) => Has(bundles', r.ver) /\ bundles'[r.ver].id = r.id
          /\ Lists(q.undo, ObjectItem) => Has(objects', r.ver) /\ objects'[r.ver].by = r.id
    BY <1>1
  <1>3. q.leak \/ (/\ Has(bundles', r.ver) /\ bundles'[r.ver].id = r.id => Lists(q.undo, DocItem)
                   /\ Has(objects', r.ver) /\ objects'[r.ver].by = r.id => Lists(q.undo, ObjectItem))
    BY <1>1
  <1> QED BY <1>2, <1>3, UndoClaims

LEMMA OwnershipPutChunk ==
  ASSUME OwnershipInv, ContentInv', NEW c \in Callers, PutChunk(c), UNCHANGED <<objects, deployment>>
  PROVE  OwnershipInv'
  <1> DEFINE r == call[c]
             n == Len(r.read) + 1
  <1>0. UNCHANGED <<bundles, history>>
    BY DEF PutChunk
  <1>u. UNCHANGED <<bundles, objects, published, crossed, torn, deployment>>
    BY <1>0 DEF history
  <1>1. PICK q : Turns(c, q) /\ Same(call[c], q) /\ ChunkTurns(c, q) /\ Counted /\ call[c].pc = "chunk"
    BY PutChunkIs DEF OwnershipInv
  <1>2. /\ r.pc \in UploadPc /\ Claims(r) /\ r.op = "upload" /\ r \in CallRec /\ HoldsDoc(r)
        /\ r.read \in File /\ r.src \in File /\ Len(r.read) \in Nat /\ Prefix(r.read, r.src)
        /\ r.outer \in {<<>>, <<ObjectItem>>} /\ (HoldsObject(r) <=> deployment = "gcs")
        /\ r.ver \notin crossed => Has(bundles, r.ver) /\ bundles[r.ver].id = r.id
    BY <1>1, HolderIs
  <1>3. PICK x : x = r.src[n]
    OBVIOUS
  <1>4. chunks' = chunks \/ chunks' = Put(chunks, <<r.ver, n>>, x)
    BY <1>1, <1>3 DEF ChunkTurns, Chunked
  <1>5. Touches(r, q)
    <2>0. PICK v, m : v = r.ver /\ m = n
      OBVIOUS
    <2>00. chunks' \in {chunks, Without(chunks, <<v, m>>)} \/ chunks' = Put(chunks, <<v, m>>, x)
      BY <1>4, <2>0
    <2>1. \A w, i : w # v => Kept(chunks, chunks', <<w, i>>)
      BY <2>00, ChunksKept
    <2>2. \A w : Kept(bundles, bundles', w) /\ Kept(objects, objects', w)
      BY <1>u DEF Kept
    <2> QED BY <1>2, <2>0, <2>1, <2>2 DEF Touches, KeptAt
  <1>6. Claims(q)'
    <2>1. CASE q.leak = r.leak /\ q.pc = "undo" /\ q.undo = ChunkItems(Len(r.read)) \o <<DocItem>> \o r.outer
      <3>1. Distinct(q.undo) /\ ChunksFirst(q.undo) /\ Lists(q.undo, DocItem)
            /\ (Lists(q.undo, ObjectItem) <=> r.outer # <<>>)
        BY <1>2, <2>1, HolderLists
      <3> QED BY <1>1, <1>2, <1>u, <2>1, <3>1, HolderFails
    <2>2. CASE chunks' = chunks /\ q = [r EXCEPT !.pc = "set"]
      <3>0. q.pc = "set" /\ q.op = r.op /\ q.ver = r.ver /\ q.id = r.id /\ q.leak = r.leak
            /\ q.sha = r.sha /\ q.read = r.read
        <4> HIDE DEF r
        <4> QED BY <1>2, <2>2 DEF CallRec
      <3>1. HoldsDoc(q)' /\ (HoldsObject(q)' <=> HoldsObject(r))
        BY <1>1, <1>u, <3>0 DEF HoldsDoc, HoldsObject
      <3>2. Owns(q)'
        BY <1>2, <1>u, <3>0, <3>1 DEF Claims, Owns
      <3>3. Knows(q)'
        BY <1>1, <1>2, <1>u, <3>0, <3>1 DEF Claims, Knows
      <3>4. UndoSound(q)'
        BY <3>0 DEF UndoSound
      <3>5. WrittenSound(q)'
        BY <1>1, <1>2, <1>u, <2>2, <3>0 DEF Claims, WrittenSound
      <3> QED BY <3>2, <3>3, <3>4, <3>5 DEF Claims
    <2>3. CASE Chunked(c) /\ q = [r EXCEPT !.read = Append(r.read, r.src[n])]
      <3>a. PICK a \in File : /\ a = Append(r.read, r.src[n]) /\ Len(a) = n
                              /\ \A i \in 1..Len(r.read) : a[i] = r.read[i]
                              /\ a[n] = x
        BY <1>2, <1>3, <2>3, ReadGrows DEF Chunked
      <3>0. q.pc = "chunk" /\ q.op = r.op /\ q.ver = r.ver /\ q.id = r.id /\ q.leak = r.leak
            /\ q.sha = r.sha /\ q.read = a
        <4>1. q = [r EXCEPT !.read = a]
          BY <2>3, <3>a
        <4>2. r.pc = "chunk"
          BY <1>1
        <4> HIDE DEF r
        <4> QED BY <1>2, <4>1, <4>2 DEF CallRec
      <3>1. HoldsDoc(q)' /\ (HoldsObject(q)' <=> HoldsObject(r))
        BY <1>1, <1>u, <3>0 DEF HoldsDoc, HoldsObject
      <3>2. Owns(q)'
        BY <1>2, <1>u, <3>0, <3>1 DEF Claims, Owns
      <3>3. Knows(q)'
        BY <1>1, <1>2, <1>u, <3>0, <3>1 DEF Claims, Knows
      <3>4. UndoSound(q)'
        BY <3>0 DEF UndoSound
      <3>5. WrittenSound(q)'
        <4>1. chunks' = Put(chunks, <<r.ver, n>>, x)
          BY <1>3, <2>3 DEF Chunked
        <4>2. ASSUME r.ver \notin crossed \cup torn, deployment = "docs", NEW i \in 1..Len(a)
              PROVE  Has(chunks', <<r.ver, i>>) /\ chunks'[<<r.ver, i>>] = a[i]
          <5>1. CASE i = n
            BY <3>a, <4>1, <5>1 DEF Put, Has
          <5>2. CASE i # n
            <6>1. i \in 1..Len(r.read)
              BY <1>2, <3>a, <5>2
            <6>2. Has(chunks, <<r.ver, i>>) /\ chunks[<<r.ver, i>>] = r.read[i]
              BY <1>1, <1>2, <4>2, <6>1 DEF Claims, WrittenSound
            <6>3. Kept(chunks, chunks', <<r.ver, i>>)
              BY <4>1, <5>2, ChunksKept
            <6> QED BY <3>a, <6>1, <6>2, <6>3 DEF Kept
          <5> QED BY <5>1, <5>2
        <4>3. r.ver \notin crossed /\ deployment = "gcs" => objects[r.ver].data = r.sha
          BY <1>1, <1>2 DEF Claims, WrittenSound
        <4> QED BY <1>u, <3>0, <4>2, <4>3 DEF WrittenSound
      <3> QED BY <3>2, <3>3, <3>4, <3>5 DEF Claims
    <2> QED BY <1>1, <2>1, <2>2, <2>3 DEF ChunkTurns
  <1>7. /\ \A v \in DOMAIN bundles' : bundles'[v].id <= count.calls
        /\ \A v \in DOMAIN objects' : objects'[v].by <= count.calls
    BY <1>u DEF OwnershipInv, IdsInv
  <1>8. torn \subseteq torn'
    BY <1>u
  <1> QED BY <1>1, <1>2, <1>5, <1>6, <1>7, <1>8, <1>u, UploadStep

LEMMA OwnershipSet ==
  ASSUME OwnershipInv, ContentInv', NEW c \in Callers, SetBundle(c), UNCHANGED <<objects, deployment>>
  PROVE  OwnershipInv'
  <1> DEFINE r == call[c]
             full == FullBundleOf(r)
  <1>u. UNCHANGED <<chunks, objects, published, crossed, deployment>>
    BY DEF SetBundle
  <1>1. PICK q : Turns(c, q) /\ Same(call[c], q) /\ SetTurns(c, q) /\ Counted /\ call[c].pc = "set"
    BY SetIs DEF OwnershipInv
  <1>2. /\ r.pc \in UploadPc /\ Claims(r) /\ r.op = "upload" /\ r \in CallRec /\ HoldsDoc(r)
        /\ r.read \in File /\ Len(r.read) \in Nat
        /\ r.outer \in {<<>>, <<ObjectItem>>} /\ (HoldsObject(r) <=> deployment = "gcs")
        /\ r.ver \notin crossed => Has(bundles, r.ver) /\ bundles[r.ver].id = r.id
    BY <1>1, HolderIs
  <1>3. full.id = r.id
    BY <1>1, BundlesAreSound DEF OwnershipInv
  <1>4. bundles' = bundles \/ bundles' = Put(bundles, r.ver, full)
    BY <1>1 DEF SetTurns
  <1>t. torn \subseteq torn'
    BY <1>1 DEF SetTurns
  <1> HIDE DEF full
  <1>b. bundles' = Put(bundles, r.ver, full) => Has(bundles', r.ver) /\ bundles'[r.ver] = full
    BY DEF Put, Has
  <1>5. Touches(r, q)
    <2>1. \A w : w # r.ver => Kept(bundles, bundles', w)
      BY <1>4, KeptIs
    <2>2. Kept(bundles, bundles', r.ver) \/ (Has(bundles', r.ver) /\ bundles'[r.ver].id = r.id)
      BY <1>3, <1>4, <1>b, KeptIs
    <2>3. \A w : Kept(objects, objects', w) /\ \A i \in Nat : Kept(chunks, chunks', <<w, i>>)
      BY <1>u DEF Kept
    <2> QED BY <1>2, <2>1, <2>2, <2>3 DEF Touches, KeptAt
  <1>6. Claims(q)'
    <2>1. CASE /\ torn' = IF r.read = <<>> THEN torn ELSE torn \cup {r.ver}
               /\ q.pc = "undo" /\ q.leak = r.leak
               /\ q.undo = <<DocItem>> \o ChunkItems(Len(r.read)) \o r.outer
      <3>1. Distinct(q.undo) /\ (Len(r.read) = 0 => ChunksFirst(q.undo)) /\ Lists(q.undo, DocItem)
            /\ (Lists(q.undo, ObjectItem) <=> r.outer # <<>>)
        BY <1>2, <2>1, HolderLists
      <3>2. r.ver \notin torn' => ChunksFirst(q.undo)
        <4>1. r.ver \notin torn' => r.read = <<>>
          BY <2>1
        <4>2. r.read = <<>> => Len(r.read) = 0
          OBVIOUS
        <4> QED BY <3>1, <4>1, <4>2
      <3>3. r.ver \notin crossed => Has(bundles', r.ver) /\ bundles'[r.ver].id = r.id
        BY <1>2, <1>3, <1>4, <1>b
      <3> QED BY <1>1, <1>u, <2>1, <3>1, <3>2, <3>3, HolderFails
    <2>2. CASE q = [r EXCEPT !.pc = "latest"] /\ bundles' = Put(bundles, r.ver, full) /\ torn' = torn
      <3>0. q.pc = "latest" /\ q.op = r.op /\ q.ver = r.ver /\ q.id = r.id /\ q.leak = r.leak
            /\ q.sha = r.sha /\ q.read = r.read /\ q.from = r.from
        <4> HIDE DEF r
        <4> QED BY <1>2, <2>2 DEF CallRec
      <3>1. HoldsDoc(q)' /\ (HoldsObject(q)' <=> HoldsObject(r))
        BY <1>1, <1>u, <3>0 DEF HoldsDoc, HoldsObject
      <3>2. Owns(q)'
        BY <1>2, <1>3, <1>b, <1>u, <2>2, <3>0, <3>1 DEF Claims, Owns
      <3>3. Knows(q)'
        BY <1>1, <1>2, <1>u, <3>0, <3>1 DEF Claims, Knows
      <3>4. UndoSound(q)'
        BY <3>0 DEF UndoSound
      <3>5. WrittenSound(q)'
        <4>1. full = FullBundleOf(q)
          BY <3>0 DEF full, FullBundleOf, BundleOf
        <4> QED BY <1>1, <1>2, <1>b, <1>u, <2>2, <3>0, <4>1 DEF Claims, WrittenSound
      <3> QED BY <3>2, <3>3, <3>4, <3>5 DEF Claims
    <2> QED BY <1>1, <2>1, <2>2 DEF SetTurns, full
  <1>7. /\ \A v \in DOMAIN bundles' : bundles'[v].id <= count.calls
        /\ \A v \in DOMAIN objects' : objects'[v].by <= count.calls
    <2>1. \A v \in DOMAIN bundles' : bundles'[v].id <= count.calls
      BY <1>3, <1>4, BundleIds
    <2> QED BY <1>u, <2>1 DEF OwnershipInv, IdsInv
  <1> QED BY <1>1, <1>2, <1>5, <1>6, <1>7, <1>t, <1>u, UploadStep

LEMMA OwnershipLatest ==
  ASSUME OwnershipInv, ContentInv', NEW c \in Callers, SetLatest(c), UNCHANGED <<objects, deployment>>
  PROVE  OwnershipInv'
  <1> DEFINE r == call[c]
  <1>u. UNCHANGED <<bundles, chunks, objects, crossed, torn, deployment>>
    BY DEF SetLatest
  <1>1. PICK q : Turns(c, q) /\ Same(call[c], q) /\ LatestTurns(c, q) /\ Counted /\ call[c].pc = "latest"
    BY LatestIs DEF OwnershipInv
  <1>2. /\ r.pc \in UploadPc /\ HoldsDoc(r) /\ r.outer \in {<<>>, <<ObjectItem>>}
        /\ r.ver \notin crossed => Has(bundles, r.ver) /\ bundles[r.ver].id = r.id
    BY <1>1, HolderIs
  <1>3. CASE q.pc = "ok" /\ published' = Put(published, r.ver, FullBundleOf(r))
    BY <1>1, <1>3, <1>u, PublishStep
  <1>4. CASE /\ published' = published /\ q.pc = "undo" /\ q.leak = r.leak
             /\ q.undo = <<DocItem>> \o r.outer
    <2>1. Distinct(q.undo) /\ ChunksFirst(q.undo) /\ Lists(q.undo, DocItem)
          /\ (Lists(q.undo, ObjectItem) <=> r.outer # <<>>)
      <3>1. 0 \in Nat
        OBVIOUS
      <3> QED BY <1>2, <1>4, <3>1, HolderLists
    <2>2. Claims(q)'
      BY <1>1, <1>2, <1>4, <1>u, <2>1, HolderFails
    <2>3. Touches(r, q)
      BY <1>u DEF Touches, KeptAt, Kept
    <2>4. /\ \A v \in DOMAIN bundles' : bundles'[v].id <= count.calls
          /\ \A v \in DOMAIN objects' : objects'[v].by <= count.calls
      BY <1>u DEF OwnershipInv, IdsInv
    <2>5. torn \subseteq torn'
      BY <1>u
    <2> QED BY <1>1, <1>2, <1>4, <1>u, <2>2, <2>3, <2>4, <2>5, UploadStep
  <1> QED BY <1>1, <1>3, <1>4 DEF LatestTurns

-----------------------------------------------------------------------------
(***************************************************************************)
(* Ownership: undoing.                                                     *)
(***************************************************************************)
LEMMA UndoerIs ==
  ASSUME OwnershipInv, NEW c \in Callers, call[c].pc = "undo", NEW t, t = Tail(call[c].undo)
  PROVE  /\ call[c].pc \in UploadPc /\ call[c].op = "upload" /\ call[c] \in CallRec
         /\ call[c].leak \in BOOLEAN /\ Claims(call[c])
         /\ Distinct(call[c].undo) /\ Distinct(t)
         /\ call[c].ver \notin torn => ChunksFirst(call[c].undo) /\ ChunksFirst(t)
         /\ \A x : Lists(t, x) <=> Lists(call[c].undo, x) /\ x # Head(call[c].undo)
         /\ Head(call[c].undo) = call[c].undo[1] /\ 1 \in DOMAIN call[c].undo
         /\ t = <<>> => \A x : ~Lists(t, x)
  <1>1. call[c].pc \in UploadPc /\ Claims(call[c]) /\ ContentInv
    BY DEF UploadPc, OwnershipInv
  <1>2. call[c] \in CallRec /\ call[c].undo \in Seq(Item) /\ call[c].undo # <<>> /\ call[c].leak \in BOOLEAN
    BY <1>1 DEF ContentInv, Fit, StepOf, CallRec
  <1>3. Distinct(call[c].undo) /\ (call[c].ver \notin torn => ChunksFirst(call[c].undo))
    BY <1>1 DEF Claims, UndoSound
  <1>4. call[c].op = "upload"
    BY <1>1, UploaderIs
  <1>5. t = <<>> => \A x : ~Lists(t, x)
    BY DEF Lists
  <1>6. PICK u \in Seq(Item) : u = call[c].undo
    BY <1>2
  <1>7. u # <<>> /\ Distinct(u) /\ t = Tail(u)
    BY <1>2, <1>3, <1>6
  <1>8. /\ Distinct(t) /\ (ChunksFirst(u) => ChunksFirst(t))
        /\ \A x : Lists(t, x) <=> Lists(u, x) /\ x # Head(u)
        /\ Head(u) = u[1] /\ 1 \in DOMAIN u
    BY <1>7, TailOf
  <1> QED BY <1>1, <1>2, <1>3, <1>4, <1>5, <1>6, <1>8

\* Whatever was deleted next on the list, the rest of it is still right.
LEMMA UndoGoesOn ==
  ASSUME OwnershipInv, NEW c \in Callers, call[c].pc = "undo", NEW q, NEW leak \in BOOLEAN,
         Same(call[c], q), UndoneTo(c, q, leak), crossed' = crossed, torn' = torn,
         NEW h, h = Head(call[c].undo),
         IF h = DocItem THEN leak \/ ~Has(bundles', call[c].ver)
         ELSE Kept(bundles, bundles', call[c].ver),
         IF h = ObjectItem THEN leak \/ ~Has(objects', call[c].ver)
         ELSE Kept(objects, objects', call[c].ver)
  PROVE  Claims(q)'
  <1> DEFINE r == call[c]
  <1>1. PICK t : t = Tail(r.undo)
    OBVIOUS
  <1>2. /\ r.op = "upload" /\ r.leak \in BOOLEAN /\ Claims(r) /\ Distinct(t)
        /\ r.ver \notin torn => ChunksFirst(t)
        /\ \A x : Lists(t, x) <=> Lists(r.undo, x) /\ x # h
        /\ t = <<>> => \A x : ~Lists(t, x)
    BY <1>1, UndoerIs
  <1>3. /\ q.leak = (r.leak \/ leak) /\ q.pc = IF t = <<>> THEN "err" ELSE "undo"
        /\ t # <<>> => q.undo = t
    BY <1>1 DEF UndoneTo
  <1>4. /\ Lists(r.undo, DocItem) /\ r.ver \notin crossed => Has(bundles, r.ver) /\ bundles[r.ver].id = r.id
        /\ Lists(r.undo, ObjectItem) /\ r.ver \notin crossed => Has(objects, r.ver) /\ objects[r.ver].by = r.id
        /\ ~r.leak /\ Has(bundles, r.ver) /\ bundles[r.ver].id = r.id => Lists(r.undo, DocItem)
        /\ ~r.leak /\ Has(objects, r.ver) /\ objects[r.ver].by = r.id => Lists(r.undo, ObjectItem)
    BY <1>2 DEF Claims, Owns, Knows, HoldsDoc, HoldsObject
  <1>5. ~q.leak => ~leak /\ ~r.leak
    BY <1>2, <1>3
  <1>6. q.leak \/ (/\ Has(bundles', r.ver) /\ bundles'[r.ver].id = r.id => Lists(t, DocItem)
                   /\ Has(objects', r.ver) /\ objects'[r.ver].by = r.id => Lists(t, ObjectItem))
    BY <1>2, <1>4, <1>5 DEF Kept
  <1>7. CASE t = <<>>
    BY <1>2, <1>3, <1>6, <1>7, EndClaims
  <1>8. CASE t # <<>>
    <2>1. q.undo = t /\ q.pc = "undo"
      BY <1>3, <1>8
    <2>2. r.ver \notin crossed' =>
            /\ Lists(q.undo, DocItem) => Has(bundles', r.ver) /\ bundles'[r.ver].id = r.id
            /\ Lists(q.undo, ObjectItem) => Has(objects', r.ver) /\ objects'[r.ver].by = r.id
      BY <1>2, <1>4, <2>1 DEF Kept
    <2>3. q.leak \/ (/\ Has(bundles', r.ver) /\ bundles'[r.ver].id = r.id => Lists(q.undo, DocItem)
                     /\ Has(objects', r.ver) /\ objects'[r.ver].by = r.id => Lists(q.undo, ObjectItem))
      BY <1>6, <2>1
    <2>4. Distinct(q.undo) /\ (r.ver \notin torn' => ChunksFirst(q.undo))
      BY <1>2, <2>1
    <2> QED BY <2>1, <2>2, <2>3, <2>4, UndoClaims
  <1> QED BY <1>7, <1>8

LEMMA OwnershipUndoDoc ==
  ASSUME OwnershipInv, ContentInv', NEW c \in Callers, UndoDoc(c), UNCHANGED <<objects, deployment>>
  PROVE  OwnershipInv'
  <1> DEFINE r == call[c]
  <1>u. UNCHANGED <<chunks, objects, published, crossed, torn, deployment>>
    BY DEF UndoDoc, history
  <1>0. Counted /\ r.pc = "undo" /\ Head(r.undo).kind = "doc"
    BY UndoDocIs DEF OwnershipInv
  <1>1. PICK q, leak : /\ leak \in BOOLEAN /\ Turns(c, q) /\ Same(call[c], q)
                       /\ UndoneTo(c, q, leak) /\ Erased(bundles, bundles', r.ver, leak)
    BY UndoDocIs DEF OwnershipInv
  <1>2. PICK h : h = Head(r.undo)
    OBVIOUS
  <1>3. r.pc \in UploadPc /\ h = r.undo[1] /\ 1 \in DOMAIN r.undo /\ Distinct(r.undo)
    BY <1>0, <1>2, UndoerIs
  <1>4. h = DocItem /\ HoldsDoc(r) /\ h # ObjectItem
    BY <1>0, <1>2, <1>3, ItemKinds DEF Distinct, HoldsDoc, Lists
  <1>5. bundles' \in {bundles, Without(bundles, r.ver)} /\ (leak \/ ~Has(bundles', r.ver))
    BY <1>1 DEF Erased, Without, Has
  <1>6. Claims(q)'
    <2>1. Kept(objects, objects', r.ver)
      BY <1>u DEF Kept
    <2> QED BY <1>0, <1>1, <1>2, <1>4, <1>5, <1>u, <2>1, UndoGoesOn
  <1>7. Touches(r, q)
    <2>1. \A w : w # r.ver => Kept(bundles, bundles', w)
      BY <1>5 DEF Kept, Has, Without
    <2>2. Kept(bundles, bundles', r.ver) \/ ~Has(bundles', r.ver)
      BY <1>5 DEF Kept, Has, Without
    <2>3. \A w : Kept(objects, objects', w) /\ \A i \in Nat : Kept(chunks, chunks', <<w, i>>)
      BY <1>u DEF Kept
    <2> QED BY <1>4, <2>1, <2>2, <2>3 DEF Touches, KeptAt
  <1>8. /\ \A v \in DOMAIN bundles' : bundles'[v].id <= count.calls
        /\ \A v \in DOMAIN objects' : objects'[v].by <= count.calls
    BY <1>5, <1>u DEF OwnershipInv, IdsInv, Without
  <1>9. torn \subseteq torn'
    BY <1>u
  <1> QED BY <1>0, <1>1, <1>3, <1>6, <1>7, <1>8, <1>9, <1>u, UploadStep

LEMMA OwnershipUndoObject ==
  ASSUME OwnershipInv, ContentInv', NEW c \in Callers, UndoObject(c)
  PROVE  OwnershipInv'
  <1> DEFINE r == call[c]
  <1>u. UNCHANGED <<chunks, bundles, published, crossed, torn, deployment>>
    BY DEF UndoObject, history, docVars
  <1>0. Counted /\ r.pc = "undo" /\ Head(r.undo).kind = "object"
    BY UndoObjectIs DEF OwnershipInv
  <1>1. PICK q, leak : /\ leak \in BOOLEAN /\ Turns(c, q) /\ Same(call[c], q)
                       /\ UndoneTo(c, q, leak) /\ Erased(objects, objects', r.ver, leak)
    BY UndoObjectIs DEF OwnershipInv
  <1>2. PICK h : h = Head(r.undo)
    OBVIOUS
  <1>3. r.pc \in UploadPc /\ h = r.undo[1] /\ 1 \in DOMAIN r.undo /\ Distinct(r.undo)
    BY <1>0, <1>2, UndoerIs
  <1>4. h = ObjectItem /\ HoldsObject(r) /\ h # DocItem
    BY <1>0, <1>2, <1>3, ItemKinds DEF Distinct, HoldsObject, Lists
  <1>5. objects' \in {objects, Without(objects, r.ver)} /\ (leak \/ ~Has(objects', r.ver))
    BY <1>1 DEF Erased, Without, Has
  <1>6. Claims(q)'
    <2>1. Kept(bundles, bundles', r.ver)
      BY <1>u DEF Kept
    <2> QED BY <1>0, <1>1, <1>2, <1>4, <1>5, <1>u, <2>1, UndoGoesOn
  <1>7. Touches(r, q)
    <2>1. \A w : w # r.ver => Kept(objects, objects', w)
      BY <1>5 DEF Kept, Has, Without
    <2>2. Kept(objects, objects', r.ver) \/ ~Has(objects', r.ver)
      BY <1>5 DEF Kept, Has, Without
    <2>3. \A w : Kept(bundles, bundles', w) /\ \A i \in Nat : Kept(chunks, chunks', <<w, i>>)
      BY <1>u DEF Kept
    <2> QED BY <1>4, <2>1, <2>2, <2>3 DEF Touches, KeptAt
  <1>8. /\ \A v \in DOMAIN bundles' : bundles'[v].id <= count.calls
        /\ \A v \in DOMAIN objects' : objects'[v].by <= count.calls
    BY <1>5, <1>u DEF OwnershipInv, IdsInv, Without
  <1>9. torn \subseteq torn'
    BY <1>u
  <1> QED BY <1>0, <1>1, <1>3, <1>6, <1>7, <1>8, <1>9, <1>u, UploadStep

LEMMA OwnershipUndoChunk ==
  ASSUME OwnershipInv, ContentInv', NEW c \in Callers, UndoChunk(c), UNCHANGED <<objects, deployment>>
  PROVE  OwnershipInv'
  <1> DEFINE r == call[c]
  <1>u. UNCHANGED <<objects, bundles, published, crossed, torn, deployment>>
    BY DEF UndoChunk, history
  <1>0. Counted /\ r.pc = "undo" /\ Head(r.undo).kind = "chunk"
    BY UndoChunkIs DEF OwnershipInv
  <1>1. PICK q, leak : /\ leak \in BOOLEAN /\ Turns(c, q) /\ Same(call[c], q)
                       /\ UndoneTo(c, q, leak)
                       /\ Erased(chunks, chunks', <<r.ver, Head(r.undo).i>>, leak)
    BY UndoChunkIs DEF OwnershipInv
  <1>2. PICK h : h = Head(r.undo)
    OBVIOUS
  <1>3. /\ r.pc \in UploadPc /\ h = r.undo[1] /\ 1 \in DOMAIN r.undo
        /\ r.ver \notin torn => ChunksFirst(r.undo)
    BY <1>0, <1>2, UndoerIs
  <1>4. h # ObjectItem /\ h # DocItem
    BY <1>0, <1>2, ItemKinds
  <1>5. HoldsDoc(r) \/ r.ver \in torn
    BY <1>0, <1>2, <1>3 DEF ChunksFirst, HoldsDoc, Lists
  <1>6. Claims(q)'
    <2>1. Kept(bundles, bundles', r.ver) /\ Kept(objects, objects', r.ver)
      BY <1>u DEF Kept
    <2> QED BY <1>0, <1>1, <1>2, <1>4, <1>u, <2>1, UndoGoesOn
  <1>7. Touches(r, q)
    <2>0. PICK v, n : v = r.ver /\ n = Head(r.undo).i
      OBVIOUS
    <2>00. chunks' \in {chunks, Without(chunks, <<v, n>>)}
      BY <1>1, <2>0 DEF Erased
    <2>1. \A w, i : w # v => Kept(chunks, chunks', <<w, i>>)
      BY <2>00, ChunksKept
    <2>2. \A w : Kept(bundles, bundles', w) /\ Kept(objects, objects', w)
      BY <1>u DEF Kept
    <2> QED BY <1>5, <2>0, <2>1, <2>2 DEF Touches, KeptAt
  <1>8. /\ \A v \in DOMAIN bundles' : bundles'[v].id <= count.calls
        /\ \A v \in DOMAIN objects' : objects'[v].by <= count.calls
    BY <1>u DEF OwnershipInv, IdsInv
  <1>9. torn \subseteq torn'
    BY <1>u
  <1> QED BY <1>0, <1>1, <1>3, <1>6, <1>7, <1>8, <1>9, <1>u, UploadStep

-----------------------------------------------------------------------------
(***************************************************************************)
(* Ownership: Delete, Get and the rest.                                    *)
(***************************************************************************)
LEMMA OwnershipDeleteGet ==
  ASSUME OwnershipInv, ContentInv', NEW c \in Callers, DeleteGet(c), UNCHANGED <<objects, deployment>>
  PROVE  OwnershipInv'
  <1>u. UNCHANGED <<bundles, chunks, objects, published, crossed, torn, deployment>>
    BY DEF DeleteGet, history, docVars
  <1>1. PICK q : Turns(c, q) /\ Same(call[c], q) /\ DeletesTo(c, q) /\ Counted /\ call[c].pc = "dget"
    BY <1>u, DeleteGetIs DEF OwnershipInv
  <1>2. call[c].pc \in DeletePc /\ call[c].pc # "dobj"
    BY <1>1 DEF DeletePc
  <1>3. Removes(call[c].ver)
    BY <1>u DEF Removes, KeptAt, Kept
  <1>4. /\ \A v \in DOMAIN bundles' : bundles'[v].id <= count.calls
        /\ \A v \in DOMAIN objects' : objects'[v].by <= count.calls
    BY <1>u DEF OwnershipInv, IdsInv
  <1> QED BY <1>1, <1>2, <1>3, <1>4, <1>u, DeleteStep

LEMMA OwnershipDeleteChunk ==
  ASSUME OwnershipInv, ContentInv', NEW c \in Callers, DeleteChunk(c), UNCHANGED <<objects, deployment>>
  PROVE  OwnershipInv'
  <1>u. UNCHANGED <<bundles, objects, published, crossed, torn, deployment>>
    BY DEF DeleteChunk, history
  <1>0. chunks' \in {chunks, Without(chunks, <<call[c].ver, Head(call[c].undo).i>>)}
        /\ Counted /\ call[c].pc = "drm"
    BY DeleteChunkIs DEF OwnershipInv
  <1>1. PICK q : Turns(c, q) /\ Same(call[c], q) /\ DeletesTo(c, q)
    BY DeleteChunkIs DEF OwnershipInv
  <1>2. call[c].pc \in DeletePc /\ call[c].pc # "dobj"
    BY <1>0 DEF DeletePc
  <1>3. Removes(call[c].ver)
    <2>0. PICK v, n : v = call[c].ver /\ n = Head(call[c].undo).i
      OBVIOUS
    <2>1. chunks' \in {chunks, Without(chunks, <<v, n>>)}
      BY <1>0, <2>0
    <2>2. \A w, i : w # v => Kept(chunks, chunks', <<w, i>>)
      BY <2>1, ChunksKept
    <2>3. \A w : Kept(bundles, bundles', w) /\ Kept(objects, objects', w)
      BY <1>u DEF Kept
    <2> QED BY <1>u, <2>0, <2>2, <2>3 DEF Removes, KeptAt
  <1>4. /\ \A v \in DOMAIN bundles' : bundles'[v].id <= count.calls
        /\ \A v \in DOMAIN objects' : objects'[v].by <= count.calls
    BY <1>u DEF OwnershipInv, IdsInv
  <1> QED BY <1>0, <1>1, <1>2, <1>3, <1>4, <1>u, DeleteStep

LEMMA OwnershipDeleteDoc ==
  ASSUME OwnershipInv, ContentInv', NEW c \in Callers, DeleteDoc(c), UNCHANGED <<objects, deployment>>
  PROVE  OwnershipInv'
  <1>u. UNCHANGED <<chunks, objects, published, crossed, torn, deployment>>
    BY DEF DeleteDoc, history
  <1>0. bundles' \in {bundles, Without(bundles, call[c].ver)} /\ Counted /\ call[c].pc = "ddoc"
    BY DeleteDocIs DEF OwnershipInv
  <1>1. PICK q : Turns(c, q) /\ Same(call[c], q) /\ DeletesTo(c, q)
    BY DeleteDocIs DEF OwnershipInv
  <1>2. call[c].pc \in DeletePc /\ call[c].pc # "dobj"
    BY <1>0 DEF DeletePc
  <1>3. Removes(call[c].ver)
    <2>1. \A w : w # call[c].ver => Kept(bundles, bundles', w)
      BY <1>0 DEF Kept, Has, Without
    <2>2. Has(bundles', call[c].ver) => Has(bundles, call[c].ver) /\ bundles'[call[c].ver] = bundles[call[c].ver]
      BY <1>0 DEF Has, Without
    <2>3. \A w : Kept(objects, objects', w) /\ \A i \in Nat : Kept(chunks, chunks', <<w, i>>)
      BY <1>u DEF Kept
    <2> QED BY <1>u, <2>1, <2>2, <2>3 DEF Removes, KeptAt
  <1>4. /\ \A v \in DOMAIN bundles' : bundles'[v].id <= count.calls
        /\ \A v \in DOMAIN objects' : objects'[v].by <= count.calls
    BY <1>0, <1>u DEF OwnershipInv, IdsInv, Without
  <1> QED BY <1>0, <1>1, <1>2, <1>3, <1>4, <1>u, DeleteStep

LEMMA OwnershipDeleteObject ==
  ASSUME OwnershipInv, ContentInv', NEW c \in Callers, DeleteObject(c)
  PROVE  OwnershipInv'
  <1>u. UNCHANGED <<chunks, bundles, published, crossed, torn, deployment>>
    BY DEF DeleteObject, history, docVars
  <1>0. objects' \in {objects, Without(objects, call[c].ver)} /\ Counted /\ call[c].pc = "dobj"
    BY DeleteObjectIs DEF OwnershipInv
  <1>1. PICK q : Turns(c, q) /\ Same(call[c], q) /\ DeletesTo(c, q) /\ q.pc \in Finished
    BY DeleteObjectIs DEF OwnershipInv
  <1>2. call[c].pc \in DeletePc
    BY <1>0 DEF DeletePc
  <1>3. Removes(call[c].ver)
    <2>1. \A w : w # call[c].ver => Kept(objects, objects', w)
      BY <1>0 DEF Kept, Has, Without
    <2>2. Has(objects', call[c].ver) => Has(objects, call[c].ver) /\ objects'[call[c].ver] = objects[call[c].ver]
      BY <1>0 DEF Has, Without
    <2>3. \A w : Kept(bundles, bundles', w) /\ \A i \in Nat : Kept(chunks, chunks', <<w, i>>)
      BY <1>u DEF Kept
    <2> QED BY <1>u, <2>1, <2>2, <2>3 DEF Removes, KeptAt
  <1>4. /\ \A v \in DOMAIN bundles' : bundles'[v].id <= count.calls
        /\ \A v \in DOMAIN objects' : objects'[v].by <= count.calls
    BY <1>0, <1>u DEF OwnershipInv, IdsInv, Without
  <1> QED BY <1>0, <1>1, <1>2, <1>3, <1>4, <1>u, DeleteStep

\* A step of a Get.
LEMMA OwnershipRead ==
  ASSUME OwnershipInv, ContentInv', NEW c \in Callers, Counted, call[c].pc \in GetPc,
         NEW q, Turns(c, q), ReadsTo(call[c], q), UNCHANGED <<docVars, history, objects, deployment>>
  PROVE  OwnershipInv'
  <1>1. Busy(c)
    BY PcsApart DEF Busy
  <1>2. UNCHANGED <<bundles, chunks, objects, published, crossed, torn, deployment>>
    BY DEF docVars, history
  <1>3. q.op \in {"get", "none"} /\ q.id \in {0, call[c].id} /\ (q.pc \notin Finished => q.id = call[c].id)
    BY DEF ReadsTo
  <1> QED BY <1>1, <1>2, <1>3, QuietStep

LEMMA OwnershipDie ==
  ASSUME OwnershipInv, ContentInv', NEW c \in Callers, Die(c), UNCHANGED <<objects, deployment>>
  PROVE  OwnershipInv'
  <1>1. PICK q : Turns(c, q) /\ q.op = "none" /\ q.id = 0 /\ q.pc = "err" /\ Counted /\ Busy(c)
    BY DieIs DEF OwnershipInv
  <1>2. UNCHANGED <<bundles, chunks, objects, published, crossed, torn, deployment>>
    BY DEF Die, docVars, history
  <1>3. q.op \in {"get", "none"} /\ q.id \in {0, call[c].id} /\ (q.pc \notin Finished => q.id = call[c].id)
    BY <1>1 DEF Finished
  <1> QED BY <1>1, <1>2, <1>3, QuietStep

\* A step that neither moves a call nor changes a release.
LEMMA OwnershipIdle ==
  ASSUME OwnershipInv, ContentInv', count'.calls = count.calls,
         UNCHANGED <<call, bundles, chunks, objects, published, crossed, torn, deployment>>
  PROVE  OwnershipInv'
  <1>1. IdsInv' /\ CrossedInv' /\ DeletedInv'
    BY DEF OwnershipInv, IdsInv, CrossedInv, DeletedInv, Busy
  <1>2. \A c \in Callers : Claims(call[c])'
    BY DEF OwnershipInv, Claims, Owns, Knows, UndoSound, WrittenSound, HoldsDoc, HoldsObject
  <1>3. \A v \in Versions : Intact(v)'
    BY DEF OwnershipInv, Intact, Downloadable
  <1> QED BY <1>1, <1>2, <1>3 DEF OwnershipInv

LEMMA OwnershipInit == Init => OwnershipInv
  <1> SUFFICES ASSUME Init PROVE OwnershipInv
    OBVIOUS
  <1>1. ContentInv
    BY ContentInit
  <1>2. /\ DOMAIN bundles = {} /\ DOMAIN objects = {} /\ DOMAIN published = {} /\ count.calls = 0
        /\ \A c \in Callers : call[c] = Idle
    BY DEF Init, DocInit, EmptyCollection
  <1>3. \A c \in Callers : call[c].pc = "err" /\ call[c].id = 0 /\ call[c].op = "none"
    BY <1>2, IdleIs
  <1>4. IdsInv /\ CrossedInv /\ DeletedInv
    BY <1>2, <1>3 DEF IdsInv, CrossedInv, DeletedInv, Busy, Finished, UploadPc
  <1>5. \A c \in Callers : Claims(call[c])
    BY <1>3 DEF Claims, Owns, Knows, UndoSound, WrittenSound, HoldsDoc, HoldsObject
  <1>6. \A v \in Versions : Intact(v)
    BY <1>2 DEF Intact, Has
  <1> QED BY <1>1, <1>4, <1>5, <1>6 DEF OwnershipInv

LEMMA OwnershipNext == OwnershipInv /\ [Next]_vars => OwnershipInv'
  <1> SUFFICES ASSUME OwnershipInv, [Next]_vars PROVE OwnershipInv'
    OBVIOUS
  <1>0. ContentInv /\ ContentInv'
    BY ContentNext DEF OwnershipInv
  <1>1. ASSUME NEW c \in Callers, GcsStep(c) PROVE OwnershipInv'
    <2>1. CASE ResolveLatest(c)
      BY <1>0, <2>1, ResolveIs, OwnershipRead DEF ResolveLatest
    <2>2. ASSUME NEW name, ReadObject(c, name) PROVE OwnershipInv'
      BY <1>0, <2>2, ReadObjectIs, OwnershipRead DEF ReadObject
    <2> QED BY <1>0, <1>1, <2>1, <2>2, OwnershipCheck, OwnershipStream, OwnershipUndoObject,
               OwnershipDeleteObject DEF GcsStep, GetObject, Download
  <1>2. ASSUME NEW c \in Callers, DocStep(c), UNCHANGED <<objects, deployment>> PROVE OwnershipInv'
    <2>1. CASE GetDoc(c)
      BY <1>0, <1>2, <2>1, GetDocIs, OwnershipRead DEF GetDoc
    <2>2. CASE GetChunk(c)
      BY <1>0, <1>2, <2>2, GetChunkIs, OwnershipRead DEF GetChunk
    <2> QED BY <1>0, <1>2, <2>1, <2>2, OwnershipCreate, OwnershipPutChunk, OwnershipSet, OwnershipLatest,
               OwnershipUndoDoc, OwnershipUndoChunk, OwnershipDeleteGet, OwnershipDeleteChunk,
               OwnershipDeleteDoc DEF DocStep
  <1>3. ASSUME NEW c \in Callers, Upload(c) \/ Delete(c) \/ Get(c) PROVE OwnershipInv'
    BY <1>0, <1>3, UploadIs, DeleteIs, GetIs, BeginStep
  <1>4. ASSUME NEW c \in Callers, Die(c), UNCHANGED <<objects, deployment>> PROVE OwnershipInv'
    BY <1>0, <1>4, OwnershipDie
  <1>5. CASE Packages /\ UNCHANGED <<objects, deployment>>
    BY <1>0, <1>5, PackagesAre, OwnershipIdle DEF Counted, history
  <1>6. CASE UNCHANGED vars
    BY <1>0, <1>6, OwnershipIdle DEF vars, docVars, history
  <1> QED BY <1>1, <1>2, <1>3, <1>4, <1>5, <1>6 DEF Next, Packages

-----------------------------------------------------------------------------
(***************************************************************************)
(* The theorems about ownership.                                           *)
(***************************************************************************)
\* UploadIsAllOrNothing: once Upload returned nil (docrelease or gcsrelease
\* around it) the version stays downloadable until it is deleted, whatever other
\* uploads of it start, fail, roll back or die; and an Upload that returned an
\* error with its clean-up done has left neither document nor object.
THEOREM UploadsAreAllOrNothing == Spec => []UploadIsAllOrNothing
  <1>1. OwnershipInv => UploadIsAllOrNothing
    <2> SUFFICES ASSUME OwnershipInv PROVE UploadIsAllOrNothing
      OBVIOUS
    <2>1. ASSUME NEW v \in Versions \ (crossed \cup torn), Has(published, v)
          PROVE  Downloadable(v, published[v])
      <3>1. v \in Versions /\ v \notin crossed /\ v \notin torn /\ deployment \in {"docs", "gcs"}
        BY DEF OwnershipInv, ContentInv, Shape
      <3>2. Intact(v)
        BY <3>1 DEF OwnershipInv
      <3>3. CASE deployment = "docs"
        BY <2>1, <3>1, <3>2, <3>3 DEF Intact
      <3>4. CASE deployment = "gcs"
        BY <2>1, <3>1, <3>2, <3>4 DEF Intact, Downloadable
      <3> QED BY <3>1, <3>3, <3>4
    <2>2. ASSUME NEW c \in Callers, call[c].op = "upload", call[c].pc = "err", ~call[c].leak
          PROVE  /\ Has(bundles, call[c].ver) => bundles[call[c].ver].id # call[c].id
                 /\ Has(objects, call[c].ver) => objects[call[c].ver].by # call[c].id
      <3>1. Knows(call[c]) /\ ~HoldsDoc(call[c]) /\ ~HoldsObject(call[c])
        BY <2>2 DEF OwnershipInv, Claims, HoldsDoc, HoldsObject
      <3> QED BY <2>2, <3>1 DEF Knows
    <2>3. PublishedStaysIntact
      BY <2>1 DEF PublishedStaysIntact
    <2>4. FailedUploadLeavesNothing
      BY <2>2 DEF FailedUploadLeavesNothing
    <2> QED BY <2>3, <2>4 DEF UploadIsAllOrNothing
  <1> QED BY <1>1, OwnershipInit, OwnershipNext, PTL DEF Spec

\* The step in which a Delete returns nil is its own.
LEMMA EndsItself ==
  ASSUME ContentInv, NEW c \in Callers, call[c].pc \in DeletePc, call'[c].pc = "ok",
         NEW d \in Callers, NEW q, Turns(d, q)
  PROVE  d = c /\ q.pc = "ok" /\ call[d].pc \in DeletePc
  <1>1. call'[d] = q /\ \A e \in Callers : e # d => call'[e] = call[e]
    BY DEF Turns, ContentInv, Shape
  <1>2. "ok" \notin DeletePc
    BY DEF DeletePc
  <1> QED BY <1>1, <1>2

LEMMA DeleteFrees ==
  ASSUME OwnershipInv, Next, NEW c \in Callers, call[c].pc \in DeletePc, call'[c].pc = "ok",
         call[c].ver \notin crossed
  PROVE  ~Has(bundles', call[c].ver) /\ ~Has(objects', call[c].ver)
  <1>0. ContentInv
    BY DEF OwnershipInv
  <1> DEFINE Goal == ~Has(bundles', call[c].ver) /\ ~Has(objects', call[c].ver)
  <1>1. ASSUME NEW d \in Callers, NEW q, Turns(d, q),
               call[d].pc \notin DeletePc \/ q.pc # "ok"
        PROVE  Goal
    BY <1>0, <1>1, EndsItself
  <1> HIDE DEF Goal
  <1>2. ASSUME NEW d \in Callers, Upload(d) \/ Delete(d) \/ Get(d) PROVE Goal
    <2>1. PICK q : Begun(d, q)
      BY <1>0, <1>2, UploadIs, DeleteIs, GetIs
    <2>2. Turns(d, q) /\ call[d].pc \notin DeletePc
      BY <2>1, PcsApart DEF Begun, Busy
    <2> QED BY <1>1, <2>2
  <1>3. ASSUME NEW d \in Callers, GcsStep(d) PROVE Goal
    <2>1. CASE CheckPublished(d) \/ Stream(d) \/ UndoObject(d)
      <3>1. PICK q : Turns(d, q) /\ call[d].pc \in {"check", "stream", "undo"}
        BY <1>0, <2>1, CheckIs, StreamIs, UndoObjectIs
      <3> QED BY <1>1, <3>1 DEF DeletePc
    <2>2. CASE ResolveLatest(d)
      <3>1. PICK q : Turns(d, q) /\ call[d].pc \in GetPc
        BY <1>0, <2>2, ResolveIs
      <3> QED BY <1>1, <3>1, PcsApart
    <2>3. ASSUME NEW name, ReadObject(d, name) PROVE Goal
      <3>1. PICK q : Turns(d, q) /\ call[d].pc \in GetPc
        BY <1>0, <2>3, ReadObjectIs
      <3> QED BY <1>1, <3>1, PcsApart
    <2>4. CASE DeleteObject(d)
      <3>1. PICK q : Turns(d, q) /\ (q.pc = "ok" => ~Has(objects', call[d].ver)) /\ call[d].pc = "dobj"
        BY <1>0, <2>4, DeleteObjectIs
      <3>2. CASE q.pc # "ok"
        BY <1>1, <3>1, <3>2
      <3>3. CASE q.pc = "ok"
        <4>1. d = c /\ bundles' = bundles
          BY <1>0, <2>4, <3>1, EndsItself DEF DeleteObject, docVars
        <4>2. ~Has(bundles, call[c].ver)
          BY <3>1, <4>1 DEF OwnershipInv, DeletedInv
        <4> QED BY <3>1, <3>3, <4>1, <4>2 DEF Goal
      <3> QED BY <3>2, <3>3
    <2> QED BY <1>3, <2>1, <2>2, <2>3, <2>4 DEF GcsStep, GetObject, Download
  <1>4. ASSUME NEW d \in Callers, DocStep(d), UNCHANGED <<objects, deployment>> PROVE Goal
    <2>1. CASE CreateBundle(d) \/ PutChunk(d) \/ SetBundle(d) \/ SetLatest(d) \/ UndoDoc(d) \/ UndoChunk(d)
      <3>1. PICK q : Turns(d, q) /\ call[d].pc \in {"create", "chunk", "set", "latest", "undo"}
        BY <1>0, <2>1, CreateIs, PutChunkIs, SetIs, LatestIs, UndoDocIs, UndoChunkIs
      <3> QED BY <1>1, <3>1 DEF DeletePc
    <2>2. CASE GetDoc(d) \/ GetChunk(d)
      <3>1. PICK q : Turns(d, q) /\ call[d].pc \in GetPc
        BY <1>0, <2>2, GetDocIs, GetChunkIs
      <3> QED BY <1>1, <3>1, PcsApart
    <2>3. CASE DeleteGet(d) \/ DeleteChunk(d)
      <3>1. DeleteGet(d) => bundles' = bundles
        BY DEF DeleteGet, docVars
      <3>2. PICK q : Turns(d, q) /\ DeletesTo(d, q) /\ call[d].pc \in {"dget", "drm"}
        BY <1>0, <2>3, <3>1, DeleteGetIs, DeleteChunkIs
      <3>3. q.pc # "ok"
        BY <3>2 DEF DeletesTo
      <3> QED BY <1>1, <3>2, <3>3
    <2>4. CASE DeleteDoc(d)
      <3>1. PICK q : Turns(d, q) /\ DeletesTo(d, q) /\ call[d].pc = "ddoc"
        BY <1>0, <2>4, DeleteDocIs
      <3>2. CASE q.pc # "ok"
        BY <1>1, <3>1, <3>2
      <3>3. CASE q.pc = "ok"
        <4>1. d = c /\ ~Has(bundles', call[d].ver) /\ deployment = "docs"
          BY <1>0, <3>1, <3>3, EndsItself DEF DeletesTo
        <4>2. DOMAIN objects' = {}
          BY <1>0, <1>4, <4>1 DEF ContentInv, Shape
        <4> QED BY <4>1, <4>2 DEF Goal, Has
      <3> QED BY <3>2, <3>3
    <2> QED BY <1>4, <2>1, <2>2, <2>3, <2>4 DEF DocStep
  <1>5. ASSUME NEW d \in Callers, Die(d) PROVE Goal
    <2>1. PICK q : Turns(d, q) /\ q.pc = "err"
      BY <1>0, <1>5, DieIs
    <2> QED BY <1>1, <2>1
  <1>6. ~Packages
    <2>1. Packages => call' = call
      BY <1>0, PackagesAre
    <2> QED BY <2>1 DEF DeletePc
  <1>7. Goal
    BY <1>2, <1>3, <1>4, <1>5, <1>6 DEF Next, Packages
  <1> QED BY <1>7 DEF Goal

\* DeleteFreesVersion: a Delete that returns nil has removed the release
\* document and the object of its version, so that the version can be uploaded
\* again, whatever an upload that died or failed had left behind.
THEOREM DeletesFreeTheVersion == Spec => DeleteFreesVersion
  <1> DEFINE Frees == \A c \in Callers :
       LET r == call[c]
       IN  r.op = "delete" /\ Busy(c) /\ call'[c].pc = "ok" /\ r.ver \notin crossed
             => ~Has(bundles', r.ver) /\ ~Has(objects', r.ver)
  <1>1. OwnershipInv /\ [Next]_vars => [Frees]_vars
    <2> SUFFICES ASSUME OwnershipInv, Next, NEW c \in Callers, call[c].op = "delete", Busy(c),
                        call'[c].pc = "ok", call[c].ver \notin crossed
                 PROVE  ~Has(bundles', call[c].ver) /\ ~Has(objects', call[c].ver)
      OBVIOUS
    <2>1. call[c] \in CallRec /\ StepOf(call[c])
      BY DEF OwnershipInv, ContentInv, Fit
    <2>2. call[c].pc \in DeletePc
      BY <2>1 DEF StepOf, Busy, CallRec
    <2> QED BY <2>2, DeleteFrees
  <1> HIDE DEF Frees
  <1>2. Spec => [][Frees]_vars
    BY <1>1, OwnershipInit, OwnershipNext, PTL DEF Spec
  <1> QED BY <1>2 DEF DeleteFreesVersion, Frees

=============================================================================
