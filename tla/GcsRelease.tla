----------------------------- MODULE GcsRelease -----------------------------
(***************************************************************************)
(* release/gcsrelease: artifacts as objects of a bucket, metadata in an    *)
(* inner docrelease manager; release/signedrelease, which signs what it    *)
(* uploads and verifies what it gets; and release/cdnrelease, which reads  *)
(* through the HTTP handler and signed URLs.                               *)
(*                                                                         *)
(* A behaviour is one of two deployments: the bare docrelease manager, or  *)
(* gcsrelease around it.  The bucket is external: a write becomes visible  *)
(* when its writer is closed, and only if the object does not exist.       *)
(***************************************************************************)
EXTENDS DocRelease

CONSTANTS Chunk,     \* what one data document may hold
          Sources    \* what callers upload: see Plain and Signed

VARIABLES objects,     \* the bucket, by version
          deployment   \* "docs" or "gcs"

vars == <<docVars, call, count, history, objects, deployment>>

ObjectItem == [kind |-> "object", i |-> 0]
Outer == IF deployment = "gcs" THEN <<ObjectItem>> ELSE <<>>

-----------------------------------------------------------------------------
(***************************************************************************)
(* Starting an operation.                                                  *)
(***************************************************************************)
\* What a plain Upload gives the manager: an os.File, whose size is known, or a
\* stream.
Plain(file) ==
  {[src |-> file, from |-> [file |-> file, size |-> n, sig |-> None]] :
     n \in {0, Len(file)}}

\* The signing manager reads everything once to sign it.  A file is then read
\* again from its start; a stream is replaced by the bytes that were signed,
\* which are fewer when it was cut.
Signed(file) ==
  {[src |-> file, from |-> [file |-> file, size |-> Len(file), sig |-> file]]} \cup
  {[src |-> SubSeq(file, 1, k),
    from |-> [file |-> file, size |-> 0, sig |-> SubSeq(file, 1, k)]] :
     k \in 0..Len(file)}

ASSUME SourcesAssumption ==
  \A s \in Sources : /\ s \in Plain(s.from.file) \cup Signed(s.from.file)
                     /\ s.from.file \in Seq(Chunk)

Upload(c) ==
  \E v \in Versions, s \in Sources :
    /\ Begin(c, [Idle EXCEPT !.pc = IF deployment = "gcs" THEN "check" ELSE "create",
                             !.op = "upload", !.ver = v, !.outer = Outer,
                             !.src = s.src, !.from = s.from])
    /\ UNCHANGED <<objects, deployment>>

Delete(c) ==
  \E v \in Versions :
    /\ Begin(c, [Idle EXCEPT !.pc = "dget", !.op = "delete", !.ver = v,
                             !.outer = Outer])
    /\ UNCHANGED <<objects, deployment>>

\* Only gcsrelease resolves Latest, and only it has a handler for the CDN.
Get(c) ==
  \E v \in Versions \cup {Latest}, mode \in {"discard", "plain", "signed", "cdn"} :
    /\ mode = "cdn" => deployment = "gcs"
    /\ Begin(c, [Idle EXCEPT !.pc = IF v = Latest /\ deployment = "gcs"
                                    THEN "glatest" ELSE "gdoc",
                             !.op = "get", !.ver = v, !.url = v, !.mode = mode,
                             !.outer = Outer])
    /\ UNCHANGED <<objects, deployment>>

-----------------------------------------------------------------------------
(***************************************************************************)
(* Upload through gcsrelease: check, stream and close, inner Upload.       *)
(***************************************************************************)
\* Any error of the check counts as "not published".
CheckPublished(c) ==
  LET r == call[c]
  IN  /\ r.pc = "check"
      /\ \/ Has(bundles, r.ver) /\ NoFault /\ GoTo(c, "err")
         \/ ~Has(bundles, r.ver) /\ NoFault /\ GoTo(c, "stream")
         \/ Fault /\ GoTo(c, "stream")
      /\ UNCHANGED <<docVars, history, objects, deployment>>

\* Mutant: a short read is taken for the end of the file.
NeverTruncated(r, streamed) == FALSE

\* A read that ends short of a known size.
Truncated(r, streamed) == r.from.size > 0 /\ Len(streamed) # r.from.size

\* abortUpload: closing commits what was streamed, unless the close fails (it
\* does when the object exists).  The object is deleted when the close reports
\* success; a close that commits and yet reports an error leaves it there.
AbortUpload(c, streamed) ==
  \/ /\ ~Has(objects, call[c].ver)
     /\ objects' = Put(objects, call[c].ver, [by |-> call[c].id, data |-> streamed])
     /\ Fail(c, <<ObjectItem>>, FALSE) \/ Fail(c, <<>>, TRUE)
  \/ Fail(c, <<>>, FALSE) /\ UNCHANGED objects

\* Mutant: the object is deleted whoever created it.
CloseUploadDeletesExisting(c, streamed) ==
  LET v == call[c].ver
      committed == Put(objects, v, [by |-> call[c].id, data |-> streamed])
  IN  \/ /\ ~Has(objects, v) /\ NoFault
         /\ objects' = committed
         /\ call' = [call EXCEPT ![c].pc = "create", ![c].src = <<>>,
                                 ![c].sha = streamed]
      \/ Has(objects, v) /\ NoFault /\ Fail(c, <<ObjectItem>>, FALSE) /\ UNCHANGED objects

\* The end of a complete stream.  The inner Upload gets an empty reader and
\* the checksum as metadata.
CloseUpload(c, streamed) ==
  LET v == call[c].ver
      committed == Put(objects, v, [by |-> call[c].id, data |-> streamed])
  IN  \/ /\ ~Has(objects, v) /\ NoFault
         /\ objects' = committed
         /\ call' = [call EXCEPT ![c].pc = "create", ![c].src = <<>>,
                                 ![c].sha = streamed]
      \/ Has(objects, v) /\ NoFault /\ Fail(c, <<>>, FALSE) /\ UNCHANGED objects
      \/ Fault /\ Fail(c, <<>>, FALSE) /\ UNCHANGED objects
      \/ ~Has(objects, v) /\ Fault /\ Fail(c, <<>>, TRUE) /\ objects' = committed

Stream(c) ==
  LET r == call[c]
  IN  /\ r.pc = "stream"
      /\ \E n \in 0..Len(r.src) :
           LET streamed == SubSeq(r.src, 1, n)
           IN  \/ Fault /\ AbortUpload(c, streamed)
               \/ Truncated(r, streamed) /\ NoFault /\ AbortUpload(c, streamed)
               \/ ~Truncated(r, streamed) /\ CloseUpload(c, streamed)
      /\ UNCHANGED <<docVars, history, deployment>>

UndoObject(c) ==
  LET v == call[c].ver
  IN  /\ call[c].pc = "undo" /\ Head(call[c].undo).kind = "object"
      /\ \/ NoFault /\ objects' = Without(objects, v) /\ Undone(c, FALSE)
         \/ Fault /\ objects' \in {objects, Without(objects, v)} /\ Undone(c, TRUE)
      /\ UNCHANGED <<docVars, history, deployment>>

-----------------------------------------------------------------------------
(***************************************************************************)
(* Delete and Get.                                                         *)
(***************************************************************************)
\* Nothing deleted on either side: the metadata miss is the error.
DeleteObject(c) ==
  LET v == call[c].ver
      gone == Without(objects, v)
  IN  /\ call[c].pc = "dobj"
      /\ \/ NoFault /\ objects' = gone
            /\ GoTo(c, IF ~Has(objects, v) /\ call[c].missed THEN "err" ELSE "ok")
         \/ Fault /\ objects' \in {objects, gone} /\ GoTo(c, "err")
      /\ UNCHANGED <<docVars, history, deployment>>

ResolveLatest(c) ==
  /\ call[c].pc = "glatest"
  /\ \/ /\ pack # None /\ NoFault
        /\ call' = [call EXCEPT ![c].pc = "gdoc", ![c].ver = pack.latest]
     \/ pack = None /\ NoFault /\ GoTo(c, "err")
     \/ Fault /\ GoTo(c, "err")
  /\ UNCHANGED <<docVars, history, objects, deployment>>

\* The content comes from one generation of the object.
ReadObject(c, name) ==
  /\ call[c].pc = "gobj"
  /\ \/ Has(objects, name) /\ NoFault /\ Deliver(c, objects[name].data, call[c].doc.sha)
     \/ ~Has(objects, name) /\ NoFault /\ GoTo(c, "err")
     \/ Fault /\ GoTo(c, "err")
  /\ UNCHANGED <<docVars, history, objects, deployment>>

\* gcsrelease reads the object of the resolved version.
GetObject(c) == call[c].mode # "cdn" /\ ReadObject(c, call[c].ver)

\* The CDN reader follows the URL that the handler signed, which names the
\* version of the request.
Download(c) == call[c].mode = "cdn" /\ ReadObject(c, call[c].url)

-----------------------------------------------------------------------------
Init ==
  /\ DocInit
  /\ objects = EmptyCollection
  /\ deployment \in {"docs", "gcs"}

GcsStep(c) ==
  \/ CheckPublished(c) \/ Stream(c) \/ UndoObject(c)
  \/ DeleteObject(c) \/ ResolveLatest(c) \/ GetObject(c) \/ Download(c)

Next ==
  \/ \E c \in Callers : Upload(c) \/ Delete(c) \/ Get(c) \/ GcsStep(c)
  \/ /\ \/ \E c \in Callers : DocStep(c) \/ Die(c)
        \/ CreatePackage \/ UpdatePackageMetadata \/ DeletePackage
     /\ UNCHANGED <<objects, deployment>>

Spec == Init /\ [][Next]_vars

-----------------------------------------------------------------------------
(***************************************************************************)
(* Properties.                                                             *)
(***************************************************************************)
\* The document of version v is complete and its data is where Get looks.
Downloadable(v, b) ==
  /\ Has(bundles, v)
  /\ bundles[v] = b
  /\ IF deployment = "gcs"
     THEN Has(objects, v) /\ objects[v].data = b.sha
     ELSE \A i \in 1..b.ids : Has(chunks, <<v, i>>) /\ chunks[<<v, i>>] = b.sum[i]

\* Once Upload returned nil the version stays downloadable until it is deleted,
\* whatever other uploads of it are started, fail, roll back or die.  (Not
\* covered: a Delete of the version running at the same time as an Upload of
\* it, and a rollback that deletes the chunks of an upload that came after
\* the document was gone.)
PublishedStaysIntact ==
  \A v \in Versions \ (crossed \cup torn) :
    Has(published, v) => Downloadable(v, published[v])

\* A Get that succeeds delivered the beginning of one upload's file, never a
\* mixture of two: all that this upload read in docrelease, the very bytes that
\* were signed where a signature was verified, and the whole file where
\* gcsrelease knew its size.  (docrelease knows it too, and yet takes a cut pipe
\* for the end of the file.)
DownloadIsOneUpload ==
  \A c \in Callers :
    LET r == call[c]
    IN  r.op = "get" /\ r.pc = "ok" /\ r.mode # "discard" =>
          /\ r.data = SubSeq(r.doc.from.file, 1, Len(r.data))
          /\ deployment = "docs" => r.doc.sum = r.data
          /\ deployment = "gcs" /\ r.doc.from.size > 0 => r.data = r.doc.from.file
          /\ r.mode = "signed" => r.doc.from.sig = r.data

\* gcsrelease only: a truncated stream whose size was known leaves no metadata
\* behind, so neither Latest nor a download can lead to it.  docrelease does not
\* compare what it read with the size it shows as progress, and publishes it.
TruncatedNeverPublished ==
  \A v \in Versions :
    Has(bundles, v) /\ deployment = "gcs" /\ bundles[v].from.size > 0
      => bundles[v].sha = bundles[v].from.file

\* An Upload that returned an error although nothing failed while it cleaned up
\* left neither its document nor its object.
FailedUploadLeavesNothing ==
  \A c \in Callers :
    LET r == call[c]
    IN  r.op = "upload" /\ r.pc = "err" /\ ~r.leak /\ r.ver \notin crossed =>
          /\ Has(bundles, r.ver) => bundles[r.ver].id # r.id
          /\ Has(objects, r.ver) => objects[r.ver].by # r.id

\* An Upload is all there or not at all.
UploadIsAllOrNothing == PublishedStaysIntact /\ FailedUploadLeavesNothing

\* What is downloaded is what one upload read, and where gcsrelease could tell,
\* the whole file.
DownloadsAreOneUpload == DownloadIsOneUpload /\ TruncatedNeverPublished

\* A Delete that returns nil has freed the version for a new Upload, whatever
\* an upload that died or failed left behind.
DeleteFreesVersion ==
  [][\A c \in Callers :
       LET r == call[c]
       IN  r.op = "delete" /\ Busy(c) /\ call'[c].pc = "ok" /\ r.ver \notin crossed
             => ~Has(bundles', r.ver) /\ ~Has(objects', r.ver)]_vars
=============================================================================
