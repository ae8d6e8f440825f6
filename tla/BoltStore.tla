----------------------------- MODULE BoltStore ------------------------------
(***************************************************************************)
(* document/bolt: Stores on one database path, sharing one reference-      *)
(* counted *bolt.DB per process, and the durability of what they commit.   *)
(*                                                                         *)
(* bbolt itself is external: it locks the file (one open handle at a time, *)
(* the others wait and time out), runs one read-write transaction at a     *)
(* time and fsyncs a commit unless db.NoSync is set when it commits.       *)
(*                                                                         *)
(* A snapshot of the database maps the collections that have a bucket to   *)
(* their documents and counts the writes behind it.  log holds the         *)
(* snapshots since the last synced commit, oldest first: Last(log) is what *)
(* the process sees, a power loss may bring back any of them.              *)
(***************************************************************************)
EXTENDS Integers, Sequences, SequencesExt, FiniteSets, Collection

CONSTANTS Stores,       \* Store values that New may return
          CollOf,       \* the collection each of them is opened on
          Batches,      \* the sequences of writes tried
          MaxCommits,   \* bound: commits
          MaxCrashes,   \* bound: process deaths and power losses
          MaxHandles,   \* bound: successful bolt.Open calls
          MaxCloses     \* bound: Close calls per Store

ASSUME BoltAssumption == IsFiniteSet(Stores)

VARIABLES store,    \* what each Store, or the New that makes it, is doing
          dbs,      \* the package-level entry of the path, or NoDB
          lock,     \* the handle that holds the file lock, or NoHandle
          opened,   \* bolt.Open calls that succeeded so far
          noSync,   \* db.NoSync of the current handle
          log,      \* snapshots since the last synced commit
          promised, \* history: commits covered by a synced one that returned
          crashes

vars == <<store, dbs, lock, opened, noSync, log, promised, crashes>>

NoHandle == 0
NoDB == [db |-> NoHandle, refs |-> 0]
NoTx == [ops |-> <<>>, batch |-> FALSE, relaxed |-> FALSE]
Fresh == [pc |-> "none", h |-> NoHandle, closes |-> 0, tx |-> NoTx]

Now == Last(log)
Bucket(s) == Now.colls[CollOf[s]]
HasBucket(s) == Has(Now.colls, CollOf[s])

\* Some transaction of handle h is open: the writer lock of bbolt is taken.
InTx(h) == \E s \in Stores : store[s].pc = "tx" /\ store[s].h = h

-----------------------------------------------------------------------------
(***************************************************************************)
(* Documents.  A document is a value; an update sets it and may carry the  *)
(* precondition that it has a given value now.                             *)
(***************************************************************************)
OpError(docs, op) ==
  CASE op.type \in {"create", "set"} /\ op.doc = "nil"            -> "abort"
    [] op.type = "create" /\ op.doc # "nil" /\ Has(docs, op.id)   -> "exists"
    [] op.type = "update" /\ ~Has(docs, op.id)                    -> "notFound"
    [] op.type = "update" /\ Has(docs, op.id)
                          /\ op.pre \notin {"any", docs[op.id]}   -> "precondition"
    [] OTHER                                                      -> "none"

ApplyOp(docs, op) ==
  CASE OpError(docs, op) # "none" -> docs
    [] op.type = "delete"         -> Without(docs, op.id)
    [] OTHER                      -> Put(docs, op.id, op.doc)

\* ApplyBatch goes on after a rejected operation.
ApplyBatch(docs, ops) == FoldLeft(ApplyOp, docs, ops)

\* Whether the transaction is rolled back: a batch only for an error that is
\* not about a document, a single operation for any.
Aborts(docs, tx) ==
  \E i \in DOMAIN tx.ops :
    LET err == OpError(ApplyBatch(docs, SubSeq(tx.ops, 1, i - 1)), tx.ops[i])
    IN  err = "abort" \/ (~tx.batch /\ err # "none")

\* A commit of the database content colls, fsynced unless db.NoSync is set.
Commit(colls, relaxed) ==
  LET snap == [colls |-> colls, commits |-> Now.commits + 1]
  IN  /\ Now.commits < MaxCommits
      /\ IF noSync THEN log' = Append(log, snap) ELSE log' = <<snap>>
      /\ promised' = IF relaxed THEN promised ELSE snap.commits

-----------------------------------------------------------------------------
(***************************************************************************)
(* New.                                                                    *)
(***************************************************************************)
NewStart(s) ==
  /\ store[s].pc = "none"
  /\ \/ /\ dbs = NoDB
        /\ store' = [store EXCEPT ![s].pc = "open"]
        /\ dbs' = dbs
     \/ /\ dbs # NoDB
        /\ store' = [store EXCEPT ![s].pc = "bucket", ![s].h = dbs.db]
        /\ dbs' = [dbs EXCEPT !.refs = @ + 1]
  /\ UNCHANGED <<lock, opened, noSync, log, promised, crashes>>

\* bolt.Open gets the file lock.
OpenSucceeds(s) ==
  /\ store[s].pc = "open"
  /\ lock = NoHandle
  /\ opened < MaxHandles
  /\ opened' = opened + 1
  /\ lock' = opened + 1
  /\ noSync' = FALSE
  /\ store' = [store EXCEPT ![s].pc = "opened", ![s].h = opened + 1]
  /\ UNCHANGED <<dbs, log, promised, crashes>>

\* bolt.Open gives up after defaultBoltTimeout and New returns the error.
OpenTimesOut(s) ==
  /\ store[s].pc = "open"
  /\ lock # NoHandle
  /\ store' = [store EXCEPT ![s].pc = "failed"]
  /\ UNCHANGED <<dbs, lock, opened, noSync, log, promised, crashes>>

\* Back under the package mutex: the handle is cached, or closed again when
\* the path is cached already.
Register(s) ==
  /\ store[s].pc = "opened"
  /\ LET cached == IF dbs = NoDB THEN [db |-> store[s].h, refs |-> 0] ELSE dbs
     IN  /\ dbs' = [cached EXCEPT !.refs = @ + 1]
         /\ lock' = IF dbs = NoDB THEN lock ELSE NoHandle
         /\ store' = [store EXCEPT ![s].pc = "bucket", ![s].h = cached.db]
  /\ UNCHANGED <<opened, noSync, log, promised, crashes>>

\* createBucketIfNotExists, a synced transaction of its own.
WithBucket(s) == IF HasBucket(s) THEN Now.colls
                 ELSE Put(Now.colls, CollOf[s], EmptyCollection)

CreateBucket(s) ==
  /\ store[s].pc = "bucket"
  /\ lock = store[s].h
  /\ ~InTx(store[s].h)
  /\ noSync' = FALSE
  /\ log' = <<[colls |-> WithBucket(s), commits |-> Now.commits]>>
  /\ promised' = Now.commits
  /\ store' = [store EXCEPT ![s].pc = "live"]
  /\ UNCHANGED <<dbs, lock, opened, crashes>>

\* Everything the process had in memory is gone.
Restart ==
  /\ store' = [s \in Stores |-> Fresh]
  /\ dbs' = NoDB
  /\ lock' = NoHandle
  /\ noSync' = FALSE

-----------------------------------------------------------------------------
(***************************************************************************)
(* Transactions of a live Store.  TxBegin enters db.Update and assigns     *)
(* db.NoSync; TxEnd runs the writes and commits or rolls back.             *)
(***************************************************************************)
\* Mutant: a request for relaxed durability stays on for later transactions.
TxBeginSticky(s, ops, batch, relaxed) ==
  /\ store[s].pc = "live"
  /\ lock = store[s].h
  /\ ~InTx(store[s].h)
  /\ batch \/ Len(ops) = 1
  /\ noSync' = (noSync \/ relaxed)
  /\ store' = [store EXCEPT ![s].pc = "tx",
                            ![s].tx = [ops |-> ops, batch |-> batch,
                                       relaxed |-> relaxed]]
  /\ UNCHANGED <<dbs, lock, opened, log, promised, crashes>>

TxBegin(s, ops, batch, relaxed) ==
  /\ store[s].pc = "live"
  /\ lock = store[s].h
  /\ ~InTx(store[s].h)
  /\ batch \/ Len(ops) = 1
  /\ noSync' = relaxed
  /\ store' = [store EXCEPT ![s].pc = "tx",
                            ![s].tx = [ops |-> ops, batch |-> batch,
                                       relaxed |-> relaxed]]
  /\ UNCHANGED <<dbs, lock, opened, log, promised, crashes>>

TxEnd(s) ==
  LET tx == store[s].tx
  IN  /\ store[s].pc = "tx"
      /\ HasBucket(s)
      /\ \/ Aborts(Bucket(s), tx) /\ UNCHANGED <<log, promised>>
         \/ /\ ~Aborts(Bucket(s), tx)
            /\ Commit(Put(Now.colls, CollOf[s], ApplyBatch(Bucket(s), tx.ops)),
                      tx.relaxed)
      /\ store' = [store EXCEPT ![s].pc = "live", ![s].tx = NoTx]
      /\ UNCHANGED <<dbs, lock, opened, noSync, crashes>>

\* A transaction on a collection without bucket dereferences nil, and a Drop
\* that cannot make its bucket again panics: the process ends.
Panics(s) ==
  /\ \/ store[s].pc = "tx" /\ ~HasBucket(s)
     \/ store[s].pc = "recreate" /\ lock # store[s].h
  /\ Restart
  /\ UNCHANGED <<opened, log, promised, crashes>>

\* Mutant: the bucket is deleted and not made again.
DropRecreateSkipped(s) ==
  /\ store[s].pc = "recreate"
  /\ store' = [store EXCEPT ![s].pc = "live", ![s].tx = NoTx]
  /\ UNCHANGED <<dbs, lock, opened, noSync, log, promised, crashes>>

\* Drop: one transaction deletes the bucket, a second one makes it again, with
\* the durability of the same context.
DropDelete(s, relaxed) ==
  /\ store[s].pc = "live"
  /\ lock = store[s].h
  /\ ~InTx(store[s].h)
  /\ HasBucket(s)
  /\ noSync' = relaxed
  /\ LET snap == [colls |-> Without(Now.colls, CollOf[s]),
                  commits |-> Now.commits + 1]
     IN  /\ Now.commits < MaxCommits
         /\ log' = IF relaxed THEN Append(log, snap) ELSE <<snap>>
         /\ promised' = IF relaxed THEN promised ELSE snap.commits
  /\ store' = [store EXCEPT ![s].pc = "recreate", ![s].tx.relaxed = relaxed]
  /\ UNCHANGED <<dbs, lock, opened, crashes>>

DropRecreate(s) ==
  /\ store[s].pc = "recreate"
  /\ lock = store[s].h
  /\ ~InTx(store[s].h)
  /\ noSync' = store[s].tx.relaxed
  /\ LET snap == [colls |-> WithBucket(s), commits |-> Now.commits]
     IN  IF noSync' THEN log' = Append(log, snap) /\ promised' = promised
                    ELSE log' = <<snap>> /\ promised' = Now.commits
  /\ store' = [store EXCEPT ![s].pc = "live", ![s].tx = NoTx]
  /\ UNCHANGED <<dbs, lock, opened, crashes>>

-----------------------------------------------------------------------------
(***************************************************************************)
(* Close drops the reference; the last one evicts the entry, leaves the    *)
(* mutex and closes the handle.  A Store whose handle is not the cached    *)
(* one has been closed before.  New closes the Store it was making when    *)
(* createBucketIfNotExists fails.                                          *)
(***************************************************************************)
\* Mutant: the last Close evicts whatever handle is cached.
CloseEvicts(s) ==
  /\ store[s].pc \in {"live", "closed"}
  /\ store[s].closes < MaxCloses
  /\ store' = [store EXCEPT ![s].pc = "closing", ![s].closes = @ + 1]
  /\ dbs' = NoDB
  /\ UNCHANGED <<lock, opened, noSync, log, promised, crashes>>

Close(s) ==
  /\ \/ /\ store[s].pc \in {"live", "closed"}
        /\ store[s].closes < MaxCloses
        /\ store' = [store EXCEPT
             ![s].pc = IF dbs.db = store[s].h /\ dbs.refs <= 1 THEN "closing"
                       ELSE "closed",
             ![s].closes = @ + 1]
     \/ /\ store[s].pc = "bucket"
        /\ store' = [store EXCEPT
             ![s].pc = IF dbs.db = store[s].h /\ dbs.refs <= 1 THEN "closing"
                       ELSE "failed"]
  /\ dbs' = CASE dbs.db # store[s].h                    -> dbs
              [] dbs.db = store[s].h /\ dbs.refs > 1  -> [dbs EXCEPT !.refs = @ - 1]
              [] dbs.db = store[s].h /\ dbs.refs <= 1 -> NoDB
  /\ UNCHANGED <<lock, opened, noSync, log, promised, crashes>>

\* db.Close waits for the transactions and gives up the file lock.
CloseHandle(s) ==
  /\ store[s].pc = "closing"
  /\ ~InTx(store[s].h)
  /\ lock' = IF lock = store[s].h THEN NoHandle ELSE lock
  /\ store' = [store EXCEPT ![s].pc = "closed"]
  /\ UNCHANGED <<dbs, opened, noSync, log, promised, crashes>>

\* The process dies; the page cache survives it.
ProcessDies ==
  /\ crashes < MaxCrashes
  /\ crashes' = crashes + 1
  /\ Restart
  /\ UNCHANGED <<opened, log, promised>>

\* The machine loses power: what was not synced may be gone.
PowerLoss ==
  /\ crashes < MaxCrashes
  /\ crashes' = crashes + 1
  /\ \E i \in DOMAIN log : log' = <<log[i]>>
  /\ Restart
  /\ UNCHANGED <<opened, promised>>

-----------------------------------------------------------------------------
Init ==
  /\ store = [s \in Stores |-> Fresh]
  /\ dbs = NoDB
  /\ lock = NoHandle
  /\ opened = 0
  /\ noSync = FALSE
  /\ log = <<[colls |-> EmptyCollection, commits |-> 0]>>
  /\ promised = 0
  /\ crashes = 0

Step(s) ==
  \/ NewStart(s) \/ OpenSucceeds(s) \/ OpenTimesOut(s) \/ Register(s)
  \/ CreateBucket(s)
  \/ \E ops \in Batches, batch, relaxed \in BOOLEAN :
       TxBegin(s, ops, batch, relaxed)
  \/ TxEnd(s) \/ Panics(s)
  \/ \E relaxed \in BOOLEAN : DropDelete(s, relaxed)
  \/ DropRecreate(s)
  \/ Close(s) \/ CloseHandle(s)

Next == (\E s \in Stores : Step(s)) \/ ProcessDies \/ PowerLoss

Spec == Init /\ [][Next]_vars

-----------------------------------------------------------------------------
(***************************************************************************)
(* Close keeps siblings working, as long as nobody closes a Store twice:   *)
(* the handle of every Store in use is open and cached, and the references *)
(* of the cached handle are exactly its users.                             *)
(***************************************************************************)
InUse(s) == store[s].pc \in {"bucket", "live", "tx", "recreate"}

SiblingsKeepWorking ==
  (\A s \in Stores : store[s].closes <= 1) =>
    /\ \A s \in Stores : InUse(s) => lock = store[s].h /\ dbs.db = store[s].h
    /\ dbs # NoDB => dbs.refs = Cardinality({s \in Stores : InUse(s)})

(***************************************************************************)
(* "Its commit fsyncs everything before it": whatever a power loss brings  *)
(* back includes every commit up to the last one that was requested        *)
(* synced, however relaxed commits of sibling Stores are mixed with it.    *)
(***************************************************************************)
SyncedSurvives == \A i \in DOMAIN log : log[i].commits >= promised

(***************************************************************************)
(* A Store that New returned finds its bucket, after any crash, except     *)
(* between the two transactions of a Drop on its collection.               *)
(***************************************************************************)
BucketThere ==
  \A s \in Stores :
    (store[s].pc \in {"live", "tx"} /\ ~HasBucket(s)) =>
      \E t \in Stores : store[t].pc = "recreate" /\ CollOf[t] = CollOf[s]

\* Neither a sibling's Close nor its Drop takes a Store out of service.
StoresKeepWorking == SiblingsKeepWorking /\ BucketThere
=============================================================================
