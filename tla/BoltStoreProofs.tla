-------------------------- MODULE BoltStoreProofs ---------------------------
(***************************************************************************)
(* Proofs about BoltStore.                                                 *)
(***************************************************************************)
EXTENDS BoltStore, FiniteSetTheorems, TLAPS

Tx == [ops : Batches \cup {<<>>}, batch : BOOLEAN, relaxed : BOOLEAN]
Phases == {"none", "open", "opened", "bucket", "live", "tx", "recreate", "closing",
           "closed", "failed"}
StoreState == [pc : Phases, h : Nat, closes : Nat, tx : Tx]

BoltTypeOK ==
  /\ store \in [Stores -> StoreState]
  /\ dbs \in [db : Nat, refs : Nat]
  /\ lock \in Nat /\ opened \in Nat /\ noSync \in BOOLEAN

(***************************************************************************)
(* Handles.  A handle that was opened and is not cached yet is nobody      *)
(* else's; a transaction keeps its handle open and its own durability set. *)
(***************************************************************************)
HandlesInv ==
  /\ dbs.db <= opened /\ (dbs # NoDB => dbs.db # NoHandle)
  /\ \A s \in Stores :
       /\ store[s].h <= opened
       /\ InUse(s) \/ store[s].pc \in {"closing", "closed"} => store[s].h # NoHandle
       /\ store[s].pc = "opened" =>
            /\ lock = store[s].h /\ store[s].h # NoHandle /\ dbs.db # store[s].h
            /\ \A t \in Stores \ {s} : store[t].h # store[s].h
       /\ store[s].pc = "tx" => lock = store[s].h /\ noSync = store[s].tx.relaxed

(***************************************************************************)
(* While nobody closes a Store twice, the cached handle holds the lock, or *)
(* exactly one Store is about to give the lock up.                         *)
(***************************************************************************)
ClosedOnce == \A s \in Stores : store[s].closes <= 1

Users == {s \in Stores : InUse(s)}

Sharing ==
  /\ \A s \in Stores : InUse(s) => lock = store[s].h /\ dbs.db = store[s].h
  /\ dbs # NoDB => lock = dbs.db /\ dbs.refs = Cardinality(Users)
  /\ \A s \in Stores : store[s].pc = "closing" =>
       /\ lock = store[s].h /\ store[s].h # NoHandle /\ dbs = NoDB
       /\ \A t \in Stores \ {s} : store[t].pc # "closing"
  /\ \A s \in Stores : store[s].pc = "closed" /\ store[s].closes = 0 =>
       store[s].h # dbs.db

SharingInv == ClosedOnce => Sharing

-----------------------------------------------------------------------------
(***************************************************************************)
(* Types.                                                                  *)
(***************************************************************************)
LEMMA FreshType == Fresh \in StoreState /\ NoDB \in [db : Nat, refs : Nat]
  BY DEF Fresh, StoreState, Phases, Tx, NoTx, NoDB, NoHandle

\* New and Close.
LEMMA OpenCloseType ==
  ASSUME BoltTypeOK, NEW s \in Stores,
         \/ NewStart(s) \/ OpenSucceeds(s) \/ OpenTimesOut(s) \/ Register(s)
         \/ CreateBucket(s) \/ Close(s) \/ CloseHandle(s)
  PROVE  BoltTypeOK'
  <1> USE DEF BoltTypeOK, StoreState, Phases
  <1>1. CASE NewStart(s)
    BY <1>1 DEF NewStart
  <1>2. CASE OpenSucceeds(s)
    <2>1. PICK n \in Nat : n = opened + 1
      OBVIOUS
    <2>2. store' = [store EXCEPT ![s].pc = "opened", ![s].h = n]
      BY <1>2, <2>1 DEF OpenSucceeds
    <2>3. store' \in [Stores -> StoreState]
      BY <2>2
    <2> QED BY <1>2, <2>3 DEF OpenSucceeds
  <1>3. CASE OpenTimesOut(s)
    BY <1>3 DEF OpenTimesOut
  <1>4. CASE Register(s)
    <2> DEFINE cached == IF dbs = NoDB THEN [db |-> store[s].h, refs |-> 0] ELSE dbs
    <2>1. cached \in [db : Nat, refs : Nat]
      OBVIOUS
    <2>2. /\ dbs' = [cached EXCEPT !.refs = @ + 1]
          /\ lock' = IF dbs = NoDB THEN lock ELSE NoHandle
          /\ store' = [store EXCEPT ![s].pc = "bucket", ![s].h = cached.db]
          /\ UNCHANGED <<opened, noSync>>
      BY <1>4 DEF Register
    <2> HIDE DEF cached
    <2>3. store' \in [Stores -> StoreState]
      BY <2>1, <2>2
    <2>4. dbs' \in [db : Nat, refs : Nat]
      BY <2>1, <2>2
    <2> QED BY <2>2, <2>3, <2>4 DEF NoHandle
  <1>5. CASE CreateBucket(s)
    BY <1>5 DEF CreateBucket
  <1>6. CASE Close(s)
    BY <1>6, FreshType DEF Close
  <1>7. CASE CloseHandle(s)
    BY <1>7 DEF CloseHandle, NoHandle
  <1> QED BY <1>1, <1>2, <1>3, <1>4, <1>5, <1>6, <1>7

\* A Store that changes its phase and its transaction.
LEMMA StoreMoves ==
  ASSUME store \in [Stores -> StoreState], NEW s \in Stores,
         NEW pc \in Phases, NEW tx \in Tx,
         store' = [store EXCEPT ![s].pc = pc, ![s].tx = tx]
  PROVE  store' \in [Stores -> StoreState]
  <1>1. PICK x : x = [store[s] EXCEPT !.pc = pc, !.tx = tx]
    OBVIOUS
  <1>2. store[s] \in StoreState
    OBVIOUS
  <1>3. x \in StoreState
    BY <1>1, <1>2 DEF StoreState
  <1>4. store' = [store EXCEPT ![s] = x]
    BY <1>1
  <1> QED BY <1>3, <1>4

\* Transactions and Drop.
LEMMA TxType ==
  ASSUME BoltTypeOK, NEW s \in Stores,
         \/ \E ops \in Batches, batch, relaxed \in BOOLEAN : TxBegin(s, ops, batch, relaxed)
         \/ TxEnd(s) \/ DropRecreate(s)
         \/ \E relaxed \in BOOLEAN : DropDelete(s, relaxed)
  PROVE  BoltTypeOK'
  <1>1. /\ {"live", "tx", "recreate"} \subseteq Phases
        /\ NoTx \in Tx /\ store[s].tx \in Tx /\ store[s] \in StoreState
    BY DEF Phases, NoTx, Tx, BoltTypeOK, StoreState
  <1>2. ASSUME NEW pc \in Phases, NEW tx \in Tx,
               store' = [store EXCEPT ![s].pc = pc, ![s].tx = tx],
               UNCHANGED <<dbs, lock, opened>>, noSync' \in BOOLEAN
        PROVE  BoltTypeOK'
    <2>1. store \in [Stores -> StoreState]
      BY DEF BoltTypeOK
    <2>2. store' \in [Stores -> StoreState]
      BY <1>2, <2>1, StoreMoves
    <2> QED BY <1>2, <2>2 DEF BoltTypeOK
  <1>3. ASSUME NEW ops \in Batches, NEW batch \in BOOLEAN, NEW relaxed \in BOOLEAN,
               TxBegin(s, ops, batch, relaxed)
        PROVE  BoltTypeOK'
    <2>1. PICK tx : tx = [ops |-> ops, batch |-> batch, relaxed |-> relaxed]
      OBVIOUS
    <2>2. tx \in Tx
      BY <2>1 DEF Tx
    <2>3. /\ store' = [store EXCEPT ![s].pc = "tx", ![s].tx = tx]
          /\ UNCHANGED <<dbs, lock, opened>> /\ noSync' \in BOOLEAN
      BY <1>3, <2>1 DEF TxBegin
    <2> QED BY <1>1, <1>2, <2>2, <2>3
  <1>4. CASE TxEnd(s)
    <2>1. /\ store' = [store EXCEPT ![s].pc = "live", ![s].tx = NoTx]
          /\ UNCHANGED <<dbs, lock, opened, noSync>>
      BY <1>4 DEF TxEnd
    <2> QED BY <1>1, <1>2, <2>1 DEF BoltTypeOK
  <1>5. CASE DropRecreate(s)
    <2>1. /\ store' = [store EXCEPT ![s].pc = "live", ![s].tx = NoTx]
          /\ UNCHANGED <<dbs, lock, opened>> /\ noSync' = store[s].tx.relaxed
      BY <1>5 DEF DropRecreate
    <2>2. store[s].tx.relaxed \in BOOLEAN
      BY <1>1 DEF Tx
    <2> QED BY <1>1, <1>2, <2>1, <2>2
  <1>6. ASSUME NEW relaxed \in BOOLEAN, DropDelete(s, relaxed)
        PROVE  BoltTypeOK'
    <2>1. PICK tx : tx = [store[s].tx EXCEPT !.relaxed = relaxed]
      OBVIOUS
    <2>2. tx \in Tx
      BY <1>1, <2>1 DEF Tx
    <2>3. /\ store' = [store EXCEPT ![s].pc = "recreate", ![s].tx.relaxed = relaxed]
          /\ UNCHANGED <<dbs, lock, opened>> /\ noSync' \in BOOLEAN
      BY <1>6 DEF DropDelete
    <2>4. store' = [store EXCEPT ![s].pc = "recreate", ![s].tx = tx]
      BY <1>1, <2>1, <2>3 DEF StoreState
    <2> QED BY <1>1, <1>2, <2>2, <2>3, <2>4
  <1> QED BY <1>3, <1>4, <1>5, <1>6

\* A crash leaves every Store to be made again.
LEMMA RestartType == BoltTypeOK /\ Restart /\ UNCHANGED opened => BoltTypeOK'
  <1> SUFFICES ASSUME BoltTypeOK, Restart, UNCHANGED opened PROVE BoltTypeOK'
    OBVIOUS
  <1>1. store' \in [Stores -> StoreState]
    BY FreshType DEF Restart
  <1> QED BY <1>1, FreshType DEF BoltTypeOK, Restart, NoHandle

LEMMA BoltInitType == Init => BoltTypeOK
  <1> SUFFICES ASSUME Init PROVE BoltTypeOK
    OBVIOUS
  <1>1. store \in [Stores -> StoreState]
    BY FreshType DEF Init
  <1> QED BY <1>1, FreshType DEF BoltTypeOK, Init, NoHandle

-----------------------------------------------------------------------------
(***************************************************************************)
(* Handles and references.                                                 *)
(***************************************************************************)
HandleFacts == BoltTypeOK /\ HandlesInv /\ SharingInv

\* One Store goes on; the others stay as they are.
Moved(s, pc, h, closes) ==
  /\ store'[s].pc = pc /\ store'[s].h = h /\ store'[s].closes = closes
  /\ \A t \in Stores \ {s} : store'[t] = store[t]

LEMMA NoDBIs == NoDB.db = 0 /\ NoDB.refs = 0 /\ NoHandle = 0
  BY DEF NoDB, NoHandle

LEMMA UsersFinite == IsFiniteSet(Users) /\ Cardinality(Users) \in Nat
  <1>1. Users \subseteq Stores
    BY DEF Users
  <1> QED BY <1>1, BoltAssumption, FS_Subset, FS_CardinalityType

\* New counts itself as a user of the cached handle.
LEMMA NewStartKeepsHandles ==
  ASSUME HandleFacts, BoltTypeOK', NEW s \in Stores, NewStart(s)
  PROVE  HandlesInv' /\ SharingInv'
  <1> USE NoDBIs
  <1>1. CASE dbs = NoDB
    <2>1. /\ Moved(s, "open", store[s].h, store[s].closes)
          /\ store[s].pc = "none"
          /\ UNCHANGED <<dbs, lock, opened, noSync>>
      BY <1>1 DEF NewStart, HandleFacts, BoltTypeOK, StoreState, Moved
    <2>2. HandlesInv'
      BY <2>1 DEF HandleFacts, HandlesInv, Moved, InUse
    <2>3. Users' = Users
      BY <2>1 DEF Users, InUse, Moved
    <2>4. SharingInv'
      BY <2>1, <2>3 DEF HandleFacts, SharingInv, ClosedOnce, Sharing, Moved, InUse
    <2> QED BY <2>2, <2>4
  <1>2. CASE dbs # NoDB
    <2>1. /\ Moved(s, "bucket", dbs.db, store[s].closes)
          /\ store[s].pc = "none"
          /\ dbs'.db = dbs.db /\ dbs'.refs = dbs.refs + 1
          /\ UNCHANGED <<lock, opened, noSync>>
      BY <1>2 DEF NewStart, HandleFacts, BoltTypeOK, StoreState, Moved
    <2>2. HandlesInv'
      BY <1>2, <2>1 DEF HandleFacts, HandlesInv, Moved, InUse
    <2>3. Users' = Users \cup {s} /\ s \notin Users
      BY <2>1 DEF Users, InUse, Moved
    <2>4. Cardinality(Users') = Cardinality(Users) + 1
      BY <2>3, UsersFinite, FS_AddElement
    <2>5. SharingInv'
      BY <1>2, <2>1, <2>4 DEF HandleFacts, SharingInv, ClosedOnce, Sharing, Moved, InUse,
                              HandlesInv
    <2> QED BY <2>2, <2>5
  <1> QED BY <1>1, <1>2

\* A handle is opened only when no other one is open.
LEMMA OpenKeepsHandles ==
  ASSUME HandleFacts, BoltTypeOK', NEW s \in Stores, OpenSucceeds(s) \/ OpenTimesOut(s)
  PROVE  HandlesInv' /\ SharingInv'
  <1> USE NoDBIs
  <1>1. CASE OpenSucceeds(s)
    <2>1. /\ Moved(s, "opened", opened + 1, store[s].closes)
          /\ store[s].pc = "open" /\ lock = 0 /\ lock' = opened + 1 /\ opened' = opened + 1
          /\ UNCHANGED dbs
      BY <1>1 DEF OpenSucceeds, HandleFacts, BoltTypeOK, StoreState, Moved
    <2>2. HandlesInv'
      BY <2>1 DEF HandleFacts, HandlesInv, Moved, InUse, BoltTypeOK, StoreState
    <2>3. Users' = Users
      BY <2>1 DEF Users, InUse, Moved
    <2>4. SharingInv'
      BY <2>1, <2>3 DEF HandleFacts, SharingInv, ClosedOnce, Sharing, Moved, InUse, HandlesInv,
                        BoltTypeOK
    <2> QED BY <2>2, <2>4
  <1>2. CASE OpenTimesOut(s)
    <2>1. /\ Moved(s, "failed", store[s].h, store[s].closes)
          /\ store[s].pc = "open"
          /\ UNCHANGED <<dbs, lock, opened, noSync>>
      BY <1>2 DEF OpenTimesOut, HandleFacts, BoltTypeOK, StoreState, Moved
    <2>2. HandlesInv'
      BY <2>1 DEF HandleFacts, HandlesInv, Moved, InUse
    <2>3. Users' = Users
      BY <2>1 DEF Users, InUse, Moved
    <2>4. SharingInv'
      BY <2>1, <2>3 DEF HandleFacts, SharingInv, ClosedOnce, Sharing, Moved, InUse
    <2> QED BY <2>2, <2>4
  <1> QED BY <1>1, <1>2

\* The handle is cached with one user, or closed and the cached one used.
LEMMA RegisterKeepsHandles ==
  ASSUME HandleFacts, BoltTypeOK', NEW s \in Stores, Register(s)
  PROVE  HandlesInv' /\ SharingInv'
  <1> USE NoDBIs
  <1>1. CASE dbs = NoDB
    <2>1. /\ Moved(s, "bucket", store[s].h, store[s].closes)
          /\ store[s].pc = "opened"
          /\ dbs'.db = store[s].h /\ dbs'.refs = 1
          /\ UNCHANGED <<lock, opened, noSync>>
      BY <1>1 DEF Register, HandleFacts, BoltTypeOK, StoreState, Moved
    <2>2. HandlesInv'
      BY <2>1 DEF HandleFacts, HandlesInv, Moved, InUse
    <2>3. ClosedOnce => Users' = {s}
      BY <2>1 DEF Users, InUse, Moved, HandleFacts, SharingInv, Sharing, HandlesInv
    <2>4. Cardinality({s}) = 1
      BY FS_Singleton
    <2>5. ClosedOnce' => ClosedOnce
      BY <2>1 DEF ClosedOnce, Moved
    <2>6. SharingInv'
      <3> SUFFICES ASSUME ClosedOnce' PROVE Sharing'
        BY DEF SharingInv
      <3>1. Sharing /\ Users' = {s} /\ HandlesInv
        BY <2>3, <2>5 DEF HandleFacts, SharingInv
      <3>2. lock' = store[s].h /\ lock' = dbs'.db /\ dbs'.refs = 1
        BY <2>1, <3>1 DEF HandlesInv
      <3>3. \A t \in Stores : InUse(t)' => t = s
        BY <3>1 DEF Users
      <3>4. \A t \in Stores : t # s => store'[t] = store[t] /\ store[t].h # store[s].h
        BY <2>1, <3>1 DEF Moved, HandlesInv
      <3>5. store'[s].pc = "bucket" /\ store'[s].h = store[s].h
        BY <2>1 DEF Moved
      <3>6. \A t \in Stores : InUse(t)' => lock' = store'[t].h /\ dbs'.db = store'[t].h
        BY <3>2, <3>3, <3>5
      <3>7. lock' = dbs'.db /\ dbs'.refs = Cardinality(Users')
        BY <2>4, <3>1, <3>2
      <3>8. \A t \in Stores : store'[t].pc # "closing"
        <4>1. ASSUME NEW t \in Stores, t # s, store[t].pc = "closing" PROVE FALSE
          BY <3>1, <3>4, <4>1, <2>1 DEF Sharing, HandlesInv
        <4> QED BY <3>4, <3>5, <4>1
      <3>9. \A t \in Stores : store'[t].pc = "closed" => store'[t].h # dbs'.db
        BY <3>2, <3>4, <3>5
      <3> QED BY <3>6, <3>7, <3>8, <3>9 DEF Sharing
    <2> QED BY <2>2, <2>6
  <1>2. CASE dbs # NoDB
    <2>1. /\ Moved(s, "bucket", dbs.db, store[s].closes)
          /\ store[s].pc = "opened"
          /\ dbs'.db = dbs.db /\ lock' = 0
          /\ UNCHANGED <<opened, noSync>>
      BY <1>2 DEF Register, HandleFacts, BoltTypeOK, StoreState, Moved
    <2>2. HandlesInv'
      BY <1>2, <2>1 DEF HandleFacts, HandlesInv, Moved, InUse
    <2>3. ~ClosedOnce'
      BY <1>2, <2>1 DEF HandleFacts, SharingInv, ClosedOnce, Sharing, Moved, HandlesInv
    <2> QED BY <2>2, <2>3 DEF SharingInv
  <1> QED BY <1>1, <1>2

\* A Store in use that stays in use, with the same handle.
LEMMA UsingKeepsHandles ==
  ASSUME HandleFacts, BoltTypeOK', NEW s \in Stores,
         NEW pc \in {"live", "tx", "recreate"},
         Moved(s, pc, store[s].h, store[s].closes), InUse(s),
         UNCHANGED <<dbs, lock, opened>>,
         \/ noSync' = noSync
         \/ lock = store[s].h /\ ~InTx(store[s].h),
         pc = "tx" => lock = store[s].h /\ noSync' = store'[s].tx.relaxed
  PROVE  HandlesInv' /\ SharingInv'
  <1>1. HandlesInv'
    BY DEF HandleFacts, HandlesInv, Moved, InUse, InTx
  <1>2. Users' = Users
    BY DEF Users, InUse, Moved
  <1>3. SharingInv'
    BY <1>2 DEF HandleFacts, SharingInv, ClosedOnce, Sharing, Moved, InUse
  <1> QED BY <1>1, <1>3

\* The transactions of a Store in use.
LEMMA TxKeepsHandles ==
  ASSUME HandleFacts, BoltTypeOK', NEW s \in Stores,
         \/ CreateBucket(s) \/ TxEnd(s) \/ DropRecreate(s)
         \/ \E ops \in Batches, batch, relaxed \in BOOLEAN : TxBegin(s, ops, batch, relaxed)
         \/ \E relaxed \in BOOLEAN : DropDelete(s, relaxed)
  PROVE  HandlesInv' /\ SharingInv'
  <1> USE DEF HandleFacts, BoltTypeOK, StoreState
  <1>1. CASE CreateBucket(s)
    <2>1. /\ Moved(s, "live", store[s].h, store[s].closes) /\ InUse(s)
          /\ lock = store[s].h /\ ~InTx(store[s].h) /\ UNCHANGED <<dbs, lock, opened>>
      BY <1>1 DEF CreateBucket, Moved, InUse
    <2> HIDE DEF HandleFacts, BoltTypeOK
    <2> QED BY <2>1, UsingKeepsHandles
  <1>2. CASE TxEnd(s)
    <2>1. /\ Moved(s, "live", store[s].h, store[s].closes) /\ InUse(s)
          /\ UNCHANGED <<dbs, lock, opened, noSync>>
      BY <1>2 DEF TxEnd, Moved, InUse
    <2> HIDE DEF HandleFacts, BoltTypeOK
    <2> QED BY <2>1, UsingKeepsHandles
  <1>3. CASE DropRecreate(s)
    <2>1. /\ Moved(s, "live", store[s].h, store[s].closes) /\ InUse(s)
          /\ lock = store[s].h /\ ~InTx(store[s].h) /\ UNCHANGED <<dbs, lock, opened>>
      BY <1>3 DEF DropRecreate, Moved, InUse
    <2> HIDE DEF HandleFacts, BoltTypeOK
    <2> QED BY <2>1, UsingKeepsHandles
  <1>4. ASSUME NEW ops \in Batches, NEW batch \in BOOLEAN, NEW relaxed \in BOOLEAN,
               TxBegin(s, ops, batch, relaxed)
        PROVE  HandlesInv' /\ SharingInv'
    <2> DEFINE tx == [ops |-> ops, batch |-> batch, relaxed |-> relaxed]
    <2>1. store' = [store EXCEPT ![s].pc = "tx", ![s].tx = tx] /\ tx.relaxed = relaxed
      BY <1>4 DEF TxBegin
    <2> HIDE DEF tx
    <2>2. Moved(s, "tx", store[s].h, store[s].closes) /\ store'[s].tx = tx
      BY <2>1 DEF Moved
    <2>4. InUse(s)
      BY <1>4 DEF TxBegin, InUse
    <2>3. /\ lock = store[s].h /\ ~InTx(store[s].h) /\ UNCHANGED <<dbs, lock, opened>>
          /\ noSync' = relaxed
      BY <1>4 DEF TxBegin
    <2> HIDE DEF HandleFacts, BoltTypeOK
    <2> QED BY <2>1, <2>2, <2>3, <2>4, UsingKeepsHandles
  <1>5. ASSUME NEW relaxed \in BOOLEAN, DropDelete(s, relaxed)
        PROVE  HandlesInv' /\ SharingInv'
    <2> DEFINE tx == [store[s].tx EXCEPT !.relaxed = relaxed]
    <2>1. store' = [store EXCEPT ![s].pc = "recreate", ![s].tx = tx]
      BY <1>5 DEF DropDelete
    <2> HIDE DEF tx
    <2>2. Moved(s, "recreate", store[s].h, store[s].closes)
      BY <2>1 DEF Moved
    <2>4. InUse(s)
      BY <1>5 DEF DropDelete, InUse
    <2>3. lock = store[s].h /\ ~InTx(store[s].h) /\ UNCHANGED <<dbs, lock, opened>>
      BY <1>5 DEF DropDelete
    <2> HIDE DEF HandleFacts, BoltTypeOK
    <2> QED BY <2>2, <2>3, <2>4, UsingKeepsHandles
  <1> QED BY <1>1, <1>2, <1>3, <1>4, <1>5

\* Close drops one reference: its own, unless the Store was closed before.
LEMMA CloseKeepsHandles ==
  ASSUME HandleFacts, BoltTypeOK', NEW s \in Stores, Close(s)
  PROVE  HandlesInv' /\ SharingInv'
  <1> USE NoDBIs
  <1> DEFINE last == dbs.db = store[s].h /\ dbs.refs <= 1
             counted == IF store[s].pc = "bucket" THEN store[s].closes ELSE store[s].closes + 1
             left == IF last THEN "closing"
                     ELSE IF store[s].pc = "bucket" THEN "failed" ELSE "closed"
  <1>1. /\ Moved(s, left, store[s].h, counted)
        /\ store[s].pc \in {"live", "closed", "bucket"}
        /\ UNCHANGED <<lock, opened, noSync>>
    BY DEF Close, HandleFacts, BoltTypeOK, StoreState, Moved
  <1>2. /\ dbs.db # store[s].h => dbs' = dbs
        /\ dbs.db = store[s].h /\ dbs.refs > 1 =>
             dbs'.db = dbs.db /\ dbs'.refs = dbs.refs - 1
        /\ last => dbs' = NoDB
    BY DEF Close, HandleFacts, BoltTypeOK
  <1>3. dbs.refs \in Nat /\ (last \/ dbs.db # store[s].h \/ dbs.refs > 1)
    BY DEF HandleFacts, BoltTypeOK
  <1>4. HandlesInv'
    BY <1>1, <1>2, <1>3 DEF HandleFacts, HandlesInv, Moved, InUse, BoltTypeOK
  <1>5. ClosedOnce' => SharingInv'
    <2> SUFFICES ASSUME ClosedOnce' PROVE Sharing'
      BY DEF SharingInv
    <2>1. Sharing
      BY <1>1 DEF HandleFacts, SharingInv, ClosedOnce, Moved, BoltTypeOK, StoreState
    <2>2. CASE store[s].pc = "closed"
      <3>1. store[s].closes = 0
        BY <1>1, <2>2 DEF ClosedOnce, Moved, HandleFacts, BoltTypeOK, StoreState
      <3>2. dbs.db # store[s].h /\ dbs' = dbs /\ left = "closed"
        BY <1>2, <2>1, <2>2, <3>1 DEF Sharing
      <3>3. Users' = Users
        BY <1>1, <2>2, <3>2 DEF Users, InUse, Moved
      <3> QED BY <1>1, <2>1, <2>2, <3>1, <3>2, <3>3 DEF Sharing, Moved, InUse
    <2>3. CASE store[s].pc # "closed"
      <3>1. InUse(s) /\ dbs.db = store[s].h /\ lock = store[s].h /\ store[s].h # 0
        BY <1>1, <2>1, <2>3 DEF Sharing, InUse, HandleFacts, HandlesInv
      <3>2. dbs # NoDB /\ dbs.refs = Cardinality(Users)
        BY <2>1, <3>1 DEF Sharing
      <3>3. Users' = Users \ {s} /\ s \in Users
        BY <1>1, <3>1 DEF Users, InUse, Moved
      <3>4. Cardinality(Users') = Cardinality(Users) - 1 /\ IsFiniteSet(Users')
        BY <3>3, UsersFinite, FS_RemoveElement
      <3>5. CASE last
        <4>1. Cardinality(Users') = 0
          BY <3>2, <3>4, <3>5, UsersFinite, FS_CardinalityType
        <4>2. Users' = {}
          BY <4>1, <3>4, FS_EmptySet
        <4>3. \A t \in Stores : ~InUse(t)'
          BY <4>2 DEF Users
        <4>4. dbs' = NoDB /\ lock' = lock /\ Moved(s, "closing", store[s].h, counted)
          BY <1>1, <1>2, <3>5
        <4> HIDE DEF last, counted, left
        <4>5. \A t \in Stores \ {s} : store[t].pc # "closing"
          BY <2>1, <3>2 DEF Sharing
        <4>6. \A t \in Stores : store'[t].pc = "closing" => t = s
          BY <4>4, <4>5 DEF Moved
        <4>7. store'[s].pc = "closing" /\ store'[s].h = store[s].h
          BY <4>4 DEF Moved
        <4>8. \A t \in Stores : store'[t].pc = "closed" /\ store'[t].closes = 0 =>
                store'[t].h # 0
          BY <4>4, <4>7 DEF Moved, HandleFacts, HandlesInv
        <4> QED BY <3>1, <4>3, <4>4, <4>6, <4>7, <4>8 DEF Sharing
      <3>6. CASE ~last
        <4>1. /\ dbs'.db = dbs.db /\ dbs'.refs = Cardinality(Users')
              /\ lock' = lock /\ Moved(s, left, store[s].h, counted)
              /\ left \in {"failed", "closed"}
              /\ left = "closed" => counted = store[s].closes + 1
          BY <1>1, <1>2, <1>3, <2>3, <3>1, <3>2, <3>4, <3>6
        <4> HIDE DEF last, counted, left
        <4>2. store[s].closes \in Nat
          BY DEF HandleFacts, BoltTypeOK, StoreState
        <4>3. \A t \in Stores : InUse(t)' => InUse(t) /\ t # s
          BY <4>1 DEF InUse, Moved
        <4> QED BY <2>1, <3>1, <3>2, <4>1, <4>2, <4>3 DEF Sharing, Moved
      <3> QED BY <3>5, <3>6
    <2> QED BY <2>2, <2>3
  <1> QED BY <1>4, <1>5 DEF SharingInv

\* The last user gives the file lock up.
LEMMA CloseHandleKeepsHandles ==
  ASSUME HandleFacts, BoltTypeOK', NEW s \in Stores, CloseHandle(s)
  PROVE  HandlesInv' /\ SharingInv'
  <1> USE NoDBIs
  <1>1. /\ Moved(s, "closed", store[s].h, store[s].closes)
        /\ store[s].pc = "closing" /\ ~InTx(store[s].h)
        /\ lock' = (IF lock = store[s].h THEN 0 ELSE lock)
        /\ UNCHANGED <<dbs, opened, noSync>>
    BY DEF CloseHandle, HandleFacts, BoltTypeOK, StoreState, Moved
  <1>2. HandlesInv'
    BY <1>1 DEF HandleFacts, HandlesInv, Moved, InUse, InTx
  <1>3. Users' = Users
    BY <1>1 DEF Users, InUse, Moved
  <1>4. SharingInv'
    BY <1>1, <1>3 DEF HandleFacts, SharingInv, ClosedOnce, Sharing, Moved, InUse, HandlesInv
  <1> QED BY <1>2, <1>4

\* Nothing is held or cached after a crash.
LEMMA RestartKeepsHandles ==
  ASSUME HandleFacts, Restart, opened' = opened
  PROVE  HandlesInv' /\ SharingInv'
  <1> USE NoDBIs
  <1>1. /\ \A s \in Stores : store'[s].pc = "none" /\ store'[s].h = 0
        /\ dbs' = NoDB
    BY DEF Restart, Fresh
  <1>2. HandlesInv'
    BY <1>1 DEF HandleFacts, BoltTypeOK, HandlesInv, InUse
  <1>3. SharingInv'
    BY <1>1 DEF SharingInv, Sharing, InUse
  <1> QED BY <1>2, <1>3

LEMMA InitHandles == Init => HandleFacts
  <1> SUFFICES ASSUME Init PROVE HandlesInv /\ SharingInv
    BY BoltInitType DEF HandleFacts
  <1> USE NoDBIs
  <1>1. /\ \A s \in Stores : store[s].pc = "none" /\ store[s].h = 0
        /\ dbs = NoDB /\ opened = 0
    BY DEF Init, Fresh
  <1>2. HandlesInv
    BY <1>1 DEF HandlesInv, InUse
  <1>3. SharingInv
    BY <1>1 DEF SharingInv, Sharing, InUse
  <1> QED BY <1>2, <1>3

LEMMA HandlesInvariance == Spec => []HandleFacts
  <1>1. HandleFacts /\ [Next]_vars => HandleFacts'
    <2> SUFFICES ASSUME HandleFacts, [Next]_vars PROVE HandleFacts'
      OBVIOUS
    <2>0. BoltTypeOK
      BY DEF HandleFacts
    <2>1. ASSUME NEW s \in Stores, Step(s) PROVE HandleFacts'
      <3>1. CASE NewStart(s)
        BY <2>0, <3>1, OpenCloseType, NewStartKeepsHandles DEF HandleFacts
      <3>2. CASE OpenSucceeds(s) \/ OpenTimesOut(s)
        BY <2>0, <3>2, OpenCloseType, OpenKeepsHandles DEF HandleFacts
      <3>3. CASE Register(s)
        BY <2>0, <3>3, OpenCloseType, RegisterKeepsHandles DEF HandleFacts
      <3>4. CASE CreateBucket(s)
        BY <2>0, <3>4, OpenCloseType, TxKeepsHandles DEF HandleFacts
      <3>5. CASE \/ \E ops \in Batches, batch, relaxed \in BOOLEAN :
                      TxBegin(s, ops, batch, relaxed)
                 \/ TxEnd(s) \/ DropRecreate(s)
                 \/ \E relaxed \in BOOLEAN : DropDelete(s, relaxed)
        BY <2>0, <3>5, TxType, TxKeepsHandles DEF HandleFacts
      <3>6. CASE Panics(s)
        BY <2>0, <3>6, RestartType, RestartKeepsHandles DEF HandleFacts, Panics
      <3>7. CASE Close(s)
        BY <2>0, <3>7, OpenCloseType, CloseKeepsHandles DEF HandleFacts
      <3>8. CASE CloseHandle(s)
        BY <2>0, <3>8, OpenCloseType, CloseHandleKeepsHandles DEF HandleFacts
      <3> QED BY <2>1, <3>1, <3>2, <3>3, <3>4, <3>5, <3>6, <3>7, <3>8 DEF Step
    <2>2. CASE ProcessDies \/ PowerLoss
      BY <2>0, <2>2, RestartType, RestartKeepsHandles DEF HandleFacts, ProcessDies, PowerLoss
    <2>3. CASE UNCHANGED vars
      BY <2>3 DEF vars, HandleFacts, BoltTypeOK, HandlesInv, SharingInv, ClosedOnce, Sharing,
                  InUse, Users
    <2> QED BY <2>1, <2>2, <2>3 DEF Next
  <1> QED BY InitHandles, <1>1, PTL DEF Spec

-----------------------------------------------------------------------------
(***************************************************************************)
(* Durability.                                                             *)
(***************************************************************************)
LogInv ==
  /\ \E S : log \in Seq(S)
  /\ Len(log) >= 1
  /\ promised \in Nat
  /\ \A i \in 1..Len(log) : log[i].commits \in Nat /\ log[i].commits >= promised

DurableFacts == HandleFacts /\ LogInv /\ BucketThere

LEMMA NowIs == LogInv => Now.commits \in Nat /\ Now.commits >= promised
  <1> SUFFICES ASSUME LogInv PROVE Now.commits \in Nat /\ Now.commits >= promised
    OBVIOUS
  <1>1. PICK S : log \in Seq(S)
    BY DEF LogInv
  <1>2. Len(log) \in 1..Len(log) /\ Now = log[Len(log)]
    BY <1>1 DEF LogInv, Now, Last
  <1> QED BY <1>2 DEF LogInv

\* A relaxed commit goes on top of what a power loss may undo.
LEMMA LogAppended ==
  ASSUME LogInv, NEW snap, snap.commits \in Nat, snap.commits >= promised,
         log' = Append(log, snap), promised' = promised
  PROVE  LogInv' /\ Now' = snap
  <1>1. PICK S : log \in Seq(S)
    BY DEF LogInv
  <1>2. log \in Seq(S \cup {snap})
    BY <1>1
  <1>3. /\ log' \in Seq(S \cup {snap}) /\ Len(log') = Len(log) + 1 /\ Len(log) \in Nat
        /\ log'[Len(log) + 1] = snap
        /\ \A i \in 1..Len(log) : log'[i] = log[i]
    BY <1>2
  <1>4. Now' = snap
    BY <1>3 DEF Now, Last
  <1>5. \A i \in 1..Len(log') : log'[i].commits \in Nat /\ log'[i].commits >= promised
    <2> SUFFICES ASSUME NEW i \in 1..Len(log')
                 PROVE  log'[i].commits \in Nat /\ log'[i].commits >= promised
      OBVIOUS
    <2>1. i = Len(log) + 1 \/ i \in 1..Len(log)
      BY <1>3
    <2> QED BY <2>1, <1>3 DEF LogInv
  <1> QED BY <1>3, <1>4, <1>5 DEF LogInv

\* A synced commit leaves a power loss no choice.
LEMMA LogSynced ==
  ASSUME NEW snap, snap.commits \in Nat, promised' \in Nat, snap.commits >= promised',
         log' = <<snap>>
  PROVE  LogInv' /\ Now' = snap
  <1>1. log' \in Seq({snap}) /\ Len(log') = 1 /\ log'[1] = snap
    OBVIOUS
  <1>2. Now' = snap
    BY <1>1 DEF Now, Last
  <1>3. \A i \in 1..Len(log') : log'[i] = snap
    BY <1>1
  <1>4. \E S : log' \in Seq(S)
    BY <1>1
  <1> QED BY <1>1, <1>2, <1>3, <1>4 DEF LogInv

\* Steps of a Store that is neither dropping nor starting to be used.
LEMMA QuietKeepsDurable ==
  ASSUME DurableFacts, NEW s \in Stores, UNCHANGED <<log, promised>>,
         store[s].pc # "recreate", store'[s].pc \in {"live", "tx"} => store[s].pc = "live",
         \A t \in Stores \ {s} : store'[t] = store[t]
  PROVE  LogInv' /\ BucketThere'
  <1>1. LogInv'
    BY DEF DurableFacts, LogInv
  <1>2. \A t : HasBucket(t)' = HasBucket(t)
    BY DEF HasBucket, Has, Now
  <1>3. BucketThere'
    BY <1>2 DEF DurableFacts, BucketThere
  <1> QED BY <1>1, <1>3

LEMMA OpenCloseKeepsDurable ==
  ASSUME DurableFacts, NEW s \in Stores,
         \/ NewStart(s) \/ OpenSucceeds(s) \/ OpenTimesOut(s) \/ Register(s)
         \/ Close(s) \/ CloseHandle(s)
         \/ \E ops \in Batches, batch, relaxed \in BOOLEAN : TxBegin(s, ops, batch, relaxed)
  PROVE  LogInv' /\ BucketThere'
  <1> USE DEF HandleFacts, BoltTypeOK, StoreState
  <1> SUFFICES /\ UNCHANGED <<log, promised>>
               /\ store[s].pc # "recreate"
               /\ store'[s].pc \in {"live", "tx"} => store[s].pc = "live"
               /\ \A t \in Stores \ {s} : store'[t] = store[t]
    BY QuietKeepsDurable
  <1>1. CASE NewStart(s)
    BY <1>1 DEF NewStart, DurableFacts
  <1>2. CASE OpenSucceeds(s) \/ OpenTimesOut(s)
    BY <1>2 DEF OpenSucceeds, OpenTimesOut, DurableFacts
  <1>3. CASE Register(s)
    BY <1>3 DEF Register, DurableFacts
  <1>4. CASE Close(s)
    BY <1>4 DEF Close, DurableFacts
  <1>5. CASE CloseHandle(s)
    BY <1>5 DEF CloseHandle, DurableFacts
  <1>6. ASSUME NEW ops \in Batches, NEW batch \in BOOLEAN, NEW relaxed \in BOOLEAN,
               TxBegin(s, ops, batch, relaxed)
        PROVE  /\ UNCHANGED <<log, promised>>
               /\ store[s].pc # "recreate"
               /\ store'[s].pc \in {"live", "tx"} => store[s].pc = "live"
               /\ \A t \in Stores \ {s} : store'[t] = store[t]
    BY <1>6 DEF TxBegin, DurableFacts
  <1> QED BY <1>1, <1>2, <1>3, <1>4, <1>5, <1>6

\* Transactions that keep every bucket and make sure of their own.
LEMMA WritingKeepsBuckets ==
  ASSUME DurableFacts, NEW s \in Stores,
         HasBucket(s)', DOMAIN Now.colls \subseteq (DOMAIN Now.colls)',
         \A t \in Stores \ {s} : store'[t] = store[t]
  PROVE  BucketThere'
  <1>1. \A t : HasBucket(t) => HasBucket(t)'
    BY DEF HasBucket, Has
  <1>2. \A t : CollOf[t] = CollOf[s] => HasBucket(t)'
    BY DEF HasBucket, Has
  <1> QED BY <1>1, <1>2 DEF DurableFacts, BucketThere

\* WithBucket and Put make the bucket and keep the others.
LEMMA BucketsKept ==
  ASSUME NEW colls, NEW c, NEW d
  PROVE  DOMAIN Put(colls, c, d) = DOMAIN colls \cup {c}
  BY DEF Put

LEMMA CreateBucketKeepsDurable ==
  ASSUME DurableFacts, NEW s \in Stores, CreateBucket(s)
  PROVE  LogInv' /\ BucketThere'
  <1>1. PICK snap : snap = [colls |-> WithBucket(s), commits |-> Now.commits]
    OBVIOUS
  <1>2. snap.colls = WithBucket(s) /\ snap.commits = Now.commits
    BY <1>1
  <1>3. log' = <<snap>> /\ promised' = Now.commits
    BY <1>1 DEF CreateBucket
  <1>4. LogInv' /\ Now' = snap
    BY <1>2, <1>3, NowIs, LogSynced DEF DurableFacts
  <1>5. DOMAIN WithBucket(s) = DOMAIN Now.colls \cup {CollOf[s]}
    BY BucketsKept DEF WithBucket, HasBucket, Has
  <1>6. BucketThere'
    <2>1. HasBucket(s)' /\ DOMAIN Now.colls \subseteq (DOMAIN Now.colls)'
      BY <1>2, <1>4, <1>5 DEF HasBucket, Has
    <2>2. \A t \in Stores \ {s} : store'[t] = store[t]
      BY DEF CreateBucket, DurableFacts, HandleFacts, BoltTypeOK
    <2> QED BY <2>1, <2>2, WritingKeepsBuckets
  <1> QED BY <1>4, <1>6

LEMMA TxEndKeepsDurable ==
  ASSUME DurableFacts, NEW s \in Stores, TxEnd(s)
  PROVE  LogInv' /\ BucketThere'
  <1> DEFINE tx == store[s].tx
  <1>0. \A t \in Stores \ {s} : store'[t] = store[t]
    BY DEF TxEnd, DurableFacts, HandleFacts, BoltTypeOK
  <1>1. CASE UNCHANGED <<log, promised>>
    <2>1. LogInv'
      BY <1>1 DEF DurableFacts, LogInv
    <2>2. Now' = Now /\ HasBucket(s)
      BY <1>1 DEF Now, TxEnd
    <2> QED BY <1>0, <2>1, <2>2, WritingKeepsBuckets DEF HasBucket
  <1>2. ASSUME NEW colls, Commit(colls, tx.relaxed),
               colls = Put(Now.colls, CollOf[s], ApplyBatch(Bucket(s), tx.ops))
        PROVE  LogInv' /\ BucketThere'
    <2>1. PICK snap : snap = [colls |-> colls, commits |-> Now.commits + 1]
      OBVIOUS
    <2>2. snap.colls = colls /\ snap.commits = Now.commits + 1
      BY <2>1
    <2>3. /\ IF noSync THEN log' = Append(log, snap) ELSE log' = <<snap>>
          /\ promised' = IF tx.relaxed THEN promised ELSE snap.commits
      BY <1>2, <2>1 DEF Commit
    <2>4. noSync = tx.relaxed /\ noSync \in BOOLEAN
      BY DEF DurableFacts, HandleFacts, HandlesInv, TxEnd, BoltTypeOK
    <2>5. LogInv /\ Now.commits \in Nat /\ Now.commits >= promised /\ promised \in Nat
      BY NowIs DEF DurableFacts, LogInv
    <2>6. LogInv' /\ Now' = snap
      <3>1. CASE noSync
        <4>1. log' = Append(log, snap) /\ promised' = promised
          BY <3>1, <2>3, <2>4, Zenon
        <4>2. snap.commits \in Nat /\ snap.commits >= promised
          BY <2>2, <2>5
        <4> QED BY <2>5, <4>1, <4>2, LogAppended
      <3>2. CASE ~noSync
        BY <3>2, <2>2, <2>3, <2>4, <2>5, LogSynced
      <3> QED BY <3>1, <3>2
    <2>7. DOMAIN colls = DOMAIN Now.colls \cup {CollOf[s]}
      BY <1>2, BucketsKept
    <2>8. HasBucket(s)' /\ DOMAIN Now.colls \subseteq (DOMAIN Now.colls)'
      BY <2>2, <2>6, <2>7 DEF HasBucket, Has
    <2> QED BY <1>0, <2>6, <2>8, WritingKeepsBuckets
  <1> QED BY <1>1, <1>2 DEF TxEnd

\* Whoever loses its bucket has the Drop that took it to wait for.
LEMMA DropDeleteKeepsDurable ==
  ASSUME DurableFacts, NEW s \in Stores, NEW relaxed \in BOOLEAN, DropDelete(s, relaxed)
  PROVE  LogInv' /\ BucketThere'
  <1>1. PICK snap : snap = [colls |-> Without(Now.colls, CollOf[s]),
                            commits |-> Now.commits + 1]
    OBVIOUS
  <1>2. snap.colls = Without(Now.colls, CollOf[s]) /\ snap.commits = Now.commits + 1
    BY <1>1
  <1>3. /\ log' = IF relaxed THEN Append(log, snap) ELSE <<snap>>
        /\ promised' = IF relaxed THEN promised ELSE snap.commits
    BY <1>1 DEF DropDelete
  <1>4. LogInv /\ Now.commits \in Nat /\ Now.commits >= promised /\ promised \in Nat
    BY NowIs DEF DurableFacts, LogInv
  <1>5. LogInv' /\ Now' = snap
    <2>1. CASE relaxed
      <3>1. /\ log' = Append(log, snap) /\ promised' = promised
            /\ snap.commits \in Nat /\ snap.commits >= promised
        BY <2>1, <1>2, <1>3, <1>4
      <3> QED BY <1>4, <3>1, LogAppended
    <2>2. CASE ~relaxed
      <3>1. /\ log' = <<snap>> /\ promised' \in Nat
            /\ snap.commits \in Nat /\ snap.commits >= promised'
        BY <2>2, <1>2, <1>3, <1>4
      <3> QED BY <3>1, LogSynced
    <2> QED BY <2>1, <2>2
  <1>6. store'[s].pc = "recreate" /\ \A t \in Stores \ {s} : store'[t] = store[t]
    BY DEF DropDelete, DurableFacts, HandleFacts, BoltTypeOK, StoreState
  <1>7. \A t : CollOf[t] # CollOf[s] /\ HasBucket(t) => HasBucket(t)'
    BY <1>2, <1>5 DEF HasBucket, Has, Without
  <1>8. store[s].pc = "live"
    BY DEF DropDelete
  <1>9. BucketThere'
    <2> SUFFICES ASSUME NEW t \in Stores, store'[t].pc \in {"live", "tx"}, ~HasBucket(t)'
                 PROVE  \E u \in Stores : store'[u].pc = "recreate" /\ CollOf[u] = CollOf[t]
      BY DEF BucketThere
    <2>1. CASE CollOf[t] = CollOf[s]
      BY <1>6, <2>1
    <2>2. CASE CollOf[t] # CollOf[s]
      <3>1. store[t].pc \in {"live", "tx"} /\ ~HasBucket(t)
        BY <1>6, <1>7, <2>2
      <3> QED BY <1>6, <1>8, <3>1 DEF DurableFacts, BucketThere
    <2> QED BY <2>1, <2>2
  <1> QED BY <1>5, <1>9

LEMMA DropRecreateKeepsDurable ==
  ASSUME DurableFacts, NEW s \in Stores, DropRecreate(s)
  PROVE  LogInv' /\ BucketThere'
  <1>1. PICK snap : snap = [colls |-> WithBucket(s), commits |-> Now.commits]
    OBVIOUS
  <1>2. snap.colls = WithBucket(s) /\ snap.commits = Now.commits
    BY <1>1
  <1>3. IF noSync' THEN log' = Append(log, snap) /\ promised' = promised
                   ELSE log' = <<snap>> /\ promised' = Now.commits
    BY <1>1 DEF DropRecreate
  <1>4. LogInv /\ Now.commits \in Nat /\ Now.commits >= promised /\ promised \in Nat
    BY NowIs DEF DurableFacts, LogInv
  <1>5. LogInv' /\ Now' = snap
    <2>1. CASE log' = Append(log, snap) /\ promised' = promised
      BY <1>2, <1>4, <2>1, LogAppended
    <2>2. CASE log' = <<snap>> /\ promised' = Now.commits
      BY <1>2, <1>4, <2>2, LogSynced
    <2> QED BY <1>3, <2>1, <2>2
  <1>6. DOMAIN WithBucket(s) = DOMAIN Now.colls \cup {CollOf[s]}
    BY BucketsKept DEF WithBucket, HasBucket, Has
  <1>7. BucketThere'
    <2>1. HasBucket(s)' /\ DOMAIN Now.colls \subseteq (DOMAIN Now.colls)'
      BY <1>2, <1>5, <1>6 DEF HasBucket, Has
    <2>2. \A t \in Stores \ {s} : store'[t] = store[t]
      BY DEF DropRecreate, DurableFacts, HandleFacts, BoltTypeOK
    <2> QED BY <2>1, <2>2, WritingKeepsBuckets
  <1> QED BY <1>5, <1>7

\* A power loss brings back one of the snapshots that are left to it.
LEMMA CrashKeepsDurable ==
  ASSUME DurableFacts, Restart, promised' = promised,
         UNCHANGED log \/ \E i \in DOMAIN log : log' = <<log[i]>>
  PROVE  LogInv' /\ BucketThere'
  <1>1. BucketThere'
    <2>1. \A s \in Stores : store'[s].pc = "none"
      BY DEF Restart, Fresh
    <2> QED BY <2>1 DEF BucketThere
  <1>2. CASE UNCHANGED log
    BY <1>1, <1>2 DEF DurableFacts, LogInv
  <1>3. ASSUME NEW i \in DOMAIN log, log' = <<log[i]>> PROVE LogInv'
    <2>1. PICK S : log \in Seq(S)
      BY DEF DurableFacts, LogInv
    <2>2. i \in 1..Len(log)
      BY <2>1
    <2>3. PICK snap : snap = log[i]
      OBVIOUS
    <2>4. promised \in Nat /\ snap.commits \in Nat /\ snap.commits >= promised
      BY <2>2, <2>3 DEF DurableFacts, LogInv
    <2> QED BY <1>3, <2>3, <2>4, LogSynced
  <1> QED BY <1>1, <1>2, <1>3

LEMMA InitDurable == Init => LogInv /\ BucketThere
  <1> SUFFICES ASSUME Init PROVE LogInv /\ BucketThere
    OBVIOUS
  <1>1. BucketThere
    <2>1. \A s \in Stores : store[s].pc = "none"
      BY DEF Init, Fresh
    <2> QED BY <2>1 DEF BucketThere
  <1>2. PICK snap : snap = [colls |-> EmptyCollection, commits |-> 0]
    OBVIOUS
  <1>3. snap.commits = 0 /\ log = <<snap>> /\ promised = 0
    BY <1>2 DEF Init
  <1>4. log \in Seq({snap}) /\ Len(log) = 1 /\ \A i \in 1..Len(log) : log[i] = snap
    BY <1>3
  <1>5. \E S : log \in Seq(S)
    BY <1>4
  <1> QED BY <1>1, <1>3, <1>4, <1>5 DEF LogInv

LEMMA DurableInvariance == Spec => []DurableFacts
  <1>1. DurableFacts /\ HandleFacts' /\ [Next]_vars => DurableFacts'
    <2> SUFFICES ASSUME DurableFacts, [Next]_vars PROVE LogInv' /\ BucketThere'
      BY DEF DurableFacts
    <2>1. ASSUME NEW s \in Stores, Step(s) PROVE LogInv' /\ BucketThere'
      <3>1. CASE Panics(s)
        BY <3>1, CrashKeepsDurable DEF Panics
      <3>2. ASSUME NEW relaxed \in BOOLEAN, DropDelete(s, relaxed)
            PROVE  LogInv' /\ BucketThere'
        BY <3>2, DropDeleteKeepsDurable
      <3> QED BY <2>1, <3>1, <3>2, OpenCloseKeepsDurable, CreateBucketKeepsDurable,
                 TxEndKeepsDurable, DropRecreateKeepsDurable DEF Step
    <2>2. CASE ProcessDies \/ PowerLoss
      BY <2>2, CrashKeepsDurable DEF ProcessDies, PowerLoss
    <2>3. CASE UNCHANGED vars
      <3>1. LogInv'
        BY <2>3 DEF vars, DurableFacts, LogInv
      <3>2. BucketThere'
        BY <2>3 DEF vars, DurableFacts, BucketThere, HasBucket, Now
      <3> QED BY <3>1, <3>2
    <2> QED BY <2>1, <2>2, <2>3 DEF Next
  <1>2. Init => DurableFacts
    BY InitHandles, InitDurable DEF DurableFacts
  <1> QED BY HandlesInvariance, <1>1, <1>2, PTL DEF Spec

(***************************************************************************)
(* What a synced commit vouched for survives every power loss, however     *)
(* many Stores mix relaxed commits with synced ones on the shared handle.  *)
(***************************************************************************)
THEOREM SyncedCommitsSurvive == Spec => []SyncedSurvives
  <1>1. DurableFacts => SyncedSurvives
    <2> SUFFICES ASSUME DurableFacts, NEW i \in DOMAIN log
                 PROVE  log[i].commits >= promised
      BY DEF SyncedSurvives
    <2>1. PICK S : log \in Seq(S)
      BY DEF DurableFacts, LogInv
    <2> QED BY <2>1 DEF DurableFacts, LogInv
  <1> QED BY DurableInvariance, <1>1, PTL

(***************************************************************************)
(* As long as nobody closes a Store twice, Close of one Store never closes *)
(* the handle of another and the references are exactly the users; and a   *)
(* Store finds its bucket unless a Drop is about to make it again.         *)
(***************************************************************************)
THEOREM SiblingsStayInService == Spec => []StoresKeepWorking
  <1>1. DurableFacts => StoresKeepWorking
    BY DEF DurableFacts, HandleFacts, SharingInv, ClosedOnce, Sharing, Users,
           StoresKeepWorking, SiblingsKeepWorking
  <1> QED BY DurableInvariance, <1>1, PTL
=============================================================================
