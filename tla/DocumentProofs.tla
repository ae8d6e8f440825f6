--------------------------- MODULE DocumentProofs ---------------------------
(***************************************************************************)
(* What callers that share a document of a partition may rely on, for any  *)
(* number of callers, any programs of calls, any retry limit and any       *)
(* number of failures and deaths; how long a retry sleeps, for durations   *)
(* of any width; what an iteration over a grpc stream of any length gives  *)
(* out, and a pipeline over any sources; and what is in a file after any   *)
(* calls on it.                                                            *)
(***************************************************************************)
EXTENDS PartitionedStore, StreamIter, IterPipeline, UpspinFile, FiniteSetTheorems, SequenceTheorems, TLAPS

\* Induction on the numbers, over a set instead of an operator.
LEMMA NatSteps ==
  ASSUME NEW G, 0 \in G, \A k \in Nat : k \in G => k + 1 \in G
  PROVE  Nat \subseteq G
  <1> SUFFICES ASSUME ~(Nat \subseteq G) PROVE FALSE
    OBVIOUS
  <1>1. PICK T : T = Nat \ G
    OBVIOUS
  <1>2. T \in SUBSET Nat /\ T # {}
    BY <1>1
  <1>3. PICK n \in T : \A m \in T : n <= m
    <2>1. PICK R : R = OpToRel(<, Nat)
      OBVIOUS
    <2>2. IsWellFoundedOn(R, Nat)
      BY <2>1, NatLessThanWellFounded
    <2>3. \E x \in T : \A y \in T : ~ (<<y, x>> \in R)
      BY <1>2, <2>2, WFMin
    <2>4. R = {ss \in Nat \X Nat : ss[1] < ss[2]}
      BY <2>1 DEF OpToRel
    <2>5. PICK x \in T : \A y \in T : ~ (<<y, x>> \in R)
      BY <2>3
    <2>6. ASSUME NEW y \in T PROVE x <= y
      <3>1. x \in Nat /\ y \in Nat
        BY <1>2
      <3>2. ~(y < x)
        BY <2>4, <2>5, <3>1
      <3> QED BY <3>1, <3>2
    <2> QED BY <2>6
  <1>4. n \in Nat /\ n \notin G /\ n # 0
    BY <1>1
  <1>5. n - 1 \in Nat /\ n - 1 < n
    BY <1>4
  <1>6. n - 1 \in G
    BY <1>1, <1>3, <1>5
  <1>7. (n - 1) + 1 \in G
    BY <1>5, <1>6
  <1> QED BY <1>4, <1>7

-----------------------------------------------------------------------------
(***************************************************************************)
(* PartitionedStore.                                                       *)
(***************************************************************************)

Documents == [stamped : BOOLEAN, count : Nat, version : Nat]

(***************************************************************************)
(* Count and version move together, in the store and in what a caller has  *)
(* read; so a precondition on the version is one on the count.             *)
(***************************************************************************)
CountIsVersion ==
  /\ doc # NoDoc => doc \in Documents /\ doc.count = doc.version
  /\ mine \in [Callers -> Documents]
  /\ \A c \in Callers : mine[c].count = mine[c].version
  /\ acked \in Nat

(***************************************************************************)
(* A document without its stamp that nobody has abandoned is on the way of *)
(* some caller, which will stamp or remove it.                             *)
(***************************************************************************)
UnstampedIsAttended ==
  doc # NoDoc /\ ~loose /\ ~doc.stamped =>
    \E c \in Callers : phase[c] \in {"stamp", "remove"}

StoreInv ==
  /\ CountIsVersion
  /\ DOMAIN phase = Callers
  /\ loose \in BOOLEAN
  /\ NoLostUpdate
  /\ UnstampedIsAttended

\* A new document, not yet stamped, has neither increments nor versions.
LEMMA FreshDocument ==
  /\ Fresh \in Documents
  /\ Fresh.count = 0 /\ Fresh.version = 0
  BY DEF Fresh, Documents

\* Stamping a document leaves the rest of it alone.
LEMMA StampedDocument ==
  ASSUME NEW d \in Documents
  PROVE  /\ [d EXCEPT !.stamped = TRUE] \in Documents
         /\ [d EXCEPT !.stamped = TRUE].stamped
         /\ [d EXCEPT !.stamped = TRUE].count = d.count
         /\ [d EXCEPT !.stamped = TRUE].version = d.version
  BY DEF Documents

\* At first the document is missing, or stamped and untouched.
LEMMA StoreInitInv == StoreInit => StoreInv
  <1> SUFFICES ASSUME StoreInit PROVE StoreInv
    OBVIOUS
  <1> DEFINE first == [Fresh EXCEPT !.stamped = TRUE]
  <1>0. first \in Documents /\ first.stamped /\ first.count = 0 /\ first.version = 0
    BY FreshDocument, StampedDocument
  <1>1. doc \in {NoDoc, first}
    BY DEF StoreInit
  <1> HIDE DEF first
  <1>2. CountIsVersion /\ NoLostUpdate
    BY <1>0, <1>1, FreshDocument DEF StoreInit, CountIsVersion, NoLostUpdate
  <1>3. UnstampedIsAttended
    BY <1>0, <1>1 DEF UnstampedIsAttended
  <1> QED
    BY <1>2, <1>3 DEF StoreInit, StoreInv

\* Create and Set, up to the stamp or to the removal.
LEMMA WritersKeepInv ==
  ASSUME StoreInv, NEW c \in Callers,
         \/ StoreDoc(c) \/ StoreDocFails(c) \/ StampDoc(c) \/ StampDocFails(c)
         \/ RemoveDoc(c) \/ RemoveDocFails(c) \/ DeleteDoc(c) \/ OtherCall(c)
  PROVE  StoreInv'
  <1> USE FreshDocument DEF StoreInv
  <1>1. CASE StoreDoc(c)
    <2>1. CountIsVersion' /\ NoLostUpdate'
      BY <1>1 DEF StoreDoc, Write, CountIsVersion, NoLostUpdate
    <2>2. UnstampedIsAttended' /\ DOMAIN phase' = Callers /\ loose' \in BOOLEAN
      BY <1>1 DEF StoreDoc, At, Return, GoTo, Write, UnstampedIsAttended
    <2> QED BY <2>1, <2>2
  <1>2. CASE StoreDocFails(c)
    <2>1. CountIsVersion' /\ NoLostUpdate'
      BY <1>2 DEF StoreDocFails, CountIsVersion, NoLostUpdate
    <2>2. phase[c] = "start" /\ phase' = [phase EXCEPT ![c] = "start"]
      BY <1>2 DEF StoreDocFails, At, Return
    <2>3. CASE UNCHANGED <<doc, loose>>
      BY <2>1, <2>2, <2>3 DEF UnstampedIsAttended
    <2>4. CASE loose' = TRUE
      BY <2>1, <2>2, <2>4 DEF UnstampedIsAttended
    <2> QED BY <1>2, <2>3, <2>4 DEF StoreDocFails
  <1>3. CASE StampDoc(c)
    BY <1>3 DEF StampDoc, Return, GoTo, CountIsVersion, NoLostUpdate,
                UnstampedIsAttended, Documents
  <1>4. CASE StampDocFails(c)
    BY <1>4 DEF StampDocFails, GoTo, CountIsVersion, NoLostUpdate,
                UnstampedIsAttended, Documents
  <1>5. CASE RemoveDoc(c)
    BY <1>5 DEF RemoveDoc, Return, Write, CountIsVersion, NoLostUpdate,
                UnstampedIsAttended
  <1>6. CASE RemoveDocFails(c)
    BY <1>6 DEF RemoveDocFails, Return, CountIsVersion, NoLostUpdate,
                UnstampedIsAttended
  <1>7. CASE DeleteDoc(c)
    BY <1>7 DEF DeleteDoc, Return, Write, CountIsVersion, NoLostUpdate,
                UnstampedIsAttended
  <1>8. CASE OtherCall(c)
    BY <1>8 DEF OtherCall, At, Return, CountIsVersion, NoLostUpdate,
                UnstampedIsAttended
  <1> QED
    BY <1>1, <1>2, <1>3, <1>4, <1>5, <1>6, <1>7, <1>8

\* ConsistentUpdate: an increment goes through only on the count it read.
LEMMA UpdatersKeepInv ==
  ASSUME StoreInv, NEW c \in Callers,
         \/ ReadDoc(c) \/ UpdateDoc(c) \/ UpdateRefused(c) \/ UpdateFails(c)
         \/ Wake(c) \/ Cancelled(c) \/ RereadDoc(c) \/ Die(c)
  PROVE  StoreInv'
  <1> USE DEF StoreInv
  <1>0. ASSUME doc # NoDoc, Precondition(c)
        PROVE  /\ Incremented(c) \in Documents
               /\ Incremented(c).count = doc.count + 1
               /\ Incremented(c).version = doc.count + 1
               /\ Incremented(c).stamped = doc.stamped
    <2>1. /\ doc \in Documents /\ mine[c] \in Documents
          /\ mine[c].count = doc.count /\ mine[c].version = doc.count
      BY <1>0 DEF Precondition, CountIsVersion
    <2> DEFINE n == mine[c].count + 1
               v == mine[c].version + 1
    <2>2. n \in Nat /\ v \in Nat /\ n = doc.count + 1 /\ v = doc.count + 1
      BY <2>1 DEF Documents
    <2>3. Incremented(c) = [doc EXCEPT !.count = n, !.version = v]
      BY DEF Incremented
    <2> HIDE DEF n, v
    <2>4. /\ Incremented(c) \in Documents
          /\ Incremented(c).stamped = doc.stamped
          /\ Incremented(c).count = n
          /\ Incremented(c).version = v
      BY <2>1, <2>2, <2>3 DEF Documents
    <2> QED BY <2>2, <2>4
  <1>1. CASE ReadDoc(c)
    BY <1>1 DEF ReadDoc, At, Return, GoTo, CountIsVersion, NoLostUpdate,
                UnstampedIsAttended
  <1>2. CASE UpdateDoc(c)
    BY <1>0, <1>2 DEF UpdateDoc, GoTo, CountIsVersion, NoLostUpdate,
                      UnstampedIsAttended, Documents
  <1>3. CASE UpdateRefused(c)
    BY <1>3 DEF UpdateRefused, Return, CountIsVersion, NoLostUpdate,
                UnstampedIsAttended
  <1>4. CASE UpdateFails(c)
    BY <1>0, <1>4 DEF UpdateFails, Return, CountIsVersion, NoLostUpdate,
                      UnstampedIsAttended, Documents
  <1>5. CASE Wake(c) \/ Cancelled(c)
    BY <1>5 DEF Wake, Cancelled, GoTo, Return, CountIsVersion, NoLostUpdate,
                UnstampedIsAttended
  <1>6. CASE RereadDoc(c)
    BY <1>6 DEF RereadDoc, Return, CountIsVersion, NoLostUpdate,
                UnstampedIsAttended
  <1>7. CASE Die(c)
    BY <1>7 DEF Die, CountIsVersion, NoLostUpdate, UnstampedIsAttended
  <1> QED
    BY <1>1, <1>2, <1>3, <1>4, <1>5, <1>6, <1>7

\* The invariant holds throughout.
LEMMA StoreInvariance == StoreSpec => []StoreInv
  <1>1. StoreInv /\ [StoreNext]_storeVars => StoreInv'
    <2> SUFFICES ASSUME StoreInv, [StoreNext]_storeVars PROVE StoreInv'
      OBVIOUS
    <2>1. CASE StoreNext
      BY <2>1, WritersKeepInv, UpdatersKeepInv DEF StoreNext
    <2>2. CASE UNCHANGED storeVars
      BY <2>2 DEF storeVars, StoreInv, CountIsVersion, NoLostUpdate,
                  UnstampedIsAttended
    <2> QED BY <2>1, <2>2
  <1> QED
    BY StoreInitInv, <1>1, PTL DEF StoreSpec

(***************************************************************************)
(* ConsistentUpdate loses no acknowledged increment: whatever reads,       *)
(* retries, failures and deaths interleave, the count of a document is at  *)
(* least the number of increments acknowledged since it was written.       *)
(***************************************************************************)
THEOREM UpdatesAreKept == StoreSpec => []NoLostUpdate
  <1>1. StoreInv => NoLostUpdate
    BY DEF StoreInv
  <1> QED BY StoreInvariance, <1>1, PTL

(***************************************************************************)
(* Create and Set of a partition never leave a document that Get finds and *)
(* List does not, once nobody is between storing and stamping it, unless a *)
(* failure or a death took that away from them.                            *)
(***************************************************************************)
THEOREM StoredIsListed == StoreSpec => []QuietIsListed
  <1>1. StoreInv => QuietIsListed
    BY DEF StoreInv, UnstampedIsAttended, QuietIsListed, Quiet
  <1> QED BY StoreInvariance, <1>1, PTL

-----------------------------------------------------------------------------
(***************************************************************************)
(* Nobody starves.  Of the changes by others that a caller may run into,   *)
(* those are done that a call which is over has made, or one that has      *)
(* written and not returned.                                               *)
(***************************************************************************)
Over(d) == Len(given[d]) - Len(program[d])
IsDone(x) ==
  \/ x[2] <= Over(x[1])
  \/ x[2] = Over(x[1]) + 1 /\ phase[x[1]] \in {"stamp", "remove", "reread"}
Done(c) == {x \in Changes(c) : IsDone(x)}

\* The caller's next Update will be refused.
Behind(c) == phase[c] = "update" /\ doc # NoDoc /\ ~Precondition(c)
Refusals(c) == tries[c] + IF Behind(c) THEN 1 ELSE 0

\* Where a caller is in its program.
InPlace(c) ==
  /\ phase[c] # "start" => program[c] # <<>>
  /\ phase[c] \in {"update", "wait", "reread"} => Head(program[c]) = "increment"
  /\ Len(program[c]) <= Len(given[c])
  /\ \A i \in 1..Len(program[c]) : program[c][i] = given[c][Over(c) + i]

\* Each refusal is the work of a change by another caller, of its own.
RetryInv ==
  /\ given \in [Callers -> Seq(STRING)] /\ program \in [Callers -> Seq(STRING)]
  /\ DOMAIN phase = Callers /\ tries \in [Callers -> Nat]
  /\ CountIsVersion
  /\ DOMAIN result = Callers
  /\ \A c \in Callers : InPlace(c) /\ Refusals(c) <= Cardinality(Done(c))
  /\ NobodyStarves

FaultlessInv == faults \in Nat /\ (faults = 0 => RetryInv)

\* The changes by others are finitely many.
LEMMA ChangesAreFinite ==
  ASSUME NEW c \in Callers, given \in [Callers -> Seq(STRING)]
  PROVE  IsFiniteSet(Changes(c))
  <1>1. PICK A : A = {{d} \X {i \in DOMAIN given[d] : given[d][i] \in {"create", "set", "increment"}} :
                        d \in Callers \ {c}}
    OBVIOUS
  <1>2. IsFiniteSet(Callers \ {c})
    BY PartitionAssumption, FS_Difference
  <1>3. IsFiniteSet(A)
    <2> DEFINE F(d) == {d} \X {i \in DOMAIN given[d] : given[d][i] \in {"create", "set", "increment"}}
    <2>1. PICK f : f = [d \in Callers \ {c} |-> F(d)]
      OBVIOUS
    <2>2. f \in Surjection(Callers \ {c}, A)
      BY <1>1, <2>1 DEF Surjection
    <2> QED BY <1>2, <2>2, FS_Surjection
  <1>4. ASSUME NEW S \in A PROVE IsFiniteSet(S)
    <2>1. PICK d \in Callers \ {c} :
            S = {d} \X {i \in DOMAIN given[d] : given[d][i] \in {"create", "set", "increment"}}
      BY <1>1
    <2>2. PICK n \in Nat : DOMAIN given[d] = 1..n
      <3>1. given[d] \in Seq(STRING)
        OBVIOUS
      <3> QED BY <3>1
    <2>3. IsFiniteSet(1..n)
      BY FS_Interval
    <2>4. IsFiniteSet({i \in DOMAIN given[d] : given[d][i] \in {"create", "set", "increment"}})
      BY <2>2, <2>3, FS_Subset
    <2>5. IsFiniteSet({d})
      BY FS_Singleton
    <2> QED BY <2>1, <2>4, <2>5, FS_Product
  <1>5. Changes(c) = UNION A
    BY <1>1 DEF Changes
  <1> QED BY <1>3, <1>4, <1>5, FS_UNION

(***************************************************************************)
(* What a step of caller d comes to where nothing fails.                   *)
(***************************************************************************)
OthersStay(d) ==
  \A e \in Callers \ {d} :
    /\ program'[e] = program[e] /\ phase'[e] = phase[e] /\ tries'[e] = tries[e]
    /\ mine'[e] = mine[e] /\ result'[e] = result[e]

Returns(d) ==
  /\ program[d] # <<>>
  /\ program'[d] = Tail(program[d]) /\ phase'[d] = "start" /\ tries'[d] = 0

\* The document is a new one, or another version of the one before.
Changed == doc' # NoDoc /\ (doc = NoDoc \/ doc'.version # doc.version)

Writes(d) ==
  /\ program[d] # <<>> /\ Head(program[d]) \in {"create", "set", "increment"}
  /\ phase[d] \in {"start", "update"} /\ phase'[d] \in {"stamp", "reread"}
  /\ program'[d] = program[d]

Stays(d) ==
  /\ program'[d] = program[d]
  /\ phase[d] \in {"stamp", "remove", "reread"} => phase'[d] \in {"stamp", "remove", "reread"}
  /\ phase'[d] # "start" => program[d] # <<>>
  /\ phase'[d] \in {"update", "wait", "reread"} => Head(program[d]) = "increment"
  /\ Refusals(d)' <= Refusals(d)

Typed ==
  /\ program' \in [Callers -> Seq(STRING)] /\ DOMAIN phase' = Callers
  /\ tries' \in [Callers -> Nat] /\ mine' \in [Callers -> Documents] /\ DOMAIN result' = Callers

\* Update is refused for good only to a caller that has used up its calls.
ResultIs(d) ==
  result'[d] = "ErrPreconditionFailed" =>
    result[d] = "ErrPreconditionFailed" \/ (Behind(d) /\ ~Again(d))

Step(d) ==
  /\ Typed
  /\ OthersStay(d)
  /\ Returns(d) \/ Stays(d)
  /\ Changed => Writes(d)
  /\ ResultIs(d)

LEMMA DocTyped ==
  ASSUME RetryInv
  PROVE  mine \in [Callers -> Documents] /\ (doc # NoDoc => doc \in Documents)
  BY DEF RetryInv, CountIsVersion

\* A call that is over.
LEMMA ReturnIs ==
  ASSUME RetryInv, NEW d \in Callers, NEW e0, Return(d, e0), program[d] # <<>>,
         mine' \in [Callers -> Documents], \A e \in Callers \ {d} : mine'[e] = mine[e]
  PROVE  Typed /\ OthersStay(d) /\ Returns(d) /\ result'[d] = e0
  <1>1. /\ program \in [Callers -> Seq(STRING)] /\ DOMAIN phase = Callers
        /\ tries \in [Callers -> Nat] /\ DOMAIN result = Callers
    BY DEF RetryInv
  <1>2. PICK t : t = Tail(program[d]) /\ t \in Seq(STRING)
    <2>1. program[d] \in Seq(STRING)
      BY <1>1
    <2> QED BY <2>1, HeadTailProperties
  <1>3. program' = [program EXCEPT ![d] = t] /\ phase' = [phase EXCEPT ![d] = "start"]
        /\ tries' = [tries EXCEPT ![d] = 0] /\ result' = [result EXCEPT ![d] = e0]
    <2>1. program' = [program EXCEPT ![d] = Tail(program[d])]
      BY Zenon DEF Return
    <2>2. phase' = [phase EXCEPT ![d] = "start"]
        /\ tries' = [tries EXCEPT ![d] = 0] /\ result' = [result EXCEPT ![d] = e0]
      BY Zenon DEF Return
    <2> QED BY <1>2, <2>1, <2>2
  <1>4. Typed
    <2>1. program' \in [Callers -> Seq(STRING)]
      BY <1>1, <1>2, <1>3
    <2>2. DOMAIN phase' = Callers
      BY <1>1, <1>3
    <2>3. tries' \in [Callers -> Nat]
      BY <1>1, <1>3
    <2>4. DOMAIN result' = Callers
      BY <1>1, <1>3
    <2> QED BY <2>1, <2>2, <2>3, <2>4 DEF Typed
  <1>5. OthersStay(d)
    BY <1>1, <1>3 DEF OthersStay
  <1>6. Returns(d)
    BY <1>1, <1>2, <1>3 DEF Returns
  <1> QED BY <1>1, <1>3, <1>4, <1>5, <1>6

\* A call that goes on to its next phase.
LEMMA GoToIs ==
  ASSUME RetryInv, NEW d \in Callers, NEW ph, GoTo(d, ph),
         mine' \in [Callers -> Documents], \A e \in Callers \ {d} : mine'[e] = mine[e]
  PROVE  /\ Typed /\ OthersStay(d) /\ result'[d] = result[d] /\ phase'[d] = ph
         /\ program'[d] = program[d] /\ tries'[d] = tries[d]
  <1>1. /\ program \in [Callers -> Seq(STRING)] /\ DOMAIN phase = Callers
        /\ tries \in [Callers -> Nat] /\ DOMAIN result = Callers
    BY DEF RetryInv
  <1>2. /\ phase' = [phase EXCEPT ![d] = ph]
        /\ program' = program /\ result' = result /\ tries' = tries
    BY DEF GoTo
  <1>3. Typed
    BY <1>1, <1>2 DEF Typed
  <1>4. OthersStay(d)
    BY <1>1, <1>2 DEF OthersStay
  <1> QED BY <1>1, <1>2, <1>3, <1>4

\* Whoever leaves "update" has no refusal before it but those counted.
LEMMA RefusalsAre ==
  ASSUME RetryInv, NEW d \in Callers
  PROVE  Refusals(d) \in Nat /\ tries[d] \in Nat /\ Refusals(d) >= tries[d]
  <1>1. tries[d] \in Nat
    BY DEF RetryInv
  <1> QED BY <1>1 DEF Refusals

LEMMA LaterRefusalsAre ==
  ASSUME NEW d \in Callers, ~Behind(d)'
  PROVE  Refusals(d)' = tries'[d] + 0
  BY DEF Refusals

\* A call that goes on and does not fall behind.
LEMMA GoingOn ==
  ASSUME RetryInv, NEW d \in Callers, program'[d] = program[d], tries'[d] = tries[d],
         program[d] # <<>>, ~Behind(d)',
         phase[d] \in {"stamp", "remove", "reread"} => phase'[d] \in {"stamp", "remove", "reread"},
         phase'[d] \in {"update", "wait", "reread"} => Head(program[d]) = "increment"
  PROVE  Stays(d)
  <1>1. Refusals(d) \in Nat /\ tries[d] \in Nat /\ Refusals(d) >= tries[d]
    BY RefusalsAre
  <1>2. Refusals(d)' = tries[d] + 0
    BY LaterRefusalsAre
  <1>3. Refusals(d)' <= Refusals(d)
    BY <1>1, <1>2
  <1> QED BY <1>3 DEF Stays
\* Partition.Create and Set: the store, and the stamp.
LEMMA StoresAreSteps ==
  ASSUME RetryInv, NEW d \in Callers, StoreDoc(d) \/ StampDoc(d) \/ RemoveDoc(d)
  PROVE  Step(d)
  <1>1. mine' = mine /\ mine' \in [Callers -> Documents] /\ \A e \in Callers \ {d} : mine'[e] = mine[e]
    BY DocTyped DEF StoreDoc, StampDoc, RemoveDoc
  <1>2. InPlace(d) /\ DOMAIN phase = Callers
    BY DEF RetryInv
  <1>3. CASE StoreDoc(d)
    <2>1. program[d] # <<>> /\ Head(program[d]) \in {"create", "set"} /\ phase[d] = "start"
      BY <1>3 DEF StoreDoc, At
    <2>2. CASE Return(d, "ErrAlreadyExists") /\ UNCHANGED doc
      <3>1. Typed /\ OthersStay(d) /\ Returns(d) /\ result'[d] = "ErrAlreadyExists"
        BY <1>1, <2>1, <2>2, ReturnIs
      <3>2. ~Changed
        BY <2>2 DEF Changed
      <3> QED BY <3>1, <3>2 DEF Step, ResultIs
    <2>3. CASE GoTo(d, "stamp")
      <3>1. /\ Typed /\ OthersStay(d) /\ result'[d] = result[d] /\ phase'[d] = "stamp"
            /\ program'[d] = program[d] /\ tries'[d] = tries[d]
        BY <1>1, <2>3, GoToIs
      <3>2. ~Behind(d)'
        BY <3>1 DEF Behind
      <3>3. Stays(d)
        BY <2>1, <3>1, <3>2, GoingOn
      <3>4. Writes(d)
        BY <2>1, <3>1 DEF Writes
      <3> QED BY <3>1, <3>3, <3>4 DEF Step, ResultIs
    <2> QED BY <1>3, <2>2, <2>3 DEF StoreDoc
  <1>4. CASE StampDoc(d)
    <2>1. program[d] # <<>> /\ phase[d] = "stamp"
      BY <1>2, <1>4 DEF StampDoc, InPlace
    <2>2. CASE GoTo(d, "remove") /\ UNCHANGED doc
      <3>1. /\ Typed /\ OthersStay(d) /\ result'[d] = result[d] /\ phase'[d] = "remove"
            /\ program'[d] = program[d] /\ tries'[d] = tries[d]
        BY <1>1, <2>2, GoToIs
      <3>2. ~Behind(d)'
        BY <3>1 DEF Behind
      <3>3. Stays(d)
        BY <2>1, <3>1, <3>2, GoingOn
      <3>4. ~Changed
        BY <2>2 DEF Changed
      <3> QED BY <3>1, <3>3, <3>4 DEF Step, ResultIs
    <2>3. CASE Return(d, "nil") /\ doc # NoDoc /\ doc' = [doc EXCEPT !.stamped = TRUE]
      <3>1. Typed /\ OthersStay(d) /\ Returns(d) /\ result'[d] = "nil"
        BY <1>1, <2>1, <2>3, ReturnIs
      <3>2. doc'.version = doc.version
        BY <2>3, DocTyped DEF Documents
      <3>3. ~Changed
        BY <2>3, <3>2 DEF Changed
      <3> QED BY <3>1, <3>3 DEF Step, ResultIs
    <2> QED BY <1>4, <2>2, <2>3 DEF StampDoc
  <1>5. CASE RemoveDoc(d)
    <2>1. program[d] # <<>> /\ Return(d, "fault") /\ doc' = NoDoc
      BY <1>2, <1>5 DEF RemoveDoc, InPlace, Write
    <2>2. Typed /\ OthersStay(d) /\ Returns(d) /\ result'[d] = "fault"
      BY <1>1, <2>1, ReturnIs
    <2>3. ~Changed
      BY <2>1 DEF Changed
    <2> QED BY <2>2, <2>3 DEF Step, ResultIs
  <1> QED BY <1>3, <1>4, <1>5

\* The calls of one step.
LEMMA CallsAreSteps ==
  ASSUME RetryInv, NEW d \in Callers, DeleteDoc(d) \/ OtherCall(d) \/ RereadDoc(d)
  PROVE  Step(d)
  <1>1. mine' \in [Callers -> Documents] /\ \A e \in Callers \ {d} : mine'[e] = mine[e]
    <2>1. mine \in [Callers -> Documents]
      BY DocTyped
    <2>2. CASE mine' = mine
      BY <2>1, <2>2
    <2>3. CASE doc # NoDoc /\ mine' = [mine EXCEPT ![d] = doc]
      BY <2>1, <2>3, DocTyped
    <2> QED BY <2>2, <2>3 DEF DeleteDoc, OtherCall, RereadDoc
  <1>2. program[d] # <<>>
    BY DEF RetryInv, InPlace, DeleteDoc, OtherCall, RereadDoc, At
  <1>3. ~Changed
    BY DEF DeleteDoc, OtherCall, RereadDoc, Write, Changed
  <1>4. PICK e0 : e0 \in {"nil", "ErrNotFound"} /\ Return(d, e0)
    BY DEF DeleteDoc, OtherCall, RereadDoc
  <1>5. Typed /\ OthersStay(d) /\ Returns(d) /\ result'[d] = e0
    BY <1>1, <1>2, <1>4, ReturnIs
  <1>6. e0 # "ErrPreconditionFailed"
    BY <1>4
  <1> QED BY <1>3, <1>5, <1>6 DEF Step, ResultIs

\* ConsistentUpdate.
LEMMA UpdatesAreSteps ==
  ASSUME RetryInv, NEW d \in Callers, ReadDoc(d) \/ UpdateDoc(d) \/ UpdateRefused(d) \/ Wake(d)
  PROVE  Step(d)
  <1>1. /\ mine \in [Callers -> Documents] /\ InPlace(d) /\ DOMAIN phase = Callers
        /\ tries \in [Callers -> Nat] /\ program \in [Callers -> Seq(STRING)] /\ DOMAIN result = Callers
    BY DocTyped DEF RetryInv
  <1>2. program[d] # <<>> /\ Head(program[d]) = "increment"
    <2>1. CASE ReadDoc(d)
      BY <2>1 DEF ReadDoc, At
    <2>2. CASE phase[d] \in {"update", "wait"}
      BY <1>1, <2>2 DEF InPlace
    <2> QED BY <2>1, <2>2 DEF UpdateDoc, UpdateRefused, Wake
  <1>3. CASE ReadDoc(d) /\ doc = NoDoc
    <2>1. Return(d, "ErrNotFound") /\ mine' = mine /\ doc' = doc
      BY <1>3 DEF ReadDoc
    <2>2. mine' \in [Callers -> Documents] /\ \A e \in Callers \ {d} : mine'[e] = mine[e]
      BY <1>1, <2>1
    <2>3. Typed /\ OthersStay(d) /\ Returns(d) /\ result'[d] = "ErrNotFound"
      BY <1>2, <2>1, <2>2, ReturnIs
    <2>4. ~Changed
      BY <2>1 DEF Changed
    <2> QED BY <2>3, <2>4 DEF Step, ResultIs
  <1>4. CASE ReadDoc(d) /\ doc # NoDoc
    <2>1. GoTo(d, "update") /\ mine' = [mine EXCEPT ![d] = doc] /\ doc' = doc /\ phase[d] = "start"
      BY <1>4 DEF ReadDoc, At
    <2>2. mine' \in [Callers -> Documents] /\ \A e \in Callers \ {d} : mine'[e] = mine[e]
      BY <1>1, <1>4, <2>1, DocTyped
    <2>3. /\ Typed /\ OthersStay(d) /\ result'[d] = result[d] /\ phase'[d] = "update"
          /\ program'[d] = program[d] /\ tries'[d] = tries[d]
      BY <2>1, <2>2, GoToIs
    <2>4. mine'[d] = doc'
      BY <1>1, <2>1
    <2>5. ~Behind(d)'
      BY <2>4 DEF Behind, Precondition
    <2>6. Stays(d)
      BY <1>2, <2>1, <2>3, <2>5, GoingOn
    <2>7. ~Changed
      BY <2>1 DEF Changed
    <2> QED BY <2>3, <2>6, <2>7 DEF Step, ResultIs
  <1>5. CASE UpdateDoc(d)
    <2>1. GoTo(d, "reread") /\ mine' = mine /\ phase[d] = "update"
      BY <1>5 DEF UpdateDoc
    <2>2. mine' \in [Callers -> Documents] /\ \A e \in Callers \ {d} : mine'[e] = mine[e]
      BY <1>1, <2>1
    <2>3. /\ Typed /\ OthersStay(d) /\ result'[d] = result[d] /\ phase'[d] = "reread"
          /\ program'[d] = program[d] /\ tries'[d] = tries[d]
      BY <2>1, <2>2, GoToIs
    <2>4. ~Behind(d)'
      BY <2>3 DEF Behind
    <2>5. Stays(d)
      BY <1>2, <2>1, <2>3, <2>4, GoingOn
    <2>6. Writes(d)
      BY <1>2, <2>1, <2>3 DEF Writes
    <2> QED BY <2>3, <2>5, <2>6 DEF Step, ResultIs
  <1>6. CASE Wake(d)
    <2>1. GoTo(d, "start") /\ mine' = mine /\ doc' = doc /\ phase[d] = "wait"
      BY <1>6 DEF Wake
    <2>2. mine' \in [Callers -> Documents] /\ \A e \in Callers \ {d} : mine'[e] = mine[e]
      BY <1>1, <2>1
    <2>3. /\ Typed /\ OthersStay(d) /\ result'[d] = result[d] /\ phase'[d] = "start"
          /\ program'[d] = program[d] /\ tries'[d] = tries[d]
      BY <2>1, <2>2, GoToIs
    <2>4. ~Behind(d)'
      BY <2>3 DEF Behind
    <2>5. Stays(d)
      BY <1>2, <2>1, <2>3, <2>4, GoingOn
    <2>6. ~Changed
      BY <2>1 DEF Changed
    <2> QED BY <2>3, <2>5, <2>6 DEF Step, ResultIs
  <1>7. CASE UpdateRefused(d)
    <2>1. mine' = mine /\ doc' = doc /\ phase[d] = "update"
      BY <1>7 DEF UpdateRefused
    <2>2. mine' \in [Callers -> Documents] /\ \A e \in Callers \ {d} : mine'[e] = mine[e]
      BY <1>1, <2>1
    <2>3. ~Changed
      BY <2>1 DEF Changed
    <2>4. CASE doc = NoDoc /\ Return(d, "ErrNotFound")
      <3>1. Typed /\ OthersStay(d) /\ Returns(d) /\ result'[d] = "ErrNotFound"
        BY <1>2, <2>2, <2>4, ReturnIs
      <3> QED BY <2>3, <3>1 DEF Step, ResultIs
    <2>5. CASE doc # NoDoc /\ ~Precondition(d) /\ ~Again(d) /\ Return(d, "ErrPreconditionFailed")
      <3>1. Typed /\ OthersStay(d) /\ Returns(d) /\ result'[d] = "ErrPreconditionFailed"
        BY <1>2, <2>2, <2>5, ReturnIs
      <3>2. Behind(d) /\ ~Again(d)
        BY <2>1, <2>5 DEF Behind
      <3> QED BY <2>3, <3>1, <3>2 DEF Step, ResultIs
    <2>6. CASE /\ doc # NoDoc /\ ~Precondition(d) /\ Again(d)
               /\ phase' = [phase EXCEPT ![d] = "wait"]
               /\ tries' = [tries EXCEPT ![d] = @ + 1]
               /\ UNCHANGED <<program, result>>
      <3>1. PICK n \in Nat : n = tries[d]
        BY <1>1
      <3>2. tries' = [tries EXCEPT ![d] = n + 1] /\ n + 1 \in Nat
        BY <2>6, <3>1
      <3>3. Typed
        BY <1>1, <2>2, <2>6, <3>2 DEF Typed
      <3>4. OthersStay(d)
        BY <1>1, <2>2, <2>6, <3>2 DEF OthersStay
      <3>5. phase'[d] = "wait" /\ tries'[d] = n + 1 /\ program'[d] = program[d] /\ result'[d] = result[d]
        BY <1>1, <2>6, <3>2
      <3>6. Refusals(d) = n + 1
        <4>1. Behind(d)
          BY <2>1, <2>6 DEF Behind
        <4> QED BY <3>1, <4>1 DEF Refusals
      <3>7. Refusals(d)' = tries'[d] + 0
        <4>1. ~Behind(d)'
          BY <3>5 DEF Behind
        <4> QED BY <4>1, LaterRefusalsAre
      <3>8. Refusals(d)' <= Refusals(d)
        BY <3>1, <3>5, <3>6, <3>7
      <3>9. Stays(d)
        BY <1>2, <2>1, <3>5, <3>8 DEF Stays
      <3> QED BY <2>3, <3>3, <3>4, <3>5, <3>9 DEF Step, ResultIs
    <2> QED BY <1>7, <2>4, <2>5, <2>6 DEF UpdateRefused
  <1> QED BY <1>3, <1>4, <1>5, <1>6, <1>7

\* A caller is where it was, or one call further.
LEMMA OverIs ==
  ASSUME RetryInv, NEW d \in Callers, Step(d), UNCHANGED given, NEW e \in Callers
  PROVE  /\ Over(e) \in Nat /\ Over(e)' \in Nat
         /\ IF e = d /\ Returns(d) THEN Over(e)' = Over(e) + 1 ELSE Over(e)' = Over(e)
         /\ InPlace(e)'
  <1>1. given[e] \in Seq(STRING) /\ program[e] \in Seq(STRING) /\ InPlace(e)
    BY DEF RetryInv
  <1>2. PICK n \in Nat, m \in Nat : n = Len(given[e]) /\ m = Len(program[e]) /\ m <= n
    BY <1>1 DEF InPlace
  <1>3. Over(e) = n - m /\ Over(e) \in Nat
    BY <1>2 DEF Over
  <1>4. /\ phase[e] # "start" => program[e] # <<>>
        /\ phase[e] \in {"update", "wait", "reread"} => Head(program[e]) = "increment"
        /\ \A i \in 1..m : program[e][i] = given[e][n - m + i]
    BY <1>1, <1>2, <1>3 DEF InPlace
  <1>5. CASE program'[e] = program[e]
    <2>1. Over(e)' = n - m
      BY <1>2, <1>5 DEF Over
    <2>2. /\ phase'[e] # "start" => program[e] # <<>>
          /\ phase'[e] \in {"update", "wait", "reread"} => Head(program[e]) = "increment"
      <3>1. CASE e = d /\ Stays(d)
        BY <3>1 DEF Stays
      <3>2. CASE e = d /\ Returns(d)
        BY <3>2 DEF Returns
      <3>3. CASE e # d
        <4>1. phase'[e] = phase[e]
          BY <3>3 DEF Step, OthersStay
        <4> QED BY <1>4, <4>1
      <3> QED BY <3>1, <3>2, <3>3 DEF Step
    <2>3. InPlace(e)'
      <3>1. /\ Len(program'[e]) = m /\ Len(given'[e]) = n /\ m <= n
            /\ \A i \in 1..m : program'[e][i] = given'[e][Over(e)' + i]
        BY <1>2, <1>4, <1>5, <2>1
      <3>2. /\ phase'[e] # "start" => program'[e] # <<>>
            /\ phase'[e] \in {"update", "wait", "reread"} => Head(program'[e]) = "increment"
        BY <1>5, <2>2
      <3> QED BY <3>1, <3>2 DEF InPlace
    <2>4. ~(e = d /\ Returns(d))
      <3>1. SUFFICES ASSUME e = d, Returns(d) PROVE FALSE
        OBVIOUS
      <3>2. program[e] # <<>> /\ program[e] = Tail(program[e])
        BY <1>5, <3>1 DEF Returns
      <3>3. Len(Tail(program[e])) = Len(program[e]) - 1
        BY <1>1, <3>2, HeadTailProperties
      <3>4. m = m - 1
        BY <1>2, <3>2, <3>3
      <3> QED BY ONLY <3>4, m \in Nat
    <2> QED BY <1>3, <2>1, <2>3, <2>4
  <1>6. CASE program'[e] # program[e]
    <2>1. e = d /\ Returns(d)
      BY <1>6 DEF Step, OthersStay, Stays
    <2>2. PICK t : t = Tail(program[e]) /\ program'[e] = t /\ phase'[e] = "start" /\ program[e] # <<>>
      BY <2>1 DEF Returns
    <2>3. t \in Seq(STRING) /\ Len(t) = m - 1 /\ \A i \in 1..(m - 1) : t[i] = program[e][i + 1]
      <3>1. /\ Tail(program[e]) \in Seq(STRING) /\ Len(Tail(program[e])) = Len(program[e]) - 1
            /\ \A i \in 1..Len(Tail(program[e])) : Tail(program[e])[i] = program[e][i + 1]
        <4>1. program[e] # <<>> /\ program[e] \in Seq(STRING)
          BY <1>1, <2>2
        <4> QED BY ONLY <4>1, HeadTailProperties
      <3> QED BY <1>2, <2>2, <3>1
    <2>4. m - 1 \in Nat
      BY <1>2, <2>3, LenProperties
    <2>5. Over(e)' = n - (m - 1)
      BY <1>2, <2>2, <2>3 DEF Over
    <2>6. ASSUME NEW i \in 1..(m - 1) PROVE t[i] = given[e][n - (m - 1) + i]
      <3>1. i + 1 \in 1..m /\ n - m + (i + 1) = n - (m - 1) + i
        BY ONLY n \in Nat, m \in Nat, i \in 1..(m - 1)
      <3>2. program[e][i + 1] = given[e][n - m + (i + 1)]
        BY <1>4, <3>1
      <3> QED BY <2>3, <3>1, <3>2
    <2>7. InPlace(e)'
      <3>1. /\ Len(program'[e]) = m - 1 /\ Len(given'[e]) = n /\ m - 1 <= n
            /\ \A i \in 1..(m - 1) : program'[e][i] = given'[e][Over(e)' + i]
        <4>1. Len(program'[e]) = m - 1 /\ Len(given'[e]) = n /\ program'[e] = t /\ given'[e] = given[e]
          BY <1>2, <2>2, <2>3
        <4>2. m - 1 <= n
          <5>1. m <= n
            BY <1>2
          <5> QED BY ONLY <5>1, n \in Nat, m \in Nat
        <4> QED BY <2>5, <2>6, <4>1, <4>2
      <3> QED BY <2>2, <3>1 DEF InPlace
    <2> QED BY <1>2, <1>3, <2>1, <2>4, <2>5, <2>7
  <1> QED BY <1>5, <1>6

\* What is done stays done.
LEMMA DoneStaysDone ==
  ASSUME RetryInv, NEW d \in Callers, Step(d), UNCHANGED given, NEW c \in Callers
  PROVE  Changes(c)' = Changes(c) /\ Done(c) \subseteq Done(c)'
  <1>1. Changes(c)' = Changes(c)
    BY DEF Changes
  <1>2. ASSUME NEW x \in Changes(c), IsDone(x) PROVE IsDone(x)'
    <2>1. PICK e \in Callers, i \in Nat : x = <<e, i>> /\ x[1] = e /\ x[2] = i
      <3>1. \A f \in Callers : given[f] \in Seq(STRING) /\ DOMAIN given[f] \subseteq Nat
        BY DEF RetryInv
      <3> QED BY <3>1 DEF Changes
    <2>2. /\ Over(e) \in Nat /\ Over(e)' \in Nat
          /\ IF e = d /\ Returns(d) THEN Over(e)' = Over(e) + 1 ELSE Over(e)' = Over(e)
      BY OverIs
    <2>3. i <= Over(e) \/ (i = Over(e) + 1 /\ phase[e] \in {"stamp", "remove", "reread"})
      BY <1>2, <2>1 DEF IsDone
    <2>4. i <= Over(e)' \/ (i = Over(e)' + 1 /\ phase'[e] \in {"stamp", "remove", "reread"})
      <3>1. CASE e = d /\ Returns(d)
        BY <2>2, <2>3, <3>1
      <3>2. CASE ~(e = d /\ Returns(d))
        <4>1. Over(e)' = Over(e)
          BY <2>2, <3>2
        <4>2. phase[e] \in {"stamp", "remove", "reread"} => phase'[e] \in {"stamp", "remove", "reread"}
          BY <3>2 DEF Step, OthersStay, Stays
        <4> QED BY <2>3, <4>1, <4>2
      <3> QED BY <3>1, <3>2
    <2> QED BY <2>1, <2>4 DEF IsDone
  <1> QED BY <1>1, <1>2 DEF Done

\* A change of the version is one more that is done, to all others.
LEMMA ChangeIsDone ==
  ASSUME RetryInv, NEW d \in Callers, Step(d), UNCHANGED given, Changed, NEW c \in Callers, c # d
  PROVE  \E x \in Done(c)' : x \notin Done(c)
  <1>1. Writes(d)
    BY DEF Step
  <1>2. given[d] \in Seq(STRING) /\ program[d] \in Seq(STRING) /\ InPlace(d)
    BY DEF RetryInv
  <1>3. program[d] # <<>> /\ Head(program[d]) \in {"create", "set", "increment"} /\ program'[d] = program[d]
    BY <1>1 DEF Writes
  <1>4. PICK n \in Nat, m \in Nat : n = Len(given[d]) /\ m = Len(program[d]) /\ m <= n /\ m > 0
    BY <1>2, <1>3 DEF InPlace
  <1>5. Over(d) = n - m /\ Over(d)' = n - m
    BY <1>3, <1>4 DEF Over
  <1>6. given[d][n - m + 1] \in {"create", "set", "increment"} /\ n - m + 1 \in DOMAIN given[d]
    <2>1. 1 \in 1..m /\ n - m + 1 \in 1..n
      <3>1. m <= n /\ m > 0
        BY <1>4
      <3> QED BY ONLY <3>1, n \in Nat, m \in Nat
    <2>2. program[d][1] = given[d][n - m + 1]
      BY <1>2, <1>4, <1>5, <2>1 DEF InPlace
    <2>3. Head(program[d]) = program[d][1]
      BY <1>2, <1>3
    <2>4. DOMAIN given[d] = 1..n
      BY <1>2, <1>4
    <2> QED BY <1>3, <2>1, <2>2, <2>3, <2>4
  <1>7. PICK x : x = <<d, n - m + 1>> /\ x[1] = d /\ x[2] = n - m + 1
    <2>1. PICK k : k = n - m + 1
      OBVIOUS
    <2>2. <<d, k>>[1] = d /\ <<d, k>>[2] = k
      OBVIOUS
    <2> QED BY <2>1, <2>2
  <1>8. x \in Changes(c) /\ x \in Changes(c)'
    <2>1. x \in Changes(c)
      BY <1>6, <1>7 DEF Changes
    <2> QED BY <2>1, DoneStaysDone
  <1>9. ~IsDone(x)
    BY <1>1, <1>4, <1>5, <1>7 DEF IsDone, Writes
  <1>10. IsDone(x)'
    <2>1. phase'[d] \in {"stamp", "remove", "reread"}
      BY <1>1 DEF Writes
    <2> QED BY <1>5, <1>7, <2>1 DEF IsDone
  <1> QED BY <1>8, <1>9, <1>10 DEF Done

\* One refusal more takes one change more.
LEMMA RefusalsStayBounded ==
  ASSUME RetryInv, NEW d \in Callers, Step(d), UNCHANGED given, NEW c \in Callers
  PROVE  Refusals(c)' <= Cardinality(Done(c)')
  <1>1. IsFiniteSet(Changes(c))
    BY ChangesAreFinite DEF RetryInv
  <1>2. Done(c) \subseteq Done(c)' /\ Done(c)' \subseteq Changes(c)
    BY DoneStaysDone DEF Done
  <1>3. IsFiniteSet(Done(c)') /\ IsFiniteSet(Done(c))
    BY <1>1, <1>2, FS_Subset
  <1>4. PICK a \in Nat, b \in Nat : a = Cardinality(Done(c)) /\ b = Cardinality(Done(c)') /\ a <= b
    BY <1>2, <1>3, FS_CardinalityType, FS_Subset
  <1>5. PICK r \in Nat : r = Refusals(c) /\ r <= a /\ tries[c] \in Nat /\ tries[c] <= r
    BY <1>4, RefusalsAre DEF RetryInv
  <1>6. CASE c = d /\ Returns(d)
    <2>1. ~Behind(c)' /\ tries'[c] = 0
      BY <1>6 DEF Behind, Returns
    <2>2. Refusals(c)' = 0 + 0
      BY <2>1, LaterRefusalsAre
    <2> QED BY <1>4, <2>2
  <1>7. CASE c = d /\ Stays(d)
    <2>1. PICK q : q = Refusals(c)'
      OBVIOUS
    <2>2. q <= r
      BY <1>5, <1>7, <2>1 DEF Stays
    <2>3. q \in Nat
      <3>1. tries'[c] \in Nat
        BY DEF Step, Typed
      <3> QED BY <2>1, <3>1 DEF Refusals
    <2> QED BY <1>4, <1>5, <2>1, <2>2, <2>3
  <1>8. CASE c # d
    <2>1. phase'[c] = phase[c] /\ tries'[c] = tries[c] /\ mine'[c] = mine[c]
      BY <1>8 DEF Step, OthersStay
    <2>2. CASE ~Behind(c)'
      <3>1. Refusals(c)' = tries[c] + 0
        BY <2>1, <2>2, LaterRefusalsAre
      <3> QED BY <1>4, <1>5, <3>1
    <2>3. CASE Behind(c) /\ Behind(c)'
      <3>1. Refusals(c)' = Refusals(c)
        BY <2>1, <2>3 DEF Refusals
      <3> QED BY <1>4, <1>5, <3>1
    <2>4. CASE ~Behind(c) /\ Behind(c)'
      <3>1. Changed
        BY <2>1, <2>4 DEF Behind, Precondition, Changed
      <3>2. Done(c)' # Done(c)
        BY <1>8, <3>1, ChangeIsDone
      <3>3. a < b
        BY <1>2, <1>3, <1>4, <3>2, FS_Subset
      <3>4. Refusals(c)' = tries[c] + 1
        BY <2>1, <2>4 DEF Refusals
      <3> QED BY <1>4, <1>5, <3>3, <3>4
    <2> QED BY <2>2, <2>3, <2>4
  <1> QED BY <1>6, <1>7, <1>8 DEF Step

\* The step that gives up has met as many changes as its strategy allows calls.
LEMMA GivingUpIsEarned ==
  ASSUME RetryInv, NEW d \in Callers, Step(d), UNCHANGED given, faults = 0
  PROVE  NobodyStarves'
  <1> SUFFICES ASSUME NEW c \in Callers, Cardinality(Changes(c)') < Limit,
                      result'[c] = "ErrPreconditionFailed"
               PROVE  FALSE
    BY DEF NobodyStarves
  <1>1. Cardinality(Changes(c)) < Limit
    BY DoneStaysDone
  <1>2. result[c] # "ErrPreconditionFailed"
    BY <1>1 DEF RetryInv, NobodyStarves
  <1>3. c = d
    BY <1>2 DEF Step, OthersStay
  <1>4. Behind(c) /\ ~Again(c)
    BY <1>2, <1>3 DEF Step, ResultIs
  <1>5. PICK t \in Nat : t = tries[c] /\ Refusals(c) = t + 1
    BY <1>4 DEF RetryInv, Refusals
  <1>6. IsFiniteSet(Changes(c)) /\ Done(c) \subseteq Changes(c)
    BY ChangesAreFinite DEF RetryInv, Done
  <1>7. PICK a \in Nat, b \in Nat : a = Cardinality(Done(c)) /\ b = Cardinality(Changes(c)) /\ a <= b
    BY <1>6, FS_Subset, FS_CardinalityType
  <1>8. t + 1 <= a
    BY <1>5, <1>7 DEF RetryInv
  <1>9. ~(t + 1 < Limit)
    BY <1>4, <1>5 DEF Again
  <1>10. b < Limit /\ Limit \in Nat
    BY <1>1, <1>7, PartitionAssumption
  <1> QED BY <1>5, <1>7, <1>8, <1>9, <1>10

LEMMA FaultlessInit == StoreInit /\ CountIsVersion => FaultlessInv
  <1> SUFFICES ASSUME StoreInit, CountIsVersion PROVE FaultlessInv
    OBVIOUS
  <1>1. given \in [Callers -> Seq(STRING)] /\ program = given
    BY PartitionAssumption DEF StoreInit
  <1>2. phase = [c \in Callers |-> "start"] /\ tries = [c \in Callers |-> 0] /\ faults = 0
        /\ result = [c \in Callers |-> "nil"]
    BY DEF StoreInit
  <1>3. ASSUME NEW c \in Callers PROVE InPlace(c) /\ Refusals(c) <= Cardinality(Done(c))
    <2>1. phase[c] = "start" /\ tries[c] = 0
      BY <1>2
    <2>2. PICK n \in Nat : n = Len(given[c]) /\ n = Len(program[c])
      BY <1>1
    <2>3. Over(c) = 0
      BY <2>2 DEF Over
    <2>4. InPlace(c)
      BY <1>1, <2>1, <2>2, <2>3 DEF InPlace
    <2>5. Refusals(c) = 0
      BY <2>1 DEF Refusals, Behind
    <2>6. Cardinality(Done(c)) \in Nat
      <3>1. IsFiniteSet(Changes(c)) /\ Done(c) \subseteq Changes(c)
        BY <1>1, ChangesAreFinite DEF Done
      <3> QED BY <3>1, FS_Subset, FS_CardinalityType
    <2> QED BY <2>4, <2>5, <2>6
  <1>4. NobodyStarves
    BY <1>2 DEF NobodyStarves
  <1>5. tries \in [Callers -> Nat] /\ DOMAIN phase = Callers /\ DOMAIN result = Callers
    BY <1>2
  <1>6. RetryInv
    BY <1>1, <1>3, <1>4, <1>5 DEF RetryInv
  <1> QED BY <1>2, <1>6 DEF FaultlessInv

LEMMA FaultlessNext ==
  FaultlessInv /\ CountIsVersion' /\ [StoreNext]_storeVars => FaultlessInv'
  <1> SUFFICES ASSUME FaultlessInv, CountIsVersion', [StoreNext]_storeVars PROVE FaultlessInv'
    OBVIOUS
  <1>1. CASE UNCHANGED storeVars
    <2>1. UNCHANGED <<doc, given, program, phase, mine, tries, result, faults>>
      BY <1>1 DEF storeVars
    <2>2. \A c \in Callers : Changes(c)' = Changes(c)
      BY <2>1 DEF Changes
    <2>3. \A c \in Callers : /\ InPlace(c)' <=> InPlace(c)
                             /\ Refusals(c)' = Refusals(c)
                             /\ Done(c)' = Done(c)
      BY <2>1, <2>2 DEF InPlace, Refusals, Behind, Precondition, Done, IsDone, Over
    <2>4. NobodyStarves' <=> NobodyStarves
      BY <2>1, <2>2 DEF NobodyStarves
    <2> QED BY <2>1, <2>3, <2>4 DEF FaultlessInv, RetryInv
  <1>2. CASE faults' # 0
    <2>1. faults \in Nat /\ (faults' = faults \/ faults' = faults + 1)
      BY DEF FaultlessInv, StoreNext, storeVars, StoreDoc, StoreDocFails, StampDoc, StampDocFails,
             RemoveDoc, RemoveDocFails, DeleteDoc, OtherCall, ReadDoc, UpdateDoc, UpdateRefused,
             UpdateFails, Wake, Cancelled, RereadDoc, Die, MayFail
    <2> QED BY <1>2, <2>1 DEF FaultlessInv
  <1>3. ASSUME NEW d \in Callers, UNCHANGED given, Step(d), RetryInv, faults = 0, faults' = 0
        PROVE  FaultlessInv'
    <2>1. \A c \in Callers : InPlace(c)' /\ Refusals(c)' <= Cardinality(Done(c)')
      BY <1>3, OverIs, RefusalsStayBounded
    <2>2. NobodyStarves'
      BY <1>3, GivingUpIsEarned
    <2>3. given' \in [Callers -> Seq(STRING)]
      BY <1>3 DEF RetryInv
    <2>4. RetryInv'
      BY <1>3, <2>1, <2>2, <2>3 DEF RetryInv, Step, Typed
    <2> QED BY <1>3, <2>4 DEF FaultlessInv
  <1>4. ASSUME NEW d \in Callers, MayFail PROVE faults' # 0
    BY <1>4 DEF MayFail, FaultlessInv
  <1>5. ASSUME faults' = 0, StoreNext PROVE FaultlessInv'
    <2>1. PICK d \in Callers :
            \/ StoreDoc(d) \/ StampDoc(d) \/ RemoveDoc(d) \/ DeleteDoc(d) \/ OtherCall(d)
            \/ ReadDoc(d) \/ UpdateDoc(d) \/ UpdateRefused(d) \/ Wake(d) \/ RereadDoc(d)
      BY <1>4, <1>5 DEF StoreNext, StoreDocFails, StampDocFails, RemoveDocFails, UpdateFails,
                        Cancelled, Die
    <2>2. faults = 0
      BY <1>5, <2>1 DEF StoreDoc, StampDoc, RemoveDoc, DeleteDoc, OtherCall, ReadDoc, UpdateDoc,
                        UpdateRefused, Wake, RereadDoc
    <2>3. RetryInv
      BY <2>2 DEF FaultlessInv
    <2>4. Step(d)
      BY <2>1, <2>3, StoresAreSteps, CallsAreSteps, UpdatesAreSteps
    <2>5. UNCHANGED given
      BY <1>5 DEF StoreNext
    <2> QED BY <1>3, <1>5, <2>2, <2>3, <2>4, <2>5
  <1> QED BY <1>1, <1>2, <1>5

LEMMA StarvationInvariance == StoreSpec => []NobodyStarves
  <1>1. StoreSpec => []CountIsVersion
    <2>1. StoreInv => CountIsVersion
      BY DEF StoreInv
    <2> QED BY <2>1, StoreInvariance, PTL
  <1>2. StoreInit /\ CountIsVersion => FaultlessInv
    BY FaultlessInit
  <1>3. FaultlessInv /\ CountIsVersion' /\ [StoreNext]_storeVars => FaultlessInv'
    BY FaultlessNext
  <1>4. FaultlessInv => NobodyStarves
    BY DEF FaultlessInv, RetryInv, NobodyStarves
  <1> QED BY <1>1, <1>2, <1>3, <1>4, PTL DEF StoreSpec

-----------------------------------------------------------------------------
(***************************************************************************)
(* Backoff.  How long a retry sleeps.                                      *)
(***************************************************************************)
\* The lesser and the greater of two integers.
LEMMA MinMaxAre ==
  ASSUME NEW a \in Int, NEW b \in Int
  PROVE  /\ Min({a, b}) = IF a <= b THEN a ELSE b
         /\ Max({a, b}) = IF a <= b THEN b ELSE a
  <1>1. Min({a, b}) \in {a, b} /\ \A y \in {a, b} : Min({a, b}) =< y
    <2>1. \E x \in {a, b} : \A y \in {a, b} : x =< y
      BY a <= b \/ b <= a
    <2> QED BY <2>1 DEF Min
  <1>2. Max({a, b}) \in {a, b} /\ \A y \in {a, b} : Max({a, b}) >= y
    <2>1. \E x \in {a, b} : \A y \in {a, b} : x >= y
      BY a <= b \/ b <= a
    <2> QED BY <2>1 DEF Max
  <1> QED BY <1>1, <1>2

\* Induction, for a set of naturals.
IntPair(a, b) == Min({a, b}) \in Int /\ Max({a, b}) \in Int

LEMMA MinMaxAreIntegers ==
  ASSUME NEW a \in Int, NEW b \in Int
  PROVE  IntPair(a, b)
  BY MinMaxAre DEF IntPair

Doubles(h, n, k) == h = [i \in 0..k |-> IF i = 0 THEN n ELSE 2 * h[i - 1]]

\* The recursion of Doublings has a solution, and one only.
LEMMA DoublesExist ==
  ASSUME NEW n, NEW k \in Nat
  PROVE  \E h : Doubles(h, n, k)
  <1>1. PICK G : G = {j \in Nat : \E h : Doubles(h, n, j)}
    OBVIOUS
  <1>2. 0 \in G
    <2>1. PICK h : h = [i \in 0..0 |-> n]
      OBVIOUS
    <2>2. Doubles(h, n, 0)
      BY <2>1 DEF Doubles
    <2> QED BY <1>1, <2>2
  <1>3. ASSUME NEW j \in Nat, j \in G PROVE j + 1 \in G
    <2>1. PICK h : Doubles(h, n, j)
      BY <1>1, <1>3
    <2>2. PICK g : g = [i \in 0..(j + 1) |-> IF i = j + 1 THEN 2 * h[j] ELSE h[i]]
      OBVIOUS
    <2>3. ASSUME NEW i \in 0..(j + 1) PROVE g[i] = IF i = 0 THEN n ELSE 2 * g[i - 1]
      <3>1. \A x \in 0..j : g[x] = h[x] /\ h[x] = IF x = 0 THEN n ELSE 2 * h[x - 1]
        BY <2>1, <2>2 DEF Doubles
      <3>2. CASE i = j + 1
        <4>1. i # 0 /\ i - 1 = j /\ j \in 0..j
          BY <3>2
        <4>2. g[i] = 2 * h[j] /\ g[j] = h[j]
          BY <2>2, <3>1, <3>2, <4>1
        <4> QED BY <4>1, <4>2
      <3>3. CASE i # j + 1
        <4>1. i \in 0..j
          BY <3>3
        <4>2. CASE i = 0
          BY <3>1, <4>1, <4>2
        <4>3. CASE i # 0
          <5>1. i - 1 \in 0..j
            BY <4>1, <4>3
          <5> QED BY <3>1, <4>1, <4>3, <5>1
        <4> QED BY <4>2, <4>3
      <3> QED BY <3>2, <3>3
    <2>4. g = [i \in 0..(j + 1) |-> IF i = 0 THEN n ELSE 2 * g[i - 1]]
      BY <2>2, <2>3
    <2> QED BY <1>1, <2>4 DEF Doubles
  <1>4. Nat \subseteq G
    BY <1>2, <1>3, NatSteps
  <1> QED BY <1>1, <1>4

LEMMA DoublesAgree ==
  ASSUME NEW n, NEW j \in Nat, NEW k \in Nat, NEW g, NEW h, Doubles(g, n, j), Doubles(h, n, k),
         j <= k
  PROVE  g[j] = h[j]
  <1>1. PICK G : G = {i \in Nat : i <= j => g[i] = h[i]}
    OBVIOUS
  <1>2. /\ \A i \in 0..j : g[i] = IF i = 0 THEN n ELSE 2 * g[i - 1]
        /\ \A i \in 0..k : h[i] = IF i = 0 THEN n ELSE 2 * h[i - 1]
    BY DEF Doubles
  <1>3. 0 \in G
    BY <1>1, <1>2
  <1>4. ASSUME NEW i \in Nat, i \in G PROVE i + 1 \in G
    <2>1. CASE ~(i + 1 <= j)
      BY <1>1, <2>1
    <2>2. CASE i + 1 <= j
      <3>1. i + 1 \in 0..j /\ i + 1 \in 0..k /\ i + 1 # 0 /\ (i + 1) - 1 = i /\ i <= j
        BY <2>2
      <3>2. g[i] = h[i]
        BY <1>1, <1>4, <3>1
      <3>3. g[i + 1] = 2 * g[i] /\ h[i + 1] = 2 * h[i]
        BY <1>2, <3>1
      <3> QED BY <1>1, <3>2, <3>3
    <2> QED BY <2>1, <2>2
  <1>5. Nat \subseteq G
    BY <1>3, <1>4, NatSteps
  <1> QED BY <1>1, <1>5

LEMMA DoublingsAre ==
  ASSUME NEW n \in Int
  PROVE  /\ Doublings(n, 0) = n
         /\ \A k \in Nat : Doublings(n, k + 1) = 2 * Doublings(n, k) /\ Doublings(n, k) \in Int
  <1>1. ASSUME NEW k \in Nat
        PROVE  \E h : Doubles(h, n, k) /\ Doublings(n, k) = h[k]
    <2>1. PICK h : h = CHOOSE f : f = [i \in 0..k |-> IF i = 0 THEN n ELSE 2 * f[i - 1]]
      OBVIOUS
    <2>2. Doubles(h, n, k)
      <3>1. PICK g : Doubles(g, n, k)
        BY DoublesExist
      <3>2. g = [i \in 0..k |-> IF i = 0 THEN n ELSE 2 * g[i - 1]]
        BY <3>1 DEF Doubles
      <3>3. h = [i \in 0..k |-> IF i = 0 THEN n ELSE 2 * h[i - 1]]
        BY <2>1, <3>2
      <3> QED BY <3>3 DEF Doubles
    <2>3. Doublings(n, k) = h[k]
      BY <2>1 DEF Doublings
    <2> QED BY <2>2, <2>3
  <1>2. Doublings(n, 0) = n
    <2>1. PICK h : Doubles(h, n, 0) /\ Doublings(n, 0) = h[0]
      BY <1>1
    <2> QED BY <2>1 DEF Doubles
  <1>3. ASSUME NEW k \in Nat PROVE Doublings(n, k + 1) = 2 * Doublings(n, k)
    <2>1. PICK g : Doubles(g, n, k) /\ Doublings(n, k) = g[k]
      BY <1>1
    <2>2. PICK h : Doubles(h, n, k + 1) /\ Doublings(n, k + 1) = h[k + 1]
      BY <1>1
    <2>3. k + 1 \in 0..(k + 1) /\ k + 1 # 0 /\ (k + 1) - 1 = k /\ k + 1 \in Nat /\ k <= k + 1
      OBVIOUS
    <2>4. h[k + 1] = 2 * h[k]
      BY <2>2, <2>3 DEF Doubles
    <2>5. g[k] = h[k]
      <3>1. Doubles(g, n, k) /\ Doubles(h, n, k + 1)
        BY <2>1, <2>2
      <3>2. PICK j \in Nat : j = k + 1 /\ k <= j
        BY <2>3
      <3>3. Doubles(h, n, j)
        BY <3>1, <3>2
      <3> QED BY ONLY k \in Nat, <3>1, <3>2, <3>3, DoublesAgree
    <2> QED BY <2>1, <2>2, <2>4, <2>5
  <1>4. PICK G : G = {k \in Nat : Doublings(n, k) \in Int}
    OBVIOUS
  <1>5. Nat \subseteq G
    <2>1. 0 \in G
      BY <1>2, <1>4
    <2>2. ASSUME NEW k \in Nat, k \in G PROVE k + 1 \in G
      BY <1>3, <1>4, <2>2
    <2> QED BY <2>1, <2>2, NatSteps
  <1> QED BY <1>2, <1>3, <1>4, <1>5

\* Doubling never makes a positive number less.
LEMMA DoublingsGrow ==
  ASSUME NEW n \in Int, n > 0, NEW k \in Nat
  PROVE  Doublings(n, k) \in Int /\ Doublings(n, k) >= n
  <1>1. PICK G : G = {j \in Nat : Doublings(n, j) >= n}
    OBVIOUS
  <1>2. 0 \in G
    BY <1>1, DoublingsAre
  <1>3. ASSUME NEW j \in Nat, j \in G PROVE j + 1 \in G
    <2>1. Doublings(n, j + 1) = 2 * Doublings(n, j) /\ Doublings(n, j) \in Int
      BY DoublingsAre
    <2> QED BY <1>1, <1>3, <2>1
  <1>4. Nat \subseteq G
    BY <1>2, <1>3, NatSteps
  <1> QED BY <1>1, <1>4, DoublingsAre

-----------------------------------------------------------------------------
\* The sleep before the i-th retry, in closed form.
Sleep(min, max, i) ==
  IF min <= 0 \/ min >= max THEN min
  ELSE IF Doublings(min, i - 1) <= max THEN Doublings(min, i - 1) ELSE max

\* What the loop of ExponentialStrategy makes of a sleep.
Lengthened(sleep, max) ==
  IF sleep > 0 /\ sleep < max THEN Doubled(sleep, max) ELSE sleep

\* It never wraps around: a sleep up to half of max is doubled, another one
\* becomes max.
LEMMA SleepLengthens ==
  ASSUME NEW min \in Durations, NEW max \in Durations, NEW i \in Nat, i > 0
  PROVE  /\ Sleep(min, max, i + 1) = Lengthened(Sleep(min, max, i), max)
         /\ Sleep(min, max, i) \in Int
  <1>1. Half \in Nat /\ Half > 0
    BY BackoffAssumption
  <1>2. min \in Int /\ max \in Int /\ max <= Half - 1
    BY <1>1 DEF Durations
  <1>3. CASE min <= 0 \/ min >= max
    BY <1>2, <1>3 DEF Sleep, Lengthened
  <1>4. CASE min > 0 /\ min < max
    <2>1. PICK d : d = Doublings(min, i - 1)
      OBVIOUS
    <2>2. i - 1 \in Nat /\ (i - 1) + 1 = i /\ (i + 1) - 1 = i
      OBVIOUS
    <2>3. d \in Int /\ d >= min
      BY <1>2, <1>4, <2>1, <2>2, DoublingsGrow
    <2>4. Doublings(min, (i + 1) - 1) = 2 * d
      <3>1. Doublings(min, (i - 1) + 1) = 2 * Doublings(min, i - 1)
        BY <1>2, <2>2, DoublingsAre
      <3> QED BY <2>1, <2>2, <3>1
    <2>5. Sleep(min, max, i) = IF d <= max THEN d ELSE max
      BY <1>2, <1>4, <2>1 DEF Sleep
    <2>6. Sleep(min, max, i + 1) = IF 2 * d <= max THEN 2 * d ELSE max
      BY <1>2, <1>4, <2>4 DEF Sleep
    <2>7. CASE d >= max
      <3>1. Sleep(min, max, i) = max /\ Sleep(min, max, i + 1) = max
        BY <1>2, <1>4, <2>3, <2>5, <2>6, <2>7
      <3> QED BY <1>2, <3>1 DEF Lengthened
    <2>8. CASE d < max
      <3>1. Sleep(min, max, i) = d /\ d > 0
        BY <1>2, <1>4, <2>3, <2>5, <2>8
      <3>2. PICK hf \in Int : hf = max \div 2
        BY <1>2
      <3>3. 2 * hf <= max /\ max < 2 * hf + 2
        BY <1>2, <3>2
      <3>4. CASE d > hf
        <4>1. 2 * d > max
          BY <1>2, <2>3, <3>3, <3>4
        <4>2. Doubled(d, max) = max
          BY <3>2, <3>4 DEF Doubled
        <4> QED BY <1>2, <2>3, <2>6, <2>8, <3>1, <4>1, <4>2 DEF Lengthened
      <3>5. CASE ~(d > hf)
        <4>1. 2 * d <= max
          BY <1>2, <2>3, <3>3, <3>5
        <4>2. Wrap(2 * d) = 2 * d
          <5>1. PICK x \in Int : x = 2 * d + Half
            BY <1>1, <2>3
          <5>2. x \in 0..(2 * Half - 1)
            BY <1>1, <1>2, <2>3, <3>1, <4>1, <5>1
          <5>3. x % (2 * Half) = x
            <6>1. PICK y \in Nat : y = 2 * Half
              BY <1>1
            <6>2. y > 0 /\ x \in 0..(y - 1)
              BY <1>1, <5>2, <6>1
            <6>3. x % y = x
              BY <6>2
            <6> QED BY <6>1, <6>3
          <5> QED BY <1>1, <2>3, <5>1, <5>3 DEF Wrap
        <4>3. Doubled(d, max) = 2 * d
          BY <3>2, <3>5, <4>2 DEF Doubled
        <4> QED BY <1>2, <2>3, <2>6, <2>8, <3>1, <4>1, <4>3 DEF Lengthened
      <3> QED BY <3>4, <3>5
    <2> QED BY <1>2, <2>3, <2>5, <2>7, <2>8
  <1> QED BY <1>2, <1>3, <1>4

\* ExponentialStrategy is the closed form.
LEMMA ExponentialIs ==
  ASSUME NEW min \in Durations, NEW max \in Durations, NEW count \in Nat, count > 0
  PROVE  ExponentialStrategy(min, max, count) = Min({Sleep(min, max, count), max})
  <1>1. PICK g : g = [i \in 1..count |-> Sleep(min, max, i)]
    OBVIOUS
  <1>2. ASSUME NEW h, h = [i \in 1..count |->
                 IF i = 1 THEN min
                 ELSE IF h[i - 1] > 0 /\ h[i - 1] < max THEN Doubled(h[i - 1], max) ELSE h[i - 1]]
        PROVE  h[count] = Sleep(min, max, count)
    <2>1. PICK G : G = {k \in Nat : k \in 1..count => h[k] = Sleep(min, max, k)}
      OBVIOUS
    <2>2. 0 \in G
      BY <2>1
    <2>3. ASSUME NEW k \in Nat, k \in G PROVE k + 1 \in G
      <3>1. CASE ~(k + 1 \in 1..count)
        BY <2>1, <3>1
      <3>2. CASE k + 1 = 1 /\ k + 1 \in 1..count
        <4>1. h[k + 1] = min
          BY <1>2, <3>2
        <4>2. Sleep(min, max, k + 1) = min
          <5>1. min \in Int /\ max \in Int
            BY BackoffAssumption DEF Durations
          <5>2. Doublings(min, 0) = min /\ (k + 1) - 1 = 0
            BY <3>2, <5>1, DoublingsAre
          <5> QED BY <5>1, <5>2 DEF Sleep
        <4> QED BY <2>1, <4>1, <4>2
      <3>3. CASE k + 1 # 1 /\ k + 1 \in 1..count
        <4>1. k \in 1..count /\ k > 0 /\ (k + 1) - 1 = k
          BY <3>3
        <4>2. h[k] = Sleep(min, max, k)
          BY <2>1, <2>3, <4>1
        <4>3. h[k + 1] = Lengthened(h[k], max)
          BY <1>2, <3>3, <4>1 DEF Lengthened
        <4>4. Sleep(min, max, k + 1) = Lengthened(Sleep(min, max, k), max)
          BY <4>1, SleepLengthens
        <4> QED BY <2>1, <4>2, <4>3, <4>4
      <3> QED BY <3>1, <3>2, <3>3
    <2>4. Nat \subseteq G
      BY <2>2, <2>3, NatSteps
    <2> QED BY <2>1, <2>4
  <1>3. g = [i \in 1..count |->
              IF i = 1 THEN min
              ELSE IF g[i - 1] > 0 /\ g[i - 1] < max THEN Doubled(g[i - 1], max) ELSE g[i - 1]]
    <2>1. ASSUME NEW i \in 1..count
          PROVE  g[i] = IF i = 1 THEN min
                        ELSE IF g[i - 1] > 0 /\ g[i - 1] < max THEN Doubled(g[i - 1], max)
                             ELSE g[i - 1]
      <3>1. CASE i = 1
        <4>1. min \in Int /\ max \in Int
          BY BackoffAssumption DEF Durations
        <4>2. Doublings(min, 0) = min /\ i - 1 = 0
          BY <3>1, <4>1, DoublingsAre
        <4>3. Sleep(min, max, i) = min
          BY <4>1, <4>2 DEF Sleep
        <4> QED BY <1>1, <3>1, <4>3
      <3>2. CASE i # 1
        <4>1. i - 1 \in Nat /\ i - 1 > 0 /\ i - 1 \in 1..count /\ (i - 1) + 1 = i
          BY <3>2
        <4>2. Sleep(min, max, (i - 1) + 1) = Lengthened(Sleep(min, max, i - 1), max)
          BY <4>1, SleepLengthens
        <4>3. g[i] = Sleep(min, max, i) /\ g[i - 1] = Sleep(min, max, i - 1)
          BY <1>1, <4>1
        <4>4. g[i] = Lengthened(g[i - 1], max)
          BY <4>1, <4>2, <4>3
        <4> QED BY <3>2, <4>4 DEF Lengthened
      <3> QED BY <3>1, <3>2
    <2> QED BY <1>1, <2>1
  <1>4. PICK f : f = CHOOSE h : h = [i \in 1..count |->
                  IF i = 1 THEN min
                  ELSE IF h[i - 1] > 0 /\ h[i - 1] < max THEN Doubled(h[i - 1], max) ELSE h[i - 1]]
    OBVIOUS
  <1>5. f = [i \in 1..count |->
              IF i = 1 THEN min
              ELSE IF f[i - 1] > 0 /\ f[i - 1] < max THEN Doubled(f[i - 1], max) ELSE f[i - 1]]
    BY <1>3, <1>4
  <1>6. f[count] = Sleep(min, max, count)
    BY <1>2, <1>5
  <1>7. ExponentialStrategy(min, max, count) = Min({f[count], max})
    BY <1>4 DEF ExponentialStrategy
  <1> QED BY <1>6, <1>7

\* What the property says of the sleep before the i-th retry.
DueSleep(min, max, i) ==
  IF min <= 0 THEN Max({0, Min({min, max})})
  ELSE Max({0, Min({Doublings(min, i - 1), max})})

LEMMA CombinedIs ==
  ASSUME shortest \in Durations, longest \in Durations, NEW count \in Nat, count > 0
  PROVE  CombinedStrategy(count) = DueSleep(shortest, longest, count)
  <1>1. PICK min \in Durations, max \in Durations : min = shortest /\ max = longest
    OBVIOUS
  <1>2. min \in Int /\ max \in Int
    BY BackoffAssumption DEF Durations
  <1>3. CombinedStrategy(count) = Max({0, Min({Sleep(min, max, count), max})})
    BY <1>1, ExponentialIs DEF CombinedStrategy
  <1>4. CASE min <= 0
    <2>1. Sleep(min, max, count) = min
      BY <1>4 DEF Sleep
    <2> QED BY <1>1, <1>3, <1>4, <2>1 DEF DueSleep
  <1>5. CASE min > 0
    <2>1. PICK d : d = Doublings(min, count - 1)
      OBVIOUS
    <2>2. d \in Int /\ d >= min
      <3>1. count - 1 \in Nat
        OBVIOUS
      <3> QED BY <1>2, <1>5, <2>1, <3>1, DoublingsGrow
    <2>3. DueSleep(min, max, count) = Max({0, Min({d, max})})
      BY <1>2, <1>5, <2>1 DEF DueSleep
    <2>4. Min({d, max}) = IF d <= max THEN d ELSE max
      BY <1>2, <2>2, MinMaxAre
    <2>5. CASE min >= max
      <3>1. Sleep(min, max, count) = min
        BY <2>5 DEF Sleep
      <3>2. Min({min, max}) = max
        BY <1>2, <2>5, MinMaxAre
      <3>3. Min({d, max}) = max
        BY <1>2, <2>2, <2>4, <2>5
      <3> QED BY <1>1, <1>3, <2>3, <3>1, <3>2, <3>3
    <2>6. CASE min < max
      <3>1. Sleep(min, max, count) = IF d <= max THEN d ELSE max
        BY <1>2, <1>5, <2>1, <2>6 DEF Sleep
      <3>2. PICK s \in Int : s = Sleep(min, max, count) /\ s <= max
        BY <1>2, <2>2, <3>1
      <3>3. Min({s, max}) = s
        BY <1>2, <3>2, MinMaxAre
      <3>4. Min({d, max}) = s
        BY <2>4, <3>1, <3>2
      <3> QED BY <1>1, <1>3, <2>3, <3>2, <3>3, <3>4
    <2> QED BY <1>2, <2>5, <2>6
  <1> QED BY <1>2, <1>4, <1>5

BackoffInv ==
  /\ shortest \in Durations /\ longest \in Durations
  /\ sleeps \in Seq(Int)
  /\ \A i \in DOMAIN sleeps : sleeps[i] = DueSleep(shortest, longest, i)

\* Every retry sleeps as long as it should.
LEMMA SleepsStayDoubled == BackoffSpec => []SleepsDouble
  <1>1. BackoffInit => BackoffInv
    BY DEF BackoffInit, BackoffInv
  <1>2. BackoffInv /\ [BackoffNext]_backoffVars => BackoffInv'
    <2> SUFFICES ASSUME BackoffInv, [BackoffNext]_backoffVars PROVE BackoffInv'
      OBVIOUS
    <2>1. CASE UNCHANGED <<shortest, longest, sleeps>>
      BY <2>1 DEF BackoffInv, DueSleep
    <2>2. ASSUME UNCHANGED <<shortest, longest>>, NEW count, count = Len(sleeps) + 1,
                 sleeps' = Append(sleeps, CombinedStrategy(count))
          PROVE  BackoffInv'
      <3>1. sleeps \in Seq(Int) /\ shortest \in Durations /\ longest \in Durations
        BY DEF BackoffInv
      <3>2. count \in Nat /\ count > 0
        BY <2>2, <3>1
      <3>3. PICK v : v = CombinedStrategy(count)
        OBVIOUS
      <3>4. v = DueSleep(shortest, longest, count)
        BY <3>1, <3>2, <3>3, CombinedIs
      <3>5. v \in Int
        <4>1. PICK min, max : min = shortest /\ max = longest /\ min \in Int /\ max \in Int
          BY <3>1, BackoffAssumption DEF Durations
        <4>2. Doublings(min, count - 1) \in Int
          <5>1. count - 1 \in Nat
            BY <3>2
          <5> QED BY <4>1, <5>1, DoublingsAre
        <4>3. PICK d \in Int : d = Doublings(min, count - 1)
          BY <4>2
        <4>4. v = IF min <= 0 THEN Max({0, Min({min, max})}) ELSE Max({0, Min({d, max})})
          BY <3>4, <4>1, <4>3 DEF DueSleep
        <4>5. IntPair(min, max) /\ IntPair(d, max)
          BY <4>1, MinMaxAreIntegers
        <4>6. PICK x : x = Min({min, max}) /\ x \in Int
          BY <4>5 DEF IntPair
        <4>7. PICK y : y = Min({d, max}) /\ y \in Int
          BY <4>5 DEF IntPair
        <4>8. IntPair(0, x) /\ IntPair(0, y)
          BY <4>6, <4>7, MinMaxAreIntegers
        <4>9. Max({0, x}) \in Int /\ Max({0, y}) \in Int
          BY <4>8 DEF IntPair
        <4> QED BY <4>4, <4>6, <4>7, <4>9
      <3>6. sleeps' = Append(sleeps, v)
        BY <2>2, <3>3
      <3>7. sleeps' \in Seq(Int)
        BY <3>1, <3>5, <3>6
      <3>8. ASSUME NEW i \in DOMAIN sleeps' PROVE sleeps'[i] = DueSleep(shortest, longest, i)
        <4>1. CASE i = count
          BY <2>2, <3>1, <3>4, <3>6, <4>1
        <4>2. CASE i # count
          <5>1. i \in DOMAIN sleeps /\ sleeps'[i] = sleeps[i]
            BY <2>2, <3>1, <3>6, <4>2
          <5> QED BY <5>1 DEF BackoffInv
        <4> QED BY <4>1, <4>2
      <3> QED BY <2>2, <3>1, <3>7, <3>8 DEF BackoffInv, DueSleep
    <2> QED BY <2>1, <2>2 DEF BackoffNext, Attempt, ContextDone, backoffVars
  <1>3. BackoffInv => SleepsDouble
    BY DEF BackoffInv, SleepsDouble, DueSleep
  <1> QED BY <1>1, <1>2, <1>3, PTL DEF BackoffSpec

(***************************************************************************)
(* Any number of callers of ConsistentUpdate, with any programs of calls   *)
(* and any limit: where nothing fails, none gives up before others have    *)
(* made as many changes as it was allowed calls; and between the calls of  *)
(* a retry, for any durations of any width, the sleeps double from the     *)
(* shortest to the longest, without ever wrapping around.                  *)
(***************************************************************************)
THEOREM RetriesStayBounded == StoreSpec /\ BackoffSpec => []RetriesAreBounded
  <1>1. NobodyStarves /\ SleepsDouble => RetriesAreBounded
    BY DEF RetriesAreBounded
  <1> QED BY <1>1, StarvationInvariance, SleepsStayDoubled, PTL

-----------------------------------------------------------------------------
(***************************************************************************)
(* StreamIter.                                                             *)
(***************************************************************************)
Errors == {"EOF", "broken", "cancelled", "nack"}

StreamTypeOK ==
  /\ len \in Nat /\ ends \in {"EOF", "broken"} /\ acks \in BOOLEAN
  /\ received \in 0..len
  /\ routine \in {"recv", "send", "ack", "sendErr", "done"}
  /\ holding \in [data : Nat, err : {"nil"} \cup Errors]
  /\ done \in BOOLEAN /\ over \in BOOLEAN /\ errs \in BOOLEAN
  /\ got \in Seq(Nat)
  /\ closing \in {"no", "waiting", "closed"}

\* The goroutine holds a message that nobody has taken yet.
Offering == routine = "send" /\ holding.err = "nil"

\* The messages that were taken from the goroutine so far.
Taken == IF Offering THEN received - 1 ELSE received

(***************************************************************************)
(* What the goroutine holds is the last message it received or how the     *)
(* stream ended.  Only Close takes a message from Next, and Close and Stop *)
(* mean that the context is done.                                          *)
(***************************************************************************)
HandOverInv ==
  /\ Offering => received > 0 /\ holding.data = received
  /\ routine \in {"send", "sendErr"} /\ holding.err = "EOF" =>
       received = len /\ ends = "EOF"
  /\ routine = "sendErr" => holding.err # "nil"
  /\ closing # "no" => done
  /\ over => routine = "done"
  /\ closing # "closed" /\ routine # "done" => Len(got) = Taken
  /\ \A i \in 1..Len(got) : got[i] <= Taken

StreamInv == StreamTypeOK /\ HandOverInv /\ StreamInOrder
               /\ (routine = "done" /\ ~errs /\ ~done => Len(got) = len /\ ends = "EOF")

\* A stream starts with nothing received and nobody waiting.
LEMMA StreamInitInv == StreamInit => StreamInv
  <1> SUFFICES ASSUME StreamInit PROVE StreamInv
    OBVIOUS
  <1>1. /\ routine = "recv" /\ received = 0 /\ got = <<>> /\ Len(got) = 0
        /\ closing = "no" /\ over = FALSE /\ len \in Nat
    BY StreamAssumption DEF StreamInit
  <1>2. StreamTypeOK
    <2>1. holding \in [data : Nat, err : {"nil"} \cup Errors]
      BY DEF StreamInit, Msg
    <2>2. got \in Seq(Nat)
      BY <1>1
    <2>3. received \in 0..len
      BY <1>1
    <2>4. done \in BOOLEAN /\ over \in BOOLEAN /\ errs \in BOOLEAN /\ acks \in BOOLEAN
      BY DEF StreamInit
    <2>5. ends \in {"EOF", "broken"}
      BY DEF StreamInit
    <2> QED
      BY <1>1, <2>1, <2>2, <2>3, <2>4, <2>5 DEF StreamTypeOK
  <1>3. HandOverInv
    BY <1>1 DEF HandOverInv, Offering, Taken
  <1>4. StreamInOrder
    BY <1>1 DEF StreamInOrder
  <1> QED
    BY <1>1, <1>2, <1>3, <1>4 DEF StreamInv

\* The goroutine, other than when a message is taken from it.
LEMMA RoutineKeepsInv ==
  ASSUME StreamInv, Recv \/ Stop \/ Ack
  PROVE  StreamInv'
  <1> USE DEF StreamInv, StreamTypeOK, HandOverInv, StreamInOrder, Offering, Taken,
              Errors, fixed
  <1>1. CASE Recv
    BY <1>1 DEF Recv, Msg
  <1>2. CASE Stop
    BY <1>2 DEF Stop
  <1>3. CASE Ack
    BY <1>3 DEF Ack, Msg
  <1> QED BY <1>1, <1>2, <1>3

\* A message is taken by Next, which appends it, or by Close, which drops it.
LEMMA TakingKeepsInv ==
  ASSUME StreamInv, SendToNext \/ SendToClose
  PROVE  StreamInv'
  <1> USE DEF StreamInv, StreamTypeOK, HandOverInv, StreamInOrder, Offering, Taken,
              Errors, fixed
  <1>1. CASE SendToNext /\ holding.err = "nil"
    <2>1. /\ got' = Append(got, received) /\ Taken = received - 1 /\ Taken' = received
          /\ routine = "send" /\ routine' \in {"ack", "recv"} /\ received > 0
      BY <1>1 DEF SendToNext, NextResult, Sent
    <2>2. /\ got' \in Seq(Nat) /\ Len(got') = Len(got) + 1
          /\ got'[Len(got) + 1] = received
          /\ \A i \in 1..Len(got) : got'[i] = got[i]
      BY <2>1
    <2>3. StreamTypeOK'
      BY <1>1, <2>1, <2>2 DEF SendToNext, NextResult
    <2>4. StreamInOrder'
      <3>1. DOMAIN got' = 1..(Len(got) + 1) /\ DOMAIN got = 1..Len(got)
        BY <2>2
      <3>2. closing' # "closed" => Len(got) + 1 = received
        BY <1>1, <2>1 DEF SendToNext
      <3>3. ASSUME NEW i \in 1..(Len(got) + 1)
            PROVE  (closing' # "closed" => got'[i] = i) /\ (i > 1 => got'[i - 1] < got'[i])
        <4>1. CASE i = Len(got) + 1
          <5>1. i > 1 => i - 1 \in 1..Len(got) /\ got[i - 1] <= received - 1
                           /\ got[i - 1] \in Nat
            BY <4>1, <2>1
          <5> QED BY <4>1, <5>1, <2>1, <2>2, <3>2
        <4>2. CASE i \in 1..Len(got)
          <5>1. i > 1 => i - 1 \in 1..Len(got)
            BY <4>2
          <5>2. (closing # "closed" => got[i] = i) /\ (i > 1 => got[i - 1] < got[i])
            BY <4>2, <3>1
          <5> QED BY <4>2, <5>1, <5>2, <2>2, <1>1 DEF SendToNext
        <4>3. Len(got) \in Nat
          OBVIOUS
        <4>4. i = Len(got) + 1 \/ i \in 1..Len(got)
          BY <4>3
        <4> QED BY <4>1, <4>2, <4>4
      <3> QED BY <3>1, <3>3
    <2>5. HandOverInv'
      <3>1. \A i \in 1..Len(got') : got'[i] <= Taken'
        BY <2>1, <2>2
      <3> QED BY <1>1, <2>1, <2>2, <3>1 DEF SendToNext, NextResult
    <2> QED BY <2>1, <2>3, <2>4, <2>5
  <1>2. CASE SendToNext /\ holding.err # "nil"
    BY <1>2 DEF SendToNext, NextResult, Sent
  <1>3. CASE SendToClose
    BY <1>3 DEF SendToClose, Sent
  <1> QED BY <1>1, <1>2, <1>3

\* The consumer's own steps.
LEMMA ConsumerKeepsInv ==
  ASSUME StreamInv,
         \/ CallNext \/ NextAtEnd \/ NextCancelled
         \/ CallClose \/ CloseReturns \/ ContextEnds
  PROVE  StreamInv'
  <1> USE DEF StreamInv, StreamTypeOK, HandOverInv, StreamInOrder, Offering, Taken,
              Errors, fixed
  <1>1. CASE CallNext \/ NextAtEnd \/ NextCancelled
    <2>1. CASE CallNext
      BY <2>1 DEF CallNext
    <2>2. CASE NextAtEnd
      BY <2>2 DEF NextAtEnd
    <2>3. CASE NextCancelled
      BY <2>3 DEF NextCancelled
    <2> QED BY <1>1, <2>1, <2>2, <2>3
  <1>2. CASE CallClose \/ CloseReturns \/ ContextEnds
    <2>1. CASE CallClose
      BY <2>1 DEF CallClose
    <2>2. CASE CloseReturns
      BY <2>2 DEF CloseReturns
    <2>3. CASE ContextEnds
      BY <2>3 DEF ContextEnds
    <2> QED BY <1>2, <2>1, <2>2, <2>3
  <1> QED BY <1>1, <1>2

\* The invariant holds throughout.
LEMMA StreamInvariance == StreamSpec => []StreamInv
  <1>1. StreamInv /\ [StreamNext]_streamVars => StreamInv'
    <2> SUFFICES ASSUME StreamInv, [StreamNext]_streamVars PROVE StreamInv'
      OBVIOUS
    <2>1. CASE StreamNext
      BY <2>1, RoutineKeepsInv, TakingKeepsInv, ConsumerKeepsInv DEF StreamNext, Routine
    <2>2. CASE UNCHANGED streamVars
      BY <2>2 DEF streamVars, StreamInv, StreamTypeOK, HandOverInv, StreamInOrder,
                  Offering, Taken
    <2> QED BY <2>1, <2>2
  <1> QED
    BY StreamInitInv, <1>1, PTL DEF StreamSpec

(***************************************************************************)
(* Next gives out the messages of the stream in order, without gap or      *)
(* repetition, and an iteration that ends short of the stream's end says   *)
(* so, for streams of any length and however many contexts of Next end.    *)
(***************************************************************************)
THEOREM IterationIsWhole == StreamSpec => []StreamIsWhole
  <1>1. StreamInv => StreamIsWhole
    BY DEF StreamInv, HandOverInv, StreamIsWhole, NoSilentTruncation
  <1> QED BY StreamInvariance, <1>1, PTL

-----------------------------------------------------------------------------
(***************************************************************************)
(* IterPipeline.  Sequences of sequences, one after the other.             *)
(***************************************************************************)
Flattens(f, ss, n) == f = [i \in 1..n |-> IF i = 1 THEN ss[i] ELSE f[i - 1] \o ss[i]]

LEMMA FlattensIs ==
  ASSUME NEW f, NEW ss, NEW n \in Nat, Flattens(f, ss, n)
  PROVE  \A i \in 1..n : f[i] = IF i = 1 THEN ss[i] ELSE f[i - 1] \o ss[i]
  <1>1. PICK g : g = [i \in 1..n |-> IF i = 1 THEN ss[i] ELSE f[i - 1] \o ss[i]]
    OBVIOUS
  <1>2. f = g
    BY <1>1 DEF Flattens
  <1> QED BY <1>1, <1>2

LEMMA FlattensExist ==
  ASSUME NEW ss, NEW n \in Nat
  PROVE  \E f : Flattens(f, ss, n)
  <1>1. PICK G : G = {j \in Nat : \E f : Flattens(f, ss, j)}
    OBVIOUS
  <1>2. 0 \in G
    <2>1. PICK h : h = [i \in 1..0 |-> ss]
      OBVIOUS
    <2>2. h = [i \in 1..0 |-> IF i = 1 THEN ss[i] ELSE h[i - 1] \o ss[i]]
      BY <2>1
    <2> QED BY <1>1, <2>2 DEF Flattens
  <1>3. ASSUME NEW j \in Nat, j \in G PROVE j + 1 \in G
    <2>1. PICK h : Flattens(h, ss, j)
      BY <1>1, <1>3
    <2>2. PICK last : last = IF j + 1 = 1 THEN ss[j + 1] ELSE h[j] \o ss[j + 1]
      OBVIOUS
    <2>3. PICK g : g = [i \in 1..(j + 1) |-> IF i = j + 1 THEN last ELSE h[i]]
      OBVIOUS
    <2>4. \A x \in 1..j : g[x] = h[x] /\ h[x] = IF x = 1 THEN ss[x] ELSE h[x - 1] \o ss[x]
      BY <2>1, <2>3, FlattensIs
    <2>5. ASSUME NEW i \in 1..(j + 1) PROVE g[i] = IF i = 1 THEN ss[i] ELSE g[i - 1] \o ss[i]
      <3>1. CASE i = j + 1
        <4>1. g[i] = last
          BY <2>3, <3>1
        <4>2. CASE i = 1
          BY <2>2, <3>1, <4>1, <4>2
        <4>3. CASE i # 1
          <5>1. i - 1 = j /\ j \in 1..j
            BY <3>1, <4>3
          <5>2. g[i - 1] = h[j]
            BY <2>4, <5>1
          <5> QED BY <2>2, <3>1, <4>1, <4>3, <5>2
        <4> QED BY <4>2, <4>3
      <3>2. CASE i # j + 1
        <4>1. i \in 1..j
          BY <3>2
        <4>2. CASE i = 1
          BY <2>4, <4>1, <4>2
        <4>3. CASE i # 1
          <5>1. i - 1 \in 1..j
            BY <4>1, <4>3
          <5> QED BY <2>4, <4>1, <4>3, <5>1
        <4> QED BY <4>2, <4>3
      <3> QED BY <3>1, <3>2
    <2>6. g = [i \in 1..(j + 1) |-> IF i = 1 THEN ss[i] ELSE g[i - 1] \o ss[i]]
      BY <2>3, <2>5, Zenon
    <2>7. Flattens(g, ss, j + 1)
      BY <2>6, Zenon DEF Flattens
    <2> QED BY <1>1, <2>7
  <1>4. Nat \subseteq G
    BY <1>2, <1>3, NatSteps
  <1> QED BY <1>1, <1>4

AgreeTo(n, s, t) == \A i \in 1..n : s[i] = t[i]

LEMMA FlattensAgree ==
  ASSUME NEW ss, NEW tt, NEW n \in Nat, NEW m \in Nat, NEW g, NEW h,
         Flattens(g, ss, n), Flattens(h, tt, m), n <= m, AgreeTo(n, ss, tt)
  PROVE  AgreeTo(n, g, h)
  <1>1. PICK G : G = {i \in Nat : i \in 1..n => g[i] = h[i]}
    OBVIOUS
  <1>2. /\ \A i \in 1..n : g[i] = IF i = 1 THEN ss[i] ELSE g[i - 1] \o ss[i]
        /\ \A i \in 1..m : h[i] = IF i = 1 THEN tt[i] ELSE h[i - 1] \o tt[i]
    BY FlattensIs
  <1>3. 0 \in G
    BY <1>1
  <1>4. ASSUME NEW i \in Nat, i \in G PROVE i + 1 \in G
    <2>1. CASE i + 1 \notin 1..n
      BY <1>1, <2>1
    <2>2. CASE i + 1 \in 1..n
      <3>1. i + 1 \in 1..m /\ (i + 1) - 1 = i /\ ss[i + 1] = tt[i + 1]
        BY <2>2 DEF AgreeTo
      <3>2. CASE i = 0
        <4>1. i + 1 = 1
          BY <3>2
        <4>2. g[i + 1] = ss[i + 1] /\ h[i + 1] = tt[i + 1]
          BY <1>2, <2>2, <3>1, <4>1
        <4> QED BY <1>1, <3>1, <4>2
      <3>3. CASE i # 0
        <4>1. i \in 1..n /\ i + 1 # 1
          BY <2>2, <3>3
        <4>2. g[i] = h[i]
          BY <1>1, <1>4, <4>1
        <4>3. g[i + 1] = g[i] \o ss[i + 1] /\ h[i + 1] = h[i] \o tt[i + 1]
          BY <1>2, <2>2, <3>1, <4>1
        <4>4. g[i + 1] = h[i + 1]
          BY ONLY <3>1, <4>2, <4>3, Zenon
        <4> QED BY <1>1, <4>4
      <3> QED BY <3>2, <3>3
    <2> QED BY <2>1, <2>2
  <1>5. Nat \subseteq G
    BY <1>3, <1>4, NatSteps
  <1> QED BY <1>1, <1>5 DEF AgreeTo

LEMMA FlattenedBy ==
  ASSUME NEW ss, NEW n \in Nat, Len(ss) = n, n # 0
  PROVE  \E f : Flattens(f, ss, n) /\ FlattenSeq(ss) = f[n]
  <1>1. PICK h : h = CHOOSE f : f = [i \in 1..n |-> IF i = 1 THEN ss[i] ELSE f[i - 1] \o ss[i]]
    OBVIOUS
  <1>2. PICK g : Flattens(g, ss, n)
    BY FlattensExist
  <1>3. g = [i \in 1..n |-> IF i = 1 THEN ss[i] ELSE g[i - 1] \o ss[i]]
    BY <1>2 DEF Flattens
  <1>4. h = [i \in 1..n |-> IF i = 1 THEN ss[i] ELSE h[i - 1] \o ss[i]]
    BY <1>1, <1>3
  <1>5. Flattens(h, ss, n)
    BY <1>4 DEF Flattens
  <1>6. FlattenSeq(ss) = h[n]
    BY <1>1 DEF FlattenSeq
  <1> QED BY <1>5, <1>6

\* Nothing comes of nothing, and what is appended comes last.
LEMMA FlattenNothing == FlattenSeq(<<>>) = <<>>
  <1>1. Len(<<>>) = 0
    OBVIOUS
  <1> QED BY <1>1 DEF FlattenSeq

LEMMA FlattenAppend ==
  ASSUME NEW S, NEW ss \in Seq(Seq(S)), NEW x \in Seq(S)
  PROVE  FlattenSeq(Append(ss, x)) = FlattenSeq(ss) \o x
  <1>1. PICK n \in Nat : n = Len(ss)
    OBVIOUS
  <1>2. PICK tt : tt = Append(ss, x)
    OBVIOUS
  <1>3. Len(tt) = n + 1 /\ tt[n + 1] = x /\ (\A i \in 1..n : ss[i] = tt[i])
    BY <1>1, <1>2
  <1>4. n + 1 \in Nat /\ n + 1 # 0 /\ n + 1 \in 1..(n + 1) /\ (n + 1) - 1 = n /\ n <= n + 1
    OBVIOUS
  <1>5. PICK h : Flattens(h, tt, n + 1) /\ FlattenSeq(tt) = h[n + 1]
    BY <1>3, <1>4, FlattenedBy
  <1>6. h[n + 1] = IF n + 1 = 1 THEN tt[n + 1] ELSE h[n] \o tt[n + 1]
    BY <1>4, <1>5, FlattensIs
  <1>7. CASE n = 0
    <2>1. ss = <<>>
      BY <1>1, <1>7, EmptySeq
    <2>2. FlattenSeq(ss) = <<>>
      BY <2>1, FlattenNothing
    <2>3. FlattenSeq(tt) = x
      BY <1>3, <1>5, <1>6, <1>7
    <2> QED BY <1>2, <2>2, <2>3
  <1>8. CASE n # 0
    <2>1. PICK g : Flattens(g, ss, n) /\ FlattenSeq(ss) = g[n]
      BY <1>1, <1>8, FlattenedBy
    <2>2. g[n] = h[n]
      <3>1. n \in 1..n
        BY <1>8
      <3>2. PICK m \in Nat : m = n + 1 /\ n <= m
        BY <1>4
      <3>3. Flattens(h, tt, m) /\ Flattens(g, ss, n)
        BY <1>5, <2>1, <3>2
      <3>4. AgreeTo(n, g, h)
        <4>1. AgreeTo(n, ss, tt)
          BY <1>3 DEF AgreeTo
        <4> QED BY <3>2, <3>3, <4>1, FlattensAgree
      <3> QED BY <3>1, <3>4 DEF AgreeTo
    <2>3. FlattenSeq(tt) = h[n] \o x
      BY <1>3, <1>5, <1>6, <1>8
    <2> QED BY <1>2, <2>1, <2>2, <2>3
  <1> QED BY <1>7, <1>8

\* A sequence is nothing, or something was appended to it.
LEMMA SeqIsAppended ==
  ASSUME NEW T, NEW t \in Seq(T), NEW n \in Nat, Len(t) = n + 1
  PROVE  \E u \in Seq(T), x \in T : t = Append(u, x) /\ Len(u) = n
  <1>1. PICK u : u = SubSeq(t, 1, n)
    OBVIOUS
  <1>2. PICK x : x = t[n + 1]
    OBVIOUS
  <1>3. x \in T
    BY <1>2
  <1>4. u \in Seq(T) /\ Len(u) = n /\ \A i \in 1..n : u[i] = t[i]
    BY <1>1
  <1>5. t = Append(u, x)
    BY <1>2, <1>4
  <1> QED BY <1>3, <1>4, <1>5

LEMMA FlattenIsSeq ==
  ASSUME NEW S, NEW ss \in Seq(Seq(S))
  PROVE  FlattenSeq(ss) \in Seq(S)
  <1>1. PICK G : G = {n \in Nat : \A t \in Seq(Seq(S)) : Len(t) = n => FlattenSeq(t) \in Seq(S)}
    OBVIOUS
  <1>2. 0 \in G
    <2>1. ASSUME NEW t \in Seq(Seq(S)), Len(t) = 0 PROVE FlattenSeq(t) \in Seq(S)
      <3>1. t = <<>>
        BY <2>1
      <3>2. <<>> \in Seq(S)
        OBVIOUS
      <3> QED BY ONLY <3>1, <3>2, FlattenNothing
    <2> QED BY <1>1, <2>1
  <1>3. ASSUME NEW n \in Nat, n \in G PROVE n + 1 \in G
    <2>1. ASSUME NEW t \in Seq(Seq(S)), Len(t) = n + 1 PROVE FlattenSeq(t) \in Seq(S)
      <3>1. PICK u \in Seq(Seq(S)), x \in Seq(S) : t = Append(u, x) /\ Len(u) = n
        BY <2>1, SeqIsAppended
      <3>2. FlattenSeq(u) \in Seq(S)
        BY <1>1, <1>3, <3>1
      <3>3. FlattenSeq(t) = FlattenSeq(u) \o x
        BY <3>1, FlattenAppend
      <3> QED BY <3>2, <3>3
    <2> QED BY <1>1, <2>1
  <1>4. Nat \subseteq G
    BY <1>2, <1>3, NatSteps
  <1>5. Len(ss) \in Nat
    OBVIOUS
  <1> QED BY <1>1, <1>4, <1>5

\* The same of sequences of anything.
LEMMA JoinIs ==
  ASSUME NEW T, NEW s \in Seq(T), NEW t \in Seq(T)
  PROVE  /\ s \o t \in Seq(T) /\ Len(s \o t) = Len(s) + Len(t)
         /\ \A i \in 1..(Len(s) + Len(t)) : (s \o t)[i] = IF i <= Len(s) THEN s[i] ELSE t[i - Len(s)]
  BY ConcatProperties

LEMMA SameIs ==
  ASSUME NEW T, NEW s \in Seq(T), NEW t \in Seq(T), NEW n \in Nat, Len(s) = n, Len(t) = n,
         \A i \in 1..n : s[i] = t[i]
  PROVE  s = t
  BY SeqEqual

Associate(p, q, r) == (p \o q) \o r = p \o (q \o r)

LEMMA JoinsAssociate ==
  ASSUME NEW S, NEW p \in Seq(S), NEW q \in Seq(S), NEW r \in Seq(S)
  PROVE  Associate(p, q, r)
  <1>1. PICK n \in Nat, m \in Nat, k \in Nat : n = Len(p) /\ m = Len(q) /\ k = Len(r)
    OBVIOUS
  <1>2. PICK c \in Seq(S), d \in Seq(S) : c = p \o q /\ d = q \o r
    BY JoinIs
  <1>3. /\ Len(c) = n + m /\ Len(d) = m + k
        /\ \A i \in 1..(n + m) : c[i] = IF i <= n THEN p[i] ELSE q[i - n]
        /\ \A i \in 1..(m + k) : d[i] = IF i <= m THEN q[i] ELSE r[i - m]
    BY <1>1, <1>2, JoinIs
  <1>4. PICK a \in Seq(S), b \in Seq(S) : a = c \o r /\ b = p \o d
    BY JoinIs
  <1>5. /\ Len(a) = (n + m) + k /\ Len(b) = n + (m + k)
        /\ \A i \in 1..((n + m) + k) : a[i] = IF i <= n + m THEN c[i] ELSE r[i - (n + m)]
        /\ \A i \in 1..(n + (m + k)) : b[i] = IF i <= n THEN p[i] ELSE d[i - n]
    <2>1. /\ Len(a) = Len(c) + Len(r)
          /\ \A i \in 1..(Len(c) + Len(r)) : a[i] = IF i <= Len(c) THEN c[i] ELSE r[i - Len(c)]
      BY <1>4, JoinIs
    <2>2. /\ Len(b) = Len(p) + Len(d)
          /\ \A i \in 1..(Len(p) + Len(d)) : b[i] = IF i <= Len(p) THEN p[i] ELSE d[i - Len(p)]
      BY <1>4, JoinIs
    <2> QED BY <1>1, <1>3, <2>1, <2>2
  <1>6. ASSUME NEW i \in 1..((n + m) + k) PROVE a[i] = b[i]
    <2>1. a[i] = IF i <= n + m THEN c[i] ELSE r[i - (n + m)]
      BY <1>5
    <2>2. b[i] = IF i <= n THEN p[i] ELSE d[i - n]
      BY <1>5
    <2>3. CASE i <= n
      <3>1. i <= n + m /\ i \in 1..(n + m)
        BY <2>3
      <3>2. c[i] = p[i]
        BY <1>3, <2>3, <3>1
      <3> QED BY <2>1, <2>2, <2>3, <3>1, <3>2
    <2>4. CASE ~(i <= n) /\ i <= n + m
      <3>1. i \in 1..(n + m) /\ i - n \in 1..(m + k) /\ i - n <= m
        BY <2>4
      <3>2. c[i] = q[i - n] /\ d[i - n] = q[i - n]
        BY <1>3, <2>4, <3>1
      <3> QED BY <2>1, <2>2, <2>4, <3>2
    <2>5. CASE ~(i <= n + m)
      <3>1. ~(i <= n) /\ i - n \in 1..(m + k) /\ ~(i - n <= m) /\ (i - n) - m = i - (n + m)
        BY <2>5
      <3>2. d[i - n] = r[i - (n + m)]
        BY <1>3, <3>1
      <3> QED BY <2>1, <2>2, <2>5, <3>1, <3>2
    <2> QED BY <2>3, <2>4, <2>5
  <1>7. PICK l \in Nat : l = (n + m) + k /\ l = n + (m + k)
    OBVIOUS
  <1>8. a = b
    BY <1>5, <1>6, <1>7, SameIs
  <1> QED BY <1>2, <1>4, <1>8 DEF Associate

LEMMA JoinAppend ==
  ASSUME NEW T, NEW s \in Seq(T), NEW u \in Seq(T), NEW x \in T
  PROVE  s \o u \in Seq(T) /\ s \o Append(u, x) = Append(s \o u, x)
  OBVIOUS

LEMMA FlattenConcat ==
  ASSUME NEW S, NEW s \in Seq(Seq(S)), NEW t \in Seq(Seq(S))
  PROVE  FlattenSeq(s \o t) = FlattenSeq(s) \o FlattenSeq(t)
  <1>1. PICK G : G = {n \in Nat : \A v \in Seq(Seq(S)) :
                        Len(v) = n => FlattenSeq(s \o v) = FlattenSeq(s) \o FlattenSeq(v)}
    OBVIOUS
  <1>2. FlattenSeq(s) \in Seq(S)
    BY FlattenIsSeq
  <1>3. 0 \in G
    <2>1. ASSUME NEW v \in Seq(Seq(S)), Len(v) = 0
          PROVE  FlattenSeq(s \o v) = FlattenSeq(s) \o FlattenSeq(v)
      <3>1. v = <<>>
        BY <2>1
      <3>2. s \o v = s
        BY <3>1
      <3>3. FlattenSeq(v) = <<>>
        BY <3>1, FlattenNothing
      <3>4. FlattenSeq(s) \o <<>> = FlattenSeq(s)
        BY <1>2, ConcatEmptySeq
      <3> QED BY <3>2, <3>3, <3>4
    <2> QED BY <1>1, <2>1
  <1>4. ASSUME NEW n \in Nat, n \in G PROVE n + 1 \in G
    <2>1. ASSUME NEW v \in Seq(Seq(S)), Len(v) = n + 1
          PROVE  FlattenSeq(s \o v) = FlattenSeq(s) \o FlattenSeq(v)
      <3>1. PICK u \in Seq(Seq(S)), x \in Seq(S) : v = Append(u, x) /\ Len(u) = n
        BY <2>1, SeqIsAppended
      <3>2. FlattenSeq(s \o u) = FlattenSeq(s) \o FlattenSeq(u)
        BY <1>1, <1>4, <3>1
      <3>3. s \o v = Append(s \o u, x) /\ s \o u \in Seq(Seq(S))
        BY <3>1, JoinAppend
      <3>4. FlattenSeq(s \o v) = FlattenSeq(s \o u) \o x
        BY <3>3, FlattenAppend
      <3>5. FlattenSeq(v) = FlattenSeq(u) \o x
        BY <3>1, FlattenAppend
      <3>6. FlattenSeq(u) \in Seq(S)
        BY FlattenIsSeq
      <3>7. (FlattenSeq(s) \o FlattenSeq(u)) \o x = FlattenSeq(s) \o (FlattenSeq(u) \o x)
        <4>1. PICK p \in Seq(S), q \in Seq(S) : p = FlattenSeq(s) /\ q = FlattenSeq(u)
          BY <1>2, <3>6
        <4>2. Associate(p, q, x)
          BY JoinsAssociate
        <4> QED BY <4>1, <4>2 DEF Associate
      <3> QED BY <3>2, <3>4, <3>5, <3>7
    <2> QED BY <1>1, <2>1
  <1>5. Nat \subseteq G
    BY <1>3, <1>4, NatSteps
  <1>6. Len(t) \in Nat
    OBVIOUS
  <1> QED BY <1>1, <1>5, <1>6

LEMMA FlattenOne ==
  ASSUME NEW S, NEW x \in Seq(S)
  PROVE  FlattenSeq(<<x>>) = x
  <1>1. <<x>> = Append(<<>>, x) /\ <<>> \in Seq(Seq(S))
    OBVIOUS
  <1>2. FlattenSeq(<<x>>) = FlattenSeq(<<>>) \o x
    BY <1>1, FlattenAppend
  <1> QED BY <1>2, FlattenNothing, ConcatEmptySeq

-----------------------------------------------------------------------------
\* What Map and Filter make of values, step by step.
StepsOf(s) == [i \in DOMAIN s |-> Passing(s[i])]

LEMMA StepsAre ==
  ASSUME NEW s \in Seq(Int)
  PROVE  /\ StepsOf(s) \in Seq(Seq(Int)) /\ Len(StepsOf(s)) = Len(s)
         /\ \A i \in 1..Len(s) : StepsOf(s)[i] = Passing(s[i])
  <1>1. PICK n \in Nat : n = Len(s) /\ DOMAIN s = 1..n
    OBVIOUS
  <1>2. \A v \in Int : Passing(v) \in Seq(Int)
    BY DEF Passing, Mapped
  <1>3. \A i \in 1..n : Passing(s[i]) \in Seq(Int)
    BY <1>1, <1>2
  <1>4. PICK w : w = [i \in 1..n |-> Passing(s[i])]
    OBVIOUS
  <1>5. w \in [1..n -> Seq(Int)]
    BY <1>3, <1>4
  <1>6. w \in Seq(Seq(Int)) /\ Len(w) = n
    BY <1>5
  <1> QED BY <1>1, <1>4, <1>6 DEF StepsOf

LEMMA PassedIsSeq ==
  ASSUME NEW s \in Seq(Int)
  PROVE  Passed(s) \in Seq(Int) /\ Passed(s) = FlattenSeq(StepsOf(s))
  <1>1. Passed(s) = FlattenSeq(StepsOf(s))
    BY DEF Passed, StepsOf
  <1>2. StepsOf(s) \in Seq(Seq(Int))
    BY StepsAre
  <1> QED BY <1>1, <1>2, FlattenIsSeq

LEMMA PassedConcat ==
  ASSUME NEW s \in Seq(Int), NEW t \in Seq(Int)
  PROVE  Passed(s \o t) = Passed(s) \o Passed(t)
  <1>1. PICK u : u = s \o t
    OBVIOUS
  <1>2. PICK n \in Nat, m \in Nat : n = Len(s) /\ m = Len(t)
    OBVIOUS
  <1>3. /\ u \in Seq(Int) /\ Len(u) = n + m
        /\ \A i \in 1..(n + m) : u[i] = IF i <= n THEN s[i] ELSE t[i - n]
    BY <1>1, <1>2, ConcatProperties
  <1>4. PICK a \in Seq(Seq(Int)), b \in Seq(Seq(Int)), c \in Seq(Seq(Int)) :
          a = StepsOf(s) /\ b = StepsOf(t) /\ c = StepsOf(u)
    BY <1>3, StepsAre
  <1>5. Len(a) = n /\ Len(b) = m /\ Len(c) = n + m
    BY <1>2, <1>3, <1>4, StepsAre
  <1>6. PICK d \in Seq(Seq(Int)) : d = a \o b
    BY <1>4, JoinIs
  <1>7. Len(d) = n + m /\ \A i \in 1..(n + m) : d[i] = IF i <= n THEN a[i] ELSE b[i - n]
    BY <1>5, <1>6, JoinIs
  <1>8. ASSUME NEW i \in 1..(n + m) PROVE c[i] = d[i]
    <2>1. c[i] = Passing(u[i])
      BY <1>3, <1>4, StepsAre
    <2>2. CASE i <= n
      <3>1. i \in 1..n
        BY <2>2
      <3>2. d[i] = a[i] /\ u[i] = s[i]
        BY <1>3, <1>7, <2>2
      <3>3. a[i] = Passing(s[i])
        BY <1>2, <1>4, <3>1, StepsAre
      <3> QED BY <2>1, <3>2, <3>3
    <2>3. CASE ~(i <= n)
      <3>1. i - n \in 1..m
        BY <2>3
      <3>2. d[i] = b[i - n] /\ u[i] = t[i - n]
        BY <1>3, <1>7, <2>3
      <3>3. b[i - n] = Passing(t[i - n])
        BY <1>2, <1>4, <3>1, StepsAre
      <3> QED BY <2>1, <3>2, <3>3
    <2> QED BY <2>2, <2>3
  <1>9. c = d
    BY <1>5, <1>7, <1>8, SameIs
  <1>10. FlattenSeq(c) = FlattenSeq(a) \o FlattenSeq(b)
    BY <1>4, <1>6, <1>9, FlattenConcat
  <1>11. Passed(s) = FlattenSeq(a) /\ Passed(t) = FlattenSeq(b) /\ Passed(u) = FlattenSeq(c)
    BY <1>3, <1>4, PassedIsSeq
  <1> QED BY <1>1, <1>10, <1>11

\* One value at a time, as TakeBuffered does.
LEMMA PassedHead ==
  ASSUME NEW s \in Seq(Int), s # <<>>
  PROVE  Passed(s) = Passing(Head(s)) \o Passed(Tail(s)) /\ Passing(Head(s)) \in Seq(Int)
  <1>1. PICK h, t : h = Head(s) /\ t = Tail(s)
    OBVIOUS
  <1>2. h \in Int /\ t \in Seq(Int)
    BY <1>1, HeadTailProperties
  <1>3. s = <<h>> \o t /\ <<h>> \in Seq(Int)
    BY <1>1, <1>2
  <1>4. Passed(s) = Passed(<<h>>) \o Passed(t)
    BY <1>2, <1>3, PassedConcat
  <1>5. Passing(h) \in Seq(Int)
    BY <1>2 DEF Passing, Mapped
  <1>6. StepsOf(<<h>>) = <<Passing(h)>>
    BY <1>2 DEF StepsOf
  <1>7. Passed(<<h>>) = Passing(h)
    BY <1>3, <1>5, <1>6, PassedIsSeq, FlattenOne
  <1> QED BY <1>1, <1>4, <1>5, <1>7

LEMMA PassedNothing == Passed(<<>>) = <<>>
  <1>1. StepsOf(<<>>) = <<>> /\ <<>> \in Seq(Int)
    BY DEF StepsOf
  <1> QED BY <1>1, PassedIsSeq, FlattenNothing

-----------------------------------------------------------------------------
\* What the sources hold, and the part of it that has been read.
OneSource == [slices : Seq(Seq(Int)), fails : BOOLEAN, closeFails : BOOLEAN]
PartsOf(ss) == [i \in DOMAIN ss |-> FlattenSeq(ss[i].slices)]
FirstOf(ss, i) == FlattenSeq(SubSeq(PartsOf(ss), 1, i))
ReadTo(ss, i, p) == FirstOf(ss, i - 1) \o FlattenSeq(SubSeq(ss[i].slices, 1, p))

LEMMA PartsAre ==
  ASSUME NEW ss \in Seq(OneSource)
  PROVE  /\ PartsOf(ss) \in Seq(Seq(Int)) /\ Len(PartsOf(ss)) = Len(ss)
         /\ \A i \in 1..Len(ss) : /\ PartsOf(ss)[i] = FlattenSeq(ss[i].slices)
                                  /\ ss[i].slices \in Seq(Seq(Int))
  <1>1. PICK n \in Nat : n = Len(ss) /\ DOMAIN ss = 1..n
    OBVIOUS
  <1>2. ASSUME NEW i \in 1..n PROVE ss[i].slices \in Seq(Seq(Int)) /\ FlattenSeq(ss[i].slices) \in Seq(Int)
    <2>1. ss[i] \in OneSource
      BY <1>1
    <2>2. ss[i].slices \in Seq(Seq(Int))
      BY <2>1 DEF OneSource
    <2> QED BY <2>2, FlattenIsSeq
  <1>3. PICK w : w = [i \in 1..n |-> FlattenSeq(ss[i].slices)]
    OBVIOUS
  <1>4. w \in [1..n -> Seq(Int)]
    BY <1>2, <1>3
  <1>5. w \in Seq(Seq(Int)) /\ Len(w) = n
    BY <1>4
  <1> QED BY <1>1, <1>2, <1>3, <1>5 DEF PartsOf

LEMMA SplitIs ==
  ASSUME NEW T, NEW s \in Seq(T), NEW n \in Nat, NEW k \in Nat, k = Len(s), n <= k
  PROVE  s = SubSeq(s, 1, n) \o SubSeq(s, n + 1, k)
  <1>1. 1 \in 1..(Len(s) + 1) /\ n \in (1 - 1)..Len(s) /\ k \in n..Len(s)
    OBVIOUS
  <1>2. SubSeq(s, 1, n) \o SubSeq(s, n + 1, k) = SubSeq(s, 1, k)
    BY <1>1, ConcatAdjacentSubSeq
  <1>3. SubSeq(s, 1, k) = s
    BY SubSeqFull
  <1> QED BY <1>2, <1>3

\* The first elements of a sequence of sequences, and the rest of them.
FlattensAt(S, tt, n) ==
  /\ FlattenSeq(SubSeq(tt, 1, n)) \in Seq(S)
  /\ FlattenSeq(SubSeq(tt, 1, 0)) = <<>>
  /\ n < Len(tt) => FlattenSeq(SubSeq(tt, 1, n + 1)) = FlattenSeq(SubSeq(tt, 1, n)) \o tt[n + 1]
  /\ n = Len(tt) => FlattenSeq(SubSeq(tt, 1, n)) = FlattenSeq(tt)
  /\ \E r \in Seq(S) : FlattenSeq(tt) = FlattenSeq(SubSeq(tt, 1, n)) \o r

LEMMA FlattenFirst ==
  ASSUME NEW S, NEW tt \in Seq(Seq(S)), NEW n \in Nat, n <= Len(tt)
  PROVE  FlattensAt(S, tt, n)
  <1>1. PICK k \in Nat : k = Len(tt) /\ n <= k
    OBVIOUS
  <1>2. PICK a : a = SubSeq(tt, 1, n)
    OBVIOUS
  <1>3. a \in Seq(Seq(S)) /\ Len(a) = n /\ \A i \in 1..n : a[i] = tt[i]
    BY <1>1, <1>2
  <1>4. FlattenSeq(a) \in Seq(S)
    BY <1>3, FlattenIsSeq
  <1>5. SubSeq(tt, 1, 0) = <<>>
    OBVIOUS
  <1>6. ASSUME n < k PROVE FlattenSeq(SubSeq(tt, 1, n + 1)) = FlattenSeq(a) \o tt[n + 1]
    <2>1. PICK x : x = tt[n + 1]
      OBVIOUS
    <2>2. x \in Seq(S)
      BY <1>1, <1>6, <2>1
    <2>3. SubSeq(tt, 1, n + 1) = Append(a, x)
      <3>1. PICK b : b = SubSeq(tt, 1, n + 1)
        OBVIOUS
      <3>2. b \in Seq(Seq(S)) /\ Len(b) = n + 1 /\ \A i \in 1..(n + 1) : b[i] = tt[i]
        BY <1>1, <1>6, <3>1
      <3> QED BY <1>3, <2>1, <3>1, <3>2
    <2>4. FlattenSeq(Append(a, x)) = FlattenSeq(a) \o x
      BY <1>3, <2>2, FlattenAppend
    <2> QED BY <2>1, <2>3, <2>4
  <1>7. ASSUME n = k PROVE a = tt
    BY <1>1, <1>2, <1>7, SubSeqFull
  <1>8. \E r \in Seq(S) : FlattenSeq(tt) = FlattenSeq(a) \o r
    <2>1. PICK b : b = SubSeq(tt, n + 1, k)
      OBVIOUS
    <2>2. b \in Seq(Seq(S))
      BY <1>1, <2>1
    <2>3. tt = a \o b
      BY <1>1, <1>2, <2>1, SplitIs
    <2>4. FlattenSeq(tt) = FlattenSeq(a) \o FlattenSeq(b)
      BY <1>3, <2>2, <2>3, FlattenConcat
    <2>5. FlattenSeq(b) \in Seq(S)
      BY <2>2, FlattenIsSeq
    <2> QED BY <2>4, <2>5
  <1> QED BY <1>1, <1>2, <1>4, <1>5, <1>6, <1>7, <1>8, FlattenNothing DEF FlattensAt

LEMMA FirstAre ==
  ASSUME NEW ss \in Seq(OneSource), NEW n \in Nat, n <= Len(ss)
  PROVE  /\ FirstOf(ss, n) \in Seq(Int)
         /\ FirstOf(ss, 0) = <<>>
         /\ n < Len(ss) => FirstOf(ss, n + 1) = FirstOf(ss, n) \o FlattenSeq(ss[n + 1].slices)
         /\ n = Len(ss) => FirstOf(ss, n) = FlattenSeq(PartsOf(ss))
         /\ \E r \in Seq(Int) : FlattenSeq(PartsOf(ss)) = FirstOf(ss, n) \o r
  <1>1. PICK k \in Nat : k = Len(ss) /\ n <= k
    OBVIOUS
  <1>2. PICK tt : tt = PartsOf(ss)
    OBVIOUS
  <1>3. tt \in Seq(Seq(Int)) /\ Len(tt) = k
    BY <1>1, <1>2, PartsAre
  <1>4. ASSUME n < k PROVE tt[n + 1] = FlattenSeq(ss[n + 1].slices)
    <2>1. n + 1 \in 1..Len(ss)
      BY <1>1, <1>4
    <2> QED BY <1>2, <2>1, PartsAre
  <1>5. /\ FlattenSeq(SubSeq(tt, 1, n)) \in Seq(Int)
        /\ FlattenSeq(SubSeq(tt, 1, 0)) = <<>>
        /\ n < Len(tt) => FlattenSeq(SubSeq(tt, 1, n + 1)) = FlattenSeq(SubSeq(tt, 1, n)) \o tt[n + 1]
        /\ n = Len(tt) => FlattenSeq(SubSeq(tt, 1, n)) = FlattenSeq(tt)
        /\ \E r \in Seq(Int) : FlattenSeq(tt) = FlattenSeq(SubSeq(tt, 1, n)) \o r
    <2>1. FlattensAt(Int, tt, n)
      BY <1>1, <1>3, FlattenFirst
    <2> QED BY <2>1 DEF FlattensAt
  <1> QED BY <1>1, <1>2, <1>3, <1>4, <1>5 DEF FirstOf

\* Reading a source: its first slice, its next, past its last.
LEMMA ReadsAre ==
  ASSUME NEW ss \in Seq(OneSource), NEW i \in 1..Len(ss),
         NEW p \in Nat, p <= Len(ss[i].slices)
  PROVE  /\ ReadTo(ss, i, p) \in Seq(Int)
         /\ ReadTo(ss, i, 0) = FirstOf(ss, i - 1)
         /\ p < Len(ss[i].slices) => ReadTo(ss, i, p + 1) = ReadTo(ss, i, p) \o ss[i].slices[p + 1]
         /\ p = Len(ss[i].slices) => ReadTo(ss, i, p) = FirstOf(ss, i)
         /\ \E r \in Seq(Int) : FlattenSeq(PartsOf(ss)) = ReadTo(ss, i, p) \o r
  <1>1. PICK n \in Nat : n = i - 1 /\ n < Len(ss) /\ n <= Len(ss) /\ n + 1 = i
    OBVIOUS
  <1>2. PICK tt : tt = ss[i].slices
    OBVIOUS
  <1>3. tt \in Seq(Seq(Int))
    BY <1>2, PartsAre
  <1>4. PICK F \in Seq(Int) : F = FirstOf(ss, n)
    BY <1>1, FirstAre
  <1>5. /\ FlattenSeq(SubSeq(tt, 1, p)) \in Seq(Int)
        /\ FlattenSeq(SubSeq(tt, 1, 0)) = <<>>
        /\ p < Len(tt) => FlattenSeq(SubSeq(tt, 1, p + 1)) = FlattenSeq(SubSeq(tt, 1, p)) \o tt[p + 1]
        /\ p = Len(tt) => FlattenSeq(SubSeq(tt, 1, p)) = FlattenSeq(tt)
        /\ \E r \in Seq(Int) : FlattenSeq(tt) = FlattenSeq(SubSeq(tt, 1, p)) \o r
    <2>1. p <= Len(tt)
      BY <1>2
    <2>2. FlattensAt(Int, tt, p)
      BY <1>3, <2>1, FlattenFirst
    <2> QED BY <2>2 DEF FlattensAt
  <1>6. PICK R \in Seq(Int) : R = FlattenSeq(SubSeq(tt, 1, p))
    BY <1>5
  <1>7. ReadTo(ss, i, p) = F \o R /\ F \o R \in Seq(Int)
    BY <1>1, <1>2, <1>4, <1>6 DEF ReadTo
  <1>8. ReadTo(ss, i, 0) = F
    <2>1. ReadTo(ss, i, 0) = F \o <<>>
      BY <1>1, <1>2, <1>4, <1>5 DEF ReadTo
    <2> QED BY <2>1, ConcatEmptySeq
  <1>9. ASSUME p < Len(tt) PROVE ReadTo(ss, i, p + 1) = (F \o R) \o tt[p + 1]
    <2>1. PICK x : x = tt[p + 1]
      OBVIOUS
    <2>2. x \in Seq(Int)
      BY <1>3, <1>9, <2>1
    <2>3. ReadTo(ss, i, p + 1) = F \o (R \o x)
      BY <1>1, <1>2, <1>4, <1>5, <1>6, <1>9, <2>1 DEF ReadTo
    <2>4. Associate(F, R, x)
      BY <2>2, JoinsAssociate
    <2> QED BY <2>1, <2>3, <2>4 DEF Associate
  <1>10. FirstOf(ss, i) = F \o FlattenSeq(tt)
    BY <1>1, <1>2, <1>4, FirstAre
  <1>11. ASSUME p = Len(tt) PROVE ReadTo(ss, i, p) = FirstOf(ss, i)
    BY <1>5, <1>6, <1>7, <1>10, <1>11
  <1>12. \E r \in Seq(Int) : FlattenSeq(PartsOf(ss)) = (F \o R) \o r
    <2>1. PICK r \in Seq(Int) : FlattenSeq(tt) = R \o r
      BY <1>5, <1>6
    <2>2. i \in Nat /\ i <= Len(ss)
      OBVIOUS
    <2>3. PICK q \in Seq(Int) : FlattenSeq(PartsOf(ss)) = FirstOf(ss, i) \o q
      BY <2>2, FirstAre
    <2>4. FlattenSeq(PartsOf(ss)) = (F \o (R \o r)) \o q
      BY <1>10, <2>1, <2>3
    <2>5. PICK H \in Seq(Int), z \in Seq(Int) : H = F \o R /\ z = r \o q
      <3>1. r \o q \in Seq(Int)
        BY JoinIs
      <3> QED BY <1>7, <3>1, Zenon
    <2>6. Associate(F, R, r) /\ Associate(H, r, q)
      BY JoinsAssociate
    <2>7. FlattenSeq(PartsOf(ss)) = H \o z
      BY <2>4, <2>5, <2>6 DEF Associate
    <2> QED BY <2>5, <2>7
  <1> QED BY <1>1, <1>2, <1>4, <1>7, <1>8, <1>9, <1>11, <1>12
-----------------------------------------------------------------------------
\* The aggregate still has the last of its sources, and has read from none
\* but the first of these and those before it.
LineInv ==
  /\ sources \in Seq(OneSource)
  /\ its \in Seq(Nat) /\ Len(its) <= Len(sources)
  /\ \A j \in 1..Len(its) : its[j] = Len(sources) - Len(its) + j
  /\ pulled \in [1..Len(sources) -> Nat]
  /\ \A i \in 1..Len(sources) :
       /\ pulled[i] <= Len(sources[i].slices)
       /\ i > Len(sources) - Len(its) + 1 => pulled[i] = 0
  /\ buffer \in Seq(Int) /\ out \in Seq(Int)

\* What was read so far has been collected, or is in the buffer.
SoFar ==
  IF its = <<>> THEN FirstOf(sources, Len(sources))
  ELSE ReadTo(sources, Head(its), pulled[Head(its)])
ReadInv == out \o Passed(buffer) = Passed(SoFar)

\* A pipeline ends without an error after the last of its sources.
EndInv ==
  /\ state = "stopped" => buffer = <<>> /\ (~err => its = <<>>)
  /\ state = "ok" /\ asked # "empty" => buffer = <<>> /\ its = <<>>

\* The sources it has left are closed, and so are all once it is.
ClosedInv ==
  /\ closedBy \in [1..Len(sources) -> Nat]
  /\ \A i \in 1..Len(sources) : i <= Len(sources) - Len(its) => closedBy[i] > 0
  /\ asked = "empty" \/ released => \A i \in 1..Len(sources) : closedBy[i] > 0

PipeInv == LineInv /\ ReadInv /\ EndInv /\ ClosedInv

\* The source at the head of the line.
LEMMA HeadOfLine ==
  ASSUME LineInv, its # <<>>
  PROVE  /\ Head(its) \in 1..Len(sources) /\ Head(its) = Len(sources) - Len(its) + 1
         /\ Len(its) \in Nat /\ Len(its) > 0 /\ Len(sources) \in Nat /\ Len(its) <= Len(sources)
         /\ pulled[Head(its)] \in Nat /\ pulled[Head(its)] <= Len(sources[Head(its)].slices)
         /\ sources[Head(its)].slices \in Seq(Seq(Int))
  <1>1. PICK n \in Nat, k \in Nat : n = Len(sources) /\ k = Len(its) /\ k <= n /\ k > 0
    BY DEF LineInv
  <1>2. Head(its) = its[1] /\ its[1] = n - k + 1
    <2>1. 1 \in 1..k
      BY <1>1
    <2>2. its[1] = n - k + 1
      BY <1>1, <2>1 DEF LineInv
    <2>3. Head(its) = its[1]
      BY DEF LineInv
    <2> QED BY <2>2, <2>3
  <1>3. n - k + 1 \in 1..n
    BY <1>1
  <1>4. Head(its) \in 1..Len(sources)
    BY <1>1, <1>2, <1>3
  <1>5. sources[Head(its)].slices \in Seq(Seq(Int))
    BY <1>4, PartsAre DEF LineInv
  <1> QED BY <1>1, <1>2, <1>4, <1>5 DEF LineInv

\* TakeBuffered moves a value from the buffer to the collection.
LEMMA TakingKeepsReads ==
  ASSUME LineInv, ReadInv, TakeBuffered
  PROVE  LineInv' /\ ReadInv'
  <1>1. /\ buffer # <<>> /\ buffer' = Tail(buffer)
        /\ UNCHANGED <<sources, its, pulled>>
    BY DEF TakeBuffered
  <1>2. buffer \in Seq(Int) /\ out \in Seq(Int)
    BY DEF LineInv
  <1>3. buffer' \in Seq(Int) /\ Head(buffer) \in Int
    BY <1>1, <1>2, HeadTailProperties
  <1>4. PICK x \in Seq(Int), y \in Seq(Int) : /\ x = Passing(Head(buffer)) /\ y = Passed(buffer')
                                              /\ Passed(buffer) = x \o y
    BY <1>1, <1>2, <1>3, PassedHead, PassedIsSeq
  <1>5. out' = out \o x
    <2>1. PICK v : v = Mapped(Head(buffer)) /\ v \in Int
      BY <1>3 DEF Mapped
    <2>2. CASE Kept(v)
      <3>1. out' = Append(out, v)
        BY <2>1, <2>2 DEF TakeBuffered
      <3>2. x = <<v>>
        BY <1>4, <2>1, <2>2 DEF Passing
      <3>3. Append(out, v) = out \o <<v>>
        BY <1>2, <2>1
      <3> QED BY <3>1, <3>2, <3>3
    <2>3. CASE ~Kept(v)
      <3>1. out' = out
        BY <2>1, <2>3 DEF TakeBuffered
      <3>2. x = <<>>
        BY <1>4, <2>1, <2>3 DEF Passing
      <3>3. out \o <<>> = out
        BY <1>2, ConcatEmptySeq
      <3> QED BY <3>1, <3>2, <3>3
    <2> QED BY <2>2, <2>3
  <1>6. out' \in Seq(Int)
    BY <1>2, <1>5, JoinIs
  <1>7. LineInv'
    BY <1>1, <1>3, <1>6 DEF LineInv
  <1>8. Associate(out, x, y)
    BY <1>2, JoinsAssociate
  <1>9. out' \o Passed(buffer') = out \o Passed(buffer)
    BY <1>4, <1>5, <1>8 DEF Associate
  <1>10. SoFar' = SoFar
    BY <1>1 DEF SoFar
  <1> QED BY <1>7, <1>9, <1>10 DEF ReadInv

\* Fetch reads the next slice of the source at the head.
LEMMA FetchKeepsReads ==
  ASSUME LineInv, ReadInv, Fetch
  PROVE  LineInv' /\ ReadInv'
  <1>1. /\ buffer = <<>> /\ its # <<>> /\ pulled[Head(its)] < Len(sources[Head(its)].slices)
        /\ buffer' = sources[Head(its)].slices[pulled[Head(its)] + 1]
        /\ pulled' = [pulled EXCEPT ![Head(its)] = @ + 1]
        /\ UNCHANGED <<sources, its, out>>
    BY DEF Fetch, HasSlice, Source
  <1>2. PICK h, p, tt : h = Head(its) /\ p = pulled[h] /\ tt = sources[h].slices
    OBVIOUS
  <1>3. PICK n \in Nat, k \in Nat : n = Len(sources) /\ k = Len(its) /\ k <= n /\ k > 0
    BY <1>1, HeadOfLine
  <1>4. h \in 1..n /\ h = n - k + 1 /\ p \in Nat /\ tt \in Seq(Seq(Int)) /\ p < Len(tt)
    BY <1>1, <1>2, <1>3, HeadOfLine
  <1>5. buffer' = tt[p + 1] /\ buffer' \in Seq(Int)
    <2>1. p + 1 \in 1..Len(tt)
      BY <1>4
    <2>2. tt[p + 1] \in Seq(Int)
      <3>1. PICK T : T = Seq(Int)
        OBVIOUS
      <3>2. tt \in Seq(T)
        BY <1>4, <3>1
      <3>3. tt[p + 1] \in T
        BY ONLY <2>1, <3>2, ElementOfSeq
      <3> QED BY <3>1, <3>3
    <2> QED BY <1>1, <1>2, <2>2
  <1>6. pulled' = [pulled EXCEPT ![h] = p + 1] /\ p + 1 \in Nat
    BY <1>1, <1>2, <1>4
  <1>7. /\ sources \in Seq(OneSource) /\ its \in Seq(Nat) /\ out \in Seq(Int)
        /\ \A j \in 1..k : its[j] = n - k + j
        /\ pulled \in [1..n -> Nat]
        /\ \A i \in 1..n : pulled[i] <= Len(sources[i].slices) /\ (i > n - k + 1 => pulled[i] = 0)
    BY <1>3 DEF LineInv
  <1>8. pulled' \in [1..n -> Nat]
    BY <1>6, <1>7
  <1>9. ASSUME NEW i \in 1..n
        PROVE  pulled'[i] <= Len(sources[i].slices) /\ (i > n - k + 1 => pulled'[i] = 0)
    <2>1. CASE i = h
      <3>1. pulled'[i] = p + 1
        BY <1>6, <1>7, <2>1
      <3>2. p + 1 <= Len(sources[i].slices)
        <4>1. Len(tt) \in Nat
          BY <1>4, LenProperties
        <4> QED BY <1>2, <1>4, <2>1, <4>1
      <3>3. ~(i > n - k + 1)
        BY <1>4, <2>1
      <3> QED BY <3>1, <3>2, <3>3
    <2>2. CASE i # h
      BY <1>6, <1>7, <2>2
    <2> QED BY <2>1, <2>2
  <1>10. LineInv'
    BY <1>1, <1>3, <1>5, <1>7, <1>8, <1>9 DEF LineInv
  <1>11. SoFar = ReadTo(sources, h, p) /\ SoFar' = ReadTo(sources, h, p + 1)
    <2>1. pulled'[h] = p + 1
      BY <1>4, <1>6, <1>7
    <2> QED BY <1>1, <1>2, <2>1 DEF SoFar
  <1>12. PICK x \in Seq(Int) : x = tt[p + 1] /\ x = buffer'
    BY <1>5
  <1>13. PICK R \in Seq(Int) : R = ReadTo(sources, h, p) /\ ReadTo(sources, h, p + 1) = R \o x
    <2>1. p <= Len(sources[h].slices) /\ p < Len(sources[h].slices) /\ h \in 1..Len(sources)
      BY <1>2, <1>3, <1>4
    <2>2. /\ ReadTo(sources, h, p) \in Seq(Int)
          /\ ReadTo(sources, h, p + 1) = ReadTo(sources, h, p) \o sources[h].slices[p + 1]
      BY <1>4, <1>7, <2>1, ReadsAre
    <2> QED BY <1>2, <1>12, <2>2
  <1>14. Passed(SoFar') = Passed(R) \o Passed(x)
    BY <1>11, <1>13, PassedConcat
  <1>15. out = Passed(R)
    <2>1. out \o Passed(buffer) = out
      BY <1>1, <1>7, PassedNothing, ConcatEmptySeq
    <2> QED BY <1>11, <1>13, <2>1 DEF ReadInv
  <1> QED BY <1>1, <1>10, <1>12, <1>14, <1>15 DEF ReadInv

\* A source that is left has been read to its end.
LEMMA LeavingKeepsReads ==
  ASSUME LineInv, ReadInv, its # <<>>, ~HasSlice, its' = Tail(its),
         UNCHANGED <<sources, pulled, buffer, out>>
  PROVE  LineInv' /\ ReadInv'
  <1>1. PICK h, p, tt : h = Head(its) /\ p = pulled[h] /\ tt = sources[h].slices
    OBVIOUS
  <1>2. PICK n \in Nat, k \in Nat : n = Len(sources) /\ k = Len(its) /\ k <= n /\ k > 0
    BY HeadOfLine
  <1>3. h \in 1..n /\ h = n - k + 1 /\ p \in Nat /\ tt \in Seq(Seq(Int)) /\ p = Len(tt)
    <2>1. ~(p < Len(tt))
      BY <1>1 DEF HasSlice, Source
    <2>2. h \in 1..n /\ h = n - k + 1 /\ p \in Nat /\ tt \in Seq(Seq(Int)) /\ p <= Len(tt)
      BY <1>1, <1>2, HeadOfLine
    <2>3. Len(tt) \in Nat
      BY <2>2, LenProperties
    <2> QED BY <2>1, <2>2, <2>3
  <1>4. /\ sources \in Seq(OneSource) /\ its \in Seq(Nat) /\ out \in Seq(Int) /\ buffer \in Seq(Int)
        /\ \A j \in 1..k : its[j] = n - k + j
        /\ pulled \in [1..n -> Nat]
        /\ \A i \in 1..n : pulled[i] <= Len(sources[i].slices) /\ (i > n - k + 1 => pulled[i] = 0)
    BY <1>2 DEF LineInv
  <1>5. PICK m \in Nat : m = k - 1
    BY <1>2
  <1>6. its' \in Seq(Nat) /\ Len(its') = m /\ \A j \in 1..m : its'[j] = its[j + 1]
    BY <1>2, <1>4, <1>5, HeadTailProperties
  <1>7. ASSUME NEW j \in 1..m PROVE its'[j] = n - m + j
    <2>1. j + 1 \in 1..k /\ n - k + (j + 1) = n - m + j
      BY <1>5
    <2> QED BY <1>4, <1>6, <2>1
  <1>8. ASSUME NEW i \in 1..n, i > n - m + 1 PROVE pulled[i] = 0
    <2>1. i > n - k + 1
      BY <1>5, <1>8
    <2> QED BY <1>4, <2>1
  <1>9. LineInv'
    <2>1. m <= n
      BY <1>2, <1>5
    <2> QED BY <1>2, <1>4, <1>6, <1>7, <1>8, <2>1 DEF LineInv
  <1>10. SoFar = FirstOf(sources, h)
    <2>1. SoFar = ReadTo(sources, h, p)
      BY <1>1 DEF SoFar
    <2>2. p <= Len(sources[h].slices) /\ p = Len(sources[h].slices) /\ h \in 1..Len(sources)
      BY <1>1, <1>2, <1>3
    <2>3. ReadTo(sources, h, p) = FirstOf(sources, h)
      BY <1>3, <1>4, <2>2, ReadsAre
    <2> QED BY <2>1, <2>3
  <1>11. SoFar' = FirstOf(sources, h)
    <2>1. CASE m = 0
      <3>1. its' = <<>> /\ h = n
        BY <1>3, <1>5, <1>6, <2>1, EmptySeq
      <3> QED BY <1>2, <3>1 DEF SoFar
    <2>2. CASE m # 0
      <3>1. its' # <<>>
        BY <1>6, <2>2
      <3>2. PICK g : g = Head(its')
        OBVIOUS
      <3>3. g = n - m + 1 /\ g \in 1..n /\ g - 1 = h
        <4>1. g = n - m + 1 /\ g \in 1..n
          <5>1. 1 \in 1..m
            BY <2>2
          <5>2. g = its'[1]
            BY <1>6, <3>1, <3>2
          <5>3. its'[1] = n - m + 1
            BY <1>7, <5>1
          <5>4. n - m + 1 \in 1..n
            BY <1>2, <1>5, <2>2
          <5> QED BY <5>2, <5>3, <5>4
        <4> QED BY <1>3, <1>5, <4>1
      <3>4. pulled[g] = 0
        <4>1. g > n - k + 1
          BY <1>3, <3>3
        <4> QED BY <1>4, <3>3, <4>1
      <3>5. SoFar' = ReadTo(sources, g, 0)
        BY <3>1, <3>2, <3>4 DEF SoFar
      <3>6. ReadTo(sources, g, 0) = FirstOf(sources, g - 1)
        <4>1. g \in 1..Len(sources) /\ 0 \in Nat /\ 0 <= Len(sources[g].slices)
          <5>1. sources[g].slices \in Seq(Seq(Int))
            BY <1>2, <1>4, <3>3, PartsAre
          <5> QED BY <1>2, <3>3, <5>1, LenProperties
        <4> QED BY <1>4, <4>1, ReadsAre
      <3> QED BY <3>3, <3>5, <3>6
    <2> QED BY <2>1, <2>2
  <1> QED BY <1>9, <1>10, <1>11 DEF ReadInv

LEMMA ClosingIs ==
  ASSUME ClosedInv, NEW is, CloseAll(is), UNCHANGED sources
  PROVE  /\ closedBy' \in [1..Len(sources) -> Nat]
         /\ \A i \in 1..Len(sources) : /\ closedBy[i] > 0 => closedBy'[i] > 0
                                       /\ i \in is => closedBy'[i] > 0
  <1>1. closedBy \in [1..Len(sources) -> Nat]
    BY DEF ClosedInv
  <1>2. closedBy' = [i \in 1..Len(sources) |-> closedBy[i] + IF i \in is THEN 1 ELSE 0]
    BY <1>1 DEF CloseAll
  <1>3. ASSUME NEW i \in 1..Len(sources)
        PROVE  /\ closedBy'[i] \in Nat /\ (closedBy[i] > 0 => closedBy'[i] > 0)
               /\ i \in is => closedBy'[i] > 0
    <2>1. PICK c \in Nat : c = closedBy[i]
      BY <1>1
    <2>2. closedBy'[i] = c + IF i \in is THEN 1 ELSE 0
      BY <1>2, <2>1
    <2>3. CASE i \in is
      BY <2>1, <2>2, <2>3
    <2>4. CASE i \notin is
      BY <2>1, <2>2, <2>4
    <2> QED BY <2>3, <2>4
  <1> QED BY <1>2, <1>3

\* Whatever is still in the line is closed by closing all of it.
LEMMA ClosingTheLine ==
  ASSUME LineInv, ClosedInv, CloseAll(ToSet(its)), UNCHANGED sources
  PROVE  \A i \in 1..Len(sources) : closedBy'[i] > 0
  <1> SUFFICES ASSUME NEW i \in 1..Len(sources) PROVE closedBy'[i] > 0
    OBVIOUS
  <1>1. PICK n \in Nat, k \in Nat : n = Len(sources) /\ k = Len(its) /\ k <= n
    BY DEF LineInv
  <1>2. CASE i <= n - k
    <2>1. closedBy[i] > 0
      BY <1>1, <1>2 DEF ClosedInv
    <2> QED BY <2>1, ClosingIs
  <1>3. CASE ~(i <= n - k)
    <2>1. PICK j \in 1..k : n - k + j = i
      <3>1. i - (n - k) \in 1..k /\ n - k + (i - (n - k)) = i
        BY <1>1, <1>3
      <3> QED BY <3>1
    <2>2. its[j] = i /\ j \in DOMAIN its
      <3>1. its[j] = n - k + j
        BY <1>1 DEF LineInv
      <3>2. its \in Seq(Nat)
        BY DEF LineInv
      <3> QED BY <1>1, <2>1, <3>1, <3>2, LenProperties
    <2>3. i \in ToSet(its)
      BY <2>2 DEF ToSet
    <2> QED BY <2>3, ClosingIs
  <1> QED BY <1>2, <1>3

LEMMA PipeNextInv == PipeInv /\ [PipeNext]_pipeVars => PipeInv'
  <1> SUFFICES ASSUME PipeInv, [PipeNext]_pipeVars PROVE PipeInv'
    OBVIOUS
  <1>1. LineInv /\ ReadInv /\ EndInv /\ ClosedInv
    BY DEF PipeInv
  <1>2. ASSUME UNCHANGED <<sources, its, pulled, buffer, out>> PROVE LineInv' /\ ReadInv'
    BY <1>1, <1>2 DEF LineInv, ReadInv, SoFar
  <1>3. ASSUME UNCHANGED <<sources, its, asked, closedBy, released>> PROVE ClosedInv'
    BY <1>1, <1>3 DEF ClosedInv
  <1>4. CASE TakeBuffered
    <2>1. LineInv' /\ ReadInv'
      BY <1>1, <1>4, TakingKeepsReads
    <2>2. EndInv'
      BY <1>4 DEF EndInv, TakeBuffered, Pulling
    <2>3. ClosedInv'
      BY <1>1, <1>4 DEF ClosedInv, TakeBuffered, Pulling
    <2> QED BY <2>1, <2>2, <2>3 DEF PipeInv
  <1>5. CASE Fetch
    <2>1. LineInv' /\ ReadInv'
      BY <1>1, <1>5, FetchKeepsReads
    <2>2. EndInv'
      BY <1>5 DEF EndInv, Fetch, Pulling
    <2>3. ClosedInv'
      BY <1>3, <1>5 DEF Fetch
    <2> QED BY <2>1, <2>2, <2>3 DEF PipeInv
  <1>6. CASE RanOut
    <2>1. LineInv' /\ ReadInv' /\ ClosedInv'
      BY <1>2, <1>3, <1>6 DEF RanOut
    <2>2. EndInv'
      BY <1>6 DEF EndInv, RanOut
    <2> QED BY <2>1, <2>2 DEF PipeInv
  <1>7. CASE Collected
    <2>1. LineInv' /\ ReadInv' /\ ClosedInv'
      BY <1>2, <1>3, <1>7 DEF Collected
    <2>2. EndInv'
      BY <1>1, <1>7 DEF EndInv, Collected
    <2> QED BY <2>1, <2>2 DEF PipeInv
  <1>8. CASE FoundEmpty
    <2>1. LineInv' /\ ReadInv'
      BY <1>2, <1>8 DEF FoundEmpty
    <2>2. EndInv'
      BY <1>8 DEF EndInv, FoundEmpty
    <2>3. CloseAll(ToSet(its)) /\ UNCHANGED <<sources, its>>
      BY <1>8 DEF FoundEmpty
    <2>4. /\ closedBy' \in [1..Len(sources) -> Nat]
          /\ \A i \in 1..Len(sources) : closedBy'[i] > 0
      BY <1>1, <2>3, ClosingIs, ClosingTheLine
    <2>5. ClosedInv'
      BY <2>3, <2>4 DEF ClosedInv
    <2> QED BY <2>1, <2>2, <2>5 DEF PipeInv
  <1>9. CASE Release
    <2>1. LineInv' /\ ReadInv'
      BY <1>2, <1>9 DEF Release
    <2>2. EndInv'
      BY <1>1, <1>9 DEF EndInv, Release
    <2>3. UNCHANGED <<sources, its>> /\ CloseAll(IF asked = "empty" THEN {} ELSE ToSet(its))
      BY <1>9 DEF Release
    <2>4. closedBy' \in [1..Len(sources) -> Nat]
      BY <1>1, <2>3, ClosingIs
    <2>5. \A i \in 1..Len(sources) : closedBy'[i] > 0
      <3>1. CASE asked = "empty"
        <4>1. \A i \in 1..Len(sources) : closedBy[i] > 0
          BY <1>1, <3>1 DEF ClosedInv
        <4>2. \A i \in 1..Len(sources) : closedBy[i] > 0 => closedBy'[i] > 0
          BY <1>1, <2>3, ClosingIs
        <4> QED BY <4>1, <4>2
      <3>2. CASE asked # "empty"
        BY <1>1, <2>3, <3>2, ClosingTheLine
      <3> QED BY <3>1, <3>2
    <2>6. ClosedInv'
      BY <2>3, <2>4, <2>5 DEF ClosedInv
    <2> QED BY <2>1, <2>2, <2>6 DEF PipeInv
  <1>10. ASSUME NEW cancelled \in BOOLEAN, Exhausted(cancelled) PROVE PipeInv'
    <2>1. /\ buffer = <<>> /\ its # <<>> /\ CloseAll({Head(its)}) /\ state = "pulling" /\ ~released
          /\ UNCHANGED <<sources, pulled, buffer, out, asked, released>>
      BY <1>10 DEF Exhausted, Pulling
    <2>2. /\ closedBy' \in [1..Len(sources) -> Nat]
          /\ \A i \in 1..Len(sources) : /\ closedBy[i] > 0 => closedBy'[i] > 0
                                        /\ i = Head(its) => closedBy'[i] > 0
      BY <1>1, <2>1, ClosingIs
    <2>3. CASE err' = TRUE /\ state' = "stopped" /\ UNCHANGED its
      <3>1. LineInv' /\ ReadInv'
        BY <1>2, <2>1, <2>3
      <3>2. EndInv'
        BY <2>1, <2>3 DEF EndInv
      <3>3. ClosedInv'
        BY <1>1, <2>1, <2>2, <2>3 DEF ClosedInv
      <3> QED BY <3>1, <3>2, <3>3 DEF PipeInv
    <2>4. CASE ~HasSlice /\ its' = Tail(its) /\ UNCHANGED <<err, state>>
      <3>1. LineInv' /\ ReadInv'
        BY <1>1, <2>1, <2>4, LeavingKeepsReads
      <3>2. EndInv'
        BY <2>1, <2>4 DEF EndInv
      <3>3. PICK n \in Nat, k \in Nat : n = Len(sources) /\ k = Len(its) /\ Head(its) = n - k + 1
        BY <1>1, <2>1, HeadOfLine
      <3>4. Len(its') = k - 1
        BY <1>1, <2>1, <2>4, <3>3, HeadTailProperties DEF LineInv
      <3>5. ASSUME NEW i \in 1..n, i <= n - (k - 1) PROVE closedBy'[i] > 0
        <4>1. CASE i = n - k + 1
          BY <2>2, <3>3, <4>1
        <4>2. CASE i # n - k + 1
          <5>1. i <= n - k
            BY <3>5, <4>2
          <5>2. closedBy[i] > 0
            BY <1>1, <3>3, <5>1 DEF ClosedInv
          <5> QED BY <2>2, <3>3, <5>2
        <4> QED BY <4>1, <4>2
      <3>6. ClosedInv'
        BY <1>1, <2>1, <2>2, <3>3, <3>4, <3>5 DEF ClosedInv
      <3> QED BY <3>1, <3>2, <3>6 DEF PipeInv
    <2> QED BY <1>10, <2>3, <2>4 DEF Exhausted
  <1>11. CASE UNCHANGED pipeVars
    <2>1. UNCHANGED <<sources, its, pulled, buffer, out, asked, err, state, closedBy, released>>
      BY <1>11 DEF pipeVars
    <2>2. EndInv'
      BY <1>1, <2>1 DEF EndInv
    <2> QED BY <1>2, <1>3, <2>1, <2>2 DEF PipeInv
  <1> QED BY <1>4, <1>5, <1>6, <1>7, <1>8, <1>9, <1>10, <1>11 DEF PipeNext

LEMMA PipeInitInv == PipeInit => PipeInv
  <1> SUFFICES ASSUME PipeInit PROVE PipeInv
    OBVIOUS
  <1>1. sources \in Seq(OneSource)
    BY PipeAssumption DEF PipeInit, OneSource
  <1>2. PICK n \in Nat : n = Len(sources) /\ DOMAIN sources = 1..n
    BY <1>1
  <1>3. /\ its = [i \in 1..n |-> i] /\ pulled = [i \in 1..n |-> 0] /\ closedBy = [i \in 1..n |-> 0]
        /\ buffer = <<>> /\ out = <<>>
    BY <1>2 DEF PipeInit
  <1>4. its \in Seq(Nat) /\ Len(its) = n /\ \A j \in 1..n : its[j] = n - n + j
    BY <1>3
  <1>5. \A i \in 1..n : 0 <= Len(sources[i].slices)
    <2>1. \A i \in 1..n : sources[i].slices \in Seq(Seq(Int))
      BY <1>1, <1>2, PartsAre
    <2> QED BY <2>1, LenProperties
  <1>6. LineInv
    BY <1>1, <1>2, <1>3, <1>4, <1>5 DEF LineInv
  <1>7. SoFar = <<>>
    <2>1. FirstOf(sources, 0) = <<>>
      BY <1>1, <1>2, FirstAre
    <2>2. CASE n = 0
      BY <1>2, <1>4, <2>1, <2>2 DEF SoFar
    <2>3. CASE n # 0
      <3>1. its # <<>> /\ Head(its) = 1 /\ 1 \in 1..n /\ pulled[1] = 0
        BY <1>3, <1>4, <2>3
      <3>2. SoFar = ReadTo(sources, 1, 0)
        BY <3>1 DEF SoFar
      <3>3. 1 \in 1..Len(sources) /\ 0 <= Len(sources[1].slices) /\ 0 \in Nat /\ 1 - 1 = 0
        BY <1>2, <1>5, <3>1
      <3>4. ReadTo(sources, 1, 0) = FirstOf(sources, 1 - 1)
        BY <1>1, <3>3, ReadsAre
      <3> QED BY <2>1, <3>2, <3>3, <3>4
    <2> QED BY <2>2, <2>3
  <1>8. ReadInv
    <2>1. <<>> \o <<>> = <<>>
      OBVIOUS
    <2> QED BY <1>3, <1>7, <2>1, PassedNothing DEF ReadInv
  <1>9. EndInv
    BY DEF EndInv, PipeInit
  <1>10. ClosedInv
    <2>1. asked # "empty" /\ ~released
      BY DEF PipeInit
    <2>2. closedBy \in [1..n -> Nat]
      BY <1>3
    <2>3. \A i \in 1..n : ~(i <= n - n)
      OBVIOUS
    <2> QED BY <1>2, <1>4, <2>1, <2>2, <2>3 DEF ClosedInv
  <1> QED BY <1>6, <1>8, <1>9, <1>10 DEF PipeInv

LEMMA PrefixOfJoin ==
  ASSUME NEW s \in Seq(Int), NEW t \in Seq(Int)
  PROVE  IsPrefix(s, s \o t)
  <1>1. PICK c : c = s \o t
    OBVIOUS
  <1>2. PICK n \in Nat, m \in Nat : n = Len(s) /\ m = Len(t)
    OBVIOUS
  <1>3. c \in Seq(Int) /\ Len(c) = n + m /\ \A i \in 1..n : c[i] = s[i]
    BY <1>1, <1>2
  <1>4. SubSeq(c, 1, n) = SubSeq(s, 1, n)
    <2>1. PICK a, b : a = SubSeq(c, 1, n) /\ b = SubSeq(s, 1, n)
      OBVIOUS
    <2>2. a \in Seq(Int) /\ Len(a) = n /\ \A i \in 1..n : a[i] = c[i]
      BY <1>2, <1>3, <2>1
    <2>3. b \in Seq(Int) /\ Len(b) = n /\ \A i \in 1..n : b[i] = s[i]
      BY <1>2, <2>1
    <2>4. a = b
      BY <1>3, <2>2, <2>3, SameIs
    <2> QED BY <2>1, <2>4
  <1> QED BY <1>1, <1>2, <1>3, <1>4 DEF IsPrefix

LEMMA PipeInvImplies == PipeInv => PipelineIsWhole
  <1> SUFFICES ASSUME PipeInv PROVE PipelineIsWhole
    OBVIOUS
  <1>1. LineInv /\ ReadInv /\ EndInv /\ ClosedInv
    BY DEF PipeInv
  <1>2. sources \in Seq(OneSource) /\ buffer \in Seq(Int) /\ out \in Seq(Int)
    BY <1>1 DEF LineInv
  <1>3. Everything = Passed(FlattenSeq(PartsOf(sources)))
    BY DEF Everything, PartsOf
  <1>4. PICK n \in Nat : n = Len(sources) /\ n <= Len(sources)
    BY <1>2
  <1>5. \E r \in Seq(Int) : SoFar \in Seq(Int) /\ FlattenSeq(PartsOf(sources)) = SoFar \o r
    <2>1. CASE its = <<>>
      BY <1>2, <1>4, <2>1, FirstAre DEF SoFar
    <2>2. CASE its # <<>>
      <3>1. PICK h, p : h = Head(its) /\ p = pulled[h]
        OBVIOUS
      <3>2. h \in 1..Len(sources) /\ p \in Nat /\ p <= Len(sources[h].slices)
        BY <1>1, <2>2, <3>1, HeadOfLine
      <3>3. SoFar = ReadTo(sources, h, p)
        BY <2>2, <3>1 DEF SoFar
      <3> QED BY <1>2, <3>2, <3>3, ReadsAre
    <2> QED BY <2>1, <2>2
  <1>6. PICK r \in Seq(Int), z \in Seq(Int) :
          z = SoFar /\ FlattenSeq(PartsOf(sources)) = z \o r
    BY <1>5
  <1>7. Everything = Passed(z) \o Passed(r)
    BY <1>3, <1>6, PassedConcat
  <1>8. PICK x \in Seq(Int), y \in Seq(Int) : x = Passed(buffer) /\ y = Passed(r)
    BY <1>2, PassedIsSeq
  <1>9. Passed(z) = out \o x
    BY <1>1, <1>6, <1>8 DEF ReadInv
  <1>10. Everything = out \o (x \o y)
    <2>1. Associate(out, x, y)
      BY <1>2, JoinsAssociate
    <2> QED BY <1>7, <1>8, <1>9, <2>1 DEF Associate
  <1>11. IsPrefix(out, Everything)
    <2>1. x \o y \in Seq(Int)
      BY JoinIs
    <2> QED BY <1>2, <1>10, <2>1, PrefixOfJoin
  <1>12. ASSUME state = "ok", asked # "empty" PROVE out = Everything
    <2>1. buffer = <<>> /\ its = <<>>
      BY <1>1, <1>12 DEF EndInv
    <2>2. SoFar = FlattenSeq(PartsOf(sources))
      BY <1>2, <1>4, <2>1, FirstAre DEF SoFar
    <2>3. out \o <<>> = Everything
      BY <1>1, <1>3, <2>1, <2>2, PassedNothing DEF ReadInv
    <2> QED BY <1>2, <2>3, ConcatEmptySeq
  <1>13. AllReleased
    <2>1. DOMAIN sources = 1..Len(sources)
      BY <1>2
    <2> QED BY <1>1, <2>1 DEF AllReleased, ClosedInv
  <1> QED BY <1>11, <1>12, <1>13 DEF PipelineIsWhole, CollectedIsAll

THEOREM PipelinesStayWhole == PipeSpec => []PipelineIsWhole
  <1>1. PipeInit => PipeInv
    BY PipeInitInv
  <1>2. PipeInv /\ [PipeNext]_pipeVars => PipeInv'
    BY PipeNextInv
  <1>3. PipeInv => PipelineIsWhole
    BY PipeInvImplies
  <1> QED BY <1>1, <1>2, <1>3, PTL DEF PipeSpec

-----------------------------------------------------------------------------
(***************************************************************************)
(* UpspinFile.  Sequences of bytes.                                        *)
(***************************************************************************)
LEMMA FunctionIsSeq ==
  ASSUME NEW n \in Nat, NEW s \in [1..n -> Nat]
  PROVE  s \in Seq(Nat) /\ Len(s) = n /\ DOMAIN s = 1..n
  OBVIOUS

\* p is s with b over it from off to end.
WrittenOver(p, s, b, off, end) ==
  /\ p \in Seq(Nat)
  /\ Len(p) = IF end > Len(s) THEN end ELSE Len(s)
  /\ \A i \in 1..Len(p) : off < i /\ i <= end => p[i] = b[i - off]
  /\ \A i \in 1..Len(p) : ~(off < i /\ i <= end) /\ i <= Len(s) => p[i] = s[i]
  /\ \A i \in 1..Len(p) : ~(off < i /\ i <= end) /\ ~(i <= Len(s)) => p[i] = 0

LEMMA PatchedIs ==
  ASSUME NEW s \in Seq(Nat), NEW b \in Seq(Nat), NEW off \in Nat,
         NEW end, end = off + Len(b), NEW p, p = Patched(s, b, off)
  PROVE  WrittenOver(p, s, b, off, end)
  <1>0. PICK n \in Nat : n = IF end > Len(s) THEN end ELSE Len(s)
    OBVIOUS
  <1>1. p = [i \in 1..n |-> IF off < i /\ i <= end THEN b[i - off]
                            ELSE IF i <= Len(s) THEN s[i] ELSE 0]
    BY <1>0 DEF Patched
  <1>2. ASSUME NEW i \in 1..n
        PROVE  p[i] \in Nat
    <2>1. CASE off < i /\ i <= end
      <3>1. i - off \in 1..Len(b)
        BY <2>1
      <3>2. p[i] = b[i - off]
        BY <1>1, <2>1
      <3> QED BY <3>1, <3>2
    <2>2. CASE ~(off < i /\ i <= end) /\ i <= Len(s)
      <3>1. i \in 1..Len(s)
        BY <2>2
      <3>2. p[i] = s[i]
        BY <1>1, <2>2
      <3> QED BY <3>1, <3>2
    <2>3. CASE ~(off < i /\ i <= end) /\ ~(i <= Len(s))
      BY <1>1, <2>3
    <2> QED BY <2>1, <2>2, <2>3
  <1>3. p \in [1..n -> Nat]
    BY <1>1, <1>2
  <1>4. p \in Seq(Nat) /\ Len(p) = n
    BY <1>3, FunctionIsSeq
  <1> QED BY <1>0, <1>1, <1>4 DEF WrittenOver

LEMMA ZerosAre ==
  ASSUME NEW n \in Nat
  PROVE  Zeros(n) \in Seq(Nat) /\ Len(Zeros(n)) = n /\ \A i \in 1..n : Zeros(n)[i] = 0
  <1>1. Zeros(n) \in [1..n -> Nat] /\ \A i \in 1..n : Zeros(n)[i] = 0
    BY DEF Zeros
  <1> QED BY <1>1, FunctionIsSeq

-----------------------------------------------------------------------------
\* A File that was opened.
FileRec ==
  [pc : {"idle", "lookup"}, writable : BOOLEAN, create : BOOLEAN, dirty : BOOLEAN,
   closed : BOOLEAN, array : Seq(Nat), len : Nat, readOffset : Nat, writeOffset : Nat,
   reader : Seq(Nat), at : Nat, lastPutSeqID : Nat, tries : Nat, synced : Nat,
   want : Seq(Nat), cut : SUBSET Nat, saving : Seq(Nat)]

\* The slice is no longer than its array, and agrees with what was written
\* but for what was cut off; behind it the array has zeros and what was cut
\* off.  A reader that is kept is the slice's.
BufferInv(f) ==
  /\ Len(f.want) = f.len
  /\ \A i \in 1..f.len : i \in f.cut \/ f.array[i] = f.want[i]
  /\ \A i \in 1..Len(f.array) : i > f.len => i \in f.cut \/ f.array[i] = 0
  /\ ~f.dirty => f.reader = Data(f) /\ f.at = f.readOffset

\* A version that was put is found again under its number.
PutInv(f) ==
  /\ f.lastPutSeqID <= Len(versions) /\ f.synced <= seen
  /\ f.synced > 0 /\ f.synced = f.lastPutSeqID => versions[f.synced] = f.saving
  /\ f.pc = "lookup" => f.lastPutSeqID > 0 /\ versions[f.lastPutSeqID] = f.saving

OpenFile(f) ==
  /\ f \in FileRec
  /\ f.len <= Len(f.array)
  /\ ~f.closed => BufferInv(f)

FileInv ==
  /\ versions \in Seq(Seq(Nat)) /\ seen \in Nat /\ seen <= Len(versions)
  /\ DOMAIN files = Files
  /\ \A h \in Files : files[h] # NotOpen => OpenFile(files[h]) /\ PutInv(files[h])

LEMMA DataIs ==
  ASSUME NEW f, f.array \in Seq(Nat), f.len \in Nat, f.len <= Len(f.array)
  PROVE  /\ Data(f) \in Seq(Nat) /\ Len(Data(f)) = f.len
         /\ \A i \in 1..f.len : Data(f)[i] = f.array[i]
  BY DEF Data

\* The slice is what a reader may expect.
LEMMA DataIsExpected ==
  ASSUME NEW f, OpenFile(f), ~f.closed
  PROVE  Data(f) = Expected(f)
  <1>1. /\ f.array \in Seq(Nat) /\ f.len \in Nat /\ f.len <= Len(f.array)
        /\ f.want \in Seq(Nat) /\ BufferInv(f)
    BY DEF OpenFile, FileRec
  <1>2. /\ Data(f) \in Seq(Nat) /\ Len(Data(f)) = f.len
        /\ \A i \in 1..f.len : Data(f)[i] = f.array[i]
    BY <1>1, DataIs
  <1>3. DOMAIN f.want = 1..f.len
    BY <1>1 DEF BufferInv
  <1>4. Expected(f) = [i \in 1..f.len |-> IF i \in f.cut THEN f.array[i] ELSE f.want[i]]
    BY <1>3 DEF Expected
  <1>5. \A i \in 1..f.len : Expected(f)[i] = f.array[i]
    BY <1>1, <1>4 DEF BufferInv
  <1>6. DOMAIN Data(f) = 1..f.len /\ DOMAIN Expected(f) = 1..f.len
    BY <1>2, <1>4
  <1>7. Data(f) = [i \in 1..f.len |-> f.array[i]]
    BY <1>2, <1>6
  <1>8. Expected(f) = [i \in 1..f.len |-> f.array[i]]
    BY <1>4, <1>5
  <1> QED BY <1>7, <1>8

\* initRead brings the reader up to date.
LEMMA InitReadIs ==
  ASSUME NEW f, OpenFile(f)
  PROVE  LET g == InitRead(f) IN
         /\ OpenFile(g) /\ ~g.dirty
         /\ g.pc = f.pc /\ g.closed = f.closed /\ g.lastPutSeqID = f.lastPutSeqID
         /\ g.synced = f.synced /\ g.saving = f.saving /\ g.readOffset = f.readOffset
         /\ ~f.closed => g.at = f.readOffset /\ g.reader = Data(f)
  <1>1. /\ f \in FileRec /\ f.len <= Len(f.array)
        /\ f.array \in Seq(Nat) /\ f.len \in Nat
    BY DEF OpenFile, FileRec
  <1>2. Data(f) \in Seq(Nat)
    BY <1>1, DataIs
  <1>3. CASE ~f.dirty
    BY <1>3 DEF InitRead, OpenFile, BufferInv
  <1>4. CASE f.dirty
    <2>1. PICK g : g = [f EXCEPT !.dirty = FALSE, !.reader = Data(f), !.at = f.readOffset]
      OBVIOUS
    <2>2. InitRead(f) = g
      BY <1>4, <2>1 DEF InitRead
    <2>3. /\ g \in FileRec
          /\ g.dirty = FALSE /\ g.reader = Data(f) /\ g.at = f.readOffset
          /\ g.pc = f.pc /\ g.closed = f.closed /\ g.lastPutSeqID = f.lastPutSeqID
          /\ g.synced = f.synced /\ g.saving = f.saving /\ g.readOffset = f.readOffset
          /\ g.array = f.array /\ g.len = f.len /\ g.want = f.want /\ g.cut = f.cut
      BY <1>1, <1>2, <2>1 DEF FileRec
    <2>4. Data(g) = Data(f)
      BY <2>3 DEF Data
    <2>5. OpenFile(g)
      BY <1>1, <2>3, <2>4 DEF OpenFile, BufferInv
    <2> QED BY <2>2, <2>3, <2>5
  <1> QED BY <1>1, <1>3, <1>4 DEF FileRec

\* An array that grew has the slice, and nothing new but zeros behind it.
LEMMA GrownIs ==
  ASSUME NEW f, OpenFile(f), ~f.closed, NEW end \in Nat, end <= MaxInt
  PROVE  LET a == Grown(f, end) IN
         /\ a \in Seq(Nat) /\ Len(a) >= end /\ Len(a) >= f.len
         /\ \A i \in 1..f.len : a[i] = f.array[i]
         /\ \A i \in 1..Len(a) : i > f.len => i \in f.cut \/ a[i] = 0
  <1> DEFINE a == Grown(f, end)
  <1>1. /\ f.array \in Seq(Nat) /\ f.len \in Nat /\ f.len <= Len(f.array) /\ BufferInv(f)
    BY DEF OpenFile, FileRec
  <1>2. CASE end <= Len(f.array)
    <2>1. a = f.array
      BY <1>2 DEF Grown
    <2> QED BY <1>1, <1>2, <2>1 DEF BufferInv
  <1>3. CASE ~(end <= Len(f.array))
    <2>1. PICK n \in Int : n = Smaller((end * 3) \div 2, MaxInt) - f.len
      BY <1>1, FileAssumption DEF Smaller
    <2>2. n \in Nat /\ f.len + n >= end
      <3>1. (end * 3) \div 2 \in Nat /\ (end * 3) \div 2 >= end
        OBVIOUS
      <3>2. Smaller((end * 3) \div 2, MaxInt) \in Nat /\ Smaller((end * 3) \div 2, MaxInt) >= end
        BY <3>1, FileAssumption DEF Smaller
      <3> QED BY <1>1, <1>3, <2>1, <3>2
    <2>3. a = Data(f) \o Zeros(n)
      BY <1>3, <2>1 DEF Grown
    <2>4. /\ Data(f) \in Seq(Nat) /\ Len(Data(f)) = f.len
          /\ \A i \in 1..f.len : Data(f)[i] = f.array[i]
      BY <1>1, DataIs
    <2>5. Zeros(n) \in Seq(Nat) /\ Len(Zeros(n)) = n /\ \A i \in 1..n : Zeros(n)[i] = 0
      BY <2>2, ZerosAre
    <2> HIDE DEF a
    <2>6. /\ a \in Seq(Nat) /\ Len(a) = f.len + n
          /\ \A i \in 1..f.len + n : a[i] = IF i <= f.len THEN Data(f)[i] ELSE Zeros(n)[i - f.len]
      <3>1. PICK d, z : d = Data(f) /\ z = Zeros(n)
        OBVIOUS
      <3>2. d \in Seq(Nat) /\ z \in Seq(Nat) /\ Len(d) = f.len /\ Len(z) = n /\ a = d \o z
        BY <2>3, <2>4, <2>5, <3>1
      <3>3. /\ d \o z \in Seq(Nat) /\ Len(d \o z) = Len(d) + Len(z)
            /\ \A i \in 1..Len(d) + Len(z) :
                 (d \o z)[i] = IF i <= Len(d) THEN d[i] ELSE z[i - Len(d)]
        BY ONLY <3>2, ConcatProperties
      <3> QED BY <3>1, <3>2, <3>3
    <2>7. ASSUME NEW i \in 1..Len(a), i > f.len PROVE a[i] = 0
      <3>0. /\ f.len \in Nat /\ n \in Nat /\ i \in 1..Len(a) /\ i > f.len
            /\ Len(a) = f.len + n
        BY <1>1, <2>2, <2>6, <2>7
      <3>1. i - f.len \in 1..n
        BY ONLY <3>0
      <3>2. i \in 1..f.len + n /\ ~(i <= f.len)
        BY ONLY <3>0
      <3>3. a[i] = Zeros(n)[i - f.len]
        BY ONLY <2>6, <3>2
      <3> QED BY ONLY <2>5, <3>1, <3>3
    <2>8. ASSUME NEW i \in 1..f.len PROVE a[i] = f.array[i]
      <3>1. i \in 1..f.len + n /\ i <= f.len
        BY <1>1, <2>2
      <3>2. a[i] = Data(f)[i]
        BY <2>6, <3>1
      <3> QED BY <2>4, <3>2
    <2>9. Len(a) >= end /\ Len(a) >= f.len
      BY <1>1, <2>2, <2>6
    <2> QED BY <2>6, <2>7, <2>8, <2>9 DEF a
  <1> QED BY <1>2, <1>3

\* A write.
LEMMA WrittenIs ==
  ASSUME NEW f, OpenFile(f), ~f.closed, NEW b \in Seq(Nat), NEW off \in Nat,
         off + Len(b) <= MaxInt
  PROVE  LET g == writeAt(f, b, off) IN
         /\ OpenFile(g) /\ g.pc = f.pc /\ g.lastPutSeqID = f.lastPutSeqID
         /\ g.synced = f.synced /\ g.saving = f.saving /\ g.closed = f.closed
         /\ g.dirty /\ g.writeOffset = f.writeOffset
  <1> DEFINE g == writeAt(f, b, off)
  <1>0. PICK end \in Nat : end = off + Len(b)
    OBVIOUS
  <1>1. PICK a, p, w, l :
          /\ a = Grown(f, end) /\ p = Patched(a, b, off) /\ w = Patched(f.want, b, off)
          /\ l = IF end > f.len THEN end ELSE f.len
    OBVIOUS
  <1>2. /\ f \in FileRec /\ f.array \in Seq(Nat) /\ f.want \in Seq(Nat) /\ f.len \in Nat
        /\ f.cut \subseteq Nat /\ BufferInv(f)
    BY DEF OpenFile, FileRec
  <1>3. /\ a \in Seq(Nat) /\ Len(a) >= end /\ Len(a) >= f.len
        /\ \A i \in 1..f.len : a[i] = f.array[i]
        /\ \A i \in 1..Len(a) : i > f.len => i \in f.cut \/ a[i] = 0
    BY <1>0, <1>1, GrownIs
  <1>4. /\ p \in Seq(Nat) /\ Len(p) = Len(a)
        /\ \A i \in 1..Len(p) : off < i /\ i <= end => p[i] = b[i - off]
        /\ \A i \in 1..Len(p) : ~(off < i /\ i <= end) => p[i] = a[i]
    <2>1. /\ p \in Seq(Nat)
          /\ Len(p) = IF end > Len(a) THEN end ELSE Len(a)
          /\ \A i \in 1..Len(p) : off < i /\ i <= end => p[i] = b[i - off]
          /\ \A i \in 1..Len(p) : ~(off < i /\ i <= end) /\ i <= Len(a) => p[i] = a[i]
      <3>1. /\ a \in Seq(Nat) /\ b \in Seq(Nat) /\ off \in Nat
            /\ end = off + Len(b) /\ p = Patched(a, b, off)
        BY <1>0, <1>1, <1>3
      <3>2. WrittenOver(p, a, b, off, end)
        BY ONLY <3>1, PatchedIs
      <3> QED BY ONLY <3>2 DEF WrittenOver
    <2>2. Len(p) = Len(a)
      BY <1>3, <2>1
    <2> QED BY <1>3, <2>1, <2>2
  <1>5. /\ w \in Seq(Nat) /\ Len(w) = l
        /\ \A i \in 1..l : off < i /\ i <= end => w[i] = b[i - off]
        /\ \A i \in 1..l : ~(off < i /\ i <= end) /\ i <= f.len => w[i] = f.want[i]
        /\ \A i \in 1..l : ~(off < i /\ i <= end) /\ ~(i <= f.len) => w[i] = 0
    <2>1. Len(f.want) = f.len
      BY <1>2 DEF BufferInv
    <2>2. /\ w \in Seq(Nat)
          /\ Len(w) = IF end > f.len THEN end ELSE f.len
          /\ \A i \in 1..Len(w) : off < i /\ i <= end => w[i] = b[i - off]
          /\ \A i \in 1..Len(w) : ~(off < i /\ i <= end) /\ i <= f.len => w[i] = f.want[i]
          /\ \A i \in 1..Len(w) : ~(off < i /\ i <= end) /\ ~(i <= f.len) => w[i] = 0
      <3>1. PICK v : v = f.want
        OBVIOUS
      <3>2. /\ v \in Seq(Nat) /\ b \in Seq(Nat) /\ off \in Nat
            /\ end = off + Len(b) /\ w = Patched(v, b, off)
        BY <1>0, <1>1, <1>2, <3>1
      <3>3. WrittenOver(w, v, b, off, end)
        BY ONLY <3>2, PatchedIs
      <3> QED BY ONLY <2>1, <3>1, <3>3 DEF WrittenOver
    <2>3. Len(w) = l
      BY <1>1, <2>2
    <2> QED BY <2>2, <2>3
  <1>6. PICK c : c = f.cut \ (off + 1)..end
    OBVIOUS
  <1>7. l \in Nat /\ l <= Len(p) /\ c \subseteq Nat
    BY <1>0, <1>1, <1>2, <1>3, <1>4, <1>6
  <1>8. g = [f EXCEPT !.dirty = TRUE, !.array = p, !.len = l, !.want = w, !.cut = c]
    BY <1>0, <1>1, <1>2, <1>6 DEF writeAt, FileRec
  <1> HIDE DEF g
  <1>9. /\ g \in FileRec
        /\ g.dirty = TRUE /\ g.array = p /\ g.len = l /\ g.want = w /\ g.cut = c
        /\ g.pc = f.pc /\ g.closed = f.closed /\ g.lastPutSeqID = f.lastPutSeqID
        /\ g.synced = f.synced /\ g.saving = f.saving /\ g.writeOffset = f.writeOffset
    BY <1>2, <1>4, <1>5, <1>7, <1>8 DEF FileRec
  <1>10. ASSUME NEW i \in 1..l PROVE i \in c \/ p[i] = w[i]
    <2>1. i \in 1..Len(p)
      BY <1>4, <1>7
    <2>2. CASE off < i /\ i <= end
      BY <1>4, <1>5, <2>1, <2>2
    <2>3. CASE ~(off < i /\ i <= end) /\ i <= f.len
      <3>1. i \in f.cut => i \in c
        BY <1>0, <1>6, <2>3
      <3>2. p[i] = a[i] /\ w[i] = f.want[i]
        BY <1>4, <1>5, <2>1, <2>3
      <3>4. a[i] = f.array[i]
        BY <1>2, <1>3, <2>3
      <3>3. i \in f.cut \/ f.array[i] = f.want[i]
        BY <1>2, <2>3 DEF BufferInv
      <3> QED BY <3>1, <3>2, <3>3, <3>4
    <2>4. CASE ~(off < i /\ i <= end) /\ ~(i <= f.len)
      <3>1. i \in f.cut => i \in c
        BY <1>0, <1>6, <2>4
      <3>2. p[i] = a[i] /\ w[i] = 0
        BY <1>4, <1>5, <2>1, <2>4
      <3>3. i \in f.cut \/ a[i] = 0
        BY <1>2, <1>3, <1>4, <2>1, <2>4
      <3> QED BY <3>1, <3>2, <3>3
    <2> QED BY <2>2, <2>3, <2>4
  <1>11. ASSUME NEW i \in 1..Len(p), i > l PROVE i \in c \/ p[i] = 0
    <2>1. i > f.len /\ i > end
      BY <1>0, <1>1, <1>2, <1>11
    <2>2. i \in f.cut => i \in c
      BY <1>0, <1>6, <2>1
    <2>3. i \in f.cut \/ a[i] = 0
      BY <1>3, <1>4, <2>1
    <2>4. p[i] = a[i]
      BY <1>0, <1>4, <2>1
    <2> QED BY <2>2, <2>3, <2>4
  <1>12. OpenFile(g)
    BY <1>5, <1>7, <1>9, <1>10, <1>11 DEF OpenFile, BufferInv
  <1> QED BY <1>9, <1>12 DEF g

LEMMA PrefixIs ==
  ASSUME NEW s \in Seq(Nat), NEW n \in Nat, n <= Len(s), NEW w, w = SubSeq(s, 1, n)
  PROVE  w \in Seq(Nat) /\ Len(w) = n /\ \A i \in 1..n : w[i] = s[i]
  OBVIOUS

\* A truncation.
Cut(f, size) ==
  [f EXCEPT !.dirty = TRUE, !.len = size,
            !.writeOffset = Smaller(size, @), !.readOffset = Smaller(size, @),
            !.want = SubSeq(@, 1, size), !.cut = @ \cup (size + 1)..f.len]

LEMMA CutIs ==
  ASSUME NEW f, OpenFile(f), ~f.closed, NEW size \in Nat, size < f.len,
         NEW g, g = Cut(f, size)
  PROVE  /\ OpenFile(g) /\ g.pc = f.pc /\ g.lastPutSeqID = f.lastPutSeqID
         /\ g.synced = f.synced /\ g.saving = f.saving
  <1>1. /\ f \in FileRec /\ f.array \in Seq(Nat) /\ f.want \in Seq(Nat) /\ f.len \in Nat
        /\ f.cut \subseteq Nat /\ BufferInv(f) /\ f.len <= Len(f.array) /\ Len(f.want) = f.len
        /\ f.writeOffset \in Nat /\ f.readOffset \in Nat
    BY DEF OpenFile, FileRec, BufferInv
  <1>2. PICK w, c, wo, ro :
          /\ w = SubSeq(f.want, 1, size) /\ c = f.cut \cup (size + 1)..f.len
          /\ wo = Smaller(size, f.writeOffset) /\ ro = Smaller(size, f.readOffset)
    OBVIOUS
  <1>3. w \in Seq(Nat) /\ Len(w) = size /\ \A i \in 1..size : w[i] = f.want[i]
    <2>1. PICK v : v = f.want
      OBVIOUS
    <2>2. v \in Seq(Nat) /\ size \in Nat /\ size <= Len(v) /\ w = SubSeq(v, 1, size)
      BY <1>1, <1>2, <2>1
    <2>3. w \in Seq(Nat) /\ Len(w) = size /\ \A i \in 1..size : w[i] = v[i]
      BY ONLY <2>2, PrefixIs
    <2> QED BY ONLY <2>1, <2>3
  <1>4. c \subseteq Nat /\ wo \in Nat /\ ro \in Nat
    BY <1>1, <1>2 DEF Smaller
  <1>5. g = [f EXCEPT !.dirty = TRUE, !.len = size, !.writeOffset = wo, !.readOffset = ro,
                      !.want = w, !.cut = c]
    BY <1>1, <1>2 DEF FileRec, Cut
  <1>6. /\ g \in FileRec
        /\ g.dirty = TRUE /\ g.array = f.array /\ g.len = size /\ g.want = w /\ g.cut = c
        /\ g.pc = f.pc /\ g.closed = f.closed /\ g.lastPutSeqID = f.lastPutSeqID
        /\ g.synced = f.synced /\ g.saving = f.saving
    <2>1. f \in FileRec /\ size \in Nat /\ w \in Seq(Nat)
      BY <1>1, <1>3
    <2> QED BY ONLY <2>1, <1>4, <1>5 DEF FileRec
  <1>7. ASSUME NEW i \in 1..size PROVE i \in c \/ f.array[i] = w[i]
    <2>0. size \in Nat /\ f.len \in Nat /\ size < f.len
      BY <1>1
    <2>1. i \in 1..f.len /\ w[i] = f.want[i]
      BY ONLY <1>3, <2>0, i \in 1..size
    <2>2. i \in f.cut \/ f.array[i] = f.want[i]
      BY <1>1, <2>1 DEF BufferInv
    <2> QED BY <1>2, <2>1, <2>2
  <1>8. ASSUME NEW i \in 1..Len(f.array), i > size PROVE i \in c \/ f.array[i] = 0
    <2>0. size \in Nat /\ f.len \in Nat /\ i \in Nat /\ i > size
      BY <1>1, <1>8
    <2>1. CASE i <= f.len
      <3>1. i \in (size + 1)..f.len
        BY ONLY <2>0, <2>1
      <3> QED BY ONLY <1>2, <3>1
    <2>2. CASE ~(i <= f.len)
      <3>1. i \in f.cut \/ f.array[i] = 0
        BY <1>1, <2>0, <2>2 DEF BufferInv
      <3> QED BY ONLY <1>2, <3>1
    <2> QED BY <2>1, <2>2
  <1>9. BufferInv(g)
    BY <1>3, <1>6, <1>7, <1>8 DEF BufferInv
  <1> QED BY <1>1, <1>6, <1>9 DEF OpenFile

-----------------------------------------------------------------------------
\* One file changes, and at most one version is added.
LEMMA FileMoves ==
  ASSUME FileInv, NEW h \in Files, NEW g, files' = [files EXCEPT ![h] = g],
         OpenFile(g), PutInv(g)', seen' = seen,
         versions' = versions \/ \E d \in Seq(Nat) : versions' = Append(versions, d)
  PROVE  FileInv'
  <1>1. /\ versions' \in Seq(Seq(Nat)) /\ Len(versions) <= Len(versions')
        /\ \A i \in 1..Len(versions) : versions'[i] = versions[i]
    <2>1. versions \in Seq(Seq(Nat))
      BY DEF FileInv
    <2>2. CASE versions' = versions
      BY ONLY <2>1, <2>2
    <2>3. ASSUME NEW d \in Seq(Nat), versions' = Append(versions, d)
          PROVE  /\ versions' \in Seq(Seq(Nat)) /\ Len(versions) <= Len(versions')
                 /\ \A i \in 1..Len(versions) : versions'[i] = versions[i]
      BY ONLY <2>1, <2>3
    <2> QED BY <2>2, <2>3
  <1>2. seen' \in Nat /\ seen' <= Len(versions')
    BY <1>1 DEF FileInv
  <1>3. ASSUME NEW k \in Files, files'[k] # NotOpen
        PROVE  (OpenFile(files[k]) /\ PutInv(files[k]))'
    <2>1. CASE k = h
      <3>1. files'[k] = g
        BY <2>1 DEF FileInv
      <3> QED BY <3>1 DEF PutInv
    <2>2. CASE k # h
      <3>1. PICK f : f = files[k]
        OBVIOUS
      <3>2. files'[k] = f
        BY <2>2, <3>1 DEF FileInv
      <3>3. OpenFile(f) /\ PutInv(f)
        BY <1>3, <3>1, <3>2 DEF FileInv
      <3>4. /\ f.lastPutSeqID \in Nat /\ f.synced \in Nat
            /\ f.lastPutSeqID <= Len(versions) /\ f.synced <= seen /\ seen <= Len(versions)
        BY <3>3 DEF OpenFile, FileRec, PutInv, FileInv
      <3>5. PutInv(f)'
        <4>4. seen \in Nat /\ Len(versions) \in Nat
          BY DEF FileInv
        <4>5. /\ f.synced > 0 => f.synced \in 1..Len(versions)
              /\ f.lastPutSeqID > 0 => f.lastPutSeqID \in 1..Len(versions)
          BY ONLY <3>4, <4>4
        <4>1. f.synced > 0 => versions'[f.synced] = versions[f.synced]
          BY ONLY <1>1, <4>5
        <4>2. f.lastPutSeqID > 0 => versions'[f.lastPutSeqID] = versions[f.lastPutSeqID]
          BY ONLY <1>1, <4>5
        <4>3. f.lastPutSeqID <= Len(versions') /\ f.synced <= seen'
          BY <1>1, <3>4 DEF FileInv
        <4> QED BY <3>3, <3>4, <4>1, <4>2, <4>3 DEF PutInv
      <3> QED BY <3>2, <3>3, <3>5 DEF PutInv
    <2> QED BY <2>1, <2>2
  <1>4. DOMAIN files' = Files
    BY DEF FileInv
  <1> QED BY <1>1, <1>2, <1>3, <1>4 DEF FileInv

\* An operation that leaves the directory and what was put alone.
LEMMA FileWorks ==
  ASSUME FileInv, NEW h \in Files, NEW f, f = files[h], f # NotOpen,
         NEW g, Becomes(h, g), OpenFile(g),
         g.lastPutSeqID = f.lastPutSeqID, g.synced = f.synced, g.saving = f.saving,
         g.pc = "lookup" => f.pc = "lookup", UNCHANGED <<versions, seen>>
  PROVE  FileInv'
  <1>1. PutInv(f)
    BY DEF FileInv
  <1>2. PutInv(g)'
    BY <1>1 DEF PutInv
  <1> QED BY <1>2, FileMoves DEF Becomes

LEMMA FileInUse ==
  ASSUME FileInv, NEW h \in Files, files[h].pc \in {"idle", "lookup"}
  PROVE  files[h] # NotOpen /\ OpenFile(files[h]) /\ PutInv(files[h])
  <1>1. NotOpen.pc = "not open"
    BY DEF NotOpen
  <1>2. files[h] # NotOpen
    BY <1>1
  <1> QED BY <1>2 DEF FileInv

-----------------------------------------------------------------------------
LEMMA OpenKeeps ==
  ASSUME FileInv, NEW h \in Files, NEW create \in BOOLEAN, NEW excl \in BOOLEAN,
         NEW writable \in BOOLEAN, Open(h, create, excl, writable)
  PROVE  FileInv'
  <1>1. PICK data : data = IF seen = 0 THEN <<>> ELSE versions[seen]
    OBVIOUS
  <1>2. data \in Seq(Nat)
    BY <1>1 DEF FileInv
  <1>3. PICK g : g = [pc |-> "idle", writable |-> writable, create |-> create, dirty |-> TRUE,
             closed |-> FALSE, array |-> data, len |-> Len(data), readOffset |-> 0,
             writeOffset |-> Len(data), reader |-> <<>>, at |-> 0, lastPutSeqID |-> 0,
             tries |-> 0, synced |-> 0, want |-> data, cut |-> {}, saving |-> <<>>]
    OBVIOUS
  <1>4. files' = [files EXCEPT ![h] = g] /\ UNCHANGED <<versions, seen>>
    BY <1>1, <1>3 DEF Open, Becomes
  <1>5. OpenFile(g)
    BY <1>2, <1>3 DEF OpenFile, FileRec, BufferInv
  <1>6. g.lastPutSeqID = 0 /\ g.synced = 0 /\ g.pc = "idle"
    BY <1>3
  <1>7. PutInv(g)'
    BY <1>4, <1>6 DEF PutInv, FileInv
  <1> QED BY <1>4, <1>5, <1>7, FileMoves

LEMMA ReadKeeps ==
  ASSUME FileInv, NEW h \in Files, NEW n \in 1..2, Read(h, n)
  PROVE  FileInv'
  <1>1. PICK f, r : f = files[h] /\ r = InitRead(f)
    OBVIOUS
  <1>2. f # NotOpen /\ OpenFile(f)
    BY <1>1, FileInUse DEF Read, Usable
  <1>3. /\ OpenFile(r) /\ r.pc = f.pc /\ r.lastPutSeqID = f.lastPutSeqID /\ ~r.dirty
        /\ r.synced = f.synced /\ r.saving = f.saving
    BY <1>1, <1>2, InitReadIs
  <1>4. PICK g : g = IF r.at >= Len(r.reader) THEN r
                     ELSE [r EXCEPT !.at = @ + Smaller(n, Len(r.reader) - r.at),
                                    !.readOffset = @ + Smaller(n, Len(r.reader) - r.at)]
    OBVIOUS
  <1>5. Becomes(h, g) /\ UNCHANGED <<versions, seen>>
    BY <1>1, <1>4 DEF Read
  <1>6. /\ OpenFile(g) /\ g.pc = r.pc /\ g.lastPutSeqID = r.lastPutSeqID
        /\ g.synced = r.synced /\ g.saving = r.saving
    <2>1. CASE r.at >= Len(r.reader)
      BY <1>3, <1>4, <2>1
    <2>2. CASE ~(r.at >= Len(r.reader))
      <3>1. r \in FileRec /\ r.at \in Nat /\ r.reader \in Seq(Nat) /\ r.readOffset \in Nat
        BY <1>3 DEF OpenFile, FileRec
      <3>2. PICK x, y : /\ x = r.at + Smaller(n, Len(r.reader) - r.at)
                        /\ y = r.readOffset + Smaller(n, Len(r.reader) - r.at)
        OBVIOUS
      <3>3. x \in Nat /\ y \in Nat /\ (r.at = r.readOffset => x = y)
        <4>1. PICK u, v, k : u = r.at /\ v = Len(r.reader) /\ k = r.readOffset
          OBVIOUS
        <4>2. u \in Nat /\ v \in Nat /\ k \in Nat /\ u < v
          BY <2>2, <3>1, <4>1
        <4>3. x = u + Smaller(n, v - u) /\ y = k + Smaller(n, v - u)
          BY <3>2, <4>1
        <4>4. Smaller(n, v - u) \in Nat
          BY ONLY <4>2, n \in 1..2 DEF Smaller
        <4>5. x \in Nat /\ y \in Nat /\ (u = k => x = y)
          BY ONLY <4>2, <4>3, <4>4
        <4> QED BY <4>1, <4>5
      <3>4. g = [r EXCEPT !.at = x, !.readOffset = y]
        BY <1>4, <2>2, <3>1, <3>2 DEF FileRec
      <3>5. /\ g \in FileRec /\ g.at = x /\ g.readOffset = y
            /\ g.array = r.array /\ g.len = r.len /\ g.want = r.want /\ g.cut = r.cut
            /\ g.closed = r.closed /\ g.dirty = r.dirty /\ g.reader = r.reader
            /\ g.pc = r.pc /\ g.lastPutSeqID = r.lastPutSeqID
            /\ g.synced = r.synced /\ g.saving = r.saving
        BY ONLY <3>1, <3>3, <3>4 DEF FileRec
      <3>6. Data(g) = Data(r)
        BY <3>5 DEF Data
      <3>7. OpenFile(g)
        BY <1>3, <3>3, <3>5, <3>6 DEF OpenFile, BufferInv
      <3> QED BY <3>5, <3>7
    <2> QED BY <2>1, <2>2
  <1>7. /\ g.lastPutSeqID = f.lastPutSeqID /\ g.synced = f.synced /\ g.saving = f.saving
        /\ g.pc = f.pc
    BY ONLY <1>3, <1>6
  <1> QED BY <1>1, <1>2, <1>5, <1>6, <1>7, FileWorks

LEMMA ReadAtKeeps ==
  ASSUME FileInv, NEW h \in Files, ReadAt(h)
  PROVE  FileInv'
  <1>1. PICK f, g : f = files[h] /\ g = InitRead(f)
    OBVIOUS
  <1>2. f # NotOpen /\ OpenFile(f)
    BY <1>1, FileInUse DEF ReadAt, Usable
  <1>3. /\ OpenFile(g) /\ g.pc = f.pc /\ g.lastPutSeqID = f.lastPutSeqID
        /\ g.synced = f.synced /\ g.saving = f.saving
    BY <1>1, <1>2, InitReadIs
  <1>4. Becomes(h, g) /\ UNCHANGED <<versions, seen>>
    BY <1>1 DEF ReadAt
  <1> QED BY <1>1, <1>2, <1>3, <1>4, FileWorks

LEMMA SeekKeeps ==
  ASSUME FileInv, NEW h \in Files, NEW offset \in -1..2, NEW whence \in 0..2,
         Seek(h, offset, whence)
  PROVE  FileInv'
  <1>1. PICK f, r : f = files[h] /\ r = InitRead(f)
    OBVIOUS
  <1>2. f # NotOpen /\ OpenFile(f)
    BY <1>1, FileInUse DEF Seek, Usable
  <1>3. /\ OpenFile(r) /\ r.pc = f.pc /\ r.lastPutSeqID = f.lastPutSeqID /\ ~r.dirty
        /\ r.synced = f.synced /\ r.saving = f.saving
    BY <1>1, <1>2, InitReadIs
  <1>4. r \in FileRec /\ r.at \in Nat /\ r.reader \in Seq(Nat)
    BY <1>3 DEF OpenFile, FileRec
  <1>5. PICK ret : ret = CASE whence = 0 -> offset
                           [] whence = 1 -> r.at + offset
                           [] whence = 2 -> Len(r.reader) + offset
    OBVIOUS
  <1>6. ret \in Int
    BY <1>4, <1>5
  <1>7. PICK g : /\ Becomes(h, g)
                 /\ \/ g = r
                    \/ ret >= 0 /\ g = [r EXCEPT !.at = ret, !.readOffset = ret,
                                                !.writeOffset = ret]
    <2>1. PICK bad : /\ bad \in BOOLEAN
                     /\ bad = (\/ r.writeOffset + offset < 0 \/ r.readOffset + offset < 0
                               \/ offset > MaxInt \/ (~r.writable /\ offset > r.len))
      OBVIOUS
    <2>2. Becomes(h, IF bad \/ ret < 0 THEN r
                     ELSE [r EXCEPT !.at = ret, !.readOffset = ret, !.writeOffset = ret])
      BY <1>1, <1>5, <2>1 DEF Seek
    <2>3. ret < 0 \/ ret >= 0
      BY <1>6
    <2> QED BY ONLY <2>2, <2>3
  <1>8. /\ OpenFile(g) /\ g.pc = r.pc /\ g.lastPutSeqID = r.lastPutSeqID
        /\ g.synced = r.synced /\ g.saving = r.saving
    <2>1. CASE g = r
      BY <1>3, <2>1
    <2>2. CASE ret >= 0 /\ g = [r EXCEPT !.at = ret, !.readOffset = ret, !.writeOffset = ret]
      <3>1. ret \in Nat
        BY <1>6, <2>2
      <3>2. /\ g \in FileRec /\ g.at = ret /\ g.readOffset = ret
            /\ g.array = r.array /\ g.len = r.len /\ g.want = r.want /\ g.cut = r.cut
            /\ g.closed = r.closed /\ g.dirty = r.dirty /\ g.reader = r.reader
            /\ g.pc = r.pc /\ g.lastPutSeqID = r.lastPutSeqID
            /\ g.synced = r.synced /\ g.saving = r.saving
        BY ONLY <1>4, <2>2, <3>1 DEF FileRec
      <3>3. Data(g) = Data(r)
        BY <3>2 DEF Data
      <3>4. OpenFile(g)
        BY <1>3, <3>2, <3>3 DEF OpenFile, BufferInv
      <3> QED BY <3>2, <3>4
    <2> QED BY <1>7, <2>1, <2>2
  <1>9. /\ g.lastPutSeqID = f.lastPutSeqID /\ g.synced = f.synced /\ g.saving = f.saving
        /\ g.pc = f.pc
    BY ONLY <1>3, <1>8
  <1>10. UNCHANGED <<versions, seen>>
    BY DEF Seek
  <1> QED BY <1>1, <1>2, <1>7, <1>8, <1>9, <1>10, FileWorks

LEMMA WriteNextKeeps ==
  ASSUME FileInv, NEW h \in Files, NEW b \in Chunks, WriteNext(h, b)
  PROVE  FileInv'
  <1>1. PICK f, off : f = files[h] /\ off = f.writeOffset
    OBVIOUS
  <1>2. PICK w : w = writeAt(f, b, off)
    OBVIOUS
  <1>3. f # NotOpen /\ OpenFile(f)
    BY <1>1, FileInUse DEF WriteNext, Usable
  <1>4. b \in Seq(Nat) /\ off \in Nat /\ ~f.closed /\ off + Len(b) <= MaxInt
    BY <1>1, <1>3, FileAssumption DEF WriteNext, CanWrite, OpenFile, FileRec
  <1>5. /\ OpenFile(w) /\ w.pc = f.pc /\ w.lastPutSeqID = f.lastPutSeqID
        /\ w.synced = f.synced /\ w.saving = f.saving /\ w.dirty /\ w.writeOffset = off
    BY <1>1, <1>2, <1>3, <1>4, WrittenIs
  <1>6. w \in FileRec
    BY <1>5 DEF OpenFile
  <1>7. PICK x : x = off + Len(b)
    OBVIOUS
  <1>8. x \in Nat
    BY <1>4, <1>7
  <1>9. PICK g : g = [w EXCEPT !.writeOffset = x]
    OBVIOUS
  <1>10. Becomes(h, g) /\ UNCHANGED <<versions, seen>>
    <2>1. [w EXCEPT !.writeOffset = @ + Len(b)] = g
      BY <1>5, <1>6, <1>7, <1>9 DEF FileRec
    <2> QED BY <1>1, <1>2, <2>1 DEF WriteNext
  <1>11. /\ g \in FileRec
         /\ g.array = w.array /\ g.len = w.len /\ g.want = w.want /\ g.cut = w.cut
         /\ g.closed = w.closed /\ g.dirty = w.dirty
         /\ g.pc = w.pc /\ g.lastPutSeqID = w.lastPutSeqID
         /\ g.synced = w.synced /\ g.saving = w.saving
    BY ONLY <1>6, <1>8, <1>9 DEF FileRec
  <1>12. OpenFile(g)
    BY <1>5, <1>11 DEF OpenFile, BufferInv
  <1>13. /\ g.lastPutSeqID = f.lastPutSeqID /\ g.synced = f.synced /\ g.saving = f.saving
         /\ g.pc = f.pc
    BY ONLY <1>5, <1>11
  <1> QED BY <1>1, <1>3, <1>10, <1>12, <1>13, FileWorks

LEMMA WriteAtKeeps ==
  ASSUME FileInv, NEW h \in Files, NEW b \in Chunks, NEW off \in Offsets, WriteAt(h, b, off)
  PROVE  FileInv'
  <1>1. PICK f, g : f = files[h] /\ g = writeAt(f, b, off)
    OBVIOUS
  <1>2. f # NotOpen /\ OpenFile(f)
    BY <1>1, FileInUse DEF WriteAt, Usable
  <1>3. b \in Seq(Nat) /\ off \in Nat /\ ~f.closed /\ off + Len(b) <= MaxInt
    BY <1>1, FileAssumption DEF WriteAt, CanWrite, Offsets
  <1>4. /\ OpenFile(g) /\ g.pc = f.pc /\ g.lastPutSeqID = f.lastPutSeqID
        /\ g.synced = f.synced /\ g.saving = f.saving
    BY <1>1, <1>2, <1>3, WrittenIs
  <1>5. Becomes(h, g) /\ UNCHANGED <<versions, seen>>
    BY <1>1 DEF WriteAt
  <1> QED BY <1>1, <1>2, <1>4, <1>5, FileWorks

LEMMA TruncateKeeps ==
  ASSUME FileInv, NEW h \in Files, NEW size \in Offsets, Truncate(h, size)
  PROVE  FileInv'
  <1>1. PICK f : f = files[h]
    OBVIOUS
  <1>2. f # NotOpen /\ OpenFile(f)
    BY <1>1, FileInUse DEF Truncate, Usable
  <1>3. size \in Nat /\ ~f.closed /\ size < f.len
    BY <1>1, FileAssumption DEF Truncate, Offsets
  <1>4. PICK g : g = Cut(f, size)
    OBVIOUS
  <1>5. /\ OpenFile(g) /\ g.pc = f.pc /\ g.lastPutSeqID = f.lastPutSeqID
        /\ g.synced = f.synced /\ g.saving = f.saving
    BY ONLY <1>2, <1>3, <1>4, CutIs
  <1>6. Becomes(h, g) /\ UNCHANGED <<versions, seen>>
    BY <1>1, <1>4 DEF Truncate, Cut
  <1> QED BY <1>1, <1>2, <1>5, <1>6, FileWorks

\* What Sync puts is what the file should hold.
LEMMA SyncKeeps ==
  ASSUME FileInv, NEW h \in Files, Sync(h)
  PROVE  FileInv'
  <1>1. PICK f, d, n : f = files[h] /\ d = Data(f) /\ n = Len(versions) + 1
    OBVIOUS
  <1>2. OpenFile(f) /\ PutInv(f) /\ ~f.closed
    BY <1>1, FileInUse DEF Sync, Usable
  <1>3. f \in FileRec /\ d \in Seq(Nat) /\ d = Expected(f)
    BY <1>1, <1>2, DataIs, DataIsExpected DEF OpenFile, FileRec
  <1>4. versions \in Seq(Seq(Nat)) /\ seen \in Nat /\ seen <= Len(versions)
    BY DEF FileInv
  <1>5. PICK g : g = [f EXCEPT !.pc = "lookup", !.lastPutSeqID = n, !.tries = 0, !.saving = d]
    OBVIOUS
  <1>6. /\ files' = [files EXCEPT ![h] = g] /\ versions' = Append(versions, d)
        /\ seen' = seen
    BY <1>1, <1>3, <1>5 DEF Sync, put, Becomes
  <1>7. n \in Nat
    BY <1>1, <1>4
  <1>8. /\ g \in FileRec /\ g.lastPutSeqID = n /\ g.saving = d /\ g.synced = f.synced
        /\ g.array = f.array /\ g.len = f.len /\ g.want = f.want /\ g.cut = f.cut
        /\ g.closed = f.closed /\ g.dirty = f.dirty /\ g.reader = f.reader
        /\ g.at = f.at /\ g.readOffset = f.readOffset
    BY ONLY <1>3, <1>5, <1>7 DEF FileRec
  <1>9. Data(g) = Data(f)
    BY <1>8 DEF Data
  <1>10. OpenFile(g)
    BY <1>2, <1>8, <1>9 DEF OpenFile, BufferInv
  <1>11. Len(versions') = n /\ versions'[n] = d
    BY ONLY <1>1, <1>3, <1>4, <1>6
  <1>12. PutInv(g)'
    <2>1. f.synced <= seen /\ f.synced \in Nat
      BY <1>2, <1>3 DEF PutInv, FileRec
    <2>2. f.synced # n /\ n > 0
      BY <1>1, <1>4, <2>1
    <2>3. g.synced # g.lastPutSeqID /\ g.synced <= seen'
      BY <1>6, <1>8, <2>1, <2>2
    <2>4. g.lastPutSeqID <= Len(versions') /\ g.lastPutSeqID > 0
      BY <1>7, <1>8, <1>11, <2>2
    <2>5. versions'[g.lastPutSeqID] = g.saving
      BY <1>8, <1>11
    <2> QED BY ONLY <2>3, <2>4, <2>5 DEF PutInv
  <1> QED BY <1>3, <1>6, <1>10, <1>12, FileMoves

\* A lookup counts only the number that was put.
LEMMA LookupKeeps ==
  ASSUME FileInv, NEW h \in Files, Lookup(h) \/ LookupFails(h)
  PROVE  FileInv'
  <1>1. PICK f : f = files[h]
    OBVIOUS
  <1>2. f.pc = "lookup" /\ OpenFile(f) /\ PutInv(f)
    BY <1>1, FileInUse DEF Lookup, LookupFails
  <1>3. f \in FileRec /\ f.lastPutSeqID \in Nat /\ f.tries \in Nat /\ f.synced \in Nat
    BY <1>2 DEF OpenFile, FileRec
  <1>4. PICK g : /\ files' = [files EXCEPT ![h] = g]
                 /\ \/ g = [f EXCEPT !.pc = "idle", !.synced = f.lastPutSeqID]
                       /\ f.lastPutSeqID = seen
                    \/ g = [f EXCEPT !.pc = "idle"]
                    \/ g = [f EXCEPT !.tries = f.tries + 1]
    <2>1. CASE LookupFails(h)
      BY <1>1, <2>1 DEF LookupFails, Becomes
    <2>2. CASE Lookup(h) /\ Found(f, seen)
      BY <1>1, <2>2 DEF Lookup, Becomes, Found
    <2>3. CASE Lookup(h) /\ ~Found(f, seen)
      BY <1>1, <2>3 DEF Lookup, Becomes
    <2> QED BY <2>1, <2>2, <2>3
  <1>5. seen' = seen /\ versions' = versions
    BY DEF Lookup, LookupFails
  <1>6. /\ g \in FileRec /\ g.lastPutSeqID = f.lastPutSeqID /\ g.saving = f.saving
        /\ g.synced = f.synced \/ (g.synced = f.lastPutSeqID /\ f.lastPutSeqID = seen)
        /\ g.array = f.array /\ g.len = f.len /\ g.want = f.want /\ g.cut = f.cut
        /\ g.closed = f.closed /\ g.dirty = f.dirty /\ g.reader = f.reader
        /\ g.at = f.at /\ g.readOffset = f.readOffset
    <2>1. CASE g = [f EXCEPT !.pc = "idle", !.synced = f.lastPutSeqID] /\ f.lastPutSeqID = seen
      BY ONLY <1>3, <2>1 DEF FileRec
    <2>2. CASE g = [f EXCEPT !.pc = "idle"]
      BY ONLY <1>3, <2>2 DEF FileRec
    <2>3. CASE g = [f EXCEPT !.tries = f.tries + 1]
      <3>1. PICK t \in Nat : t = f.tries + 1
        BY <1>3
      <3>2. f \in FileRec /\ g = [f EXCEPT !.tries = t]
        BY <1>3, <2>3, <3>1
      <3> QED BY ONLY <3>1, <3>2 DEF FileRec
    <2> QED BY <1>4, <2>1, <2>2, <2>3
  <1>7. Data(g) = Data(f)
    BY <1>6 DEF Data
  <1>8. OpenFile(g)
    BY <1>2, <1>6, <1>7 DEF OpenFile, BufferInv
  <1>9. PutInv(g)'
    BY <1>2, <1>5, <1>6 DEF PutInv, FileInv
  <1> QED BY <1>4, <1>5, <1>8, <1>9, FileMoves

LEMMA CloseKeeps ==
  ASSUME FileInv, NEW h \in Files, Close(h)
  PROVE  FileInv'
  <1>1. PICK f, d, n : f = files[h] /\ d = Data(f) /\ n = Len(versions) + 1
    OBVIOUS
  <1>2. f.pc = "idle" /\ f # NotOpen /\ OpenFile(f) /\ PutInv(f)
    BY <1>1, FileInUse DEF Close, Usable
  <1>3. f \in FileRec /\ d \in Seq(Nat) /\ f.len <= Len(f.array)
    BY <1>1, <1>2, DataIs DEF OpenFile, FileRec
  <1>4. versions \in Seq(Seq(Nat)) /\ seen \in Nat /\ seen <= Len(versions) /\ n \in Nat
    BY <1>1 DEF FileInv
  <1>5. seen' = seen
    BY DEF Close
  <1>6. CASE /\ files' = [files EXCEPT ![h] = [f EXCEPT !.closed = TRUE]]
             /\ versions' = versions
    <2>1. PICK g : g = [f EXCEPT !.closed = TRUE]
      OBVIOUS
    <2>2. /\ g \in FileRec /\ g.lastPutSeqID = f.lastPutSeqID /\ g.saving = f.saving
          /\ g.synced = f.synced /\ g.closed = TRUE /\ g.len = f.len /\ g.array = f.array
          /\ g.pc = f.pc
      BY ONLY <1>3, <2>1 DEF FileRec
    <2>3. OpenFile(g)
      BY <1>3, <2>2 DEF OpenFile
    <2>4. Becomes(h, g) /\ UNCHANGED <<versions, seen>>
      BY <1>5, <1>6, <2>1 DEF Becomes
    <2> QED BY <1>1, <1>2, <2>2, <2>3, <2>4, FileWorks
  <1>7. ASSUME NEW k \in Nat,
               files' = [files EXCEPT ![h] = [f EXCEPT !.closed = TRUE, !.array = <<>>,
                                                       !.len = 0, !.lastPutSeqID = k]],
               \/ k = n /\ versions' = Append(versions, d)
               \/ k = f.lastPutSeqID /\ versions' = versions
        PROVE  FileInv'
    <2>0. PICK z : z \in Seq(Nat) /\ z = <<>>
      <3>1. <<>> \in Seq(Nat)
        BY ONLY EmptySeq
      <3> QED BY <3>1
    <2>1. PICK g : g = [f EXCEPT !.closed = TRUE, !.array = z, !.len = 0, !.lastPutSeqID = k]
      OBVIOUS
    <2>2. /\ g \in FileRec /\ g.lastPutSeqID = k /\ g.saving = f.saving
          /\ g.synced = f.synced /\ g.closed = TRUE /\ g.len = 0 /\ g.array = z
          /\ g.pc = f.pc
      <3>1. f \in FileRec /\ k \in Nat /\ z \in Seq(Nat)
        BY <1>3, <2>0
      <3> QED BY ONLY <3>1, <2>1 DEF FileRec
    <2>3. OpenFile(g)
      BY <2>2 DEF OpenFile
    <2>4. PutInv(g)'
      <3>1. f.synced <= seen /\ f.synced \in Nat
        BY <1>2, <1>3 DEF PutInv, FileRec
      <3>2. CASE k = n /\ versions' = Append(versions, d)
        <4>1. Len(versions') = n
          BY ONLY <1>1, <1>3, <1>4, <3>2
        <4>2. f.synced # n
          BY <1>1, <1>4, <3>1
        <4>3. g.pc # "lookup" /\ g.synced # g.lastPutSeqID /\ g.synced <= seen'
          BY <1>2, <1>5, <2>2, <3>1, <3>2, <4>2
        <4>4. g.lastPutSeqID <= Len(versions')
          BY <1>4, <2>2, <3>2, <4>1
        <4> QED BY ONLY <4>3, <4>4 DEF PutInv
      <3>3. CASE k = f.lastPutSeqID /\ versions' = versions
        BY <1>2, <1>5, <2>2, <3>3 DEF PutInv
      <3> QED BY <1>7, <3>2, <3>3
    <2>5. files' = [files EXCEPT ![h] = g]
      BY <1>7, <2>0, <2>1
    <2> QED BY <1>3, <1>5, <1>7, <2>3, <2>4, <2>5, FileMoves
  <1>8. PICK c, e : /\ c = [f EXCEPT !.closed = TRUE]
                    /\ e = [c EXCEPT !.array = <<>>, !.len = 0]
    OBVIOUS
  <1>9. \/ Becomes(h, c) /\ versions' = versions
        \/ put(f) /\ Becomes(h, [e EXCEPT !.lastPutSeqID = n])
        \/ Becomes(h, e) /\ versions' = versions
    BY <1>1, <1>8 DEF Close
  <1>10. /\ e = [f EXCEPT !.closed = TRUE, !.array = <<>>, !.len = 0,
                          !.lastPutSeqID = f.lastPutSeqID]
         /\ [e EXCEPT !.lastPutSeqID = n] =
              [f EXCEPT !.closed = TRUE, !.array = <<>>, !.len = 0, !.lastPutSeqID = n]
         /\ f.lastPutSeqID \in Nat
    BY ONLY <1>3, <1>8 DEF FileRec
  <1>11. CASE put(f) /\ Becomes(h, [e EXCEPT !.lastPutSeqID = n])
    BY <1>1, <1>4, <1>7, <1>10, <1>11 DEF put, Becomes
  <1>12. CASE Becomes(h, e) /\ versions' = versions
    BY <1>7, <1>10, <1>12 DEF Becomes
  <1>13. CASE Becomes(h, c) /\ versions' = versions
    BY <1>6, <1>8, <1>13 DEF Becomes
  <1> QED BY <1>9, <1>11, <1>12, <1>13

LEMMA SettleKeeps ==
  ASSUME FileInv, Settle
  PROVE  FileInv'
  <1>1. seen' \in Nat /\ seen <= seen' /\ seen' <= Len(versions)
    BY DEF FileInv, Settle
  <1>2. files' = files /\ versions' = versions
    BY DEF Settle
  <1>3. ASSUME NEW h \in Files, files[h] # NotOpen
        PROVE  OpenFile(files[h]) /\ PutInv(files[h])'
    <2>1. OpenFile(files[h]) /\ PutInv(files[h])
      BY <1>3 DEF FileInv
    <2>2. files[h].synced \in Nat /\ seen \in Nat
      BY <2>1 DEF OpenFile, FileRec, FileInv
    <2> QED BY <1>1, <1>2, <2>1, <2>2 DEF PutInv
  <1> QED BY <1>1, <1>2, <1>3 DEF FileInv

LEMMA FileInitInv ==
  ASSUME FileInit
  PROVE  FileInv
  <1>1. versions \in Seq(Seq(Nat))
    <2>1. <<1, 2>> \in Seq(Nat) /\ <<>> \in Seq(Seq(Nat))
      OBVIOUS
    <2>2. PICK s : s = <<1, 2>>
      OBVIOUS
    <2>3. s \in Seq(Nat) => <<s>> \in Seq(Seq(Nat))
      OBVIOUS
    <2>4. versions = <<>> \/ versions = <<s>>
      BY <2>2 DEF FileInit
    <2> QED BY ONLY <2>1, <2>2, <2>3, <2>4
  <1>2. seen = Len(versions) /\ files = [h \in Files |-> NotOpen]
    BY DEF FileInit
  <1> QED BY <1>1, <1>2 DEF FileInv

LEMMA FileNextInv ==
  ASSUME FileInv, [FileNext]_fileVars
  PROVE  FileInv'
  <1>1. ASSUME NEW h \in Files, NEW create \in BOOLEAN, NEW excl \in BOOLEAN,
               NEW writable \in BOOLEAN, Open(h, create, excl, writable)
        PROVE  FileInv'
    BY <1>1, OpenKeeps
  <1>2. ASSUME NEW h \in Files, NEW n \in 1..2, Read(h, n)
        PROVE  FileInv'
    BY <1>2, ReadKeeps
  <1>3. ASSUME NEW h \in Files, ReadAt(h)
        PROVE  FileInv'
    BY <1>3, ReadAtKeeps
  <1>4. ASSUME NEW h \in Files, NEW offset \in -1..2, NEW whence \in 0..2,
               Seek(h, offset, whence)
        PROVE  FileInv'
    BY <1>4, SeekKeeps
  <1>5. ASSUME NEW h \in Files, NEW b \in Chunks, WriteNext(h, b)
        PROVE  FileInv'
    BY <1>5, WriteNextKeeps
  <1>6. ASSUME NEW h \in Files, NEW b \in Chunks, NEW off \in Offsets, WriteAt(h, b, off)
        PROVE  FileInv'
    BY <1>6, WriteAtKeeps
  <1>7. ASSUME NEW h \in Files, NEW size \in Offsets, Truncate(h, size)
        PROVE  FileInv'
    BY <1>7, TruncateKeeps
  <1>8. ASSUME NEW h \in Files, Sync(h)
        PROVE  FileInv'
    BY <1>8, SyncKeeps
  <1>9. ASSUME NEW h \in Files, Close(h)
        PROVE  FileInv'
    BY <1>9, CloseKeeps
  <1>10. ASSUME NEW h \in Files, Lookup(h) \/ LookupFails(h)
         PROVE  FileInv'
    BY <1>10, LookupKeeps
  <1>11. CASE Settle
    BY <1>11, SettleKeeps
  <1>12. CASE UNCHANGED fileVars
    BY <1>12 DEF fileVars, FileInv, PutInv
  <1>13. CASE FileNext
    BY ONLY <1>1, <1>2, <1>3, <1>4, <1>5, <1>6, <1>7, <1>8, <1>9, <1>10, <1>11, <1>13 DEF FileNext
  <1> QED BY <1>12, <1>13

LEMMA FileInvImplies ==
  ASSUME FileInv
  PROVE  FileIsFaithful
  <1>1. ASSUME NEW h \in Files, files[h] # NotOpen, ~files[h].closed
        PROVE  /\ InitRead(files[h]).at = files[h].readOffset
               /\ InitRead(files[h]).reader = Expected(files[h])
    <2>1. PICK f : f = files[h]
      OBVIOUS
    <2>2. OpenFile(f) /\ ~f.closed
      BY <1>1, <2>1 DEF FileInv
    <2>3. InitRead(f).at = f.readOffset /\ InitRead(f).reader = Data(f)
      BY <2>2, InitReadIs
    <2>4. Data(f) = Expected(f)
      BY <2>2, DataIsExpected
    <2> QED BY <2>1, <2>3, <2>4
  <1>2. ASSUME NEW h \in Files, files[h] # NotOpen, files[h].synced > 0
        PROVE  /\ seen >= files[h].synced
               /\ files[h].synced = files[h].lastPutSeqID =>
                    versions[files[h].synced] = files[h].saving
    <2>1. OpenFile(files[h]) /\ PutInv(files[h]) /\ seen \in Nat
      BY <1>2 DEF FileInv
    <2>2. files[h].synced \in Nat
      BY <2>1 DEF OpenFile, FileRec
    <2> QED BY <1>2, <2>1, <2>2 DEF PutInv
  <1>3. ReadsSeeWrites
    BY <1>1 DEF ReadsSeeWrites
  <1>4. SyncedIsSeen
    BY <1>2 DEF SyncedIsSeen
  <1> QED BY <1>3, <1>4 DEF FileIsFaithful

\* For any number of files of one name and any writes up to the largest
\* offset: whatever File.Write, WriteAt, Seek, Truncate, Sync and Close were
\* called in between, a read returns what was written last, and after a Sync
\* that reports success the directory shows what the file held, or a later
\* version.
THEOREM FilesStayFaithful == FileSpec => []FileIsFaithful
  <1>1. FileInit => FileInv
    BY FileInitInv
  <1>2. FileInv /\ [FileNext]_fileVars => FileInv'
    BY FileNextInv
  <1>3. FileInv => FileIsFaithful
    BY FileInvImplies
  <1> QED BY <1>1, <1>2, <1>3, PTL DEF FileSpec
=============================================================================
