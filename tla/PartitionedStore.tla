-------------------------- MODULE PartitionedStore --------------------------
(***************************************************************************)
(* Callers that share one document of a partition (document/partition.go), *)
(* some of them with ConsistentUpdate (document/consistent.go) and retries *)
(* (retry/retry.go).  The service below the partition does one call at a   *)
(* time; a call to it may fail before or after it took effect, as one over *)
(* docrpc does, and a caller's process may die between two calls.          *)
(*                                                                         *)
(* A caller works off a program of calls.  The ones with several steps are *)
(* Create and Set of the partition (store, stamp, remove on failure) and   *)
(* ConsistentUpdate (get, update, get again).                              *)
(***************************************************************************)
EXTENDS Integers, Sequences, FiniteSets, Backoff

CONSTANTS Callers,
          Programs,    \* what callers are given to do, one function of Callers each
          Limit,       \* LimitStrategy: calls of the retried function
          MaxFaults,   \* failures of the service below, and deaths
          NoDoc

ASSUME PartitionAssumption ==
  /\ Limit \in Nat \ {0} /\ MaxFaults \in Nat
  /\ IsFiniteSet(Callers)
  /\ \A p \in Programs : p \in [Callers -> Seq(STRING)]

VARIABLES
  doc,       \* the stored document, or NoDoc: stamped with its partition, a
             \* count and its version
  given,     \* per caller, the calls it was given to do
  program,   \* those still to do
  phase,     \* per caller, where it is in the first of them
  mine,      \* per caller, the version and count it read
  tries,     \* per caller, retryCount of its ConsistentUpdate
  result,    \* per caller, the error of its last call
  faults,    \* failures so far
  acked,     \* history: increments acknowledged since the document was written
  loose      \* history: a document was left behind without its stamp

storeVars == <<doc, given, program, phase, mine, tries, result, faults, acked, loose>>

Fresh == [stamped |-> FALSE, count |-> 0, version |-> 0]

StoreInit ==
  /\ doc \in {NoDoc, [Fresh EXCEPT !.stamped = TRUE]}
  /\ given \in Programs
  /\ program = given
  /\ phase = [c \in Callers |-> "start"]
  /\ mine = [c \in Callers |-> Fresh]
  /\ tries = [c \in Callers |-> 0]
  /\ result = [c \in Callers |-> "nil"]
  /\ faults = 0
  /\ acked = 0
  /\ loose = FALSE

At(c, call, ph) == program[c] # <<>> /\ Head(program[c]) = call /\ phase[c] = ph

\* The call is over with this error.
Return(c, err) ==
  /\ program' = [program EXCEPT ![c] = Tail(@)]
  /\ phase' = [phase EXCEPT ![c] = "start"]
  /\ result' = [result EXCEPT ![c] = err]
  /\ tries' = [tries EXCEPT ![c] = 0]

GoTo(c, ph) ==
  /\ phase' = [phase EXCEPT ![c] = ph]
  /\ UNCHANGED <<program, result, tries>>

MayFail == faults < MaxFaults /\ faults' = faults + 1

\* A document is written or removed as a whole.
Write(d) == doc' = d /\ acked' = 0 /\ loose' = FALSE

-----------------------------------------------------------------------------
\* Create and Set of the partition.

StoreDoc(c) ==
  /\ At(c, "create", "start") \/ At(c, "set", "start")
  /\ IF Head(program[c]) = "create" /\ doc # NoDoc
     THEN Return(c, "ErrAlreadyExists") /\ UNCHANGED <<doc, acked, loose>>
     ELSE GoTo(c, "stamp") /\ Write(Fresh)
  /\ UNCHANGED <<mine, faults>>

\* The call fails: nothing is stamped, whether the document was stored or not.
StoreDocFails(c) ==
  /\ At(c, "create", "start") \/ At(c, "set", "start")
  /\ MayFail
  /\ Return(c, "fault")
  /\ \/ UNCHANGED <<doc, acked, loose>>
     \/ /\ Head(program[c]) = "create" => doc = NoDoc
        /\ doc' = Fresh /\ acked' = 0 /\ loose' = TRUE
  /\ UNCHANGED mine

\* setPartitionField.
StampDoc(c) ==
  /\ phase[c] = "stamp"
  /\ IF doc = NoDoc
     THEN GoTo(c, "remove") /\ UNCHANGED doc
     ELSE Return(c, "nil") /\ doc' = [doc EXCEPT !.stamped = TRUE]
  /\ UNCHANGED <<mine, faults, acked, loose>>

StampDocFails(c) ==
  /\ phase[c] = "stamp"
  /\ MayFail
  /\ GoTo(c, "remove")
  /\ \/ UNCHANGED doc
     \/ doc # NoDoc /\ doc' = [doc EXCEPT !.stamped = TRUE]
  /\ UNCHANGED <<mine, acked, loose>>

\* Mutant: the document is left when it could not be stamped.
RemoveDocSkipped(c) ==
  /\ phase[c] = "remove"
  /\ Return(c, "fault")
  /\ UNCHANGED <<doc, mine, faults, acked, loose>>

RemoveDoc(c) ==
  /\ phase[c] = "remove"
  /\ Return(c, "fault")
  /\ Write(NoDoc)
  /\ UNCHANGED <<mine, faults>>

\* "best effort"
RemoveDocFails(c) ==
  /\ phase[c] = "remove"
  /\ MayFail
  /\ Return(c, "fault")
  /\ loose' = TRUE
  /\ UNCHANGED <<doc, mine, acked>>

-----------------------------------------------------------------------------
\* Calls of one step: Delete; Update of a field nobody else looks at; Get
\* and List, whose answers are the state.

DeleteDoc(c) ==
  /\ At(c, "delete", "start")
  /\ Return(c, "nil")
  /\ Write(NoDoc)
  /\ UNCHANGED <<mine, faults>>

OtherCall(c) ==
  /\ \E call \in {"get", "update", "list"} : At(c, call, "start")
  /\ Return(c, IF doc = NoDoc /\ Head(program[c]) # "list" THEN "ErrNotFound" ELSE "nil")
  /\ UNCHANGED <<doc, mine, faults, acked, loose>>

-----------------------------------------------------------------------------
\* ConsistentUpdate within Retry: count and version are incremented where the
\* version is the one that was read.

ReadDoc(c) ==
  /\ At(c, "increment", "start")
  /\ IF doc = NoDoc
     THEN Return(c, "ErrNotFound") /\ UNCHANGED mine
     ELSE GoTo(c, "update") /\ mine' = [mine EXCEPT ![c] = doc]
  /\ UNCHANGED <<doc, faults, acked, loose>>

\* Mutant: the precondition is not passed on.
PreconditionDropped(c) == TRUE

Precondition(c) == doc.version = mine[c].version

Incremented(c) == [doc EXCEPT !.count = mine[c].count + 1, !.version = mine[c].version + 1]

UpdateDoc(c) ==
  /\ phase[c] = "update"
  /\ doc # NoDoc /\ Precondition(c)
  /\ doc' = Incremented(c)
  /\ acked' = acked + 1
  /\ GoTo(c, "reread")
  /\ UNCHANGED <<mine, faults, loose>>

\* Mutant: the strategy is asked before the failure is counted.
AgainEarly(c) == tries[c] + 2 < Limit

\* LimitStrategy: another call is allowed.
Again(c) == tries[c] + 1 < Limit

\* Retry: only ErrPreconditionFailed is tried again.
UpdateRefused(c) ==
  /\ phase[c] = "update"
  /\ \/ doc = NoDoc /\ Return(c, "ErrNotFound")
     \/ doc # NoDoc /\ ~Precondition(c) /\ ~Again(c) /\ Return(c, "ErrPreconditionFailed")
     \/ /\ doc # NoDoc /\ ~Precondition(c) /\ Again(c)
        /\ phase' = [phase EXCEPT ![c] = "wait"]
        /\ tries' = [tries EXCEPT ![c] = @ + 1]
        /\ UNCHANGED <<program, result>>
  /\ UNCHANGED <<doc, mine, faults, acked, loose>>

UpdateFails(c) ==
  /\ phase[c] = "update"
  /\ MayFail
  /\ Return(c, "fault")
  /\ \/ UNCHANGED doc
     \/ doc # NoDoc /\ Precondition(c) /\ doc' = Incremented(c)
  /\ UNCHANGED <<mine, acked, loose>>

\* The sleep is over, or the context is.
Wake(c) ==
  /\ phase[c] = "wait"
  /\ GoTo(c, "start")
  /\ UNCHANGED <<doc, mine, faults, acked, loose>>

Cancelled(c) ==
  /\ phase[c] = "wait"
  /\ MayFail
  /\ Return(c, "fault")
  /\ UNCHANGED <<doc, mine, acked, loose>>

\* The last Get: its error is the caller's, whatever was stored.
RereadDoc(c) ==
  /\ phase[c] = "reread"
  /\ Return(c, IF doc = NoDoc THEN "ErrNotFound" ELSE "nil")
  /\ mine' = IF doc = NoDoc THEN mine ELSE [mine EXCEPT ![c] = doc]
  /\ UNCHANGED <<doc, faults, acked, loose>>

\* The caller's process dies: between store and stamp this leaves the
\* document without its stamp.
Die(c) ==
  /\ program[c] # <<>>
  /\ MayFail
  /\ program' = [program EXCEPT ![c] = <<>>]
  /\ phase' = [phase EXCEPT ![c] = "dead"]
  /\ result' = [result EXCEPT ![c] = "fault"]
  /\ loose' = (loose \/ phase[c] \in {"stamp", "remove"})
  /\ UNCHANGED <<doc, mine, tries, acked>>

StoreNext ==
  /\ UNCHANGED given
  /\ \E c \in Callers :
       \/ StoreDoc(c) \/ StoreDocFails(c) \/ StampDoc(c) \/ StampDocFails(c)
       \/ RemoveDoc(c) \/ RemoveDocFails(c) \/ DeleteDoc(c) \/ OtherCall(c)
       \/ ReadDoc(c) \/ UpdateDoc(c) \/ UpdateRefused(c) \/ UpdateFails(c)
       \/ Wake(c) \/ Cancelled(c) \/ RereadDoc(c) \/ Die(c)

StoreSpec == StoreInit /\ [][StoreNext]_storeVars

-----------------------------------------------------------------------------
Quiet == \A c \in Callers : phase[c] \notin {"stamp", "remove"}

\* A document that Get finds is one that List finds, whenever nobody is
\* between storing and stamping it: two callers of Create, Set and Delete
\* never leave one without its stamp (setPartitionField).  The exceptions are
\* those that loose records: a store call that failed after it took effect,
\* a removal that failed, a process that died in between.
QuietIsListed == Quiet /\ doc # NoDoc /\ ~loose => doc.stamped

\* Every increment that Update acknowledged is in the count, however many
\* callers read the same version before they wrote (ConsistentUpdate).
NoLostUpdate == doc # NoDoc => acked <= doc.count

\* Calls of others that change the version a caller read.
Changes(c) ==
  UNION {{d} \X {i \in DOMAIN given[d] : given[d][i] \in {"create", "set", "increment"}} :
           d \in Callers \ {c}}

\* doctest "consistent updates": where nothing fails, a caller whose strategy
\* allows more calls than there are changes by others never gives up.  A
\* precondition fails only since another caller got ahead.
NobodyStarves ==
  faults = 0 => \A c \in Callers :
    Cardinality(Changes(c)) < Limit => result[c] # "ErrPreconditionFailed"

\* The two sides of a retry loop: it gives up no earlier than its limit, and
\* waits as long as its strategy says between the calls.
RetriesAreBounded == NobodyStarves /\ SleepsDouble
=============================================================================
