------------------------------- MODULE MCDocs -------------------------------
(***************************************************************************)
(* The document services and the iterators, one scene at a time: doctest's *)
(* suite, handles on one store, callers on one document, a grpc stream, a  *)
(* pipeline of iterators, a retry loop and files.  The variables of the   *)
(* other scenes rest.                                                      *)
(***************************************************************************)
EXTENDS DocHandles, PartitionedStore, StreamIter, IterPipeline, UpspinFile

CONSTANTS c1, c2, c3

VARIABLE scene

vars == <<suiteVars, handleVars, storeVars, streamVars, pipeVars, backoffVars,
          fileVars, scene>>

-----------------------------------------------------------------------------
Log == [kind |-> "log"]
Locked == [kind |-> "sync"]
Rpc == [kind |-> "rpc"]
Fire == [kind |-> "firestore"]
Coll(name) == [kind |-> "collection", collection |-> name]
Partition(name, field, n) ==
  [kind |-> "partition", partition |-> name, field |-> field, value |-> Str(n)]
PartA == Partition(<<"a">>, "__partition_a", 101)
PartB == Partition(<<"b">>, "__partition_b", 102)
PartC == Partition(<<"c">>, "__partition_c", 103)

Service(w, r, p) == [writer |-> w, reader |-> r, preconds |-> p]
SomeServices ==
  { Service(<<>>, <<>>, TestPreconditions), Service(<<Rpc>>, <<>>, TestPreconditions),
    Service(<<>>, <<Rpc>>, {}), Service(<<Fire>>, <<Fire>>, TestUpdatedAtPrecondition) }
  \cup {Service(l, l, {}) : l \in {<<PartA>>, <<PartA, PartB>>, <<Rpc>>, <<Log, Locked>>,
                                     <<Log, Rpc, PartA>>, <<PartA, Fire>>}}
SomeHandles == << <<Coll("k"), PartA>>, <<Coll("k"), Rpc, PartC, PartB>>, <<Coll("l"), Rpc>> >>

Given(p, q, r) == c1 :> p @@ c2 :> q @@ c3 :> r
Safe == <<"set", "get", "update", "delete", "list">>
SomePrograms ==
  { Given(Safe, Safe, Safe),
    Given(<<"increment">>, <<"increment">>, <<"increment">>),
    Given(<<"create", "increment">>, <<"set", "delete">>, <<"increment">>),
    Given(<<"create", "increment">>, <<"create">>, <<"delete", "increment">>) }

From(slices, fails, closeFails) ==
  [slices |-> slices, fails |-> fails, closeFails |-> closeFails]
SomeChunks == {<<1>>, <<3, 3>>}

SomeSlices == {<<>>, << <<1, 3>> >>, << <<3>>, <<>>, <<2>> >>}
SomeSources ==
  UNION {[1..n -> {From(s, f, c) : s \in SomeSlices, f \in BOOLEAN, c \in BOOLEAN}] : n \in 0..2}

-----------------------------------------------------------------------------
Scenes == {"suite", "handles", "callers", "stream", "pipeline", "backoff", "file"}

\* A service and a test without steps.
SuiteRests == service = Service(<<>>, <<>>, TestPreconditions) /\ script = <<>>
CallersRest == doc = NoDoc /\ given = Given(Safe, Safe, Safe)
StreamRests ==
  /\ len = 0 /\ ends = "EOF" /\ acks = FALSE /\ received = 0 /\ routine = "done"
  /\ holding = Msg(0, "nil") /\ done = TRUE /\ next = FALSE /\ got = <<>> /\ over = TRUE
  /\ errs = FALSE /\ closing = "closed" /\ cancels = 0
PipeRests == sources = <<>> /\ asked = "not used"
BackoffRests == shortest = 1 /\ longest = 1 /\ limit = 0

Init ==
  /\ scene \in Scenes
  /\ SuiteInit /\ (scene # "suite" => SuiteRests /\ (scene # "handles" => lower))
  /\ HandlesInit
  /\ StoreInit /\ (scene # "callers" => CallersRest)
  /\ IF scene = "stream" THEN StreamInit ELSE StreamRests
  /\ PipeInit /\ (scene # "pipeline" => PipeRests)
  /\ IF scene = "backoff" THEN BackoffInit
     ELSE BackoffRests /\ sleeps = <<>> /\ outcome = "trying"
  /\ FileInit /\ (scene # "file" => versions = <<>>)

Next ==
  /\ UNCHANGED scene
  /\ \/ /\ scene = "suite" /\ RunStep
        /\ UNCHANGED <<handleVars, storeVars, streamVars, pipeVars, backoffVars, fileVars>>
     \/ /\ scene = "handles"
        /\ \E h \in DOMAIN Handles, op \in SomeCalls : HandleCall(h, op)
        /\ UNCHANGED <<service, lower, script, at, answer, read>>
        /\ UNCHANGED <<storeVars, streamVars, pipeVars, backoffVars, fileVars>>
     \/ /\ scene = "callers" /\ StoreNext
        /\ UNCHANGED <<suiteVars, handleVars, streamVars, pipeVars, backoffVars, fileVars>>
     \/ /\ scene = "stream" /\ StreamNext
        /\ UNCHANGED <<suiteVars, handleVars, storeVars, pipeVars, backoffVars, fileVars>>
     \/ /\ scene = "pipeline" /\ PipeNext
        /\ UNCHANGED <<suiteVars, handleVars, storeVars, streamVars, backoffVars, fileVars>>
     \/ /\ scene = "backoff" /\ BackoffNext
        /\ UNCHANGED <<suiteVars, handleVars, storeVars, streamVars, pipeVars, fileVars>>
     \/ /\ scene = "file" /\ FileNext
        /\ UNCHANGED <<suiteVars, handleVars, storeVars, streamVars, pipeVars, backoffVars>>

Spec == Init /\ [][Next]_vars /\ StreamFairness
=============================================================================
