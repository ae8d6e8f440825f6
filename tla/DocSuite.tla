------------------------------ MODULE DocSuite ------------------------------
(***************************************************************************)
(* document/doctest: the suite every implementation of document.Service    *)
(* runs, as scripts of calls and of what the caller may expect of each.    *)
(* The two tests that run goroutines are programs of PartitionedStore;     *)
(* those about invalid UTF-8 and unexported fields are about the marshaler *)
(* and left out.                                                           *)
(***************************************************************************)
EXTENDS DocStack, FiniteSets

CONSTANTS NBobs, NAlices,  \* documents the list tests start with (10 and 2)
          Services         \* [writer, reader, preconds]: the layers the suite
                           \* writes and reads through, and the tests of
                           \* TestDocumentServicePreconditions it runs too

ASSUME SuiteAssumption == NBobs \in 1..4 /\ NAlices \in 1..4

VARIABLES
  service,  \* the service under test
  lower,    \* DefaultLowerCase of its marshaler
  script,   \* the test
  at,       \* the step of the test that was last run
  store,    \* the documents below all layers
  answer,   \* what that step was answered
  read      \* the document of the test's last Get

suiteVars == <<service, lower, script, at, store, answer, read>>

\* Strings, by rank.
S == "" :> Str(0) @@ "A" :> Str(1) @@ "Alexandra" :> Str(2) @@ "Alice" :> Str(3)
       @@ "B" :> Str(4) @@ "Bob" :> Str(5) @@ "1989" :> Str(6) @@ "2017" :> Str(7)
       @@ "2020" :> Str(8) @@ "30" :> Str(9) @@ "hola" :> Str(10)

Alice == [kind |-> "struct", fields |->
  <<"Name">> :> S["Alice"] @@ <<"Traits">> :> Nested @@ <<"Traits", "dob">> :> S["1989"]
    @@ <<"Traits", "years">> :> Num(30) @@ <<"Traits", "fancy">> :> Bool(0)]

Bob == [kind |-> "struct", fields |->
  <<"Name">> :> S["Bob"] @@ <<"Traits">> :> Nested @@ <<"Traits", "dob">> :> S["1989"]
    @@ <<"Traits", "years">> :> Num(30) @@ <<"Traits", "fancy">> :> Bool(1)
    @@ <<"Traits", "sister">> :> Nested @@ <<"Traits", "sister", "Name">> :> S["Alice"]]

MyOtherEntity(n) == [kind |-> "struct", fields |->
  <<"Value">> :> Num(n) @@ <<"CreatedAt">> :> ZeroTime @@ <<"UpdatedAt">> :> ZeroTime]

NotADocument == [kind |-> "number"]
NilDocument == [kind |-> "nil"]
Sup == [kind |-> "map", fields |-> <<"sup">> :> S["hola"]]

-----------------------------------------------------------------------------
\* The calls.
Create(id, data) == [do |-> "create", id |-> <<id>>, data |-> data]
Set(id, data) == [do |-> "set", id |-> <<id>>, data |-> data]
Get(id, to) == [do |-> "get", id |-> <<id>>, to |-> to]
Delete(id) == [do |-> "delete", id |-> <<id>>]
Update(id, updates, preconds) ==
  [do |-> "update", id |-> <<id>>, updates |-> updates, preconds |-> preconds]
List(filters, to) == [do |-> "list", id |-> <<>>, filters |-> filters, to |-> to]

UpdateName(name) == [path |-> <<"Name">>, tree |-> Leaf(S[name])]
UpdateTrait(name, tree) == [path |-> <<"Traits", name>>, tree |-> tree]
UpdateValue(n) == [path |-> <<"Value">>, tree |-> Leaf(Num(n))]
NameFilter(name, op) == [path |-> <<"Name">>, value |-> S[name], op |-> op]
TraitFilter(name, value, op) == [path |-> <<"Traits", name>>, value |-> value, op |-> op]
ZeroFilter == [path |-> <<>>, value |-> Nil, op |-> ""]

\* The value of a precondition that the test took from its last Get.
AsRead == <<"as read", 0>>

\* What is expected of a call: its error, the number of documents, values
\* at the paths of the one document read, time fields set by the store, the
\* whole document.
Want(err) == [err |-> err, count |-> {}, holds |-> {}, recent |-> {}, same |-> {}]
Count(n) == [Want("nil") EXCEPT !.count = {n}]
Holds(path, value) == [Want("nil") EXCEPT !.holds = {<<path, value>>}]
HoldsBoth(p, v, q, w) == [Want("nil") EXCEPT !.holds = {<<p, v>>, <<q, w>>}]
Recent(names) == [Want("nil") EXCEPT !.recent = names]
Same(data) == [Want("nil") EXCEPT !.same = {data}]
Ok == Want("nil")

Step(op, want) == [op |-> op, want |-> want]

-----------------------------------------------------------------------------
TestDatastoreCreate ==
  { << Step(Create("id", NotADocument), Want("invalid")) >>,
    << Step(Create("id", Bob), Ok), Step(Get("id", "struct"), Same(Bob)) >>,
    << Step(Create("id", Bob), Ok), Step(Create("id", Bob), Want("ErrAlreadyExists")) >>,
    << Step(Create("id", NilDocument), Want("panic")) >>,
    << Step(Create("id", MyOtherEntity(0)), Ok),
       Step(Get("id", "struct"), Recent({"CreatedAt", "UpdatedAt"})) >> }

TestDatastoreSet ==
  { << Step(Set("id", NotADocument), Want("invalid")) >>,
    << Step(Set("id", Bob), Ok), Step(Get("id", "struct"), Same(Bob)) >>,
    << Step(Set("id", Alice), Ok), Step(Set("id", Bob), Ok),
       Step(Get("id", "struct"), Same(Bob)) >>,
    << Step(Set("id", NilDocument), Want("panic")) >>,
    << Step(Set("id", MyOtherEntity(0)), Ok),
       Step(Get("id", "struct"), Recent({"UpdatedAt"})) >> }

TestDatastoreGet ==
  { << Step(Get("id", "struct"), Want("ErrNotFound")), Step(Set("id", Bob), Ok),
       Step(Get("id", "struct"), Same(Bob)) >>,
    << Step(Set("id", MyOtherEntity(0)), Ok), Step(Get("id", "value"), Want("invalid")) >>,
    << Step(Set("id", Bob), Ok), Step(Get("id", "map"), Same(Bob)) >> }

TestDatastoreDelete ==
  { << Step(Set("id", Bob), Ok), Step(Get("id", "struct"), Same(Bob)),
       Step(Delete("id"), Ok), Step(Get("id", "struct"), Want("ErrNotFound")) >>,
    << Step(Set("id", Bob), Ok), Step(Delete("id"), Ok), Step(Delete("id"), Ok),
       Step(Delete("id"), Ok) >>,
    << Step(Delete("id"), Ok) >> }

\* The tests of Update up to the one on several updates.
TestDatastoreUpdate ==
  { << Step(Update("id", <<>>, <<>>), Want("panic")) >>,
    << Step(Update("id", <<UpdateName("")>>, <<>>), Want("ErrNotFound")) >>,
    << Step(Set("id", Alice), Ok),
       Step(Update("id", <<UpdateName("Alexandra")>>, <<>>), Ok),
       Step(Get("id", "struct"), Holds(<<"Name">>, S["Alexandra"])) >>,
    << Step(Set("id", Alice), Ok),
       Step(Update("id", <<UpdateTrait("dob", Leaf(S["2017"]))>>, <<>>), Ok),
       Step(Get("id", "struct"), Holds(<<"Traits", "dob">>, S["2017"])) >>,
    << Step(Set("id", Alice), Ok),
       Step(Update("id", <<UpdateTrait("brother", Tree(lower, Bob))>>, <<>>), Ok),
       Step(Get("id", "struct"),
            HoldsBoth(<<"Traits", "brother">>, Nested,
                      <<"Traits", "brother">> \o FieldPath(lower, <<"Name">>), S["Bob"])) >>,
    << Step(Set("id", Alice), Ok),
       Step(Update("id", <<UpdateTrait("myNewMap", Tree(lower, Sup))>>, <<>>), Ok),
       Step(Get("id", "struct"),
            Holds(<<"Traits", "sup">>, Nil)) >>,
    << Step(Set("id", Alice), Ok),
       Step(Update("id", <<UpdateTrait("dob", Leaf(S["2020"])), UpdateName("Alice")>>, <<>>),
            Ok),
       Step(Get("id", "struct"),
            HoldsBoth(<<"Name">>, S["Alice"], <<"Traits", "dob">>, S["2020"])) >> }

\* The tests of Update on UpdatedAt and on a precondition that fails.
TestDatastoreUpdatedAt ==
  LET stale == [path |-> <<"UpdatedAt">>, tree |-> Leaf(Time(-48))]
      never == [path |-> <<"UpdatedAt">>, value |-> Time(-48)]
  IN  { << Step(Set("id", MyOtherEntity(0)), Ok), Step(Update("id", <<stale>>, <<>>), Ok),
           Step(Get("id", "struct"), Recent({"UpdatedAt"})) >>,
        << Step(Set("id", MyOtherEntity(0)), Ok),
           Step(Update("id", <<UpdateValue(1)>>, <<>>), Ok),
           Step(Get("id", "struct"), Holds(<<"Value">>, Num(1))),
           Step(Get("id", "struct"), Recent({"UpdatedAt"})) >>,
        << Step(Set("id", MyOtherEntity(0)), Ok),
           Step(Update("id", <<UpdateValue(1234)>>, <<never>>), Want("ErrPreconditionFailed")),
           Step(Get("id", "struct"), Holds(<<"Value">>, Num(0))) >> }

-----------------------------------------------------------------------------
BobIDs == <<"bob 0", "bob 1", "bob 2", "bob 3">>
AliceIDs == <<"alice 0", "alice 1", "alice 2", "alice 3">>

PrepareServiceForListTest ==
  [i \in 1..NBobs |-> Step(Set(BobIDs[i], Bob), Ok)]
    \o [i \in 1..NAlices |-> Step(Set(AliceIDs[i], Alice), Ok)]

Listing(filters, count) ==
  PrepareServiceForListTest \o <<Step(List(filters, "struct"), Count(count))>>

TestDatastoreList ==
  { Listing(<<>>, NBobs + NAlices),
    PrepareServiceForListTest \o <<Step(List(<<>>, "map"), Count(NBobs + NAlices))>>,
    PrepareServiceForListTest \o <<Step(List(<<>>, "value"), Want("invalid"))>>,
    PrepareServiceForListTest \o <<Step(List(<<ZeroFilter>>, "struct"), Want("panic"))>>,
    Listing(<<NameFilter("Alice", "==")>>, NAlices),
    Listing(<<NameFilter("B", ">")>>, NBobs),
    Listing(<<NameFilter("Bob", ">=")>>, NBobs),
    Listing(<<NameFilter("B", "<")>>, NAlices),
    Listing(<<NameFilter("Bob", "<=")>>, NBobs + NAlices) }

\* The tests of List from the one on several filters on.
TestDatastoreListNested ==
  { Listing(<<NameFilter("B", "<"), NameFilter("B", ">=")>>, 0),
    Listing(<<NameFilter("A", ">"), NameFilter("Bob", "<=")>>, NBobs + NAlices),
    Listing(<<TraitFilter("fancy", Bool(1), "==")>>, NBobs),
    Listing(<<TraitFilter("years", Num(30), ">=")>>, NBobs + NAlices),
    Listing(<<TraitFilter("years", S["30"], "==")>>, 0),
    Listing(<<TraitFilter("wtf", S["hola"], "==")>>, 0) }

\* TestDocumentServicePreconditions, but for the consistent updates.
TestUpdatedAtPrecondition ==
  LET updated == [path |-> <<"UpdatedAt">>, value |-> AsRead]
  IN  { << Step(Set("id", MyOtherEntity(0)), Ok),
           Step(Get("id", "struct"), Recent({"UpdatedAt"})),
           Step(Update("id", <<UpdateValue(1234)>>, <<updated>>), Ok),
           Step(Get("id", "struct"), Holds(<<"Value">>, Num(1234))) >> }

TestPreconditions ==
  LET version == [path |-> <<"Value">>, value |-> Num(1)]
  IN  TestUpdatedAtPrecondition \cup
      { << Step(Set("id", MyOtherEntity(1)), Ok),
           Step(Update("id", <<UpdateValue(1234)>>, <<version>>), Ok),
           Step(Get("id", "struct"), Holds(<<"Value">>, Num(1234))) >> }

Suite ==
  TestDatastoreCreate \cup TestDatastoreSet \cup TestDatastoreGet \cup TestDatastoreDelete
    \cup TestDatastoreUpdate \cup TestDatastoreUpdatedAt
    \cup TestDatastoreList \cup TestDatastoreListNested

-----------------------------------------------------------------------------
Stamps == {"CreatedAt", "UpdatedAt", "createdat", "updatedat"}

\* A document without what stores and partitions add to it.
Bare(layers, doc) ==
  LET added == Stamps \cup {layers[i].field : i \in {j \in DOMAIN layers :
                                                    layers[j].kind = "partition"}}
  IN  [p \in {q \in DOMAIN doc : q[1] \notin added} |-> doc[p]]

Layers == service.writer \o service.reader

Meets(want) ==
  /\ answer.err = want.err
  /\ \A n \in want.count : Cardinality(DOMAIN answer.docs) = n
  /\ \A id \in DOMAIN answer.docs :
       LET doc == answer.docs[id]
       IN  /\ \A h \in want.holds : ValueAt(doc, FieldPath(lower, h[1])) = h[2]
           /\ \A n \in want.recent : ValueAt(doc, FieldPath(lower, <<n>>))[2] > 0
           /\ \A d \in want.same : Bare(Layers, doc) = Marshaled(lower, d)

\* A precondition is compared as the Go value the caller has.  bson decodes the
\* stored field to the same; json and toml decode a time as a string or with
\* less precision, and a number as another type, so that inmemory_test does not
\* run the tests of preconditions with them.  Over grpc both values went through
\* the marshaler, and rpc_test runs the tests with all three.
PreconditionsWork == lower \/ service.writer # <<>>

SuiteInit ==
  /\ service \in Services
  /\ lower \in IF \E i \in DOMAIN service.writer : service.writer[i].kind = "firestore"
               THEN {FALSE} ELSE BOOLEAN
  /\ script \in {<<>>} \cup Suite
                  \cup (IF PreconditionsWork THEN service.preconds ELSE {})
  /\ at = 0
  /\ store = <<>>
  /\ answer = Refuse(<<>>, "nil")
  /\ read = <<>>

\* The call of a step, with the value the test read in place of AsRead.
Resolved(cond) ==
  IF cond.value = AsRead
  THEN [cond EXCEPT !.value = ValueAt(read, FieldPath(lower, cond.path))]
  ELSE cond

Call(op) ==
  IF op.do # "update" THEN op
  ELSE [op EXCEPT !.preconds = [i \in DOMAIN @ |-> Resolved(@[i])]]

RunStep ==
  /\ at < Len(script)
  /\ LET op == Call(script[at + 1].op)
         layers == IF op.do \in {"get", "list"} THEN service.reader ELSE service.writer
         done == Do(layers, lower, store, at + 1, op)
     IN  /\ store' = done.store
         /\ answer' = done
         /\ read' = IF op.do = "get" /\ done.err = "nil"
                    THEN done.docs[CHOOSE id \in DOMAIN done.docs : TRUE] ELSE read
  /\ at' = at + 1
  /\ UNCHANGED <<service, lower, script>>

\* The suite passes: every service it runs against, a store behind
\* partitions, nested or not, behind locks and logs, and behind a grpc
\* client and server, in either direction, answers every call of every test
\* the repository runs against it as doctest expects.
SuitePasses == at > 0 => Meets(script[at].want)
=============================================================================
