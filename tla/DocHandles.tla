----------------------------- MODULE DocHandles -----------------------------
(***************************************************************************)
(* Several services over one store.  "All the records created, stored,     *)
(* listed, etc. won't be seen by other partitions over the same Service":  *)
(* each handle behaves as a store of its own, whatever the others do and   *)
(* whatever layers are around it.                                          *)
(***************************************************************************)
EXTENDS DocSuite

CONSTANTS Handles,   \* the layers of each handle
          MaxCalls   \* calls explored

ASSUME HandlesAssumption == MaxCalls \in Nat /\ Handles # <<>>

VARIABLES private,   \* the store each handle would have for itself
          calls,     \* calls made
          last       \* the last call's handle and its two answers

handleVars == <<private, calls, last>>

HandlesInit ==
  /\ private = [h \in DOMAIN Handles |-> <<>>]
  /\ calls = 0
  /\ last = [handle |-> 1, shared |-> Refuse(<<>>, "nil"), alone |-> Refuse(<<>>, "nil")]

SomeIDs == {"x", "y"}

\* Calls of every kind, with documents and updates that tell them apart.
SomeCalls ==
  { List(<<>>, "map"), List(<<NameFilter("A", ">")>>, "map") }
  \cup UNION { { Create(id, Alice), Set(id, MyOtherEntity(1)), Set(id, Sup),
                 Set(id, NotADocument), Get(id, "map"), Get(id, "value"), Delete(id),
                 Update(id, <<UpdateName("Bob")>>, <<>>),
                 Update(id, <<UpdateTrait("dob", Leaf(S["2017"]))>>, <<>>),
                 Update(id, <<UpdateValue(2)>>, <<[path |-> <<"Value">>, value |-> Num(1)]>>) }
               : id \in SomeIDs }

\* One call through a handle, and the same call on its private store.
HandleCall(h, op) ==
  LET shared == Do(Handles[h], lower, store, 1, op)
      alone == Memory(lower, private[h], 1, op)
  IN  /\ calls < MaxCalls
      /\ calls' = calls + 1
      /\ store' = shared.store
      /\ private' = [private EXCEPT ![h] = alone.store]
      /\ last' = [handle |-> h, shared |-> [shared EXCEPT !.store = <<>>],
                  alone |-> [alone EXCEPT !.store = <<>>]]

Contents(layers, docs) == {Bare(layers, docs[id]) : id \in DOMAIN docs}

\* A handle's answers are those of a store that nobody else writes and no
\* layer wraps: the same error, as many documents and, but for what stores
\* add, the same contents.
HandlesArePrivate ==
  LET shared == last.shared
      alone == last.alone
      layers == Handles[last.handle]
  IN  /\ shared.err = alone.err
      /\ Cardinality(DOMAIN shared.docs) = Cardinality(DOMAIN alone.docs)
      /\ Contents(layers, shared.docs) = Contents(layers, alone.docs)
=============================================================================
