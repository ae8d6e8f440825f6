----------------------------- MODULE BlockList ------------------------------
(***************************************************************************)
(* ipblock: blocks of address prefixes kept one document each              *)
(* (document.go), and how an address is matched against them (set.go).     *)
(*                                                                         *)
(* Addresses are sequences of bits, of families 4 and 6; the 6-addresses   *)
(* that begin with Mapped are the IPv4-mapped ones.  A prefix as a caller  *)
(* gives it is an address and a length; a canonical prefix is its family   *)
(* and its bits.  Times are relative: the expiry of a block is the number  *)
(* of ticks it has left, 0 once it has lapsed.                             *)
(***************************************************************************)
EXTENDS Integers, Sequences, SequencesExt, FiniteSets, Collection

CONSTANTS Mapped,      \* the bits IPv4-mapped addresses begin with
          Operators,   \* operators' running Block and Unblock calls
          Inputs,      \* the blocks they may ask for
          MaxChanges   \* bound: changes of docs

VARIABLES docs,    \* the collection: document ID -> block document
          call,    \* each operator's Unblock at work, or its last answer
          stamp    \* changes of docs so far

listVars == <<docs, call, stamp>>

Never == -1      \* the zero time.Time
Null == -2       \* no timestamp

ASSUME InputsAssumption ==
  \A b \in Inputs : b.prefix.fam \in {4, 6} /\ b.expires \in Nat \cup {Never}

-----------------------------------------------------------------------------
\* canonical: mapped prefixes as IPv4, host bits masked off.
Canonical(p) ==
  IF p.fam = 6 /\ IsPrefix(Mapped, p.addr) /\ p.len >= Len(Mapped)
  THEN [fam |-> 4, bits |-> SubSeq(p.addr, Len(Mapped) + 1, p.len)]
  ELSE [fam |-> p.fam, bits |-> SubSeq(p.addr, 1, p.len)]

CanonicalAddr(a) ==
  IF a.fam = 6 /\ IsPrefix(Mapped, a.bits)
  THEN [fam |-> 4, bits |-> SubSeq(a.bits, Len(Mapped) + 1, Len(a.bits))]
  ELSE a

\* active, at the present time.
Active(b) == b.expires # 0

(***************************************************************************)
(* lookup: the lengths some block of the family has are tried longest      *)
(* first, each with the address masked to it, until one has a block in     *)
(* force.                                                                  *)
(***************************************************************************)
Lengths(set, fam) == {Len(p.bits) : p \in {q \in DOMAIN set : q.fam = fam}}

Probe(a, n) == [fam |-> a.fam, bits |-> SubSeq(a.bits, 1, n)]

\* Mutant: the first probe that has a block decides, lapsed or not.
LookupFirst(set, addr) ==
  LET a    == CanonicalAddr(addr)
      hits == {n \in Lengths(set, a.fam) : Probe(a, n) \in DOMAIN set}
  IN  {Probe(a, n) : n \in {k \in hits : /\ \A j \in hits : j <= k
                                         /\ Active(set[Probe(a, k)])}}

\* The prefix of the block found, as a set of at most one element.
Lookup(set, addr) ==
  LET a    == CanonicalAddr(addr)
      hits == {n \in Lengths(set, a.fam) : /\ Probe(a, n) \in DOMAIN set
                                           /\ Active(set[Probe(a, n)])}
  IN  {Probe(a, n) : n \in {k \in hits : \A j \in hits : j <= k}}

-----------------------------------------------------------------------------
DocumentID(p) == <<p.fam, p.bits>>

\* toDocument: no timestamp for a block that never lapses.
ToDocument(b) ==
  [prefix |-> b.prefix, expires |-> IF b.expires = Never THEN Null ELSE b.expires]

NoPrefix == [fam |-> 0, bits |-> <<>>]
Invalid == [prefix |-> NoPrefix, expires |-> Null]
FromDocument(d) ==
  [prefix |-> d.prefix, expires |-> IF d.expires = Null THEN Never ELSE d.expires]

\* load and newBlockSet: the valid documents by prefix; the others are skipped.
Load(coll) ==
  LET valid == {id \in DOMAIN coll : coll[id].prefix # NoPrefix}
  IN  [p \in {coll[id].prefix : id \in valid} |->
         FromDocument(coll[CHOOSE id \in valid : coll[id].prefix = p])]

-----------------------------------------------------------------------------
(***************************************************************************)
(* A call at work has the prefix it was given and the document it has      *)
(* read.  alone is history: it turns FALSE once another operator changes   *)
(* the block on that prefix.  A call that is over has said its answer.     *)
(***************************************************************************)
NoBlock == [prefix |-> NoPrefix, expires |-> 0]
NoCall == [pc |-> "idle", prefix |-> NoPrefix, doc |-> NoBlock, alone |-> TRUE,
           said |-> "nothing"]
Reads(p, d) == [pc |-> "read", prefix |-> p, doc |-> d, alone |-> TRUE, said |-> "nothing"]
Said(p, what) == [pc |-> "done", prefix |-> p, doc |-> NoBlock, alone |-> TRUE, said |-> what]
Running(o) == call[o].pc \in {"read", "lifted"}

Crossed(o, p) ==
  [q \in Operators |-> IF q # o /\ Running(q) /\ call[q].prefix = p
                       THEN [call[q] EXCEPT !.alone = FALSE] ELSE call[q]]

\* Block: prepare wants an expiry in the future; one db.Set, whose answer may
\* be lost.
Block(o, b) ==
  /\ ~Running(o)
  /\ b.expires # 0
  /\ stamp < MaxChanges
  /\ stamp' = stamp + 1
  /\ LET p == Canonical(b.prefix)
     IN  /\ docs' = Put(docs, DocumentID(p),
                        ToDocument([prefix |-> p, expires |-> b.expires]))
         /\ \E what \in {"blocked", "error"} :
              call' = [Crossed(o, p) EXCEPT ![o] = Said(p, what)]

\* Unblock: db.Get.
UnblockGet(o, prefix) ==
  /\ ~Running(o)
  /\ LET p  == Canonical(prefix)
         id == DocumentID(p)
     IN  \/ /\ ~Has(docs, id)
            /\ call' = [call EXCEPT ![o] = Said(p, "notBlocked")]
         \/ /\ Has(docs, id)
            /\ call' = [call EXCEPT ![o] = Reads(p, docs[id])]
  /\ UNCHANGED <<docs, stamp>>

\* Unblock: db.Delete.
UnblockDelete(o) ==
  /\ call[o].pc = "read"
  /\ stamp < MaxChanges
  /\ stamp' = stamp + 1
  /\ docs' = Without(docs, DocumentID(call[o].prefix))
  /\ call' = [Crossed(o, call[o].prefix) EXCEPT ![o].pc = "lifted"]

\* Mutant: the clock is not looked at.
UnblockReturnBlindly(o) ==
  /\ call[o].pc = "lifted"
  /\ call' = [call EXCEPT ![o] = Said(call[o].prefix, "lifted")]
  /\ UNCHANGED <<docs, stamp>>

\* Unblock: "A lapsed block was not in force, though its document lingered."
UnblockReturn(o) ==
  /\ call[o].pc = "lifted"
  /\ LET what == IF Active(call[o].doc) THEN "lifted" ELSE "notBlocked"
     IN  call' = [call EXCEPT ![o] = Said(call[o].prefix, what)]
  /\ UNCHANGED <<docs, stamp>>

\* db.Delete fails, or its answer is lost.  A call that is refused or fails at
\* its first access to the collection has no effect at all, and no action.
UnblockFails(o) ==
  /\ Running(o)
  /\ call' = [call EXCEPT ![o] = Said(call[o].prefix, "error")]
  /\ UNCHANGED <<docs, stamp>>

\* Firestore's TTL policy removes a document whose timestamp has passed.
Cleanup ==
  /\ \E id \in DOMAIN docs : docs[id].expires = 0 /\ docs' = Without(docs, id)
  /\ UNCHANGED <<call, stamp>>

\* One tick later.
Later(b) == [b EXCEPT !.expires = IF @ \in {Never, Null, 0} THEN @ ELSE @ - 1]

ListTick ==
  /\ docs' = [id \in DOMAIN docs |-> Later(docs[id])]
  /\ call' = [o \in Operators |-> [call[o] EXCEPT !.doc = Later(@)]]
  /\ UNCHANGED stamp

\* Somebody has left a document in the collection that holds no valid block.
ListInit ==
  /\ docs = Put(EmptyCollection, DocumentID(NoPrefix), Invalid)
  /\ call = [o \in Operators |-> NoCall]
  /\ stamp = 0

ListStep ==
  \/ \E o \in Operators :
       \/ \E b \in Inputs : Block(o, b) \/ UnblockGet(o, b.prefix)
       \/ UnblockDelete(o) \/ UnblockReturn(o) \/ UnblockFails(o)
  \/ Cleanup

-----------------------------------------------------------------------------
(***************************************************************************)
(* The documents, and the operators' calls between their accesses to them, *)
(* implement BlockBook; and an Unblock that no other operator crosses is   *)
(* as good as atomic.                                                      *)
(***************************************************************************)
BlocksInForce ==
  LET blocks == Load(docs)
  IN  [p \in {q \in DOMAIN blocks : Active(blocks[q])} |-> blocks[p].expires]

Calls ==
  [o \in Operators |-> [pc |-> call[o].pc, prefix |-> call[o].prefix,
                        left |-> FromDocument(call[o].doc).expires,
                        alone |-> call[o].alone, said |-> call[o].said]]

Asks == {[prefix |-> Canonical(b.prefix), expires |-> b.expires] : b \in Inputs}

Book == INSTANCE BlockBook WITH
  force <- BlocksInForce, call <- Calls, Nobody <- NoPrefix

ImplementsBlockBook == Book!Spec /\ []Book!UncrossedIsAtomic
=============================================================================
