----------------------------- MODULE BlockCache -----------------------------
(***************************************************************************)
(* ipblock/cache.go over the document-backed list of BlockList: a Reader   *)
(* that answers from a copy of the blocks its source lists.  The copy is   *)
(* loaded by one background goroutine at a time once the last load started *)
(* ttl ago; a call waits only while there is no copy.                      *)
(***************************************************************************)
EXTENDS BlockList

CONSTANTS Callers,      \* goroutines that Check or List
          TTL,          \* ticks after which a copy is due
          Loads,        \* identities of load goroutines, positive integers
          Addresses     \* addresses that are checked

ASSUME CacheAssumption == /\ TTL \in Nat \ {0} /\ MaxChanges \in Nat
                          /\ Loads \subseteq Nat \ {0}

\* The addresses of a family have one width; an IPv4-mapped address has the
\* bits of Mapped before those of the IPv4 address.
Bit == {0, 1}
Width(fam, ipv4) == IF fam = 4 THEN ipv4 ELSE Len(Mapped) + ipv4

ASSUME WidthsAssumption ==
  /\ Mapped \in Seq(Bit)
  /\ \E ipv4 \in 0..32 :
       /\ \A b \in Inputs : /\ b.prefix.addr \in Seq(Bit)
                            /\ Len(b.prefix.addr) = Width(b.prefix.fam, ipv4)
                            /\ b.prefix.len \in 0..Len(b.prefix.addr)
       /\ \A a \in Addresses : /\ a.fam \in {4, 6} /\ a.bits \in Seq(Bit)
                               /\ Len(a.bits) = Width(a.fam, ipv4)

VARIABLES up,        \* the source: whether List succeeds
          set,       \* c.set: the copy and the stamp of the docs it shows
          err,       \* c.err # nil
          age,       \* ticks since c.attempted, at most TTL
          loading,   \* c.loading: the load whose channel it is, or NoLoad
          load,      \* each load goroutine and the listing it holds
          caller     \* each caller, the channel it waits on and its answer

cacheVars == <<up, set, err, age, loading, load, caller>>
vars == <<listVars, cacheVars>>

NoSet == [blocks |-> EmptyCollection, stamp |-> -1]
NoLoad == 0
Ended == [pc |-> "idle", got |-> NoSet]
Idle == [pc |-> "idle", on |-> NoLoad, blocks |-> FALSE, failed |-> FALSE]

\* The channel of load l is open until the goroutine ends.  An identity is
\* used again only when nobody holds its old channel; the least one is taken.
Closed(l) == load[l].pc = "idle"
Unused(l) == Closed(l) /\ \A c \in Callers : caller[c].on # l
NewLoad(l) == Unused(l) /\ \A k \in Loads : Unused(k) => l <= k

\* What a call returns under the mutex: the copy, or c.err.
Answer == [Idle EXCEPT !.pc = "answered", !.blocks = set # NoSet,
                       !.failed = set = NoSet /\ err]

Due == age = TTL

-----------------------------------------------------------------------------
(***************************************************************************)
(* current, up to c.mu.Unlock: start a load when one is due, then answer   *)
(* from the copy, return the error of the last load, or wait.              *)
(***************************************************************************)
\* Mutant: a load is started although one is in flight.
CurrentOverlapping(c, l) ==
  /\ caller[c].pc = "idle"
  /\ NewLoad(l)
  /\ Due
  /\ loading' = l
  /\ age' = 0
  /\ load' = [load EXCEPT ![l] = [Ended EXCEPT !.pc = "list"]]
  /\ caller' = [caller EXCEPT ![c] = IF set # NoSet THEN Answer
                                     ELSE [Idle EXCEPT !.pc = "wait", !.on = l]]
  /\ UNCHANGED <<up, set, err>>

CurrentStartsLoad(c, l) ==
  /\ caller[c].pc = "idle"
  /\ loading = NoLoad
  /\ NewLoad(l)
  /\ Due
  /\ loading' = l
  /\ age' = 0
  /\ load' = [load EXCEPT ![l] = [Ended EXCEPT !.pc = "list"]]
  /\ caller' = [caller EXCEPT ![c] = IF set # NoSet THEN Answer
                                     ELSE [Idle EXCEPT !.pc = "wait", !.on = l]]
  /\ UNCHANGED <<up, set, err>>

Current(c) ==
  /\ caller[c].pc = "idle"
  /\ loading # NoLoad \/ ~Due
  /\ caller' = [caller EXCEPT ![c] =
       IF set # NoSet \/ loading = NoLoad THEN Answer
       ELSE [Idle EXCEPT !.pc = "wait", !.on = loading]]
  /\ UNCHANGED <<up, set, err, age, loading, load>>

\* current after the wait.
Wakes(c) ==
  /\ caller[c].pc = "wait"
  /\ Closed(caller[c].on)
  /\ caller' = [caller EXCEPT ![c] = Answer]
  /\ UNCHANGED <<up, set, err, age, loading, load>>

\* The caller's own context ends; the load goes on.
GivesUp(c) ==
  /\ caller[c].pc = "wait"
  /\ caller' = [caller EXCEPT ![c] = [Idle EXCEPT !.pc = "answered", !.failed = TRUE]]
  /\ UNCHANGED <<up, set, err, age, loading, load>>

Returns(c) ==
  /\ caller[c].pc = "answered"
  /\ caller' = [caller EXCEPT ![c] = Idle]
  /\ UNCHANGED <<up, set, err, age, loading, load>>

-----------------------------------------------------------------------------
(***************************************************************************)
(* load: src.List, then the result under the mutex, then close(done).      *)
(***************************************************************************)
Listing ==
  LET blocks == Load(docs)
  IN  [blocks |-> [p \in {q \in DOMAIN blocks : Active(blocks[q])} |-> blocks[p]],
       stamp  |-> stamp]

List(l) ==
  /\ load[l].pc = "list"
  /\ load' = [load EXCEPT ![l] = [pc |-> "store",
                                 got |-> IF up THEN Listing ELSE NoSet]]
  /\ UNCHANGED <<up, set, err, age, loading, caller>>

\* List returned an error.
Failed(l) == load[l].got = NoSet

\* Mutant: a failed load forgets to clear c.loading.
StoreErrorOnly(l) ==
  /\ load[l].pc = "store"
  /\ load' = [load EXCEPT ![l].pc = "close"]
  /\ loading' = IF Failed(l) THEN loading ELSE NoLoad
  /\ set' = IF Failed(l) THEN set ELSE load[l].got
  /\ err' = Failed(l)
  /\ UNCHANGED <<up, age, caller>>

\* Mutant: the error of a failed first load is not kept.
StoreNoError(l) ==
  /\ load[l].pc = "store"
  /\ load' = [load EXCEPT ![l].pc = "close"]
  /\ loading' = NoLoad
  /\ set' = IF Failed(l) THEN set ELSE load[l].got
  /\ err' = FALSE
  /\ UNCHANGED <<up, age, caller>>

Store(l) ==
  /\ load[l].pc = "store"
  /\ load' = [load EXCEPT ![l].pc = "close"]
  /\ loading' = NoLoad
  /\ set' = IF Failed(l) THEN set ELSE load[l].got
  /\ err' = Failed(l)
  /\ UNCHANGED <<up, age, caller>>

\* Mutant: only a load that succeeded closes its channel.
CloseDoneOnSuccess(l) ==
  /\ load[l].pc = "close"
  /\ ~Failed(l)
  /\ load' = [load EXCEPT ![l] = Ended]
  /\ UNCHANGED <<up, set, err, age, loading, caller>>

CloseDone(l) ==
  /\ load[l].pc = "close"
  /\ load' = [load EXCEPT ![l] = Ended]
  /\ UNCHANGED <<up, set, err, age, loading, caller>>

-----------------------------------------------------------------------------
(***************************************************************************)
(* The source fails and recovers; time passes everywhere.                  *)
(***************************************************************************)
SourceToggles ==
  /\ up' = ~up
  /\ UNCHANGED <<set, err, age, loading, load, caller>>

LaterBlocks(s) == [s EXCEPT !.blocks = [p \in DOMAIN @ |-> Later(@[p])]]

Tick ==
  /\ ListTick
  /\ age' = IF age < TTL THEN age + 1 ELSE age
  /\ set' = LaterBlocks(set)
  /\ load' = [l \in Loads |-> [load[l] EXCEPT !.got = LaterBlocks(@)]]
  /\ UNCHANGED <<up, err, loading, caller>>

Init ==
  /\ ListInit
  /\ up \in BOOLEAN
  /\ set = NoSet
  /\ err = FALSE
  /\ age = TTL          \* c.attempted is the zero time
  /\ loading = NoLoad
  /\ load = [l \in Loads |-> Ended]
  /\ caller = [c \in Callers |-> Idle]

CallerStep(c) ==
  \/ \E l \in Loads : CurrentStartsLoad(c, l)
  \/ Current(c) \/ Wakes(c) \/ GivesUp(c) \/ Returns(c)

LoadStep(l) == List(l) \/ Store(l) \/ CloseDone(l)

CacheStep == \/ \E c \in Callers : CallerStep(c)
             \/ \E l \in Loads : LoadStep(l)
             \/ SourceToggles

Next == \/ CacheStep /\ UNCHANGED listVars
        \/ ListStep /\ UNCHANGED cacheVars
        \/ Tick

Spec == Init /\ [][Next]_vars

(***************************************************************************)
(* src.List is bounded by cacheLoadTimeout, so a load goroutine ends; the  *)
(* scheduler runs a caller that can go on; time passes.                    *)
(***************************************************************************)
Fairness ==
  /\ \A l \in Loads : WF_load(LoadStep(l))
  /\ \A c \in Callers : WF_caller(Wakes(c)) /\ WF_caller(Returns(c))
  /\ WF_vars(Tick)

FairSpec == Spec /\ Fairness

-----------------------------------------------------------------------------
(***************************************************************************)
(* Matching against a reference: an address is covered by the blocks in    *)
(* force whose prefix its bits begin with, an IPv4-mapped address being    *)
(* the IPv4 address it maps, and Check finds the longest of them, in the   *)
(* documents as in a copy that has been ageing in the cache.               *)
(***************************************************************************)
Covering(set_, a) ==
  {p \in DOMAIN set_ :
     /\ set_[p].expires # 0
     /\ \/ p.fam = a.fam /\ IsPrefix(p.bits, a.bits)
                          /\ ~(a.fam = 6 /\ IsPrefix(Mapped, a.bits))
        \/ p.fam = 4 /\ a.fam = 6 /\ IsPrefix(Mapped \o p.bits, a.bits)}

CheckFindsNarrowest ==
  \A blocks \in {Load(docs), set.blocks}, a \in Addresses :
    Lookup(blocks, a) =
      {p \in Covering(blocks, a) :
         \A q \in Covering(blocks, a) : Len(q.bits) <= Len(p.bits)}

(***************************************************************************)
(* current never returns a nil set with a nil error, which Check and List  *)
(* would dereference: a call that got no copy got an error, also when it   *)
(* slept through the load and through whatever came after it.              *)
(***************************************************************************)
NeverNilNil ==
  \A c \in Callers : caller[c].pc = "answered" =>
    caller[c].failed \/ caller[c].blocks

\* A call is answered with the narrowest block or with an error.
ChecksAreAnswered == CheckFindsNarrowest /\ NeverNilNil

(***************************************************************************)
(* A failed or a slow reload never lifts blocks that are being answered:   *)
(* the copy is never dropped nor replaced by an older listing.             *)
(***************************************************************************)
CopyNeverRewinds == [][set'.stamp >= set.stamp]_set

(***************************************************************************)
(* A call that waits for the first load ends, however the load ends.       *)
(***************************************************************************)
WaitersReturn == \A c \in Callers : caller[c].pc = "wait" ~> caller[c].pc # "wait"

(***************************************************************************)
(* The cache recovers from an outage: once the source stays up and its     *)
(* blocks stay as they are, and as long as there are calls, the copy       *)
(* catches up with it.                                                     *)
(***************************************************************************)
CatchesUp ==
  (<>[]up /\ []<>(\E c \in Callers : caller[c].pc = "answered"))
    => <>[](set.stamp = stamp)

\* The cache gets over a failing source, and so do its callers.
CacheRecovers == WaitersReturn /\ CatchesUp
=============================================================================
