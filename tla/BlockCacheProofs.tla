-------------------------- MODULE BlockCacheProofs --------------------------
(***************************************************************************)
(* Proofs about BlockCache.                                                *)
(***************************************************************************)
EXTENDS BlockCache, SequenceTheorems, TLAPS

-----------------------------------------------------------------------------
(***************************************************************************)
(* The copy and its loads.                                                 *)
(***************************************************************************)
\* A copy whose blocks are one of B; NoSet is the only one without a stamp.
Copy(B) == {x \in [blocks : B, stamp : Int] : x = NoSet \/ x.stamp >= 0}
LoadState(B) == [pc : {"idle", "list", "store", "close"}, got : Copy(B)]
CallerState == [pc : {"idle", "wait", "answered"}, on : Nat, blocks : BOOLEAN,
                failed : BOOLEAN]

CacheTypeOK ==
  /\ stamp \in Nat /\ err \in BOOLEAN /\ age \in 0..TTL /\ loading \in Nat
  /\ caller \in [Callers -> CallerState]
  /\ \E B : set \in Copy(B) /\ load \in [Loads -> LoadState(B)]

Answerable == set # NoSet \/ err

Working(l) == load[l].pc \in {"list", "store"}

(***************************************************************************)
(* One load works at a time, and c.loading says which.  There is something *)
(* to answer with once a load has ended: whoever waits does so for a load  *)
(* that works still.                                                       *)
(***************************************************************************)
LoadsInv ==
  /\ loading # NoLoad => loading \in Loads /\ Working(loading)
  /\ \A l \in Loads : Working(l) => loading = l
  /\ loading = NoLoad => Due \/ Answerable
  /\ \A c \in Callers : caller[c].pc = "wait" =>
       caller[c].on \in Loads /\ (Working(caller[c].on) \/ Answerable)

\* The source has moved on since the copy was made, and a listing that is
\* about to be stored is not older than the copy.
StampsInv ==
  /\ set.stamp <= stamp
  /\ \A l \in Loads : load[l].pc = "store" /\ ~Failed(l) =>
       load[l].got.stamp >= set.stamp /\ load[l].got.stamp <= stamp

CacheInv == CacheTypeOK /\ LoadsInv /\ StampsInv /\ NeverNilNil

LEMMA NoSetIs == NoSet.stamp = -1 /\ NoSet.blocks = EmptyCollection /\ NoLoad = 0
                   /\ \A B : EmptyCollection \in B => NoSet \in Copy(B)
  BY DEF NoSet, NoLoad, Copy

LEMMA AnswerIs ==
  /\ Answer \in CallerState /\ Answer.pc = "answered"
  /\ Answerable => Answer.failed \/ Answer.blocks
  BY DEF Answer, Idle, CallerState, Answerable, NoLoad

LEMMA CacheInitInv == Init => CacheInv
  <1> SUFFICES ASSUME Init PROVE CacheInv
    OBVIOUS
  <1>0. Idle \in CallerState /\ Idle.pc = "idle"
    BY DEF Idle, CallerState, NoLoad
  <1>1. NoSet \in Copy({EmptyCollection})
    BY NoSetIs
  <1>2. Ended \in LoadState({EmptyCollection}) /\ Ended.pc = "idle"
    BY <1>1 DEF Ended, LoadState
  <1>3. set \in Copy({EmptyCollection}) /\ load \in [Loads -> LoadState({EmptyCollection})]
    BY <1>1, <1>2 DEF Init
  <1>4. CacheTypeOK
    <2>1. caller \in [Callers -> CallerState]
      BY <1>0 DEF Init
    <2>2. age \in 0..TTL /\ loading \in Nat /\ stamp \in Nat /\ err \in BOOLEAN
      <3>1. TTL \in 0..TTL
        BY CacheAssumption
      <3> QED BY <3>1 DEF Init, ListInit, NoLoad
    <2> QED BY <1>3, <2>1, <2>2 DEF CacheTypeOK
  <1>5. \A l \in Loads : load[l].pc = "idle"
    BY <1>2 DEF Init
  <1>6. \A c \in Callers : caller[c].pc = "idle"
    BY <1>0 DEF Init
  <1>7. LoadsInv
    BY <1>5, <1>6 DEF LoadsInv, Init, Working, Due
  <1>8. StampsInv
    BY <1>5, NoSetIs DEF StampsInv, Init, ListInit
  <1>9. NeverNilNil
    BY <1>6 DEF NeverNilNil
  <1> QED BY <1>4, <1>7, <1>8, <1>9 DEF CacheInv

\* Steps of one caller that start no load.
LEMMA CallerKeepsInv ==
  ASSUME CacheInv, NEW c \in Callers, Current(c) \/ Wakes(c) \/ GivesUp(c) \/ Returns(c),
         UNCHANGED listVars
  PROVE  CacheInv'
  <1> DEFINE Waits(l) == [Idle EXCEPT !.pc = "wait", !.on = l]
             Failing == [Idle EXCEPT !.pc = "answered", !.failed = TRUE]
  <1>0. UNCHANGED <<set, err, age, loading, load, stamp>>
    BY DEF Current, Wakes, GivesUp, Returns, listVars
  <1>1. PICK r \in CallerState :
          /\ caller' = [caller EXCEPT ![c] = r]
          /\ r.pc = "wait" => r.on \in Loads /\ (Working(r.on) \/ Answerable)
          /\ r.pc = "answered" => r.failed \/ r.blocks
    <2>1. CASE Current(c)
      <3>1. CASE set # NoSet \/ loading = NoLoad
        <4>1. Answerable
          BY <2>1, <3>1 DEF Current, CacheInv, LoadsInv, Answerable
        <4>2. caller' = [caller EXCEPT ![c] = Answer]
          BY <2>1, <3>1 DEF Current
        <4> QED BY <4>1, <4>2, AnswerIs
      <3>2. CASE ~(set # NoSet \/ loading = NoLoad)
        <4>1. loading \in Loads /\ Working(loading) /\ loading \in Nat
          BY <3>2 DEF CacheInv, LoadsInv, CacheTypeOK
        <4>2. caller' = [caller EXCEPT ![c] = Waits(loading)]
          BY <2>1, <3>2 DEF Current
        <4>3. Waits(loading) \in CallerState /\ Waits(loading).pc = "wait"
                /\ Waits(loading).on = loading
          BY <4>1 DEF Idle, CallerState
        <4> QED BY <4>1, <4>2, <4>3
      <3> QED BY <3>1, <3>2
    <2>2. CASE Wakes(c)
      <3>1. Answerable
        BY <2>2 DEF Wakes, CacheInv, LoadsInv, Closed, Working
      <3>2. caller' = [caller EXCEPT ![c] = Answer]
        BY <2>2 DEF Wakes
      <3> QED BY <3>1, <3>2, AnswerIs
    <2>3. CASE GivesUp(c)
      <3>1. Failing \in CallerState /\ Failing.pc = "answered" /\ Failing.failed
        BY DEF Idle, CallerState, NoLoad
      <3> QED BY <2>3, <3>1 DEF GivesUp
    <2>4. CASE Returns(c)
      <3>1. Idle \in CallerState /\ Idle.pc = "idle"
        BY DEF Idle, CallerState, NoLoad
      <3> QED BY <2>4, <3>1 DEF Returns
    <2> QED BY <2>1, <2>2, <2>3, <2>4
  <1>2. CacheTypeOK'
    BY <1>0, <1>1 DEF CacheInv, CacheTypeOK
  <1>3. LoadsInv'
    BY <1>0, <1>1 DEF CacheInv, CacheTypeOK, LoadsInv, Working, Answerable, Due
  <1>4. StampsInv'
    BY <1>0 DEF CacheInv, StampsInv, Failed
  <1>5. NeverNilNil'
    BY <1>1 DEF CacheInv, CacheTypeOK, NeverNilNil
  <1> QED BY <1>2, <1>3, <1>4, <1>5 DEF CacheInv

\* A load is started only when none works.
LEMMA StartsLoadKeepsInv ==
  ASSUME CacheInv, NEW c \in Callers, NEW l \in Loads, CurrentStartsLoad(c, l),
         UNCHANGED listVars
  PROVE  CacheInv'
  <1> DEFINE started == [Ended EXCEPT !.pc = "list"]
             waits == [Idle EXCEPT !.pc = "wait", !.on = l]
             r == IF set # NoSet THEN Answer ELSE waits
  <1>0. /\ UNCHANGED <<set, err, stamp>> /\ loading = NoLoad /\ loading' = l /\ age' = 0
        /\ Closed(l) /\ \A d \in Callers : caller[d].on # l
    BY DEF CurrentStartsLoad, NewLoad, Unused, listVars
  <1>1. l \in Nat /\ l # NoLoad
    BY CacheAssumption DEF NoLoad
  <1>2. PICK B : set \in Copy(B) /\ load \in [Loads -> LoadState(B)]
    BY DEF CacheInv, CacheTypeOK
  <1>3. started = [pc |-> "list", got |-> NoSet]
    BY DEF Ended
  <1>4. load' = [load EXCEPT ![l] = started]
    BY DEF CurrentStartsLoad
  <1> DEFINE C == B \cup {EmptyCollection}
  <1>5. Copy(B) \subseteq Copy(C) /\ NoSet \in Copy(C)
    BY NoSetIs DEF Copy
  <1>6. started \in LoadState(C) /\ started.pc = "list"
    BY <1>3, <1>5 DEF LoadState
  <1> HIDE DEF started
  <1>7. set' \in Copy(C) /\ load' \in [Loads -> LoadState(C)]
    BY <1>0, <1>2, <1>4, <1>5, <1>6 DEF LoadState
  <1>8. load'[l].pc = "list" /\ \A k \in Loads \ {l} : load'[k] = load[k]
    BY <1>2, <1>4, <1>6
  <1>9. caller' = [caller EXCEPT ![c] = r]
    BY DEF CurrentStartsLoad
  <1>10. /\ r \in CallerState /\ (r.pc = "wait" => r.on = l)
         /\ r.pc = "answered" => r.failed \/ r.blocks
    <2>1. waits \in CallerState /\ waits.pc = "wait" /\ waits.on = l
      BY <1>1 DEF Idle, CallerState
    <2> QED BY <2>1, AnswerIs DEF Answerable
  <1> HIDE DEF r
  <1>11. CacheTypeOK'
    <2>1. caller' \in [Callers -> CallerState]
      BY <1>9, <1>10 DEF CacheInv, CacheTypeOK
    <2>2. age' \in 0..TTL
      BY <1>0, CacheAssumption
    <2> QED BY <1>0, <1>1, <1>7, <2>1, <2>2 DEF CacheInv, CacheTypeOK
  <1>12. LoadsInv'
    <2>1. \A k \in Loads : ~Working(k)
      <3>1. \A k \in Loads : k # NoLoad
        BY CacheAssumption DEF NoLoad
      <3> QED BY <1>0, <3>1 DEF CacheInv, LoadsInv
    <2>2. \A k \in Loads : Working(k)' <=> k = l
      BY <1>8, <2>1 DEF Working
    <2>3. \A d \in Callers : caller'[d].pc = "wait" =>
            caller'[d].on \in Loads /\ (caller'[d].on = l \/ Answerable)
      BY <1>9, <1>10, <2>1 DEF CacheInv, CacheTypeOK, LoadsInv
    <2> QED BY <1>0, <1>1, <2>2, <2>3 DEF LoadsInv, Answerable
  <1>13. StampsInv'
    BY <1>0, <1>8 DEF CacheInv, StampsInv, Failed
  <1>14. NeverNilNil'
    BY <1>9, <1>10 DEF CacheInv, CacheTypeOK, NeverNilNil
  <1> QED BY <1>11, <1>12, <1>13, <1>14 DEF CacheInv

\* A listing shows the source as it is now.
LEMMA ListKeepsInv ==
  ASSUME CacheInv, NEW l \in Loads, List(l), UNCHANGED listVars
  PROVE  CacheInv'
  <1>0. UNCHANGED <<set, err, age, loading, caller, stamp>> /\ load[l].pc = "list"
    BY DEF List, listVars
  <1>1. PICK B : set \in Copy(B) /\ load \in [Loads -> LoadState(B)]
    BY DEF CacheInv, CacheTypeOK
  <1>2. PICK got : got = IF up THEN Listing ELSE NoSet
    OBVIOUS
  <1> DEFINE C == B \cup {got.blocks}
             listed == [pc |-> "store", got |-> got]
  <1>3. Listing.stamp = stamp /\ Listing = [blocks |-> Listing.blocks, stamp |-> Listing.stamp]
    BY DEF Listing
  <1>4. stamp \in Nat
    BY DEF CacheInv, CacheTypeOK
  <1>5. got \in Copy(C) /\ (got = NoSet \/ got.stamp = stamp) /\ Copy(B) \subseteq Copy(C)
    <2>1. CASE up
      <3>1. got \in [blocks : C, stamp : Int] /\ got.stamp = stamp
        BY <1>2, <1>3, <1>4, <2>1
      <3> QED BY <3>1, <1>4 DEF Copy
    <2>2. CASE ~up
      <3>1. got = NoSet
        BY <1>2, <2>2
      <3> QED BY <3>1, NoSetIs DEF Copy
    <2> QED BY <2>1, <2>2
  <1>6. load' = [load EXCEPT ![l] = listed]
    BY <1>2 DEF List
  <1>7. listed \in LoadState(C) /\ listed.pc = "store" /\ listed.got = got
    BY <1>5 DEF LoadState
  <1> HIDE DEF listed, C
  <1>8. set' \in Copy(C) /\ load' \in [Loads -> LoadState(C)]
    BY <1>0, <1>1, <1>5, <1>6, <1>7 DEF LoadState
  <1>9. /\ load'[l].pc = "store" /\ load'[l].got = got
        /\ \A k \in Loads \ {l} : load'[k] = load[k]
    BY <1>1, <1>6, <1>7
  <1>10. CacheTypeOK'
    BY <1>0, <1>8 DEF CacheInv, CacheTypeOK
  <1>11. LoadsInv'
    BY <1>0, <1>9 DEF CacheInv, LoadsInv, Working, Answerable, Due
  <1>12. StampsInv'
    BY <1>0, <1>4, <1>5, <1>9 DEF CacheInv, StampsInv, Failed
  <1>13. NeverNilNil'
    BY <1>0 DEF CacheInv, NeverNilNil
  <1> QED BY <1>10, <1>11, <1>12, <1>13 DEF CacheInv

\* A load that ends leaves a copy or an error.
LEMMA StoreKeepsInv ==
  ASSUME CacheInv, NEW l \in Loads, Store(l), UNCHANGED listVars
  PROVE  CacheInv' /\ set'.stamp >= set.stamp
  <1>0. /\ load[l].pc = "store" /\ loading' = NoLoad /\ err' = Failed(l)
        /\ set' = (IF Failed(l) THEN set ELSE load[l].got)
        /\ UNCHANGED <<age, caller, stamp>>
    BY DEF Store, listVars
  <1>1. PICK B : set \in Copy(B) /\ load \in [Loads -> LoadState(B)]
    BY DEF CacheInv, CacheTypeOK
  <1>2. /\ load' \in [Loads -> LoadState(B)]
        /\ load'[l].pc = "close" /\ load'[l].got = load[l].got
        /\ \A k \in Loads \ {l} : load'[k] = load[k]
    BY <1>1 DEF Store, LoadState
  <1>3. set' \in Copy(B) /\ set.stamp \in Int /\ load[l].got.stamp \in Int
    BY <1>0, <1>1 DEF LoadState, Copy
  <1>4. CacheTypeOK'
    <2>1. err' \in BOOLEAN
      BY <1>0 DEF Failed
    <2> QED BY <1>0, <1>2, <1>3, <2>1 DEF CacheInv, CacheTypeOK, NoLoad
  <1>5. loading = l /\ \A k \in Loads : Working(k) => k = l
    BY <1>0 DEF CacheInv, LoadsInv, Working
  <1>6. set' # NoSet \/ err'
    BY <1>0 DEF Failed
  <1>7. LoadsInv'
    BY <1>0, <1>2, <1>5, <1>6 DEF CacheInv, LoadsInv, Working, Answerable, NoLoad
  <1>8. set'.stamp >= set.stamp /\ set'.stamp <= stamp
    BY <1>0, <1>3 DEF CacheInv, StampsInv
  <1>9. StampsInv'
    BY <1>0, <1>2, <1>5, <1>8 DEF CacheInv, StampsInv, Failed, Working
  <1>10. NeverNilNil'
    BY <1>0 DEF CacheInv, NeverNilNil
  <1> QED BY <1>4, <1>7, <1>8, <1>9, <1>10 DEF CacheInv

LEMMA CloseDoneKeepsInv ==
  ASSUME CacheInv, NEW l \in Loads, CloseDone(l), UNCHANGED listVars
  PROVE  CacheInv'
  <1>0. UNCHANGED <<set, err, age, loading, caller, stamp>> /\ load[l].pc = "close"
    BY DEF CloseDone, listVars
  <1>1. PICK B : set \in Copy(B) /\ load \in [Loads -> LoadState(B)]
    BY DEF CacheInv, CacheTypeOK
  <1> DEFINE C == B \cup {EmptyCollection}
  <1>2. Copy(B) \subseteq Copy(C) /\ NoSet \in Copy(C)
    BY NoSetIs DEF Copy
  <1>3. Ended \in LoadState(C) /\ Ended.pc = "idle"
    BY <1>2 DEF LoadState, Ended
  <1>4. load' = [load EXCEPT ![l] = Ended]
    BY DEF CloseDone
  <1>5. set' \in Copy(C) /\ load' \in [Loads -> LoadState(C)]
    BY <1>0, <1>1, <1>2, <1>3, <1>4 DEF LoadState
  <1>6. load'[l].pc = "idle" /\ \A k \in Loads \ {l} : load'[k] = load[k]
    BY <1>1, <1>3, <1>4
  <1>7. CacheTypeOK'
    BY <1>0, <1>5 DEF CacheInv, CacheTypeOK
  <1>8. LoadsInv'
    BY <1>0, <1>6 DEF CacheInv, LoadsInv, Working, Answerable, Due
  <1>9. StampsInv'
    BY <1>0, <1>6 DEF CacheInv, StampsInv, Failed
  <1>10. NeverNilNil'
    BY <1>0 DEF CacheInv, NeverNilNil
  <1> QED BY <1>7, <1>8, <1>9, <1>10 DEF CacheInv

\* The source only gets newer.
LEMMA SourceKeepsInv ==
  ASSUME CacheInv, stamp' \in Nat, stamp' >= stamp,
         UNCHANGED <<set, err, age, loading, load, caller>>
  PROVE  CacheInv'
  <1>1. CacheTypeOK'
    BY DEF CacheInv, CacheTypeOK
  <1>2. LoadsInv'
    BY DEF CacheInv, LoadsInv, Working, Answerable, Due
  <1>3. StampsInv'
    <2>1. PICK B : set \in Copy(B) /\ load \in [Loads -> LoadState(B)]
      BY DEF CacheInv, CacheTypeOK
    <2>2. stamp \in Nat /\ set.stamp \in Int /\ \A l \in Loads : load[l].got.stamp \in Int
      BY <2>1 DEF Copy, LoadState, CacheInv, CacheTypeOK
    <2> QED BY <2>2 DEF CacheInv, StampsInv, Failed
  <1>4. NeverNilNil'
    BY DEF CacheInv, NeverNilNil
  <1> QED BY <1>1, <1>2, <1>3, <1>4 DEF CacheInv

\* Ageing a copy keeps its stamp, and no copy stays no copy.
LEMMA LaterBlocksIs ==
  ASSUME NEW B, NEW x \in Copy(B)
  PROVE  /\ LaterBlocks(x).stamp = x.stamp
         /\ LaterBlocks(x) \in Copy({[p \in DOMAIN b |-> Later(b[p])] : b \in B})
         /\ LaterBlocks(x) = NoSet <=> x = NoSet
  <1> DEFINE aged == [p \in DOMAIN x.blocks |-> Later(x.blocks[p])]
             C == {[p \in DOMAIN b |-> Later(b[p])] : b \in B}
  <1>1. x \in [blocks : B, stamp : Int] /\ (x = NoSet \/ x.stamp >= 0)
    BY DEF Copy
  <1>2. LaterBlocks(x) = [x EXCEPT !.blocks = aged] /\ aged \in C
    BY <1>1 DEF LaterBlocks
  <1> HIDE DEF aged, C
  <1>3. /\ LaterBlocks(x) \in [blocks : C, stamp : Int]
        /\ LaterBlocks(x).stamp = x.stamp /\ LaterBlocks(x).blocks = aged
    BY <1>1, <1>2
  <1>4. x = NoSet => LaterBlocks(x) = NoSet
    <2> SUFFICES ASSUME x = NoSet PROVE LaterBlocks(x) = NoSet
      OBVIOUS
    <2>1. x.blocks = EmptyCollection /\ x.stamp = -1
      BY NoSetIs
    <2>2. aged = EmptyCollection
      BY <2>1 DEF EmptyCollection, aged
    <2> QED BY <1>3, <2>1, <2>2 DEF NoSet
  <1>5. LaterBlocks(x) = NoSet => x = NoSet
    BY <1>1, <1>3, NoSetIs
  <1> QED BY <1>1, <1>3, <1>4, <1>5 DEF Copy, C

LEMMA TickKeepsInv ==
  ASSUME CacheInv, Tick
  PROVE  CacheInv' /\ set'.stamp = set.stamp
  <1>1. PICK B : set \in Copy(B) /\ load \in [Loads -> LoadState(B)]
    BY DEF CacheInv, CacheTypeOK
  <1> DEFINE C == {[p \in DOMAIN b |-> Later(b[p])] : b \in B}
  <1>2. /\ set' = LaterBlocks(set) /\ stamp' = stamp
        /\ age' = (IF age < TTL THEN age + 1 ELSE age)
        /\ UNCHANGED <<err, loading, caller>>
    BY DEF Tick, ListTick
  <1>3. set' \in Copy(C) /\ set'.stamp = set.stamp /\ (set' = NoSet <=> set = NoSet)
    BY <1>1, <1>2, LaterBlocksIs
  <1>4. /\ load' \in [Loads -> LoadState(C)]
        /\ \A l \in Loads : /\ load'[l].pc = load[l].pc
                            /\ load'[l].got.stamp = load[l].got.stamp
                            /\ load'[l].got = NoSet <=> load[l].got = NoSet
    <2>1. load' = [l \in Loads |-> [load[l] EXCEPT !.got = LaterBlocks(load[l].got)]]
      BY DEF Tick
    <2>2. ASSUME NEW l \in Loads
          PROVE  /\ load'[l] \in LoadState(C) /\ load'[l].pc = load[l].pc
                 /\ load'[l].got.stamp = load[l].got.stamp
                 /\ load'[l].got = NoSet <=> load[l].got = NoSet
      <3>1. load[l].got \in Copy(B) /\ load[l] \in LoadState(B)
        BY <1>1 DEF LoadState
      <3>2. PICK got : got = LaterBlocks(load[l].got)
        OBVIOUS
      <3>3. /\ got \in Copy(C) /\ got.stamp = load[l].got.stamp
            /\ got = NoSet <=> load[l].got = NoSet
        BY <3>1, <3>2, LaterBlocksIs
      <3>4. load'[l] = [load[l] EXCEPT !.got = got]
        BY <2>1, <3>2
      <3> HIDE DEF C
      <3> QED BY <3>1, <3>3, <3>4 DEF LoadState
    <2> QED BY <2>1, <2>2
  <1> HIDE DEF C
  <1>5. CacheTypeOK'
    <2>1. age' \in 0..TTL
      BY <1>2, CacheAssumption DEF CacheInv, CacheTypeOK
    <2> QED BY <1>2, <1>3, <1>4, <2>1 DEF CacheInv, CacheTypeOK
  <1>6. LoadsInv'
    <2>1. Answerable' <=> Answerable
      BY <1>2, <1>3 DEF Answerable
    <2>2. Due => Due'
      BY <1>2, CacheAssumption DEF Due
    <2>3. \A l \in Loads : Working(l)' <=> Working(l)
      BY <1>4 DEF Working
    <2> QED BY <1>2, <2>1, <2>2, <2>3 DEF CacheInv, LoadsInv
  <1>7. StampsInv'
    BY <1>2, <1>3, <1>4 DEF CacheInv, StampsInv, Failed
  <1>8. NeverNilNil'
    BY <1>2 DEF CacheInv, NeverNilNil
  <1> QED BY <1>3, <1>5, <1>6, <1>7, <1>8 DEF CacheInv

\* What a step does to the copy.
LEMMA CacheNextInv ==
  ASSUME CacheInv, [Next]_vars
  PROVE  CacheInv' /\ (set' = set \/ set'.stamp >= set.stamp)
  <1>0. PICK B : set \in Copy(B)
    BY DEF CacheInv, CacheTypeOK
  <1>1. set.stamp \in Int /\ stamp \in Nat
    BY <1>0 DEF Copy, CacheInv, CacheTypeOK
  <1>2. CASE CacheStep /\ UNCHANGED listVars
    <2>1. ASSUME NEW c \in Callers, CallerStep(c) PROVE CacheInv' /\ set' = set
      <3>1. ASSUME NEW l \in Loads, CurrentStartsLoad(c, l) PROVE CacheInv' /\ set' = set
        BY <1>2, <3>1, StartsLoadKeepsInv DEF CurrentStartsLoad
      <3>2. CASE Current(c) \/ Wakes(c) \/ GivesUp(c) \/ Returns(c)
        BY <1>2, <3>2, CallerKeepsInv DEF Current, Wakes, GivesUp, Returns
      <3> QED BY <2>1, <3>1, <3>2 DEF CallerStep
    <2>2. ASSUME NEW l \in Loads, LoadStep(l)
          PROVE  CacheInv' /\ (set' = set \/ set'.stamp >= set.stamp)
      <3>1. CASE List(l)
        BY <1>2, <3>1, ListKeepsInv DEF List
      <3>2. CASE Store(l)
        BY <1>2, <3>2, StoreKeepsInv
      <3>3. CASE CloseDone(l)
        BY <1>2, <3>3, CloseDoneKeepsInv DEF CloseDone
      <3> QED BY <2>2, <3>1, <3>2, <3>3 DEF LoadStep
    <2>3. CASE SourceToggles
      BY <1>1, <1>2, <2>3, SourceKeepsInv DEF SourceToggles, listVars
    <2> QED BY <1>2, <2>1, <2>2, <2>3 DEF CacheStep
  <1>3. CASE ListStep /\ UNCHANGED cacheVars
    <2>1. stamp' \in Nat /\ stamp' >= stamp
      <3>1. ASSUME NEW o \in Operators, NEW b \in Inputs, Block(o, b) \/ UnblockGet(o, b.prefix)
            PROVE  stamp' \in {stamp, stamp + 1}
        BY <3>1 DEF Block, UnblockGet
      <3>2. ASSUME NEW o \in Operators, UnblockDelete(o) \/ UnblockReturn(o) \/ UnblockFails(o)
            PROVE  stamp' \in {stamp, stamp + 1}
        BY <3>2 DEF UnblockDelete, UnblockReturn, UnblockFails
      <3>3. CASE Cleanup
        BY <1>1, <3>3 DEF Cleanup
      <3> QED BY <1>1, <1>3, <3>1, <3>2, <3>3 DEF ListStep
    <2> QED BY <1>3, <2>1, SourceKeepsInv DEF cacheVars
  <1>4. CASE Tick
    BY <1>1, <1>4, TickKeepsInv
  <1>5. CASE UNCHANGED vars
    BY <1>1, <1>5, SourceKeepsInv DEF vars, cacheVars, listVars
  <1> QED BY <1>2, <1>3, <1>4, <1>5 DEF Next

LEMMA CacheInvariance == Spec => []CacheInv
  BY CacheInitInv, CacheNextInv, PTL DEF Spec

(***************************************************************************)
(* A failed or a slow load never drops the copy nor puts an older listing  *)
(* in its place: one load works at a time, and it listed the source after  *)
(* the copy was made.                                                      *)
(***************************************************************************)
THEOREM CopyMovesForward == Spec => CopyNeverRewinds
  <1>1. CacheInv /\ [Next]_vars => [set'.stamp >= set.stamp]_set
    BY CacheNextInv
  <1> QED BY CacheInvariance, <1>1, PTL DEF Spec, CopyNeverRewinds

-----------------------------------------------------------------------------
(***************************************************************************)
(* The operators' Block and Unblock implement BlockBook.                   *)
(***************************************************************************)
GivenPrefixes == {Canonical(b.prefix) : b \in Inputs} \cup {NoPrefix}
Document == [prefix : GivenPrefixes, expires : Nat \cup {Null}]
CallState == [pc : {"idle", "read", "lifted", "done"}, prefix : GivenPrefixes,
              doc : Document, alone : BOOLEAN,
              said : {"nothing", "blocked", "lifted", "notBlocked", "error"}]

\* Every document is stored under the ID of its prefix.
StoredByID ==
  /\ docs \in [DOMAIN docs -> Document]
  /\ \A id \in DOMAIN docs : id = DocumentID(docs[id].prefix)

\* While nobody crosses it, what Unblock has read is what is stored until it
\* deletes it, unless it has lapsed and was cleaned up, and nothing is stored
\* in its place afterwards.
ReadIsStored ==
  \A o \in Operators : Running(o) =>
    LET d == call[o].doc
        id == DocumentID(call[o].prefix)
    IN  /\ call[o].prefix # NoPrefix
        /\ call[o].alone /\ call[o].pc = "read" =>
             IF Has(docs, id) THEN docs[id] = d ELSE d.expires = 0
        /\ call[o].alone /\ call[o].pc = "lifted" => ~Has(docs, id)

BookInv ==
  /\ StoredByID
  /\ call \in [Operators -> CallState]
  /\ ReadIsStored

\* The ticks a document has left, as BlockBook counts them.
Left(d) == IF d.expires = Null THEN Never ELSE d.expires

\* The blocks in force, told from the documents directly.
Kept(p) == Has(docs, DocumentID(p)) /\ docs[DocumentID(p)].expires # 0

ForceNow ==
  [p \in {q \in GivenPrefixes \ {NoPrefix} : Kept(q)} |-> Left(docs[DocumentID(p)])]

\* A call as BlockBook sees it.
Seen(c) == [pc |-> c.pc, prefix |-> c.prefix, left |-> Left(c.doc),
            alone |-> c.alone, said |-> c.said]

LEMMA PrefixShape ==
  /\ \A p \in GivenPrefixes : p = [fam |-> p.fam, bits |-> p.bits]
  /\ \A p, q \in GivenPrefixes : DocumentID(p) = DocumentID(q) => p = q
  /\ \A b \in Inputs : Canonical(b.prefix) \in GivenPrefixes \ {NoPrefix}
  <1>1. \A p \in GivenPrefixes : p = [fam |-> p.fam, bits |-> p.bits]
    BY DEF GivenPrefixes, Canonical, NoPrefix
  <1>2. \A p, q \in GivenPrefixes : DocumentID(p) = DocumentID(q) => p = q
    BY <1>1 DEF DocumentID
  <1>3. \A b \in Inputs : Canonical(b.prefix).fam \in {4, 6}
    BY InputsAssumption DEF Canonical
  <1>4. NoPrefix.fam = 0
    BY DEF NoPrefix
  <1>5. \A b \in Inputs : Canonical(b.prefix) \in GivenPrefixes \ {NoPrefix}
    BY <1>3, <1>4 DEF GivenPrefixes
  <1> QED BY <1>1, <1>2, <1>5

\* FromDocument shows the prefix and what is left.
LEMMA FromDocumentIs ==
  ASSUME NEW d \in Document
  PROVE  /\ FromDocument(d).prefix = d.prefix
         /\ FromDocument(d).expires = Left(d)
         /\ Active(FromDocument(d)) <=> d.expires # 0
         /\ Left(d) \in Nat \cup {Never}
  BY DEF FromDocument, Left, Active, Document, Null, Never

\* load finds every valid document by its prefix.
LEMMA LoadIs ==
  ASSUME StoredByID
  PROVE  /\ DOMAIN Load(docs) =
              {p \in GivenPrefixes \ {NoPrefix} : Has(docs, DocumentID(p))}
         /\ \A p \in DOMAIN Load(docs) : Load(docs)[p] = FromDocument(docs[DocumentID(p)])
  <1> DEFINE valid == {id \in DOMAIN docs : docs[id].prefix # NoPrefix}
  <1>1. \A id \in DOMAIN docs : docs[id].prefix \in GivenPrefixes
    BY DEF StoredByID, Document
  <1>2. ASSUME NEW p \in GivenPrefixes, Has(docs, DocumentID(p))
        PROVE  docs[DocumentID(p)].prefix = p
    <2>1. DocumentID(p) = DocumentID(docs[DocumentID(p)].prefix)
      BY <1>2 DEF StoredByID, Has
    <2> QED BY <1>1, <1>2, <2>1, PrefixShape DEF Has
  <1>3. DOMAIN Load(docs) = {docs[id].prefix : id \in valid}
    BY DEF Load
  <1>4. {docs[id].prefix : id \in valid} =
          {p \in GivenPrefixes \ {NoPrefix} : Has(docs, DocumentID(p))}
    BY <1>1, <1>2 DEF StoredByID, Has
  <1>5. ASSUME NEW p \in {docs[id].prefix : id \in valid}
        PROVE  (CHOOSE id \in valid : docs[id].prefix = p) = DocumentID(p)
    <2>1. \E id \in valid : docs[id].prefix = p
      OBVIOUS
    <2>2. \A id \in valid : docs[id].prefix = p => id = DocumentID(p)
      BY DEF StoredByID
    <2> QED BY <2>1, <2>2
  <1>6. \A p \in {docs[id].prefix : id \in valid} :
          Load(docs)[p] = FromDocument(docs[DocumentID(p)])
    BY <1>5 DEF Load
  <1> QED BY <1>3, <1>4, <1>6

\* The refinement mapping, told from the documents and the calls.
LEMMA ForceIs == BookInv => BlocksInForce = ForceNow /\ Calls = [o \in Operators |-> Seen(call[o])]
  <1> SUFFICES ASSUME BookInv
               PROVE  BlocksInForce = ForceNow /\ Calls = [o \in Operators |-> Seen(call[o])]
    OBVIOUS
  <1> DEFINE real == GivenPrefixes \ {NoPrefix}
             held == {p \in real : Has(docs, DocumentID(p))}
             dom == {q \in held : Active(Load(docs)[q])}
  <1>1. DOMAIN Load(docs) = held
        /\ \A p \in held : Load(docs)[p] = FromDocument(docs[DocumentID(p)])
    BY LoadIs DEF BookInv
  <1>2. \A p \in held : docs[DocumentID(p)] \in Document
    BY DEF BookInv, StoredByID, Has
  <1>3. \A p \in held : /\ Active(Load(docs)[p]) <=> Kept(p)
                        /\ Load(docs)[p].expires = Left(docs[DocumentID(p)])
    BY <1>1, <1>2, FromDocumentIs DEF Kept
  <1>4. dom = {q \in real : Kept(q)}
    BY <1>3 DEF Kept
  <1>5. BlocksInForce = [p \in dom |-> Load(docs)[p].expires]
    BY <1>1 DEF BlocksInForce
  <1>6. BlocksInForce = ForceNow
    BY <1>3, <1>4, <1>5 DEF ForceNow
  <1>7. \A o \in Operators : FromDocument(call[o].doc).expires = Left(call[o].doc)
    BY DEF FromDocument, Left
  <1>8. Calls = [o \in Operators |-> Seen(call[o])]
    BY <1>7 DEF Calls, Seen
  <1> QED BY <1>6, <1>8

LEMMA ForceWillBe ==
  BookInv' => (BlocksInForce = ForceNow)' /\ (Calls = [o \in Operators |-> Seen(call[o])])'
  BY ForceIs, PTL

LEMMA NoCallIs ==
  /\ NoCall \in CallState /\ NoCall.pc = "idle" /\ Seen(NoCall) = Book!NoCall
  /\ \A p \in GivenPrefixes :
       \A what \in {"blocked", "lifted", "notBlocked", "error"} :
         /\ Said(p, what) \in CallState /\ Said(p, what).pc = "done"
         /\ Seen(Said(p, what)) = Book!Said(p, what)
  /\ \A p \in GivenPrefixes, d \in Document :
       /\ Reads(p, d) \in CallState /\ Reads(p, d).pc = "read"
       /\ Reads(p, d).prefix = p /\ Reads(p, d).doc = d
       /\ Seen(Reads(p, d)) = Book!Reads(p, Left(d))
  <1>1. NoBlock \in Document /\ Left(NoBlock) = 0 /\ NoPrefix \in GivenPrefixes
    BY DEF NoBlock, Document, GivenPrefixes, Left, Null
  <1> HIDE DEF NoBlock
  <1>2. NoCall \in CallState /\ NoCall.pc = "idle" /\ Seen(NoCall) = Book!NoCall
    BY <1>1 DEF NoCall, CallState, Seen, Book!NoCall
  <1>3. ASSUME NEW p \in GivenPrefixes, NEW what \in {"blocked", "lifted", "notBlocked", "error"}
        PROVE  /\ Said(p, what) \in CallState /\ Said(p, what).pc = "done"
               /\ Seen(Said(p, what)) = Book!Said(p, what)
    BY <1>1 DEF CallState, Said, Seen, Book!Said
  <1>4. ASSUME NEW p \in GivenPrefixes, NEW d \in Document
        PROVE  /\ Reads(p, d) \in CallState /\ Reads(p, d).pc = "read"
               /\ Reads(p, d).prefix = p /\ Reads(p, d).doc = d
               /\ Seen(Reads(p, d)) = Book!Reads(p, Left(d))
    BY DEF CallState, Reads, Seen, Book!Reads
  <1> QED BY <1>2, <1>3, <1>4

\* Calls that run, and calls that are crossed, are so in the book.
LEMMA CrossedIs ==
  ASSUME BookInv, NEW o \in Operators, NEW p
  PROVE  /\ Crossed(o, p) \in [Operators -> CallState]
         /\ \A q \in Operators : /\ Crossed(o, p)[q].pc = call[q].pc
                                 /\ Crossed(o, p)[q].prefix = call[q].prefix
                                 /\ Crossed(o, p)[q].doc = call[q].doc
                                 /\ Crossed(o, p)[q].alone => call[q].alone
                                 /\ Running(q) /\ Crossed(o, p)[q].alone =>
                                      q = o \/ call[q].prefix # p
         /\ Crossed(o, p)[o] = call[o]
         /\ Book!Crossed(o, p) = [q \in Operators |-> Seen(Crossed(o, p)[q])]
         /\ \A q \in Operators : Book!Running(q) <=> Running(q)
  <1>1. Calls = [q \in Operators |-> Seen(call[q])] /\ call \in [Operators -> CallState]
    BY ForceIs DEF BookInv
  <1>2. \A q \in Operators : /\ Calls[q].pc = call[q].pc /\ Calls[q].prefix = call[q].prefix
                             /\ call[q] \in CallState
    BY <1>1 DEF Seen
  <1>3. \A q \in Operators : Book!Running(q) <=> Running(q)
    BY <1>2 DEF Book!Running, Running
  <1>4. ASSUME NEW q \in Operators
        PROVE  /\ [call[q] EXCEPT !.alone = FALSE] \in CallState
               /\ [call[q] EXCEPT !.alone = FALSE].pc = call[q].pc
               /\ [call[q] EXCEPT !.alone = FALSE].prefix = call[q].prefix
               /\ [call[q] EXCEPT !.alone = FALSE].doc = call[q].doc
               /\ ~[call[q] EXCEPT !.alone = FALSE].alone
               /\ [Calls[q] EXCEPT !.alone = FALSE] = Seen([call[q] EXCEPT !.alone = FALSE])
    <2>1. PICK c \in CallState : c = call[q]
      BY <1>2
    <2>2. PICK e : e = [c EXCEPT !.alone = FALSE]
      OBVIOUS
    <2>3. /\ e \in CallState /\ e.pc = c.pc /\ e.prefix = c.prefix /\ e.doc = c.doc
          /\ e.alone = FALSE /\ e.said = c.said
      BY <2>2 DEF CallState
    <2>4. [Seen(c) EXCEPT !.alone = FALSE] = Seen(e)
      <3>1. \A f : [Seen(c) EXCEPT !.alone = f] =
                     [pc |-> c.pc, prefix |-> c.prefix, left |-> Left(c.doc), alone |-> f,
                      said |-> c.said]
        BY DEF Seen
      <3> QED BY <2>3, <3>1 DEF Seen
    <2> QED BY <1>1, <2>1, <2>2, <2>3, <2>4
  <1>5. Crossed(o, p) \in [Operators -> CallState]
    BY <1>2, <1>4 DEF Crossed
  <1>6. ASSUME NEW q \in Operators
        PROVE  /\ Crossed(o, p)[q].pc = call[q].pc
               /\ Crossed(o, p)[q].prefix = call[q].prefix
               /\ Crossed(o, p)[q].doc = call[q].doc
               /\ Crossed(o, p)[q].alone => call[q].alone
               /\ Running(q) /\ Crossed(o, p)[q].alone => q = o \/ call[q].prefix # p
    BY <1>4 DEF Crossed
  <1>7. ASSUME NEW q \in Operators
        PROVE  Book!Crossed(o, p)[q] = Seen(Crossed(o, p)[q])
    BY <1>1, <1>2, <1>3, <1>4 DEF Crossed, Book!Crossed
  <1>8. Book!Crossed(o, p) = [q \in Operators |-> Book!Crossed(o, p)[q]]
    BY DEF Book!Crossed
  <1> QED BY <1>3, <1>5, <1>6, <1>7, <1>8 DEF Crossed

\* A call answered or begun, in the book.
LEMMA SeenExcept ==
  ASSUME NEW o \in Operators, NEW f, DOMAIN f = Operators, NEW x
  PROVE  [q \in Operators |-> Seen([f EXCEPT ![o] = x][q])]
           = [[q \in Operators |-> Seen(f[q])] EXCEPT ![o] = Seen(x)]
  OBVIOUS

LEMMA BookInitRefines ==
  ASSUME Init
  PROVE  BookInv /\ Book!Init
  <1> USE DEF Init, ListInit
  <1>1. Invalid \in Document /\ Invalid.prefix = NoPrefix
    BY DEF Invalid, Document, GivenPrefixes
  <1>2. DOMAIN docs = {DocumentID(NoPrefix)} /\ docs[DocumentID(NoPrefix)] = Invalid
    BY DEF Put, EmptyCollection
  <1>3. StoredByID
    <2>1. docs = [id \in {DocumentID(NoPrefix)} |-> Invalid]
      BY DEF Put, EmptyCollection
    <2> QED BY <1>1, <1>2, <2>1 DEF StoredByID
  <1>4. BookInv
    BY <1>3, NoCallIs DEF BookInv, ReadIsStored, Running
  <1>5. {q \in GivenPrefixes \ {NoPrefix} : Kept(q)} = {}
    BY <1>2, PrefixShape DEF Kept, Has, GivenPrefixes
  <1>6. BlocksInForce = EmptyCollection
    BY <1>4, <1>5, ForceIs DEF ForceNow, EmptyCollection
  <1>7. Book!EmptyCollection = EmptyCollection
    BY DEF Book!EmptyCollection, EmptyCollection
  <1>8. Calls = [o \in Operators |-> Book!NoCall]
    BY <1>4, ForceIs, NoCallIs
  <1> QED BY <1>4, <1>6, <1>7, <1>8 DEF Book!Init

\* One document written keeps every document under the ID of its prefix.
LEMMA PutIsStored ==
  ASSUME StoredByID, NEW d \in Document, docs' = Put(docs, DocumentID(d.prefix), d)
  PROVE  StoredByID'
  <1>1. DOMAIN docs' = DOMAIN docs \cup {DocumentID(d.prefix)}
    BY DEF Put
  <1>2. \A id \in DOMAIN docs' : docs'[id] = IF id = DocumentID(d.prefix) THEN d ELSE docs[id]
    BY DEF Put
  <1>3. \A id \in DOMAIN docs' : docs'[id] \in Document /\ id = DocumentID(docs'[id].prefix)
    BY <1>1, <1>2 DEF StoredByID
  <1>4. docs' = [id \in DOMAIN docs' |-> docs'[id]]
    BY <1>1 DEF Put
  <1> QED BY <1>3, <1>4 DEF StoredByID

LEMMA WithoutIsStored ==
  ASSUME StoredByID, NEW id, docs' = Without(docs, id)
  PROVE  StoredByID'
  <1>1. DOMAIN docs' = DOMAIN docs \ {id} /\ \A k \in DOMAIN docs' : docs'[k] = docs[k]
    BY DEF Without
  <1>2. docs' = [k \in DOMAIN docs' |-> docs'[k]]
    BY <1>1 DEF Without
  <1> QED BY <1>1, <1>2 DEF StoredByID

\* Block replaces the block on its prefix and nothing else.
LEMMA BlockRefines ==
  ASSUME BookInv, NEW o \in Operators, NEW b \in Inputs, Block(o, b)
  PROVE  BookInv' /\ \E a \in Asks : Book!Block(o, a)
  <1> DEFINE p == Canonical(b.prefix)
             d == ToDocument([prefix |-> p, expires |-> b.expires])
             real == GivenPrefixes \ {NoPrefix}
  <1>0. b.expires \in Nat \cup {Never} /\ b.expires # 0
    BY InputsAssumption DEF Block
  <1>1. p \in real /\ d \in Document /\ d.prefix = p /\ d.expires # 0 /\ Left(d) = b.expires
    <2>1. p \in real
      BY PrefixShape
    <2> QED BY <1>0, <2>1 DEF ToDocument, Document, Left, Never, Null
  <1>2. PICK what \in {"blocked", "error"} :
          /\ docs' = Put(docs, DocumentID(p), d) /\ ~Running(o)
          /\ call' = [Crossed(o, p) EXCEPT ![o] = Said(p, what)]
    BY DEF Block
  <1>3. PICK a \in Asks : a.prefix = p /\ a.expires = b.expires
    <2>1. [prefix |-> p, expires |-> b.expires] \in Asks
      BY DEF Asks
    <2> QED BY <2>1
  <1> HIDE DEF p, d
  <1>4. StoredByID'
    BY <1>1, <1>2, PutIsStored DEF BookInv
  <1>5. p \in GivenPrefixes /\ Said(p, what) \in CallState /\ Said(p, what).pc = "done"
        /\ Seen(Said(p, what)) = Book!Said(p, what)
    BY <1>1, NoCallIs
  <1>6. /\ call' \in [Operators -> CallState] /\ call'[o] = Said(p, what)
        /\ \A q \in Operators \ {o} : call'[q] = Crossed(o, p)[q]
    BY <1>2, <1>5, CrossedIs
  <1>7. ReadIsStored'
    <2> SUFFICES ASSUME NEW q \in Operators, Running(q)'
                 PROVE  /\ call'[q].prefix # NoPrefix
                        /\ call'[q].alone =>
                             LET id == DocumentID(call'[q].prefix)
                             IN  /\ Has(docs', id) <=> Has(docs, id)
                                 /\ Has(docs, id) => docs'[id] = docs[id]
                                 /\ call[q].alone /\ call'[q].pc = call[q].pc
                                 /\ call'[q].doc = call[q].doc /\ Running(q)
                                 /\ call'[q].prefix = call[q].prefix
      BY DEF BookInv, ReadIsStored
    <2>1. q # o
      BY <1>5, <1>6 DEF Running
    <2>2. /\ call'[q].pc = call[q].pc /\ call'[q].doc = call[q].doc
          /\ call'[q].prefix = call[q].prefix /\ Running(q)
          /\ call'[q].alone => call[q].alone /\ call[q].prefix # p
      BY <1>6, <2>1, CrossedIs DEF Running
    <2>3. call[q].prefix \in GivenPrefixes /\ call[q].prefix # NoPrefix
      BY <2>2 DEF BookInv, CallState, ReadIsStored
    <2>4. call[q].prefix # p => DocumentID(call[q].prefix) # DocumentID(p)
      BY <1>5, <2>3, PrefixShape
    <2> QED BY <1>2, <2>2, <2>3, <2>4 DEF Has, Put
  <1>8. BookInv'
    BY <1>4, <1>6, <1>7 DEF BookInv
  <1>9. \A q \in real : /\ Kept(q)' <=> Kept(q) \/ q = p
                        /\ Kept(q)' => docs'[DocumentID(q)] =
                                         IF q = p THEN d ELSE docs[DocumentID(q)]
    <2>1. \A q \in real : DocumentID(q) = DocumentID(p) <=> q = p
      BY <1>1, PrefixShape
    <2> QED BY <1>1, <1>2, <2>1 DEF Kept, Put, Has
  <1>10. BlocksInForce' = Put(BlocksInForce, p, b.expires)
    <2>1. BlocksInForce = [q \in {r \in real : Kept(r)} |-> Left(docs[DocumentID(q)])]
      BY ForceIs DEF ForceNow
    <2>2. BlocksInForce' = [q \in {r \in real : Kept(r)'} |-> Left(docs'[DocumentID(q)])]
      BY <1>8, ForceWillBe DEF ForceNow, Left
    <2>3. {r \in real : Kept(r)'} = DOMAIN BlocksInForce \cup {p}
      BY <1>1, <1>9, <2>1
    <2>4. \A q \in {r \in real : Kept(r)'} :
            Left(docs'[DocumentID(q)]) = IF q = p THEN b.expires ELSE BlocksInForce[q]
      BY <1>1, <1>9, <2>1
    <2> QED BY <2>2, <2>3, <2>4 DEF Put
  <1>11. Calls' = [Book!Crossed(o, p) EXCEPT ![o] = Book!Said(p, what)]
    <2>1. Calls' = [q \in Operators |-> Seen(call'[q])]
      BY <1>8, ForceWillBe DEF Seen, Left
    <2>2. PICK f : f = Crossed(o, p) /\ DOMAIN f = Operators
      <3>1. DOMAIN Crossed(o, p) = Operators
        BY DEF Crossed
      <3> QED BY <3>1
    <2>3. Book!Crossed(o, p) = [q \in Operators |-> Seen(f[q])]
      BY <2>2, CrossedIs
    <2>4. [q \in Operators |-> Seen([f EXCEPT ![o] = Said(p, what)][q])]
            = [[q \in Operators |-> Seen(f[q])] EXCEPT ![o] = Seen(Said(p, what))]
      BY <2>2, SeenExcept
    <2> QED BY <1>2, <1>5, <2>1, <2>2, <2>3, <2>4
  <1>12. ~Book!Running(o)
    BY <1>2, CrossedIs
  <1> QED BY <1>0, <1>3, <1>8, <1>10, <1>11, <1>12 DEF Book!Block, Book!Put, Put

\* Steps of one call that leave the documents alone.
LEMMA CallMoves ==
  ASSUME BookInv, NEW o \in Operators, NEW x \in CallState, docs' = docs,
         call' = [call EXCEPT ![o] = x],
         x.pc \in {"read", "lifted"} =>
           LET id == DocumentID(x.prefix)
           IN  /\ x.prefix # NoPrefix /\ x.pc = "read"
               /\ Has(docs, id) /\ docs[id] = x.doc
  PROVE  /\ BookInv' /\ BlocksInForce' = BlocksInForce
         /\ Calls' = [Calls EXCEPT ![o] = Seen(x)]
  <1>1. /\ call' \in [Operators -> CallState] /\ call'[o] = x
        /\ \A q \in Operators \ {o} : call'[q] = call[q]
    BY DEF BookInv
  <1>2. ReadIsStored'
    <2>1. ASSUME NEW q \in Operators \ {o}, Running(q)'
          PROVE  Running(q) /\ call'[q] = call[q]
      BY <1>1, <2>1 DEF Running
    <2> QED BY <1>1, <2>1 DEF BookInv, ReadIsStored, Running
  <1>3. BookInv'
    BY <1>1, <1>2 DEF BookInv, StoredByID
  <1>4. BlocksInForce' = BlocksInForce
    BY <1>3, ForceIs, ForceWillBe DEF ForceNow, Kept, Left
  <1>5. Calls' = [Calls EXCEPT ![o] = Seen(x)]
    <2>1. Calls' = [q \in Operators |-> Seen(call'[q])] /\ Calls = [q \in Operators |-> Seen(call[q])]
      BY <1>3, ForceIs, ForceWillBe DEF Seen, Left
    <2>2. DOMAIN call = Operators
      BY DEF BookInv
    <2> QED BY <2>1, <2>2, SeenExcept
  <1> QED BY <1>3, <1>4, <1>5

\* Unblock that reads changes no block; finding none, it says so.
LEMMA UnblockGetRefines ==
  ASSUME BookInv, NEW o \in Operators, NEW b \in Inputs, UnblockGet(o, b.prefix)
  PROVE  BookInv' /\ \E a \in Asks : Book!NotBlocked(o, a.prefix) \/ Book!Look(o, a.prefix)
  <1> DEFINE p == Canonical(b.prefix)
             id == DocumentID(p)
             x == Reads(p, docs[id])
  <1>1. p \in GivenPrefixes \ {NoPrefix}
    BY PrefixShape
  <1>2. PICK a \in Asks : a.prefix = p
    <2>1. [prefix |-> p, expires |-> b.expires] \in Asks
      BY DEF Asks
    <2> QED BY <2>1
  <1>3. docs' = docs /\ ~Book!Running(o)
    BY CrossedIs DEF UnblockGet
  <1>4. BlocksInForce = ForceNow
    BY ForceIs
  <1>5. CASE ~Has(docs, id) /\ call' = [call EXCEPT ![o] = Said(p, "notBlocked")]
    <2>1. /\ Said(p, "notBlocked") \in CallState /\ Said(p, "notBlocked").pc = "done"
          /\ Seen(Said(p, "notBlocked")) = Book!Said(p, "notBlocked")
      BY <1>1, NoCallIs
    <2>2. p \notin DOMAIN BlocksInForce
      BY <1>4, <1>5 DEF ForceNow, Kept
    <2>3. BookInv' /\ BlocksInForce' = BlocksInForce
          /\ Calls' = [Calls EXCEPT ![o] = Book!Said(p, "notBlocked")]
      BY <1>3, <1>5, <2>1, CallMoves
    <2> QED BY <1>2, <1>3, <2>2, <2>3 DEF Book!NotBlocked
  <1>6. CASE Has(docs, id) /\ call' = [call EXCEPT ![o] = x]
    <2>1. docs[id] \in Document
      BY <1>6 DEF BookInv, StoredByID, Has
    <2>2. Left(docs[id]) = Book!Stands(p)
      <3>1. p \in DOMAIN BlocksInForce <=> docs[id].expires # 0
        BY <1>1, <1>4, <1>6 DEF ForceNow, Kept
      <3>2. p \in DOMAIN BlocksInForce => BlocksInForce[p] = Left(docs[id])
        BY <1>4 DEF ForceNow
      <3> QED BY <3>1, <3>2 DEF Book!Stands, Left, Null
    <2>3. x \in CallState /\ x.pc = "read" /\ x.prefix = p /\ x.doc = docs[id]
          /\ Seen(x) = Book!Reads(p, Left(docs[id]))
      BY <1>1, <2>1, NoCallIs
    <2> HIDE DEF x
    <2>4. BookInv' /\ BlocksInForce' = BlocksInForce /\ Calls' = [Calls EXCEPT ![o] = Seen(x)]
      BY <1>1, <1>3, <1>6, <2>3, CallMoves
    <2> QED BY <1>2, <1>3, <2>2, <2>3, <2>4 DEF Book!Look
  <1> QED BY <1>5, <1>6 DEF UnblockGet

\* Unblock lifts the block on its prefix and nothing else.
LEMMA UnblockDeleteRefines ==
  ASSUME BookInv, NEW o \in Operators, UnblockDelete(o)
  PROVE  BookInv' /\ Book!Lift(o)
  <1> DEFINE p == call[o].prefix
             id == DocumentID(p)
             x == [call[o] EXCEPT !.pc = "lifted"]
             real == GivenPrefixes \ {NoPrefix}
  <1>1. /\ call[o].pc = "read" /\ docs' = Without(docs, id)
        /\ call' = [Crossed(o, p) EXCEPT ![o].pc = "lifted"]
    BY DEF UnblockDelete
  <1>2. call[o] \in CallState /\ p \in real
    BY <1>1 DEF BookInv, CallState, ReadIsStored, Running
  <1>3. /\ x \in CallState /\ x.pc = "lifted" /\ x.prefix = p
        /\ Seen(x) = [Seen(call[o]) EXCEPT !.pc = "lifted"]
    BY <1>2 DEF CallState, Seen
  <1>4. call' = [Crossed(o, p) EXCEPT ![o] = x]
    BY <1>1, CrossedIs
  <1> HIDE DEF x
  <1>5. /\ call' \in [Operators -> CallState] /\ call'[o] = x
        /\ \A q \in Operators \ {o} : call'[q] = Crossed(o, p)[q]
    BY <1>3, <1>4, CrossedIs
  <1>6. StoredByID'
    BY <1>1, WithoutIsStored DEF BookInv
  <1>7. ReadIsStored'
    <2>1. ASSUME NEW q \in Operators, q # o, Running(q)'
          PROVE  /\ call'[q].prefix # NoPrefix
                 /\ call'[q].alone =>
                      LET k == DocumentID(call'[q].prefix)
                      IN  (Has(docs', k) <=> Has(docs, k)) /\ (Has(docs, k) => docs'[k] = docs[k])
                          /\ call[q].alone /\ call'[q].pc = call[q].pc
                          /\ call'[q].doc = call[q].doc /\ Running(q)
                          /\ call'[q].prefix = call[q].prefix
      <3>1. /\ call'[q].pc = call[q].pc /\ call'[q].doc = call[q].doc
            /\ call'[q].prefix = call[q].prefix /\ Running(q)
            /\ call'[q].alone => call[q].alone /\ call[q].prefix # p
        BY <1>5, <2>1, CrossedIs DEF Running
      <3>2. call[q].prefix \in GivenPrefixes /\ call[q].prefix # NoPrefix
        BY <3>1 DEF BookInv, CallState, ReadIsStored
      <3>3. call[q].prefix # p => DocumentID(call[q].prefix) # id
        BY <1>2, <3>2, PrefixShape
      <3> HIDE DEF p
      <3> QED BY <1>1, <3>1, <3>2, <3>3 DEF Has, Without
    <2>2. ~Has(docs', id)
      BY <1>1 DEF Has, Without
    <2> QED BY <1>2, <1>3, <1>5, <2>1, <2>2 DEF BookInv, ReadIsStored
  <1>8. BookInv'
    BY <1>5, <1>6, <1>7 DEF BookInv
  <1> HIDE DEF p
  <1>9. \A q \in real : /\ Kept(q)' <=> Kept(q) /\ q # p
                        /\ Kept(q)' => docs'[DocumentID(q)] = docs[DocumentID(q)]
    <2>1. \A q \in real : DocumentID(q) = id <=> q = p
      BY <1>2, PrefixShape
    <2> QED BY <1>1, <2>1 DEF Kept, Has, Without
  <1>10. BlocksInForce' = Without(BlocksInForce, p)
    <2>1. BlocksInForce = [q \in {r \in real : Kept(r)} |-> Left(docs[DocumentID(q)])]
      BY ForceIs DEF ForceNow
    <2>2. BlocksInForce' = [q \in {r \in real : Kept(r)'} |-> Left(docs'[DocumentID(q)])]
      BY <1>8, ForceWillBe DEF ForceNow, Left
    <2> QED BY <1>9, <2>1, <2>2 DEF Without
  <1>11. Calls[o] = Seen(call[o]) /\ Calls[o].prefix = p /\ Calls[o].pc = "read"
    BY <1>1, ForceIs DEF Seen, p
  <1>12. Calls' = [Book!Crossed(o, p) EXCEPT ![o].pc = "lifted"]
    <2>1. Calls' = [q \in Operators |-> Seen(call'[q])]
      BY <1>8, ForceWillBe DEF Seen, Left
    <2>2. DOMAIN Crossed(o, p) = Operators
      BY DEF Crossed
    <2>3. Calls' = [Book!Crossed(o, p) EXCEPT ![o] = Seen(x)]
      BY <1>4, <2>1, <2>2, SeenExcept, CrossedIs
    <2>4. Book!Crossed(o, p)[o] = Seen(call[o])
      BY CrossedIs
    <2> QED BY <1>3, <2>3, <2>4
  <1> QED BY <1>8, <1>10, <1>11, <1>12 DEF Book!Lift, Book!Without, Without

\* Unblock returns what it has read and the clock tell it.
LEMMA UnblockReturnRefines ==
  ASSUME BookInv, NEW o \in Operators, UnblockReturn(o)
  PROVE  BookInv' /\ Book!Answer(o)
  <1> DEFINE what == IF Active(call[o].doc) THEN "lifted" ELSE "notBlocked"
             x == Said(call[o].prefix, what)
  <1>1. call[o].pc = "lifted" /\ docs' = docs /\ call' = [call EXCEPT ![o] = x]
    BY DEF UnblockReturn
  <1>2. call[o].prefix \in GivenPrefixes /\ call[o].doc \in Document
    BY DEF BookInv, CallState
  <1>3. x \in CallState /\ x.pc = "done" /\ Seen(x) = Book!Said(call[o].prefix, what)
    BY <1>2, NoCallIs
  <1>4. Calls[o].pc = "lifted" /\ Calls[o].prefix = call[o].prefix /\ Calls[o].left = Left(call[o].doc)
    BY <1>1, ForceIs DEF Seen
  <1>5. Active(call[o].doc) <=> Calls[o].left # 0
    BY <1>2, <1>4 DEF Active, Left, Document, Null, Never
  <1> HIDE DEF x
  <1>6. BookInv' /\ BlocksInForce' = BlocksInForce /\ Calls' = [Calls EXCEPT ![o] = Seen(x)]
    BY <1>1, <1>3, CallMoves
  <1> QED BY <1>3, <1>4, <1>5, <1>6 DEF Book!Answer

LEMMA UnblockFailsRefines ==
  ASSUME BookInv, NEW o \in Operators, UnblockFails(o)
  PROVE  BookInv' /\ Book!Fail(o)
  <1> DEFINE x == Said(call[o].prefix, "error")
  <1>1. Running(o) /\ docs' = docs /\ call' = [call EXCEPT ![o] = x]
    BY DEF UnblockFails
  <1>2. call[o].prefix \in GivenPrefixes
    BY DEF BookInv, CallState
  <1>3. x \in CallState /\ x.pc = "done" /\ Seen(x) = Book!Said(call[o].prefix, "error")
    BY <1>2, NoCallIs
  <1>4. Calls[o].prefix = call[o].prefix /\ Book!Running(o)
    BY <1>1, ForceIs, CrossedIs DEF Seen
  <1> HIDE DEF x
  <1>5. BookInv' /\ BlocksInForce' = BlocksInForce /\ Calls' = [Calls EXCEPT ![o] = Seen(x)]
    BY <1>1, <1>3, CallMoves
  <1> QED BY <1>3, <1>4, <1>5 DEF Book!Fail

\* The clean-up of a lapsed document lifts no block.
LEMMA CleanupRefines ==
  ASSUME BookInv, Cleanup
  PROVE  BookInv' /\ UNCHANGED Book!vars
  <1>1. PICK id \in DOMAIN docs : docs[id].expires = 0 /\ docs' = Without(docs, id)
    BY DEF Cleanup
  <1>2. call' = call
    BY DEF Cleanup
  <1>3. StoredByID'
    BY <1>1, WithoutIsStored DEF BookInv
  <1>4. \A k : /\ Has(docs', k) <=> Has(docs, k) /\ k # id
               /\ Has(docs', k) => docs'[k] = docs[k]
    BY <1>1 DEF Has, Without
  <1>5. ReadIsStored'
    BY <1>1, <1>2, <1>4 DEF BookInv, ReadIsStored, Running
  <1>6. BookInv'
    BY <1>2, <1>3, <1>5 DEF BookInv
  <1>7. \A p : /\ Kept(p)' <=> Kept(p)
               /\ Kept(p) => docs'[DocumentID(p)] = docs[DocumentID(p)]
    BY <1>1, <1>4 DEF Kept
  <1>8. BlocksInForce' = BlocksInForce
    <2>1. BlocksInForce = [p \in {q \in GivenPrefixes \ {NoPrefix} : Kept(q)} |-> Left(docs[DocumentID(p)])]
      BY ForceIs DEF ForceNow
    <2>2. BlocksInForce' = [p \in {q \in GivenPrefixes \ {NoPrefix} : Kept(q)'} |-> Left(docs'[DocumentID(p)])]
      BY <1>6, ForceWillBe DEF ForceNow, Left
    <2> QED BY <1>7, <2>1, <2>2
  <1>9. Calls' = Calls
    BY <1>2, <1>6, ForceIs, ForceWillBe DEF Seen, Left
  <1> QED BY <1>6, <1>8, <1>9 DEF Book!vars

\* One tick later a document has one tick less, and stays what it is otherwise.
LEMMA LaterIs ==
  ASSUME NEW d \in Document
  PROVE  /\ Later(d) \in Document /\ Later(d).prefix = d.prefix
         /\ d.expires \in {Null, 0} => Later(d).expires = d.expires
         /\ d.expires \notin {Null, 0} => Later(d).expires = d.expires - 1
  <1>1. d.expires \in Nat \cup {Null} /\ d.expires # Never
    BY DEF Document, Null, Never
  <1>2. /\ Later(d).prefix = d.prefix
        /\ Later(d).expires = IF d.expires \in {Never, Null, 0} THEN d.expires ELSE d.expires - 1
        /\ Later(d) \in [prefix : GivenPrefixes, expires : {Later(d).expires}]
    BY DEF Later, Document
  <1> QED BY <1>1, <1>2 DEF Document, Never, Null

\* Ticks left, told after a tick from before it.
LEMMA LeftLater ==
  ASSUME NEW d \in Document
  PROVE  /\ d.expires # 0 => (Later(d).expires # 0 <=> Left(d) # 1)
         /\ d.expires = 0 => Later(d).expires = 0
         /\ Left(Later(d)) = Book!Sooner(Left(d))
  BY LaterIs DEF Document, Left, Never, Null, Book!Sooner

LEMMA TickRefines ==
  ASSUME BookInv, ListTick
  PROVE  BookInv' /\ Book!Tick
  <1> DEFINE real == GivenPrefixes \ {NoPrefix}
  <1>1. /\ DOMAIN docs' = DOMAIN docs
        /\ \A id \in DOMAIN docs : docs'[id] = Later(docs[id]) /\ docs[id] \in Document
        /\ docs' = [id \in DOMAIN docs |-> docs'[id]]
    BY DEF ListTick, BookInv, StoredByID
  <1>2. StoredByID'
    BY <1>1, LaterIs DEF BookInv, StoredByID
  <1>3. call' = [o \in Operators |-> [call[o] EXCEPT !.doc = Later(call[o].doc)]]
    BY DEF ListTick
  <1>4. ASSUME NEW o \in Operators
        PROVE  /\ call'[o] \in CallState /\ call'[o].pc = call[o].pc
               /\ call'[o].prefix = call[o].prefix /\ call'[o].alone = call[o].alone
               /\ call'[o].said = call[o].said
               /\ call'[o].doc = Later(call[o].doc) /\ call[o].doc \in Document
    <2>1. call[o] \in CallState
      BY DEF BookInv
    <2>2. call[o].doc \in Document /\ Later(call[o].doc) \in Document
      BY <2>1, LaterIs DEF CallState
    <2>3. call'[o] = [call[o] EXCEPT !.doc = Later(call[o].doc)]
      BY <1>3
    <2> QED BY <2>1, <2>2, <2>3 DEF CallState
  <1>5. call' \in [Operators -> CallState]
    BY <1>3, <1>4
  <1>6. ReadIsStored'
    <2> SUFFICES ASSUME NEW o \in Operators, Running(o)', NEW id, id = DocumentID(call'[o].prefix)
                 PROVE  /\ call'[o].prefix # NoPrefix
                        /\ call'[o].alone /\ call'[o].pc = "read" =>
                             IF Has(docs', id) THEN docs'[id] = call'[o].doc
                             ELSE call'[o].doc.expires = 0
                        /\ call'[o].alone /\ call'[o].pc = "lifted" => ~Has(docs', id)
      BY DEF ReadIsStored
    <2>1. Running(o) /\ id = DocumentID(call[o].prefix)
      BY <1>4 DEF Running
    <2>2. /\ call[o].prefix # NoPrefix
          /\ call[o].alone /\ call[o].pc = "read" =>
               IF Has(docs, id) THEN docs[id] = call[o].doc ELSE call[o].doc.expires = 0
          /\ call[o].alone /\ call[o].pc = "lifted" => ~Has(docs, id)
      BY <2>1 DEF BookInv, ReadIsStored
    <2>3. Has(docs', id) <=> Has(docs, id)
      BY <1>1 DEF Has
    <2>4. Has(docs, id) => docs'[id] = Later(docs[id])
      BY <1>1 DEF Has
    <2>5. call[o].doc.expires = 0 => call'[o].doc.expires = 0
      BY <1>4, LeftLater
    <2> QED BY <1>4, <2>2, <2>3, <2>4, <2>5
  <1>7. BookInv'
    BY <1>2, <1>5, <1>6 DEF BookInv
  <1>8. \A p \in real : /\ Kept(p)' <=> Kept(p) /\ Left(docs[DocumentID(p)]) # 1
                        /\ Kept(p)' => Left(docs'[DocumentID(p)]) =
                                         Book!Sooner(Left(docs[DocumentID(p)]))
    <2> SUFFICES ASSUME NEW p \in real, NEW d, d = docs[DocumentID(p)]
                 PROVE  /\ Kept(p)' <=> Kept(p) /\ Left(d) # 1
                        /\ Kept(p)' => Left(docs'[DocumentID(p)]) = Book!Sooner(Left(d))
      OBVIOUS
    <2>1. CASE ~Has(docs, DocumentID(p))
      BY <1>1, <2>1 DEF Kept, Has
    <2>2. CASE Has(docs, DocumentID(p))
      <3>1. d \in Document /\ docs'[DocumentID(p)] = Later(d) /\ Has(docs', DocumentID(p))
        BY <1>1, <2>2 DEF Has
      <3> QED BY <2>2, <3>1, LeftLater DEF Kept
    <2> QED BY <2>1, <2>2
  <1>9. BlocksInForce = [p \in {q \in real : Kept(q)} |-> Left(docs[DocumentID(p)])]
    BY ForceIs DEF ForceNow
  <1>10. BlocksInForce' = [p \in {q \in real : Kept(q)'} |-> Left(docs'[DocumentID(p)])]
    BY <1>7, ForceWillBe DEF ForceNow, Left
  <1>11. {q \in real : Kept(q)'} = {q \in DOMAIN BlocksInForce : BlocksInForce[q] # 1}
    BY <1>8, <1>9
  <1>12. BlocksInForce' = [p \in {q \in DOMAIN BlocksInForce : BlocksInForce[q] # 1} |->
                             Book!Sooner(BlocksInForce[p])]
    BY <1>8, <1>9, <1>10, <1>11
  <1>13. Calls' = [o \in Operators |-> Seen(call'[o])] /\ Calls = [o \in Operators |-> Seen(call[o])]
    BY <1>7, ForceIs, ForceWillBe DEF Seen, Left
  <1>14. ASSUME NEW o \in Operators
         PROVE  Seen(call'[o]) = [Seen(call[o]) EXCEPT !.left = Book!Sooner(Seen(call[o]).left)]
    <2>1. Left(call'[o].doc) = Book!Sooner(Left(call[o].doc))
      BY <1>4, LeftLater
    <2> QED BY <1>4, <2>1 DEF Seen
  <1>15. Calls' = [o \in Operators |-> [Calls[o] EXCEPT !.left = Book!Sooner(Calls[o].left)]]
    BY <1>13, <1>14
  <1> QED BY <1>7, <1>12, <1>15 DEF Book!Tick

\* Every step of the blocklist and of its cache is one of the book, or none.
LEMMA BookNextRefines == BookInv /\ [Next]_vars => BookInv' /\ [Book!Next]_(Book!vars)
  <1> SUFFICES ASSUME BookInv, [Next]_vars
               PROVE  BookInv' /\ [Book!Next]_(Book!vars)
    OBVIOUS
  <1>1. CASE UNCHANGED listVars
    <2>1. docs' = docs /\ call' = call
      BY <1>1 DEF listVars
    <2>2. BookInv'
      BY <2>1 DEF BookInv, StoredByID, ReadIsStored, Running
    <2>3. BlocksInForce' = BlocksInForce /\ Calls' = Calls
      BY <2>1, <2>2, ForceIs, ForceWillBe DEF ForceNow, Kept, Left, Seen
    <2> QED BY <2>2, <2>3 DEF Book!vars
  <1>2. CASE ListStep
    <2>1. CASE Cleanup
      BY <2>1, CleanupRefines
    <2>2. ASSUME NEW o \in Operators, NEW b \in Inputs, Block(o, b) \/ UnblockGet(o, b.prefix)
          PROVE  BookInv' /\ [Book!Next]_(Book!vars)
      BY <2>2, BlockRefines, UnblockGetRefines DEF Book!Next
    <2>3. ASSUME NEW o \in Operators, UnblockDelete(o) \/ UnblockReturn(o) \/ UnblockFails(o)
          PROVE  BookInv' /\ [Book!Next]_(Book!vars)
      BY <2>3, UnblockDeleteRefines, UnblockReturnRefines, UnblockFailsRefines DEF Book!Next
    <2> QED BY <1>2, <2>1, <2>2, <2>3 DEF ListStep
  <1>3. CASE Tick
    BY <1>3, TickRefines DEF Tick, Book!Next
  <1> QED BY <1>1, <1>2, <1>3 DEF Next, vars

LEMMA BookIsAtomic == BookInv => Book!UncrossedIsAtomic
  <1> SUFFICES ASSUME BookInv, NEW o \in Operators, Book!Running(o), Calls[o].alone
               PROVE  Book!Stands(Calls[o].prefix) =
                        IF Calls[o].pc = "read" THEN Calls[o].left ELSE 0
    BY DEF Book!UncrossedIsAtomic
  <1> DEFINE p == call[o].prefix
             id == DocumentID(p)
  <1>1. /\ Calls[o].prefix = p /\ Calls[o].pc = call[o].pc /\ Calls[o].left = Left(call[o].doc)
        /\ call[o].alone
    BY ForceIs DEF Seen
  <1>2. Running(o) /\ call[o] \in CallState
    BY CrossedIs DEF BookInv
  <1>3. p \in GivenPrefixes \ {NoPrefix}
    BY <1>2 DEF BookInv, ReadIsStored, CallState
  <1>4. /\ p \in DOMAIN BlocksInForce <=> Kept(p)
        /\ Kept(p) => BlocksInForce[p] = Left(docs[id])
    BY <1>3, ForceIs DEF ForceNow
  <1>5. CASE call[o].pc = "read"
    <2>1. IF Has(docs, id) THEN docs[id] = call[o].doc ELSE call[o].doc.expires = 0
      BY <1>1, <1>2, <1>5 DEF BookInv, ReadIsStored
    <2>2. call[o].doc.expires = 0 => Left(call[o].doc) = 0
      BY DEF Left, Null
    <2> HIDE DEF p
    <2> QED BY <1>1, <1>4, <1>5, <2>1, <2>2 DEF Kept, Book!Stands
  <1>6. CASE call[o].pc = "lifted"
    <2>1. ~Has(docs, id)
      BY <1>1, <1>2, <1>6 DEF BookInv, ReadIsStored
    <2> HIDE DEF p
    <2> QED BY <1>1, <1>4, <1>6, <2>1 DEF Kept, Book!Stands
  <1> QED BY <1>2, <1>5, <1>6 DEF Running

(***************************************************************************)
(* For any number of operators, Block and Unblock of document.go access by *)
(* access, the lapse of blocks and the clean-up of their documents         *)
(* implement the blocklist BlockBook promises, whatever the prefixes, the  *)
(* lifetimes and the cache in front do; and an Unblock whose prefix no     *)
(* other operator changes meanwhile answers that it lifted a block exactly *)
(* when it did.                                                            *)
(***************************************************************************)
THEOREM ListIsABook == Spec => ImplementsBlockBook
  <1>1. Init => BookInv /\ Book!Init
    BY BookInitRefines
  <1>2. BookInv /\ [Next]_vars => BookInv' /\ [Book!Next]_(Book!vars)
    BY BookNextRefines
  <1>3. Spec => []BookInv /\ Book!Spec
    BY <1>1, <1>2, PTL DEF Spec, Book!Spec
  <1> QED BY <1>3, BookIsAtomic, PTL DEF ImplementsBlockBook

-----------------------------------------------------------------------------
(***************************************************************************)
(* lookup finds the narrowest block.  A canonical prefix that covers an    *)
(* address is the canonical address cut to its length, so of the lengths   *)
(* some block has the greatest one that hits is that of the narrowest.     *)
(***************************************************************************)
\* IsPrefix, told bit by bit.
LEMMA PrefixIs ==
  ASSUME NEW s \in Seq(Bit), NEW t \in Seq(Bit)
  PROVE  /\ IsPrefix(s, t) <=> Len(s) <= Len(t) /\ \A i \in 1..Len(s) : s[i] = t[i]
         /\ IsPrefix(s, t) <=> Len(s) <= Len(t) /\ s = SubSeq(t, 1, Len(s))
  <1>1. SubSeq(s, 1, Len(s)) = s
    BY SubSeqFull
  <1>2. ASSUME Len(s) <= Len(t)
        PROVE  s = SubSeq(t, 1, Len(s)) <=> \A i \in 1..Len(s) : s[i] = t[i]
    <2>0. Len(s) \in Nat /\ Len(t) \in Nat /\ 1 \in Int /\ Len(s) \in Int
      BY LenProperties
    <2>1. \A i \in 1..Len(s) : t[i] \in Bit
      BY <1>2, <2>0, ElementOfSeq
    <2>2. /\ SubSeq(t, 1, Len(s)) \in Seq(Bit)
          /\ Len(SubSeq(t, 1, Len(s))) = Len(s)
          /\ \A i \in 1..Len(s) : SubSeq(t, 1, Len(s))[i] = t[i]
      <3>1. /\ SubSeq(t, 1, Len(s)) \in Seq(Bit)
            /\ Len(SubSeq(t, 1, Len(s))) = IF 1 <= Len(s) THEN Len(s) - 1 + 1 ELSE 0
            /\ \A i \in 1 .. Len(s) - 1 + 1 : SubSeq(t, 1, Len(s))[i] = t[1 + i - 1]
        BY <2>0, <2>1, SubSeqProperties
      <3> QED BY <2>0, <3>1
    <2> HIDE DEF Bit
    <2>3. PICK u \in Seq(Bit) : u = SubSeq(t, 1, Len(s))
      BY <2>2
    <2>4. Len(u) = Len(s) /\ \A i \in 1..Len(s) : u[i] = t[i]
      BY <2>2, <2>3
    <2>5. (\A i \in 1..Len(s) : s[i] = u[i]) => s = u
      BY <2>3, <2>4, SeqEqual
    <2> QED BY <2>3, <2>4, <2>5
  <1> QED BY <1>1, <1>2 DEF IsPrefix

\* Dropping the first bits of a sequence.
LEMMA RestIs ==
  ASSUME NEW s \in Seq(Bit), NEW m \in Nat, m <= Len(s),
         NEW r, r = SubSeq(s, m + 1, Len(s))
  PROVE  r \in Seq(Bit) /\ Len(r) = Len(s) - m /\ \A i \in 1..Len(r) : r[i] = s[m + i]
  <1>0. Len(s) \in Nat /\ m + 1 \in Int /\ Len(s) \in Int
    BY LenProperties
  <1>1. \A i \in m + 1 .. Len(s) : s[i] \in Bit
    BY <1>0, ElementOfSeq
  <1>2. /\ r \in Seq(Bit)
        /\ Len(r) = IF m + 1 <= Len(s) THEN Len(s) - (m + 1) + 1 ELSE 0
        /\ \A i \in 1 .. Len(s) - (m + 1) + 1 : r[i] = s[(m + 1) + i - 1]
    BY <1>0, <1>1, SubSeqProperties
  <1> QED BY <1>0, <1>2

\* An address begins with the bits of Mapped and then those of b exactly if
\* it is mapped and the address it maps begins with those of b.
LEMMA MappedPrefix ==
  ASSUME NEW s \in Seq(Bit), NEW b \in Seq(Bit)
  PROVE  /\ IsPrefix(Mapped \o b, s) => IsPrefix(Mapped, s)
         /\ IsPrefix(Mapped, s) =>
              (IsPrefix(Mapped \o b, s) <=> IsPrefix(b, SubSeq(s, Len(Mapped) + 1, Len(s))))
  <1>0. Mapped \in Seq(Bit) /\ Len(Mapped) \in Nat /\ Len(b) \in Nat /\ Len(s) \in Nat
    BY WidthsAssumption, LenProperties
  <1> DEFINE m == Len(Mapped)
             w == Mapped \o b
  <1>1. /\ w \in Seq(Bit) /\ Len(w) = m + Len(b)
        /\ \A i \in 1 .. m + Len(b) : w[i] = IF i <= m THEN Mapped[i] ELSE b[i - m]
    BY <1>0, ConcatProperties
  <1>2. /\ \A i \in 1..m : w[i] = Mapped[i]
        /\ \A i \in 1..Len(b) : w[m + i] = b[i]
    BY <1>0, <1>1
  <1> HIDE DEF w
  <1>3. IsPrefix(w, s) <=> /\ m + Len(b) <= Len(s)
                           /\ \A i \in 1..m : Mapped[i] = s[i]
                           /\ \A i \in 1..Len(b) : b[i] = s[m + i]
    <2>1. IsPrefix(w, s) <=> Len(w) <= Len(s) /\ \A i \in 1..Len(w) : w[i] = s[i]
      BY <1>1, PrefixIs
    <2>2. (\A i \in 1..Len(w) : w[i] = s[i]) <=>
            /\ \A i \in 1..m : Mapped[i] = s[i]
            /\ \A i \in 1..Len(b) : b[i] = s[m + i]
      <3>1. \A i \in 1..m : i \in 1..Len(w)
        BY <1>0, <1>1
      <3>2. \A i \in 1..Len(b) : m + i \in 1..Len(w)
        BY <1>0, <1>1
      <3>3. \A i \in 1..Len(w) : i \in 1..m \/ (i - m \in 1..Len(b) /\ i = m + (i - m))
        BY <1>0, <1>1
      <3>4. ASSUME \A i \in 1..m : Mapped[i] = s[i], \A i \in 1..Len(b) : b[i] = s[m + i],
                   NEW i \in 1..Len(w)
            PROVE  w[i] = s[i]
        <4>1. CASE i \in 1..m
          BY <4>1, <1>2, <3>4
        <4>2. CASE i - m \in 1..Len(b) /\ i = m + (i - m)
          <5>1. PICK k \in 1..Len(b) : i = m + k
            BY <4>2
          <5> QED BY <5>1, <1>2, <3>4
        <4> QED BY <3>3, <4>1, <4>2
      <3> QED BY <1>2, <3>1, <3>2, <3>4
    <2> QED BY <1>1, <2>1, <2>2
  <1>4. IsPrefix(Mapped, s) <=> m <= Len(s) /\ \A i \in 1..m : Mapped[i] = s[i]
    BY <1>0, PrefixIs
  <1>5. ASSUME IsPrefix(Mapped, s)
        PROVE  IsPrefix(w, s) <=> IsPrefix(b, SubSeq(s, m + 1, Len(s)))
    <2>1. PICK r : r = SubSeq(s, m + 1, Len(s))
      OBVIOUS
    <2>2. r \in Seq(Bit) /\ Len(r) = Len(s) - m /\ \A i \in 1..Len(r) : r[i] = s[m + i]
      BY <1>0, <1>4, <1>5, <2>1, RestIs
    <2>3. IsPrefix(b, r) <=> Len(b) <= Len(r) /\ \A i \in 1..Len(b) : b[i] = r[i]
      BY <2>2, PrefixIs
    <2>4. IsPrefix(b, r) <=> m + Len(b) <= Len(s) /\ \A i \in 1..Len(b) : b[i] = s[m + i]
      <3>1. Len(b) <= Len(r) <=> m + Len(b) <= Len(s)
        BY <1>0, <2>2
      <3>2. Len(b) <= Len(r) => \A i \in 1..Len(b) : r[i] = s[m + i]
        BY <1>0, <2>2
      <3> QED BY <2>3, <3>1, <3>2
    <2> QED BY <1>3, <1>4, <1>5, <2>1, <2>4
  <1>6. IsPrefix(w, s) => IsPrefix(Mapped, s)
    BY <1>0, <1>3, <1>4
  <1> QED BY <1>5, <1>6 DEF w

Fits(p, ipv4) ==
  p.fam \in {4, 6} /\ p.bits \in Seq(Bit) /\ Len(p.bits) <= Width(p.fam, ipv4)

\* The bits from m + 1 to n of an address.
LEMMA BitsIs ==
  ASSUME NEW s \in Seq(Bit), NEW m \in Nat, NEW n \in Nat, n <= Len(s), m <= n,
         NEW r, r = SubSeq(s, m + 1, n)
  PROVE  r \in Seq(Bit) /\ Len(r) = n - m
  <1>0. Len(s) \in Nat /\ m + 1 \in Int /\ n \in Int
    BY LenProperties
  <1>1. \A i \in m + 1 .. n : s[i] \in Bit
    BY <1>0, ElementOfSeq
  <1>2. r \in Seq(Bit) /\ Len(r) = IF m + 1 <= n THEN n - (m + 1) + 1 ELSE 0
    BY <1>0, <1>1, SubSeqProperties
  <1> QED BY <1>0, <1>2

\* Canonical prefixes are no longer than the canonical addresses of their family.
LEMMA PrefixesFit ==
  \E ipv4 \in 0..32 :
    /\ \A p \in GivenPrefixes \ {NoPrefix} : Fits(p, ipv4)
    /\ \A a \in Addresses : /\ Fits(CanonicalAddr(a), ipv4)
                            /\ Len(CanonicalAddr(a).bits) = Width(CanonicalAddr(a).fam, ipv4)
  <1>0. Mapped \in Seq(Bit) /\ Len(Mapped) \in Nat
    BY WidthsAssumption, LenProperties
  <1>1. PICK ipv4 \in 0..32 :
          /\ \A b \in Inputs : /\ b.prefix.addr \in Seq(Bit)
                               /\ Len(b.prefix.addr) = Width(b.prefix.fam, ipv4)
                               /\ b.prefix.len \in 0..Len(b.prefix.addr)
          /\ \A a \in Addresses : /\ a.fam \in {4, 6} /\ a.bits \in Seq(Bit)
                                  /\ Len(a.bits) = Width(a.fam, ipv4)
    BY WidthsAssumption
  <1> DEFINE m == Len(Mapped)
  <1>2. ASSUME NEW b \in Inputs PROVE Fits(Canonical(b.prefix), ipv4)
    <2>1. PICK s \in Seq(Bit), n \in Nat : /\ s = b.prefix.addr /\ n = b.prefix.len
                                           /\ Len(s) = Width(b.prefix.fam, ipv4) /\ n <= Len(s)
      <3>1. b.prefix.addr \in Seq(Bit) /\ Len(b.prefix.addr) \in Nat
        BY <1>1, LenProperties
      <3> QED BY <1>1, <3>1
    <2>2. b.prefix.fam \in {4, 6}
      BY InputsAssumption
    <2>3. CASE b.prefix.fam = 6 /\ IsPrefix(Mapped, s) /\ n >= m
      <3>1. PICK r : r = SubSeq(s, m + 1, n)
        OBVIOUS
      <3>2. Canonical(b.prefix) = [fam |-> 4, bits |-> r]
        BY <2>1, <2>3, <3>1 DEF Canonical
      <3>3. r \in Seq(Bit) /\ Len(r) = n - m
        <4>1. m \in Nat /\ m <= n /\ n <= Len(s)
          BY <1>0, <2>1, <2>3
        <4> QED BY ONLY s \in Seq(Bit), n \in Nat, <3>1, <4>1, BitsIs
      <3>4. n <= m + ipv4
        BY <1>0, <2>1, <2>3 DEF Width
      <3> QED BY <1>0, <3>2, <3>3, <3>4 DEF Fits, Width
    <2>4. CASE ~(b.prefix.fam = 6 /\ IsPrefix(Mapped, s) /\ n >= m)
      <3>1. PICK r : r = SubSeq(s, 1, n)
        OBVIOUS
      <3>2. Canonical(b.prefix) = [fam |-> b.prefix.fam, bits |-> r]
        BY <2>1, <2>4, <3>1 DEF Canonical
      <3>3. r \in Seq(Bit) /\ Len(r) = n
        <4>1. r = SubSeq(s, 0 + 1, n) /\ 0 \in Nat /\ 0 <= n
          BY <3>1
        <4>2. r \in Seq(Bit) /\ Len(r) = n - 0
          BY <2>1, <4>1, BitsIs
        <4> QED BY <4>2
      <3> QED BY <2>1, <2>2, <3>2, <3>3 DEF Fits
    <2> QED BY <2>3, <2>4
  <1>3. \A p \in GivenPrefixes \ {NoPrefix} : Fits(p, ipv4)
    BY <1>2 DEF GivenPrefixes
  <1>4. ASSUME NEW a \in Addresses
        PROVE  /\ Fits(CanonicalAddr(a), ipv4)
               /\ Len(CanonicalAddr(a).bits) = Width(CanonicalAddr(a).fam, ipv4)
    <2>1. a.fam \in {4, 6} /\ a.bits \in Seq(Bit) /\ Len(a.bits) = Width(a.fam, ipv4)
          /\ Len(a.bits) \in Nat
      BY <1>1, LenProperties
    <2>2. CASE a.fam = 6 /\ IsPrefix(Mapped, a.bits)
      <3>1. PICK r : r = SubSeq(a.bits, m + 1, Len(a.bits))
        OBVIOUS
      <3>2. CanonicalAddr(a) = [fam |-> 4, bits |-> r]
        BY <2>2, <3>1 DEF CanonicalAddr
      <3>3. r \in Seq(Bit) /\ Len(r) = Len(a.bits) - m
        <4>1. m <= Len(a.bits)
          BY <2>2 DEF IsPrefix
        <4> QED BY <1>0, <2>1, <3>1, <4>1, RestIs
      <3>4. Len(a.bits) = m + ipv4
        BY <2>1, <2>2 DEF Width
      <3>5. Len(r) = ipv4
        BY <1>0, <3>3, <3>4
      <3> QED BY <3>2, <3>3, <3>5 DEF Fits, Width
    <2>3. CASE ~(a.fam = 6 /\ IsPrefix(Mapped, a.bits))
      <3>1. CanonicalAddr(a) = a
        BY <2>3 DEF CanonicalAddr
      <3> QED BY <2>1, <3>1 DEF Fits
    <2> QED BY <2>2, <2>3
  <1> QED BY <1>3, <1>4

\* A block covers an address exactly if it is in force and its prefix is
\* that of the canonical address, cut to the length of the block.
LEMMA CoveringIs ==
  ASSUME NEW blocks, DOMAIN blocks \subseteq GivenPrefixes \ {NoPrefix},
         NEW a \in Addresses, NEW c, c = CanonicalAddr(a), NEW p \in DOMAIN blocks
  PROVE  /\ p \in Covering(blocks, a) <=>
              blocks[p].expires # 0 /\ p.fam = c.fam /\ p = Probe(c, Len(p.bits))
         /\ Len(p.bits) \in Nat
         /\ p.fam = c.fam => Len(p.bits) <= Len(c.bits)
  <1>1. PICK ipv4 \in 0..32 : Fits(p, ipv4) /\ Fits(c, ipv4) /\ Len(c.bits) = Width(c.fam, ipv4)
    BY PrefixesFit
  <1>2. /\ p.bits \in Seq(Bit) /\ c.bits \in Seq(Bit) /\ p.fam \in {4, 6}
        /\ Len(p.bits) \in Nat /\ Len(c.bits) \in Nat
        /\ p.fam = c.fam => Len(p.bits) <= Len(c.bits)
    BY <1>1, LenProperties DEF Fits
  <1>3. p = [fam |-> p.fam, bits |-> p.bits]
    BY PrefixShape
  <1>4. a.fam \in {4, 6} /\ a.bits \in Seq(Bit)
    BY WidthsAssumption
  <1> DEFINE near == \/ p.fam = a.fam /\ IsPrefix(p.bits, a.bits)
                                      /\ ~(a.fam = 6 /\ IsPrefix(Mapped, a.bits))
                     \/ p.fam = 4 /\ a.fam = 6 /\ IsPrefix(Mapped \o p.bits, a.bits)
  <1>5. near <=> p.fam = c.fam /\ IsPrefix(p.bits, c.bits)
    <2>1. CASE a.fam = 6 /\ IsPrefix(Mapped, a.bits)
      <3>1. c = [fam |-> 4, bits |-> SubSeq(a.bits, Len(Mapped) + 1, Len(a.bits))]
        BY <2>1 DEF CanonicalAddr
      <3>2. IsPrefix(Mapped \o p.bits, a.bits) <=> IsPrefix(p.bits, c.bits)
        BY <1>2, <1>4, <2>1, <3>1, MappedPrefix
      <3>3. near <=> p.fam = 4 /\ IsPrefix(Mapped \o p.bits, a.bits)
        BY <2>1
      <3> QED BY <3>1, <3>2, <3>3
    <2>2. CASE ~(a.fam = 6 /\ IsPrefix(Mapped, a.bits))
      <3>1. c = a
        BY <2>2 DEF CanonicalAddr
      <3>2. ~(a.fam = 6 /\ IsPrefix(Mapped \o p.bits, a.bits))
        BY <1>2, <1>4, <2>2, MappedPrefix
      <3>3. near <=> p.fam = a.fam /\ IsPrefix(p.bits, a.bits)
        BY <2>2, <3>2
      <3> QED BY <3>1, <3>3
    <2> QED BY <2>1, <2>2
  <1>6. p.fam = c.fam => (IsPrefix(p.bits, c.bits) <=> p = Probe(c, Len(p.bits)))
    <2>1. IsPrefix(p.bits, c.bits) <=>
            Len(p.bits) <= Len(c.bits) /\ p.bits = SubSeq(c.bits, 1, Len(p.bits))
      BY <1>2, PrefixIs
    <2>2. p = Probe(c, Len(p.bits)) <=> p.fam = c.fam /\ p.bits = SubSeq(c.bits, 1, Len(p.bits))
      BY <1>3 DEF Probe
    <2> QED BY <1>2, <2>1, <2>2
  <1>7. p \in Covering(blocks, a) <=> blocks[p].expires # 0 /\ near
    BY DEF Covering
  <1> HIDE DEF near
  <1> QED BY <1>2, <1>5, <1>6, <1>7

\* A probe is as long as the length it is made for.
LEMMA ProbeIs ==
  ASSUME NEW c, NEW n \in Nat, c.bits \in Seq(Bit), n <= Len(c.bits)
  PROVE  Probe(c, n).fam = c.fam /\ Len(Probe(c, n).bits) = n
  <1>1. PICK s \in Seq(Bit) : s = c.bits
    OBVIOUS
  <1>2. PICK r : r = SubSeq(s, 0 + 1, n)
    OBVIOUS
  <1>3. 0 \in Nat /\ 0 <= n /\ n <= Len(s)
    BY <1>1
  <1>4. Len(r) = n - 0
    BY <1>2, <1>3, BitsIs
  <1>5. Probe(c, n) = [fam |-> c.fam, bits |-> r]
    BY <1>1, <1>2 DEF Probe
  <1> QED BY <1>4, <1>5

\* lookup finds the narrowest block that covers the address.
LEMMA LookupIs ==
  ASSUME NEW blocks, DOMAIN blocks \subseteq GivenPrefixes \ {NoPrefix}, NEW a \in Addresses
  PROVE  Lookup(blocks, a) = {p \in Covering(blocks, a) :
                                \A q \in Covering(blocks, a) : Len(q.bits) <= Len(p.bits)}
  <1>1. PICK c : c = CanonicalAddr(a)
    OBVIOUS
  <1> DEFINE Cov == Covering(blocks, a)
             hits == {n \in Lengths(blocks, c.fam) : /\ Probe(c, n) \in DOMAIN blocks
                                                     /\ Active(blocks[Probe(c, n)])}
  <1>2. Lookup(blocks, a) = {Probe(c, n) : n \in {k \in hits : \A j \in hits : j <= k}}
    BY <1>1 DEF Lookup
  <1>3. c.bits \in Seq(Bit)
    BY <1>1, PrefixesFit DEF Fits
  <1>4. Cov \subseteq DOMAIN blocks
    BY DEF Covering
  <1>5. ASSUME NEW p \in Cov
        PROVE  p = Probe(c, Len(p.bits)) /\ Len(p.bits) \in hits
    <2>1. p \in DOMAIN blocks
      BY <1>4
    <2>2. blocks[p].expires # 0 /\ p.fam = c.fam /\ p = Probe(c, Len(p.bits))
      BY <1>1, <2>1, CoveringIs
    <2>3. Len(p.bits) \in Lengths(blocks, c.fam)
      BY <2>1, <2>2 DEF Lengths
    <2> QED BY <2>1, <2>2, <2>3 DEF Active
  <1>6. ASSUME NEW n \in hits
        PROVE  Probe(c, n) \in Cov /\ Len(Probe(c, n).bits) = n
    <2>1. PICK q \in DOMAIN blocks : q.fam = c.fam /\ n = Len(q.bits)
      BY DEF Lengths
    <2>2. n \in Nat /\ n <= Len(c.bits)
      BY <1>1, <2>1, CoveringIs
    <2>3. PICK p : p = Probe(c, n)
      OBVIOUS
    <2>4. p.fam = c.fam /\ Len(p.bits) = n
      BY <1>3, <2>2, <2>3, ProbeIs
    <2>5. p \in DOMAIN blocks /\ blocks[p].expires # 0
      BY <2>3 DEF Active
    <2>6. p \in Cov
      BY <1>1, <2>3, <2>4, <2>5, CoveringIs
    <2> QED BY <2>3, <2>4, <2>6
  <1> HIDE DEF hits, Cov
  <1>7. ASSUME NEW k \in hits, \A j \in hits : j <= k, NEW q \in Cov
        PROVE  Len(q.bits) <= Len(Probe(c, k).bits)
    BY <1>5, <1>6, <1>7
  <1>8. ASSUME NEW p \in Cov, \A q \in Cov : Len(q.bits) <= Len(p.bits), NEW j \in hits
        PROVE  j <= Len(p.bits)
    BY <1>6, <1>8
  <1>9. \A p : p \in Lookup(blocks, a) =>
                 p \in Cov /\ \A q \in Cov : Len(q.bits) <= Len(p.bits)
    BY <1>2, <1>6, <1>7
  <1>10. \A p \in Cov : (\A q \in Cov : Len(q.bits) <= Len(p.bits)) => p \in Lookup(blocks, a)
    BY <1>2, <1>5, <1>8
  <1> QED BY <1>9, <1>10 DEF Cov

-----------------------------------------------------------------------------
(***************************************************************************)
(* Whoever writes the documents, and however stale a copy or a listing is, *)
(* the prefixes in them are canonical ones.                                *)
(***************************************************************************)
PrefixesInv ==
  /\ StoredByID
  /\ DOMAIN set.blocks \subseteq GivenPrefixes \ {NoPrefix}
  /\ \A l \in Loads : DOMAIN load[l].got.blocks \subseteq GivenPrefixes \ {NoPrefix}

LEMMA EmptyHasNone == DOMAIN NoSet.blocks = {}
  BY NoSetIs DEF EmptyCollection

\* Ageing a copy keeps its prefixes.
LEMMA AgedPrefixes ==
  ASSUME NEW B, NEW x \in Copy(B)
  PROVE  DOMAIN LaterBlocks(x).blocks = DOMAIN x.blocks
  <1> DEFINE aged == [p \in DOMAIN x.blocks |-> Later(x.blocks[p])]
  <1>1. x \in [blocks : B, stamp : Int]
    BY DEF Copy
  <1>2. LaterBlocks(x) = [x EXCEPT !.blocks = aged]
    BY DEF LaterBlocks
  <1>3. DOMAIN aged = DOMAIN x.blocks
    OBVIOUS
  <1> HIDE DEF aged
  <1> QED BY <1>1, <1>2, <1>3

LEMMA ListingPrefixes ==
  ASSUME StoredByID
  PROVE  DOMAIN Listing.blocks \subseteq GivenPrefixes \ {NoPrefix}
  <1>1. DOMAIN Load(docs) \subseteq GivenPrefixes \ {NoPrefix}
    BY LoadIs
  <1>2. DOMAIN Listing.blocks \subseteq DOMAIN Load(docs)
    BY DEF Listing
  <1> QED BY <1>1, <1>2

LEMMA PrefixesInit == Init => PrefixesInv
  <1> SUFFICES ASSUME Init PROVE PrefixesInv
    OBVIOUS
  <1>1. /\ DOMAIN docs = {DocumentID(NoPrefix)} /\ docs[DocumentID(NoPrefix)] = Invalid
        /\ docs = [id \in DOMAIN docs |-> docs[id]]
    BY DEF Init, ListInit, Put, EmptyCollection
  <1>2. Invalid \in Document /\ Invalid.prefix = NoPrefix
    BY DEF Invalid, Document, GivenPrefixes
  <1>3. StoredByID
    BY <1>1, <1>2 DEF StoredByID
  <1>4. \A l \in Loads : load[l].got = NoSet
    BY DEF Init, Ended
  <1> QED BY <1>3, <1>4, EmptyHasNone DEF PrefixesInv, Init

\* The documents, whichever operators change them.
LEMMA DocsStayStored ==
  ASSUME StoredByID, ListStep \/ ListTick
  PROVE  StoredByID'
  <1>1. ASSUME NEW o \in Operators, NEW b \in Inputs, Block(o, b) PROVE StoredByID'
    <2> DEFINE p == Canonical(b.prefix)
               d == ToDocument([prefix |-> p, expires |-> b.expires])
    <2>1. p \in GivenPrefixes \ {NoPrefix}
      BY PrefixShape
    <2>2. b.expires \in Nat \cup {Never} /\ b.expires # 0
      BY <1>1, InputsAssumption DEF Block
    <2>3. d \in Document /\ d.prefix = p
      BY <2>1, <2>2 DEF ToDocument, Document, Never, Null
    <2>4. docs' = Put(docs, DocumentID(p), d)
      BY <1>1 DEF Block
    <2> HIDE DEF p, d
    <2> QED BY <2>3, <2>4, PutIsStored
  <1>2. ASSUME NEW id, docs' = Without(docs, id) PROVE StoredByID'
    BY <1>2, WithoutIsStored
  <1>3. ASSUME docs' = docs PROVE StoredByID'
    BY <1>3 DEF StoredByID
  <1>4. CASE ListTick
    <2>1. /\ DOMAIN docs' = DOMAIN docs
          /\ \A id \in DOMAIN docs : docs'[id] = Later(docs[id]) /\ docs[id] \in Document
          /\ docs' = [id \in DOMAIN docs |-> docs'[id]]
      BY <1>4 DEF ListTick, StoredByID
    <2> QED BY <2>1, LaterIs DEF StoredByID
  <1>5. CASE ListStep
    <2>1. ASSUME NEW o \in Operators, NEW b \in Inputs, UnblockGet(o, b.prefix) PROVE docs' = docs
      BY <2>1 DEF UnblockGet
    <2>2. ASSUME NEW o \in Operators, UnblockDelete(o) PROVE StoredByID'
      BY <1>2, <2>2 DEF UnblockDelete
    <2>3. ASSUME NEW o \in Operators, UnblockReturn(o) \/ UnblockFails(o) PROVE docs' = docs
      BY <2>3 DEF UnblockReturn, UnblockFails
    <2>4. CASE Cleanup
      BY <1>2, <2>4 DEF Cleanup
    <2> QED BY <1>1, <1>3, <1>5, <2>1, <2>2, <2>3, <2>4 DEF ListStep
  <1> QED BY <1>4, <1>5

LEMMA PrefixesNext == CacheInv /\ PrefixesInv /\ [Next]_vars => PrefixesInv'
  <1> SUFFICES ASSUME CacheInv, PrefixesInv, [Next]_vars PROVE PrefixesInv'
    OBVIOUS
  <1> DEFINE real == GivenPrefixes \ {NoPrefix}
  <1>0. PICK B : set \in Copy(B) /\ load \in [Loads -> LoadState(B)]
    BY DEF CacheInv, CacheTypeOK
  <1>1. \A l \in Loads : load[l].got \in Copy(B) /\ load[l] \in LoadState(B)
    BY <1>0 DEF LoadState
  <1>2. ASSUME UNCHANGED <<set, load>>, StoredByID' PROVE PrefixesInv'
    BY <1>2 DEF PrefixesInv
  <1>3. ASSUME UNCHANGED <<set, docs>>, NEW l \in Loads, NEW x,
               load' = [load EXCEPT ![l] = x], DOMAIN x.got.blocks \subseteq real
        PROVE  PrefixesInv'
    <2>1. \A k \in Loads : load'[k] = IF k = l THEN x ELSE load[k]
      BY <1>0, <1>3
    <2>2. StoredByID'
      BY <1>3 DEF PrefixesInv, StoredByID
    <2> QED BY <1>3, <2>1, <2>2 DEF PrefixesInv
  <1>4. CASE UNCHANGED vars
    BY <1>4, <1>2 DEF vars, listVars, cacheVars, PrefixesInv, StoredByID
  <1>5. CASE CacheStep /\ UNCHANGED listVars
    <2>0. docs' = docs /\ StoredByID'
      BY <1>5 DEF listVars, PrefixesInv, StoredByID
    <2>1. ASSUME NEW c \in Callers, NEW l \in Loads, CurrentStartsLoad(c, l) PROVE PrefixesInv'
      <3>1. [Ended EXCEPT !.pc = "list"].got = NoSet
        BY DEF Ended
      <3> QED BY <1>3, <2>0, <2>1, <3>1, EmptyHasNone DEF CurrentStartsLoad
    <2>2. ASSUME NEW c \in Callers, Current(c) \/ Wakes(c) \/ GivesUp(c) \/ Returns(c)
          PROVE  PrefixesInv'
      BY <1>2, <2>0, <2>2 DEF Current, Wakes, GivesUp, Returns
    <2>3. ASSUME NEW l \in Loads, List(l) PROVE PrefixesInv'
      <3>1. PICK got : got = IF up THEN Listing ELSE NoSet
        OBVIOUS
      <3>2. DOMAIN got.blocks \subseteq real
        BY <3>1, EmptyHasNone, ListingPrefixes DEF PrefixesInv
      <3>3. PICK x : x = [pc |-> "store", got |-> got]
        OBVIOUS
      <3>4. x.got = got /\ load' = [load EXCEPT ![l] = x] /\ set' = set
        BY <2>3, <3>1, <3>3 DEF List
      <3> QED BY <1>3, <2>0, <3>2, <3>4
    <2>4. ASSUME NEW l \in Loads, Store(l) PROVE PrefixesInv'
      <3>1. set' = (IF Failed(l) THEN set ELSE load[l].got)
            /\ load' = [load EXCEPT ![l].pc = "close"]
        BY <2>4 DEF Store
      <3>2. \A k \in Loads : load'[k].got = load[k].got
        BY <1>0, <1>1, <3>1 DEF LoadState
      <3> QED BY <2>0, <3>1, <3>2 DEF PrefixesInv
    <2>5. ASSUME NEW l \in Loads, CloseDone(l) PROVE PrefixesInv'
      <3>1. Ended.got = NoSet
        BY DEF Ended
      <3> QED BY <1>3, <2>0, <2>5, <3>1, EmptyHasNone DEF CloseDone
    <2>6. CASE SourceToggles
      BY <1>2, <2>0, <2>6 DEF SourceToggles
    <2> QED BY <1>5, <2>1, <2>2, <2>3, <2>4, <2>5, <2>6 DEF CacheStep, CallerStep, LoadStep
  <1>6. CASE ListStep /\ UNCHANGED cacheVars
    BY <1>2, <1>6, DocsStayStored DEF cacheVars, PrefixesInv
  <1>7. CASE Tick
    <2>1. StoredByID'
      BY <1>7, DocsStayStored DEF Tick, PrefixesInv
    <2>2. DOMAIN set'.blocks = DOMAIN set.blocks
      BY <1>0, <1>7, AgedPrefixes DEF Tick
    <2>3. ASSUME NEW l \in Loads PROVE DOMAIN load'[l].got.blocks = DOMAIN load[l].got.blocks
      <3>1. PICK got : got = LaterBlocks(load[l].got)
        OBVIOUS
      <3>2. load'[l] = [load[l] EXCEPT !.got = got]
        BY <1>7, <3>1 DEF Tick
      <3>3. load'[l].got = got
        BY <1>1, <3>2 DEF LoadState
      <3> QED BY <1>1, <3>1, <3>3, AgedPrefixes
    <2> QED BY <2>1, <2>2, <2>3 DEF PrefixesInv
  <1> QED BY <1>4, <1>5, <1>6, <1>7 DEF Next

(***************************************************************************)
(* A call is answered: Check finds the narrowest block in force that       *)
(* covers the address, in the documents as in a copy of any age, for every *)
(* width of addresses, every prefix and any number of operators, callers   *)
(* and loads; and current never returns a nil set with a nil error,        *)
(* whatever calls sleep through.                                           *)
(***************************************************************************)
THEOREM EveryCheckIsAnswered == Spec => []ChecksAreAnswered
  <1>1. CacheInv /\ PrefixesInv => ChecksAreAnswered
    <2> SUFFICES ASSUME CacheInv, PrefixesInv PROVE ChecksAreAnswered
      OBVIOUS
    <2>1. DOMAIN Load(docs) \subseteq GivenPrefixes \ {NoPrefix}
      BY LoadIs DEF PrefixesInv
    <2>2. \A blocks \in {Load(docs), set.blocks} : DOMAIN blocks \subseteq GivenPrefixes \ {NoPrefix}
      BY <2>1 DEF PrefixesInv
    <2>3. CheckFindsNarrowest
      BY <2>2, LookupIs DEF CheckFindsNarrowest
    <2> QED BY <2>3 DEF CacheInv, ChecksAreAnswered
  <1> QED BY CacheInvariance, PrefixesInit, PrefixesNext, <1>1, PTL DEF Spec
=============================================================================
