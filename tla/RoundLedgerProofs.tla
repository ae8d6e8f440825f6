------------------------- MODULE RoundLedgerProofs --------------------------
(***************************************************************************)
(* Theorems about RoundLedger and AwardReview, for any number of closers,  *)
(* operators, months, awards, receipts and failures.  The first part holds *)
(* whether or not the operators are disciplined; the second shows that     *)
(* within the discipline CloseRound implements RoundBook; the third is     *)
(* about money: Allocate is exact, and the closed rounds add up; the last  *)
(* is about the engine by itself: its allocation is fair, its rounds are   *)
(* tamper-evident.                                                         *)
(***************************************************************************)
EXTENDS RoundLedger, MCEngine, FiniteSetTheorems, TLAPS

-----------------------------------------------------------------------------
\* The fields of a computed round that the proofs look at.
LEMMA ComputedRound ==
  ASSUME NEW p, NEW m, NEW rs, NEW as, NEW carryforward
  PROVE  /\ ComputeRound(p, m, rs, as, carryforward).month = m
         /\ ComputeRound(p, m, rs, as, carryforward).carry = carryforward
  BY DEF ComputeRound

\* An obligation is created for a payee, so its amount is positive.
LEMMA CreatedObligation ==
  ASSUME NEW p, NEW round, NEW acct \in Payees(round)
  PROVE  /\ NewObligation(p, round, acct).amount > 0
         /\ NewObligation(p, round, acct).state = "earned"
  BY DEF NewObligation, Payees
-----------------------------------------------------------------------------
(***************************************************************************)
(* Every step keeps the stored rounds, and keeps the stored obligations up *)
(* to their payment state.                                                 *)
(***************************************************************************)
RoundsKept ==
  \A m \in DOMAIN rounds : m \in DOMAIN rounds' /\ rounds'[m] = rounds[m]

ObligationsKept ==
  \A id \in DOMAIN obligations :
    /\ id \in DOMAIN obligations'
    /\ obligations'[id].amount = obligations[id].amount
    /\ obligations'[id].due = obligations[id].due
    /\ \/ obligations'[id].state = obligations[id].state
       \/ <<obligations[id].state, obligations'[id].state>>
            \in LegalTransitions

\* The steps of CloseRound that write neither rounds nor obligations.
ReadStep(c) ==
  \/ \E m \in Months, t \in Instants : StartClose(c, m, t)
  \/ ReadProgram(c) \/ ReadReceipts(c) \/ ReadAwards(c)
  \/ ReadPrevious(c) \/ ReadRounds(c) \/ Fail(c)

\* Next, disjunct by disjunct, in the form the proofs take it apart.
LEMMA NextCases ==
  ASSUME [Next]_vars
  PROVE  \/ \E c \in Closers : ReadStep(c)
         \/ \E c \in Closers : StoreObligation(c)
         \/ \E c \in Closers : CommitRound(c)
         \/ \E r \in ReceiptDocs : ImportReceipt(r)
         \/ \E id \in DOMAIN obligations, to \in PayoutStates : Transition(id, to)
         \/ UNCHANGED closeVars
  <1>1. CASE LedgerStep
    BY <1>1 DEF LedgerStep, CloseStep, ReadStep
  <1>2. CASE UNCHANGED closeVars
    BY <1>2
  <1> QED
    BY <1>1, <1>2 DEF Next, vars

\* A step that is not the commit of a round leaves the rounds alone; the
\* commit adds one month that was not there.
LEMMA RoundsGrow ==
  ASSUME [Next]_vars
  PROVE  RoundsKept
  <1>1. ASSUME NEW c \in Closers, ReadStep(c) PROVE RoundsKept
    BY <1>1 DEF ReadStep, StartClose, ReadProgram, ReadReceipts, ReadAwards,
                ReadPrevious, ReadRounds, Fail, RoundsKept
  <1>2. ASSUME NEW c \in Closers, StoreObligation(c) PROVE RoundsKept
    BY <1>2 DEF StoreObligation, RoundsKept
  <1>3. ASSUME NEW c \in Closers, CommitRound(c) PROVE RoundsKept
    <2>1. CASE Has(rounds, closing[c].month)
      BY <1>3, <2>1 DEF CommitRound, RoundsKept
    <2>2. CASE ~Has(rounds, closing[c].month)
      <3>1. rounds' = Put(rounds, closing[c].month, closing[c].round)
        BY <1>3, <2>2 DEF CommitRound
      <3> QED
        BY <3>1, <2>2 DEF RoundsKept, Has, Put
    <2> QED BY <2>1, <2>2
  <1>4. ASSUME NEW r \in ReceiptDocs, ImportReceipt(r) PROVE RoundsKept
    BY <1>4 DEF ImportReceipt, RoundsKept
  <1>5. ASSUME NEW id \in DOMAIN obligations, NEW to \in PayoutStates,
               Transition(id, to)
        PROVE  RoundsKept
    BY <1>5 DEF Transition, RoundsKept
  <1>6. CASE UNCHANGED closeVars
    BY <1>6 DEF closeVars, RoundsKept
  <1> QED
    BY <1>1, <1>2, <1>3, <1>4, <1>5, <1>6, NextCases

\* Only CreateObligation and the payment transitions write obligations.
LEMMA ObligationsGrow ==
  ASSUME [Next]_vars
  PROVE  ObligationsKept
  <1>1. ASSUME NEW c \in Closers, ReadStep(c) PROVE ObligationsKept
    BY <1>1 DEF ReadStep, StartClose, ReadProgram, ReadReceipts, ReadAwards,
                ReadPrevious, ReadRounds, Fail, ObligationsKept
  <1>2. ASSUME NEW c \in Closers, StoreObligation(c) PROVE ObligationsKept
    <2>1. PICK id, doc : \/ obligations' = obligations
                         \/ /\ ~Has(obligations, id)
                            /\ obligations' = Put(obligations, id, doc)
      BY <1>2 DEF StoreObligation
    <2> QED
      BY <2>1 DEF ObligationsKept, Has, Put
  <1>3. ASSUME NEW c \in Closers, CommitRound(c) PROVE ObligationsKept
    BY <1>3 DEF CommitRound, ObligationsKept
  <1>4. ASSUME NEW r \in ReceiptDocs, ImportReceipt(r) PROVE ObligationsKept
    BY <1>4 DEF ImportReceipt, ObligationsKept
  <1>5. ASSUME NEW id \in DOMAIN obligations, NEW to \in PayoutStates,
               Transition(id, to)
        PROVE  ObligationsKept
    BY <1>5 DEF Transition, ObligationsKept, Put, Has
  <1>6. CASE UNCHANGED closeVars
    BY <1>6 DEF closeVars, ObligationsKept
  <1> QED
    BY <1>1, <1>2, <1>3, <1>4, <1>5, <1>6, NextCases

\* CloseRound never modifies a closed round, however the stores are shared.
LEMMA RoundsAreImmutable ==
  ASSUME [Next]_vars
  PROVE  RoundsImmutable
  BY RoundsGrow DEF RoundsKept, RoundsImmutable, Has

\* A retried or racing CloseRound never rewinds or re-prices an obligation
\* that exists.
LEMMA ObligationsAdvance ==
  ASSUME [Next]_vars
  PROVE  ObligationsOnlyAdvance
  BY ObligationsGrow DEF ObligationsKept, ObligationsOnlyAdvance, Has

(***************************************************************************)
(* Both together: nothing a close has stored is taken back or rewritten,   *)
(* whatever attempts race, fail or are repeated.                           *)
(***************************************************************************)
THEOREM LedgerIsAppendOnly == Spec => LedgerAppendOnly
  <1>1. [Next]_vars =>
          [RoundsImmutable /\ ObligationsOnlyAdvance]_<<rounds, obligations>>
    BY RoundsAreImmutable, ObligationsAdvance
  <1> QED
    BY <1>1, PTL DEF Spec, LedgerAppendOnly

-----------------------------------------------------------------------------
(***************************************************************************)
(* The inductive invariant.  CloserInv of the closers that do not move     *)
(* survives because rounds and obligations only grow.                      *)
(***************************************************************************)
LEMMA OthersKeepCloserInv ==
  ASSUME [Next]_vars, NEW c \in Closers, CloserInv(c),
         closing'[c] = closing[c]
  PROVE  CloserInv(c)'
  <1>1. RoundsKept /\ ObligationsKept
    BY RoundsGrow, ObligationsGrow
  <1> QED
    BY <1>1 DEF CloserInv, RoundsKept, ObligationsKept, Has

\* What Compute leaves in closing[c] satisfies CloserInv.
LEMMA ComputeEstablishesCloserInv ==
  ASSUME TypeOK, NEW c \in Closers, NEW carryforward,
         Compute(c, carryforward),
         UNCHANGED <<rounds, obligations>>,
         carryforward # 0 => /\ Has(rounds, closing[c].month - 1)
                             /\ carryforward
                                  = rounds[closing[c].month - 1].unallocated
  PROVE  CloserInv(c)'
  <1> DEFINE l == closing[c]
             round == ComputeRound(l.program, l.month, l.receipts, l.awards,
                                   carryforward)
  <1>1. CASE closing' = [closing EXCEPT ![c] = Idle]
    <2>1. closing'[c].pc = "idle"
      BY <1>1 DEF TypeOK, Idle
    <2> QED
      BY <2>1 DEF CloserInv
  <1>2. CASE closing' = [closing EXCEPT ![c] =
                           [pc |-> "store", month |-> l.month,
                            program |-> l.program, round |-> round,
                            pending |-> Payees(round)]]
    <2>1. closing'[c] = [pc |-> "store", month |-> l.month,
                         program |-> l.program, round |-> round,
                         pending |-> Payees(round)]
      BY <1>2 DEF TypeOK
    <2>2. round.month = l.month /\ round.carry = carryforward
      BY ComputedRound
    <2> HIDE DEF round
    <2> QED
      BY <2>1, <2>2 DEF CloserInv
  <1> QED
    BY <1>1, <1>2 DEF Compute, GiveUp

\* Nothing is closed at first and no CloseRound is running.
LEMMA InitIInv == Init => IInv
  BY DEF Init, IInv, TypeOK, ObligationsBackRound, CarryIsPredecessors,
         CloserInv, Has, EmptyCollection, Idle

-----------------------------------------------------------------------------
(***************************************************************************)
(* Type correctness: one step per kind of step.                            *)
(***************************************************************************)
LEMMA TypeOKPreserved ==
  ASSUME IInv, [Next]_vars
  PROVE  TypeOK'
  <1> USE DEF IInv
  <1>1. ASSUME NEW c \in Closers, ReadStep(c) PROVE TypeOK'
    <2>1. /\ UNCHANGED <<rounds, obligations>>
          /\ attempted \subseteq attempted' /\ attempted' \subseteq Months
      BY <1>1 DEF ReadStep, StartClose, ReadProgram, ReadReceipts, ReadAwards,
                  ReadPrevious, ReadRounds, Fail, TypeOK
    <2>2. /\ DOMAIN closing' = Closers
          /\ \A d \in Closers : d # c => closing'[d] = closing[d]
          /\ \/ closing'[c] = Idle
             \/ /\ closing'[c].pc \in {"program", "receipts", "awards", "carry",
                                       "gap", "store"}
                /\ closing'[c].month \in attempted'
      <3>1. CASE \E m \in Months, t \in Instants : StartClose(c, m, t)
        BY <3>1 DEF StartClose, TypeOK
      <3>2. CASE ReadProgram(c)
        BY <3>2 DEF ReadProgram, GiveUp, TypeOK, Idle
      <3>3. CASE ReadReceipts(c)
        BY <3>3 DEF ReadReceipts, TypeOK, Idle
      <3>4. CASE ReadAwards(c)
        BY <3>4 DEF ReadAwards, TypeOK, Idle
      <3>5. ASSUME NEW carryforward, Compute(c, carryforward),
                   closing[c] # Idle, attempted' = attempted
            PROVE  /\ DOMAIN closing' = Closers
                   /\ \A d \in Closers : d # c => closing'[d] = closing[d]
                   /\ \/ closing'[c] = Idle
                      \/ /\ closing'[c].pc = "store"
                         /\ closing'[c].month \in attempted'
        <4> DEFINE round == ComputeRound(closing[c].program, closing[c].month,
                                         closing[c].receipts,
                                         closing[c].awards, carryforward)
        <4>1. \/ closing' = [closing EXCEPT ![c] = Idle]
              \/ closing' = [closing EXCEPT ![c] =
                               [pc |-> "store", month |-> closing[c].month,
                                program |-> closing[c].program,
                                round |-> round,
                                pending |-> Payees(round)]]
          BY <3>5 DEF Compute, GiveUp
        <4> HIDE DEF round
        <4> QED
          BY <3>5, <4>1 DEF TypeOK
      <3>6. CASE ReadPrevious(c)
        <4>1. closing[c] # Idle /\ attempted' = attempted
          BY <3>6 DEF ReadPrevious, Idle
        <4>2. CASE closing' = [closing EXCEPT ![c].pc = "gap"]
          BY <4>1, <4>2 DEF TypeOK
        <4>3. CASE Compute(c, rounds[closing[c].month - 1].unallocated)
          BY <3>5, <4>1, <4>3
        <4> QED
          BY <3>6, <4>2, <4>3 DEF ReadPrevious
      <3>7. CASE ReadRounds(c)
        <4>1. closing[c] # Idle /\ attempted' = attempted
          BY <3>7 DEF ReadRounds, Idle
        <4>2. CASE GiveUp(c)
          BY <4>2 DEF GiveUp, TypeOK
        <4>3. CASE Compute(c, 0)
          BY <3>5, <4>1, <4>3
        <4> QED
          BY <3>7, <4>2, <4>3 DEF ReadRounds
      <3>8. CASE Fail(c)
        BY <3>8 DEF Fail, GiveUp, TypeOK
      <3> QED
        BY <1>1, <3>1, <3>2, <3>3, <3>4, <3>6, <3>7, <3>8 DEF ReadStep
    <2> QED
      BY <2>1, <2>2 DEF TypeOK
  <1>2. ASSUME NEW c \in Closers, StoreObligation(c) PROVE TypeOK'
    <2>1. PICK acct \in closing[c].pending :
            /\ obligations' =
                 IF Has(obligations, ObligationID(closing[c].month, acct))
                 THEN obligations
                 ELSE Put(obligations, ObligationID(closing[c].month, acct),
                          NewObligation(closing[c].program, closing[c].round,
                                        acct))
            /\ closing' = [closing EXCEPT
                             ![c].pending = closing[c].pending \ {acct}]
            /\ UNCHANGED <<rounds, attempted>>
      BY <1>2 DEF StoreObligation
    <2>2. closing[c].pc = "store" /\ closing[c] # Idle
      BY <1>2 DEF StoreObligation, Idle
    <2>3. acct \in Payees(closing[c].round)
      BY <2>1, <2>2 DEF CloserInv
    <2>4. \A id \in DOMAIN obligations' :
             /\ id[1] \in attempted
             /\ obligations'[id].amount > 0
             /\ obligations'[id].state \in {"earned", "owed", "initiated",
                                            "settled"}
      <3> DEFINE new == NewObligation(closing[c].program, closing[c].round, acct)
      <3>1. new.amount > 0 /\ new.state = "earned"
        BY <2>3, CreatedObligation
      <3>2. closing[c].month \in attempted
        BY <2>2 DEF TypeOK
      <3> HIDE DEF new
      <3>3. CASE obligations' = obligations
        BY <3>3 DEF TypeOK
      <3>4. CASE obligations' = Put(obligations,
                                    ObligationID(closing[c].month, acct), new)
        <4>1. SUFFICES ASSUME NEW id \in DOMAIN obligations'
                       PROVE  /\ id[1] \in attempted
                              /\ obligations'[id].amount > 0
                              /\ obligations'[id].state
                                   \in {"earned", "owed", "initiated", "settled"}
          OBVIOUS
        <4>2. CASE id = ObligationID(closing[c].month, acct)
          BY <3>1, <3>2, <3>4, <4>2 DEF Put, ObligationID
        <4>3. CASE id # ObligationID(closing[c].month, acct)
          BY <3>4, <4>1, <4>3 DEF Put, TypeOK
        <4> QED
          BY <4>2, <4>3
      <3> QED
        BY <2>1, <3>3, <3>4 DEF new
    <2>5. /\ DOMAIN closing' = Closers
          /\ \A d \in Closers : d # c => closing'[d] = closing[d]
          /\ closing'[c].pc = "store" /\ closing'[c].month = closing[c].month
      BY <2>1, <2>2 DEF TypeOK
    <2> QED
      BY <2>1, <2>2, <2>4, <2>5 DEF TypeOK
  <1>3. ASSUME NEW c \in Closers, CommitRound(c) PROVE TypeOK'
    <2>1. /\ closing[c] # Idle
          /\ closing[c].round.month = closing[c].month
      BY <1>3 DEF CommitRound, CloserInv, Idle
    <2>2. \A m \in DOMAIN rounds' : m \in attempted /\ rounds'[m].month = m
      BY <1>3, <2>1 DEF CommitRound, TypeOK, Put, Has
    <2> QED
      BY <1>3, <2>2 DEF CommitRound, GiveUp, TypeOK
  <1>4. ASSUME NEW r \in ReceiptDocs, ImportReceipt(r) PROVE TypeOK'
    BY <1>4 DEF ImportReceipt, TypeOK
  <1>5. ASSUME NEW id \in DOMAIN obligations, NEW to \in PayoutStates,
               Transition(id, to)
        PROVE  TypeOK'
    <2>1. to \in {"earned", "owed", "initiated", "settled"}
      BY <1>5 DEF Transition, LegalTransitions
    <2>2. \A i \in DOMAIN obligations' :
             /\ i[1] \in attempted
             /\ obligations'[i].amount > 0
             /\ obligations'[i].state \in {"earned", "owed", "initiated",
                                           "settled"}
      BY <1>5, <2>1 DEF Transition, TypeOK, Put, Has
    <2> QED
      BY <1>5, <2>2 DEF Transition, TypeOK
  <1>6. CASE UNCHANGED closeVars
    BY <1>6 DEF closeVars, TypeOK
  <1> QED
    BY <1>1, <1>2, <1>3, <1>4, <1>5, <1>6, NextCases

-----------------------------------------------------------------------------
(***************************************************************************)
(* The closer that moves: reads and Compute establish CloserInv, storing   *)
(* an obligation makes progress on it, everything else ends the close.     *)
(***************************************************************************)
LEMMA CloserInvPreserved ==
  ASSUME IInv, [Next]_vars, NEW d \in Closers
  PROVE  CloserInv(d)'
  <1> USE DEF IInv
  <1>1. CASE closing'[d] = closing[d]
    BY <1>1, OthersKeepCloserInv
  <1>2. ASSUME NEW c \in Closers, ReadStep(c), closing'[d] # closing[d]
        PROVE  CloserInv(d)'
    <2>1. UNCHANGED <<rounds, obligations>>
      BY <1>2 DEF ReadStep, StartClose, ReadProgram, ReadReceipts, ReadAwards,
                  ReadPrevious, ReadRounds, Fail
    <2>2. CASE closing'[d].pc # "store"
      BY <2>2 DEF CloserInv
    <2>3. CASE ReadPrevious(c) /\ closing'[d].pc = "store"
      <3>1. CASE closing' = [closing EXCEPT ![c].pc = "gap"]
        <4>1. closing[c] # Idle /\ closing'[c].pc = "gap"
          BY <2>3, <3>1 DEF ReadPrevious, Idle, TypeOK
        <4>2. d = c
          BY <1>2, <3>1 DEF TypeOK
        <4> QED BY <4>1, <4>2, <2>3
      <3>2. CASE /\ Has(rounds, closing[c].month - 1)
                 /\ Compute(c, rounds[closing[c].month - 1].unallocated)
        <4>1. d = c
          BY <1>2, <3>2 DEF Compute, GiveUp, TypeOK
        <4> QED
          BY <2>1, <3>2, <4>1, ComputeEstablishesCloserInv
      <3> QED
        BY <2>3, <3>1, <3>2 DEF ReadPrevious
    <2>4. CASE ReadRounds(c) /\ closing'[d].pc = "store"
      <3>1. CASE GiveUp(c)
        BY <1>2, <2>4, <3>1 DEF GiveUp, TypeOK, Idle
      <3>2. CASE Compute(c, 0)
        <4>1. d = c
          BY <1>2, <3>2 DEF Compute, GiveUp, TypeOK
        <4> QED
          BY <2>1, <3>2, <4>1, ComputeEstablishesCloserInv
      <3> QED
        BY <2>4, <3>1, <3>2 DEF ReadRounds
    <2>5. CASE /\ closing'[d].pc = "store"
               /\ \/ \E m \in Months, t \in Instants : StartClose(c, m, t)
                  \/ ReadProgram(c) \/ ReadReceipts(c) \/ ReadAwards(c)
                  \/ Fail(c)
      BY <1>2, <2>5 DEF StartClose, ReadProgram, ReadReceipts, ReadAwards, Fail,
                        GiveUp, TypeOK, Idle
    <2> QED
      BY <1>2, <2>2, <2>3, <2>4, <2>5 DEF ReadStep
  <1>3. ASSUME NEW c \in Closers, StoreObligation(c), closing'[d] # closing[d]
        PROVE  CloserInv(d)'
    <2>1. PICK acct \in closing[c].pending :
            /\ obligations' =
                 IF Has(obligations, ObligationID(closing[c].month, acct))
                 THEN obligations
                 ELSE Put(obligations, ObligationID(closing[c].month, acct),
                          NewObligation(closing[c].program, closing[c].round,
                                        acct))
            /\ closing' = [closing EXCEPT
                             ![c].pending = closing[c].pending \ {acct}]
            /\ UNCHANGED rounds
      BY <1>3 DEF StoreObligation
    <2>2. /\ d = c
          /\ closing[c].pc = "store"
          /\ CloserInv(c)
      BY <1>3, <2>1 DEF StoreObligation, TypeOK
    <2>3. /\ closing'[c].pending = closing[c].pending \ {acct}
          /\ closing'[c].month = closing[c].month
          /\ closing'[c].round = closing[c].round
      BY <2>1, <2>2 DEF TypeOK
    <2>4. Has(obligations', ObligationID(closing[c].month, acct))
      BY <2>1 DEF Has, Put
    <2>5. ObligationsKept
      BY ObligationsGrow
    <2> QED
      BY <2>1, <2>2, <2>3, <2>4, <2>5 DEF CloserInv, ObligationsKept, Has
  <1>4. ASSUME NEW c \in Closers, CommitRound(c), closing'[d] # closing[d]
        PROVE  CloserInv(d)'
    <2>1. closing'[d] = Idle
      BY <1>4 DEF CommitRound, GiveUp, TypeOK
    <2> QED
      BY <2>1 DEF CloserInv, Idle
  <1>5. CASE \/ \E r \in ReceiptDocs : ImportReceipt(r)
             \/ \E id \in DOMAIN obligations, to \in PayoutStates :
                  Transition(id, to)
             \/ UNCHANGED closeVars
    <2>1. closing' = closing
      BY <1>5 DEF ImportReceipt, Transition, closeVars
    <2> QED
      BY <1>1, <2>1
  <1> QED
    BY <1>1, <1>2, <1>3, <1>4, <1>5, NextCases

(***************************************************************************)
(* The commit is the only step that can disturb the two invariants about   *)
(* stored rounds, and CloserInv is what the committing closer brings along.*)
(***************************************************************************)
LEMMA StoredRoundsPreserved ==
  ASSUME IInv, [Next]_vars
  PROVE  ObligationsBackRound' /\ CarryIsPredecessors'
  <1>1. RoundsKept /\ ObligationsKept
    BY RoundsGrow, ObligationsGrow
  <1>2. CASE rounds' = rounds
    BY <1>1, <1>2 DEF IInv, ObligationsBackRound, CarryIsPredecessors,
                      ObligationsKept, Has
  <1>3. ASSUME NEW c \in Closers, CommitRound(c), rounds' # rounds
        PROVE  ObligationsBackRound' /\ CarryIsPredecessors'
    <2> DEFINE m == closing[c].month
               r == closing[c].round
    <2>1. /\ rounds' = Put(rounds, m, r)
          /\ obligations' = obligations
          /\ closing[c].pc = "store" /\ closing[c].pending = {}
      BY <1>3 DEF CommitRound
    <2>2. CloserInv(c)
      BY DEF IInv
    <2>3. \A acct \in Payees(r) : Has(obligations, ObligationID(m, acct))
      BY <2>1, <2>2 DEF CloserInv
    <2>4. r.carry # 0 => /\ Has(rounds, m - 1)
                         /\ r.carry = rounds[m - 1].unallocated
      BY <2>1, <2>2 DEF CloserInv
    <2>5. DOMAIN rounds' = DOMAIN rounds \cup {m} /\ rounds'[m] = r
      BY <2>1 DEF Put
    <2> HIDE DEF m, r
    <2>6. ObligationsBackRound'
      BY <1>1, <2>1, <2>3, <2>5
         DEF IInv, ObligationsBackRound, RoundsKept, Has
    <2>7. CarryIsPredecessors'
      BY <1>1, <2>4, <2>5 DEF IInv, CarryIsPredecessors, RoundsKept, Has
    <2> QED
      BY <2>6, <2>7
  <1>4. ASSUME NEW c \in Closers, ReadStep(c) PROVE rounds' = rounds
    BY <1>4 DEF ReadStep, StartClose, ReadProgram, ReadReceipts, ReadAwards,
                ReadPrevious, ReadRounds, Fail
  <1>5. CASE \/ \E c \in Closers : StoreObligation(c)
             \/ \E s \in ReceiptDocs : ImportReceipt(s)
             \/ \E id \in DOMAIN obligations, to \in PayoutStates :
                  Transition(id, to)
             \/ UNCHANGED closeVars
    <2>1. rounds' = rounds
      BY <1>5 DEF StoreObligation, ImportReceipt, Transition, closeVars
    <2> QED BY <1>2, <2>1
  <1> QED
    BY <1>2, <1>3, <1>4, <1>5, NextCases

-----------------------------------------------------------------------------
(***************************************************************************)
(* The inductive invariant holds throughout; the theorems below are read   *)
(* off it.                                                                 *)
(***************************************************************************)
LEMMA Invariance == Spec => []IInv
  <1>1. IInv /\ [Next]_vars => IInv'
    BY TypeOKPreserved, CloserInvPreserved, StoredRoundsPreserved DEF IInv
  <1> QED
    BY InitIInv, <1>1, PTL DEF Spec

(***************************************************************************)
(* Only months somebody started to close have rounds or obligations, and   *)
(* every stored obligation has a positive amount and a payable state.      *)
(***************************************************************************)
THEOREM TypeCorrect == Spec => []TypeOK
  <1>1. IInv => TypeOK
    BY DEF IInv
  <1> QED BY Invariance, <1>1, PTL

(***************************************************************************)
(* CreateRound is a commit point: a stored round has all its obligations,  *)
(* after any number of failed, repeated and concurrent CloseRound calls.   *)
(***************************************************************************)
THEOREM RoundsAreBacked == Spec => []ObligationsBackRound
  <1>1. IInv => ObligationsBackRound
    BY DEF IInv
  <1> QED BY Invariance, <1>1, PTL

\* What is said of a closer of the next month in HandedOn.
CarriesOn(c, m) ==
  closing[c].pc \in {"gap", "store"} /\ closing[c].month = m + 1
    => closing[c].pc = "store" /\ closing[c].round.carry = rounds[m].unallocated

\* The next month's closers that look at a stored round carry its balance.
LEMMA ComputeCarries ==
  ASSUME NEW c \in Closers, DOMAIN closing = Closers, NEW x, Compute(c, x),
         closing'[c].pc \in {"gap", "store"}
  PROVE  /\ closing'[c].pc = "store" /\ closing'[c].round.carry = x
         /\ closing'[c].month = closing[c].month
  <1>1. closing'[c].pc # "gap" /\ closing'[c] # Idle
    BY DEF Compute, GiveUp, Idle
  <1> QED BY <1>1, ComputedRound DEF Compute, GiveUp, Idle

\* No step makes the next month forget the balance of a stored round.
LEMMA CarriesOnKept ==
  ASSUME IInv, [Next]_vars, NEW m \in Months, HandedOn(m), NEW d \in Closers
  PROVE  CarriesOn(d, m)'
  <1>1. /\ Has(rounds, m) /\ CarriesOn(d, m) /\ m \in Int
        /\ Has(rounds', m) /\ rounds'[m] = rounds[m]
    BY MonthsAssumption, RoundsGrow DEF HandedOn, CarriesOn, RoundsKept, Has
  <1>2. CASE closing'[d] = closing[d]
    BY <1>1, <1>2 DEF CarriesOn
  <1>3. DOMAIN closing = Closers
    BY DEF IInv, TypeOK
  <1>4. ASSUME NEW c \in Closers, ReadStep(c), closing'[d] # closing[d],
               closing'[d].pc \in {"gap", "store"}, closing'[d].month = m + 1
        PROVE  closing'[d].pc = "store" /\ closing'[d].round.carry = rounds[m].unallocated
    <2>1. ReadPrevious(c) \/ ReadRounds(c)
      BY <1>3, <1>4 DEF ReadStep, StartClose, ReadProgram, ReadReceipts, ReadAwards,
                        Fail, GiveUp, Idle
    <2>2. d = c /\ closing[c].pc \in {"carry", "gap"}
      BY <1>3, <1>4, <2>1 DEF ReadPrevious, ReadRounds, Compute, GiveUp
    <2>3. closing[c].month \in Months
      BY <2>2 DEF IInv, TypeOK, Idle
    <2>4. closing'[c].month = closing[c].month
      <3>1. CASE closing' = [closing EXCEPT ![c].pc = "gap"]
        BY <1>3, <2>2, <3>1
      <3>2. CASE \E x : Compute(c, x)
        BY <1>3, <1>4, <2>2, <3>2, ComputeCarries
      <3>3. CASE GiveUp(c)
        BY <1>3, <1>4, <2>2, <3>3 DEF GiveUp, Idle
      <3> QED BY <2>1, <3>1, <3>2, <3>3 DEF ReadPrevious, ReadRounds
    <2>5. closing[c].month - 1 = m
      BY <1>1, <1>4, <2>2, <2>3, <2>4, MonthsAssumption
    <2>6. ~ReadRounds(c)
      BY <1>1, <1>4, <2>2, <2>4, <2>5 DEF ReadRounds, CarriesOn
    <2>7. Compute(c, rounds[m].unallocated)
      BY <1>1, <2>1, <2>5, <2>6 DEF ReadPrevious
    <2> QED BY <1>3, <1>4, <2>2, <2>7, ComputeCarries
  <1>5. ASSUME NEW c \in Closers, StoreObligation(c), closing'[d] # closing[d]
        PROVE  /\ d = c /\ closing[d].pc = "store" /\ closing'[d].pc = "store"
               /\ closing'[d].month = closing[d].month
               /\ closing'[d].round = closing[d].round
    BY <1>3, <1>5 DEF StoreObligation
  <1>6. ASSUME NEW c \in Closers, CommitRound(c), closing'[d] # closing[d]
        PROVE  closing'[d] = Idle
    BY <1>3, <1>6 DEF CommitRound, GiveUp
  <1>7. CASE \/ \E r \in ReceiptDocs : ImportReceipt(r)
             \/ \E id \in DOMAIN obligations, to \in PayoutStates :
                  Transition(id, to)
             \/ UNCHANGED closeVars
    BY <1>2, <1>7 DEF ImportReceipt, Transition, closeVars
  <1>8. CASE \E c \in Closers : ReadStep(c)
    BY <1>1, <1>2, <1>4, <1>8 DEF CarriesOn
  <1>9. CASE \E c \in Closers : StoreObligation(c)
    BY <1>1, <1>2, <1>5, <1>9 DEF CarriesOn
  <1>10. CASE \E c \in Closers : CommitRound(c)
    BY <1>2, <1>6, <1>10 DEF CarriesOn, Idle
  <1> QED
    BY <1>7, <1>8, <1>9, <1>10, NextCases

\* The round of the next month, if this step stores it, carries the balance.
LEMMA TakenKept ==
  ASSUME IInv, [Next]_vars, NEW m \in Months, HandedOn(m), Has(rounds', m + 1)
  PROVE  Taken(m)'
  <1>1. Has(rounds, m) /\ Has(rounds', m) /\ rounds'[m] = rounds[m] /\ m \in Int
    BY MonthsAssumption, RoundsGrow DEF HandedOn, RoundsKept, Has
  <1>2. CASE Has(rounds, m + 1)
    BY <1>1, <1>2, RoundsGrow DEF HandedOn, Taken, RoundsKept, Has
  <1>3. CASE ~Has(rounds, m + 1)
    <2>1. rounds' # rounds
      BY <1>3 DEF Has
    <2>2. PICK c \in Closers : CommitRound(c)
      BY <2>1, NextCases DEF ReadStep, StartClose, ReadProgram, ReadReceipts, ReadAwards,
                             ReadPrevious, ReadRounds, Fail, StoreObligation,
                             ImportReceipt, Transition, closeVars
    <2>3. /\ closing[c].pc = "store"
          /\ rounds' = Put(rounds, closing[c].month, closing[c].round)
      BY <2>1, <2>2 DEF CommitRound
    <2>4. closing[c].month = m + 1 /\ rounds'[m + 1] = closing[c].round
      BY <1>3, <2>3 DEF Put, Has
    <2>5. closing[c].round.carry = rounds[m].unallocated
      BY <2>3, <2>4 DEF HandedOn
    <2> QED BY <1>1, <2>4, <2>5 DEF Taken
  <1> QED BY <1>2, <1>3

(***************************************************************************)
(* Balances are carried whole and nothing else is: a carryforward that is  *)
(* not zero is the balance of the preceding closed round, and the balance  *)
(* of a round stored before anybody began to close the next month goes     *)
(* into the next round, although it is read several store calls before     *)
(* that round is stored.                                                   *)
(***************************************************************************)
THEOREM CarryIsJustified == Spec => BalancesAreCarried
  <1>1. IInv => CarryIsPredecessors
    BY DEF IInv
  <1>2. ASSUME IInv, NEW m \in DOMAIN rounds, m + 1 \notin attempted
        PROVE  HandedOn(m)
    <2>1. ~Has(rounds, m + 1)
      BY <1>2 DEF IInv, TypeOK, Has
    <2>2. ASSUME NEW c \in Closers, closing[c].pc \in {"gap", "store"}
          PROVE  closing[c].month # m + 1
      BY <1>2, <2>2 DEF IInv, TypeOK, Idle
    <2> QED BY <2>1, <2>2 DEF HandedOn, Has
  <1>3. IInv /\ [Next]_vars
          => [\A m \in Months : HandedOn(m) => HandedOn(m)']_<<rounds, closing>>
    <2> SUFFICES ASSUME IInv, [Next]_vars, NEW m \in Months, HandedOn(m)
                 PROVE  HandedOn(m)'
      OBVIOUS
    <2>1. Has(rounds', m)
      BY RoundsGrow DEF HandedOn, RoundsKept, Has
    <2>2. Has(rounds', m + 1) => Taken(m)'
      BY TakenKept
    <2>3. \A d \in Closers : CarriesOn(d, m)'
      BY CarriesOnKept
    <2> QED BY <2>1, <2>2, <2>3 DEF HandedOn, CarriesOn
  <1>4. IInv => /\ CarryIsPredecessors
                /\ \A m \in DOMAIN rounds : m + 1 \notin attempted => HandedOn(m)
    BY <1>1, <1>2
  <1> QED BY Invariance, <1>3, <1>4, PTL DEF Spec, BalancesAreCarried

-----------------------------------------------------------------------------
(***************************************************************************)
(* The stores of the administrative side: programs and awards are kept     *)
(* under their own IDs, every program is one that was published, and a     *)
(* DecideAward command works on a copy that differs from the stored award  *)
(* in nothing but the status.                                              *)
(***************************************************************************)
StoredProgram(p) ==
  \E q \in Policies : /\ p.version = q.version
                      /\ p.effectiveFrom = q.effectiveFrom
                      /\ p.duration = q.duration

ProgramsInv ==
  \A v \in DOMAIN programs : programs[v].version = v /\ StoredProgram(programs[v])

SameTerms(a, b) == [a EXCEPT !.status = "any"] = [b EXCEPT !.status = "any"]

CopyInv(w) ==
  review[w].pc = "decide" =>
    /\ Has(awards, review[w].award.id)
    /\ AwardFields \subseteq DOMAIN review[w].award
    /\ SameTerms(review[w].award, awards[review[w].award.id])
    /\ review[w].decision \in {"approved", "rejected"}

AwardsInv ==
  /\ \A id \in DOMAIN awards :
       AwardFields \subseteq DOMAIN awards[id] /\ awards[id].id = id
  /\ DOMAIN review = Reviewers
  /\ \A w \in Reviewers : CopyInv(w)

\* What a proposal has read is still so.
ProposalInv(w) ==
  /\ review[w].pc \in {"resolve", "create"} =>
       LET p == review[w].program
       IN  /\ Has(programs, p.version) /\ StoredProgram(p)
           /\ review[w].req \in Requests
           /\ p.effectiveFrom <= review[w].req.activation
  /\ review[w].pc = "create" =>
       Range(review[w].recipients) \subseteq DOMAIN participants

TermsInv ==
  /\ ProgramsInv /\ AwardsInv /\ TermsComeFromPolicy
  /\ \A w \in Reviewers : ProposalInv(w)

-----------------------------------------------------------------------------
(***************************************************************************)
(* Closing under the discipline.  What a month's inputs amount to, once it *)
(* is attempted.                                                           *)
(***************************************************************************)
MonthReceipts(m) == {r \in Docs(receipts) : r.month = m}
Weighing(m) == ActiveAwards(Docs(awards), m)
CarryInto(m) == IF Has(rounds, m - 1) THEN rounds[m - 1].unallocated ELSE 0

\* The round that the inputs of month m amount to under program p.
Due(m, p) == ComputeRound(p, m, MonthReceipts(m), Weighing(m), CarryInto(m))

\* carryforward's check: the month before is closed, or none before m is.
NoGap(m) == Has(rounds, m - 1) \/ \A k \in DOMAIN rounds : k >= m

\* A CloseRound has read nothing but the frozen inputs.
StageInv(c) ==
  LET l == closing[c]
  IN  /\ l.pc \in {"receipts", "awards", "carry", "gap", "store"} =>
           l.program \in ProgramsFor(l.month)
      /\ l.pc \in {"awards", "carry", "gap"} =>
           l.receipts = MonthReceipts(l.month)
      /\ l.pc \in {"carry", "gap"} =>
           ActiveAwards(l.awards, l.month) = Weighing(l.month)
      /\ l.pc = "store" =>
           l.round = Due(l.month, l.program) /\ NoGap(l.month)

\* An obligation belongs to the round its month has or will have, and is not
\* paid before that round is there.
ObligationInv(id) ==
  /\ id = <<id[1], id[2]>>
  /\ DOMAIN obligations[id] = {"amount", "due", "state"}
  /\ \A p \in ProgramsFor(id[1]) :
       /\ id[2] \in Payees(Due(id[1], p))
       /\ obligations[id].amount = Due(id[1], p).ents[id[2]].amount
  /\ ~Has(rounds, id[1]) => obligations[id].state = "earned"

-----------------------------------------------------------------------------
(***************************************************************************)
(* The administrative commands.  Every step of the ledger is a step of     *)
(* AwardReview or leaves its stores alone.                                 *)
(***************************************************************************)
LEMMA NextIsReview ==
  ASSUME [Next]_vars
  PROVE  [ReviewNext]_reviewVars
  BY DEF Next, AdminStep, ReviewNext, vars, reviewVars

\* The documents of a collection are its values.
LEMMA DocsFacts ==
  ASSUME NEW coll
  PROVE  \A d : d \in Docs(coll) <=> \E k \in DOMAIN coll : coll[k] = d
  BY DEF Docs, Range

\* What SetProgram stores is the published program but for the pinned
\* calculation.
LEMMA PinnedProgram ==
  ASSUME NEW doc \in ProgramDocs
  PROVE  LET p == [doc EXCEPT !.calculation = CalculationVersion]
         IN  /\ doc \in Policies
             /\ p.version = doc.version
             /\ p.effectiveFrom = doc.effectiveFrom
             /\ p.duration = doc.duration
             /\ p.effectiveFrom \in Int
  <1>1. doc \in Policies
    BY DEF Policies
  <1>2. ProgramFields \subseteq DOMAIN doc /\ doc.effectiveFrom \in Int
    BY <1>1, ReviewAssumption
  <1>3. /\ "version" \in DOMAIN doc /\ "effectiveFrom" \in DOMAIN doc
        /\ "duration" \in DOMAIN doc
    BY <1>2 DEF ProgramFields
  <1> QED BY <1>1, <1>2, <1>3

\* A program store changes in SetProgram only.
LEMMA ProgramSteps ==
  ASSUME [ReviewNext]_reviewVars
  PROVE  \/ programs' = programs
         \/ \E doc \in ProgramDocs : SetProgram(doc)
  BY DEF ReviewNext, ReviewStep, reviewVars, CreateParticipant, SetParticipant,
         ProposeReadProgram, ProposeResolve, ProposeCreate, DecideRead,
         DecideSet, Abort

\* The programs stored at the start are under their own versions.
LEMMA InitProgramsInv ==
  ASSUME ReviewInit
  PROVE  ProgramsInv
  <1>1. programs = InitPrograms
    BY DEF ReviewInit
  <1>2. ASSUME NEW v \in DOMAIN programs
        PROVE  programs[v].version = v /\ StoredProgram(programs[v])
    <2>1. programs[v] \in Policies
      BY <1>1, <1>2, DocsFacts DEF Policies
    <2> QED BY <1>1, <1>2, <2>1, ReviewAssumption DEF StoredProgram
  <1> QED BY <1>2 DEF ProgramsInv

\* SetProgram stores what was published, under its version.
LEMMA ProgramsPreserved ==
  ASSUME ProgramsInv, [ReviewNext]_reviewVars
  PROVE  ProgramsInv'
  <1>1. CASE programs' = programs
    BY <1>1 DEF ProgramsInv, StoredProgram
  <1>2. ASSUME NEW doc \in ProgramDocs, SetProgram(doc) PROVE ProgramsInv'
    <2>1. PICK p : /\ p = [doc EXCEPT !.calculation = CalculationVersion]
                   /\ programs' = Put(programs, p.version, p)
      BY <1>2 DEF SetProgram
    <2>2. StoredProgram(p)
      BY <2>1, PinnedProgram DEF StoredProgram
    <2>3. ASSUME NEW v \in DOMAIN programs'
          PROVE  programs'[v].version = v /\ StoredProgram(programs'[v])
      <3>1. CASE v = p.version
        BY <2>1, <2>2, <3>1 DEF Put
      <3>2. CASE v # p.version
        <4>1. v \in DOMAIN programs /\ programs'[v] = programs[v]
          BY <2>1, <2>3, <3>2 DEF Put
        <4> QED BY <4>1 DEF ProgramsInv
      <3> QED BY <3>1, <3>2
    <2> QED BY <2>3 DEF ProgramsInv, StoredProgram
  <1> QED BY <1>1, <1>2, ProgramSteps

\* With immutable policies the program of a month is unique, though
\* ProgramFor returns any of the latest.
LEMMA ProgramIsUnique ==
  ASSUME ProgramsInv, PoliciesAreImmutable, NEW m,
         NEW p \in ProgramsFor(m), NEW q \in ProgramsFor(m)
  PROVE  p = q
  <1>1. /\ p \in Docs(programs) /\ q \in Docs(programs)
        /\ p.effectiveFrom <= q.effectiveFrom
        /\ q.effectiveFrom <= p.effectiveFrom
    BY DEF ProgramsFor, Effective
  <1>2. PICK v \in DOMAIN programs : programs[v] = p
    BY <1>1, DocsFacts
  <1>3. PICK u \in DOMAIN programs : programs[u] = q
    BY <1>1, DocsFacts
  <1>4. PICK pp \in Policies : /\ p.version = pp.version
                               /\ p.effectiveFrom = pp.effectiveFrom
    BY <1>2 DEF ProgramsInv, StoredProgram
  <1>5. PICK qq \in Policies : /\ q.version = qq.version
                               /\ q.effectiveFrom = qq.effectiveFrom
    BY <1>3 DEF ProgramsInv, StoredProgram
  <1>6. pp.effectiveFrom \in Int /\ qq.effectiveFrom \in Int
    BY ReviewAssumption
  <1>7. pp.effectiveFrom = qq.effectiveFrom
    BY <1>1, <1>4, <1>5, <1>6
  <1>8. pp.version = qq.version
    BY <1>7 DEF PoliciesAreImmutable
  <1> QED BY <1>2, <1>3, <1>4, <1>5, <1>8 DEF ProgramsInv

-----------------------------------------------------------------------------
\* SameTerms, field by field.
LEMMA SameFields ==
  ASSUME NEW a, NEW b, SameTerms(a, b), AwardFields \subseteq DOMAIN a,
         AwardFields \subseteq DOMAIN b
  PROVE  /\ a.id = b.id /\ a.splits = b.splits /\ a.version = b.version
         /\ a.activation = b.activation /\ a.expiration = b.expiration
  <1>1. PICK x : x = [a EXCEPT !.status = "any"]
    OBVIOUS
  <1>2. x = [b EXCEPT !.status = "any"]
    BY <1>1 DEF SameTerms
  <1>3. /\ {"id", "splits", "activation", "expiration", "version"} \subseteq DOMAIN a
        /\ {"id", "splits", "activation", "expiration", "version"} \subseteq DOMAIN b
    BY DEF AwardFields
  <1>4. /\ x.id = a.id /\ x.splits = a.splits /\ x.version = a.version
        /\ x.activation = a.activation /\ x.expiration = a.expiration
    BY <1>1, <1>3
  <1>5. /\ x.id = b.id /\ x.splits = b.splits /\ x.version = b.version
        /\ x.activation = b.activation /\ x.expiration = b.expiration
    BY <1>2, <1>3
  <1> QED BY <1>4, <1>5

\* An award store changes when a proposal is stored or a decision is.
LEMMA AwardSteps ==
  ASSUME [ReviewNext]_reviewVars
  PROVE  \/ awards' = awards
         \/ \E w \in Reviewers : ProposeCreate(w)
         \/ \E w \in Reviewers : DecideSet(w)
  BY DEF ReviewNext, ReviewStep, reviewVars, CreateParticipant, SetParticipant,
         SetProgram, ProposeReadProgram, ProposeResolve, DecideRead, Abort

\* The two writes: a proposal under a fresh ID, or the decided copy over the
\* award it is a copy of.
LEMMA ProposalStored ==
  ASSUME NEW w \in Reviewers, ProposeCreate(w)
  PROVE  \/ awards' = awards
         \/ \E id, doc : /\ ~Has(awards, id) /\ awards' = Put(awards, id, doc)
                         /\ doc = ProposedAward(id, review[w].req,
                                    review[w].program, review[w].recipients)
                         /\ id \in AwardIDs
                         /\ IsInjective(review[w].recipients)
  BY DEF ProposeCreate, Has

\* The fields of the award a proposal turns into.
LEMMA ProposedFields ==
  ASSUME NEW id, NEW req, NEW p, NEW f
  PROVE  LET a == ProposedAward(id, req, p, f)
         IN  /\ AwardFields \subseteq DOMAIN a /\ a.id = id
             /\ a.status = "proposed" /\ a.version = p.version
             /\ a.activation = req.activation
             /\ a.expiration = ExpirationMonth(p, req.activation)
             /\ DOMAIN a.splits = Range(f)
  BY DEF ProposedAward, AwardFields

\* SetAward writes the decided copy over the award it is a copy of.
LEMMA DecisionStored ==
  ASSUME AwardsInv, NEW w \in Reviewers, DecideSet(w)
  PROVE  \E id, d : /\ Has(awards, id) /\ awards' = Put(awards, id, d)
                    /\ SameTerms(d, awards[id]) /\ d.id = id
                    /\ AwardFields \subseteq DOMAIN d
                    /\ d.status \in {"approved", "rejected"}
                    /\ d.activation = awards[id].activation
                    /\ d.expiration = awards[id].expiration
  <1>1. PICK a, id, decision :
          /\ a = review[w].award /\ id = a.id /\ decision = review[w].decision
          /\ awards' = Put(awards, id, [a EXCEPT !.status = decision])
    BY DEF DecideSet
  <1>2. /\ Has(awards, id) /\ AwardFields \subseteq DOMAIN a
        /\ SameTerms(a, awards[id]) /\ decision \in {"approved", "rejected"}
    BY <1>1 DEF AwardsInv, CopyInv, DecideSet
  <1>3. PICK b : b = awards[id]
    OBVIOUS
  <1>4. AwardFields \subseteq DOMAIN b
    BY <1>2, <1>3 DEF AwardsInv, Has
  <1>5. PICK d : d = [a EXCEPT !.status = decision]
    OBVIOUS
  <1>6. /\ SameTerms(d, b) /\ AwardFields \subseteq DOMAIN d
        /\ d.status = decision /\ d.id = a.id
        /\ d.activation = b.activation /\ d.expiration = b.expiration
    <2>1. DOMAIN d = DOMAIN a /\ "status" \in DOMAIN a
      BY <1>2, <1>5 DEF AwardFields
    <2>2. d.status = decision
      BY <1>5, <2>1
    <2>3. [d EXCEPT !.status = "any"] = [a EXCEPT !.status = "any"]
      BY <1>5, <2>1
    <2>4. SameTerms(d, b) /\ SameTerms(d, a)
      BY <1>2, <1>3, <2>3 DEF SameTerms
    <2>5. AwardFields \subseteq DOMAIN d
      BY <1>2, <2>1
    <2>6. d.id = a.id
      BY <1>2, <2>4, <2>5, SameFields
    <2>7. d.activation = b.activation /\ d.expiration = b.expiration
      BY <1>4, <2>4, <2>5, SameFields
    <2> QED BY <2>2, <2>4, <2>5, <2>6, <2>7
  <1> QED BY <1>1, <1>2, <1>3, <1>5, <1>6

\* Every step keeps the stored awards up to their status.
AwardsKept ==
  \A id \in DOMAIN awards : /\ id \in DOMAIN awards'
                            /\ SameTerms(awards'[id], awards[id])

\* Whichever copy a decision writes back, the terms stay.
LEMMA AwardsGrow ==
  ASSUME AwardsInv, [ReviewNext]_reviewVars
  PROVE  AwardsKept
  <1>1. CASE awards' = awards
    BY <1>1 DEF AwardsKept, SameTerms
  <1>2. ASSUME NEW w \in Reviewers, ProposeCreate(w) PROVE AwardsKept
    <2>1. CASE awards' = awards
      BY <2>1, <1>1
    <2>2. CASE awards' # awards
      <3>1. PICK id, doc : ~Has(awards, id) /\ awards' = Put(awards, id, doc)
        BY <1>2, <2>2, ProposalStored
      <3> QED BY <3>1 DEF AwardsKept, SameTerms, Put, Has
    <2> QED BY <2>1, <2>2
  <1>3. ASSUME NEW w \in Reviewers, DecideSet(w) PROVE AwardsKept
    <2>1. PICK id, d : /\ Has(awards, id) /\ awards' = Put(awards, id, d)
                       /\ SameTerms(d, awards[id])
      BY <1>3, DecisionStored
    <2>2. ASSUME NEW k \in DOMAIN awards
          PROVE  k \in DOMAIN awards' /\ SameTerms(awards'[k], awards[k])
      <3>1. CASE k = id
        BY <2>1, <3>1 DEF Put
      <3>2. CASE k # id
        <4>1. k \in DOMAIN awards' /\ awards'[k] = awards[k]
          BY <2>1, <3>2 DEF Put
        <4> QED BY <4>1 DEF SameTerms
      <3> QED BY <3>1, <3>2
    <2> QED BY <2>2 DEF AwardsKept
  <1> QED BY <1>1, <1>2, <1>3, AwardSteps

\* No command is running at first.
LEMMA InitAwardsInv ==
  ASSUME ReviewInit
  PROVE  AwardsInv
  <1>1. awards = InitAwards /\ review = [w \in Reviewers |-> Idle]
    BY DEF ReviewInit
  <1>2. \A id \in DOMAIN awards :
          AwardFields \subseteq DOMAIN awards[id] /\ awards[id].id = id
    BY <1>1, ReviewAssumption
  <1>3. \A w \in Reviewers : CopyInv(w)
    BY <1>1 DEF CopyInv, Idle
  <1> QED BY <1>1, <1>2, <1>3 DEF AwardsInv

\* Only DecideRead leaves a copy to be written back.
LEMMA CopySteps ==
  ASSUME AwardsInv, [ReviewNext]_reviewVars, NEW w \in Reviewers
  PROVE  /\ DOMAIN review' = Reviewers
         /\ \/ review'[w] = review[w]
            \/ review'[w].pc # "decide"
            \/ \E id \in DOMAIN awards :
                 /\ review'[w].award = awards[id]
                 /\ review'[w].decision \in {"approved", "rejected"}
                 /\ awards' = awards
                 /\ awards[id].status = "proposed"
  <1> DEFINE Goal == /\ DOMAIN review' = Reviewers
                     /\ \/ review'[w] = review[w]
                        \/ review'[w].pc # "decide"
                        \/ \E id \in DOMAIN awards :
                             /\ review'[w].award = awards[id]
                             /\ review'[w].decision \in {"approved", "rejected"}
                             /\ awards' = awards
                             /\ awards[id].status = "proposed"
  <1>1. CASE review' = review
    BY <1>1 DEF AwardsInv
  <1>2. ASSUME NEW x \in Reviewers, ReviewStep(x) PROVE Goal
    <2>1. ASSUME NEW req \in Requests, ProposeReadProgram(x, req) PROVE Goal
      BY <2>1 DEF ProposeReadProgram, AwardsInv
    <2>2. CASE ProposeResolve(x)
      BY <2>2 DEF ProposeResolve, AwardsInv, Idle
    <2>3. CASE ProposeCreate(x)
      BY <2>3 DEF ProposeCreate, AwardsInv, Idle
    <2>4. ASSUME NEW id \in AwardIDs, NEW approve \in BOOLEAN,
                 DecideRead(x, id, approve)
          PROVE  Goal
      BY <2>4 DEF DecideRead, AwardsInv, Has
    <2>5. CASE DecideSet(x)
      BY <2>5 DEF DecideSet, AwardsInv, Idle
    <2>6. CASE Abort(x)
      BY <2>6 DEF Abort, AwardsInv, Idle
    <2> QED BY <1>2, <2>1, <2>2, <2>3, <2>4, <2>5, <2>6 DEF ReviewStep
  <1>3. CASE \/ \E p \in ProgramDocs : SetProgram(p)
             \/ \E p \in Participants : CreateParticipant(p) \/ SetParticipant(p)
             \/ UNCHANGED reviewVars
    <2>1. review' = review
      BY <1>3 DEF SetProgram, CreateParticipant, SetParticipant, reviewVars
    <2> QED BY <1>1, <2>1
  <1> QED BY <1>2, <1>3 DEF ReviewNext

\* Awards stay under their own IDs, copies stay copies.
LEMMA AwardsPreserved ==
  ASSUME AwardsInv, [ReviewNext]_reviewVars
  PROVE  AwardsInv'
  <1>1. \A id \in DOMAIN awards' :
          AwardFields \subseteq DOMAIN awards'[id] /\ awards'[id].id = id
    <2>1. CASE awards' = awards
      BY <2>1 DEF AwardsInv
    <2>2. ASSUME NEW i, NEW d, awards' = Put(awards, i, d),
                 AwardFields \subseteq DOMAIN d, d.id = i,
                 NEW id \in DOMAIN awards'
          PROVE  AwardFields \subseteq DOMAIN awards'[id] /\ awards'[id].id = id
      <3>1. CASE id = i
        BY <2>2, <3>1 DEF Put
      <3>2. CASE id # i
        <4>1. id \in DOMAIN awards /\ awards'[id] = awards[id]
          BY <2>2, <3>2 DEF Put
        <4> QED BY <4>1 DEF AwardsInv
      <3> QED BY <3>1, <3>2
    <2>3. ASSUME NEW w \in Reviewers, ProposeCreate(w), awards' # awards
          PROVE  \E i, d : /\ awards' = Put(awards, i, d)
                           /\ AwardFields \subseteq DOMAIN d /\ d.id = i
      BY <2>3, ProposalStored, ProposedFields
    <2>4. ASSUME NEW w \in Reviewers, DecideSet(w)
          PROVE  \E i, d : /\ awards' = Put(awards, i, d)
                           /\ AwardFields \subseteq DOMAIN d /\ d.id = i
      BY <2>4, DecisionStored
    <2> QED BY <2>1, <2>2, <2>3, <2>4, AwardSteps
  <1>2. DOMAIN review' = Reviewers \/ Reviewers = {}
    BY CopySteps
  <1>3. AwardsKept
    BY AwardsGrow
  <1>4. ASSUME NEW w \in Reviewers PROVE CopyInv(w)'
    <2>1. CASE review'[w] = review[w]
      <3>1. CASE review[w].pc = "decide"
        <4>1. PICK a : a = review[w].award
          OBVIOUS
        <4>2. /\ Has(awards, a.id) /\ AwardFields \subseteq DOMAIN a
              /\ SameTerms(a, awards[a.id])
              /\ review[w].decision \in {"approved", "rejected"}
          BY <3>1, <4>1 DEF AwardsInv, CopyInv
        <4>3. Has(awards', a.id) /\ SameTerms(a, awards'[a.id])
          BY <1>3, <4>2 DEF AwardsKept, SameTerms, Has
        <4> QED BY <2>1, <4>1, <4>2, <4>3 DEF CopyInv
      <3>2. CASE review[w].pc # "decide"
        BY <2>1, <3>2 DEF CopyInv
      <3> QED BY <3>1, <3>2
    <2>2. CASE review'[w].pc # "decide"
      BY <2>2 DEF CopyInv
    <2>3. ASSUME NEW id \in DOMAIN awards, review'[w].award = awards[id],
                 review'[w].decision \in {"approved", "rejected"},
                 awards' = awards
          PROVE  CopyInv(w)'
      <3>1. AwardFields \subseteq DOMAIN awards[id] /\ awards[id].id = id
        BY DEF AwardsInv
      <3> QED BY <2>3, <3>1 DEF CopyInv, SameTerms, Has
    <2> QED BY <2>1, <2>2, <2>3, CopySteps
  <1>5. DOMAIN review' = Reviewers
    <2>1. CASE Reviewers = {}
      <3>1. review' = review
        BY <2>1 DEF ReviewNext, SetProgram, CreateParticipant, SetParticipant,
                    reviewVars
      <3> QED BY <3>1 DEF AwardsInv
    <2> QED BY <1>2, <2>1
  <1> QED BY <1>1, <1>4, <1>5 DEF AwardsInv

-----------------------------------------------------------------------------
(***************************************************************************)
(* Award terms.  With immutable policies a stored program keeps the terms  *)
(* an award was granted under, so what a proposal has read stays true      *)
(* until it is stored.                                                     *)
(***************************************************************************)
LEMMA StoredTerms ==
  ASSUME PoliciesAreImmutable, NEW p, NEW q, StoredProgram(p),
         StoredProgram(q), p.version = q.version
  PROVE  p.effectiveFrom = q.effectiveFrom /\ p.duration = q.duration
  BY DEF StoredProgram, PoliciesAreImmutable

\* A program that is replaced is replaced by one of the same terms.
LEMMA ProgramsKeepTerms ==
  ASSUME PoliciesAreImmutable, ProgramsInv, [ReviewNext]_reviewVars,
         NEW v \in DOMAIN programs
  PROVE  /\ v \in DOMAIN programs'
         /\ programs'[v].effectiveFrom = programs[v].effectiveFrom
         /\ programs'[v].duration = programs[v].duration
  <1>1. v \in DOMAIN programs'
    BY ProgramSteps DEF SetProgram, Put
  <1>2. PICK p : p = programs[v]
    OBVIOUS
  <1>3. PICK q : q = programs'[v]
    OBVIOUS
  <1>4. StoredProgram(p) /\ p.version = v
    BY <1>2 DEF ProgramsInv
  <1>5. ProgramsInv'
    BY ProgramsPreserved
  <1>6. StoredProgram(q) /\ q.version = v
    BY <1>1, <1>3, <1>5 DEF ProgramsInv, StoredProgram
  <1> QED BY <1>1, <1>2, <1>3, <1>4, <1>6, StoredTerms

\* Participants are never removed.
LEMMA ParticipantsGrow ==
  ASSUME [ReviewNext]_reviewVars
  PROVE  DOMAIN participants \subseteq DOMAIN participants'
  <1>1. \/ participants' = participants
        \/ \E p \in Participants : participants' = Put(participants, p.account, p)
    BY DEF ReviewNext, ReviewStep, reviewVars, CreateParticipant,
           SetParticipant, SetProgram, ProposeReadProgram, ProposeResolve,
           ProposeCreate, DecideRead, DecideSet, Abort
  <1> QED BY <1>1 DEF Put

\* What ProposalInv says of a command that has read a program.
HasRead(prog, req) ==
  /\ Has(programs, prog.version) /\ StoredProgram(prog) /\ req \in Requests
  /\ prog.effectiveFrom <= req.activation

\* What a proposal reads in a step.
LEMMA ProposalSteps ==
  ASSUME ProgramsInv, AwardsInv, [ReviewNext]_reviewVars, NEW w \in Reviewers,
         ProposalInv(w)
  PROVE  \/ review'[w] = review[w]
         \/ review'[w].pc \notin {"resolve", "create"}
         \/ /\ HasRead(review'[w].program, review'[w].req)
            /\ review'[w].pc = "create" =>
                 Range(review'[w].recipients) \subseteq DOMAIN participants
  <1> DEFINE Goal == \/ review'[w] = review[w]
                     \/ review'[w].pc \notin {"resolve", "create"}
                     \/ /\ HasRead(review'[w].program, review'[w].req)
                        /\ review'[w].pc = "create" =>
                             Range(review'[w].recipients)
                               \subseteq DOMAIN participants
  <1>1. ASSUME NEW x \in Reviewers, ReviewStep(x), x = w PROVE Goal
    <2>1. ASSUME NEW req \in Requests, ProposeReadProgram(x, req) PROVE Goal
      <3>1. PICK p \in ProgramsFor(req.activation) :
              review' = [review EXCEPT ![x] =
                           [pc |-> "resolve", req |-> req, program |-> p]]
        BY <2>1 DEF ProposeReadProgram
      <3>2. p \in Docs(programs) /\ p.effectiveFrom <= req.activation
        BY DEF ProgramsFor, Effective
      <3>3. PICK v \in DOMAIN programs : programs[v] = p
        BY <3>2, DocsFacts
      <3>4. p.version = v /\ StoredProgram(p)
        BY <3>3 DEF ProgramsInv
      <3>5. HasRead(p, req)
        BY <3>2, <3>3, <3>4 DEF HasRead, Has
      <3>6. review'[w] = [pc |-> "resolve", req |-> req, program |-> p]
        BY <1>1, <3>1 DEF AwardsInv
      <3> QED BY <3>5, <3>6
    <2>2. CASE ProposeResolve(x)
      <3>1. HasRead(review[w].program, review[w].req)
        BY <1>1, <2>2 DEF ProposeResolve, ProposalInv, HasRead
      <3>2. CASE review' = [review EXCEPT ![x] = Idle]
        BY <1>1, <3>2 DEF AwardsInv, Idle
      <3>3. ASSUME NEW f \in Resolutions(review[x].req.splits),
                   review' = [review EXCEPT ![x] =
                                [pc |-> "create", req |-> review[x].req,
                                 program |-> review[x].program,
                                 recipients |-> f]]
            PROVE  Goal
        <4>1. Range(f) \subseteq DOMAIN participants
          BY <3>3 DEF Resolutions, Range
        <4>2. review'[w] = [pc |-> "create", req |-> review[w].req,
                            program |-> review[w].program, recipients |-> f]
          BY <1>1, <3>3 DEF AwardsInv
        <4> QED BY <3>1, <4>1, <4>2
      <3> QED BY <2>2, <3>2, <3>3 DEF ProposeResolve
    <2>3. CASE ProposeCreate(x)
      BY <1>1, <2>3 DEF ProposeCreate, AwardsInv, Idle
    <2>4. ASSUME NEW id \in AwardIDs, NEW approve \in BOOLEAN,
                 DecideRead(x, id, approve)
          PROVE  Goal
      BY <1>1, <2>4 DEF DecideRead, AwardsInv
    <2>5. CASE DecideSet(x)
      BY <1>1, <2>5 DEF DecideSet, AwardsInv, Idle
    <2>6. CASE Abort(x)
      BY <1>1, <2>6 DEF Abort, AwardsInv, Idle
    <2> QED BY <1>1, <2>1, <2>2, <2>3, <2>4, <2>5, <2>6 DEF ReviewStep
  <1>2. ASSUME NEW x \in Reviewers, ReviewStep(x), x # w PROVE Goal
    BY <1>2 DEF ReviewStep, ProposeReadProgram, ProposeResolve, ProposeCreate,
                DecideRead, DecideSet, Abort, AwardsInv
  <1>3. CASE \/ \E p \in ProgramDocs : SetProgram(p)
             \/ \E p \in Participants : CreateParticipant(p) \/ SetParticipant(p)
             \/ UNCHANGED reviewVars
    BY <1>3 DEF SetProgram, CreateParticipant, SetParticipant, reviewVars
  <1> QED BY <1>1, <1>2, <1>3 DEF ReviewNext

\* What a proposal has read stays true until it is stored.
LEMMA ProposalsPreserved ==
  ASSUME PoliciesAreImmutable, TermsInv, [ReviewNext]_reviewVars,
         NEW w \in Reviewers
  PROVE  ProposalInv(w)'
  <1>1. ProgramsInv /\ AwardsInv /\ ProposalInv(w)
    BY DEF TermsInv
  <1>2. DOMAIN programs \subseteq DOMAIN programs'
    BY <1>1, ProgramsKeepTerms
  <1>3. DOMAIN participants \subseteq DOMAIN participants'
    BY ParticipantsGrow
  <1>4. CASE review'[w] = review[w]
    BY <1>1, <1>2, <1>3, <1>4 DEF ProposalInv, Has, StoredProgram
  <1>5. CASE review'[w].pc \notin {"resolve", "create"}
    BY <1>5 DEF ProposalInv
  <1>6. CASE /\ HasRead(review'[w].program, review'[w].req)
             /\ review'[w].pc = "create" =>
                  Range(review'[w].recipients) \subseteq DOMAIN participants
    BY <1>2, <1>3, <1>6 DEF ProposalInv, HasRead, Has, StoredProgram
  <1> QED BY <1>1, <1>4, <1>5, <1>6, ProposalSteps

\* The terms of one award are those of its policy.
HasTerms(a) ==
  /\ Has(programs, a.version)
  /\ programs[a.version].effectiveFrom <= a.activation
  /\ a.expiration = ExpirationMonth(programs[a.version], a.activation)
  /\ DOMAIN a.splits \subseteq DOMAIN participants

\* An award that has the terms of its policy keeps having them.
LEMMA TermsStay ==
  ASSUME PoliciesAreImmutable, ProgramsInv, [ReviewNext]_reviewVars,
         NEW a, HasTerms(a)
  PROVE  HasTerms(a)'
  <1>1. PICK v : v = a.version
    OBVIOUS
  <1>2. /\ v \in DOMAIN programs'
        /\ programs'[v].effectiveFrom = programs[v].effectiveFrom
        /\ programs'[v].duration = programs[v].duration
    BY <1>1, ProgramsKeepTerms DEF HasTerms, Has
  <1>3. DOMAIN participants \subseteq DOMAIN participants'
    BY ParticipantsGrow
  <1> QED BY <1>1, <1>2, <1>3 DEF HasTerms, Has, ExpirationMonth

\* A proposal that is stored has the terms of the policy it has read.
LEMMA ProposedTerms ==
  ASSUME PoliciesAreImmutable, TermsInv, NEW w \in Reviewers,
         review[w].pc = "create", NEW id
  PROVE  HasTerms(ProposedAward(id, review[w].req, review[w].program,
                                review[w].recipients))
  <1>1. PICK p, req, f : /\ p = review[w].program /\ req = review[w].req
                         /\ f = review[w].recipients
    OBVIOUS
  <1>2. /\ Has(programs, p.version) /\ StoredProgram(p)
        /\ p.effectiveFrom <= req.activation
        /\ Range(f) \subseteq DOMAIN participants
    BY <1>1 DEF TermsInv, ProposalInv
  <1>3. PICK q : q = programs[p.version]
    OBVIOUS
  <1>4. q.version = p.version /\ StoredProgram(q)
    BY <1>2, <1>3 DEF TermsInv, ProgramsInv, Has
  <1>5. q.effectiveFrom = p.effectiveFrom /\ q.duration = p.duration
    BY <1>2, <1>4, StoredTerms
  <1>6. PICK a : a = ProposedAward(id, req, p, f)
    OBVIOUS
  <1>7. /\ a.version = p.version /\ a.activation = req.activation
        /\ a.expiration = ExpirationMonth(p, req.activation)
        /\ DOMAIN a.splits = Range(f)
    BY <1>6, ProposedFields
  <1>8. HasTerms(a)
    BY <1>2, <1>3, <1>5, <1>7 DEF HasTerms, ExpirationMonth
  <1> QED BY <1>1, <1>6, <1>8

\* Stored awards have the terms of their policies after every step.
LEMMA TermsPreserved ==
  ASSUME PoliciesAreImmutable, TermsInv, [ReviewNext]_reviewVars
  PROVE  TermsComeFromPolicy'
  <1>1. ProgramsInv /\ AwardsInv /\ AwardsInv'
    BY AwardsPreserved DEF TermsInv
  <1>2. \A a \in Docs(awards) : HasTerms(a)
    BY DEF TermsInv, TermsComeFromPolicy, HasTerms
  <1>3. ASSUME NEW k \in DOMAIN awards', NEW a, a = awards'[k]
        PROVE  HasTerms(a)'
    <2>1. CASE k \in DOMAIN awards
      <3>1. SameTerms(awards'[k], awards[k])
        BY <1>1, <2>1, AwardsGrow DEF AwardsKept
      <3>2. PICK b : b = awards[k]
        OBVIOUS
      <3>3. AwardFields \subseteq DOMAIN a /\ AwardFields \subseteq DOMAIN b
        BY <1>1, <1>3, <2>1, <3>2 DEF AwardsInv
      <3>4. /\ a.id = b.id /\ a.splits = b.splits /\ a.version = b.version
            /\ a.activation = b.activation /\ a.expiration = b.expiration
        BY <1>3, <3>1, <3>2, <3>3, SameFields
      <3>5. HasTerms(b)
        BY <1>2, <2>1, <3>2, DocsFacts
      <3>6. HasTerms(a)
        BY <3>4, <3>5 DEF HasTerms
      <3> QED BY <1>1, <3>6, TermsStay
    <2>2. CASE k \notin DOMAIN awards
      <3>1. PICK w \in Reviewers : ProposeCreate(w)
        <4>1. ASSUME NEW w \in Reviewers, DecideSet(w) PROVE FALSE
          BY <1>1, <1>3, <2>2, <4>1, DecisionStored DEF Put, Has
        <4> QED BY <1>3, <2>2, <4>1, AwardSteps
      <3>2. PICK id, doc :
              /\ awards' = Put(awards, id, doc)
              /\ doc = ProposedAward(id, review[w].req, review[w].program,
                                     review[w].recipients)
        BY <1>3, <2>2, <3>1, ProposalStored
      <3>3. a = doc
        BY <1>3, <2>2, <3>2 DEF Put
      <3>4. HasTerms(a)
        BY <3>1, <3>2, <3>3, ProposedTerms DEF ProposeCreate
      <3> QED BY <1>1, <3>4, TermsStay
    <2> QED BY <2>1, <2>2
  <1>4. \A a \in Docs(awards') : \E k \in DOMAIN awards' : awards'[k] = a
    BY DEF Docs, Range
  <1> QED BY <1>3, <1>4 DEF TermsComeFromPolicy, HasTerms

\* No step changes terms or turns an award into a proposal again.
LEMMA DecidedStaysDecided ==
  ASSUME AwardsInv, [ReviewNext]_reviewVars
  PROVE  AwardTermsFixed
  <1>1. AwardsKept
    BY AwardsGrow
  <1>2. ASSUME NEW id \in DOMAIN awards, awards'[id].status = "proposed"
        PROVE  awards[id].status = "proposed"
    <2>1. CASE awards' = awards
      BY <1>2, <2>1
    <2>2. ASSUME NEW w \in Reviewers, ProposeCreate(w), awards' # awards
          PROVE  awards[id].status = "proposed"
      BY <1>2, <2>2, ProposalStored DEF Put, Has
    <2>3. ASSUME NEW w \in Reviewers, DecideSet(w)
          PROVE  awards[id].status = "proposed"
      BY <1>2, <2>3, DecisionStored DEF Put, Has
    <2> QED BY <2>1, <2>2, <2>3, AwardSteps
  <1> QED BY <1>1, <1>2 DEF AwardTermsFixed, AwardsKept, SameTerms, Has

(***************************************************************************)
(* The awards stored at the start have the terms of programs stored then.  *)
(***************************************************************************)
InitialTerms ==
  \A a \in Docs(InitAwards) :
    /\ Has(InitPrograms, a.version)
    /\ InitPrograms[a.version].effectiveFrom <= a.activation
    /\ a.expiration = ExpirationMonth(InitPrograms[a.version], a.activation)
    /\ DOMAIN a.splits \subseteq DOMAIN InitParticipants

(***************************************************************************)
(* ProposeAward's promise: "a later policy change never retroactively      *)
(* alters the terms an award was granted under".  For any number of        *)
(* operators whose commands interleave between the store calls and fail    *)
(* anywhere, an award is stored with the terms of its policy and keeps     *)
(* them, provided that published policies are immutable, as program.go     *)
(* says they are.                                                          *)
(***************************************************************************)
THEOREM AwardsKeepTheirTerms ==
  ASSUME PoliciesAreImmutable, InitialTerms
  PROVE  ReviewSpec => AwardTermsHold
  <1>1. ReviewInit => TermsInv
    <2> SUFFICES ASSUME ReviewInit PROVE TermsInv
      OBVIOUS
    <2>1. ProgramsInv /\ AwardsInv
      BY InitProgramsInv, InitAwardsInv
    <2>2. TermsComeFromPolicy
      BY DEF ReviewInit, InitialTerms, TermsComeFromPolicy
    <2>3. \A w \in Reviewers : ProposalInv(w)
      BY DEF ReviewInit, ProposalInv, Idle
    <2> QED BY <2>1, <2>2, <2>3 DEF TermsInv
  <1>2. TermsInv /\ [ReviewNext]_reviewVars => TermsInv'
    <2> SUFFICES ASSUME TermsInv, [ReviewNext]_reviewVars PROVE TermsInv'
      OBVIOUS
    <2>1. ProgramsInv' /\ AwardsInv'
      BY ProgramsPreserved, AwardsPreserved DEF TermsInv
    <2> QED BY <2>1, TermsPreserved, ProposalsPreserved DEF TermsInv
  <1>3. TermsInv /\ [ReviewNext]_reviewVars =>
          [TermsComeFromPolicy' /\ AwardTermsFixed]_reviewVars
    BY TermsPreserved, DecidedStaysDecided DEF TermsInv
  <1> QED BY <1>1, <1>2, <1>3, PTL DEF ReviewSpec, AwardTermsHold

-----------------------------------------------------------------------------
(***************************************************************************)
(* The refinement of RoundBook.  First the frozen inputs: under the        *)
(* discipline no step changes what weighs in a month that was attempted.   *)
(***************************************************************************)
LEMMA AdminSteps ==
  ASSUME [Next]_vars
  PROVE  /\ \/ programs' = programs
            \/ \E doc \in ProgramDocs : ProgramAllowed(doc) /\ SetProgram(doc)
         /\ \/ awards' = awards
            \/ \E w \in Reviewers :
                 /\ ProposeCreate(w) \/ DecideSet(w)
                 /\ \A a \in Docs(awards') \ Docs(awards) : AwardAllowed(a)
         /\ \/ receipts' = receipts
            \/ \E r \in ReceiptDocs : ImportReceipt(r)
  <1>1. CASE UNCHANGED reviewVars /\ LedgerStep
    <2>1. programs' = programs /\ awards' = awards
      BY <1>1 DEF reviewVars
    <2>2. \/ receipts' = receipts
          \/ \E r \in ReceiptDocs : ImportReceipt(r)
      BY <1>1 DEF LedgerStep, CloseStep, StartClose, ReadProgram, ReadReceipts,
                  ReadAwards, ReadPrevious, ReadRounds, StoreObligation,
                  CommitRound, Fail, Transition
    <2> QED BY <2>1, <2>2
  <1>2. CASE AdminStep /\ UNCHANGED closeVars
    <2>1. receipts' = receipts
      BY <1>2 DEF closeVars
    <2>2. ASSUME NEW p \in ProgramDocs, ProgramAllowed(p), SetProgram(p)
          PROVE  awards' = awards
      BY <2>2 DEF SetProgram
    <2>3. ASSUME NEW p \in Participants, CreateParticipant(p) \/ SetParticipant(p)
          PROVE  programs' = programs /\ awards' = awards
      BY <2>3 DEF CreateParticipant, SetParticipant
    <2>4. ASSUME NEW w \in Reviewers, ReviewStep(w)
          PROVE  /\ programs' = programs
                 /\ awards' = awards \/ ProposeCreate(w) \/ DecideSet(w)
      BY <2>4 DEF ReviewStep, ProposeReadProgram, ProposeResolve, ProposeCreate,
                  DecideRead, DecideSet, Abort
    <2> QED BY <1>2, <2>1, <2>2, <2>3, <2>4 DEF AdminStep
  <1>3. CASE UNCHANGED vars
    BY <1>3 DEF vars, reviewVars, closeVars
  <1> QED BY <1>1, <1>2, <1>3 DEF Next

\* A program that is published after m was attempted is effective later, and
\* so was the one of that version that it replaces.
LEMMA ProgramsAreFrozen ==
  ASSUME FreezeInputs, PoliciesAreImmutable, ProgramsInv, [Next]_vars,
         NEW m \in attempted, m \in Int
  PROVE  ProgramsFor(m)' = ProgramsFor(m)
  <1>1. CASE programs' = programs
    BY <1>1 DEF ProgramsFor, Effective
  <1>2. ASSUME NEW doc \in ProgramDocs, ProgramAllowed(doc), SetProgram(doc)
        PROVE  ProgramsFor(m)' = ProgramsFor(m)
    <2>1. PICK p : /\ p = [doc EXCEPT !.calculation = CalculationVersion]
                   /\ programs' = Put(programs, p.version, p)
      BY <1>2 DEF SetProgram
    <2>2. /\ p.effectiveFrom \in Int /\ StoredProgram(p)
          /\ p.effectiveFrom = doc.effectiveFrom
      BY <2>1, PinnedProgram DEF StoredProgram
    <2>3. ~(p.effectiveFrom <= m)
      BY <1>2, <2>2 DEF ProgramAllowed
    <2>4. Has(programs, p.version) => ~(programs[p.version].effectiveFrom <= m)
      <3> SUFFICES ASSUME Has(programs, p.version)
                   PROVE  ~(programs[p.version].effectiveFrom <= m)
        OBVIOUS
      <3>1. PICK q : q = programs[p.version]
        OBVIOUS
      <3>2. StoredProgram(q) /\ q.version = p.version
        BY <3>1 DEF ProgramsInv, Has
      <3> QED BY <2>2, <2>3, <3>1, <3>2, StoredTerms
    <2>5. Effective(m)' \subseteq Effective(m)
      <3> SUFFICES ASSUME NEW x, x \in Docs(programs'), x.effectiveFrom <= m
                   PROVE  x \in Docs(programs)
        BY DEF Effective
      <3>1. PICK k \in DOMAIN programs' : programs'[k] = x
        BY DEF Docs, Range
      <3>2. k # p.version
        BY <2>1, <2>3, <3>1 DEF Put
      <3>3. k \in DOMAIN programs /\ programs[k] = x
        BY <2>1, <3>1, <3>2 DEF Put
      <3> QED BY <3>3, DocsFacts
    <2>6. Effective(m) \subseteq Effective(m)'
      <3> SUFFICES ASSUME NEW x, x \in Docs(programs), x.effectiveFrom <= m
                   PROVE  x \in Docs(programs')
        BY DEF Effective
      <3>1. PICK k \in DOMAIN programs : programs[k] = x
        BY DocsFacts
      <3>2. k # p.version
        BY <2>4, <3>1 DEF Has
      <3>3. k \in DOMAIN programs' /\ programs'[k] = x
        BY <2>1, <3>1, <3>2 DEF Put
      <3> QED BY <3>3 DEF Docs, Range
    <2>7. Effective(m)' = Effective(m)
      BY <2>5, <2>6
    <2> QED BY <2>7 DEF ProgramsFor
  <1> QED BY <1>1, <1>2, AdminSteps

\* No receipt is imported for a month that was attempted.
LEMMA ReceiptsAreFrozen ==
  ASSUME FreezeInputs, [Next]_vars, NEW m \in attempted
  PROVE  MonthReceipts(m)' = MonthReceipts(m)
  <1>1. CASE receipts' = receipts
    BY <1>1 DEF MonthReceipts
  <1>2. ASSUME NEW r \in ReceiptDocs, ImportReceipt(r)
        PROVE  MonthReceipts(m)' = MonthReceipts(m)
    <2>1. /\ r.month # m /\ ~Has(receipts, r.source)
          /\ receipts' = Put(receipts, r.source, r)
      BY <1>2 DEF ImportReceipt, ReceiptAllowed
    <2>2. Docs(receipts') = Docs(receipts) \cup {r}
      <3>1. ASSUME NEW d \in Docs(receipts') PROVE d \in Docs(receipts) \cup {r}
        BY <2>1, <3>1 DEF Docs, Range, Put, Has
      <3>2. ASSUME NEW d \in Docs(receipts) PROVE d \in Docs(receipts')
        <4>1. PICK k \in DOMAIN receipts : receipts[k] = d
          BY DocsFacts
        <4>2. k \in DOMAIN receipts' /\ receipts'[k] = d
          BY <2>1, <4>1 DEF Put, Has
        <4> QED BY <4>2 DEF Docs, Range
      <3>3. r \in Docs(receipts')
        <4>1. r.source \in DOMAIN receipts' /\ receipts'[r.source] = r
          BY <2>1 DEF Put
        <4> QED BY <4>1 DEF Docs, Range
      <3> QED BY <3>1, <3>2, <3>3
    <2> QED BY <2>1, <2>2 DEF MonthReceipts
  <1> QED BY <1>1, <1>2, AdminSteps

\* Storing an award that weighs in m neither before nor after the step.
LEMMA PutWeighing ==
  ASSUME NEW m, NEW id, NEW d, awards' = Put(awards, id, d),
         ~(d.status = "approved" /\ ActiveIn(d, m)),
         Has(awards, id) => ~(/\ awards[id].status = "approved"
                              /\ ActiveIn(awards[id], m))
  PROVE  Weighing(m)' = Weighing(m)
  <1> DEFINE Weighs(a) == a.status = "approved" /\ ActiveIn(a, m)
  <1>1. ASSUME NEW x, x \in Docs(awards'), Weighs(x) PROVE x \in Docs(awards)
    <2>1. PICK k \in DOMAIN awards' : awards'[k] = x
      BY <1>1 DEF Docs, Range
    <2>2. k # id
      BY <1>1, <2>1 DEF Put
    <2>3. k \in DOMAIN awards /\ awards[k] = x
      BY <2>1, <2>2 DEF Put
    <2> QED BY <2>3, DocsFacts
  <1>2. ASSUME NEW x, x \in Docs(awards), Weighs(x) PROVE x \in Docs(awards')
    <2>1. PICK k \in DOMAIN awards : awards[k] = x
      BY <1>2, DocsFacts
    <2>2. k # id
      BY <1>2, <2>1 DEF Has
    <2>3. k \in DOMAIN awards' /\ awards'[k] = x
      BY <2>1, <2>2 DEF Put
    <2> QED BY <2>3 DEF Docs, Range
  <1>3. /\ Weighing(m) = {a \in Docs(awards) : Weighs(a)}
        /\ Weighing(m)' = {a \in Docs(awards') : Weighs(a)}
    BY DEF Weighing, ActiveAwards, ActiveIn
  <1> HIDE DEF Weighs
  <1> QED BY <1>1, <1>2, <1>3

\* No award that weighs in an attempted month is decided.
LEMMA AwardsAreFrozen ==
  ASSUME FreezeInputs, AwardsInv, [Next]_vars, NEW m \in attempted
  PROVE  Weighing(m)' = Weighing(m)
  <1>1. CASE awards' = awards
    BY <1>1 DEF Weighing
  <1>2. ASSUME NEW w \in Reviewers, ProposeCreate(w), awards' # awards
        PROVE  Weighing(m)' = Weighing(m)
    <2>1. PICK id, doc :
            /\ ~Has(awards, id) /\ awards' = Put(awards, id, doc)
            /\ doc = ProposedAward(id, review[w].req, review[w].program,
                                   review[w].recipients)
      BY <1>2, ProposalStored
    <2>2. doc.status = "proposed"
      BY <2>1, ProposedFields
    <2> QED BY <2>1, <2>2, PutWeighing
  <1>3. ASSUME NEW w \in Reviewers, DecideSet(w),
               \A a \in Docs(awards') \ Docs(awards) : AwardAllowed(a)
        PROVE  Weighing(m)' = Weighing(m)
    <2>1. PICK id, d : /\ Has(awards, id) /\ awards' = Put(awards, id, d)
                       /\ d.id = id /\ d.status \in {"approved", "rejected"}
                       /\ d.activation = awards[id].activation
                       /\ d.expiration = awards[id].expiration
      BY <1>3, DecisionStored
    <2>2. CASE d \in Docs(awards)
      <3>1. PICK k \in DOMAIN awards : awards[k] = d
        BY <2>2, DocsFacts
      <3>2. k = id
        BY <2>1, <3>1 DEF AwardsInv
      <3>3. \A a : a \in Docs(awards') <=> a \in Docs(awards)
        BY <2>1, <3>1, <3>2 DEF Docs, Range, Put, Has
      <3>4. Docs(awards') = Docs(awards)
        BY <3>3 DEF Docs, Range
      <3> QED BY <3>4 DEF Weighing
    <2>3. CASE d \notin Docs(awards)
      <3>1. d \in Docs(awards')
        <4>1. id \in DOMAIN awards' /\ awards'[id] = d
          BY <2>1 DEF Put
        <4> QED BY <4>1 DEF Docs, Range
      <3>2. ~ActiveIn(d, m)
        BY <1>3, <2>1, <2>3, <3>1 DEF AwardAllowed
      <3>3. ~ActiveIn(awards[id], m)
        BY <2>1, <3>2 DEF ActiveIn
      <3> QED BY <2>1, <3>2, <3>3, PutWeighing
    <2> QED BY <2>2, <2>3
  <1> QED BY <1>1, <1>2, <1>3, AdminSteps

-----------------------------------------------------------------------------
\* Months are attempted in order, so a round is only added after all others.
InOrder == \A k, m \in attempted : k < m => Has(rounds, k)

\* Only a commit changes the rounds, and only by adding one.
LEMMA RoundSteps ==
  ASSUME [Next]_vars
  PROVE  \/ rounds' = rounds
         \/ \E c \in Closers :
              /\ CommitRound(c) /\ ~Has(rounds, closing[c].month)
              /\ rounds' = Put(rounds, closing[c].month, closing[c].round)
  <1>1. CASE UNCHANGED closeVars
    BY <1>1 DEF closeVars
  <1>2. ASSUME NEW c \in Closers, ReadStep(c) PROVE rounds' = rounds
    BY <1>2 DEF ReadStep, StartClose, ReadProgram, ReadReceipts, ReadAwards,
                ReadPrevious, ReadRounds, Fail
  <1>3. ASSUME NEW c \in Closers, StoreObligation(c) PROVE rounds' = rounds
    BY <1>3 DEF StoreObligation
  <1>4. ASSUME NEW r \in ReceiptDocs, ImportReceipt(r) PROVE rounds' = rounds
    BY <1>4 DEF ImportReceipt
  <1>5. ASSUME NEW id \in DOMAIN obligations, NEW to \in PayoutStates,
               Transition(id, to)
        PROVE  rounds' = rounds
    BY <1>5 DEF Transition
  <1>6. ASSUME NEW c \in Closers, CommitRound(c), rounds' # rounds
        PROVE  /\ ~Has(rounds, closing[c].month)
               /\ rounds' = Put(rounds, closing[c].month, closing[c].round)
    BY <1>6 DEF CommitRound
  <1> QED BY <1>1, <1>2, <1>3, <1>4, <1>5, <1>6, NextCases

\* A round that is added belongs to the last month attempted.
LEMMA AddedIsLast ==
  ASSUME TypeOK, InOrder, NEW c \in Closers, CommitRound(c),
         ~Has(rounds, closing[c].month)
  PROVE  /\ closing[c].month \in attempted /\ closing[c].month \in Int
         /\ \A m \in attempted : m \in Int /\ m <= closing[c].month
  <1>1. closing[c] # Idle
    BY DEF CommitRound, Idle
  <1>2. closing[c].month \in attempted
    BY <1>1 DEF TypeOK
  <1>3. \A m \in attempted : m \in Int
    BY MonthsAssumption DEF TypeOK
  <1> QED BY <1>2, <1>3 DEF InOrder

\* The balance carried into an attempted month is settled.
LEMMA CarryIsFrozen ==
  ASSUME TypeOK, InOrder, [Next]_vars, NEW m \in attempted
  PROVE  CarryInto(m)' = CarryInto(m)
  <1>1. CASE rounds' = rounds
    BY <1>1 DEF CarryInto
  <1>2. ASSUME NEW c \in Closers, CommitRound(c), ~Has(rounds, closing[c].month),
               rounds' = Put(rounds, closing[c].month, closing[c].round)
        PROVE  CarryInto(m)' = CarryInto(m)
    <2>1. m \in Int /\ closing[c].month \in Int /\ m <= closing[c].month
      BY <1>2, AddedIsLast
    <2>2. closing[c].month # m - 1
      BY <2>1
    <2> QED BY <1>2, <2>2 DEF CarryInto, Put, Has
  <1> QED BY <1>1, <1>2, RoundSteps

\* The frozen part of FrozenInv, and what follows from it for one step.
InputsInv == TypeOK /\ InOrder /\ ProgramsInv /\ AwardsInv

\* Hence the round that is due for an attempted month is settled.
LEMMA DueIsFrozen ==
  ASSUME FreezeInputs, PoliciesAreImmutable, InputsInv, [Next]_vars,
         NEW m \in attempted
  PROVE  /\ ProgramsFor(m)' = ProgramsFor(m)
         /\ MonthReceipts(m)' = MonthReceipts(m)
         /\ Weighing(m)' = Weighing(m)
         /\ CarryInto(m)' = CarryInto(m)
         /\ \A p : Due(m, p)' = Due(m, p)
  <1>1. m \in Int
    BY MonthsAssumption DEF InputsInv, TypeOK
  <1>2. /\ ProgramsFor(m)' = ProgramsFor(m)
        /\ MonthReceipts(m)' = MonthReceipts(m)
        /\ Weighing(m)' = Weighing(m)
        /\ CarryInto(m)' = CarryInto(m)
    BY <1>1, ProgramsAreFrozen, ReceiptsAreFrozen, AwardsAreFrozen,
       CarryIsFrozen DEF InputsInv
  <1> QED BY <1>2 DEF Due

\* CloseAllowed keeps the months in order.
LEMMA InOrderPreserved ==
  ASSUME FreezeInputs, TypeOK, InOrder, [Next]_vars
  PROVE  InOrder'
  <1>1. RoundsKept
    BY RoundsGrow
  <1>2. CASE attempted' = attempted
    BY <1>1, <1>2 DEF InOrder, RoundsKept, Has
  <1>3. ASSUME NEW c \in Closers, NEW m \in Months, NEW t \in Instants,
               StartClose(c, m, t)
        PROVE  InOrder'
    <2>1. /\ attempted' = attempted \cup {m} /\ rounds' = rounds
          /\ \A k \in attempted : k = m \/ (k < m /\ Has(rounds, k))
      BY <1>3 DEF StartClose, CloseAllowed
    <2>2. \A k \in attempted' : k \in Int
      BY <2>1, MonthsAssumption DEF TypeOK
    <2> QED BY <2>1, <2>2 DEF InOrder
  <1>4. \/ attempted' = attempted
        \/ \E c \in Closers, m \in Months, t \in Instants : StartClose(c, m, t)
    <2>1. CASE UNCHANGED closeVars
      BY <2>1 DEF closeVars
    <2>2. CASE LedgerStep
      BY <2>2 DEF LedgerStep, CloseStep, ReadProgram, ReadReceipts, ReadAwards,
                  ReadPrevious, ReadRounds, StoreObligation, CommitRound, Fail,
                  ImportReceipt, Transition
    <2> QED BY <2>1, <2>2 DEF Next, vars
  <1> QED BY <1>2, <1>3, <1>4

\* The four parts of InputsInv together.
LEMMA InputsPreserved ==
  ASSUME FreezeInputs, IInv, InputsInv, [Next]_vars
  PROVE  InputsInv'
  BY TypeOKPreserved, InOrderPreserved, ProgramsPreserved, AwardsPreserved,
     NextIsReview DEF InputsInv

-----------------------------------------------------------------------------
(***************************************************************************)
(* What a running CloseRound has read.                                     *)
(***************************************************************************)
\* Awards that do not weigh in the month do not matter to its round.
LEMMA SameRound ==
  ASSUME NEW p, NEW m, NEW rs, NEW as, NEW carryforward,
         NEW active, active = ActiveAwards(as, m)
  PROVE  ComputeRound(p, m, rs, as, carryforward)
           = ComputeRound(p, m, rs, active, carryforward)
  <1>1. ActiveAwards(active, m) = ActiveAwards(as, m)
    BY DEF ActiveAwards
  <1>2. ActiveCredits(active, m) = ActiveCredits(as, m)
    BY <1>1 DEF ActiveCredits
  <1> QED BY <1>2 DEF ComputeRound

\* A closer that does not move keeps what it has read.
LEMMA StageStays ==
  ASSUME FreezeInputs, PoliciesAreImmutable, InputsInv, [Next]_vars,
         NEW c \in Closers, StageInv(c),
         \/ closing'[c] = closing[c]
         \/ /\ closing'[c].pc = "store" /\ closing[c].pc = "store"
            /\ closing'[c].month = closing[c].month
            /\ closing'[c].program = closing[c].program
            /\ closing'[c].round = closing[c].round
         \/ /\ closing'[c].pc = "gap" /\ closing[c].pc = "carry"
            /\ closing'[c].month = closing[c].month
            /\ closing'[c].program = closing[c].program
            /\ closing'[c].receipts = closing[c].receipts
            /\ closing'[c].awards = closing[c].awards
  PROVE  StageInv(c)'
  <1>1. CASE closing'[c].pc \notin {"receipts", "awards", "carry", "gap", "store"}
    BY <1>1 DEF StageInv
  <1>2. CASE closing'[c].pc \in {"receipts", "awards", "carry", "gap", "store"}
    <2>1. PICK m, p : /\ m = closing[c].month /\ p = closing[c].program
                      /\ m = closing'[c].month /\ p = closing'[c].program
      OBVIOUS
    <2>2. m \in attempted
      <3>1. closing[c].pc \in {"receipts", "awards", "carry", "gap", "store"}
        BY <1>2
      <3>2. closing[c] # Idle
        BY <3>1 DEF Idle
      <3> QED BY <2>1, <3>2 DEF InputsInv, TypeOK
    <2>3. /\ ProgramsFor(m)' = ProgramsFor(m)
          /\ MonthReceipts(m)' = MonthReceipts(m)
          /\ Weighing(m)' = Weighing(m)
          /\ Due(m, p)' = Due(m, p)
      BY <2>2, DueIsFrozen
    <2>4. p \in ProgramsFor(m)'
      BY <1>2, <2>1, <2>3 DEF StageInv
    <2>5. closing'[c].pc \in {"awards", "carry", "gap"} =>
            closing'[c].receipts = MonthReceipts(m)'
      BY <2>1, <2>3 DEF StageInv
    <2>6. closing'[c].pc \in {"carry", "gap"} =>
            ActiveAwards(closing'[c].awards, m) = Weighing(m)'
      BY <2>1, <2>3 DEF StageInv
    <2>7. closing'[c].pc = "store" => closing'[c].round = Due(m, p)'
      BY <2>1, <2>3 DEF StageInv
    <2>8. ASSUME closing'[c].pc = "store" PROVE NoGap(m)'
      <3>1. NoGap(m)
        BY <2>1, <2>8 DEF StageInv, NoGap
      <3>2. RoundsKept
        BY RoundsGrow
      <3>3. CASE Has(rounds, m - 1)
        BY <3>2, <3>3 DEF NoGap, RoundsKept, Has
      <3>4. CASE \A k \in DOMAIN rounds : k >= m
        <4>1. CASE rounds' = rounds
          BY <3>4, <4>1 DEF NoGap
        <4>2. ASSUME NEW d \in Closers, CommitRound(d),
                     ~Has(rounds, closing[d].month),
                     rounds' = Put(rounds, closing[d].month, closing[d].round)
              PROVE  NoGap(m)'
          <5>1. m \in Int /\ closing[d].month \in Int /\ m <= closing[d].month
            BY <2>2, <4>2, AddedIsLast DEF InputsInv
          <5>2. \A k \in DOMAIN rounds' : k \in DOMAIN rounds \/ k = closing[d].month
            BY <4>2 DEF Put
          <5> QED BY <3>4, <5>1, <5>2 DEF NoGap
        <4> QED BY <4>1, <4>2, RoundSteps
      <3> QED BY <3>1, <3>3, <3>4 DEF NoGap
    <2> QED BY <2>1, <2>4, <2>5, <2>6, <2>7, <2>8 DEF StageInv, NoGap
  <1> QED BY <1>1, <1>2

\* Only one closer moves in a step.
LEMMA OthersStay ==
  ASSUME TypeOK, NEW c \in Closers, NEW d \in Closers, d # c,
         ReadStep(c) \/ StoreObligation(c) \/ CommitRound(c)
  PROVE  closing'[d] = closing[d]
  <1>1. \E x : closing' = [closing EXCEPT ![c] = x]
    <2>1. CASE StoreObligation(c)
      BY <2>1 DEF StoreObligation
    <2>2. CASE ReadPrevious(c)
      BY <2>2 DEF ReadPrevious, Compute, GiveUp
    <2>3. CASE ReadRounds(c)
      BY <2>3 DEF ReadRounds, Compute, GiveUp
    <2>4. CASE \E m \in Months, t \in Instants : StartClose(c, m, t)
      BY <2>4 DEF StartClose
    <2>5. CASE ReadProgram(c) \/ ReadReceipts(c) \/ ReadAwards(c)
      BY <2>5 DEF ReadProgram, ReadReceipts, ReadAwards, GiveUp
    <2>6. CASE CommitRound(c) \/ Fail(c)
      BY <2>6 DEF CommitRound, Fail, GiveUp
    <2> QED BY <2>1, <2>2, <2>3, <2>4, <2>5, <2>6 DEF ReadStep
  <1> QED BY <1>1 DEF TypeOK

\* A close that was given up has read nothing.
LEMMA GivenUp ==
  ASSUME TypeOK, NEW c \in Closers, GiveUp(c)
  PROVE  StageInv(c)'
  <1>1. closing'[c] = Idle
    BY DEF GiveUp, TypeOK
  <1> QED BY <1>1 DEF StageInv, Idle

\* What is computed from the frozen inputs is the round that is due.
LEMMA ComputesDue ==
  ASSUME FreezeInputs, PoliciesAreImmutable, InputsInv, [Next]_vars,
         NEW c \in Closers, StageInv(c), closing[c].pc \in {"carry", "gap"},
         NEW carryforward, Compute(c, carryforward),
         carryforward = CarryInto(closing[c].month),
         NoGap(closing[c].month), rounds' = rounds
  PROVE  StageInv(c)'
  <1>1. PICK m, p, rs, as :
          /\ m = closing[c].month /\ p = closing[c].program
          /\ rs = closing[c].receipts /\ as = closing[c].awards
    OBVIOUS
  <1>2. PICK round : round = ComputeRound(p, m, rs, as, carryforward)
    OBVIOUS
  <1>3. CASE GiveUp(c)
    BY <1>3, GivenUp DEF InputsInv
  <1>4. CASE closing' = [closing EXCEPT ![c] =
                           [pc |-> "store", month |-> m, program |-> p,
                            round |-> round, pending |-> Payees(round)]]
    <2>1. closing'[c] = [pc |-> "store", month |-> m, program |-> p,
                         round |-> round, pending |-> Payees(round)]
      BY <1>4 DEF InputsInv, TypeOK
    <2>2. /\ p \in ProgramsFor(m) /\ rs = MonthReceipts(m)
          /\ ActiveAwards(as, m) = Weighing(m)
      BY <1>1 DEF StageInv
    <2>3. PICK active : active = ActiveAwards(as, m)
      OBVIOUS
    <2>4. round = Due(m, p)
      <3>1. round = ComputeRound(p, m, rs, active, carryforward)
        BY <1>2, <2>3, SameRound
      <3> QED BY <1>1, <2>2, <2>3, <3>1 DEF Due
    <2>5. m \in attempted
      <3>1. closing[c] # Idle
        BY DEF Idle
      <3> QED BY <1>1, <3>1 DEF InputsInv, TypeOK
    <2>6. ProgramsFor(m)' = ProgramsFor(m) /\ Due(m, p)' = Due(m, p)
      BY <2>5, DueIsFrozen
    <2>7. NoGap(m)'
      BY <1>1 DEF NoGap
    <2>8. p \in ProgramsFor(m)' /\ round = Due(m, p)'
      BY <2>2, <2>4, <2>6
    <2> QED BY <2>1, <2>7, <2>8 DEF StageInv, NoGap
  <1> QED BY <1>1, <1>2, <1>3, <1>4 DEF Compute

\* Every step of CloseRound reads the frozen inputs.
LEMMA StagePreserved ==
  ASSUME FreezeInputs, PoliciesAreImmutable, InputsInv, [Next]_vars,
         NEW c \in Closers, StageInv(c)
  PROVE  StageInv(c)'
  <1>1. TypeOK
    BY DEF InputsInv
  <1>2. CASE closing'[c] = closing[c]
    BY <1>2, StageStays
  <1>3. ASSUME closing[c].pc \in {"program", "receipts", "awards", "carry", "gap"},
               NEW m, m = closing[c].month
        PROVE  /\ m \in attempted
               /\ ProgramsFor(m)' = ProgramsFor(m)
               /\ MonthReceipts(m)' = MonthReceipts(m)
               /\ Weighing(m)' = Weighing(m)
    <2>1. closing[c] # Idle
      BY <1>3 DEF Idle
    <2>2. m \in attempted
      BY <1>1, <1>3, <2>1 DEF TypeOK
    <2> QED BY <2>2, DueIsFrozen
  <1>4. ASSUME ReadStep(c) PROVE StageInv(c)'
    <2>1. ASSUME NEW m \in Months, NEW t \in Instants, StartClose(c, m, t)
          PROVE  StageInv(c)'
      <3>1. closing'[c] = [pc |-> "program", month |-> m]
        BY <1>1, <2>1 DEF StartClose, TypeOK
      <3> QED BY <3>1 DEF StageInv
    <2>2. CASE ReadProgram(c)
      <3>1. CASE GiveUp(c)
        BY <1>1, <3>1, GivenUp
      <3>2. ASSUME NEW p \in ProgramsFor(closing[c].month),
                   closing' = [closing EXCEPT ![c] =
                                 [pc |-> "receipts", month |-> closing[c].month,
                                  program |-> p]]
            PROVE  StageInv(c)'
        <4>1. PICK m : m = closing[c].month
          OBVIOUS
        <4>2. closing'[c] = [pc |-> "receipts", month |-> m, program |-> p]
          BY <1>1, <3>2, <4>1 DEF TypeOK
        <4>3. p \in ProgramsFor(m)'
          BY <1>3, <2>2, <3>2, <4>1 DEF ReadProgram
        <4> QED BY <4>2, <4>3 DEF StageInv
      <3> QED BY <2>2, <3>1, <3>2 DEF ReadProgram
    <2>3. CASE ReadReceipts(c)
      <3>1. PICK m, p : m = closing[c].month /\ p = closing[c].program
        OBVIOUS
      <3>2. closing'[c] = [pc |-> "awards", month |-> m, program |-> p,
                           receipts |-> MonthReceipts(m)]
        BY <1>1, <2>3, <3>1 DEF ReadReceipts, TypeOK, MonthReceipts
      <3>3. p \in ProgramsFor(m)' /\ MonthReceipts(m)' = MonthReceipts(m)
        BY <1>3, <2>3, <3>1 DEF ReadReceipts, StageInv
      <3> QED BY <3>2, <3>3 DEF StageInv
    <2>4. CASE ReadAwards(c)
      <3>1. PICK m, p, rs, as :
              /\ m = closing[c].month /\ p = closing[c].program
              /\ rs = closing[c].receipts
              /\ as = {a \in Docs(awards) : a.status = "approved"}
        OBVIOUS
      <3>2. closing'[c] = [pc |-> "carry", month |-> m, program |-> p,
                           receipts |-> rs, awards |-> as]
        BY <1>1, <2>4, <3>1 DEF ReadAwards, TypeOK
      <3>3. ActiveAwards(as, m) = Weighing(m)
        BY <3>1 DEF ActiveAwards, Weighing
      <3>4. /\ p \in ProgramsFor(m)' /\ rs = MonthReceipts(m)'
            /\ Weighing(m)' = Weighing(m)
        BY <1>3, <2>4, <3>1 DEF ReadAwards, StageInv
      <3> QED BY <3>2, <3>3, <3>4 DEF StageInv
    <2>5. CASE ReadPrevious(c)
      <3>1. PICK m : m = closing[c].month
        OBVIOUS
      <3>2. closing[c].pc = "carry" /\ rounds' = rounds
        BY <2>5 DEF ReadPrevious
      <3>3. CASE closing' = [closing EXCEPT ![c].pc = "gap"]
        <4>1. /\ closing'[c].pc = "gap"
              /\ closing'[c].month = closing[c].month
              /\ closing'[c].program = closing[c].program
              /\ closing'[c].receipts = closing[c].receipts
              /\ closing'[c].awards = closing[c].awards
          BY <1>1, <3>2, <3>3 DEF TypeOK
        <4> QED BY <3>2, <4>1, StageStays
      <3>4. CASE Has(rounds, m - 1) /\ Compute(c, rounds[m - 1].unallocated)
        <4>1. PICK carryforward : carryforward = rounds[m - 1].unallocated
          OBVIOUS
        <4>2. carryforward = CarryInto(m) /\ NoGap(m)
          BY <3>4, <4>1 DEF CarryInto, NoGap
        <4> QED BY <3>1, <3>2, <3>4, <4>1, <4>2, ComputesDue
      <3> QED BY <2>5, <3>1, <3>3, <3>4 DEF ReadPrevious
    <2>6. CASE ReadRounds(c)
      <3>1. PICK m : m = closing[c].month
        OBVIOUS
      <3>2. closing[c].pc = "gap" /\ rounds' = rounds
        BY <2>6 DEF ReadRounds
      <3>3. CASE GiveUp(c)
        BY <1>1, <3>3, GivenUp
      <3>4. CASE (\A k \in DOMAIN rounds : k >= m) /\ Compute(c, 0)
        <4>1. m \in Int
          BY <1>1, <1>3, <3>1, <3>2, MonthsAssumption DEF TypeOK
        <4>2. 0 = CarryInto(m) /\ NoGap(m)
          BY <3>4, <4>1 DEF CarryInto, NoGap, Has
        <4> QED BY <3>1, <3>2, <3>4, <4>2, ComputesDue
      <3> QED BY <2>6, <3>1, <3>3, <3>4 DEF ReadRounds
    <2>7. CASE Fail(c)
      BY <1>1, <2>7, GivenUp DEF Fail
    <2> QED BY <1>4, <2>1, <2>2, <2>3, <2>4, <2>5, <2>6, <2>7 DEF ReadStep
  <1>5. ASSUME StoreObligation(c) PROVE StageInv(c)'
    <2>1. PICK acct : closing' = [closing EXCEPT ![c].pending = closing[c].pending \ {acct}]
      BY <1>5 DEF StoreObligation
    <2>2. /\ closing'[c].pc = "store" /\ closing[c].pc = "store"
          /\ closing'[c].month = closing[c].month
          /\ closing'[c].program = closing[c].program
          /\ closing'[c].round = closing[c].round
      BY <1>1, <1>5, <2>1 DEF StoreObligation, TypeOK
    <2> QED BY <2>2, StageStays
  <1>6. ASSUME CommitRound(c) PROVE StageInv(c)'
    BY <1>1, <1>6, GivenUp DEF CommitRound
  <1>7. CASE \/ \E r \in ReceiptDocs : ImportReceipt(r)
             \/ \E id \in DOMAIN obligations, to \in PayoutStates : Transition(id, to)
             \/ UNCHANGED closeVars
    <2>1. closing' = closing
      BY <1>7 DEF ImportReceipt, Transition, closeVars
    <2> QED BY <1>2, <2>1
  <1>8. ASSUME NEW d \in Closers, d # c,
               ReadStep(d) \/ StoreObligation(d) \/ CommitRound(d)
        PROVE  StageInv(c)'
    BY <1>1, <1>2, <1>8, OthersStay
  <1> QED BY <1>4, <1>5, <1>6, <1>7, <1>8, NextCases

-----------------------------------------------------------------------------
(***************************************************************************)
(* The stored rounds and obligations are those that are due, so that a     *)
(* close finds nothing but what it would store itself.                     *)
(***************************************************************************)
RoundsAreDue ==
  \A m \in DOMAIN rounds : \A p \in ProgramsFor(m) : rounds[m] = Due(m, p)

FrozenInv ==
  /\ IInv /\ InputsInv /\ RoundsAreDue
  /\ rounds = [m \in DOMAIN rounds |-> rounds[m]]
  /\ \A c \in Closers : StageInv(c)
  /\ \A id \in DOMAIN obligations : ObligationInv(id)

\* The closer that stores its results holds the round that is due.
LEMMA StoringDue ==
  ASSUME PoliciesAreImmutable, FrozenInv, NEW c \in Closers,
         closing[c].pc = "store"
  PROVE  /\ closing[c].month \in attempted
         /\ closing[c].program \in ProgramsFor(closing[c].month)
         /\ \A p \in ProgramsFor(closing[c].month) :
              closing[c].round = Due(closing[c].month, p)
         /\ NoGap(closing[c].month)
  <1>1. PICK m, q : m = closing[c].month /\ q = closing[c].program
    OBVIOUS
  <1>2. StageInv(c) /\ ProgramsInv /\ TypeOK
    BY DEF FrozenInv, InputsInv
  <1>3. q \in ProgramsFor(m) /\ closing[c].round = Due(m, q) /\ NoGap(m)
    BY <1>1, <1>2 DEF StageInv, NoGap
  <1>4. \A p \in ProgramsFor(m) : p = q
    BY <1>2, <1>3, ProgramIsUnique
  <1>5. closing[c] # Idle
    BY DEF Idle
  <1>6. m \in attempted
    BY <1>1, <1>2, <1>5 DEF TypeOK
  <1> QED BY <1>1, <1>3, <1>4, <1>6

\* The round that is committed is the one that is due.
LEMMA RoundsPreserved ==
  ASSUME FreezeInputs, PoliciesAreImmutable, FrozenInv, [Next]_vars
  PROVE  RoundsAreDue' /\ rounds' = [m \in DOMAIN rounds' |-> rounds'[m]]
  <1>1. RoundsKept
    BY RoundsGrow
  <1>2. ASSUME NEW m \in DOMAIN rounds, NEW p, p \in ProgramsFor(m)'
        PROVE  rounds'[m] = Due(m, p)'
    <2>1. m \in attempted
      BY DEF FrozenInv, IInv, TypeOK
    <2>2. ProgramsFor(m)' = ProgramsFor(m) /\ Due(m, p)' = Due(m, p)
      BY <2>1, DueIsFrozen DEF FrozenInv
    <2>3. rounds[m] = Due(m, p)
      BY <1>2, <2>2 DEF FrozenInv, RoundsAreDue
    <2> QED BY <1>1, <2>2, <2>3 DEF RoundsKept
  <1>3. CASE rounds' = rounds
    BY <1>2, <1>3 DEF RoundsAreDue, FrozenInv
  <1>4. ASSUME NEW c \in Closers, CommitRound(c), ~Has(rounds, closing[c].month),
               rounds' = Put(rounds, closing[c].month, closing[c].round)
        PROVE  RoundsAreDue' /\ rounds' = [m \in DOMAIN rounds' |-> rounds'[m]]
    <2>1. PICK m : m = closing[c].month
      OBVIOUS
    <2>2. /\ m \in attempted
          /\ \A p \in ProgramsFor(m) : closing[c].round = Due(m, p)
      BY <1>4, <2>1, StoringDue DEF CommitRound
    <2>3. ASSUME NEW p, p \in ProgramsFor(m)' PROVE rounds'[m] = Due(m, p)'
      <3>1. ProgramsFor(m)' = ProgramsFor(m) /\ Due(m, p)' = Due(m, p)
        BY <2>2, DueIsFrozen DEF FrozenInv
      <3>2. rounds'[m] = closing[c].round
        BY <1>4, <2>1 DEF Put
      <3> QED BY <2>2, <2>3, <3>1, <3>2
    <2>4. \A k \in DOMAIN rounds' : k \in DOMAIN rounds \/ k = m
      BY <1>4, <2>1 DEF Put
    <2>5. RoundsAreDue'
      BY <1>2, <2>3, <2>4 DEF RoundsAreDue
    <2>6. rounds' = [k \in DOMAIN rounds' |-> rounds'[k]]
      BY <1>4 DEF Put
    <2> QED BY <2>5, <2>6
  <1> QED BY <1>3, <1>4, RoundSteps

\* Payment moves obligations of closed months only, and only StoreObligation
\* adds one: of the payee it is for, at the amount that is due.
LEMMA ObligationSteps ==
  ASSUME FreezeInputs, [Next]_vars
  PROVE  \/ obligations' = obligations
         \/ \E c \in Closers : /\ StoreObligation(c) /\ obligations' # obligations
         \/ \E id \in DOMAIN obligations, to \in PayoutStates :
              /\ Transition(id, to) /\ Has(rounds, id[1])
  <1>1. CASE UNCHANGED closeVars
    BY <1>1 DEF closeVars
  <1>2. ASSUME NEW c \in Closers, ReadStep(c) PROVE obligations' = obligations
    BY <1>2 DEF ReadStep, StartClose, ReadProgram, ReadReceipts, ReadAwards,
                ReadPrevious, ReadRounds, Fail
  <1>3. ASSUME NEW c \in Closers, CommitRound(c) PROVE obligations' = obligations
    BY <1>3 DEF CommitRound
  <1>4. ASSUME NEW r \in ReceiptDocs, ImportReceipt(r) PROVE obligations' = obligations
    BY <1>4 DEF ImportReceipt
  <1>5. ASSUME NEW id \in DOMAIN obligations, NEW to \in PayoutStates,
               Transition(id, to)
        PROVE  Has(rounds, id[1])
    BY <1>5 DEF Transition, PayoutAllowed
  <1> QED BY <1>1, <1>2, <1>3, <1>4, <1>5, NextCases

StoredAsDue(m, acct, d) ==
  /\ m \in attempted /\ ~Has(rounds, m) /\ ~Has(obligations, <<m, acct>>)
  /\ obligations' = Put(obligations, <<m, acct>>, d)
  /\ d.state = "earned" /\ DOMAIN d = {"amount", "due", "state"}
  /\ \A p \in ProgramsFor(m) : /\ acct \in Payees(Due(m, p))
                               /\ d.amount = Due(m, p).ents[acct].amount

\* An obligation that is stored is due, and its month is still open.
LEMMA ObligationStored ==
  ASSUME PoliciesAreImmutable, FrozenInv, NEW c \in Closers,
         StoreObligation(c), obligations' # obligations
  PROVE  \E m, acct, d : StoredAsDue(m, acct, d)
  <1>1. PICK m, q, round :
          /\ m = closing[c].month /\ q = closing[c].program
          /\ round = closing[c].round
    OBVIOUS
  <1>2. closing[c].pc = "store"
    BY DEF StoreObligation
  <1>3. /\ m \in attempted /\ q \in ProgramsFor(m)
        /\ \A p \in ProgramsFor(m) : round = Due(m, p)
    BY <1>1, <1>2, StoringDue
  <1>4. PICK acct, d :
          /\ acct \in closing[c].pending
          /\ d = NewObligation(q, round, acct)
          /\ ~Has(obligations, <<m, acct>>)
          /\ obligations' = Put(obligations, <<m, acct>>, d)
    BY <1>1 DEF StoreObligation, ObligationID
  <1>5. acct \in Payees(round)
    BY <1>1, <1>2, <1>4 DEF FrozenInv, IInv, CloserInv
  <1>6. /\ d.state = "earned" /\ d.amount = round.ents[acct].amount
        /\ DOMAIN d = {"amount", "due", "state"}
    BY <1>4 DEF NewObligation
  <1>7. ~Has(rounds, m)
    <2> SUFFICES ASSUME Has(rounds, m) PROVE FALSE
      OBVIOUS
    <2>1. rounds[m] = round
      BY <1>3 DEF FrozenInv, RoundsAreDue, Has
    <2>2. Has(obligations, <<m, acct>>)
      BY <1>5, <2>1 DEF FrozenInv, IInv, ObligationsBackRound, ObligationID, Has
    <2> QED BY <1>4, <2>2
  <1>8. \A p \in ProgramsFor(m) : /\ acct \in Payees(Due(m, p))
                                  /\ d.amount = Due(m, p).ents[acct].amount
    BY <1>3, <1>5, <1>6
  <1>9. StoredAsDue(m, acct, d)
    BY <1>3, <1>4, <1>6, <1>7, <1>8 DEF StoredAsDue
  <1> QED BY <1>9

\* Obligations stay those that are due.
LEMMA ObligationsPreserved ==
  ASSUME FreezeInputs, PoliciesAreImmutable, FrozenInv, [Next]_vars,
         NEW id, id \in DOMAIN obligations'
  PROVE  ObligationInv(id)'
  <1>1. CASE id \in DOMAIN obligations
    <2>1. PICK m : m = id[1]
      OBVIOUS
    <2>2. m \in attempted /\ ObligationInv(id)
      BY <1>1, <2>1 DEF FrozenInv, IInv, TypeOK
    <2>3. ProgramsFor(m)' = ProgramsFor(m) /\ \A p : Due(m, p)' = Due(m, p)
      BY <2>2, DueIsFrozen DEF FrozenInv
    <2>4. obligations'[id].amount = obligations[id].amount
      BY <1>1, ObligationsGrow DEF ObligationsKept
    <2>5. ASSUME ~Has(rounds', m) PROVE obligations'[id].state = "earned"
      <3>1. ~Has(rounds, m)
        BY <2>5, RoundsGrow DEF RoundsKept, Has
      <3>2. obligations[id].state = "earned"
        BY <2>1, <2>2, <3>1 DEF ObligationInv
      <3>3. obligations'[id] = obligations[id]
        <4>1. CASE obligations' = obligations
          BY <4>1
        <4>2. ASSUME NEW c \in Closers, StoreObligation(c),
                     obligations' # obligations
              PROVE  obligations'[id] = obligations[id]
          <5>1. PICK i, d : /\ ~Has(obligations, i)
                            /\ obligations' = Put(obligations, i, d)
            BY <4>2, ObligationStored DEF StoredAsDue
          <5> QED BY <1>1, <5>1 DEF Put, Has
        <4>3. ASSUME NEW i \in DOMAIN obligations, NEW to \in PayoutStates,
                     Transition(i, to), Has(rounds, i[1])
              PROVE  obligations'[id] = obligations[id]
          <5>1. i # id
            BY <2>1, <3>1, <4>3
          <5>2. \E d : obligations' = Put(obligations, i, d)
            BY <4>3 DEF Transition
          <5> QED BY <1>1, <5>1, <5>2 DEF Put
        <4> QED BY <4>1, <4>2, <4>3, ObligationSteps
      <3> QED BY <3>2, <3>3
    <2>6. \A p : p \in ProgramsFor(m)' =>
            /\ id[2] \in Payees(Due(m, p)')
            /\ obligations'[id].amount = Due(m, p)'.ents[id[2]].amount
      BY <2>1, <2>2, <2>3, <2>4 DEF ObligationInv
    <2>7. id = <<id[1], id[2]>>
      BY <2>2 DEF ObligationInv
    <2>8. DOMAIN obligations'[id] = DOMAIN obligations[id]
      <3>1. CASE obligations' = obligations
        BY <3>1
      <3>2. ASSUME NEW c \in Closers, StoreObligation(c),
                   obligations' # obligations
            PROVE  DOMAIN obligations'[id] = DOMAIN obligations[id]
        <4>1. PICK i, d : /\ ~Has(obligations, i)
                          /\ obligations' = Put(obligations, i, d)
          BY <3>2, ObligationStored DEF StoredAsDue
        <4> QED BY <1>1, <4>1 DEF Put, Has
      <3>3. ASSUME NEW i \in DOMAIN obligations, NEW to \in PayoutStates,
                   Transition(i, to)
            PROVE  DOMAIN obligations'[id] = DOMAIN obligations[id]
        <4>1. PICK d : /\ obligations' = Put(obligations, i, d)
                       /\ DOMAIN d = DOMAIN obligations[i]
          BY <3>3 DEF Transition
        <4> QED BY <1>1, <4>1 DEF Put
      <3> QED BY <3>1, <3>2, <3>3, ObligationSteps
    <2>9. DOMAIN obligations'[id] = {"amount", "due", "state"}
      BY <2>2, <2>8 DEF ObligationInv
    <2> QED BY <2>1, <2>5, <2>6, <2>7, <2>9 DEF ObligationInv
  <1>2. CASE id \notin DOMAIN obligations
    <2>1. PICK c \in Closers : StoreObligation(c) /\ obligations' # obligations
      <3>1. ASSUME NEW i \in DOMAIN obligations, NEW to \in PayoutStates,
                   Transition(i, to)
            PROVE  FALSE
        BY <1>2, <3>1 DEF Transition, Put
      <3> QED BY <1>2, <3>1, ObligationSteps
    <2>2. PICK m, acct, d : StoredAsDue(m, acct, d)
      BY <2>1, ObligationStored
    <2>3. id = <<m, acct>> /\ obligations'[id] = d
      BY <1>2, <2>2 DEF StoredAsDue, Put
    <2>4. ProgramsFor(m)' = ProgramsFor(m) /\ \A p : Due(m, p)' = Due(m, p)
      BY <2>2, DueIsFrozen DEF FrozenInv, StoredAsDue
    <2>5. id[1] = m /\ id[2] = acct
      BY <2>3
    <2>6. \A p : p \in ProgramsFor(m)' =>
            /\ acct \in Payees(Due(m, p)')
            /\ d.amount = Due(m, p)'.ents[acct].amount
      BY <2>2, <2>4 DEF StoredAsDue
    <2> QED BY <2>2, <2>3, <2>5, <2>6 DEF ObligationInv, StoredAsDue
  <1> QED BY <1>1, <1>2

\* The inductive invariant behind the refinement.
LEMMA FrozenInvariance ==
  ASSUME FreezeInputs, PoliciesAreImmutable
  PROVE  Spec => []FrozenInv
  <1>1. Init => FrozenInv
    <2> SUFFICES ASSUME Init PROVE FrozenInv
      OBVIOUS
    <2>1. IInv
      BY InitIInv
    <2>2. ProgramsInv /\ AwardsInv
      BY InitProgramsInv, InitAwardsInv DEF Init
    <2>3. /\ rounds = EmptyCollection /\ obligations = EmptyCollection
          /\ attempted = {} /\ closing = [c \in Closers |-> Idle]
      BY DEF Init
    <2>4. InputsInv
      BY <2>1, <2>2, <2>3 DEF InputsInv, IInv, InOrder
    <2>5. \A c \in Closers : StageInv(c)
      BY <2>3 DEF StageInv, Idle
    <2>6. DOMAIN rounds = {} /\ DOMAIN obligations = {}
      BY <2>3 DEF EmptyCollection
    <2>7. rounds = [m \in DOMAIN rounds |-> rounds[m]]
      BY <2>3 DEF EmptyCollection
    <2> QED BY <2>1, <2>4, <2>5, <2>6, <2>7 DEF FrozenInv, RoundsAreDue
  <1>2. FrozenInv /\ [Next]_vars => FrozenInv'
    <2> SUFFICES ASSUME FrozenInv, [Next]_vars PROVE FrozenInv'
      OBVIOUS
    <2>1. IInv'
      BY TypeOKPreserved, CloserInvPreserved, StoredRoundsPreserved
         DEF IInv, FrozenInv
    <2>2. InputsInv'
      BY InputsPreserved DEF FrozenInv
    <2>3. \A c \in Closers : StageInv(c)'
      BY StagePreserved DEF FrozenInv
    <2>4. \A id \in DOMAIN obligations' : ObligationInv(id)'
      BY ObligationsPreserved
    <2> QED BY <2>1, <2>2, <2>3, <2>4, RoundsPreserved DEF FrozenInv
  <1> QED BY <1>1, <1>2, PTL DEF Spec

-----------------------------------------------------------------------------
(***************************************************************************)
(* The refinement mapping.  payable holds the obligations of the months    *)
(* that are closed.                                                        *)
(***************************************************************************)
Settled == {i \in DOMAIN obligations : Has(rounds, i[1])}
Payable == [id \in Settled |-> [amount |-> obligations[id].amount,
                                state |-> obligations[id].state]]

\* The mapped obligations, pointwise.
LEMMA PayableFacts ==
  /\ DOMAIN Payable = Settled
  /\ \A id \in Settled : Payable[id] = [amount |-> obligations[id].amount,
                                        state |-> obligations[id].state]
  BY DEF Payable

\* Nothing is closed and nothing is payable at first.
LEMMA InitRefines == Init => Book!Init
  <1> SUFFICES ASSUME Init PROVE Book!Init
    OBVIOUS
  <1>1. rounds = EmptyCollection /\ obligations = EmptyCollection
    BY DEF Init
  <1>2. {i \in DOMAIN obligations : Has(rounds, i[1])} = {}
    BY <1>1 DEF EmptyCollection
  <1>3. Book!EmptyCollection = EmptyCollection
    BY DEF Book!EmptyCollection, EmptyCollection
  <1>4. [id \in {i \in DOMAIN obligations : Has(rounds, i[1])} |->
           [amount |-> obligations[id].amount, state |-> obligations[id].state]]
          = EmptyCollection
    BY <1>2 DEF EmptyCollection
  <1> QED BY <1>1, <1>3, <1>4 DEF Book!Init

\* An obligation that is stored before its round is out of sight, and one
\* whose round is there exists already.
LEMMA StoreStutters ==
  ASSUME PoliciesAreImmutable, FrozenInv, NEW c \in Closers,
         StoreObligation(c), obligations' # obligations
  PROVE  UNCHANGED <<rounds, Payable>>
  <1>1. rounds' = rounds
    BY DEF StoreObligation
  <1>2. PICK m, acct, d : StoredAsDue(m, acct, d)
    BY ObligationStored
  <1>3. PICK i : i = <<m, acct>>
    OBVIOUS
  <1>4. /\ ~Has(obligations, i) /\ obligations' = Put(obligations, i, d)
        /\ ~Has(rounds, i[1])
    BY <1>2, <1>3 DEF StoredAsDue
  <1>5. Settled' = Settled
    BY <1>1, <1>4 DEF Settled, Put, Has
  <1>6. \A id \in Settled : obligations'[id] = obligations[id]
    BY <1>4 DEF Settled, Put, Has
  <1> QED BY <1>1, <1>5, <1>6 DEF Payable

\* Paying an obligation of a closed month.
LEMMA TransitionPays ==
  ASSUME FrozenInv, NEW id \in DOMAIN obligations, NEW to \in PayoutStates,
         Transition(id, to), Has(rounds, id[1])
  PROVE  id \in Settled /\ Book!Pay(id)
  <1>1. PICK o, d :
          /\ o = obligations[id] /\ d = [o EXCEPT !.state = to]
          /\ <<o.state, to>> \in LegalTransitions
          /\ obligations' = Put(obligations, id, d) /\ rounds' = rounds
    BY DEF Transition
  <1>2. DOMAIN o = {"amount", "due", "state"}
    BY <1>1 DEF FrozenInv, ObligationInv
  <1>3. d.state = to /\ d.amount = o.amount
    BY <1>1, <1>2
  <1>4. id \in Settled /\ Settled' = Settled
    BY <1>1 DEF Settled, Put
  <1>5. /\ obligations'[id] = d
        /\ \A i \in Settled : i # id => obligations'[i] = obligations[i]
    BY <1>1 DEF Settled, Put
  <1>6. to \in {step[2] : step \in LegalTransitions}
    <2>1. PICK step : step = <<o.state, to>>
      OBVIOUS
    <2>2. step \in LegalTransitions /\ step[2] = to
      BY <1>1, <2>1
    <2> QED BY <2>2
  <1>7. Payable[id] = [amount |-> o.amount, state |-> o.state]
    BY <1>1, <1>4, PayableFacts
  <1>8. Payable' = [Payable EXCEPT ![id].state = to]
    <2>1. PICK f, g : f = Payable /\ g = Payable'
      OBVIOUS
    <2>2. f = [i \in Settled |-> [amount |-> obligations[i].amount,
                                  state |-> obligations[i].state]]
      BY <2>1 DEF Payable
    <2>3. g = [i \in Settled |-> [amount |-> obligations'[i].amount,
                                  state |-> obligations'[i].state]]
      BY <1>4, <2>1 DEF Payable
    <2>4. g[id] = [amount |-> o.amount, state |-> to]
      BY <1>3, <1>4, <1>5, <2>3
    <2>5. f[id] = [amount |-> o.amount, state |-> o.state]
      BY <1>1, <1>4, <2>2
    <2>6. g[id] = [f[id] EXCEPT !.state = to]
      BY <2>4, <2>5
    <2>7. \A i \in Settled : i # id => g[i] = f[i]
      BY <1>5, <2>2, <2>3
    <2>8. PICK h : h = [f EXCEPT ![id] = g[id]]
      OBVIOUS
    <2>9. g = h
      <3>1. DOMAIN g = Settled /\ g = [i \in Settled |-> g[i]]
        BY <2>3
      <3>2. DOMAIN f = Settled
        BY <2>2
      <3>3. DOMAIN h = Settled /\ h = [i \in Settled |-> h[i]]
        BY <2>8, <3>2
      <3>4. \A i \in Settled : g[i] = h[i]
        BY <1>4, <2>7, <2>8, <3>2
      <3> QED BY <3>1, <3>3, <3>4
    <2>10. g = [f EXCEPT ![id] = [f[id] EXCEPT !.state = to]]
      BY <2>6, <2>8, <2>9
    <2> QED BY <2>1, <2>10
  <1>9. Payable[id].state = o.state
    BY <1>7
  <1>10. <<Payable[id].state, to>> \in LegalTransitions
    BY <1>1, <1>9
  <1> QED BY <1>1, <1>4, <1>6, <1>8, <1>10 DEF Book!Pay, Payable, Settled

\* The commit of a round: at once its obligations come in sight, all of them,
\* at the published amounts and unpaid.
LEMMA CommitCloses ==
  ASSUME FreezeInputs, PoliciesAreImmutable, FrozenInv, NEW c \in Closers,
         CommitRound(c), ~Has(rounds, closing[c].month),
         rounds' = Put(rounds, closing[c].month, closing[c].round)
  PROVE  \E m \in Months : Book!Close(m)
  <1>1. PICK m, r, p : /\ m = closing[c].month /\ r = closing[c].round
                       /\ p = closing[c].program
    OBVIOUS
  <1>2. closing[c].pc = "store" /\ closing[c].pending = {} /\ obligations' = obligations
    BY DEF CommitRound
  <1>3. /\ m \in attempted /\ p \in ProgramsFor(m) /\ r = Due(m, p) /\ NoGap(m)
        /\ \A q \in ProgramsFor(m) : r = Due(m, q)
    BY <1>1, <1>2, StoringDue
  <1>4. m \in Months
    BY <1>3 DEF FrozenInv, IInv, TypeOK
  <1>5. m \in Int /\ \A k \in attempted : k \in Int /\ k <= m
    BY <1>1, AddedIsLast DEF FrozenInv, InputsInv
  <1>6. \A k \in DOMAIN rounds : k \in attempted /\ k # m
    BY <1>1 DEF FrozenInv, IInv, TypeOK, Has
  <1>7. \A k \in DOMAIN rounds : k < m
    BY <1>5, <1>6
  <1>8. rounds # EmptyCollection => Has(rounds, m - 1)
    <2> SUFFICES ASSUME ~Has(rounds, m - 1) PROVE rounds = EmptyCollection
      OBVIOUS
    <2>1. \A k \in DOMAIN rounds : k >= m
      BY <1>3 DEF NoGap
    <2>2. ASSUME NEW k \in DOMAIN rounds PROVE FALSE
      <3>1. k \in Int /\ k < m /\ k >= m
        BY <1>5, <1>6, <1>7, <2>1
      <3> QED BY <1>5, <3>1
    <2>3. rounds = [k \in DOMAIN rounds |-> rounds[k]]
      BY DEF FrozenInv
    <2> QED BY <2>2, <2>3 DEF EmptyCollection
  <1>9. Book!Closable(m)
    BY <1>7, <1>8 DEF Book!Closable, Book!Has, Has, Book!EmptyCollection,
                      EmptyCollection
  <1>10. DOMAIN rounds' = DOMAIN rounds \cup {m} /\ rounds'[m] = r
    BY <1>1 DEF Put
  <1>11. rounds' = Book!Put(rounds, m, rounds'[m])
    BY <1>1, <1>10 DEF Put, Book!Put
  <1>12. r.carry = CarryInto(m) /\ r.unallocated = r.pool - AllocatedCents(r.ents)
    BY <1>3 DEF Due, ComputeRound
  <1>13. CarryInto(m) = Book!Carried(m)
    BY DEF CarryInto, Book!Carried, Has, Book!Has
  <1>14. Settled' = Settled \cup {<<m, acct>> : acct \in Payees(r)}
    <2>1. ASSUME NEW i \in Settled' PROVE i \in Settled \cup {<<m, acct>> : acct \in Payees(r)}
      <3>1. i \in DOMAIN obligations /\ (Has(rounds, i[1]) \/ i[1] = m)
        BY <1>2, <1>10, <2>1 DEF Settled, Has
      <3>2. CASE i[1] = m
        <4>1. i = <<m, i[2]>> /\ i[2] \in Payees(r)
          BY <1>3, <3>1, <3>2 DEF FrozenInv, ObligationInv
        <4> QED BY <4>1
      <3> QED BY <3>1, <3>2 DEF Settled
    <2>2. ASSUME NEW acct \in Payees(r) PROVE <<m, acct>> \in Settled'
      <3>1. <<m, acct>> \in DOMAIN obligations
        BY <1>1, <1>2 DEF FrozenInv, IInv, CloserInv, ObligationID, Has
      <3> QED BY <1>2, <1>10, <3>1 DEF Settled, Has
    <2>3. ASSUME NEW i \in Settled PROVE i \in Settled'
      BY <1>2, <1>10 DEF Settled, Has
    <2> QED BY <2>1, <2>2, <2>3
  <1>15. ASSUME NEW i \in Settled' PROVE
           [amount |-> obligations'[i].amount, state |-> obligations'[i].state]
             = IF i \in Settled THEN Payable[i]
               ELSE [amount |-> r.ents[i[2]].amount, state |-> "earned"]
    <2>1. CASE i \in Settled
      BY <1>2, <2>1, PayableFacts
    <2>2. CASE i \notin Settled
      <3>1. i \in DOMAIN obligations
        BY <1>2, <1>15 DEF Settled
      <3>2. i[1] = m /\ ~Has(rounds, i[1])
        BY <1>14, <1>15, <2>2, <3>1 DEF Settled
      <3>3. obligations[i].amount = r.ents[i[2]].amount
        BY <1>3, <3>1, <3>2 DEF FrozenInv, ObligationInv
      <3>4. obligations[i].state = "earned"
        BY <3>1, <3>2 DEF FrozenInv, ObligationInv
      <3> QED BY <1>2, <2>2, <3>3, <3>4
    <2> QED BY <2>1, <2>2
  <1>16. Payable' = [i \in Settled \cup {<<m, acct>> : acct \in Payees(r)} |->
                       IF i \in Settled THEN Payable[i]
                       ELSE [amount |-> r.ents[i[2]].amount, state |-> "earned"]]
    <2>1. Payable' = [i \in Settled' |-> [amount |-> obligations'[i].amount,
                                          state |-> obligations'[i].state]]
      BY DEF Payable
    <2>2. PICK S : S = Settled'
      OBVIOUS
    <2>3. Payable' = [i \in S |-> IF i \in Settled THEN Payable[i]
                                  ELSE [amount |-> r.ents[i[2]].amount,
                                        state |-> "earned"]]
      BY <1>15, <2>1, <2>2
    <2> QED BY <1>14, <2>2, <2>3
  <1>17. DOMAIN Payable = Settled
    BY PayableFacts
  <1>18. Book!Close(m)
    <2>1. PICK e, f : e = Payable /\ f = Payable'
      OBVIOUS
    <2>2. /\ e = [id \in {i \in DOMAIN obligations : Has(rounds, i[1])} |->
                    [amount |-> obligations[id].amount,
                     state |-> obligations[id].state]]
          /\ f = [id \in {i \in DOMAIN obligations' : Has(rounds', i[1])} |->
                    [amount |-> obligations'[id].amount,
                     state |-> obligations'[id].state]]
      BY <2>1 DEF Payable, Settled, Has
    <2>3. f = [i \in DOMAIN e \cup {<<m, acct>> : acct \in Payees(rounds'[m])} |->
                 IF i \in DOMAIN e THEN e[i]
                 ELSE [amount |-> rounds'[m].ents[i[2]].amount,
                       state |-> "earned"]]
      BY <1>10, <1>16, <1>17, <2>1
    <2> QED BY <1>9, <1>10, <1>11, <1>12, <1>13, <2>2, <2>3 DEF Book!Close
  <1> QED BY <1>4, <1>18

\* Every step is a step of the book or out of its sight.
LEMMA NextRefines ==
  ASSUME FreezeInputs, PoliciesAreImmutable, FrozenInv, [Next]_vars
  PROVE  [Book!Next]_(Book!bookVars)
  <1>1. ASSUME UNCHANGED <<rounds, Payable>> PROVE UNCHANGED Book!bookVars
    BY <1>1 DEF Book!bookVars, Payable, Settled
  <1>2. ASSUME rounds' = rounds, obligations' = obligations
        PROVE  UNCHANGED <<rounds, Payable>>
    BY <1>2 DEF Payable, Settled
  <1>3. ASSUME NEW c \in Closers, CommitRound(c), ~Has(rounds, closing[c].month),
               rounds' = Put(rounds, closing[c].month, closing[c].round)
        PROVE  Book!Next
    BY <1>3, CommitCloses DEF Book!Next
  <1>4. CASE rounds' = rounds
    <2>1. CASE obligations' = obligations
      BY <1>1, <1>2, <1>4, <2>1
    <2>2. ASSUME NEW c \in Closers, StoreObligation(c), obligations' # obligations
          PROVE  UNCHANGED Book!bookVars
      BY <1>1, <2>2, StoreStutters
    <2>3. ASSUME NEW id \in DOMAIN obligations, NEW to \in PayoutStates,
                 Transition(id, to), Has(rounds, id[1])
          PROVE  Book!Next
      <3>1. id \in Settled /\ Book!Pay(id)
        BY <2>3, TransitionPays
      <3>2. id \in DOMAIN Payable
        BY <3>1, PayableFacts
      <3> QED BY <3>1, <3>2 DEF Book!Next, Payable, Settled
    <2> QED BY <2>1, <2>2, <2>3, ObligationSteps
  <1> QED BY <1>3, <1>4, RoundSteps

(***************************************************************************)
(* Within the discipline CloseRound implements the atomic close of         *)
(* RoundBook, for any number of closers, months, failures and retries:     *)
(* readers of the ledger see an append-only book without gaps whose rounds *)
(* carry over exactly the preceding balance and appear together with their *)
(* obligations.                                                            *)
(***************************************************************************)
THEOREM ClosesAreAtomic ==
  ASSUME FreezeInputs, PoliciesAreImmutable
  PROVE  Spec => ImplementsRoundBook
  <1>1. Spec => []FrozenInv
    BY FrozenInvariance
  <1>2. FrozenInv /\ [Next]_vars => [Book!Next]_(Book!bookVars)
    BY NextRefines
  <1> QED BY <1>1, <1>2, InitRefines, PTL DEF Spec, ImplementsRoundBook, Book!Spec

-----------------------------------------------------------------------------
(***************************************************************************)
(* Sums.  Total is a fold, defined by recursion over finite sets; what it  *)
(* computes is proved by induction.  The well-founded minimum of           *)
(* WellFoundedInduction takes a set, so an induction here goes through the *)
(* set G of the subsets that are good.                                     *)
(***************************************************************************)
\* A set of naturals has a least element.
LEMMA NatMin ==
  ASSUME NEW T \in SUBSET Nat, T # {}
  PROVE  \E n \in T : \A m \in T : n <= m
  <1>1. PICK R : R = OpToRel(<, Nat)
    OBVIOUS
  <1>2. IsWellFoundedOn(R, Nat)
    BY <1>1, NatLessThanWellFounded
  <1>3. \E x \in T : \A y \in T : ~ (<<y, x>> \in R)
    BY <1>2, WFMin
  <1>4. R = {ss \in Nat \X Nat : ss[1] < ss[2]}
    BY <1>1 DEF OpToRel
  <1>5. PICK n \in T : \A m \in T : ~ (<<m, n>> \in R)
    BY <1>3
  <1>6. ASSUME NEW m \in T PROVE n <= m
    <2>1. m \in Nat /\ n \in Nat
      OBVIOUS
    <2>2. m < n => <<m, n>> \in R
      BY <1>4, <2>1
    <2> QED BY <1>5, <2>1, <2>2
  <1> QED BY <1>6

\* Induction over the subsets of a finite set: G holds all of them.
LEMMA FiniteInduction ==
  ASSUME NEW S, IsFiniteSet(S), NEW G, {} \in G,
         \A s \in SUBSET S : s # {} /\ (\A x \in s : s \ {x} \in G) => s \in G
  PROVE  S \in G
  <1> SUFFICES ASSUME S \notin G PROVE FALSE
    OBVIOUS
  <1>1. \A s \in SUBSET S : IsFiniteSet(s) /\ Cardinality(s) \in Nat
    BY FS_Subset, FS_CardinalityType
  <1>2. PICK T : T = {Cardinality(s) : s \in (SUBSET S) \ G}
    OBVIOUS
  <1>3. T \in SUBSET Nat /\ T # {}
    BY <1>1, <1>2
  <1>4. PICK n \in T : \A m \in T : n <= m
    BY <1>3, NatMin
  <1>5. PICK s \in (SUBSET S) \ G : n = Cardinality(s)
    BY <1>2, <1>4
  <1>6. ASSUME NEW x \in s PROVE s \ {x} \in G
    <2>1. Cardinality(s \ {x}) = Cardinality(s) - 1
      BY <1>1, <1>5, FS_RemoveElement
    <2>2. s \ {x} \in SUBSET S
      BY <1>5
    <2>3. n \in Nat /\ ~(n <= Cardinality(s \ {x}))
      BY <1>1, <1>5, <2>1
    <2>4. Cardinality(s \ {x}) \notin T
      BY <1>4, <2>3
    <2> QED BY <1>2, <2>2, <2>4
  <1> QED BY <1>5, <1>6

-----------------------------------------------------------------------------
\* The recursion that MapThenSumSet sums with: g holds the sums of the subsets.
First(s) == CHOOSE x \in s : TRUE
SumsUp(g, f, S) ==
  g = [s \in SUBSET S |->
         IF s = {} THEN 0 ELSE f[First(s)] + g[s \ {First(s)}]]

\* CHOOSE picks an element.
LEMMA FirstIs ==
  ASSUME NEW s, s # {} PROVE First(s) \in s
  BY DEF First

\* Total is the value at S of some solution of it.
LEMMA TotalIs ==
  ASSUME NEW f, NEW S
  PROVE  Total(f, S) = (CHOOSE g : SumsUp(g, f, S))[S]
  BY DEF Total, MapThenSumSet, MapThenFoldSet, SumsUp, First

\* The recursion determines its values on finite sets,
LEMMA SumsAreUnique ==
  ASSUME NEW f, NEW A, NEW B, NEW g, NEW h, SumsUp(g, f, A), SumsUp(h, f, B),
         NEW s, s \subseteq A, s \subseteq B, IsFiniteSet(s)
  PROVE  g[s] = h[s]
  <1>1. PICK G : G = {t \in SUBSET s : g[t] = h[t]}
    OBVIOUS
  <1>2. \A t \in SUBSET s :
          /\ g[t] = IF t = {} THEN 0 ELSE f[First(t)] + g[t \ {First(t)}]
          /\ h[t] = IF t = {} THEN 0 ELSE f[First(t)] + h[t \ {First(t)}]
    BY DEF SumsUp
  <1>3. {} \in G
    BY <1>1, <1>2
  <1>4. ASSUME NEW t \in SUBSET s, t # {}, \A x \in t : t \ {x} \in G
        PROVE  t \in G
    <2>1. First(t) \in t
      BY <1>4, FirstIs
    <2>2. g[t \ {First(t)}] = h[t \ {First(t)}]
      BY <1>1, <1>4, <2>1
    <2> QED BY <1>1, <1>2, <1>4, <2>2
  <1>5. s \in G
    BY <1>3, <1>4, FiniteInduction
  <1> QED BY <1>1, <1>5

\* and has a solution on every finite set.
LEMMA SumsExist ==
  ASSUME NEW f, NEW S, IsFiniteSet(S)
  PROVE  \E g : SumsUp(g, f, S)
  <1>1. PICK G : G = {s \in SUBSET S : \A t \in SUBSET s : \E g : SumsUp(g, f, t)}
    OBVIOUS
  <1>2. \A s \in SUBSET S : IsFiniteSet(s)
    BY FS_Subset
  <1>3. ASSUME NEW t \in SUBSET S, \A u \in SUBSET t : u # t => \E g : SumsUp(g, f, u)
        PROVE  \E g : SumsUp(g, f, t)
    <2>1. PICK g : g = [s \in SUBSET t |-> IF s = {} THEN 0
                                           ELSE f[First(s)] + Total(f, s \ {First(s)})]
      OBVIOUS
    <2>2. ASSUME NEW s \in SUBSET t, s # t
          PROVE  g[s] = Total(f, s)
      <3>1. PICK h : h = (CHOOSE k : SumsUp(k, f, s))
        OBVIOUS
      <3>2. SumsUp(h, f, s) /\ Total(f, s) = h[s]
        BY <1>3, <2>2, <3>1, TotalIs
      <3>3. CASE s = {}
        BY <2>1, <3>2, <3>3 DEF SumsUp
      <3>4. CASE s # {}
        <4>1. PICK u : u = s \ {First(s)}
          OBVIOUS
        <4>2. First(s) \in s /\ u \in SUBSET t /\ u # t /\ u \subseteq s
          BY <2>2, <3>4, <4>1, FirstIs
        <4>3. h[s] = f[First(s)] + h[u]
          BY <3>2, <3>4, <4>1 DEF SumsUp
        <4>4. PICK k : k = (CHOOSE l : SumsUp(l, f, u))
          OBVIOUS
        <4>5. SumsUp(k, f, u) /\ Total(f, u) = k[u]
          BY <1>3, <4>2, <4>4, TotalIs
        <4>6. IsFiniteSet(u)
          BY <1>2, <4>2
        <4>7. h[u] = k[u]
          BY ONLY <3>2, <4>2, <4>5, <4>6, SumsAreUnique
        <4> QED BY <2>1, <3>2, <3>4, <4>1, <4>3, <4>5, <4>7
      <3> QED BY <3>3, <3>4
    <2>3. ASSUME NEW s \in SUBSET t, s # {}
          PROVE  g[s] = f[First(s)] + g[s \ {First(s)}]
      <3>1. First(s) \in s
        BY <2>3, FirstIs
      <3>2. s \ {First(s)} \in SUBSET t /\ s \ {First(s)} # t
        BY <3>1
      <3> QED BY <2>1, <2>2, <2>3, <3>2
    <2>4. g[{}] = 0
      BY <2>1
    <2>5. g = [s \in SUBSET t |-> IF s = {} THEN 0 ELSE f[First(s)] + g[s \ {First(s)}]]
      BY <2>1, <2>3, <2>4
    <2> QED BY <2>5 DEF SumsUp
  <1>4. {} \in G
    BY <1>1, <1>3
  <1>5. ASSUME NEW s \in SUBSET S, s # {}, \A x \in s : s \ {x} \in G
        PROVE  s \in G
    <2>1. ASSUME NEW t \in SUBSET s, t # s PROVE \E g : SumsUp(g, f, t)
      <3>1. PICK x \in s : x \notin t
        BY <2>1
      <3>2. t \in SUBSET (s \ {x})
        BY <3>1
      <3> QED BY <1>1, <1>5, <3>2
    <2>2. \E g : SumsUp(g, f, s)
      BY <1>3, <2>1
    <2> QED BY <1>1, <2>1, <2>2
  <1>6. S \in G
    BY <1>4, <1>5, FiniteInduction
  <1> QED BY <1>1, <1>6

\* The recursion that MapThenSumSet stands for.
LEMMA TotalStep ==
  ASSUME NEW f, NEW S, IsFiniteSet(S)
  PROVE  /\ S = {} => Total(f, S) = 0
         /\ S # {} => Total(f, S) = f[First(S)] + Total(f, S \ {First(S)})
  <1>1. PICK g : g = (CHOOSE h : SumsUp(h, f, S))
    OBVIOUS
  <1>2. SumsUp(g, f, S) /\ Total(f, S) = g[S]
    BY <1>1, SumsExist, TotalIs
  <1>3. CASE S = {}
    BY <1>2, <1>3 DEF SumsUp
  <1>4. CASE S # {}
    <2>1. PICK u : u = S \ {First(S)}
      OBVIOUS
    <2>2. u \subseteq S /\ IsFiniteSet(u)
      BY <2>1, FS_Subset
    <2>3. PICK k : k = (CHOOSE l : SumsUp(l, f, u))
      OBVIOUS
    <2>4. SumsUp(k, f, u) /\ Total(f, u) = k[u]
      BY <2>2, <2>3, SumsExist, TotalIs
    <2>5. g[u] = k[u]
      BY ONLY <1>2, <2>2, <2>4, SumsAreUnique
    <2>6. g[S] = f[First(S)] + g[u]
      BY <1>2, <1>4, <2>1 DEF SumsUp
    <2> QED BY <1>2, <1>4, <2>1, <2>4, <2>5, <2>6
  <1> QED BY <1>3, <1>4

\* Nothing adds up to zero.
LEMMA TotalOfNone ==
  ASSUME NEW f
  PROVE  Total(f, {}) = 0
  <1>1. IsFiniteSet({})
    BY FS_EmptySet
  <1> QED BY <1>1, TotalStep

\* Integers add up to an integer.
LEMMA TotalIsInt ==
  ASSUME NEW S, IsFiniteSet(S), NEW f, \A x \in S : f[x] \in Int
  PROVE  Total(f, S) \in Int
  <1>1. PICK G : G = {s \in SUBSET S : Total(f, s) \in Int}
    OBVIOUS
  <1>2. {} \in G
    BY <1>1, TotalOfNone
  <1>3. ASSUME NEW s \in SUBSET S, s # {}, \A x \in s : s \ {x} \in G
        PROVE  s \in G
    <2>1. IsFiniteSet(s)
      BY FS_Subset
    <2>2. PICK c : c = First(s)
      OBVIOUS
    <2>3. c \in s /\ Total(f, s) = f[c] + Total(f, s \ {c})
      BY <1>3, <2>1, <2>2, FirstIs, TotalStep
    <2>4. f[c] \in Int /\ Total(f, s \ {c}) \in Int
      BY <1>1, <1>3, <2>3
    <2> QED BY <1>1, <2>3, <2>4
  <1>4. S \in G
    BY <1>2, <1>3, FiniteInduction
  <1> QED BY <1>1, <1>4

\* Any element may be taken out first.
LEMMA TotalWithout ==
  ASSUME NEW S, IsFiniteSet(S), NEW f, \A x \in S : f[x] \in Int
  PROVE  \A a \in S : Total(f, S) = f[a] + Total(f, S \ {a})
  <1>1. PICK G : G = {s \in SUBSET S : \A a \in s : Total(f, s) = f[a] + Total(f, s \ {a})}
    OBVIOUS
  <1>2. \A s \in SUBSET S : IsFiniteSet(s)
    BY FS_Subset
  <1>3. {} \in G
    BY <1>1
  <1>4. ASSUME NEW s \in SUBSET S, s # {}, \A x \in s : s \ {x} \in G
        PROVE  s \in G
    <2>1. PICK c : c = First(s)
      OBVIOUS
    <2>2. c \in s /\ Total(f, s) = f[c] + Total(f, s \ {c})
      BY <1>2, <1>4, <2>1, FirstIs, TotalStep
    <2>3. ASSUME NEW a \in s, a # c
          PROVE  Total(f, s) = f[a] + Total(f, s \ {a})
      <3>1. a \in s \ {c} /\ c \in s \ {a} /\ (s \ {c}) \ {a} = (s \ {a}) \ {c}
        BY <2>2, <2>3
      <3>2. PICK u : u = (s \ {c}) \ {a}
        OBVIOUS
      <3>3. Total(f, s \ {c}) = f[a] + Total(f, u)
        BY <1>1, <1>4, <2>2, <3>1, <3>2
      <3>4. Total(f, s \ {a}) = f[c] + Total(f, u)
        BY <1>1, <1>4, <3>1, <3>2
      <3>5. f[a] \in Int /\ f[c] \in Int
        BY <2>2
      <3>6. Total(f, u) \in Int
        <4>1. IsFiniteSet(u) /\ \A x \in u : f[x] \in Int
          BY <1>2, <3>2
        <4> QED BY <4>1, TotalIsInt
      <3> QED BY ONLY <2>2, <3>3, <3>4, <3>5, <3>6
    <2> QED BY <1>1, <2>2, <2>3
  <1>5. S \in G
    BY <1>3, <1>4, FiniteInduction
  <1> QED BY <1>1, <1>5

\* Only the values at the elements matter.
LEMMA TotalSame ==
  ASSUME NEW S, IsFiniteSet(S), NEW f, NEW g, \A x \in S : f[x] = g[x]
  PROVE  Total(f, S) = Total(g, S)
  <1>1. PICK G : G = {s \in SUBSET S : Total(f, s) = Total(g, s)}
    OBVIOUS
  <1>2. {} \in G
    BY <1>1, TotalOfNone
  <1>3. ASSUME NEW s \in SUBSET S, s # {}, \A x \in s : s \ {x} \in G
        PROVE  s \in G
    <2>1. IsFiniteSet(s)
      BY FS_Subset
    <2>2. PICK c : c = First(s)
      OBVIOUS
    <2>3. /\ c \in s /\ Total(f, s) = f[c] + Total(f, s \ {c})
          /\ Total(g, s) = g[c] + Total(g, s \ {c})
      BY <1>3, <2>1, <2>2, FirstIs, TotalStep
    <2>4. f[c] = g[c] /\ Total(f, s \ {c}) = Total(g, s \ {c})
      BY <1>1, <1>3, <2>3
    <2> QED BY <1>1, <2>3, <2>4
  <1>4. S \in G
    BY <1>2, <1>3, FiniteInduction
  <1> QED BY <1>1, <1>4

\* The sum of a sum.
LEMMA TotalOfSums ==
  ASSUME NEW S, IsFiniteSet(S), NEW f, NEW g, NEW h,
         \A x \in S : f[x] \in Int /\ g[x] \in Int /\ h[x] = f[x] + g[x]
  PROVE  Total(h, S) = Total(f, S) + Total(g, S)
  <1>1. PICK G : G = {s \in SUBSET S : Total(h, s) = Total(f, s) + Total(g, s)}
    OBVIOUS
  <1>2. {} \in G
    <2>1. Total(f, {}) = 0 /\ Total(g, {}) = 0 /\ Total(h, {}) = 0
      BY TotalOfNone
    <2> QED BY <1>1, <2>1
  <1>3. ASSUME NEW s \in SUBSET S, s # {}, \A x \in s : s \ {x} \in G
        PROVE  s \in G
    <2>1. IsFiniteSet(s)
      BY FS_Subset
    <2>2. PICK c, u : c = First(s) /\ u = s \ {c}
      OBVIOUS
    <2>3. /\ c \in s /\ Total(f, s) = f[c] + Total(f, u)
          /\ Total(g, s) = g[c] + Total(g, u)
          /\ Total(h, s) = h[c] + Total(h, u)
      BY <1>3, <2>1, <2>2, FirstIs, TotalStep
    <2>4. f[c] \in Int /\ g[c] \in Int /\ h[c] = f[c] + g[c]
      BY <2>3
    <2>5. Total(h, u) = Total(f, u) + Total(g, u)
      BY <1>1, <1>3, <2>2, <2>3
    <2>6. IsFiniteSet(u) /\ \A x \in u : f[x] \in Int /\ g[x] \in Int
      BY <2>2, FS_Subset
    <2>7. Total(f, u) \in Int /\ Total(g, u) \in Int
      BY <2>6, TotalIsInt
    <2>8. Total(h, s) = Total(f, s) + Total(g, s)
      BY ONLY <2>3, <2>4, <2>5, <2>7
    <2> QED BY <1>1, <2>8
  <1>4. S \in G
    BY <1>2, <1>3, FiniteInduction
  <1> QED BY <1>1, <1>4

\* A common factor.
LEMMA TotalOfMultiples ==
  ASSUME NEW S, IsFiniteSet(S), NEW f, NEW h, NEW k \in Int,
         \A x \in S : f[x] \in Int /\ h[x] = k * f[x]
  PROVE  Total(h, S) = k * Total(f, S)
  <1>1. PICK G : G = {s \in SUBSET S : Total(h, s) = k * Total(f, s)}
    OBVIOUS
  <1>2. {} \in G
    <2>1. Total(f, {}) = 0 /\ Total(h, {}) = 0 /\ k * 0 = 0
      BY TotalOfNone
    <2> QED BY <1>1, <2>1
  <1>3. ASSUME NEW s \in SUBSET S, s # {}, \A x \in s : s \ {x} \in G
        PROVE  s \in G
    <2>1. IsFiniteSet(s)
      BY FS_Subset
    <2>2. PICK c, u : c = First(s) /\ u = s \ {c}
      OBVIOUS
    <2>3. /\ c \in s /\ Total(f, s) = f[c] + Total(f, u)
          /\ Total(h, s) = h[c] + Total(h, u)
      BY <1>3, <2>1, <2>2, FirstIs, TotalStep
    <2>4. f[c] \in Int /\ h[c] = k * f[c]
      BY <2>3
    <2>5. Total(h, u) = k * Total(f, u)
      BY <1>1, <1>3, <2>2, <2>3
    <2>6. IsFiniteSet(u) /\ \A x \in u : f[x] \in Int
      BY <2>2, FS_Subset
    <2>7. Total(f, u) \in Int
      BY <2>6, TotalIsInt
    <2>8. \A x, y \in Int : k * (x + y) = k * x + k * y
      OBVIOUS
    <2>9. Total(h, s) = k * Total(f, s)
      BY ONLY <2>3, <2>4, <2>5, <2>7, <2>8
    <2> QED BY <1>1, <2>9
  <1>4. S \in G
    BY <1>2, <1>3, FiniteInduction
  <1> QED BY <1>1, <1>4

\* Greater terms have the greater sum.
LEMMA TotalIsAtMost ==
  ASSUME NEW S, IsFiniteSet(S), NEW f, NEW g,
         \A x \in S : f[x] \in Int /\ g[x] \in Int /\ f[x] <= g[x]
  PROVE  Total(f, S) <= Total(g, S)
  <1>1. PICK G : G = {s \in SUBSET S : Total(f, s) <= Total(g, s)}
    OBVIOUS
  <1>2. {} \in G
    <2>1. Total(f, {}) = 0 /\ Total(g, {}) = 0
      BY TotalOfNone
    <2> QED BY <1>1, <2>1
  <1>3. ASSUME NEW s \in SUBSET S, s # {}, \A x \in s : s \ {x} \in G
        PROVE  s \in G
    <2>1. IsFiniteSet(s)
      BY FS_Subset
    <2>2. PICK c, u : c = First(s) /\ u = s \ {c}
      OBVIOUS
    <2>3. /\ c \in s /\ Total(f, s) = f[c] + Total(f, u)
          /\ Total(g, s) = g[c] + Total(g, u)
      BY <1>3, <2>1, <2>2, FirstIs, TotalStep
    <2>4. f[c] \in Int /\ g[c] \in Int /\ f[c] <= g[c]
      BY <2>3
    <2>5. Total(f, u) <= Total(g, u)
      BY <1>1, <1>3, <2>2, <2>3
    <2>6. IsFiniteSet(u) /\ \A x \in u : f[x] \in Int /\ g[x] \in Int
      BY <2>2, FS_Subset
    <2>7. Total(f, u) \in Int /\ Total(g, u) \in Int
      BY <2>6, TotalIsInt
    <2>8. Total(f, s) <= Total(g, s)
      BY ONLY <2>3, <2>4, <2>5, <2>7
    <2> QED BY <1>1, <2>8
  <1>4. S \in G
    BY <1>2, <1>3, FiniteInduction
  <1> QED BY <1>1, <1>4

\* Elements that count nothing may be left out.
LEMMA TotalOfRest ==
  ASSUME NEW S, IsFiniteSet(S), NEW f, NEW T, T \subseteq S,
         \A x \in S : f[x] \in Int, \A x \in S \ T : f[x] = 0
  PROVE  Total(f, S) = Total(f, T)
  <1>1. PICK G : G = {s \in SUBSET S : Total(f, s) = Total(f, s \cap T)}
    OBVIOUS
  <1>2. {} \in G
    <2>1. {} \cap T = {}
      OBVIOUS
    <2> QED BY <1>1, <2>1
  <1>3. ASSUME NEW s \in SUBSET S, s # {}, \A x \in s : s \ {x} \in G
        PROVE  s \in G
    <2>1. IsFiniteSet(s) /\ IsFiniteSet(s \cap T)
      BY FS_Subset
    <2>2. PICK c, u : c = First(s) /\ u = s \ {c}
      OBVIOUS
    <2>3. c \in s /\ Total(f, s) = f[c] + Total(f, u)
      BY <1>3, <2>1, <2>2, FirstIs, TotalStep
    <2>4. Total(f, u) = Total(f, u \cap T)
      BY <1>1, <1>3, <2>2, <2>3
    <2>5. CASE c \in T
      <3>1. c \in s \cap T /\ (s \cap T) \ {c} = u \cap T
        BY <2>2, <2>3, <2>5
      <3>2. \A x \in s \cap T : f[x] \in Int
        OBVIOUS
      <3>3. Total(f, s \cap T) = f[c] + Total(f, (s \cap T) \ {c})
        BY <2>1, <3>1, <3>2, TotalWithout
      <3>4. Total(f, s) = Total(f, s \cap T)
        BY ONLY <2>3, <2>4, <3>1, <3>3
      <3> QED BY <1>1, <3>4
    <2>6. CASE c \notin T
      <3>1. s \cap T = u \cap T /\ f[c] = 0
        BY <2>2, <2>3, <2>6
      <3>2. IsFiniteSet(u) /\ \A x \in u : f[x] \in Int
        BY <2>1, <2>2, FS_Subset
      <3>3. Total(f, u) \in Int
        BY <3>2, TotalIsInt
      <3>4. Total(f, s) = Total(f, s \cap T)
        BY ONLY <2>3, <2>4, <3>1, <3>3
      <3> QED BY <1>1, <3>4
    <2> QED BY <2>5, <2>6
  <1>4. S \in G
    BY <1>2, <1>3, FiniteInduction
  <1>5. S \cap T = T
    OBVIOUS
  <1> QED BY <1>1, <1>4, <1>5

\* Counting is adding ones.
LEMMA TotalOfOnes ==
  ASSUME NEW S, IsFiniteSet(S), NEW f, \A x \in S : f[x] = 1
  PROVE  Total(f, S) = Cardinality(S)
  <1>1. PICK G : G = {s \in SUBSET S : Total(f, s) = Cardinality(s)}
    OBVIOUS
  <1>2. {} \in G
    BY <1>1, TotalOfNone, FS_EmptySet
  <1>3. ASSUME NEW s \in SUBSET S, s # {}, \A x \in s : s \ {x} \in G
        PROVE  s \in G
    <2>1. IsFiniteSet(s) /\ Cardinality(s) \in Nat
      BY FS_Subset, FS_CardinalityType
    <2>2. PICK c : c = First(s)
      OBVIOUS
    <2>3. c \in s /\ Total(f, s) = f[c] + Total(f, s \ {c})
      BY <1>3, <2>1, <2>2, FirstIs, TotalStep
    <2>4. f[c] = 1 /\ Total(f, s \ {c}) = Cardinality(s \ {c})
      BY <1>1, <1>3, <2>3
    <2>5. Cardinality(s \ {c}) = Cardinality(s) - 1
      BY <2>1, <2>3, FS_RemoveElement
    <2>6. Total(f, s) = Cardinality(s)
      BY ONLY <2>1, <2>3, <2>4, <2>5
    <2> QED BY <1>1, <2>6
  <1>4. S \in G
    BY <1>2, <1>3, FiniteInduction
  <1> QED BY <1>1, <1>4

-----------------------------------------------------------------------------
(***************************************************************************)
(* Who comes before acct in the order of decreasing remainders.            *)
(***************************************************************************)
Before(acct, rem) ==
  {b \in DOMAIN rem : \/ rem[b] > rem[acct]
                      \/ rem[b] = rem[acct] /\ b < acct}
\* Who comes before ranks lower.
LEMMA RanksDiffer ==
  ASSUME NEW A, IsFiniteSet(A), A \subseteq Int, NEW rem \in [A -> Int],
         NEW a \in A, NEW b \in A, a \in Before(b, rem)
  PROVE  Rank(a, rem) < Rank(b, rem)
  <1>1. PICK X, Y : X = Before(a, rem) /\ Y = Before(b, rem)
    OBVIOUS
  <1>2. a \in Int /\ b \in Int /\ rem[a] \in Int /\ rem[b] \in Int
    OBVIOUS
  <1>3. X \subseteq A /\ Y \subseteq A /\ a \in Y /\ a \notin X
    BY <1>1, <1>2 DEF Before
  <1>4. ASSUME NEW c \in X PROVE c \in Y
    <2>1. c \in A /\ c \in Int /\ rem[c] \in Int
      BY <1>3
    <2> QED BY <1>1, <1>2, <2>1 DEF Before
  <1>5. IsFiniteSet(Y) /\ X \in SUBSET Y
    BY <1>3, <1>4, FS_Subset
  <1>6. IsFiniteSet(X) /\ Cardinality(X) <= Cardinality(Y) /\ Cardinality(X) # Cardinality(Y)
    BY <1>3, <1>5, FS_Subset
  <1>7. Cardinality(X) \in Nat /\ Cardinality(Y) \in Nat
    BY <1>5, <1>6, FS_CardinalityType
  <1>8. Rank(a, rem) = Cardinality(X) /\ Rank(b, rem) = Cardinality(Y)
    BY <1>1 DEF Rank, Before
  <1> QED BY ONLY <1>6, <1>7, <1>8

\* The ranks are 0, 1, 2 and so on, so that as many accounts rank below n.
LEMMA RanksCount ==
  ASSUME NEW A, IsFiniteSet(A), A \subseteq Int, NEW rem \in [A -> Int],
         NEW n \in 0..Cardinality(A)
  PROVE  Cardinality({a \in A : Rank(a, rem) < n}) = n
  <1>1. Cardinality(A) \in Nat
    BY FS_CardinalityType
  <1>2. PICK k \in Nat : k = Cardinality(A)
    BY <1>1
  <1>3. ASSUME NEW a \in A PROVE Rank(a, rem) \in 0..(k - 1)
    <2>1. PICK X : X = Before(a, rem)
      OBVIOUS
    <2>2. X \in SUBSET (A \ {a})
      <3>1. a \in Int /\ rem[a] \in Int
        OBVIOUS
      <3> QED BY <2>1, <3>1 DEF Before
    <2>3. IsFiniteSet(A \ {a}) /\ Cardinality(A \ {a}) = k - 1
      BY <1>2, FS_RemoveElement
    <2>4. IsFiniteSet(X) /\ Cardinality(X) <= k - 1
      BY <2>2, <2>3, FS_Subset
    <2>5. Cardinality(X) \in Nat
      BY <2>4, FS_CardinalityType
    <2>6. Rank(a, rem) = Cardinality(X)
      BY <2>1 DEF Rank, Before
    <2> QED BY <2>4, <2>5, <2>6
  <1>4. ASSUME NEW a \in A, NEW b \in A, a # b
        PROVE  Rank(a, rem) # Rank(b, rem)
    <2>1. a \in Int /\ b \in Int /\ rem[a] \in Int /\ rem[b] \in Int
      OBVIOUS
    <2>2. a \in Before(b, rem) \/ b \in Before(a, rem)
      BY <1>4, <2>1 DEF Before
    <2>3. Rank(a, rem) < Rank(b, rem) \/ Rank(b, rem) < Rank(a, rem)
      BY <2>2, RanksDiffer
    <2>4. Rank(a, rem) \in Int /\ Rank(b, rem) \in Int
      BY <1>3
    <2> QED BY <2>3, <2>4
  <1>5. PICK f : f = [a \in A |-> Rank(a, rem)]
    OBVIOUS
  <1>6. f \in Injection(A, 0..(k - 1))
    BY <1>3, <1>4, <1>5 DEF Injection, IsInjective
  <1>7. IsFiniteSet(0..(k - 1)) /\ Cardinality(0..(k - 1)) = k
    <2>1. 0 \in Int /\ k - 1 \in Int
      BY <1>2
    <2>2. /\ IsFiniteSet(0..(k - 1))
          /\ Cardinality(0..(k - 1)) = IF 0 > k - 1 THEN 0 ELSE (k - 1) - 0 + 1
      BY <2>1, FS_Interval
    <2> QED BY <2>2
  <1>8. f \in Surjection(A, 0..(k - 1))
    BY <1>2, <1>6, <1>7, FS_Injection
  <1>9. PICK B : B = {a \in A : Rank(a, rem) < n}
    OBVIOUS
  <1>10. PICK g : g = [a \in B |-> Rank(a, rem)]
    OBVIOUS
  <1>11. g \in Injection(B, 0..(n - 1))
    <2>1. \A a \in B : Rank(a, rem) \in 0..(n - 1)
      BY <1>3, <1>9
    <2>2. \A a, b \in B : a # b => Rank(a, rem) # Rank(b, rem)
      BY <1>4, <1>9
    <2> QED BY <1>10, <2>1, <2>2 DEF Injection, IsInjective
  <1>12. g \in Surjection(B, 0..(n - 1))
    <2>1. ASSUME NEW i \in 0..(n - 1) PROVE \E a \in B : g[a] = i
      <3>1. i \in 0..(k - 1) /\ i < n
        BY <1>2
      <3>2. PICK a \in A : f[a] = i
        BY <1>8, <3>1 DEF Surjection
      <3>3. a \in B
        BY <1>5, <1>9, <3>1, <3>2
      <3> QED BY <1>5, <1>10, <3>2, <3>3
    <2> QED BY <1>11, <2>1 DEF Injection, IsInjective, Surjection
  <1>13. IsFiniteSet(0..(n - 1)) /\ Cardinality(0..(n - 1)) = n
    <2>1. 0 \in Int /\ n - 1 \in Int /\ n \in Nat
      BY <1>1
    <2>2. /\ IsFiniteSet(0..(n - 1))
          /\ Cardinality(0..(n - 1)) = IF 0 > n - 1 THEN 0 ELSE (n - 1) - 0 + 1
      BY <2>1, FS_Interval
    <2> QED BY <2>1, <2>2
  <1>14. Cardinality(B) = n
    BY <1>11, <1>12, <1>13, FS_Injection
  <1> QED BY <1>9, <1>14

\* Division with remainder.
LEMMA Division ==
  ASSUME NEW x \in Nat, NEW t \in Nat, t > 0
  PROVE  /\ x \div t \in Nat /\ x % t \in Nat /\ x % t <= t - 1
         /\ x = t * (x \div t) + (x % t)
  OBVIOUS

\* Cancelling a factor.
LEMMA Cancelled ==
  ASSUME NEW t \in Nat, t > 0, NEW l \in Int, NEW n \in Nat, n > 0,
         0 <= t * l, t * l <= (t - 1) * n
  PROVE  0 <= l /\ l < n
  <1>1. ASSUME l < 0 PROVE FALSE
    <2>1. l <= -1
      BY <1>1
    <2>2. t * l <= t * (-1)
      BY <2>1
    <2> QED BY <2>2
  <1>2. ASSUME l >= n PROVE FALSE
    <2>1. t * l >= t * n
      BY <1>2
    <2>2. (t - 1) * n = t * n - n
      OBVIOUS
    <2> QED BY <2>1, <2>2
  <1> QED BY <1>1, <1>2

-----------------------------------------------------------------------------
\* The sum of what is not negative, and positive somewhere.
LEMMA TotalIsPositive ==
  ASSUME NEW S, IsFiniteSet(S), NEW f, \A x \in S : f[x] \in Nat
  PROVE  Total(f, S) \in Nat /\ \A x \in S : f[x] <= Total(f, S)
  <1>1. PICK z : z = [x \in S |-> 0]
    OBVIOUS
  <1>2. \A x \in S : f[x] \in Int /\ z[x] = 0 /\ z[x] \in Int /\ z[x] <= f[x] /\ z[x] = 0 * f[x]
    BY <1>1
  <1>3. Total(f, S) \in Int
    BY <1>2, TotalIsInt
  <1>4. Total(z, S) = 0 * Total(f, S)
    BY <1>2, TotalOfMultiples
  <1>5. Total(z, S) <= Total(f, S)
    BY <1>2, TotalIsAtMost
  <1>6. Total(f, S) \in Nat
    BY <1>3, <1>4, <1>5
  <1>7. ASSUME NEW x \in S PROVE f[x] <= Total(f, S)
    <2>1. Total(f, S) = f[x] + Total(f, S \ {x})
      BY <1>2, TotalWithout
    <2>2. PICK u : u = S \ {x}
      OBVIOUS
    <2>3. IsFiniteSet(u) /\ \A y \in u : f[y] \in Int /\ z[y] \in Int /\ z[y] <= f[y] /\ z[y] = 0 * f[y]
      BY <1>2, <2>2, FS_Subset
    <2>4. Total(f, u) \in Int /\ Total(z, u) <= Total(f, u) /\ Total(z, u) = 0 * Total(f, u)
      BY <2>3, TotalIsInt, TotalIsAtMost, TotalOfMultiples
    <2>5. f[x] \in Nat
      OBVIOUS
    <2> QED BY ONLY <2>1, <2>2, <2>4, <2>5
  <1> QED BY <1>6, <1>7

\* Allocate, its local definitions named.
Entitled(credits) == {acct \in DOMAIN credits : credits[acct] # 0}
Quotas(pool, credits, A, t) == [acct \in A |-> (pool * credits[acct]) \div t]
Remainders(pool, credits, A, t) == [acct \in A |-> (pool * credits[acct]) % t]
Shares(A, credits, quota, rem, left) ==
  [acct \in A |-> [credits |-> credits[acct],
                   amount |-> quota[acct] + IF Rank(acct, rem) < left THEN 1 ELSE 0]]

\* Allocate returns the shares.
LEMMA AllocateIs ==
  ASSUME NEW pool, NEW credits,
         NEW A, A = Entitled(credits),
         NEW t, t = Total(credits, A),
         NEW quota, quota = Quotas(pool, credits, A, t),
         NEW rem, rem = Remainders(pool, credits, A, t),
         NEW left, left = pool - Total(quota, A)
  PROVE  Allocate(pool, credits) = Shares(A, credits, quota, rem, left)
  BY DEF Allocate, Entitled, Quotas, Remainders, Shares

\* The shares of the pool, rounded down, and what is left of them.
LEMMA QuotasAre ==
  ASSUME NEW pool \in Nat, NEW A, IsFiniteSet(A), A # {},
         NEW credits, \A a \in A : credits[a] \in Nat /\ credits[a] > 0,
         NEW t, t = Total(credits, A),
         NEW quota, quota = Quotas(pool, credits, A, t),
         NEW rem, rem = Remainders(pool, credits, A, t),
         NEW left, left = pool - Total(quota, A)
  PROVE  /\ t \in Nat /\ t > 0 /\ left \in 0..Cardinality(A) /\ t * left = Total(rem, A)
         /\ quota \in [A -> Nat] /\ rem \in [A -> Int] /\ Total(quota, A) \in Nat
         /\ \A a \in A : /\ rem[a] \in 0..(t - 1)
                         /\ pool * credits[a] = t * quota[a] + rem[a]
  <1>1. t \in Nat /\ t > 0
    <2>1. PICK a \in A : TRUE
      OBVIOUS
    <2>2. t \in Nat /\ credits[a] <= t
      BY TotalIsPositive
    <2> QED BY <2>2
  <1>2. ASSUME NEW a \in A
        PROVE  /\ quota[a] \in Nat /\ rem[a] \in Nat /\ rem[a] <= t - 1
               /\ pool * credits[a] \in Nat
               /\ pool * credits[a] = t * quota[a] + rem[a]
    <2>1. PICK x : x = pool * credits[a]
      OBVIOUS
    <2>2. x \in Nat
      BY <2>1
    <2>3. quota[a] = x \div t /\ rem[a] = x % t
      BY <2>1 DEF Quotas, Remainders
    <2>4. /\ x \div t \in Nat /\ x % t \in Nat /\ x % t <= t - 1
          /\ x = t * (x \div t) + (x % t)
      BY ONLY <1>1, <2>2, Division
    <2> QED BY ONLY <2>1, <2>2, <2>3, <2>4
  <1>3. PICK Q, R, n : Q = Total(quota, A) /\ R = Total(rem, A) /\ n = Cardinality(A)
    OBVIOUS
  <1>4. n \in Nat /\ n > 0
    BY <1>3, FS_CardinalityType, FS_EmptySet
  <1>5. Q \in Nat /\ R \in Nat
    BY <1>2, <1>3, TotalIsPositive
  <1>6. pool * t = t * Q + R
    <2>1. PICK x, y : /\ x = [a \in A |-> pool * credits[a]]
                      /\ y = [a \in A |-> t * quota[a]]
      OBVIOUS
    <2>2. \A a \in A : credits[a] \in Int /\ x[a] = pool * credits[a]
      BY <2>1
    <2>3. Total(x, A) = pool * t
      BY <2>2, TotalOfMultiples
    <2>4. \A a \in A : quota[a] \in Int /\ y[a] = t * quota[a]
      BY <1>2, <2>1
    <2>5. Total(y, A) = t * Q
      BY <1>1, <1>3, <2>4, TotalOfMultiples
    <2>6. \A a \in A : y[a] \in Int /\ rem[a] \in Int /\ x[a] = y[a] + rem[a]
      BY <1>1, <1>2, <2>1
    <2>7. Total(x, A) = Total(y, A) + R
      BY <1>3, <2>6, TotalOfSums
    <2> QED BY ONLY <2>3, <2>5, <2>7
  <1>7. R <= (t - 1) * n
    <2>1. PICK one, top : one = [a \in A |-> 1] /\ top = [a \in A |-> t - 1]
      OBVIOUS
    <2>2. \A a \in A : one[a] = 1
      BY <2>1
    <2>3. Total(one, A) = n
      BY <1>3, <2>2, TotalOfOnes
    <2>4. t - 1 \in Int /\ \A a \in A : one[a] \in Int /\ top[a] = (t - 1) * one[a]
      BY <1>1, <2>1
    <2>5. Total(top, A) = (t - 1) * n
      BY <2>3, <2>4, TotalOfMultiples
    <2>6. \A a \in A : rem[a] \in Int /\ top[a] \in Int /\ rem[a] <= top[a]
      BY <1>1, <1>2, <2>1
    <2>7. R <= Total(top, A)
      BY <1>3, <2>6, TotalIsAtMost
    <2> QED BY ONLY <2>5, <2>7
  <1>8. left \in Int /\ t * left = R
    <2>1. left = pool - Q
      BY <1>3
    <2>2. t * (pool - Q) = pool * t - t * Q
      BY <1>1, <1>5
    <2> QED BY <1>1, <1>5, <1>6, <2>1, <2>2
  <1>9. 0 <= left /\ left < n
    <2>1. 0 <= t * left /\ t * left <= (t - 1) * n
      BY <1>5, <1>7, <1>8
    <2> QED BY ONLY <1>1, <1>4, <1>8, <2>1, Cancelled
  <1>10. quota \in [A -> Nat] /\ rem \in [A -> Int]
    BY <1>2 DEF Quotas, Remainders
  <1> QED BY <1>1, <1>2, <1>3, <1>4, <1>5, <1>8, <1>9, <1>10

\* Whoever gets one of the cents that are left had a remainder.
LEMMA OnlyRemaindersRoundUp ==
  ASSUME NEW A, IsFiniteSet(A), NEW t \in Nat, t > 0, NEW left \in Nat,
         NEW rem, rem \in [A -> Int], \A a \in A : rem[a] \in 0..(t - 1),
         t * left = Total(rem, A), NEW a \in A, Rank(a, rem) < left
  PROVE  rem[a] > 0
  <1> SUFFICES ASSUME rem[a] = 0 PROVE FALSE
    OBVIOUS
  <1>1. PICK N : N = {b \in A : rem[b] > 0}
    OBVIOUS
  <1>2. PICK E : E = {b \in DOMAIN rem : \/ rem[b] > rem[a]
                                         \/ rem[b] = rem[a] /\ b < a}
    OBVIOUS
  <1>3. N \subseteq E /\ E \subseteq A /\ N \subseteq A
    BY <1>1, <1>2
  <1>4. IsFiniteSet(E) /\ IsFiniteSet(N)
    BY <1>3, FS_Subset
  <1>5. PICK n : n = Cardinality(N)
    OBVIOUS
  <1>6. n \in Nat /\ Cardinality(E) \in Nat /\ n <= Cardinality(E)
    BY <1>3, <1>4, <1>5, FS_Subset, FS_CardinalityType
  <1>7. Cardinality(E) < left
    BY <1>2 DEF Rank
  <1>8. \A b \in A : rem[b] \in Int
    OBVIOUS
  <1>9. \A b \in A \ N : rem[b] = 0
    BY <1>1
  <1>10. Total(rem, A) = Total(rem, N)
    BY <1>3, <1>8, <1>9, TotalOfRest
  <1>11. Total(rem, N) <= (t - 1) * n
    <2>1. PICK one, top : one = [b \in N |-> 1] /\ top = [b \in N |-> t - 1]
      OBVIOUS
    <2>2. \A b \in N : one[b] = 1
      BY <2>1
    <2>3. Total(one, N) = n
      BY <1>4, <1>5, <2>2, TotalOfOnes
    <2>4. t - 1 \in Int /\ \A b \in N : one[b] \in Int /\ top[b] = (t - 1) * one[b]
      BY <2>1
    <2>5. Total(top, N) = (t - 1) * n
      BY <1>4, <2>3, <2>4, TotalOfMultiples
    <2>6. \A b \in N : rem[b] \in Int /\ top[b] \in Int /\ rem[b] <= top[b]
      BY <1>3, <2>1
    <2>7. Total(rem, N) <= Total(top, N)
      BY <1>4, <2>6, TotalIsAtMost
    <2> QED BY ONLY <2>5, <2>7
  <1>12. t * left <= (t - 1) * n
    BY <1>10, <1>11
  <1>13. CASE n > 0
    <2>1. left \in Int /\ 0 <= t * left
      OBVIOUS
    <2>2. 0 <= left /\ left < n
      BY ONLY t \in Nat, t > 0, <1>6, <1>12, <1>13, <2>1, Cancelled
    <2> QED BY <1>6, <1>7, <2>2
  <1>14. CASE n = 0
    <2>1. t * left <= 0 /\ left > 0
      BY <1>6, <1>7, <1>12, <1>14
    <2>2. t * left > 0
      BY ONLY t \in Nat, t > 0, left \in Nat, <2>1
    <2> QED BY <2>1, <2>2
  <1> QED BY <1>6, <1>13, <1>14

(***************************************************************************)
(* What Allocate promises: everybody with credits gets whole cents, they   *)
(* add up to the pool, and nobody is a cent or more away from the exact    *)
(* share pool * credits / total.                                           *)
(***************************************************************************)
ExactAllocation(pool, credits, ents) ==
  /\ DOMAIN ents = Entitled(credits)
  /\ \A a \in DOMAIN ents : ents[a].credits = credits[a] /\ ents[a].amount \in Nat
  /\ AllocatedCents(ents) = IF DOMAIN ents = {} THEN 0 ELSE pool
  /\ LET t == Total(credits, DOMAIN ents)
     IN  \A a \in DOMAIN ents : /\ t * ents[a].amount < pool * credits[a] + t
                                /\ t * ents[a].amount > pool * credits[a] - t

(***************************************************************************)
(* "The allocated total always equals poolCents exactly" (Allocate), for   *)
(* every pool and every list of credits: the quotas rounded down leave     *)
(* fewer cents than there are remainders, so each goes to another account. *)
(***************************************************************************)
THEOREM AllocationIsExact ==
  ASSUME NEW pool \in Nat, NEW credits, IsFiniteSet(DOMAIN credits),
         DOMAIN credits \subseteq Int, \A a \in DOMAIN credits : credits[a] \in Nat,
         NEW ents, ents = Allocate(pool, credits)
  PROVE  ExactAllocation(pool, credits, ents)
  <1>1. PICK A : A = Entitled(credits)
    OBVIOUS
  <1>2. PICK t : t = Total(credits, A)
    OBVIOUS
  <1>3. PICK quota, rem : /\ quota = Quotas(pool, credits, A, t)
                          /\ rem = Remainders(pool, credits, A, t)
    OBVIOUS
  <1>4. PICK left : left = pool - Total(quota, A)
    OBVIOUS
  <1>5. ents = Shares(A, credits, quota, rem, left)
    BY <1>1, <1>2, <1>3, <1>4, AllocateIs
  <1>6. IsFiniteSet(A) /\ A \subseteq Int /\ \A a \in A : credits[a] \in Nat /\ credits[a] > 0
    BY <1>1, FS_Subset DEF Entitled
  <1>7. PICK extra : extra = [a \in A |-> IF Rank(a, rem) < left THEN 1 ELSE 0]
    OBVIOUS
  <1>8. /\ DOMAIN ents = A
        /\ \A a \in A : ents[a].credits = credits[a] /\ ents[a].amount = quota[a] + extra[a]
    BY <1>5, <1>7 DEF Shares
  <1>9. PICK amounts : amounts = [a \in DOMAIN ents |-> ents[a].amount]
    OBVIOUS
  <1>10. AllocatedCents(ents) = Total(amounts, A)
    BY <1>8, <1>9 DEF AllocatedCents
  <1>11. CASE A = {}
    BY <1>1, <1>8, <1>10, <1>11, TotalOfNone DEF ExactAllocation
  <1>12. CASE A # {}
    <2> A # {}
      BY <1>12
    <2> IsFiniteSet(A)
      BY <1>6
    <2> \A a \in A : credits[a] \in Nat /\ credits[a] > 0
      BY <1>6
    <2>1. /\ t \in Nat /\ t > 0 /\ left \in 0..Cardinality(A) /\ t * left = Total(rem, A)
          /\ quota \in [A -> Nat] /\ rem \in [A -> Int] /\ Total(quota, A) \in Nat
          /\ \A a \in A : /\ rem[a] \in 0..(t - 1)
                          /\ pool * credits[a] = t * quota[a] + rem[a]
      <3>1. quota = Quotas(pool, credits, A, t)
        BY <1>3
      <3>2. rem = Remainders(pool, credits, A, t)
        BY <1>3
      <3> QED BY ONLY pool \in Nat, A # {}, IsFiniteSet(A),
                      \A a \in A : credits[a] \in Nat /\ credits[a] > 0,
                      <1>2, <3>1, <3>2, <1>4, QuotasAre
    <2>2. \A a \in A : extra[a] \in {0, 1}
      BY <1>7
    <2>3. \A a \in A : ents[a].amount \in Nat /\ amounts[a] = quota[a] + extra[a]
      BY <1>8, <1>9, <2>1, <2>2
    <2>4. Total(extra, A) = left
      <3>1. PICK B : B = {a \in A : Rank(a, rem) < left}
        OBVIOUS
      <3>2. Cardinality(B) = left
        BY <1>6, <2>1, <3>1, RanksCount
      <3>3. IsFiniteSet(B) /\ B \subseteq A
        BY <1>6, <3>1, FS_Subset
      <3>4. \A a \in B : extra[a] = 1
        BY <1>7, <3>1
      <3>5. Total(extra, B) = left
        BY <3>2, <3>3, <3>4, TotalOfOnes
      <3>6. \A a \in A : extra[a] \in Int
        BY <2>2
      <3>7. \A a \in A \ B : extra[a] = 0
        BY <1>7, <3>1
      <3>8. Total(extra, A) = Total(extra, B)
        BY <1>6, <3>3, <3>6, <3>7, TotalOfRest
      <3> QED BY <3>5, <3>8
    <2>5. Total(amounts, A) = Total(quota, A) + Total(extra, A)
      <3>1. \A a \in A : quota[a] \in Int /\ extra[a] \in Int /\ amounts[a] = quota[a] + extra[a]
        BY <2>1, <2>2, <2>3
      <3> QED BY <1>6, <3>1, TotalOfSums
    <2>6. AllocatedCents(ents) = pool
      BY <1>4, <1>10, <2>1, <2>4, <2>5
    <2>7. ASSUME NEW a \in A
          PROVE  /\ t * ents[a].amount < pool * credits[a] + t
                 /\ t * ents[a].amount > pool * credits[a] - t
      <3>1. PICK q, e, r, x : q = quota[a] /\ e = extra[a] /\ r = rem[a] /\ x = pool * credits[a]
        OBVIOUS
      <3>2. q \in Nat /\ e \in {0, 1} /\ r \in 0..(t - 1) /\ x = t * q + r /\ t \in Nat /\ t > 0
        BY <2>1, <2>2, <3>1
      <3>9. e = 1 => r > 0
        <4>1. SUFFICES ASSUME e = 1 PROVE r > 0
          OBVIOUS
        <4>2. Rank(a, rem) < left
          BY <1>7, <3>1, <4>1
        <4>3. left \in Nat
          BY <2>1, FS_CardinalityType
        <4>4. rem \in [A -> Int]
          BY <2>1
        <4>5. \A b \in A : rem[b] \in 0..(t - 1)
          BY <2>1
        <4>6. t \in Nat /\ t > 0 /\ t * left = Total(rem, A)
          BY <2>1
        <4>7. rem[a] > 0
          BY ONLY IsFiniteSet(A), a \in A, <4>2, <4>3, <4>4, <4>5, <4>6, OnlyRemaindersRoundUp
        <4> QED BY <3>1, <4>7
      <3>3. t * (q + e) = t * q + t * e /\ t * q \in Nat
        BY ONLY <3>2
      <3>4. t * e = 0 \/ (t * e = t /\ r > 0)
        BY ONLY <3>2, <3>9
      <3>5. t * (q + e) < x + t /\ t * (q + e) > x - t
        <4>1. PICK u, v, w : u = t * q /\ v = t * e /\ w = t * (q + e)
          OBVIOUS
        <4>2. w = u + v /\ u \in Nat /\ x = u + r /\ (v = 0 \/ (v = t /\ r > 0)) /\ r \in 0..(t - 1) /\ t \in Nat
          BY ONLY <3>2, <3>3, <3>4, <4>1
        <4>3. w < x + t /\ w > x - t
          BY ONLY <4>2
        <4> QED BY ONLY <4>1, <4>3
      <3> QED BY <1>8, <3>1, <3>5
    <2> QED BY <1>1, <1>2, <1>8, <1>12, <2>3, <2>6, <2>7 DEF ExactAllocation
  <1> QED BY <1>11, <1>12

-----------------------------------------------------------------------------
\* A share of the receipts is in whole cents.
LEMMA ShareIsInt ==
  ASSUME NEW bps \in Int, NEW net \in Int
  PROVE  PoolShareCents(bps, net) \in Int
  <1>1. PICK x : x = net * bps
    OBVIOUS
  <1>2. x \in Int
    BY <1>1
  <1>3. Quo(x, BpsScale) \in Int
    BY <1>2 DEF Quo, BpsScale
  <1> QED BY <1>1, <1>3 DEF PoolShareCents

\* The accounts of finitely many awards.
LEMMA AccountsAreFinite ==
  ASSUME NEW active, IsFiniteSet(active), \A a \in active : IsFiniteSet(DOMAIN a.splits)
  PROVE  IsFiniteSet(UNION {DOMAIN a.splits : a \in active})
  <1>1. PICK T : T = {DOMAIN a.splits : a \in active}
    OBVIOUS
  <1>2. PICK f : f = [a \in active |-> DOMAIN a.splits]
    OBVIOUS
  <1>3. f \in Surjection(active, T)
    BY <1>1, <1>2 DEF Surjection
  <1>4. IsFiniteSet(T)
    BY <1>3, FS_Surjection
  <1>5. \A t \in T : IsFiniteSet(t)
    BY <1>1
  <1> QED BY <1>1, <1>4, <1>5, FS_UNION

\* What ActiveCredits returns when it does not fail.
LEMMA CreditsAre ==
  ASSUME NEW as, IsFiniteSet(as), NEW m,
         \A a \in as : Credits(a.splits) /\ DOMAIN a.splits \subseteq Int,
         ~CreditsFail(as), NEW credits, credits = ActiveCredits(as, m)
  PROVE  /\ IsFiniteSet(DOMAIN credits) /\ DOMAIN credits \subseteq Int
         /\ \A acct \in DOMAIN credits : credits[acct] \in Nat
  <1>1. PICK active : active = ActiveAwards(as, m)
    OBVIOUS
  <1>2. active \subseteq as /\ IsFiniteSet(active)
    BY <1>1, FS_Subset DEF ActiveAwards
  <1>3. ASSUME NEW a \in active
        PROVE  /\ IsFiniteSet(DOMAIN a.splits) /\ DOMAIN a.splits \subseteq Int
               /\ \A k \in DOMAIN a.splits : a.splits[k] \in Nat
    <2>1. a \in as /\ a.status = "approved"
      BY <1>1 DEF ActiveAwards
    <2>2. ValidAward(a)
      BY <2>1 DEF CreditsFail
    <2>3. Credits(a.splits) /\ DOMAIN a.splits \subseteq Int
      BY <2>1
    <2> QED BY <2>2, <2>3 DEF ValidAward, Credits
  <1>4. PICK accts : accts = UNION {DOMAIN a.splits : a \in active}
    OBVIOUS
  <1>5. DOMAIN credits = accts
    BY <1>1, <1>4 DEF ActiveCredits, CreditsOf
  <1>6. IsFiniteSet(accts)
    BY <1>2, <1>3, <1>4, AccountsAreFinite
  <1>7. accts \subseteq Int
    BY <1>3, <1>4
  <1>8. ASSUME NEW acct \in accts PROVE credits[acct] \in Nat
    <2>1. PICK holding : holding = {a \in active : acct \in DOMAIN a.splits}
      OBVIOUS
    <2>2. PICK f : f = [a \in holding |-> a.splits[acct]]
      OBVIOUS
    <2>3. credits[acct] = Total(f, holding)
      BY <1>1, <1>4, <2>1, <2>2 DEF ActiveCredits, CreditsOf
    <2>4. IsFiniteSet(holding)
      BY <1>2, <2>1, FS_Subset
    <2>5. \A a \in holding : f[a] \in Nat
      BY <1>3, <2>1, <2>2
    <2> QED BY <2>3, <2>4, <2>5, TotalIsPositive
  <1> QED BY <1>5, <1>6, <1>7, <1>8

\* Accounts without credits do not matter to the allocation.
LEMMA AllocatesTheSame ==
  ASSUME NEW pool, NEW credits, IsFiniteSet(DOMAIN credits),
         \A a \in DOMAIN credits : credits[a] \in Int,
         NEW A, A = Entitled(credits),
         NEW some, DOMAIN some = A, \A a \in A : some[a] = credits[a]
  PROVE  /\ Allocate(pool, some) = Allocate(pool, credits)
         /\ Total(some, A) = Total(credits, DOMAIN credits)
  <1>1. A \subseteq DOMAIN credits /\ IsFiniteSet(A)
    BY FS_Subset DEF Entitled
  <1>2. Entitled(some) = A
    BY DEF Entitled
  <1>3. PICK t : t = Total(credits, A)
    OBVIOUS
  <1>4. Total(some, A) = t
    BY <1>1, <1>3, TotalSame
  <1>5. PICK quota, rem : quota = Quotas(pool, credits, A, t) /\ rem = Remainders(pool, credits, A, t)
    OBVIOUS
  <1>6. quota = Quotas(pool, some, A, t) /\ rem = Remainders(pool, some, A, t)
    BY <1>5 DEF Quotas, Remainders
  <1>7. PICK left : left = pool - Total(quota, A)
    OBVIOUS
  <1>8. Allocate(pool, credits) = Shares(A, credits, quota, rem, left)
    BY <1>3, <1>5, <1>7, AllocateIs
  <1>9. Allocate(pool, some) = Shares(A, some, quota, rem, left)
    BY <1>2, <1>4, <1>6, <1>7, AllocateIs
  <1>10. Shares(A, some, quota, rem, left) = Shares(A, credits, quota, rem, left)
    BY DEF Shares
  <1>11. Total(credits, DOMAIN credits) = t
    <2>1. \A a \in DOMAIN credits \ A : credits[a] = 0
      BY DEF Entitled
    <2> QED BY <1>1, <1>3, <2>1, TotalOfRest
  <1> QED BY <1>4, <1>8, <1>9, <1>10, <1>11
-----------------------------------------------------------------------------
(***************************************************************************)
(* What a round is worth: it verifies against the program it was computed  *)
(* with, and it hands out its pool.                                        *)
(***************************************************************************)
Spent(r) ==
  AllocatedCents(r.ents) = IF DOMAIN r.ents = {} \/ r.pool < 0 THEN 0 ELSE r.pool

SoundRound(p, r) ==
  /\ VerifyRound(p, r) /\ Spent(r)
  /\ r.carry \in Int /\ r.pool \in Int /\ r.unallocated \in Int
  /\ AllocatedCents(r.ents) \in Int

ReceiptsSound(rs) == IsFiniteSet(rs) /\ \A r \in rs : r.net \in Int
AwardsSound(as) ==
  /\ IsFiniteSet(as)
  /\ \A a \in as : Credits(a.splits) /\ DOMAIN a.splits \subseteq Int

\* The net of finitely many receipts.
LEMMA NetIsInt ==
  ASSUME NEW rs, ReceiptsSound(rs)
  PROVE  NetReceipts(rs) \in Int
  <1>1. PICK f : f = [r \in rs |-> r.net]
    OBVIOUS
  <1>2. \A r \in rs : f[r] \in Int
    BY <1>1 DEF ReceiptsSound
  <1>3. IsFiniteSet(rs)
    BY DEF ReceiptsSound
  <1>4. Total(f, rs) \in Int
    BY <1>2, <1>3, TotalIsInt
  <1> QED BY <1>1, <1>4 DEF NetReceipts

\* The pool that is handed out.
Clamped(pool) == IF pool < 0 THEN 0 ELSE pool

\* What an engine without error returns is sound.
LEMMA ComputedIsSound ==
  ASSUME NEW p, p.poolBps \in Int, NEW m, NEW rs, ReceiptsSound(rs), NEW as,
         AwardsSound(as), NEW carryforward \in Int, ~ComputeFails(p, m, rs, as),
         NEW r, r = ComputeRound(p, m, rs, as, carryforward)
  PROVE  SoundRound(p, r)
  <1>1. PICK credits, net : credits = ActiveCredits(as, m) /\ net = NetReceipts(rs)
    OBVIOUS
  <1>2. PICK pool : pool = carryforward + PoolShareCents(p.poolBps, net)
    OBVIOUS
  <1>3. PICK clamped : clamped = Clamped(pool)
    OBVIOUS
  <1>4. PICK ents : ents = Allocate(clamped, credits)
    OBVIOUS
  <1>5. /\ r.version = p.version /\ r.calculation = CalculationVersion
        /\ r.currency = p.currency /\ r.net = net /\ r.carry = carryforward
        /\ r.pool = pool /\ r.total = Total(credits, DOMAIN credits)
        /\ r.ents = ents /\ r.unallocated = pool - AllocatedCents(ents)
    BY <1>1, <1>2, <1>3, <1>4 DEF ComputeRound, Clamped
  <1>6. net \in Int /\ pool \in Int
    BY <1>1, <1>2, NetIsInt, ShareIsInt
  <1>7. clamped \in Nat
    BY <1>3, <1>6 DEF Clamped
  <1>8. ~CreditsFail(as) /\ ValidProgram(p)
    BY DEF ComputeFails
  <1>9. /\ IsFiniteSet(DOMAIN credits) /\ DOMAIN credits \subseteq Int
        /\ \A acct \in DOMAIN credits : credits[acct] \in Nat
    BY <1>1, <1>8, CreditsAre DEF AwardsSound
  <1>10. /\ DOMAIN ents = Entitled(credits)
         /\ \A a \in DOMAIN ents : ents[a].credits = credits[a] /\ ents[a].amount \in Nat
         /\ AllocatedCents(ents) = IF DOMAIN ents = {} THEN 0 ELSE clamped
    <2>1. IsFiniteSet(DOMAIN credits)
      BY <1>9
    <2>2. DOMAIN credits \subseteq Int
      BY <1>9
    <2>3. \A a \in DOMAIN credits : credits[a] \in Nat
      BY <1>9
    <2>4. ExactAllocation(clamped, credits, ents)
      BY ONLY <1>4, <1>7, <2>1, <2>2, <2>3, AllocationIsExact
    <2> QED BY <2>4 DEF ExactAllocation
  <1>11. AllocatedCents(ents) \in Int /\ r.unallocated \in Int
    BY <1>5, <1>6, <1>7, <1>10
  <1>12. Spent(r)
    BY <1>3, <1>5, <1>6, <1>10 DEF Spent, Clamped
  <1>13. PICK some : some = [acct \in DOMAIN r.ents |-> r.ents[acct].credits]
    OBVIOUS
  <1>14. PICK A : A = Entitled(credits)
    OBVIOUS
  <1>15. DOMAIN some = A /\ \A a \in A : some[a] = credits[a]
    BY <1>5, <1>10, <1>13, <1>14 DEF Entitled
  <1>16. \A a \in DOMAIN credits : credits[a] \in Int
    BY <1>9
  <1>17. /\ Allocate(clamped, some) = Allocate(clamped, credits)
         /\ Total(some, A) = Total(credits, DOMAIN credits)
    <2>1. IsFiniteSet(DOMAIN credits)
      BY <1>9
    <2>2. DOMAIN some = A
      BY <1>15
    <2>3. \A a \in A : some[a] = credits[a]
      BY <1>15
    <2> QED BY ONLY <1>14, <1>16, <2>1, <2>2, <2>3, AllocatesTheSame
  <1>18. \A a \in DOMAIN some : some[a] \in Nat
    BY <1>9, <1>14, <1>15 DEF Entitled
  <1>19. ~AllocateFails(clamped, some)
    BY <1>7, <1>18 DEF AllocateFails
  <1>20. VerifyRound(p, r)
    <2>1. r.carry + PoolShareCents(p.poolBps, r.net) = pool
      BY <1>2, <1>5
    <2>2. clamped = IF r.carry + PoolShareCents(p.poolBps, r.net) < 0 THEN 0
                    ELSE r.carry + PoolShareCents(p.poolBps, r.net)
      BY <1>3, <2>1 DEF Clamped
    <2>3. Total(some, DOMAIN some) = r.total /\ Allocate(clamped, some) = r.ents
      BY <1>4, <1>5, <1>15, <1>17
    <2>4. pool - AllocatedCents(r.ents) = r.unallocated /\ pool = r.pool
      BY <1>5
    <2> QED BY <1>5, <1>8, <1>13, <1>19, <2>1, <2>2, <2>3, <2>4 DEF VerifyRound
  <1> QED BY <1>5, <1>6, <1>11, <1>12, <1>20 DEF SoundRound
-----------------------------------------------------------------------------
(***************************************************************************)
(* What the stores and the running closes hold.  SamePolicy lists all that *)
(* VerifyRound looks at in a program.                                      *)
(***************************************************************************)
SamePolicy(p, q) ==
  /\ p.version = q.version /\ p.currency = q.currency /\ p.poolBps = q.poolBps
  /\ p.duration = q.duration /\ p.dueDays = q.dueDays

Published(p) == \E q \in Policies : SamePolicy(p, q)

PoliciesInv ==
  \A v \in DOMAIN programs : programs[v].version = v /\ Published(programs[v])

RequestInv(w) ==
  /\ review[w].pc \in {"resolve", "create"} => review[w].req \in Requests
  /\ review[w].pc = "create" =>
       review[w].recipients \in [DOMAIN review[w].req.splits -> Int]

StoresInv ==
  /\ TypeOK /\ AwardsInv /\ PoliciesInv
  /\ DOMAIN participants \subseteq Int
  /\ \A w \in Reviewers : RequestInv(w)
  /\ AwardsSound(Docs(awards)) /\ ReceiptsSound(Docs(receipts))

\* A program that was read is still there, with the same terms.
HeldProgram(p) == Published(p) /\ Has(programs, p.version)

ReadInv(c) ==
  LET l == closing[c]
  IN  /\ l.pc \in {"receipts", "awards", "carry", "gap", "store"} => HeldProgram(l.program)
      /\ l.pc \in {"awards", "carry", "gap"} => ReceiptsSound(l.receipts)
      /\ l.pc \in {"carry", "gap"} => AwardsSound(l.awards)
      /\ l.pc = "store" => SoundRound(l.program, l.round)

RoundInv(m) == \E p : HeldProgram(p) /\ SoundRound(p, rounds[m])

SoundInv ==
  /\ StoresInv
  /\ IsFiniteSet(DOMAIN rounds)
  /\ \A m \in DOMAIN rounds : RoundInv(m)
  /\ \A c \in Closers : ReadInv(c)

\* Terms that are the same verify the same rounds.
LEMMA VerifiesTheSame ==
  ASSUME NEW p, NEW q, NEW r, SamePolicy(p, q), VerifyRound(p, r)
  PROVE  VerifyRound(q, r)
  BY DEF SamePolicy, VerifyRound, ValidProgram

\* Programs of one version have the same terms.
LEMMA PublishedOnce ==
  ASSUME PoliciesAreFixed, NEW p, NEW q, Published(p), Published(q),
         p.version = q.version
  PROVE  SamePolicy(p, q)
  <1>1. PICK x \in Policies : SamePolicy(p, x)
    BY DEF Published
  <1>2. PICK y \in Policies : SamePolicy(q, y)
    BY DEF Published
  <1>3. x.version = y.version
    BY <1>1, <1>2 DEF SamePolicy
  <1>4. /\ x.currency = y.currency /\ x.poolBps = y.poolBps
        /\ x.duration = y.duration /\ x.dueDays = y.dueDays
    BY <1>3 DEF PoliciesAreFixed
  <1> QED BY <1>1, <1>2, <1>4 DEF SamePolicy

\* SetProgram keeps the terms of the document, and so does the store.
LEMMA PinnedIsPublished ==
  ASSUME NEW doc \in ProgramDocs, NEW p,
         p = [doc EXCEPT !.calculation = CalculationVersion]
  PROVE  Published(p)
  <1>1. doc \in Policies
    BY DEF Policies
  <1>2. ProgramFields \subseteq DOMAIN doc
    BY <1>1, ReviewAssumption
  <1>3. /\ "version" \in DOMAIN doc /\ "currency" \in DOMAIN doc
        /\ "poolBps" \in DOMAIN doc /\ "duration" \in DOMAIN doc
        /\ "dueDays" \in DOMAIN doc
    BY <1>2 DEF ProgramFields
  <1>4. SamePolicy(p, doc)
    BY <1>3 DEF SamePolicy
  <1> QED BY <1>1, <1>4 DEF Published

\* SetProgram keeps every version it stores under its terms.
LEMMA PoliciesPreserved ==
  ASSUME PoliciesInv, [ReviewNext]_reviewVars
  PROVE  /\ PoliciesInv'
         /\ \A p : HeldProgram(p) => HeldProgram(p)'
  <1>1. CASE programs' = programs
    BY <1>1 DEF PoliciesInv, HeldProgram, Published
  <1>2. ASSUME NEW doc \in ProgramDocs, SetProgram(doc)
        PROVE  PoliciesInv' /\ \A p : HeldProgram(p) => HeldProgram(p)'
    <2>1. PICK p : /\ p = [doc EXCEPT !.calculation = CalculationVersion]
                   /\ programs' = Put(programs, p.version, p)
      BY <1>2 DEF SetProgram
    <2>2. Published(p)
      BY <2>1, PinnedIsPublished
    <2>3. ASSUME NEW v \in DOMAIN programs'
          PROVE  programs'[v].version = v /\ Published(programs'[v])
      <3>1. CASE v = p.version
        BY <2>1, <2>2, <3>1 DEF Put
      <3>2. CASE v # p.version
        <4>1. v \in DOMAIN programs /\ programs'[v] = programs[v]
          BY <2>1, <2>3, <3>2 DEF Put
        <4> QED BY <4>1 DEF PoliciesInv
      <3> QED BY <3>1, <3>2
    <2>4. \A v : Has(programs, v) => Has(programs', v)
      BY <2>1 DEF Has, Put
    <2> QED BY <2>3, <2>4 DEF PoliciesInv, HeldProgram, Published
  <1> QED BY <1>1, <1>2, ProgramSteps

\* A stored document more.
LEMMA DocsOfPut ==
  ASSUME NEW coll, NEW id, NEW doc
  PROVE  Docs(Put(coll, id, doc)) \subseteq Docs(coll) \cup {doc}
  BY DEF Docs, Range, Put

\* ImportReceipts adds one exported receipt at a time.
LEMMA ReceiptsPreserved ==
  ASSUME ReceiptsSound(Docs(receipts)), [Next]_vars
  PROVE  ReceiptsSound(Docs(receipts))'
  <1>1. CASE receipts' = receipts
    BY <1>1
  <1>2. ASSUME NEW r \in ReceiptDocs, ImportReceipt(r)
        PROVE  ReceiptsSound(Docs(receipts))'
    <2>1. receipts' = Put(receipts, r.source, r)
      BY <1>2 DEF ImportReceipt
    <2>2. PICK old, new : old = Docs(receipts) /\ new = Docs(receipts')
      OBVIOUS
    <2>3. new \subseteq old \cup {r}
      BY <2>1, <2>2, DocsOfPut
    <2>4. IsFiniteSet(old) /\ \A x \in old : x.net \in Int
      BY <2>2 DEF ReceiptsSound
    <2>5. IsFiniteSet(new)
      BY <2>3, <2>4, FS_AddElement, FS_Subset
    <2>6. \A x \in new : x.net \in Int
      BY <2>3, <2>4, ReceiptsAssumption
    <2> QED BY <2>2, <2>5, <2>6 DEF ReceiptsSound
  <1> QED BY <1>1, <1>2, AdminSteps

\* The credits of a proposal are those of its request.
LEMMA ProposedCredits ==
  ASSUME NEW id, NEW req \in Requests, NEW p, NEW f \in [DOMAIN req.splits -> Int],
         NEW d, d = ProposedAward(id, req, p, f)
  PROVE  Credits(d.splits) /\ DOMAIN d.splits \subseteq Int
  <1>1. d.splits = [a \in Range(f) |-> req.splits[CHOOSE h \in DOMAIN f : f[h] = a]]
    BY DEF ProposedAward
  <1>2. IsFiniteSet(DOMAIN req.splits) /\ \A h \in DOMAIN req.splits : req.splits[h] \in Int
    BY ReviewAssumption DEF Credits
  <1>3. PICK S, T : S = DOMAIN req.splits /\ T = Range(f)
    OBVIOUS
  <1>4. T \subseteq Int /\ DOMAIN f = S
    BY <1>3 DEF Range
  <1>5. f \in Surjection(S, T)
    BY <1>3 DEF Range, Surjection
  <1>6. IsFiniteSet(T)
    BY <1>2, <1>3, <1>5, FS_Surjection
  <1>7. ASSUME NEW a \in T PROVE d.splits[a] \in Int
    <2>1. \E h \in DOMAIN f : f[h] = a
      BY <1>3 DEF Range
    <2>2. (CHOOSE h \in DOMAIN f : f[h] = a) \in DOMAIN f
      BY <2>1
    <2> QED BY <1>1, <1>2, <1>3, <1>4, <2>2
  <1>8. DOMAIN d.splits = T
    BY <1>1, <1>3
  <1> QED BY <1>4, <1>6, <1>7, <1>8 DEF Credits

\* Proposals and decisions keep the credits whole.
LEMMA AwardsStaySound ==
  ASSUME StoresInv, [ReviewNext]_reviewVars
  PROVE  AwardsSound(Docs(awards))'
  <1>1. CASE awards' = awards
    BY <1>1 DEF StoresInv
  <1>2. ASSUME NEW id, NEW d, awards' = Put(awards, id, d), Credits(d.splits),
               DOMAIN d.splits \subseteq Int
        PROVE  AwardsSound(Docs(awards))'
    <2>1. PICK old, new : old = Docs(awards) /\ new = Docs(awards')
      OBVIOUS
    <2>2. new \subseteq old \cup {d}
      BY <1>2, <2>1, DocsOfPut
    <2>3. IsFiniteSet(old) /\ \A a \in old : Credits(a.splits) /\ DOMAIN a.splits \subseteq Int
      BY <2>1 DEF AwardsSound, StoresInv
    <2>4. IsFiniteSet(new)
      BY <2>2, <2>3, FS_AddElement, FS_Subset
    <2>5. \A a \in new : Credits(a.splits) /\ DOMAIN a.splits \subseteq Int
      BY <1>2, <2>2, <2>3
    <2> QED BY <2>1, <2>4, <2>5 DEF AwardsSound
  <1>3. ASSUME NEW w \in Reviewers, ProposeCreate(w), awards' # awards
        PROVE  AwardsSound(Docs(awards))'
    <2>1. PICK id, d, req, p, f :
            /\ awards' = Put(awards, id, d) /\ d = ProposedAward(id, req, p, f)
            /\ req = review[w].req /\ p = review[w].program /\ f = review[w].recipients
      BY <1>3, ProposalStored
    <2>2. review[w].pc = "create"
      BY <1>3 DEF ProposeCreate
    <2>3. req \in Requests /\ f \in [DOMAIN req.splits -> Int]
      BY <2>1, <2>2 DEF StoresInv, RequestInv
    <2>4. Credits(d.splits) /\ DOMAIN d.splits \subseteq Int
      BY <2>1, <2>3, ProposedCredits
    <2> QED BY <1>2, <2>1, <2>4
  <1>4. ASSUME NEW w \in Reviewers, DecideSet(w)
        PROVE  AwardsSound(Docs(awards))'
    <2>1. AwardsInv
      BY DEF StoresInv
    <2>2. PICK id, d : /\ Has(awards, id) /\ awards' = Put(awards, id, d)
                       /\ SameTerms(d, awards[id]) /\ AwardFields \subseteq DOMAIN d
      BY <1>4, <2>1, DecisionStored
    <2>3. PICK b : b = awards[id]
      OBVIOUS
    <2>4. AwardFields \subseteq DOMAIN b /\ b \in Docs(awards)
      BY <2>1, <2>2, <2>3, DocsFacts DEF AwardsInv, Has
    <2>5. d.splits = b.splits
      BY <2>2, <2>3, <2>4, SameFields
    <2>6. Credits(b.splits) /\ DOMAIN b.splits \subseteq Int
      BY <2>4 DEF StoresInv, AwardsSound
    <2> QED BY <1>2, <2>2, <2>5, <2>6
  <1> QED BY <1>1, <1>3, <1>4, AwardSteps
\* Accounts stay integers.
LEMMA AccountsPreserved ==
  ASSUME DOMAIN participants \subseteq Int, [ReviewNext]_reviewVars
  PROVE  DOMAIN participants' \subseteq Int
  <1>1. \/ participants' = participants
        \/ \E p \in Participants : participants' = Put(participants, p.account, p)
    BY DEF ReviewNext, ReviewStep, reviewVars, CreateParticipant,
           SetParticipant, SetProgram, ProposeReadProgram, ProposeResolve,
           ProposeCreate, DecideRead, DecideSet, Abort
  <1>2. ASSUME NEW p \in Participants, participants' = Put(participants, p.account, p)
        PROVE  DOMAIN participants' \subseteq Int
    <2>1. p.account \in Int
      BY ReviewAssumption
    <2> QED BY <1>2, <2>1 DEF Put
  <1> QED BY <1>1, <1>2

\* A proposal is about its request, whatever happens meanwhile.
LEMMA RequestsPreserved ==
  ASSUME AwardsInv, DOMAIN participants \subseteq Int, [ReviewNext]_reviewVars,
         NEW w \in Reviewers, RequestInv(w)
  PROVE  RequestInv(w)'
  <1>1. DOMAIN review = Reviewers
    BY DEF AwardsInv
  <1>2. CASE review'[w] = review[w]
    BY <1>2 DEF RequestInv
  <1>3. CASE review'[w] = Idle
    BY <1>3 DEF RequestInv, Idle
  <1>4. ASSUME NEW x \in Reviewers, ReviewStep(x) PROVE RequestInv(w)'
    <2>1. CASE x # w
      <3>1. review'[w] = review[w]
        BY <1>1, <1>4, <2>1 DEF ReviewStep, ProposeReadProgram, ProposeResolve,
             ProposeCreate, DecideRead, DecideSet, Abort
      <3> QED BY <1>2, <3>1
    <2>2. ASSUME NEW req \in Requests, ProposeReadProgram(w, req)
          PROVE  RequestInv(w)'
      <3>1. PICK p : review'[w] = [pc |-> "resolve", req |-> req, program |-> p]
        BY <1>1, <2>2 DEF ProposeReadProgram
      <3> QED BY <3>1 DEF RequestInv
    <2>3. CASE ProposeResolve(w)
      <3>1. CASE review' = [review EXCEPT ![w] = Idle]
        BY <1>1, <1>3, <3>1
      <3>2. ASSUME NEW f \in Resolutions(review[w].req.splits),
                   review' = [review EXCEPT ![w] =
                                [pc |-> "create", req |-> review[w].req,
                                 program |-> review[w].program, recipients |-> f]]
            PROVE  RequestInv(w)'
        <4>1. PICK req, p : req = review[w].req /\ p = review[w].program
          OBVIOUS
        <4>2. review'[w] = [pc |-> "create", req |-> req, program |-> p, recipients |-> f]
          BY <1>1, <3>2, <4>1
        <4>3. req \in Requests
          BY <2>3, <4>1 DEF ProposeResolve, RequestInv
        <4>4. f \in [DOMAIN req.splits -> Int]
          BY <4>1 DEF Resolutions
        <4> QED BY <4>2, <4>3, <4>4 DEF RequestInv
      <3> QED BY <2>3, <3>1, <3>2 DEF ProposeResolve
    <2>4. CASE ProposeCreate(w)
      BY <1>1, <1>3, <2>4 DEF ProposeCreate
    <2>5. ASSUME NEW id \in AwardIDs, NEW approve \in BOOLEAN, DecideRead(w, id, approve)
          PROVE  RequestInv(w)'
      <3>1. review'[w].pc = "decide"
        BY <1>1, <2>5 DEF DecideRead
      <3> QED BY <3>1 DEF RequestInv
    <2>6. CASE DecideSet(w)
      BY <1>1, <1>3, <2>6 DEF DecideSet
    <2>7. CASE Abort(w)
      BY <1>1, <1>3, <2>7 DEF Abort
    <2> QED BY <1>4, <2>1, <2>2, <2>3, <2>4, <2>5, <2>6, <2>7 DEF ReviewStep
  <1>5. CASE \/ \E p \in ProgramDocs : SetProgram(p)
             \/ \E p \in Participants : CreateParticipant(p) \/ SetParticipant(p)
             \/ UNCHANGED reviewVars
    BY <1>2, <1>5 DEF SetProgram, CreateParticipant, SetParticipant, reviewVars
  <1> QED BY <1>4, <1>5 DEF ReviewNext

\* The stores together.
LEMMA StoresPreserved ==
  ASSUME IInv, StoresInv, [Next]_vars
  PROVE  StoresInv'
  <1>1. [ReviewNext]_reviewVars
    BY NextIsReview
  <1>2. TypeOK'
    BY TypeOKPreserved
  <1>3. AwardsInv'
    BY <1>1, AwardsPreserved DEF StoresInv
  <1>4. PoliciesInv'
    BY <1>1, PoliciesPreserved DEF StoresInv
  <1>5. DOMAIN participants' \subseteq Int
    BY <1>1, AccountsPreserved DEF StoresInv
  <1>6. \A w \in Reviewers : RequestInv(w)'
    BY <1>1, RequestsPreserved DEF StoresInv
  <1>7. AwardsSound(Docs(awards))'
    BY <1>1, AwardsStaySound
  <1>8. ReceiptsSound(Docs(receipts))'
    BY ReceiptsPreserved DEF StoresInv
  <1> QED BY <1>2, <1>3, <1>4, <1>5, <1>6, <1>7, <1>8 DEF StoresInv

-----------------------------------------------------------------------------
\* Fewer documents are as sound.
LEMMA SomeReceipts ==
  ASSUME NEW rs, ReceiptsSound(rs), NEW some, some \subseteq rs
  PROVE  ReceiptsSound(some)
  BY FS_Subset DEF ReceiptsSound

\* The same for awards.
LEMMA SomeAwards ==
  ASSUME NEW as, AwardsSound(as), NEW some, some \subseteq as
  PROVE  AwardsSound(some)
  BY FS_Subset DEF AwardsSound

\* What a close computes from sound inputs is sound.
LEMMA ComputesSound ==
  ASSUME SoundInv, NEW c \in Closers, closing[c].pc \in {"carry", "gap"},
         NEW carryforward \in Int, Compute(c, carryforward),
         \A p : HeldProgram(p) => HeldProgram(p)'
  PROVE  ReadInv(c)'
  <1>1. PICK m, p, rs, as :
          /\ m = closing[c].month /\ p = closing[c].program
          /\ rs = closing[c].receipts /\ as = closing[c].awards
    OBVIOUS
  <1>2. PICK round : round = ComputeRound(p, m, rs, as, carryforward)
    OBVIOUS
  <1>3. HeldProgram(p) /\ ReceiptsSound(rs) /\ AwardsSound(as)
    BY <1>1 DEF SoundInv, ReadInv
  <1>4. DOMAIN closing = Closers
    BY DEF SoundInv, StoresInv, TypeOK
  <1>5. CASE GiveUp(c)
    <2>1. closing'[c] = Idle
      BY <1>4, <1>5 DEF GiveUp
    <2> QED BY <2>1 DEF ReadInv, Idle
  <1>6. CASE /\ ~ComputeFails(p, m, rs, as)
             /\ closing' = [closing EXCEPT ![c] =
                              [pc |-> "store", month |-> m, program |-> p,
                               round |-> round, pending |-> Payees(round)]]
    <2>1. closing'[c] = [pc |-> "store", month |-> m, program |-> p,
                         round |-> round, pending |-> Payees(round)]
      BY <1>4, <1>6
    <2>2. PICK q \in Policies : SamePolicy(p, q)
      BY <1>3 DEF HeldProgram, Published
    <2>3. p.poolBps \in Int
      BY <2>2, ReviewAssumption DEF SamePolicy
    <2>4. ~ComputeFails(p, m, rs, as)
      BY <1>6
    <2>5. ReceiptsSound(rs)
      BY <1>3
    <2>6. AwardsSound(as)
      BY <1>3
    <2>7. SoundRound(p, round)
      BY ONLY carryforward \in Int, <1>2, <2>3, <2>4, <2>5, <2>6, ComputedIsSound
    <2>8. HeldProgram(p)'
      BY <1>3
    <2> QED BY <2>1, <2>7, <2>8 DEF ReadInv, HeldProgram
  <1> QED BY <1>1, <1>2, <1>5, <1>6 DEF Compute

\* Whatever a close does, it holds sound inputs and results.
LEMMA ReadsPreserved ==
  ASSUME SoundInv, [Next]_vars, NEW c \in Closers
  PROVE  ReadInv(c)'
  <1>1. TypeOK /\ ReadInv(c) /\ DOMAIN closing = Closers
    BY DEF SoundInv, StoresInv, TypeOK
  <1>2. \A p : HeldProgram(p) => HeldProgram(p)'
    BY NextIsReview, PoliciesPreserved DEF SoundInv, StoresInv
  <1>3. CASE closing'[c] = closing[c]
    BY <1>1, <1>2, <1>3 DEF ReadInv
  <1>4. CASE closing'[c] = Idle
    BY <1>4 DEF ReadInv, Idle
  <1>5. CASE GiveUp(c)
    BY <1>1, <1>4, <1>5 DEF GiveUp
  <1>6. ASSUME ReadStep(c) PROVE ReadInv(c)'
    <2>1. ASSUME NEW m \in Months, NEW t \in Instants, StartClose(c, m, t)
          PROVE  ReadInv(c)'
      <3>1. closing'[c].pc = "program"
        BY <1>1, <2>1 DEF StartClose
      <3> QED BY <3>1 DEF ReadInv
    <2>2. CASE ReadProgram(c)
      <3>1. ASSUME NEW p \in ProgramsFor(closing[c].month),
                   closing' = [closing EXCEPT ![c] =
                        [pc |-> "receipts", month |-> closing[c].month,
                         program |-> p]]
            PROVE  ReadInv(c)'
        <4>1. p \in Docs(programs)
          BY DEF ProgramsFor, Effective
        <4>2. PICK v \in DOMAIN programs : programs[v] = p
          BY <4>1, DocsFacts
        <4>3. p.version = v /\ Published(p)
          BY <4>2 DEF SoundInv, StoresInv, PoliciesInv
        <4>4. HeldProgram(p)'
          BY <1>2, <4>2, <4>3 DEF HeldProgram, Has
        <4>5. closing'[c].pc = "receipts" /\ closing'[c].program = p
          BY <1>1, <3>1
        <4> QED BY <4>4, <4>5 DEF ReadInv, HeldProgram
      <3> QED BY <1>5, <2>2, <3>1 DEF ReadProgram
    <2>3. CASE ReadReceipts(c)
      <3>1. PICK m, p, rs : /\ m = closing[c].month /\ p = closing[c].program
                            /\ rs = {r \in Docs(receipts) : r.month = m}
        OBVIOUS
      <3>2. closing'[c] = [pc |-> "awards", month |-> m, program |-> p, receipts |-> rs]
        BY <1>1, <2>3, <3>1 DEF ReadReceipts
      <3>3. rs \subseteq Docs(receipts) /\ ReceiptsSound(Docs(receipts))
        BY <3>1 DEF SoundInv, StoresInv
      <3>4. ReceiptsSound(rs)
        BY <3>3, SomeReceipts
      <3>5. HeldProgram(p)'
        BY <1>1, <1>2, <2>3, <3>1 DEF ReadReceipts, ReadInv
      <3> QED BY <3>2, <3>4, <3>5 DEF ReadInv, HeldProgram
    <2>4. CASE ReadAwards(c)
      <3>1. PICK m, p, rs, as :
              /\ m = closing[c].month /\ p = closing[c].program
              /\ rs = closing[c].receipts
              /\ as = {a \in Docs(awards) : a.status = "approved"}
        OBVIOUS
      <3>2. closing'[c] = [pc |-> "carry", month |-> m, program |-> p,
                           receipts |-> rs, awards |-> as]
        BY <1>1, <2>4, <3>1 DEF ReadAwards
      <3>3. as \subseteq Docs(awards) /\ AwardsSound(Docs(awards))
        BY <3>1 DEF SoundInv, StoresInv
      <3>4. AwardsSound(as)
        BY <3>3, SomeAwards
      <3>5. HeldProgram(p)' /\ ReceiptsSound(rs)
        BY <1>1, <1>2, <2>4, <3>1 DEF ReadAwards, ReadInv
      <3> QED BY <3>2, <3>4, <3>5 DEF ReadInv, HeldProgram
    <2>5. CASE ReadPrevious(c)
      <3>1. PICK prev : prev = closing[c].month - 1
        OBVIOUS
      <3>2. closing[c].pc = "carry"
        BY <2>5 DEF ReadPrevious
      <3>3. CASE closing' = [closing EXCEPT ![c].pc = "gap"]
        <4>1. /\ closing'[c].pc = "gap"
              /\ closing'[c].program = closing[c].program
              /\ closing'[c].receipts = closing[c].receipts
              /\ closing'[c].awards = closing[c].awards
          BY <1>1, <3>2, <3>3
        <4> QED BY <1>1, <1>2, <3>2, <4>1 DEF ReadInv
      <3>4. CASE Has(rounds, prev) /\ Compute(c, rounds[prev].unallocated)
        <4>1. PICK carryforward : carryforward = rounds[prev].unallocated
          OBVIOUS
        <4>2. carryforward \in Int
          BY <3>4, <4>1 DEF SoundInv, RoundInv, SoundRound, Has
        <4> QED BY <1>2, <3>2, <3>4, <4>1, <4>2, ComputesSound
      <3> QED BY <2>5, <3>1, <3>3, <3>4 DEF ReadPrevious
    <2>6. CASE ReadRounds(c)
      <3>1. closing[c].pc = "gap"
        BY <2>6 DEF ReadRounds
      <3>2. CASE Compute(c, 0)
        BY <1>2, <3>1, <3>2, ComputesSound
      <3> QED BY <1>5, <2>6, <3>2 DEF ReadRounds
    <2>7. CASE Fail(c)
      BY <1>5, <2>7 DEF Fail
    <2> QED BY <1>6, <2>1, <2>2, <2>3, <2>4, <2>5, <2>6, <2>7 DEF ReadStep
  <1>7. ASSUME StoreObligation(c) PROVE ReadInv(c)'
    <2>1. PICK acct : closing' = [closing EXCEPT ![c].pending = closing[c].pending \ {acct}]
      BY <1>7 DEF StoreObligation
    <2>2. /\ closing'[c].pc = "store" /\ closing[c].pc = "store"
          /\ closing'[c].program = closing[c].program
          /\ closing'[c].round = closing[c].round
      BY <1>1, <1>7, <2>1 DEF StoreObligation
    <2> QED BY <1>1, <1>2, <2>2 DEF ReadInv
  <1>8. ASSUME CommitRound(c) PROVE ReadInv(c)'
    BY <1>5, <1>8 DEF CommitRound
  <1>9. CASE \/ \E r \in ReceiptDocs : ImportReceipt(r)
             \/ \E id \in DOMAIN obligations, to \in PayoutStates : Transition(id, to)
             \/ UNCHANGED closeVars
    <2>1. closing' = closing
      BY <1>9 DEF ImportReceipt, Transition, closeVars
    <2> QED BY <1>3, <2>1
  <1>10. ASSUME NEW d \in Closers, d # c,
                ReadStep(d) \/ StoreObligation(d) \/ CommitRound(d)
         PROVE  ReadInv(c)'
    BY <1>1, <1>3, <1>10, OthersStay
  <1> QED BY <1>6, <1>7, <1>8, <1>9, <1>10, NextCases
\* The rounds stay what they are, and the one that is added is sound.
LEMMA SoundPreserved ==
  ASSUME IInv, SoundInv, [Next]_vars
  PROVE  SoundInv'
  <1>1. StoresInv'
    BY StoresPreserved DEF SoundInv
  <1>2. \A c \in Closers : ReadInv(c)'
    BY ReadsPreserved
  <1>3. \A p : HeldProgram(p) => HeldProgram(p)'
    BY NextIsReview, PoliciesPreserved DEF SoundInv, StoresInv
  <1>4. CASE rounds' = rounds
    <2>1. ASSUME NEW m \in DOMAIN rounds' PROVE RoundInv(m)'
      <3>1. PICK p : HeldProgram(p) /\ SoundRound(p, rounds[m])
        BY <1>4, <2>1 DEF SoundInv, RoundInv
      <3>2. HeldProgram(p)' /\ SoundRound(p, rounds'[m])
        BY <1>3, <1>4, <3>1
      <3> QED BY <3>2 DEF RoundInv, HeldProgram
    <2>2. IsFiniteSet(DOMAIN rounds')
      BY <1>4 DEF SoundInv
    <2> QED BY <1>1, <1>2, <2>1, <2>2 DEF SoundInv
  <1>5. ASSUME NEW c \in Closers, CommitRound(c), ~Has(rounds, closing[c].month),
               rounds' = Put(rounds, closing[c].month, closing[c].round)
        PROVE  SoundInv'
    <2>1. PICK m, p, r : m = closing[c].month /\ p = closing[c].program /\ r = closing[c].round
      OBVIOUS
    <2>2. closing[c].pc = "store"
      BY <1>5 DEF CommitRound
    <2>3. HeldProgram(p) /\ SoundRound(p, r)
      BY <2>1, <2>2 DEF SoundInv, ReadInv
    <2>4. DOMAIN rounds' = DOMAIN rounds \cup {m}
      BY <1>5, <2>1 DEF Put
    <2>5. IsFiniteSet(DOMAIN rounds')
      BY <2>4, FS_AddElement DEF SoundInv
    <2>6. ASSUME NEW k \in DOMAIN rounds' PROVE RoundInv(k)'
      <3>1. \E q : HeldProgram(q) /\ SoundRound(q, rounds'[k])
        <4>1. CASE k = m
          BY <1>5, <2>1, <2>3, <4>1 DEF Put
        <4>2. CASE k # m
          <5>1. k \in DOMAIN rounds /\ rounds'[k] = rounds[k]
            BY <1>5, <2>1, <2>4, <4>2 DEF Put
          <5> QED BY <5>1 DEF SoundInv, RoundInv
        <4> QED BY <4>1, <4>2
      <3>2. PICK q : HeldProgram(q) /\ SoundRound(q, rounds'[k])
        BY <3>1
      <3>3. HeldProgram(q)'
        BY <1>3, <3>2
      <3> QED BY <3>2, <3>3 DEF RoundInv, HeldProgram
    <2> QED BY <1>1, <1>2, <2>5, <2>6 DEF SoundInv
  <1> QED BY <1>4, <1>5, RoundSteps

\* Nothing is closed or read at first.
LEMMA InitSound ==
  ASSUME Init
  PROVE  SoundInv
  <1>1. ReviewInit
    BY DEF Init
  <1>2. TypeOK
    BY InitIInv DEF IInv
  <1>3. AwardsInv
    BY <1>1, InitAwardsInv
  <1>4. PoliciesInv
    <2>1. programs = InitPrograms
      BY <1>1 DEF ReviewInit
    <2>2. ASSUME NEW v \in DOMAIN programs
          PROVE  programs[v].version = v /\ Published(programs[v])
      <3>1. programs[v] \in Policies
        BY <2>1, <2>2, DocsFacts DEF Policies
      <3> QED BY <2>1, <2>2, <3>1, ReviewAssumption DEF Published, SamePolicy
    <2> QED BY <2>2 DEF PoliciesInv
  <1>5. DOMAIN participants \subseteq Int
    BY <1>1, ReviewAssumption DEF ReviewInit
  <1>6. \A w \in Reviewers : RequestInv(w)
    BY <1>1 DEF ReviewInit, RequestInv, Idle
  <1>7. AwardsSound(Docs(awards))
    <2>1. awards = InitAwards
      BY <1>1 DEF ReviewInit
    <2>2. IsFiniteSet(Docs(awards))
      BY <2>1, ReviewAssumption
    <2>3. ASSUME NEW a \in Docs(awards) PROVE Credits(a.splits) /\ DOMAIN a.splits \subseteq Int
      <3>1. PICK id \in DOMAIN InitAwards : InitAwards[id] = a
        BY <2>1, DocsFacts
      <3> QED BY <3>1, ReviewAssumption
    <2> QED BY <2>2, <2>3 DEF AwardsSound
  <1>8. ReceiptsSound(Docs(receipts))
    <2>1. Docs(receipts) = {}
      BY DEF Init, EmptyCollection, Docs, Range
    <2> QED BY <2>1, FS_EmptySet DEF ReceiptsSound
  <1>9. DOMAIN rounds = {} /\ closing = [c \in Closers |-> Idle]
    BY DEF Init, EmptyCollection
  <1>10. IsFiniteSet(DOMAIN rounds) /\ \A m \in DOMAIN rounds : RoundInv(m)
    BY <1>9, FS_EmptySet
  <1>11. \A c \in Closers : ReadInv(c)
    BY <1>9 DEF ReadInv, Idle
  <1>12. StoresInv
    BY <1>2, <1>3, <1>4, <1>5, <1>6, <1>7, <1>8 DEF StoresInv
  <1> QED BY <1>10, <1>11, <1>12 DEF SoundInv

-----------------------------------------------------------------------------
(***************************************************************************)
(* The books balance.  The balances carried into the rounds, month by      *)
(* month, are the balances that were taken over from the months before.    *)
(***************************************************************************)
MonthsBefore(S) == {m - 1 : m \in S}

\* A sum may be taken over the months before.
LEMMA TotalShifted ==
  ASSUME NEW S, IsFiniteSet(S), S \subseteq Int, NEW f, NEW g,
         \A m \in S : f[m] \in Int /\ g[m - 1] = f[m]
  PROVE  Total(f, S) = Total(g, MonthsBefore(S))
  <1>1. PICK G : G = {s \in SUBSET S : IsFiniteSet(MonthsBefore(s)) /\ Total(f, s) = Total(g, MonthsBefore(s))}
    OBVIOUS
  <1>2. {} \in G
    <2>1. MonthsBefore({}) = {}
      BY DEF MonthsBefore
    <2> QED BY <1>1, <2>1, TotalOfNone, FS_EmptySet
  <1>3. ASSUME NEW s \in SUBSET S, s # {}, \A x \in s : s \ {x} \in G
        PROVE  s \in G
    <2>1. PICK x \in s : TRUE
      BY <1>3
    <2>2. PICK u : u = s \ {x}
      OBVIOUS
    <2>3. IsFiniteSet(MonthsBefore(u)) /\ Total(f, u) = Total(g, MonthsBefore(u))
      BY <1>1, <1>3, <2>2
    <2>4. PICK v, w : v = MonthsBefore(u) /\ w = MonthsBefore(s)
      OBVIOUS
    <2>5. w = v \cup {x - 1} /\ x - 1 \notin v
      BY <2>2, <2>4 DEF MonthsBefore
    <2>6. w \ {x - 1} = v /\ x - 1 \in w
      BY <2>5
    <2>7. IsFiniteSet(w)
      BY <2>3, <2>4, <2>5, FS_AddElement
    <2>8. \A y \in w : g[y] \in Int
      BY <2>4 DEF MonthsBefore
    <2>9. Total(g, w) = g[x - 1] + Total(g, v)
      BY <2>6, <2>7, <2>8, TotalWithout
    <2>10. IsFiniteSet(s) /\ \A y \in s : f[y] \in Int
      BY FS_Subset
    <2>11. Total(f, s) = f[x] + Total(f, u)
      BY <2>2, <2>10, TotalWithout
    <2>12. Total(f, s) = Total(g, w)
      BY <2>3, <2>4, <2>9, <2>11
    <2> QED BY <1>1, <2>4, <2>7, <2>12
  <1>4. S \in G
    BY <1>2, <1>3, FiniteInduction
  <1> QED BY <1>1, <1>4

\* What is carried is what was taken over.
LEMMA CarriedIsTaken ==
  ASSUME TypeOK, CarryIsPredecessors, IsFiniteSet(DOMAIN rounds),
         \A m \in DOMAIN rounds : rounds[m].carry \in Int /\ rounds[m].unallocated \in Int,
         NEW D, D = DOMAIN rounds,
         NEW k, \A m \in D : k[m] = rounds[m].carry,
         NEW t, \A m \in D : t[m] = IF Taken(m) THEN rounds[m].unallocated ELSE 0
  PROVE  Total(k, D) = Total(t, D)
  <1>1. D \subseteq Int
    BY MonthsAssumption DEF TypeOK
  <1>2. \A m \in D : k[m] \in Int /\ t[m] \in Int
    OBVIOUS
  <1>3. PICK K, T : K = {m \in D : k[m] # 0} /\ T = {m \in D : t[m] # 0}
    OBVIOUS
  <1>4. K \subseteq D /\ T \subseteq D
    BY <1>3
  <1>5. \A m \in D \ K : k[m] = 0
    BY <1>3
  <1>6. \A m \in D \ T : t[m] = 0
    BY <1>3
  <1>7. IsFiniteSet(D)
    OBVIOUS
  <1>8. Total(k, D) = Total(k, K)
    BY <1>2, <1>4, <1>5, <1>7, TotalOfRest
  <1>9. Total(t, D) = Total(t, T)
    BY <1>2, <1>4, <1>6, <1>7, TotalOfRest
  <1>10. ASSUME NEW m \in K PROVE m \in Int /\ m - 1 \in T /\ t[m - 1] = k[m] /\ k[m] \in Int
    <2>1. m \in D /\ m \in Int /\ k[m] = rounds[m].carry /\ k[m] # 0
      BY <1>1, <1>3
    <2>2. m - 1 \in D /\ rounds[m].carry = rounds[m - 1].unallocated
      BY <2>1 DEF CarryIsPredecessors, Has
    <2>3. (m - 1) + 1 = m
      BY <2>1
    <2>4. Taken(m - 1)
      BY <2>1, <2>2, <2>3 DEF Taken, Has
    <2>5. t[m - 1] = k[m]
      BY <2>1, <2>2, <2>4
    <2> QED BY <1>2, <1>3, <2>1, <2>2, <2>5
  <1>11. ASSUME NEW m \in T PROVE m \in Int /\ m + 1 \in K
    <2>1. m \in D /\ m \in Int /\ t[m] # 0
      BY <1>1, <1>3
    <2>2. Taken(m) /\ t[m] = rounds[m].unallocated
      BY <2>1
    <2>3. m + 1 \in D /\ rounds[m + 1].carry = t[m]
      BY <2>2 DEF Taken, Has
    <2> QED BY <1>3, <2>1, <2>3
  <1>12. MonthsBefore(K) = T
    <2>1. MonthsBefore(K) \subseteq T
      BY <1>10 DEF MonthsBefore
    <2>2. ASSUME NEW m \in T PROVE m \in MonthsBefore(K)
      <3>1. m = (m + 1) - 1 /\ m + 1 \in K
        BY <1>11, <2>2
      <3> QED BY <3>1 DEF MonthsBefore
    <2> QED BY <2>1, <2>2
  <1>13. IsFiniteSet(K) /\ K \subseteq Int
    BY <1>1, <1>4, <1>7, FS_Subset
  <1>14. \A m \in K : k[m] \in Int /\ t[m - 1] = k[m]
    BY <1>10
  <1>15. Total(k, K) = Total(t, MonthsBefore(K))
    BY ONLY <1>13, <1>14, TotalShifted
  <1> QED BY <1>8, <1>9, <1>12, <1>15

\* The balance of all rounds from the balance of each.
LEMMA BooksBalance ==
  ASSUME IInv, SoundInv
  PROVE  NoCentTwice
  <1>1. PICK D : D = DOMAIN rounds
    OBVIOUS
  <1>2. PICK x, y, z :
          /\ x = [m \in DOMAIN rounds |-> rounds[m].pool - rounds[m].carry]
          /\ y = [m \in DOMAIN rounds |-> AllocatedCents(rounds[m].ents)]
          /\ z = [m \in DOMAIN rounds |-> IF Taken(m) THEN 0 ELSE rounds[m].unallocated]
    OBVIOUS
  <1>3. PICK k, t, u, s :
          /\ k = [m \in D |-> rounds[m].carry]
          /\ t = [m \in D |-> IF Taken(m) THEN rounds[m].unallocated ELSE 0]
          /\ u = [m \in D |-> rounds[m].unallocated]
          /\ s = [m \in D |-> rounds[m].pool]
    OBVIOUS
  <1>4. IsFiniteSet(D)
    BY <1>1 DEF SoundInv
  <1>5. ASSUME NEW m \in D
        PROVE  /\ rounds[m].carry \in Int /\ rounds[m].pool \in Int
               /\ rounds[m].unallocated \in Int /\ AllocatedCents(rounds[m].ents) \in Int
               /\ rounds[m].pool = AllocatedCents(rounds[m].ents) + rounds[m].unallocated
    <2>1. PICK p : SoundRound(p, rounds[m])
      BY <1>1 DEF SoundInv, RoundInv
    <2>2. /\ rounds[m].carry \in Int /\ rounds[m].pool \in Int
          /\ rounds[m].unallocated \in Int /\ AllocatedCents(rounds[m].ents) \in Int
      BY <2>1 DEF SoundRound
    <2>3. rounds[m].pool - AllocatedCents(rounds[m].ents) = rounds[m].unallocated
      BY <2>1 DEF SoundRound, VerifyRound
    <2> QED BY <2>2, <2>3
  <1>6. \A m \in D : x[m] \in Int /\ k[m] \in Int /\ s[m] = x[m] + k[m]
    BY <1>1, <1>2, <1>3, <1>5
  <1>7. \A m \in D : y[m] \in Int /\ u[m] \in Int /\ s[m] = y[m] + u[m]
    BY <1>1, <1>2, <1>3, <1>5
  <1>8. \A m \in D : z[m] \in Int /\ t[m] \in Int /\ u[m] = z[m] + t[m]
    BY <1>1, <1>2, <1>3, <1>5
  <1>9. Total(s, D) = Total(x, D) + Total(k, D)
    BY <1>4, <1>6, TotalOfSums
  <1>10. Total(s, D) = Total(y, D) + Total(u, D)
    BY <1>4, <1>7, TotalOfSums
  <1>11. Total(u, D) = Total(z, D) + Total(t, D)
    BY <1>4, <1>8, TotalOfSums
  <1>12. Total(k, D) = Total(t, D)
    <2>1. TypeOK
      BY DEF IInv
    <2>2. CarryIsPredecessors
      BY DEF IInv
    <2>3. IsFiniteSet(DOMAIN rounds)
      BY <1>1, <1>4
    <2>4. \A m \in DOMAIN rounds : rounds[m].carry \in Int /\ rounds[m].unallocated \in Int
      BY <1>1, <1>5
    <2>5. \A m \in D : k[m] = rounds[m].carry
      BY <1>3
    <2>6. \A m \in D : t[m] = IF Taken(m) THEN rounds[m].unallocated ELSE 0
      BY <1>3
    <2> QED BY ONLY <1>1, <2>1, <2>2, <2>3, <2>4, <2>5, <2>6, CarriedIsTaken
  <1>13. /\ Total(x, D) \in Int /\ Total(y, D) \in Int /\ Total(z, D) \in Int
         /\ Total(k, D) \in Int /\ Total(t, D) \in Int /\ Total(u, D) \in Int
    BY <1>4, <1>6, <1>7, <1>8, TotalIsInt
  <1>14. Total(x, D) = Total(y, D) + Total(z, D)
    BY ONLY <1>9, <1>10, <1>11, <1>12, <1>13
  <1> QED BY <1>1, <1>2, <1>14 DEF NoCentTwice

\* Every stored round verifies against the stored program of its version.
LEMMA RoundsVerify ==
  ASSUME PoliciesAreFixed, SoundInv
  PROVE  RoundsReproducible /\ PoolsAreSpent
  <1>1. ASSUME NEW m \in DOMAIN rounds
        PROVE  /\ Has(programs, rounds[m].version)
               /\ VerifyRound(programs[rounds[m].version], rounds[m])
               /\ Spent(rounds[m])
    <2>1. PICK p : HeldProgram(p) /\ SoundRound(p, rounds[m])
      BY DEF SoundInv, RoundInv
    <2>2. PICK r : r = rounds[m]
      OBVIOUS
    <2>3. VerifyRound(p, r) /\ Spent(r)
      BY <2>1, <2>2 DEF SoundRound
    <2>4. r.version = p.version
      BY <2>3 DEF VerifyRound
    <2>5. PICK q : q = programs[r.version]
      OBVIOUS
    <2>6. Has(programs, r.version) /\ q.version = r.version /\ Published(q)
      BY <2>1, <2>4, <2>5 DEF HeldProgram, Has, SoundInv, StoresInv, PoliciesInv
    <2>7. SamePolicy(p, q)
      BY <2>1, <2>4, <2>6, PublishedOnce DEF HeldProgram
    <2>8. VerifyRound(q, r)
      BY <2>3, <2>7, VerifiesTheSame
    <2> QED BY <2>2, <2>3, <2>5, <2>6, <2>8
  <1> QED BY <1>1 DEF RoundsReproducible, PoolsAreSpent, Spent

(***************************************************************************)
(* The published rounds add up, whatever came in while they were closed:   *)
(* with policies that are not rewritten, every closed round verifies       *)
(* against the stored program of its version and hands out its pool, and   *)
(* over all rounds the receipts' share is what was allocated and what is   *)
(* still to be carried, to the cent.                                       *)
(***************************************************************************)
THEOREM RoundsStayAddedUp ==
  ASSUME PoliciesAreFixed
  PROVE  Spec => []RoundsAddUp
  <1>1. Init => IInv /\ SoundInv
    BY InitIInv, InitSound
  <1>2. IInv /\ SoundInv /\ [Next]_vars => (IInv /\ SoundInv)'
    <2> SUFFICES ASSUME IInv, SoundInv, [Next]_vars PROVE (IInv /\ SoundInv)'
      OBVIOUS
    <2>1. SoundInv'
      BY SoundPreserved
    <2>2. IInv'
      BY TypeOKPreserved, CloserInvPreserved, StoredRoundsPreserved DEF IInv
    <2> QED BY <2>1, <2>2
  <1>3. IInv /\ SoundInv => RoundsAddUp
    BY RoundsVerify, BooksBalance DEF RoundsAddUp
  <1> QED BY <1>1, <1>2, <1>3, PTL DEF Spec

-----------------------------------------------------------------------------
(***************************************************************************)
(* The allocation engine on its own: whom the cents that are left go to.   *)
(***************************************************************************)
\* The figures of an allocation.
Figures(pool, credits, A, t, quota, rem, left) ==
  /\ t \in Nat /\ t > 0 /\ left \in Nat
  /\ quota \in [A -> Nat] /\ rem \in [A -> Int]
  /\ \A a \in A : rem[a] \in 0..(t - 1) /\ pool * credits[a] = t * quota[a] + rem[a]

Up(a, rem, left) == IF Rank(a, rem) < left THEN 1 ELSE 0

LEMMA AllocateFigures ==
  ASSUME NEW pool \in Nat, NEW credits, IsFiniteSet(DOMAIN credits),
         \A a \in DOMAIN credits : credits[a] \in Nat,
         NEW A, A = Entitled(credits), A # {}, NEW t, t = Total(credits, A)
  PROVE  \E quota, rem, left :
           /\ Figures(pool, credits, A, t, quota, rem, left)
           /\ Allocate(pool, credits) = Shares(A, credits, quota, rem, left)
  <1>1. PICK quota, rem : /\ quota = Quotas(pool, credits, A, t)
                          /\ rem = Remainders(pool, credits, A, t)
    OBVIOUS
  <1>2. PICK left : left = pool - Total(quota, A)
    OBVIOUS
  <1>3. IsFiniteSet(A)
    BY FS_Subset DEF Entitled
  <1>4. \A a \in A : credits[a] \in Nat /\ credits[a] > 0
    BY DEF Entitled
  <1>5. quota = Quotas(pool, credits, A, t)
    BY <1>1
  <1>6. rem = Remainders(pool, credits, A, t)
    BY <1>1
  <1>7. /\ t \in Nat /\ t > 0 /\ left \in 0..Cardinality(A) /\ t * left = Total(rem, A)
        /\ quota \in [A -> Nat] /\ rem \in [A -> Int] /\ Total(quota, A) \in Nat
        /\ \A a \in A : /\ rem[a] \in 0..(t - 1)
                        /\ pool * credits[a] = t * quota[a] + rem[a]
    BY ONLY pool \in Nat, A # {}, t = Total(credits, A), <1>2, <1>3, <1>4, <1>5, <1>6, QuotasAre
  <1>8. left \in Nat
    BY <1>3, <1>7, FS_CardinalityType
  <1>9. Figures(pool, credits, A, t, quota, rem, left)
    BY <1>7, <1>8 DEF Figures
  <1>10. Allocate(pool, credits) = Shares(A, credits, quota, rem, left)
    BY ONLY A = Entitled(credits), t = Total(credits, A), <1>2, <1>5, <1>6, AllocateIs
  <1> QED BY <1>9, <1>10

\* The amount of an account.
LEMMA AmountIs ==
  ASSUME NEW A, NEW credits, NEW quota, NEW rem, NEW left, NEW ents,
         ents = Shares(A, credits, quota, rem, left)
  PROVE  /\ DOMAIN ents = A
         /\ \A a \in A : ents[a].amount = quota[a] + Up(a, rem, left) /\ ents[a].credits = credits[a]
         /\ \A a \in A : Up(a, rem, left) \in {0, 1}
  BY DEF Shares, Up

\* Whoever gets one of the cents that are left comes before whoever does not.
LEMMA UpComesBefore ==
  ASSUME NEW A, IsFiniteSet(A), A \subseteq Int, NEW rem \in [A -> Int], NEW left \in Nat,
         NEW a \in A, NEW b \in A, Up(a, rem, left) = 1, Up(b, rem, left) = 0
  PROVE  rem[a] > rem[b] \/ (rem[a] = rem[b] /\ a < b)
  <1> SUFFICES ASSUME ~(rem[a] > rem[b] \/ (rem[a] = rem[b] /\ a < b)) PROVE FALSE
    OBVIOUS
  <1>1. Rank(a, rem) < left /\ ~(Rank(b, rem) < left)
    BY DEF Up
  <1>2. a # b
    BY <1>1
  <1>3. a \in Int /\ b \in Int /\ rem[a] \in Int /\ rem[b] \in Int
    OBVIOUS
  <1>4. rem[b] > rem[a] \/ (rem[b] = rem[a] /\ b < a)
    BY <1>2, <1>3
  <1>5. b \in Before(a, rem)
    BY <1>4 DEF Before
  <1>6. Rank(b, rem) < Rank(a, rem)
    BY <1>5, RanksDiffer
  <1>7. Rank(a, rem) \in Nat /\ Rank(b, rem) \in Nat
    <2>1. ASSUME NEW c \in A PROVE Rank(c, rem) \in Nat
      <3>1. PICK X : X = Before(c, rem)
        OBVIOUS
      <3>2. X \subseteq A
        BY <3>1 DEF Before
      <3>3. Cardinality(X) \in Nat
        BY <3>2, FS_Subset, FS_CardinalityType
      <3> QED BY <3>1, <3>3 DEF Rank, Before
    <2> QED BY <2>1
  <1> QED BY <1>1, <1>6, <1>7

\* Terms that are nowhere greater and have the same sum are the same.
LEMMA SameTotal ==
  ASSUME NEW S, IsFiniteSet(S), NEW f, NEW g,
         \A x \in S : f[x] \in Int /\ g[x] \in Int /\ f[x] <= g[x],
         Total(f, S) >= Total(g, S)
  PROVE  \A x \in S : f[x] = g[x]
  <1> SUFFICES ASSUME NEW x \in S PROVE f[x] = g[x]
    OBVIOUS
  <1>1. PICK R : R = S \ {x}
    OBVIOUS
  <1>2. IsFiniteSet(R)
    BY <1>1, FS_Subset
  <1>3. \A y \in R : f[y] \in Int /\ g[y] \in Int /\ f[y] <= g[y]
    BY <1>1
  <1>4. Total(f, R) <= Total(g, R)
    BY <1>2, <1>3, TotalIsAtMost
  <1>5. Total(f, R) \in Int /\ Total(g, R) \in Int
    BY <1>2, <1>3, TotalIsInt
  <1>6. Total(f, S) = f[x] + Total(f, R) /\ Total(g, S) = g[x] + Total(g, R)
    BY <1>1, TotalWithout
  <1>7. f[x] \in Int /\ g[x] \in Int /\ f[x] <= g[x]
    OBVIOUS
  <1> QED BY <1>4, <1>5, <1>6, <1>7

\* Where two sums are the same and one term is less, another is greater.
LEMMA LessAndMore ==
  ASSUME NEW S, IsFiniteSet(S), NEW f, NEW g, \A x \in S : f[x] \in Int /\ g[x] \in Int,
         Total(f, S) = Total(g, S), NEW a \in S, f[a] < g[a]
  PROVE  \E b \in S : f[b] > g[b]
  <1> SUFFICES ASSUME \A b \in S : ~(f[b] > g[b]) PROVE FALSE
    OBVIOUS
  <1>1. \A x \in S : f[x] \in Int /\ g[x] \in Int /\ f[x] <= g[x]
    OBVIOUS
  <1>2. Total(f, S) >= Total(g, S)
    <2>1. Total(f, S) \in Int
      BY TotalIsInt
    <2> QED BY <2>1
  <1>3. \A x \in S : f[x] = g[x]
    BY <1>1, <1>2, SameTotal
  <1> QED BY <1>3

\* A finite set of integers has a least element.
LEMMA LeastIs ==
  ASSUME NEW S, IsFiniteSet(S), S \subseteq Int, S # {}
  PROVE  \E a \in S : \A b \in S : a <= b
  <1>1. PICK G : G = {s \in SUBSET S : s = {} \/ \E a \in s : \A b \in s : a <= b}
    OBVIOUS
  <1>2. {} \in G
    BY <1>1
  <1>3. ASSUME NEW s \in SUBSET S, s # {}, \A x \in s : s \ {x} \in G PROVE s \in G
    <2>1. PICK x \in s : TRUE
      BY <1>3
    <2>2. CASE s \ {x} = {}
      <3>1. \A b \in s : x <= b
        BY <2>2
      <3> QED BY <1>1, <3>1
    <2>3. CASE s \ {x} # {}
      <3>1. PICK a \in s \ {x} : \A b \in s \ {x} : a <= b
        BY <1>1, <1>3, <2>3
      <3>2. a <= x => \A b \in s : a <= b
        BY <3>1
      <3>3. x < a => \A b \in s : x <= b
        BY <3>1
      <3> QED BY <1>1, <3>1, <3>2, <3>3
    <2> QED BY <2>2, <2>3
  <1>4. S \in G
    BY <1>2, <1>3, FiniteInduction
  <1> QED BY <1>1, <1>4

-----------------------------------------------------------------------------
\* One more credit here and none there: the fraction of the account grows and
\* those of the others shrink, as long as the whole cents stay the same.
LEMMA FractionsMove ==
  ASSUME NEW p \in Nat, NEW c \in Nat, NEW d \in Nat, c <= d, NEW t \in Nat, NEW u \in Nat,
         c <= t, u = t + (d - c), NEW q \in Nat, NEW r \in Int, NEW s \in Int,
         p * c = t * q + r, p * d = u * q + s
  PROVE  s * t >= r * u
  <1>1. r = p * c - t * q /\ s = p * d - u * q
    OBVIOUS
  <1>2. s * t - r * u = p * (d * t - c * u)
    <2>1. s * t = (p * d) * t - (u * q) * t
      BY <1>1
    <2>2. r * u = (p * c) * u - (t * q) * u
      BY <1>1
    <2>3. (u * q) * t = (t * q) * u
      OBVIOUS
    <2>4. (p * d) * t = p * (d * t) /\ (p * c) * u = p * (c * u)
      OBVIOUS
    <2>5. p * (d * t) - p * (c * u) = p * (d * t - c * u)
      OBVIOUS
    <2> QED BY <2>1, <2>2, <2>3, <2>4, <2>5
  <1>3. d * t - c * u = (d - c) * (t - c)
    OBVIOUS
  <1>4. (d - c) * (t - c) >= 0
    <2>1. PICK x \in Nat, y \in Nat : x = d - c /\ y = t - c
      OBVIOUS
    <2>2. x * y >= 0
      OBVIOUS
    <2> QED BY <2>1, <2>2
  <1>5. p * (d * t - c * u) >= 0
    <2>1. PICK z \in Nat : z = d * t - c * u
      BY <1>3, <1>4
    <2>2. p * z >= 0
      OBVIOUS
    <2> QED BY <2>1, <2>2
  <1> QED BY <1>2, <1>5

\* A greater total and the same credits: the fraction shrinks.
LEMMA OthersShrink ==
  ASSUME NEW p \in Nat, NEW c \in Nat, NEW t \in Nat, NEW u \in Nat, t <= u,
         NEW q \in Nat, NEW r \in Int, NEW s \in Int,
         p * c = t * q + r, p * c = u * q + s
  PROVE  s * t <= r * u
  <1>1. r = p * c - t * q /\ s = p * c - u * q
    OBVIOUS
  <1>2. r * u - s * t = (p * c) * (u - t)
    <2>1. s * t = (p * c) * t - (u * q) * t
      BY <1>1
    <2>2. r * u = (p * c) * u - (t * q) * u
      BY <1>1
    <2>3. (u * q) * t = (t * q) * u
      OBVIOUS
    <2>4. (p * c) * u - (p * c) * t = (p * c) * (u - t)
      OBVIOUS
    <2> QED BY <2>1, <2>2, <2>3, <2>4
  <1>3. (p * c) * (u - t) >= 0
    <2>1. PICK x \in Nat, y \in Nat : x = p * c /\ y = u - t
      OBVIOUS
    <2>2. x * y >= 0
      OBVIOUS
    <2> QED BY <2>1, <2>2
  <1> QED BY <1>2, <1>3

\* A greater total of credits leaves no more whole cents to the others.
LEMMA QuotaShrinks ==
  ASSUME NEW x \in Nat, NEW t \in Nat, NEW u \in Nat, t > 0, t <= u,
         NEW q \in Nat, NEW r \in 0..(t - 1), NEW k \in Nat, NEW s \in 0..(u - 1),
         x = t * q + r, x = u * k + s
  PROVE  k <= q
  <1> SUFFICES ASSUME k >= q + 1 PROVE FALSE
    OBVIOUS
  <1>1. u * k >= u * (q + 1)
    OBVIOUS
  <1>2. u * (q + 1) >= t * (q + 1)
    OBVIOUS
  <1>3. t * (q + 1) = t * q + t
    OBVIOUS
  <1> QED BY <1>1, <1>2, <1>3

\* More credits leave no fewer whole cents to the account itself.
LEMMA QuotaGrows ==
  ASSUME NEW p \in Nat, NEW c \in Nat, NEW d \in Nat, c <= d, NEW t \in Nat, NEW u \in Nat,
         c <= t, t > 0, u = t + (d - c), NEW q \in Nat, NEW r \in 0..(t - 1),
         NEW k \in Nat, NEW s \in 0..(u - 1), p * c = t * q + r, p * d = u * k + s
  PROVE  q <= k
  <1> SUFFICES ASSUME q >= k + 1 PROVE FALSE
    OBVIOUS
  <1>1. (p * d) * t >= (p * c) * u
    <2>1. (p * d) * t - (p * c) * u = p * ((d - c) * (t - c))
      <3>1. d * t - c * u = (d - c) * (t - c)
        OBVIOUS
      <3>2. (p * d) * t = p * (d * t) /\ (p * c) * u = p * (c * u)
        OBVIOUS
      <3>3. p * (d * t) - p * (c * u) = p * (d * t - c * u)
        OBVIOUS
      <3> QED BY <3>1, <3>2, <3>3
    <2>2. PICK x \in Nat, y \in Nat : x = d - c /\ y = t - c
      OBVIOUS
    <2>3. x * y \in Nat
      OBVIOUS
    <2>4. PICK z \in Nat : z = x * y
      BY <2>3
    <2>5. p * z >= 0
      OBVIOUS
    <2> QED BY <2>1, <2>2, <2>4, <2>5
  <1>2. (p * d) * t < (u * (k + 1)) * t
    <2>1. p * d < u * (k + 1)
      <3>1. u * (k + 1) = u * k + u
        OBVIOUS
      <3> QED BY <3>1
    <2>2. PICK x, y : x = p * d /\ y = u * (k + 1)
      OBVIOUS
    <2>3. x \in Int /\ y \in Int /\ x < y
      BY <2>1, <2>2
    <2>4. x * t < y * t
      BY <2>3
    <2> QED BY <2>2, <2>4
  <1>3. (p * c) * u >= (t * q) * u
    <2>1. PICK x, y : x = p * c /\ y = t * q
      OBVIOUS
    <2>2. x \in Int /\ y \in Int /\ x >= y
      BY <2>1
    <2>3. x * u >= y * u
      BY <2>2
    <2> QED BY <2>1, <2>3
  <1>4. (t * q) * u >= (u * (k + 1)) * t
    <2>1. (t * q) * u = (t * u) * q /\ (u * (k + 1)) * t = (t * u) * (k + 1)
      OBVIOUS
    <2>2. PICK x \in Nat : x = t * u
      OBVIOUS
    <2>3. x * q >= x * (k + 1)
      OBVIOUS
    <2> QED BY <2>1, <2>2, <2>3
  <1>5. PICK w1, w2, w3, w4 : w1 = (p * d) * t /\ w2 = (p * c) * u /\ w3 = (t * q) * u
                               /\ w4 = (u * (k + 1)) * t
    OBVIOUS
  <1>6. w1 \in Int /\ w2 \in Int /\ w3 \in Int /\ w4 \in Int
    BY <1>5
  <1> QED BY ONLY <1>1, <1>2, <1>3, <1>4, <1>5, <1>6

(***************************************************************************)
(* More credits never pay less, for every pool and all credits.  Were an   *)
(* account paid less, another one would be paid more for no more credits:  *)
(* a cent that was left has moved from the one to the other.  But the      *)
(* fraction of the first has not become smaller, nor that of the second    *)
(* greater.                                                                *)
(***************************************************************************)
THEOREM MoreCreditsNeverHurt ==
  ASSUME NEW pool \in Nat, NEW credits, IsFiniteSet(DOMAIN credits),
         DOMAIN credits \subseteq Int, \A x \in DOMAIN credits : credits[x] \in Nat,
         NEW a \in DOMAIN credits, NEW c \in Nat, c > credits[a],
         NEW more, more = [credits EXCEPT ![a] = c],
         NEW old, old = Allocate(pool, credits), NEW new, new = Allocate(pool, more)
  PROVE  /\ a \in DOMAIN new /\ new[a].amount \in Nat
         /\ a \in DOMAIN old => new[a].amount >= old[a].amount
  <1>1. /\ DOMAIN more = DOMAIN credits /\ more[a] = c
        /\ \A x \in DOMAIN credits \ {a} : more[x] = credits[x]
    OBVIOUS
  <1>2. \A x \in DOMAIN more : more[x] \in Nat
    BY <1>1
  <1>3. IsFiniteSet(DOMAIN more) /\ DOMAIN more \subseteq Int
    BY <1>1
  <1>4. ExactAllocation(pool, more, new) /\ ExactAllocation(pool, credits, old)
    <2>1. ExactAllocation(pool, credits, old)
      BY ONLY pool \in Nat, IsFiniteSet(DOMAIN credits), DOMAIN credits \subseteq Int,
              \A x \in DOMAIN credits : credits[x] \in Nat, old = Allocate(pool, credits),
              AllocationIsExact
    <2>2. ExactAllocation(pool, more, new)
      BY ONLY pool \in Nat, <1>2, <1>3, new = Allocate(pool, more), AllocationIsExact
    <2> QED BY <2>1, <2>2
  <1>5. a \in DOMAIN new /\ new[a].amount \in Nat
    <2>1. credits[a] \in Nat
      OBVIOUS
    <2>2. c # 0
      BY ONLY c \in Nat, c > credits[a], <2>1
    <2>3. a \in Entitled(more)
      BY ONLY a \in DOMAIN credits, <1>1, <2>2 DEF Entitled
    <2> QED BY ONLY <1>4, <2>3 DEF ExactAllocation
  <1>6. ASSUME a \in DOMAIN old PROVE new[a].amount >= old[a].amount
    <2>1. PICK A : A = Entitled(credits)
      OBVIOUS
    <2>2. A = Entitled(more) /\ a \in A /\ A # {} /\ A \subseteq DOMAIN credits
          /\ IsFiniteSet(A) /\ A \subseteq Int
      <3>1. a \in A
        BY <1>4, <1>6, <2>1 DEF ExactAllocation
      <3>2. A \subseteq DOMAIN credits /\ credits[a] # 0
        BY <2>1, <3>1 DEF Entitled
      <3>3. A = Entitled(more)
        BY <1>1, <2>1, <3>2 DEF Entitled
      <3> QED BY <3>1, <3>2, <3>3, FS_Subset
    <2>3. PICK t, u : t = Total(credits, A) /\ u = Total(more, A)
      OBVIOUS
    <2>4. PICK q, r, l : /\ Figures(pool, credits, A, t, q, r, l)
                         /\ old = Shares(A, credits, q, r, l)
      <3>1. t = Total(credits, A)
        BY <2>3
      <3>2. \E q, r, l : /\ Figures(pool, credits, A, t, q, r, l)
                         /\ Allocate(pool, credits) = Shares(A, credits, q, r, l)
        <4>1. A = Entitled(credits) /\ A # {}
          BY <2>1, <2>2
        <4> QED BY ONLY pool \in Nat, IsFiniteSet(DOMAIN credits),
                        \A x \in DOMAIN credits : credits[x] \in Nat, <3>1, <4>1,
                        AllocateFigures
      <3> QED BY <3>2
    <2>5. PICK k, s, m : /\ Figures(pool, more, A, u, k, s, m)
                         /\ new = Shares(A, more, k, s, m)
      <3>1. u = Total(more, A)
        BY <2>3
      <3>2. \E y, z, n : /\ Figures(pool, more, A, u, y, z, n)
                         /\ Allocate(pool, more) = Shares(A, more, y, z, n)
        <4>1. A = Entitled(more) /\ A # {}
          BY <2>2
        <4> QED BY ONLY pool \in Nat, <1>2, <1>3, <3>1, <4>1, AllocateFigures
      <3> QED BY <3>2
    <2>6. /\ \A x \in A : old[x].amount = q[x] + Up(x, r, l)
          /\ \A x \in A : Up(x, r, l) \in {0, 1}
      <3>1. old = Shares(A, credits, q, r, l)
        BY <2>4
      <3> QED BY ONLY <3>1, AmountIs
    <2>7. /\ \A x \in A : new[x].amount = k[x] + Up(x, s, m)
          /\ \A x \in A : Up(x, s, m) \in {0, 1}
      <3>1. new = Shares(A, more, k, s, m)
        BY <2>5
      <3> QED BY ONLY <3>1, AmountIs
    <2>8. /\ t \in Nat /\ t > 0 /\ l \in Nat /\ q \in [A -> Nat] /\ r \in [A -> Int]
          /\ \A x \in A : r[x] \in 0..(t - 1) /\ pool * credits[x] = t * q[x] + r[x]
      BY <2>4 DEF Figures
    <2>9. /\ u \in Nat /\ u > 0 /\ m \in Nat /\ k \in [A -> Nat] /\ s \in [A -> Int]
          /\ \A x \in A : s[x] \in 0..(u - 1) /\ pool * more[x] = u * k[x] + s[x]
      BY <2>5 DEF Figures
    <2>10. u = t + (c - credits[a]) /\ credits[a] <= t
      <3>1. PICK R : R = A \ {a}
        OBVIOUS
      <3>2. IsFiniteSet(R)
        BY <2>2, <3>1, FS_Subset
      <3>3. \A x \in A : credits[x] \in Int /\ more[x] \in Int
        BY ONLY \A x \in DOMAIN credits : credits[x] \in Nat, <1>1, <1>2, <2>2
      <3>4. Total(credits, A) = credits[a] + Total(credits, A \ {a})
        <4>1. \A x \in A : credits[x] \in Int
          BY <3>3
        <4> QED BY ONLY <2>2, <4>1, TotalWithout
      <3>5. Total(more, A) = more[a] + Total(more, A \ {a})
        <4>1. \A x \in A : more[x] \in Int
          BY <3>3
        <4> QED BY ONLY <2>2, <4>1, TotalWithout
      <3>6. \A x \in R : credits[x] = more[x] /\ credits[x] \in Nat
        BY <1>1, <2>2, <3>1
      <3>7. Total(credits, R) = Total(more, R)
        BY <3>2, <3>6, TotalSame
      <3>8. Total(credits, R) \in Nat
        BY <3>2, <3>6, TotalIsPositive
      <3> QED BY <1>1, <2>3, <3>1, <3>4, <3>5, <3>7, <3>8
    <2>30. \A x \in A : old[x].amount \in Nat /\ new[x].amount \in Nat
      BY ONLY <1>4, <2>1, <2>2 DEF ExactAllocation
    <2>31. PICK n \in Nat, o \in Nat : n = new[a].amount /\ o = old[a].amount
      BY ONLY <2>2, <2>30
    <2>32. n >= o => new[a].amount >= old[a].amount
      BY ONLY <2>31
    <2>33. n < o \/ n >= o
      BY ONLY n \in Nat, o \in Nat
    <2> SUFFICES ASSUME n < o PROVE FALSE
      BY <2>32, <2>33
    <2>34. new[a].amount < old[a].amount
      BY ONLY n < o, <2>31
    <2>11. PICK f, g : f = [x \in A |-> new[x].amount] /\ g = [x \in A |-> old[x].amount]
      OBVIOUS
    <2>12. PICK b \in A : f[b] > g[b]
      <3>1. \A x \in A : f[x] \in Int /\ g[x] \in Int
        BY ONLY <2>11, <2>30
      <3>2. DOMAIN new = A /\ DOMAIN old = A
        BY <1>4, <2>1, <2>2 DEF ExactAllocation
      <3>3. AllocatedCents(new) = pool /\ AllocatedCents(old) = pool
        BY <1>4, <2>2, <3>2 DEF ExactAllocation
      <3>4. Total(f, A) = pool /\ Total(g, A) = pool
        BY <2>11, <3>2, <3>3 DEF AllocatedCents
      <3>5. Total(f, A) = Total(g, A)
        BY <3>4
      <3>6. f[a] < g[a]
        BY <2>2, <2>11, <2>34
      <3> QED BY <2>2, <3>1, <3>5, <3>6, LessAndMore
    <2>13. new[b].amount > old[b].amount /\ b # a
      BY ONLY b \in A, <2>2, <2>30, <2>11, <2>12, <2>34
    <2>14. t <= u
      BY <2>8, <2>9, <2>10
    \* The other account's credits are the same; its whole cents are no more.
    <2>15. /\ more[b] = credits[b] /\ credits[b] \in Nat /\ credits[a] \in Nat
           /\ q[a] \in Nat /\ k[a] \in Nat /\ q[b] \in Nat /\ k[b] \in Nat
           /\ r[a] \in 0..(t - 1) /\ s[a] \in 0..(u - 1) /\ r[b] \in 0..(t - 1) /\ s[b] \in 0..(u - 1)
      BY <1>1, <2>2, <2>8, <2>9, <2>13
    <2>16. /\ pool * credits[a] = t * q[a] + r[a] /\ pool * c = u * k[a] + s[a]
           /\ pool * credits[b] = t * q[b] + r[b] /\ pool * credits[b] = u * k[b] + s[b]
      BY <1>1, <2>2, <2>8, <2>9, <2>15
    <2>17. k[b] <= q[b]
      <3>1. PICK x \in Nat : x = pool * credits[b]
        BY <2>15
      <3>2. x = t * q[b] + r[b] /\ x = u * k[b] + s[b]
        BY <2>16, <3>1
      <3>3. t \in Nat /\ u \in Nat /\ t > 0
        BY <2>8, <2>9
      <3>4. q[b] \in Nat /\ r[b] \in 0..(t - 1) /\ k[b] \in Nat /\ s[b] \in 0..(u - 1)
        BY <2>15
      <3> QED BY ONLY x \in Nat, <2>14, <3>2, <3>3, <3>4, QuotaShrinks
    <2>18. q[a] <= k[a]
      <3>1. t \in Nat /\ u \in Nat /\ t > 0 /\ credits[a] <= c /\ credits[a] \in Nat
        BY <2>8, <2>9, <2>15
      <3>2. q[a] \in Nat /\ r[a] \in 0..(t - 1) /\ k[a] \in Nat /\ s[a] \in 0..(u - 1)
        BY <2>15
      <3>3. pool * credits[a] = t * q[a] + r[a] /\ pool * c = u * k[a] + s[a]
        BY <2>16
      <3>4. u = t + (c - credits[a]) /\ credits[a] <= t
        BY <2>10
      <3>5. PICK ca \in Nat, qa \in Nat, ra \in 0..(t - 1), ka \in Nat, sa \in 0..(u - 1) :
              ca = credits[a] /\ qa = q[a] /\ ra = r[a] /\ ka = k[a] /\ sa = s[a]
        BY <3>1, <3>2
      <3>6. pool * ca = t * qa + ra /\ pool * c = u * ka + sa
        BY <3>3, <3>5
      <3>7. ca <= c /\ ca <= t /\ u = t + (c - ca) /\ t \in Nat /\ u \in Nat /\ t > 0
        BY <3>1, <3>4, <3>5
      <3>8. qa <= ka
        BY ONLY pool \in Nat, c \in Nat, ca \in Nat, qa \in Nat, ra \in 0..(t - 1),
                ka \in Nat, sa \in 0..(u - 1), <3>6, <3>7, QuotaGrows
      <3> QED BY <3>5, <3>8
    <2>19. /\ k[a] = q[a] /\ Up(a, r, l) = 1 /\ Up(a, s, m) = 0
           /\ k[b] = q[b] /\ Up(b, r, l) = 0 /\ Up(b, s, m) = 1
      <3>1. /\ old[a].amount = q[a] + Up(a, r, l) /\ new[a].amount = k[a] + Up(a, s, m)
            /\ old[b].amount = q[b] + Up(b, r, l) /\ new[b].amount = k[b] + Up(b, s, m)
            /\ Up(a, r, l) \in {0, 1} /\ Up(a, s, m) \in {0, 1}
            /\ Up(b, r, l) \in {0, 1} /\ Up(b, s, m) \in {0, 1}
        BY <2>2, <2>6, <2>7
      <3> QED BY ONLY <2>13, <2>15, <2>17, <2>18, <2>34, <3>1
    <2>20. r[a] > r[b] \/ (r[a] = r[b] /\ a < b)
      BY ONLY b \in A, <2>2, <2>8, <2>19, UpComesBefore
    <2>21. s[b] > s[a] \/ (s[b] = s[a] /\ b < a)
      BY ONLY b \in A, <2>2, <2>9, <2>19, UpComesBefore
    <2>22. s[a] * t >= r[a] * u
      <3>1. t \in Nat /\ u \in Nat /\ credits[a] <= c /\ credits[a] \in Nat
        BY <2>8, <2>9, <2>15
      <3>2. q[a] \in Nat /\ r[a] \in Int /\ s[a] \in Int
        BY <2>15
      <3>3. pool * credits[a] = t * q[a] + r[a] /\ pool * c = u * q[a] + s[a]
        BY <2>16, <2>19
      <3> QED BY ONLY pool \in Nat, c \in Nat, <2>10, <3>1, <3>2, <3>3, FractionsMove
    <2>23. s[b] * t <= r[b] * u
      <3>1. t \in Nat /\ u \in Nat /\ credits[b] \in Nat
        BY <2>8, <2>9, <2>15
      <3>2. q[b] \in Nat /\ r[b] \in Int /\ s[b] \in Int
        BY <2>15
      <3>3. pool * credits[b] = t * q[b] + r[b] /\ pool * credits[b] = u * q[b] + s[b]
        BY <2>16, <2>19
      <3> QED BY ONLY pool \in Nat, <2>14, <3>1, <3>2, <3>3, OthersShrink
    <2>24. PICK ra, rb, sa, sb : ra = r[a] /\ rb = r[b] /\ sa = s[a] /\ sb = s[b]
      OBVIOUS
    <2>25. ra \in Int /\ rb \in Int /\ sa \in Int /\ sb \in Int /\ t \in Nat /\ t > 0
           /\ u \in Nat /\ u > 0 /\ a \in Int /\ b \in Int
      BY <2>2, <2>8, <2>9, <2>15, <2>24
    <2>26. ra >= rb /\ sb >= sa
      BY <2>20, <2>21, <2>24, <2>25
    <2>27. ra * u >= rb * u /\ sb * t >= sa * t
      BY ONLY <2>25, <2>26
    <2>28. ra * u = rb * u /\ sb * t = sa * t
      <3>1. PICK w, x, y, z : w = ra * u /\ x = rb * u /\ y = sb * t /\ z = sa * t
        OBVIOUS
      <3>2. w \in Int /\ x \in Int /\ y \in Int /\ z \in Int
        BY ONLY <2>25, <3>1
      <3>3. w >= x /\ y >= z /\ z >= w /\ y <= x
        BY ONLY <2>22, <2>23, <2>24, <2>27, <3>1
      <3>4. w = x /\ y = z
        BY ONLY <3>2, <3>3
      <3> QED BY <3>1, <3>4
    <2>29. ra = rb /\ sb = sa
      <3>1. ra > rb => ra * u > rb * u
        BY ONLY <2>25
      <3>2. sb > sa => sb * t > sa * t
        BY ONLY <2>25
      <3>3. ra * u \in Int /\ rb * u \in Int /\ sb * t \in Int /\ sa * t \in Int
        BY ONLY <2>25
      <3> QED BY ONLY <2>25, <2>26, <2>28, <3>1, <3>2, <3>3
    <2> QED BY <2>20, <2>21, <2>24, <2>25, <2>29
  <1> QED BY <1>5, <1>6

-----------------------------------------------------------------------------
\* What moving k cents costs: r is the account's remainder, v whether it got
\* one of the cents that are left, p the remainder that parts the accounts
\* that did from those that did not.
LEMMA Exchange ==
  ASSUME NEW t \in Nat, NEW r \in 0..(t - 1), NEW p \in 0..(t - 1), NEW v \in {0, 1},
         v = 1 => r >= p, v = 0 => r <= p, NEW k \in Int,
         NEW z, z = k * (t * (2 * v + k - 1) + 2 * (p - r))
  PROVE  /\ z \in Nat
         /\ z = 0 => \/ k = 0
                     \/ v = 1 /\ r = p /\ k < 0
                     \/ v = 0 /\ r = p /\ k > 0
  <1>1. PICK w : w = t * (2 * v + k - 1)
    OBVIOUS
  <1>2. PICK y : y = w + 2 * (p - r)
    OBVIOUS
  <1>3. z = k * y
    BY <1>1, <1>2
  <1>4. w \in Int /\ y \in Int /\ t > 0
    BY <1>1, <1>2
  <1>5. CASE v = 1
    <2>1. w = t * (k + 1)
      BY <1>1, <1>5
    <2>2. CASE k = 0
      BY <1>3, <1>4, <2>2
    <2>3. CASE k >= 1
      <3>1. t * (k + 1) >= t * 2
        BY <2>3
      <3>2. y > 0
        BY <1>2, <1>4, <2>1, <3>1
      <3>3. k * y > 0 /\ k * y \in Int
        BY <1>4, <2>3, <3>2
      <3> QED BY <1>3, <3>3
    <2>4. CASE k <= -1
      <3>1. t * (k + 1) <= 0
        BY <2>4
      <3>2. y <= 0
        BY <1>2, <1>4, <1>5, <2>1, <3>1
      <3>3. PICK n \in Nat, j \in Nat : y = -n /\ k = -j /\ j > 0
        <4>1. -y \in Nat /\ -k \in Nat
          BY <1>4, <2>4, <3>2
        <4>2. y = -(-y) /\ k = -(-k) /\ -k > 0
          BY <1>4, <2>4
        <4> QED BY <4>1, <4>2
      <3>4. k * y = j * n
        BY <3>3
      <3>5. z \in Nat
        BY <1>3, <3>4
      <3>6. z = 0 => n = 0
        <4>1. n > 0 => j * n > 0
          BY <3>3
        <4> QED BY <1>3, <3>4, <4>1
      <3>7. n = 0 => r = p
        BY <1>2, <1>4, <1>5, <2>1, <3>1, <3>3
      <3> QED BY <1>5, <2>4, <3>5, <3>6, <3>7
    <2> QED BY <2>2, <2>3, <2>4
  <1>6. CASE v = 0
    <2>1. w = t * (k - 1)
      BY <1>1, <1>6
    <2>2. CASE k = 0
      BY <1>3, <1>4, <2>2
    <2>3. CASE k >= 1
      <3>1. t * (k - 1) >= 0
        <4>1. PICK j \in Nat : j = k - 1
          BY <2>3
        <4>2. t * j >= 0
          OBVIOUS
        <4> QED BY <4>1, <4>2
      <3>2. y \in Nat
        BY <1>2, <1>4, <1>6, <2>1, <3>1
      <3>3. k \in Nat /\ k > 0
        BY <2>3
      <3>4. k * y \in Nat
        BY <3>2, <3>3
      <3>5. y > 0 => k * y > 0
        BY <3>2, <3>3
      <3>6. y = 0 => r = p
        BY <1>2, <1>4, <1>6, <2>1, <3>1
      <3> QED BY <1>3, <1>6, <3>2, <3>3, <3>4, <3>5, <3>6
    <2>4. CASE k <= -1
      <3>1. t * (k - 1) <= -(t * 2)
        <4>1. PICK j \in Nat : j = (-1) - k
          BY <2>4
        <4>2. t * (k - 1) = -(t * 2) - t * j
          BY <4>1
        <4>3. t * j >= 0 /\ t * j \in Int
          OBVIOUS
        <4> QED BY <4>2, <4>3
      <3>2. y < 0
        BY <1>2, <1>4, <2>1, <3>1
      <3>3. PICK n \in Nat, j \in Nat : y = -n /\ k = -j /\ j > 0 /\ n > 0
        <4>1. -y \in Nat /\ -k \in Nat
          BY <1>4, <2>4, <3>2
        <4>2. y = -(-y) /\ k = -(-k) /\ -k > 0 /\ -y > 0
          BY <1>4, <2>4, <3>2
        <4> QED BY <4>1, <4>2
      <3>4. k * y = j * n
        BY <3>3
      <3>5. j * n > 0 /\ j * n \in Int
        BY <3>3
      <3> QED BY <1>3, <3>4, <3>5
    <2> QED BY <2>2, <2>3, <2>4
  <1> QED BY <1>5, <1>6

\* The remainder that parts the accounts rounded up from the others.
LEMMA Pivot ==
  ASSUME NEW A, IsFiniteSet(A), A \subseteq Int, NEW t \in Nat, t > 0,
         NEW rem \in [A -> Int], \A a \in A : rem[a] \in 0..(t - 1), NEW left \in Nat
  PROVE  \E p \in 0..(t - 1) :
           \A a \in A : /\ Up(a, rem, left) = 1 => rem[a] >= p
                        /\ Up(a, rem, left) = 0 => rem[a] <= p
  <1>1. PICK D : D = {a \in A : Up(a, rem, left) = 0}
    OBVIOUS
  <1>2. CASE D = {}
    <2>1. 0 \in 0..(t - 1)
      OBVIOUS
    <2>2. \A a \in A : rem[a] >= 0 /\ ~(Up(a, rem, left) = 0)
      BY <1>1, <1>2
    <2> QED BY <2>1, <2>2
  <1>3. CASE D # {}
    <2>1. PICK T : T = {t - 1 - rem[a] : a \in D}
      OBVIOUS
    <2>2. T \in SUBSET Nat /\ T # {}
      <3>1. ASSUME NEW a \in D PROVE t - 1 - rem[a] \in Nat
        <4>1. rem[a] \in 0..(t - 1)
          BY <1>1
        <4> QED BY <4>1
      <3> QED BY <1>3, <2>1, <3>1
    <2>3. PICK n \in T : \A m \in T : n <= m
      BY <2>2, NatMin
    <2>4. PICK d \in D : n = t - 1 - rem[d]
      BY <2>1
    <2>5. d \in A /\ Up(d, rem, left) = 0 /\ rem[d] \in 0..(t - 1)
      BY <1>1, <2>4
    <2>6. ASSUME NEW a \in A, Up(a, rem, left) = 0 PROVE rem[a] <= rem[d]
      <3>1. t - 1 - rem[a] \in T
        BY <1>1, <2>1, <2>6
      <3>2. t - 1 - rem[d] <= t - 1 - rem[a]
        BY <2>3, <2>4, <3>1
      <3>3. rem[a] \in Int /\ rem[d] \in Int
        BY <2>5
      <3> QED BY <3>2, <3>3
    <2>7. ASSUME NEW a \in A, Up(a, rem, left) = 1 PROVE rem[a] >= rem[d]
      <3>1. rem[a] > rem[d] \/ (rem[a] = rem[d] /\ a < d)
        BY <2>5, <2>7, UpComesBefore
      <3>2. rem[a] \in Int /\ rem[d] \in Int
        BY <2>5
      <3> QED BY <3>1, <3>2
    <2> QED BY <2>5, <2>6, <2>7
  <1> QED BY <1>2, <1>3

\* The square grows by what the exchange costs and a share of the cents moved.
Grows(t, r, p, v, x, g, f) ==
  Square(f * t - x)
    = Square(g * t - x) + t * ((f - g) * (t * (2 * v + (f - g) - 1) + 2 * (p - r)))
      + (t * (t - 2 * p)) * (f - g)

LEMMA SquareGrows ==
  ASSUME NEW t \in Int, NEW q \in Int, NEW r \in Int, NEW p \in Int, NEW v \in Int,
         NEW x \in Int, x = t * q + r, NEW g \in Int, g = q + v, NEW f \in Int
  PROVE  Grows(t, r, p, v, x, g, f)
  <1>1. PICK k \in Int : k = f - g
    OBVIOUS
  <1>2. PICK e \in Int : e = v * t - r
    OBVIOUS
  <1>3. g * t - x = e
    <2>1. g * t = q * t + v * t
      OBVIOUS
    <2> QED BY <1>2, <2>1
  <1>4. f * t - x = e + k * t
    <2>1. f * t = g * t + k * t
      BY <1>1
    <2> QED BY <1>3, <2>1
  <1>5. (e + k * t) * (e + k * t) = e * e + t * (k * (2 * e + k * t))
    OBVIOUS
  <1>6. t * (2 * v + k - 1) + 2 * (p - r) = (2 * e + k * t) - (t - 2 * p)
    BY <1>2
  <1>7. k * ((2 * e + k * t) - (t - 2 * p)) = k * (2 * e + k * t) - k * (t - 2 * p)
    OBVIOUS
  <1>8. PICK a \in Int, b \in Int : a = k * (2 * e + k * t) /\ b = k * (t - 2 * p)
    OBVIOUS
  <1>9. t * (a - b) = t * a - t * b
    OBVIOUS
  <1>10. t * b = (t * (t - 2 * p)) * k
    BY <1>8
  <1>11. k * (t * (2 * v + k - 1) + 2 * (p - r)) = a - b
    BY <1>6, <1>7, <1>8
  <1>12. (e + k * t) * (e + k * t) = e * e + t * a
    BY <1>5, <1>8
  <1> QED BY <1>1, <1>3, <1>4, <1>9, <1>10, <1>11, <1>12 DEF Square, Grows

\* What the cents that f moves cost the account a.
Cost(f, g, t, r, v, p, a) ==
  (f[a] - g[a]) * (t * (2 * v[a] + (f[a] - g[a]) - 1) + 2 * (p - r[a]))

\* Two ways g and f to hand out x / t, with their squares and the costs.
Handout(A, t, p, x, q, r, v, g, f, dg, df, ex) ==
  \A a \in A : /\ x[a] \in Int /\ q[a] \in Int /\ r[a] \in Int /\ v[a] \in Int
               /\ g[a] \in Int /\ f[a] \in Int
               /\ x[a] = t * q[a] + r[a] /\ g[a] = q[a] + v[a]
               /\ dg[a] = Square(g[a] * t - x[a])
               /\ df[a] = Square(f[a] * t - x[a])
               /\ ex[a] = Cost(f, g, t, r, v, p, a)

\* Another way to hand out the same pool is farther off by its costs.
LEMMA CostsAdd ==
  ASSUME NEW A, IsFiniteSet(A), NEW t \in Int, NEW p \in Int, NEW x, NEW q, NEW r,
         NEW v, NEW g, NEW f, NEW dg, NEW df, NEW ex,
         Handout(A, t, p, x, q, r, v, g, f, dg, df, ex), Total(f, A) = Total(g, A)
  PROVE  /\ Total(dg, A) \in Int /\ Total(ex, A) \in Int
         /\ Total(df, A) = Total(dg, A) + t * Total(ex, A)
  <1>1. PICK mv : mv = [a \in A |-> f[a] - g[a]]
    OBVIOUS
  <1>2. PICK c \in Int : c = t * (t - 2 * p)
    OBVIOUS
  <1>3. PICK tex, cmv : /\ tex = [a \in A |-> t * ex[a]]
                        /\ cmv = [a \in A |-> c * mv[a]]
    OBVIOUS
  <1>4. PICK part : part = [a \in A |-> dg[a] + tex[a]]
    OBVIOUS
  <1>5. ASSUME NEW a \in A
        PROVE  /\ mv[a] \in Int /\ f[a] = g[a] + mv[a] /\ dg[a] \in Int /\ ex[a] \in Int
               /\ tex[a] \in Int /\ tex[a] = t * ex[a] /\ cmv[a] \in Int /\ cmv[a] = c * mv[a]
               /\ part[a] \in Int /\ part[a] = dg[a] + tex[a] /\ df[a] = part[a] + cmv[a]
    <2>1. PICK fa, ga, xa, qa, ra, va : /\ fa = f[a] /\ ga = g[a] /\ xa = x[a]
                                        /\ qa = q[a] /\ ra = r[a] /\ va = v[a]
      OBVIOUS
    <2>2. /\ fa \in Int /\ ga \in Int /\ xa \in Int /\ qa \in Int /\ ra \in Int /\ va \in Int
          /\ xa = t * qa + ra /\ ga = qa + va
      BY <2>1 DEF Handout
    <2>3. PICK ea : ea = (fa - ga) * (t * (2 * va + (fa - ga) - 1) + 2 * (p - ra))
      OBVIOUS
    <2>4. ea \in Int
      BY ONLY t \in Int, p \in Int, <2>2, <2>3
    <2>5. ex[a] = ea
      BY <2>1, <2>3 DEF Cost, Handout
    <2>6. Square(fa * t - xa) = Square(ga * t - xa) + t * ea + c * (fa - ga)
      <3>1. Grows(t, ra, p, va, xa, ga, fa)
        BY ONLY t \in Int, p \in Int, <2>2, SquareGrows
      <3>2. Square(fa * t - xa) = Square(ga * t - xa) + t * ea + (t * (t - 2 * p)) * (fa - ga)
        BY ONLY <2>3, <3>1 DEF Grows
      <3> QED BY ONLY <1>2, <3>2
    <2>7. PICK sg : sg = Square(ga * t - xa)
      OBVIOUS
    <2>8. sg \in Int
      <3>1. PICK y \in Int : y = ga * t - xa
        BY <2>2
      <3>2. y * y \in Int
        OBVIOUS
      <3> QED BY <2>7, <3>1, <3>2 DEF Square
    <2>9. dg[a] = sg /\ df[a] = Square(fa * t - xa)
      BY <2>1, <2>7 DEF Handout
    <2>10. mv[a] = fa - ga /\ tex[a] = t * ea /\ cmv[a] = c * (fa - ga) /\ part[a] = sg + t * ea
      BY <1>1, <1>3, <1>4, <2>1, <2>5, <2>9
    <2>11. t * ea \in Int /\ c * (fa - ga) \in Int
      BY ONLY t \in Int, c \in Int, <2>2, <2>4
    <2>12. df[a] = sg + t * ea + c * (fa - ga)
      BY ONLY <2>6, <2>7, <2>9
    <2>13. PICK w1 \in Int, w2 \in Int : w1 = t * ea /\ w2 = c * (fa - ga)
      BY <2>11
    <2>14. mv[a] \in Int /\ f[a] = g[a] + mv[a] /\ dg[a] \in Int /\ ex[a] \in Int
      BY ONLY <2>1, <2>2, <2>4, <2>5, <2>8, <2>9, <2>10
    <2>15. tex[a] \in Int /\ tex[a] = t * ex[a] /\ cmv[a] \in Int /\ cmv[a] = c * mv[a]
      BY ONLY <2>5, <2>10, <2>11
    <2>16. part[a] \in Int /\ part[a] = dg[a] + tex[a] /\ df[a] = part[a] + cmv[a]
      BY ONLY <2>8, <2>9, <2>10, <2>12, <2>13
    <2> QED BY <2>14, <2>15, <2>16
  <1>6. Total(mv, A) = 0
    <2>1. \A a \in A : g[a] \in Int /\ mv[a] \in Int /\ f[a] = g[a] + mv[a]
      BY <1>5 DEF Handout
    <2>2. Total(f, A) = Total(g, A) + Total(mv, A)
      BY ONLY IsFiniteSet(A), <2>1, TotalOfSums
    <2>3. Total(g, A) \in Int /\ Total(mv, A) \in Int
      BY <2>1, TotalIsInt
    <2> QED BY <2>2, <2>3
  <1>7. Total(cmv, A) = 0
    <2>1. \A a \in A : mv[a] \in Int /\ cmv[a] = c * mv[a]
      BY <1>5
    <2>2. Total(cmv, A) = c * Total(mv, A)
      BY ONLY IsFiniteSet(A), c \in Int, <2>1, TotalOfMultiples
    <2> QED BY <1>6, <2>2
  <1>8. Total(tex, A) = t * Total(ex, A)
    <2>1. \A a \in A : ex[a] \in Int /\ tex[a] = t * ex[a]
      BY <1>5
    <2> QED BY ONLY IsFiniteSet(A), t \in Int, <2>1, TotalOfMultiples
  <1>9. Total(part, A) = Total(dg, A) + Total(tex, A)
    <2>1. \A a \in A : dg[a] \in Int /\ tex[a] \in Int /\ part[a] = dg[a] + tex[a]
      BY <1>5
    <2> QED BY ONLY IsFiniteSet(A), <2>1, TotalOfSums
  <1>10. Total(df, A) = Total(part, A) + Total(cmv, A)
    <2>1. \A a \in A : part[a] \in Int /\ cmv[a] \in Int /\ df[a] = part[a] + cmv[a]
      BY <1>5
    <2> QED BY ONLY IsFiniteSet(A), <2>1, TotalOfSums
  <1>11. Total(dg, A) \in Int /\ Total(ex, A) \in Int /\ Total(part, A) \in Int
    <2>1. \A a \in A : dg[a] \in Int
      BY <1>5
    <2>2. \A a \in A : ex[a] \in Int
      BY <1>5
    <2>3. \A a \in A : part[a] \in Int
      BY <1>5
    <2> QED BY ONLY IsFiniteSet(A), <2>1, <2>2, <2>3, TotalIsInt
  <1> QED BY <1>7, <1>8, <1>9, <1>10, <1>11

(***************************************************************************)
(* Of all the ways to hand out the pool in whole cents Allocate picks the  *)
(* one nearest to the exact shares, and of equally near ones the first,    *)
(* for every pool and all credits.                                         *)
(***************************************************************************)
THEOREM AllocateIsNearest ==
  ASSUME NEW pool \in Nat, NEW credits, IsFiniteSet(DOMAIN credits),
         DOMAIN credits \subseteq Int, \A a \in DOMAIN credits : credits[a] \in Nat,
         NEW A, A = Entitled(credits), A # {}, NEW ents, ents = Allocate(pool, credits),
         NEW g, g = [a \in A |-> ents[a].amount]
  PROVE  Total(g, A) = pool /\ Nearest(g, pool, credits)
  <1>1. ExactAllocation(pool, credits, ents)
    BY ONLY pool \in Nat, IsFiniteSet(DOMAIN credits), DOMAIN credits \subseteq Int,
            \A x \in DOMAIN credits : credits[x] \in Nat, ents = Allocate(pool, credits),
            AllocationIsExact
  <1>2. IsFiniteSet(A) /\ A \subseteq Int /\ A \subseteq DOMAIN credits
    BY FS_Subset DEF Entitled
  <1>3. DOMAIN ents = A /\ \A a \in A : ents[a].amount \in Nat
    BY <1>1 DEF ExactAllocation
  <1>4. Total(g, A) = pool
    BY <1>1, <1>3 DEF ExactAllocation, AllocatedCents
  <1>5. PICK t : t = Total(credits, A)
    OBVIOUS
  <1>6. PICK q, r, l : /\ Figures(pool, credits, A, t, q, r, l)
                       /\ Allocate(pool, credits) = Shares(A, credits, q, r, l)
    BY ONLY pool \in Nat, IsFiniteSet(DOMAIN credits), \A x \in DOMAIN credits : credits[x] \in Nat,
            A = Entitled(credits), A # {}, <1>5, AllocateFigures
  <1>7. /\ t \in Nat /\ t > 0 /\ l \in Nat /\ q \in [A -> Nat] /\ r \in [A -> Int]
        /\ \A a \in A : r[a] \in 0..(t - 1) /\ pool * credits[a] = t * q[a] + r[a]
    BY <1>6 DEF Figures
  <1>8. PICK v : v = [a \in A |-> Up(a, r, l)]
    OBVIOUS
  <1>9. \A a \in A : g[a] = q[a] + v[a] /\ v[a] \in {0, 1} /\ v[a] = Up(a, r, l)
    <2>1. ents = Shares(A, credits, q, r, l)
      BY <1>6
    <2>2. \A a \in A : ents[a].amount = q[a] + Up(a, r, l) /\ Up(a, r, l) \in {0, 1}
      BY ONLY <2>1, AmountIs
    <2> QED BY <1>8, <2>2
  <1>10. PICK p \in 0..(t - 1) : \A a \in A : /\ Up(a, r, l) = 1 => r[a] >= p
                                              /\ Up(a, r, l) = 0 => r[a] <= p
    BY ONLY <1>2, <1>7, Pivot
  <1>11. ASSUME NEW f \in [A -> 0..pool], Total(f, A) = pool, f # g
         PROVE  \/ Distance(g, pool, credits) < Distance(f, pool, credits)
                \/ /\ Distance(g, pool, credits) = Distance(f, pool, credits)
                   /\ LexGreater(g, f)
    <2>1. PICK x : x = [a \in A |-> pool * credits[a]]
      OBVIOUS
    <2>2. PICK dg, df, ex : /\ dg = [a \in A |-> Square(g[a] * t - x[a])]
                            /\ df = [a \in A |-> Square(f[a] * t - x[a])]
                            /\ ex = [a \in A |-> Cost(f, g, t, r, v, p, a)]
      OBVIOUS
    <2>3. \A a \in A : /\ x[a] \in Int /\ q[a] \in Int /\ r[a] \in Int /\ v[a] \in Int
                       /\ g[a] \in Int /\ f[a] \in Int
                       /\ x[a] = t * q[a] + r[a] /\ g[a] = q[a] + v[a]
      <3>1. ASSUME NEW a \in A PROVE x[a] = t * q[a] + r[a] /\ q[a] \in Nat /\ r[a] \in Int
        BY <1>7, <2>1
      <3>2. ASSUME NEW a \in A PROVE x[a] \in Int
        BY <1>7, <3>1
      <3>3. ASSUME NEW a \in A PROVE v[a] \in Int /\ g[a] = q[a] + v[a] /\ g[a] \in Int /\ f[a] \in Int
        BY <1>9, <3>1
      <3> QED BY <3>1, <3>2, <3>3
    <2>4. Total(f, A) = Total(g, A)
      BY <1>4, <1>11
    <2>5. /\ \A a \in A : dg[a] = Square(g[a] * t - x[a])
          /\ \A a \in A : df[a] = Square(f[a] * t - x[a])
          /\ \A a \in A : ex[a] = Cost(f, g, t, r, v, p, a)
      BY <2>2
    <2>6. /\ Total(dg, A) \in Int /\ Total(ex, A) \in Int
          /\ Total(df, A) = Total(dg, A) + t * Total(ex, A)
      <3>1. t \in Int /\ p \in Int
        BY <1>7
      <3>2. Handout(A, t, p, x, q, r, v, g, f, dg, df, ex)
        BY ONLY <2>3, <2>5 DEF Handout
      <3> QED BY ONLY <1>2, <2>4, <3>1, <3>2, CostsAdd
    <2>7. Distance(g, pool, credits) = Total(dg, A) /\ Distance(f, pool, credits) = Total(df, A)
      <3>1. DOMAIN g = A /\ DOMAIN f = A
        OBVIOUS
      <3>2. dg = [a \in A |-> Square(g[a] * t - pool * credits[a])]
        BY <2>1, <2>2
      <3>3. df = [a \in A |-> Square(f[a] * t - pool * credits[a])]
        BY <2>1, <2>2
      <3>4. Distance(g, pool, credits) = Total(dg, A)
        BY ONLY <1>5, <3>1, <3>2 DEF Distance
      <3>5. Distance(f, pool, credits) = Total(df, A)
        BY ONLY <1>5, <3>1, <3>3 DEF Distance
      <3> QED BY <3>4, <3>5
    <2>8. ASSUME NEW a \in A
          PROVE  /\ ex[a] \in Nat
                 /\ ex[a] = 0 => \/ f[a] = g[a]
                                 \/ v[a] = 1 /\ r[a] = p /\ f[a] < g[a]
                                 \/ v[a] = 0 /\ r[a] = p /\ f[a] > g[a]
      <3>1. PICK k \in Int : k = f[a] - g[a]
        BY <2>3
      <3>2. PICK va \in {0, 1}, ra \in 0..(t - 1) : va = v[a] /\ ra = r[a]
        BY <1>7, <1>9
      <3>9. PICK z : z = ex[a]
        OBVIOUS
      <3>3. z = k * (t * (2 * va + k - 1) + 2 * (p - ra))
        BY <2>2, <3>1, <3>2, <3>9 DEF Cost
      <3>4. (va = 1 => ra >= p) /\ (va = 0 => ra <= p)
        BY <1>9, <1>10, <3>2
      <3>5. t \in Nat
        BY <1>7
      <3>6. /\ z \in Nat
            /\ z = 0 => \/ k = 0
                        \/ va = 1 /\ ra = p /\ k < 0
                        \/ va = 0 /\ ra = p /\ k > 0
        BY ONLY <3>3, <3>4, <3>5, p \in 0..(t - 1), k \in Int, va \in {0, 1}, ra \in 0..(t - 1), Exchange
      <3>7. f[a] \in Int /\ g[a] \in Int
        BY <2>3
      <3>8. (k = 0 => f[a] = g[a]) /\ (k < 0 => f[a] < g[a]) /\ (k > 0 => f[a] > g[a])
        BY ONLY <3>1, <3>7
      <3> QED BY ONLY <3>2, <3>6, <3>8, <3>9
    <2>9. Total(ex, A) \in Nat /\ \A a \in A : ex[a] <= Total(ex, A)
      <3>1. \A a \in A : ex[a] \in Nat
        BY <2>8
      <3> QED BY ONLY <1>2, <3>1, TotalIsPositive
    <2>10. CASE Total(ex, A) > 0
      <3>1. PICK n \in Nat : n = Total(ex, A) /\ n > 0
        BY <2>9, <2>10
      <3>2. t * n > 0 /\ t * n \in Int
        BY <1>7, <3>1
      <3>3. Total(dg, A) < Total(df, A)
        BY ONLY <2>6, <3>1, <3>2
      <3> QED BY <2>7, <3>3
    <2>11. CASE Total(ex, A) = 0
      <3>1. Total(df, A) = Total(dg, A)
        BY ONLY <1>7, <2>6, <2>11
      <3>2. \A a \in A : \/ f[a] = g[a]
                         \/ v[a] = 1 /\ r[a] = p /\ f[a] < g[a]
                         \/ v[a] = 0 /\ r[a] = p /\ f[a] > g[a]
        <4>1. ASSUME NEW a \in A PROVE ex[a] = 0
          <5>1. ex[a] \in Nat /\ ex[a] <= 0
            BY <2>8, <2>9, <2>11
          <5> QED BY ONLY <5>1
        <4> QED BY <2>8, <4>1
      <3>3. PICK D : D = {a \in A : f[a] # g[a]}
        OBVIOUS
      <3>4. D # {}
        BY <1>11, <3>3
      <3>5. IsFiniteSet(D) /\ D \subseteq Int
        BY <1>2, <3>3, FS_Subset
      <3>6. PICK a \in D : \A b \in D : a <= b
        BY ONLY <3>4, <3>5, LeastIs
      <3>7. a \in A /\ a \in Int /\ f[a] # g[a]
        BY <1>2, <3>3, <3>6
      <3>8. ~(f[a] > g[a])
        <4> SUFFICES ASSUME f[a] > g[a] PROVE FALSE
          OBVIOUS
        <4>1. f[a] \in Int /\ g[a] \in Int
          BY <2>3, <3>7
        <4>2. g[a] < f[a]
          BY <4>1
        <4>3. PICK b \in A : g[b] > f[b]
          <5>1. \A y \in A : g[y] \in Int /\ f[y] \in Int
            BY <2>3
          <5>2. Total(g, A) = Total(f, A) /\ a \in A
            BY <2>4, <3>7
          <5> QED BY ONLY <1>2, <4>2, <5>1, <5>2, LessAndMore
        <4>4. g[b] \in Int /\ f[b] \in Int
          BY <2>3
        <4>5. v[b] = 1 /\ r[b] = p
          BY <3>2, <4>3, <4>4
        <4>6. v[a] = 0 /\ r[a] = p
          BY <3>2, <3>7, <4>1, <4>2
        <4>7. Up(b, r, l) = 1 /\ Up(a, r, l) = 0
          BY <1>9, <3>7, <4>5, <4>6
        <4>8. r[b] > r[a] \/ (r[b] = r[a] /\ b < a)
          BY ONLY b \in A, <1>2, <1>7, <3>7, <4>7, UpComesBefore
        <4>9. b < a
          BY <1>10, <4>5, <4>6, <4>8
        <4>10. b \in D
          BY <3>3, <4>3, <4>4
        <4>11. a <= b /\ b \in Int
          BY <1>2, <3>6, <4>10
        <4> QED BY <3>7, <4>9, <4>11
      <3>9. g[a] > f[a]
        <4>1. f[a] \in Int /\ g[a] \in Int
          BY <2>3, <3>7
        <4> QED BY <3>7, <3>8, <4>1
      <3>10. ASSUME NEW b \in A, b < a PROVE g[b] = f[b]
        <4>1. b \in Int
          BY <1>2
        <4>2. b \notin D
          BY <3>6, <3>7, <3>10, <4>1
        <4> QED BY <3>3, <4>2
      <3>11. LexGreater(g, f)
        <4>1. DOMAIN g = A
          OBVIOUS
        <4> QED BY <3>7, <3>9, <3>10, <4>1 DEF LexGreater
      <3> QED BY <2>7, <3>1, <3>11
    <2>12. Total(ex, A) > 0 \/ Total(ex, A) = 0
      BY <2>9
    <2> QED BY <2>10, <2>11, <2>12
  <1>12. Nearest(g, pool, credits)
    <2>1. DOMAIN g = A
      OBVIOUS
    <2>2. \A f \in [A -> 0..pool] : DOMAIN f = A
      OBVIOUS
    <2> QED BY <1>11, <2>1, <2>2 DEF Nearest
  <1> QED BY <1>4, <1>12

-----------------------------------------------------------------------------
(***************************************************************************)
(* The rounds ComputeRound publishes from the inputs of MCEngine.          *)
(***************************************************************************)
\* The inputs of the engine.
EngineInv == takings \in Int /\ brought \in Int /\ weights \in [Accounts -> 0..MaxCredits]

\* ComputeRound does not fail on them, and what it publishes is sound.
LEMMA TheRoundIsSound ==
  ASSUME EngineInv
  PROVE  /\ ~ComputeFails(Policy1, 1, TheReceipts, TheAwards)
         /\ SoundRound(Policy1, TheRound)
  <1>1. IsFiniteSet(Accounts) /\ Accounts \subseteq Int /\ PoolBps \in 1..BpsScale
    BY EngineAssumption
  <1>2. ReceiptsSound(TheReceipts)
    <2>1. IsFiniteSet(TheReceipts)
      BY FS_Singleton DEF TheReceipts
    <2> QED BY <2>1 DEF ReceiptsSound, TheReceipts, EngineInv
  <1>3. ASSUME NEW a \in TheAwards
        PROVE  /\ Credits(a.splits) /\ DOMAIN a.splits \subseteq Int /\ ValidAward(a)
    <2>1. PICK acct \in Credited : a = AwardTo(acct)
      BY DEF TheAwards
    <2>2. acct \in Accounts /\ weights[acct] \in Nat /\ weights[acct] > 0
      BY EngineAssumption DEF Credited, EngineInv
    <2>3. /\ DOMAIN a.splits = {acct} /\ a.splits[acct] = weights[acct]
          /\ a.activation = 1 /\ a.expiration = 2 /\ a.status = "approved"
      BY <2>1 DEF AwardTo
    <2>4. IsFiniteSet({acct})
      BY FS_Singleton
    <2> QED BY <1>1, <2>2, <2>3, <2>4 DEF Credits, ValidAward
  <1>4. IsFiniteSet(TheAwards)
    <2>1. PICK h : h = [acct \in Credited |-> AwardTo(acct)]
      OBVIOUS
    <2>2. h \in Surjection(Credited, TheAwards)
      BY <2>1 DEF Surjection, TheAwards
    <2>3. Credited \subseteq Accounts
      BY DEF Credited, EngineInv
    <2>4. IsFiniteSet(Credited)
      BY <1>1, <2>3, FS_Subset
    <2> QED BY <2>2, <2>4, FS_Surjection
  <1>5. AwardsSound(TheAwards)
    BY <1>3, <1>4 DEF AwardsSound
  <1>6. ~ComputeFails(Policy1, 1, TheReceipts, TheAwards)
    <2>1. ~CreditsFail(TheAwards)
      BY <1>3 DEF CreditsFail
    <2>2. ValidProgram(Policy1)
      BY <1>1 DEF ValidProgram, Policy1, BpsScale
    <2>3. /\ Policy1.calculation = CalculationVersion /\ Policy1.effectiveFrom = 1
          /\ Policy1.currency = "usd"
      BY DEF Policy1, CalculationVersion
    <2> QED BY <2>1, <2>2, <2>3 DEF ComputeFails, TheReceipts
  <1>7. Policy1.poolBps \in Int /\ brought \in Int
    BY <1>1 DEF Policy1, EngineInv, BpsScale
  <1> QED BY <1>2, <1>5, <1>6, <1>7, ComputedIsSound DEF TheRound

\* One award per account: the active credits are the weights.
LEMMA TheCreditsAre ==
  ASSUME EngineInv, NEW credits, credits = ActiveCredits(TheAwards, 1)
  PROVE  /\ DOMAIN credits = Credited
         /\ \A a \in Credited : credits[a] = weights[a]
  <1>1. ActiveAwards(TheAwards, 1) = TheAwards
    <2>1. ASSUME NEW a \in TheAwards PROVE a.status = "approved" /\ ActiveIn(a, 1)
      <3>1. PICK acct \in Credited : a = AwardTo(acct)
        BY DEF TheAwards
      <3> QED BY <3>1 DEF AwardTo, ActiveIn
    <2> QED BY <2>1 DEF ActiveAwards
  <1>2. credits = CreditsOf(TheAwards)
    BY <1>1 DEF ActiveCredits
  <1>3. \A acct : DOMAIN AwardTo(acct).splits = {acct} /\ AwardTo(acct).splits[acct] = weights[acct]
    BY DEF AwardTo
  <1>4. PICK accts : accts = UNION {DOMAIN a.splits : a \in TheAwards}
    OBVIOUS
  <1>5. accts = Credited
    <2>1. ASSUME NEW x \in accts PROVE x \in Credited
      <3>1. PICK a \in TheAwards : x \in DOMAIN a.splits
        BY <1>4
      <3>2. PICK acct \in Credited : a = AwardTo(acct)
        BY DEF TheAwards
      <3> QED BY <1>3, <3>1, <3>2
    <2>2. ASSUME NEW x \in Credited PROVE x \in accts
      <3>1. AwardTo(x) \in TheAwards /\ x \in DOMAIN AwardTo(x).splits
        BY <1>3 DEF TheAwards
      <3> QED BY <1>4, <3>1
    <2> QED BY <2>1, <2>2
  <1>6. DOMAIN credits = Credited
    BY <1>2, <1>4, <1>5 DEF CreditsOf
  <1>7. ASSUME NEW acct \in Credited PROVE credits[acct] = weights[acct]
    <2>1. PICK holding : holding = {a \in TheAwards : acct \in DOMAIN a.splits}
      OBVIOUS
    <2>2. PICK f : f = [a \in holding |-> a.splits[acct]]
      OBVIOUS
    <2>3. credits[acct] = Total(f, holding)
      BY <1>2, <1>4, <1>5, <2>1, <2>2 DEF CreditsOf
    <2>4. PICK a : a = AwardTo(acct)
      OBVIOUS
    <2>5. holding = {a}
      <3>1. a \in holding
        BY <1>3, <2>1, <2>4 DEF TheAwards
      <3>2. ASSUME NEW b \in holding PROVE b = a
        <4>1. PICK x \in Credited : b = AwardTo(x)
          BY <2>1 DEF TheAwards
        <4>2. acct = x
          BY <1>3, <2>1, <4>1
        <4> QED BY <2>4, <4>1, <4>2
      <3> QED BY <3>1, <3>2
    <2>6. f[a] = weights[acct]
      BY <1>3, <2>2, <2>4, <2>5
    <2>7. weights[acct] \in Int
      BY EngineAssumption DEF Credited, EngineInv
    <2>8. IsFiniteSet(holding) /\ holding \ {a} = {}
      BY <2>5, FS_Singleton
    <2>9. \A x \in holding : f[x] \in Int
      BY <2>5, <2>6, <2>7
    <2>10. a \in holding
      BY <2>5
    <2>11. Total(f, holding) = f[a] + Total(f, holding \ {a})
      BY ONLY <2>8, <2>9, <2>10, TotalWithout
    <2>12. Total(f, {}) = 0
      BY TotalOfNone
    <2> QED BY <2>3, <2>6, <2>7, <2>8, <2>11, <2>12
  <1> QED BY <1>6, <1>7

\* What is published: the clamped pool, allocated by the weights.
LEMMA TheRoundIs ==
  ASSUME EngineInv
  PROVE  /\ TheRound.pool \in Int
         /\ TheRound.ents = Allocate(Clamped(TheRound.pool), weights)
         /\ Credited = Entitled(weights)
         /\ IsFiniteSet(DOMAIN weights) /\ DOMAIN weights \subseteq Int
         /\ \A a \in DOMAIN weights : weights[a] \in Nat
  <1>1. TheRound.pool \in Int
    BY TheRoundIsSound DEF SoundRound
  <1>2. /\ DOMAIN weights = Accounts /\ IsFiniteSet(DOMAIN weights) /\ DOMAIN weights \subseteq Int
        /\ \A a \in DOMAIN weights : weights[a] \in Nat
    BY EngineAssumption DEF EngineInv
  <1>3. Credited = Entitled(weights)
    BY <1>2 DEF Credited, Entitled
  <1>4. PICK credits : credits = ActiveCredits(TheAwards, 1)
    OBVIOUS
  <1>5. DOMAIN credits = Credited /\ \A a \in Credited : credits[a] = weights[a]
    BY <1>4, TheCreditsAre
  <1>6. TheRound.ents = Allocate(Clamped(TheRound.pool), credits)
    BY <1>4 DEF TheRound, ComputeRound, Clamped
  <1>7. PICK pool : pool = Clamped(TheRound.pool)
    OBVIOUS
  <1>8. \A a \in DOMAIN weights : weights[a] \in Int
    BY <1>2
  <1>9. Allocate(pool, credits) = Allocate(pool, weights)
    <2>1. IsFiniteSet(DOMAIN weights)
      BY <1>2
    <2>2. PICK A : A = Entitled(weights)
      OBVIOUS
    <2>3. DOMAIN credits = A
      BY <1>3, <1>5, <2>2
    <2>4. \A a \in A : credits[a] = weights[a]
      BY <1>3, <1>5, <2>2
    <2> QED BY ONLY <1>8, <2>1, <2>2, <2>3, <2>4, AllocatesTheSame
  <1> QED BY <1>1, <1>2, <1>3, <1>6, <1>7, <1>9

\* The published amounts are the nearest.
LEMMA TheRoundIsNearest ==
  ASSUME EngineInv
  PROVE  AllocationIsNearest
  <1>1. PICK pool, g : pool = TheRound.pool /\ g = [a \in Credited |-> Amount(a)]
    OBVIOUS
  <1> SUFFICES ASSUME Credited # {}, pool >= 0
               PROVE  Total(g, Credited) = pool /\ Nearest(g, pool, weights)
    BY <1>1 DEF AllocationIsNearest
  <1>2. /\ pool \in Int /\ TheRound.ents = Allocate(Clamped(pool), weights)
        /\ Credited = Entitled(weights)
    BY <1>1, TheRoundIs
  <1>3. IsFiniteSet(DOMAIN weights)
    BY TheRoundIs
  <1>4. DOMAIN weights \subseteq Int
    BY TheRoundIs
  <1>5. \A a \in DOMAIN weights : weights[a] \in Nat
    BY TheRoundIs
  <1>6. pool \in Nat /\ Clamped(pool) = pool
    BY <1>2 DEF Clamped
  <1>7. PICK ents, A : ents = TheRound.ents /\ A = Credited
    OBVIOUS
  <1>8. ents = Allocate(pool, weights) /\ A = Entitled(weights) /\ A # {}
    BY <1>2, <1>6, <1>7
  <1>9. ExactAllocation(pool, weights, ents)
    BY ONLY <1>3, <1>4, <1>5, <1>6, <1>8, AllocationIsExact
  <1>10. DOMAIN ents = A
    BY <1>8, <1>9 DEF ExactAllocation
  <1>11. g = [a \in A |-> ents[a].amount]
    BY <1>1, <1>7, <1>10 DEF Amount
  <1>12. Total(g, A) = pool /\ Nearest(g, pool, weights)
    BY ONLY <1>3, <1>4, <1>5, <1>6, <1>8, <1>11, AllocateIsNearest
  <1> QED BY <1>7, <1>12

\* More credits than were published with would not have paid less.
LEMMA TheRoundNeverHurts ==
  ASSUME EngineInv
  PROVE  CreditsNeverHurt
  <1>1. PICK pool : pool = Clamped(TheRound.pool)
    OBVIOUS
  <1>2. TheRound.ents = Allocate(pool, weights) /\ pool \in Nat
    BY <1>1, TheRoundIs DEF Clamped
  <1>3. IsFiniteSet(DOMAIN weights)
    BY TheRoundIs
  <1>4. DOMAIN weights \subseteq Int
    BY TheRoundIs
  <1>5. \A a \in DOMAIN weights : weights[a] \in Nat
    BY TheRoundIs
  <1>6. ASSUME NEW a \in DOMAIN weights, NEW c \in 1..MaxCredits, c > weights[a]
        PROVE  Allocate(pool, [weights EXCEPT ![a] = c])[a].amount >= Amount(a)
    <2>1. PICK more, old, new : /\ more = [weights EXCEPT ![a] = c]
                                /\ old = TheRound.ents /\ new = Allocate(pool, more)
      OBVIOUS
    <2>2. PICK w : w = weights
      OBVIOUS
    <2>3. /\ IsFiniteSet(DOMAIN w) /\ DOMAIN w \subseteq Int
          /\ \A x \in DOMAIN w : w[x] \in Nat
      BY <1>3, <1>4, <1>5, <2>2
    <2>4. a \in DOMAIN w /\ c \in Nat /\ c > w[a] /\ more = [w EXCEPT ![a] = c]
      BY <1>6, <2>1, <2>2, EngineAssumption
    <2>5. old = Allocate(pool, w) /\ new = Allocate(pool, more) /\ pool \in Nat
      BY <1>2, <2>1, <2>2
    <2>6. /\ a \in DOMAIN new /\ new[a].amount \in Nat
          /\ a \in DOMAIN old => new[a].amount >= old[a].amount
      BY ONLY <2>3, <2>4, <2>5, MoreCreditsNeverHurt
    <2>7. CASE a \in DOMAIN old
      BY <2>1, <2>6, <2>7 DEF Amount
    <2>8. CASE a \notin DOMAIN old
      BY <2>1, <2>6, <2>8 DEF Amount
    <2> QED BY <2>7, <2>8
  <1>7. pool = IF TheRound.pool < 0 THEN 0 ELSE TheRound.pool
    BY <1>1 DEF Clamped
  <1> QED BY <1>6, <1>7 DEF CreditsNeverHurt

\* The inputs stay inputs.
LEMMA EngineInvariance == EngineSpec => []EngineInv
  <1>1. EngineInit => EngineInv
    BY EngineAssumption DEF EngineInit, EngineInv
  <1>2. EngineInv /\ [EngineNext]_engineVars => EngineInv'
    <2> SUFFICES ASSUME EngineInv, [EngineNext]_engineVars PROVE EngineInv'
      OBVIOUS
    <2>1. CASE ChangeReceipts
      BY <2>1, EngineAssumption DEF ChangeReceipts, EngineInv
    <2>2. CASE ChangeCarry
      BY <2>2, EngineAssumption DEF ChangeCarry, EngineInv
    <2>3. ASSUME NEW acct \in Accounts, ChangeCredits(acct) PROVE EngineInv'
      BY <2>3 DEF ChangeCredits, EngineInv
    <2>4. CASE UNCHANGED engineVars
      BY <2>4 DEF engineVars, EngineInv
    <2> QED BY <2>1, <2>2, <2>3, <2>4 DEF EngineNext
  <1> QED BY <1>1, <1>2, PTL DEF EngineSpec

(***************************************************************************)
(* What the run checks of Allocate on a few accounts holds for any number  *)
(* of accounts, any credits, receipts and carried balance: the published   *)
(* entitlements are the nearest to the exact shares, ties broken by the    *)
(* account order, and more credits never cost their holder a cent.         *)
(***************************************************************************)
THEOREM AllocationStaysFair == EngineSpec => []AllocationIsFair
  <1>1. EngineInv => AllocationIsFair
    BY TheRoundIsNearest, TheRoundNeverHurts DEF AllocationIsFair
  <1> QED BY EngineInvariance, <1>1, PTL

-----------------------------------------------------------------------------
RoundFields == {"version", "calculation", "currency", "net", "carry", "pool",
                "total", "ents", "unallocated"}

\* What VerifyRound compares.
LEMMA VerifiedIs ==
  ASSUME NEW p, NEW r, VerifyRound(p, r),
         NEW credits, credits = [acct \in DOMAIN r.ents |-> r.ents[acct].credits],
         NEW pool, pool = r.carry + PoolShareCents(p.poolBps, r.net)
  PROVE  /\ r.pool = pool /\ Total(credits, DOMAIN r.ents) = r.total
         /\ Allocate(Clamped(pool), credits) = r.ents
         /\ pool - AllocatedCents(r.ents) = r.unallocated
  BY DEF VerifyRound, Clamped

\* Entitlements with other amounts for the same credits do not verify.
LEMMA AmountsShow ==
  ASSUME NEW p, NEW r, VerifyRound(p, r), NEW t, t.carry = r.carry, t.net = r.net,
         DOMAIN t.ents = DOMAIN r.ents,
         \A a \in DOMAIN r.ents : t.ents[a].credits = r.ents[a].credits,
         t.ents # r.ents
  PROVE  ~VerifyRound(p, t)
  <1> SUFFICES ASSUME VerifyRound(p, t) PROVE FALSE
    OBVIOUS
  <1>1. PICK credits : credits = [acct \in DOMAIN r.ents |-> r.ents[acct].credits]
    OBVIOUS
  <1>2. PICK pool : pool = r.carry + PoolShareCents(p.poolBps, r.net)
    OBVIOUS
  <1>3. credits = [acct \in DOMAIN t.ents |-> t.ents[acct].credits]
    BY <1>1
  <1>4. pool = t.carry + PoolShareCents(p.poolBps, t.net)
    BY <1>2
  <1>5. Allocate(Clamped(pool), credits) = r.ents
    BY ONLY VerifyRound(p, r), <1>1, <1>2, VerifiedIs
  <1>6. Allocate(Clamped(pool), credits) = t.ents
    BY ONLY VerifyRound(p, t), <1>3, <1>4, VerifiedIs
  <1> QED BY <1>5, <1>6

\* Credits with another sum do not verify.
LEMMA CreditsShow ==
  ASSUME NEW p, NEW r, VerifyRound(p, r), NEW t, t.total = r.total,
         NEW credits, credits = [acct \in DOMAIN r.ents |-> r.ents[acct].credits],
         NEW other, other = [acct \in DOMAIN t.ents |-> t.ents[acct].credits],
         Total(other, DOMAIN t.ents) # Total(credits, DOMAIN r.ents)
  PROVE  ~VerifyRound(p, t)
  <1> SUFFICES ASSUME VerifyRound(p, t) PROVE FALSE
    OBVIOUS
  <1>1. Total(credits, DOMAIN r.ents) = r.total
    BY ONLY VerifyRound(p, r), credits = [acct \in DOMAIN r.ents |-> r.ents[acct].credits],
            VerifiedIs
  <1>2. Total(other, DOMAIN t.ents) = t.total
    BY ONLY VerifyRound(p, t), other = [acct \in DOMAIN t.ents |-> t.ents[acct].credits],
            VerifiedIs
  <1> QED BY <1>1, <1>2

\* Entitlements as ComputeRound publishes them.
Entitlements(e) ==
  /\ IsFiniteSet(DOMAIN e)
  /\ \A a \in DOMAIN e : /\ {"credits", "amount"} \subseteq DOMAIN e[a]
                         /\ e[a].amount \in Int /\ e[a].credits \in Nat /\ e[a].credits > 0

(***************************************************************************)
(* A round that verifies does not verify with any of its figures changed.  *)
(***************************************************************************)
LEMMA TamperingShows ==
  ASSUME NEW p, NEW r, VerifyRound(p, r), RoundFields \subseteq DOMAIN r,
         Entitlements(r.ents), r.pool \in Int, r.unallocated \in Int,
         NEW t \in Tampered(r)
  PROVE  ~VerifyRound(p, t)
  <1>1. PICK e, D : e = r.ents /\ D = DOMAIN e
    OBVIOUS
  <1>2. /\ IsFiniteSet(D)
        /\ \A a \in D : /\ "credits" \in DOMAIN e[a] /\ "amount" \in DOMAIN e[a]
                        /\ e[a].amount \in Int /\ e[a].credits \in Nat /\ e[a].credits > 0
    BY <1>1 DEF Entitlements
  <1>3. /\ "net" \in DOMAIN r /\ "carry" \in DOMAIN r /\ "pool" \in DOMAIN r
        /\ "total" \in DOMAIN r /\ "ents" \in DOMAIN r /\ "unallocated" \in DOMAIN r
    BY DEF RoundFields
  <1>4. PICK credits : credits = [acct \in DOMAIN r.ents |-> r.ents[acct].credits]
    OBVIOUS
  <1>5. PICK pool : pool = r.carry + PoolShareCents(p.poolBps, r.net)
    OBVIOUS
  <1>6. /\ r.pool = pool /\ Total(credits, DOMAIN r.ents) = r.total
        /\ pool - AllocatedCents(r.ents) = r.unallocated
    BY ONLY VerifyRound(p, r), <1>4, <1>5, VerifiedIs
  <1>7. IsFiniteSet(D) /\ \A a \in D : credits[a] \in Int /\ credits[a] = e[a].credits
    BY <1>1, <1>2, <1>4
  <1>8. Total(credits, D) \in Int
    BY <1>7, TotalIsInt
  \* Other amounts.
  <1>9. ASSUME NEW x, t = [r EXCEPT !.ents = x], DOMAIN x = D,
               \A a \in D : x[a].credits = e[a].credits, x # e
        PROVE  ~VerifyRound(p, t)
    <2>1. t.carry = r.carry /\ t.net = r.net /\ t.ents = x
      BY <1>3, <1>9
    <2>2. DOMAIN t.ents = DOMAIN r.ents /\ t.ents # r.ents
      BY <1>1, <1>9, <2>1
    <2>3. \A a \in DOMAIN r.ents : t.ents[a].credits = r.ents[a].credits
      BY <1>1, <1>9, <2>1
    <2> QED BY ONLY VerifyRound(p, r), <2>1, <2>2, <2>3, AmountsShow
  \* Other credits.
  <1>10. ASSUME NEW x, t = [r EXCEPT !.ents = x], NEW other,
                other = [acct \in DOMAIN x |-> x[acct].credits],
                Total(other, DOMAIN x) # Total(credits, D)
         PROVE  ~VerifyRound(p, t)
    <2>1. t.total = r.total /\ t.ents = x
      BY <1>3, <1>10
    <2>2. other = [acct \in DOMAIN t.ents |-> t.ents[acct].credits]
      BY <1>10, <2>1
    <2>3. Total(other, DOMAIN t.ents) # Total(credits, DOMAIN r.ents)
      BY <1>1, <1>10, <2>1
    <2> QED BY ONLY VerifyRound(p, r), <1>4, <2>1, <2>2, <2>3, CreditsShow
  <1>11. ASSUME NEW a \in D, NEW b \in D, a # b,
                t = [r EXCEPT !.ents[a].amount = @ - 1, !.ents[b].amount = @ + 1]
         PROVE  ~VerifyRound(p, t)
    <2>1. PICK x : x = [e EXCEPT ![a].amount = @ - 1, ![b].amount = @ + 1]
      OBVIOUS
    <2>2. t = [r EXCEPT !.ents = x]
      BY <1>1, <1>3, <1>11, <2>1
    <2>3. DOMAIN x = D /\ \A c \in D : x[c].credits = e[c].credits
      BY <1>1, <1>2, <2>1
    <2>4. x[a].amount = e[a].amount - 1 /\ e[a].amount \in Int
      BY <1>1, <1>2, <1>11, <2>1
    <2>5. x # e
      BY <2>4
    <2> QED BY <1>9, <2>2, <2>3, <2>5
  <1>12. ASSUME NEW a \in D, t = [r EXCEPT !.ents[a].amount = @ + 1]
         PROVE  ~VerifyRound(p, t)
    <2>1. PICK x : x = [e EXCEPT ![a].amount = @ + 1]
      OBVIOUS
    <2>2. t = [r EXCEPT !.ents = x]
      BY <1>1, <1>3, <1>12, <2>1
    <2>3. DOMAIN x = D /\ \A c \in D : x[c].credits = e[c].credits
      BY <1>1, <1>2, <2>1
    <2>4. x[a].amount = e[a].amount + 1 /\ e[a].amount \in Int
      BY <1>1, <1>2, <1>12, <2>1
    <2>5. x # e
      BY <2>4
    <2> QED BY <1>9, <2>2, <2>3, <2>5
  <1>13. ASSUME NEW a \in D PROVE Total(credits, D) = credits[a] + Total(credits, D \ {a})
    <2>1. \A x \in D : credits[x] \in Int
      BY <1>7
    <2> QED BY ONLY a \in D, <1>7, <2>1, TotalWithout
  <1>14. ASSUME NEW a \in D PROVE IsFiniteSet(D \ {a}) /\ Total(credits, D \ {a}) \in Int
    <2>1. IsFiniteSet(D \ {a})
      BY <1>7, FS_Subset
    <2>2. \A x \in D \ {a} : credits[x] \in Int
      BY <1>7
    <2> QED BY ONLY <2>1, <2>2, TotalIsInt
  <1>15. ASSUME NEW a \in D, t = [r EXCEPT !.ents[a].credits = @ + 1]
         PROVE  ~VerifyRound(p, t)
    <2>1. PICK x : x = [e EXCEPT ![a].credits = @ + 1]
      OBVIOUS
    <2>2. t = [r EXCEPT !.ents = x]
      BY <1>1, <1>3, <1>15, <2>1
    <2>3. DOMAIN x = D
      BY <1>1, <2>1
    <2>4. PICK other : other = [acct \in DOMAIN x |-> x[acct].credits]
      OBVIOUS
    <2>5. other[a] = credits[a] + 1 /\ \A c \in D \ {a} : other[c] = credits[c]
      BY <1>1, <1>2, <1>7, <2>1, <2>3, <2>4
    <2>6. \A c \in D : other[c] \in Int
      BY <1>7, <2>5
    <2>7. Total(other, D) = other[a] + Total(other, D \ {a})
      BY ONLY a \in D, <1>7, <2>6, TotalWithout
    <2>8. Total(other, D \ {a}) = Total(credits, D \ {a})
      <3>1. IsFiniteSet(D \ {a})
        BY <1>14
      <3> QED BY ONLY <2>5, <3>1, TotalSame
    <2>9. Total(other, D) # Total(credits, D)
      <3>1. credits[a] \in Int /\ Total(credits, D \ {a}) \in Int
        BY <1>7, <1>14
      <3> QED BY <1>13, <2>5, <2>7, <2>8, <3>1
    <2> QED BY <1>10, <2>2, <2>3, <2>4, <2>9
  <1>16. ASSUME NEW a \in D,
                t = [r EXCEPT !.ents = [b \in DOMAIN r.ents \ {a} |-> r.ents[b]]]
         PROVE  ~VerifyRound(p, t)
    <2>1. PICK x : x = [b \in D \ {a} |-> e[b]]
      OBVIOUS
    <2>2. t = [r EXCEPT !.ents = x]
      BY <1>1, <1>16, <2>1
    <2>3. DOMAIN x = D \ {a}
      BY <2>1
    <2>4. PICK other : other = [acct \in DOMAIN x |-> x[acct].credits]
      OBVIOUS
    <2>5. \A c \in D \ {a} : other[c] = credits[c]
      BY <1>7, <2>1, <2>3, <2>4
    <2>6. Total(other, D \ {a}) = Total(credits, D \ {a})
      <3>1. IsFiniteSet(D \ {a})
        BY <1>14
      <3> QED BY ONLY <2>5, <3>1, TotalSame
    <2>7. Total(other, D \ {a}) # Total(credits, D)
      <3>1. credits[a] \in Nat /\ credits[a] > 0 /\ Total(credits, D \ {a}) \in Int
        BY <1>2, <1>7, <1>14
      <3> QED BY <1>13, <2>6, <3>1
    <2> QED BY <1>10, <2>2, <2>3, <2>4, <2>7
  <1>17. CASE t = [r EXCEPT !.unallocated = @ + 1]
    <2> SUFFICES ASSUME VerifyRound(p, t) PROVE FALSE
      OBVIOUS
    <2>1. /\ t.carry = r.carry /\ t.net = r.net /\ t.ents = r.ents
          /\ t.unallocated = r.unallocated + 1
      BY <1>3, <1>17
    <2>2. pool - AllocatedCents(t.ents) = t.unallocated
      BY <1>5, <2>1 DEF VerifyRound
    <2> QED BY <1>6, <2>1, <2>2
  <1>18. CASE t = [r EXCEPT !.pool = @ + 1]
    <2> SUFFICES ASSUME VerifyRound(p, t) PROVE FALSE
      OBVIOUS
    <2>1. t.carry = r.carry /\ t.net = r.net /\ t.pool = r.pool + 1
      BY <1>3, <1>18
    <2>2. pool = t.pool
      BY <1>5, <2>1 DEF VerifyRound
    <2> QED BY <1>6, <2>1, <2>2
  <1>19. CASE t = [r EXCEPT !.total = @ + 1]
    <2> SUFFICES ASSUME VerifyRound(p, t) PROVE FALSE
      OBVIOUS
    <2>1. t.ents = r.ents /\ t.total = r.total + 1
      BY <1>3, <1>19
    <2>2. Total(credits, DOMAIN credits) = t.total
      BY <1>4, <2>1 DEF VerifyRound
    <2>3. DOMAIN credits = D
      BY <1>1, <1>4
    <2> QED BY <1>1, <1>6, <1>8, <2>1, <2>2, <2>3
  <1>20. \/ \E q \in D \X D : /\ q[1] # q[2]
                              /\ t = [r EXCEPT !.ents[q[1]].amount = @ - 1, !.ents[q[2]].amount = @ + 1]
         \/ \E a \in D : t = [r EXCEPT !.ents[a].amount = @ + 1]
         \/ \E a \in D : t = [r EXCEPT !.ents[a].credits = @ + 1]
         \/ \E a \in D : t = [r EXCEPT !.ents = [b \in DOMAIN r.ents \ {a} |-> r.ents[b]]]
         \/ t = [r EXCEPT !.unallocated = @ + 1]
         \/ t = [r EXCEPT !.pool = @ + 1]
         \/ t = [r EXCEPT !.total = @ + 1]
    BY <1>1 DEF Tampered
  <1>21. CASE \E q \in D \X D : /\ q[1] # q[2]
                                /\ t = [r EXCEPT !.ents[q[1]].amount = @ - 1, !.ents[q[2]].amount = @ + 1]
    <2>1. PICK q \in D \X D : /\ q[1] # q[2]
                              /\ t = [r EXCEPT !.ents[q[1]].amount = @ - 1, !.ents[q[2]].amount = @ + 1]
      BY <1>21
    <2>2. PICK a \in D, b \in D : a = q[1] /\ b = q[2]
      OBVIOUS
    <2>3. a # b /\ t = [r EXCEPT !.ents[a].amount = @ - 1, !.ents[b].amount = @ + 1]
      BY <2>1, <2>2
    <2> QED BY <1>11, <2>3
  <1> QED BY <1>12, <1>15, <1>16, <1>17, <1>18, <1>19, <1>20, <1>21

(***************************************************************************)
(* VerifyRound accepts the round ComputeRound publishes and none of its    *)
(* tampered forms, for any accounts, credits, receipts and balance.        *)
(***************************************************************************)
THEOREM PublicationStaysEvident == EngineSpec => []PublicationIsTamperEvident
  <1>1. EngineInv => PublicationIsTamperEvident
    <2> SUFFICES ASSUME EngineInv PROVE PublicationIsTamperEvident
      OBVIOUS
    <2>1. /\ ~ComputeFails(Policy1, 1, TheReceipts, TheAwards)
          /\ SoundRound(Policy1, TheRound)
      BY TheRoundIsSound
    <2>2. PICK r : r = TheRound
      OBVIOUS
    <2>3. VerifyRound(Policy1, r) /\ r.pool \in Int /\ r.unallocated \in Int
      BY <2>1, <2>2 DEF SoundRound
    <2>4. RoundFields \subseteq DOMAIN r
      BY <2>2 DEF RoundFields, TheRound, ComputeRound
    <2>5. Entitlements(r.ents)
      <3>1. PICK pool, ents : pool = Clamped(r.pool) /\ ents = r.ents
        OBVIOUS
      <3>2. pool \in Nat
        BY <2>3, <3>1 DEF Clamped
      <3>3. ents = Allocate(pool, weights)
        BY <2>2, <3>1, TheRoundIs
      <3>4. IsFiniteSet(DOMAIN weights)
        BY TheRoundIs
      <3>5. DOMAIN weights \subseteq Int
        BY TheRoundIs
      <3>6. \A a \in DOMAIN weights : weights[a] \in Nat
        BY TheRoundIs
      <3>7. ExactAllocation(pool, weights, ents)
        BY ONLY <3>2, <3>3, <3>4, <3>5, <3>6, AllocationIsExact
      <3>8. /\ DOMAIN ents \subseteq DOMAIN weights
            /\ \A a \in DOMAIN ents : /\ ents[a].credits = weights[a] /\ weights[a] # 0
                                      /\ ents[a].amount \in Nat
        BY <3>7 DEF ExactAllocation, Entitled
      <3>9. \A a \in DOMAIN ents : {"credits", "amount"} \subseteq DOMAIN ents[a]
        BY <3>3 DEF Allocate
      <3>10. IsFiniteSet(DOMAIN ents)
        BY <3>4, <3>8, FS_Subset
      <3>11. \A a \in DOMAIN ents : ents[a].credits \in Nat /\ ents[a].credits > 0
        BY <3>6, <3>8
      <3> QED BY <3>1, <3>8, <3>9, <3>10, <3>11 DEF Entitlements
    <2>6. \A t \in Tampered(r) : ~VerifyRound(Policy1, t)
      BY <2>3, <2>4, <2>5, TamperingShows
    <2> QED BY <2>1, <2>2, <2>3, <2>6 DEF PublicationIsTamperEvident
  <1> QED BY EngineInvariance, <1>1, PTL
=============================================================================
