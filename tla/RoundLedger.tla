---------------------------- MODULE RoundLedger -----------------------------
(***************************************************************************)
(* Closing monthly rounds (contributor/ledger.go) next to the              *)
(* administrative commands of AwardReview: receipts keep arriving, awards  *)
(* are decided and programs published while one or several commands close  *)
(* a month.                                                                *)
(*                                                                         *)
(* A closer is one running CloseRound.  Each store call is a step; the     *)
(* computation in between is local.  CloseRound may fail at every call     *)
(* (Fail: store error, cancelled context, dead process) and is then simply *)
(* run again.  Nothing but the stores survives a failure.                  *)
(***************************************************************************)
EXTENDS AwardReview

CONSTANTS Closers,      \* running CloseRound calls
          Months,       \* the months that are closed, a set of integers
          ReceiptDocs,  \* the receipts the billing system may export
          MaxFailures,  \* bound on the number of failed calls
          PayoutStates, \* bound on the states payment moves obligations to
          FreezeInputs  \* whether the operators keep to FrozenDiscipline

ASSUME MonthsAssumption == Months \subseteq Int
ASSUME ReceiptsAssumption == \A r \in ReceiptDocs : r.net \in Int

VARIABLES receipts,     \* source -> receipt
          rounds,       \* month -> closed round
          obligations,  \* <<month, account>> -> obligation
          closing,      \* what each running CloseRound has read and computed
          failures,     \* failed CloseRound calls so far
          attempted     \* history: months some CloseRound started on

closeVars == <<receipts, rounds, obligations, closing, failures, attempted>>
vars == <<reviewVars, closeVars>>

ObligationID(m, acct) == <<m, acct>>

\* obligationTransitions: the legal state changes of an obligation.
LegalTransitions ==
  {<<"estimated", "earned">>, <<"earned", "owed">>, <<"owed", "initiated">>,
   <<"initiated", "settled">>, <<"initiated", "owed">>, <<"settled", "owed">>}

(***************************************************************************)
(* What careful operators would do, though nothing in the code enforces    *)
(* it: once a close of month m was started, no receipt, award or program   *)
(* that weighs in m is stored any more, months are closed one after the    *)
(* other, and only obligations of closed months are paid.                  *)
(***************************************************************************)
ReceiptAllowed(r) == FreezeInputs => r.month \notin attempted
AwardAllowed(a) == (FreezeInputs /\ a.status # "proposed") =>
                     \A m \in attempted : ~ActiveIn(a, m)
ProgramAllowed(p) == FreezeInputs => \A m \in attempted : m < p.effectiveFrom
CloseAllowed(m) ==
  FreezeInputs => \A k \in attempted : k = m \/ (k < m /\ Has(rounds, k))
PayoutAllowed(m) == FreezeInputs => Has(rounds, m)

-----------------------------------------------------------------------------
(***************************************************************************)
(* CloseRound, call by call.                                               *)
(***************************************************************************)

\* GetRound: a closed month is refused with ErrRoundClosed, and so is a
\* month that has not ended at closedAt (an instant, here the month it is in).
StartClose(c, m, closedAt) ==
  /\ closing[c] = Idle
  /\ ~Has(rounds, m)
  /\ m < closedAt
  /\ CloseAllowed(m)
  /\ closing' = [closing EXCEPT ![c] = [pc |-> "program", month |-> m]]
  /\ attempted' = attempted \cup {m}
  /\ UNCHANGED <<receipts, rounds, obligations, failures>>

\* CloseRound returns an error without having written anything more.
GiveUp(c) == closing' = [closing EXCEPT ![c] = Idle]

\* assemble: ProgramFor.  No effective program is an error.
ReadProgram(c) ==
  /\ closing[c].pc = "program"
  /\ \/ \E p \in ProgramsFor(closing[c].month) :
          closing' = [closing EXCEPT ![c] =
                        [pc |-> "receipts", month |-> closing[c].month,
                         program |-> p]]
     \/ ProgramsFor(closing[c].month) = {} /\ GiveUp(c)
  /\ UNCHANGED <<receipts, rounds, obligations, failures, attempted>>

\* assemble: ListMonthReceipts.
ReadReceipts(c) ==
  /\ closing[c].pc = "receipts"
  /\ closing' = [closing EXCEPT ![c] =
                   [pc |-> "awards", month |-> closing[c].month,
                    program |-> closing[c].program,
                    receipts |-> {r \in Docs(receipts) :
                                    r.month = closing[c].month}]]
  /\ UNCHANGED <<receipts, rounds, obligations, failures, attempted>>

\* assemble: ListAwards(AwardApproved).
ReadAwards(c) ==
  /\ closing[c].pc = "awards"
  /\ closing' = [closing EXCEPT ![c] =
                   [pc |-> "carry", month |-> closing[c].month,
                    program |-> closing[c].program,
                    receipts |-> closing[c].receipts,
                    awards |-> {a \in Docs(awards) : a.status = "approved"}]]
  /\ UNCHANGED <<receipts, rounds, obligations, failures, attempted>>

\* Mutant: the carryforward joins the pool but is not recorded.
ComputeUnrecorded(c, carryforward) ==
  LET l     == closing[c]
      round == [ComputeRound(l.program, l.month, l.receipts, l.awards,
                             carryforward) EXCEPT !.carry = 0]
  IN  closing' = [closing EXCEPT ![c] =
                    [pc |-> "store", month |-> l.month, program |-> l.program,
                     round |-> round, pending |-> Payees(round)]]

\* ComputeRound with the inputs read; its errors end the close.
Compute(c, carryforward) ==
  LET l     == closing[c]
      round == ComputeRound(l.program, l.month, l.receipts, l.awards,
                            carryforward)
  IN  IF ComputeFails(l.program, l.month, l.receipts, l.awards)
      THEN GiveUp(c)
      ELSE closing' = [closing EXCEPT ![c] =
                         [pc |-> "store", month |-> l.month,
                          program |-> l.program, round |-> round,
                          pending |-> Payees(round)]]

\* Mutant: a predecessor that is found counts like one that is not.
ReadPreviousLost(c) ==
  /\ closing[c].pc = "carry"
  /\ LET prev == closing[c].month - 1
     IN  \/ Has(rounds, prev) /\ Compute(c, 0)
         \/ /\ ~Has(rounds, prev)
            /\ closing' = [closing EXCEPT ![c].pc = "gap"]
  /\ UNCHANGED <<receipts, rounds, obligations, failures, attempted>>

\* carryforward: GetRound of the month before.
ReadPrevious(c) ==
  /\ closing[c].pc = "carry"
  /\ LET prev == closing[c].month - 1
     IN  \/ Has(rounds, prev) /\ Compute(c, rounds[prev].unallocated)
         \/ /\ ~Has(rounds, prev)
            /\ closing' = [closing EXCEPT ![c].pc = "gap"]
  /\ UNCHANGED <<receipts, rounds, obligations, failures, attempted>>

\* carryforward: ListRounds.  An earlier closed round means a gap.
ReadRounds(c) ==
  /\ closing[c].pc = "gap"
  /\ \/ (\E k \in DOMAIN rounds : k < closing[c].month) /\ GiveUp(c)
     \/ (\A k \in DOMAIN rounds : k >= closing[c].month) /\ Compute(c, 0)
  /\ UNCHANGED <<receipts, rounds, obligations, failures, attempted>>

\* Mutant: the obligation is stored with Set.
StoreObligationSet(c) ==
  /\ closing[c].pc = "store"
  /\ \E acct \in closing[c].pending :
       /\ obligations' =
            Put(obligations, ObligationID(closing[c].month, acct),
                NewObligation(closing[c].program, closing[c].round, acct))
       /\ closing' = [closing EXCEPT ![c].pending = @ \ {acct}]
  /\ UNCHANGED <<receipts, rounds, failures, attempted>>

\* Mutant: an obligation that exists already fails the close.
StoreObligationStrict(c) ==
  /\ closing[c].pc = "store"
  /\ \E acct \in closing[c].pending :
       LET id == ObligationID(closing[c].month, acct)
       IN  \/ Has(obligations, id) /\ GiveUp(c) /\ obligations' = obligations
           \/ /\ ~Has(obligations, id)
              /\ obligations' =
                   Put(obligations, id,
                       NewObligation(closing[c].program, closing[c].round, acct))
              /\ closing' = [closing EXCEPT ![c].pending = @ \ {acct}]
  /\ UNCHANGED <<receipts, rounds, failures, attempted>>

\* CreateObligation for the next payee in account order.  One that exists
\* already is kept as it is and taken for the one just computed.
StoreObligation(c) ==
  /\ closing[c].pc = "store"
  /\ \E acct \in closing[c].pending :
       LET id == ObligationID(closing[c].month, acct)
       IN  /\ \A other \in closing[c].pending : acct <= other
           /\ obligations' =
                IF Has(obligations, id) THEN obligations
                ELSE Put(obligations, id,
                         NewObligation(closing[c].program, closing[c].round,
                                       acct))
           /\ closing' = [closing EXCEPT ![c].pending = @ \ {acct}]
  /\ UNCHANGED <<receipts, rounds, failures, attempted>>

\* Mutant: the round is stored before its obligations are.
CommitRoundEarly(c) ==
  /\ closing[c].pc = "store"
  /\ ~Has(rounds, closing[c].month)
  /\ rounds' = Put(rounds, closing[c].month, closing[c].round)
  /\ GiveUp(c)
  /\ UNCHANGED <<receipts, obligations, failures, attempted>>

\* Mutant: the round is stored with Set.
CommitRoundSet(c) ==
  /\ closing[c].pc = "store"
  /\ closing[c].pending = {}
  /\ rounds' = Put(rounds, closing[c].month, closing[c].round)
  /\ GiveUp(c)
  /\ UNCHANGED <<receipts, obligations, failures, attempted>>

\* CreateRound, the commit point: refused when the month was closed meanwhile.
CommitRound(c) ==
  /\ closing[c].pc = "store"
  /\ closing[c].pending = {}
  /\ rounds' = IF Has(rounds, closing[c].month) THEN rounds
               ELSE Put(rounds, closing[c].month, closing[c].round)
  /\ GiveUp(c)
  /\ UNCHANGED <<receipts, obligations, failures, attempted>>

\* A store call fails, or the process dies, anywhere in between.
Fail(c) ==
  /\ closing[c] # Idle
  /\ failures < MaxFailures
  /\ failures' = failures + 1
  /\ GiveUp(c)
  /\ UNCHANGED <<receipts, rounds, obligations, attempted>>

-----------------------------------------------------------------------------
\* One iteration of ImportReceipts: a receipt whose source is known counts as
\* a duplicate and leaves the store alone.  Whether its month is closed is
\* not looked at.
ImportReceipt(r) ==
  /\ ReceiptAllowed(r)
  /\ ~Has(receipts, r.source)
  /\ receipts' = Put(receipts, r.source, r)
  /\ UNCHANGED <<rounds, obligations, closing, failures, attempted>>

\* The embedding system (outside this repository) moves an obligation along
\* with Obligation.Transition and stores it with SetObligation.  Reading and
\* storing are one step because there is one payer: CloseRound leaves an
\* obligation that exists alone, so nobody else writes it in between.
Transition(id, to) ==
  /\ Has(obligations, id)
  /\ PayoutAllowed(id[1])
  /\ <<obligations[id].state, to>> \in LegalTransitions
  /\ obligations' = Put(obligations, id, [obligations[id] EXCEPT !.state = to])
  /\ UNCHANGED <<receipts, rounds, closing, failures, attempted>>

-----------------------------------------------------------------------------
CloseStep(c) ==
  \/ ReadProgram(c)
  \/ ReadReceipts(c)
  \/ ReadAwards(c)
  \/ ReadPrevious(c)
  \/ ReadRounds(c)
  \/ StoreObligation(c)
  \/ CommitRound(c)

\* closedAt ranges over the months and the one after the last.
Instants == Months \cup {m + 1 : m \in Months}

LedgerStep ==
  \/ \E c \in Closers, m \in Months, t \in Instants : StartClose(c, m, t)
  \/ \E c \in Closers : CloseStep(c) \/ Fail(c)
  \/ \E r \in ReceiptDocs : ImportReceipt(r)
  \/ \E id \in DOMAIN obligations, to \in PayoutStates : Transition(id, to)

\* The administrative commands, within the discipline where it is assumed.
AdminStep ==
  \/ \E p \in ProgramDocs : ProgramAllowed(p) /\ SetProgram(p)
  \/ \E p \in Participants : CreateParticipant(p) \/ SetParticipant(p)
  \/ \E w \in Reviewers :
       /\ ReviewStep(w)
       /\ \A a \in Docs(awards') \ Docs(awards) : AwardAllowed(a)

Init ==
  /\ ReviewInit
  /\ receipts = EmptyCollection
  /\ rounds = EmptyCollection
  /\ obligations = EmptyCollection
  /\ closing = [c \in Closers |-> Idle]
  /\ failures = 0
  /\ attempted = {}

Next ==
  \/ LedgerStep /\ UNCHANGED reviewVars
  \/ AdminStep /\ UNCHANGED closeVars

Spec == Init /\ [][Next]_vars

(***************************************************************************)
(* Scheduling: the store calls of a running CloseRound return, so that it  *)
(* ends, and a close that was started is started again until the month is  *)
(* closed (the operator or a scheduled job runs the command again).        *)
(***************************************************************************)
Retry(m) == \E c \in Closers, t \in Instants :
              m \in attempted /\ StartClose(c, m, t) /\ UNCHANGED reviewVars

LiveSpec ==
  /\ Spec
  /\ \A c \in Closers : []<>(closing[c] = Idle)
  /\ \A m \in Months : WF_closing(Retry(m))

-----------------------------------------------------------------------------
(***************************************************************************)
(* The shape of the stores and of what a running CloseRound remembers:     *)
(* only months that somebody started to close have rounds or obligations,  *)
(* and an obligation is never about nothing.                               *)
(***************************************************************************)
TypeOK ==
  /\ \A m \in DOMAIN rounds : m \in attempted /\ rounds[m].month = m
  /\ \A id \in DOMAIN obligations :
       /\ id[1] \in attempted
       /\ obligations[id].amount > 0
       /\ obligations[id].state \in {"earned", "owed", "initiated", "settled"}
  /\ attempted \subseteq Months
  /\ DOMAIN closing = Closers
  /\ \A c \in Closers :
       closing[c] # Idle =>
         /\ closing[c].pc \in {"program", "receipts", "awards", "carry",
                               "gap", "store"}
         /\ closing[c].month \in attempted

(***************************************************************************)
(* The commit point comes last: once a round is stored, every positive     *)
(* entitlement in it has its obligation, whichever attempts failed half    *)
(* way and however many closers raced.                                     *)
(***************************************************************************)
ObligationsBackRound ==
  \A m \in DOMAIN rounds : \A acct \in Payees(rounds[m]) :
    Has(obligations, ObligationID(m, acct))

(***************************************************************************)
(* "A closed round is never modified": a second CloseRound that computed   *)
(* another round from later inputs does not replace the first.             *)
(***************************************************************************)
RoundsImmutable ==
  \A m \in DOMAIN rounds : Has(rounds', m) /\ rounds'[m] = rounds[m]

(***************************************************************************)
(* A retried or racing close never rewinds or re-prices an obligation that *)
(* payment has already moved on.                                           *)
(***************************************************************************)
ObligationsOnlyAdvance ==
  \A id \in DOMAIN obligations :
    /\ Has(obligations', id)
    /\ obligations'[id].amount = obligations[id].amount
    /\ obligations'[id].due = obligations[id].due
    /\ \/ obligations'[id].state = obligations[id].state
       \/ <<obligations[id].state, obligations'[id].state>>
            \in LegalTransitions

\* Nothing that was stored is taken back or rewritten.
LedgerAppendOnly ==
  [][RoundsImmutable /\ ObligationsOnlyAdvance]_<<rounds, obligations>>

(***************************************************************************)
(* A balance carried into a round is the one the preceding closed round    *)
(* left unallocated: no close invents a carryforward.                      *)
(***************************************************************************)
CarryIsPredecessors ==
  \A m \in DOMAIN rounds :
    rounds[m].carry # 0 => /\ Has(rounds, m - 1)
                           /\ rounds[m].carry = rounds[m - 1].unallocated

Taken(m) == Has(rounds, m + 1) /\ rounds[m + 1].carry = rounds[m].unallocated

\* Round m is stored, and the next one takes its balance over: the one that
\* is stored does, and so does any that is about to be.
HandedOn(m) ==
  /\ Has(rounds, m)
  /\ Has(rounds, m + 1) => Taken(m)
  /\ \A c \in Closers :
       /\ closing[c].pc \in {"gap", "store"}
       /\ closing[c].month = m + 1
       => closing[c].pc = "store" /\ closing[c].round.carry = rounds[m].unallocated

(***************************************************************************)
(* "The unallocated balance of the round preceding m" is carried whole,    *)
(* and nothing else is: a close invents no balance, and the balance of a   *)
(* round that was stored before anybody began to close the next month is   *)
(* taken over by the next round, whichever of its closers stores it and    *)
(* after however many failures.  (What is stored later may be overlooked:  *)
(* the next month's close has read that there is no predecessor.)          *)
(***************************************************************************)
BalancesAreCarried ==
  /\ [](/\ CarryIsPredecessors
        /\ \A m \in DOMAIN rounds : m + 1 \notin attempted => HandedOn(m))
  /\ [][\A m \in Months : HandedOn(m) => HandedOn(m)']_<<rounds, closing>>

(***************************************************************************)
(* The inductive strengthening the proofs use: a CloseRound that stores    *)
(* its results has an obligation for every payee it is done with, and the  *)
(* carryforward it read still is its predecessor's balance.                *)
(***************************************************************************)
CloserInv(c) ==
  closing[c].pc = "store" =>
    /\ closing[c].round.month = closing[c].month
    /\ closing[c].pending \subseteq Payees(closing[c].round)
    /\ \A acct \in Payees(closing[c].round) \ closing[c].pending :
         Has(obligations, ObligationID(closing[c].month, acct))
    /\ closing[c].round.carry # 0 =>
         /\ Has(rounds, closing[c].month - 1)
         /\ closing[c].round.carry = rounds[closing[c].month - 1].unallocated

IInv == /\ TypeOK
        /\ ObligationsBackRound
        /\ CarryIsPredecessors
        /\ \A c \in Closers : CloserInv(c)

(***************************************************************************)
(* "The allocated total always equals poolCents exactly": a round hands    *)
(* out its whole pool as soon as somebody has credits, and nothing of a    *)
(* pool that refunds made negative.                                        *)
(***************************************************************************)
PoolsAreSpent ==
  \A m \in DOMAIN rounds :
    AllocatedCents(rounds[m].ents) =
      IF DOMAIN rounds[m].ents = {} \/ rounds[m].pool < 0 THEN 0 ELSE rounds[m].pool

(***************************************************************************)
(* No cent is handed out twice or made up: what the receipts contributed   *)
(* to the closed rounds, in whatever order they were closed, is what they  *)
(* allocated and the balances no next round has taken over.  Those are the *)
(* balances that wait for the next month, and the ones of rounds stored    *)
(* after the next month's close had looked for them, which no round will   *)
(* ever take over; BalancesAreCarried says which are not of this kind.     *)
(***************************************************************************)
NoCentTwice ==
  LET Over(f) == Total(f, DOMAIN rounds)
  IN  Over([m \in DOMAIN rounds |-> rounds[m].pool - rounds[m].carry])
        = Over([m \in DOMAIN rounds |-> AllocatedCents(rounds[m].ents)])
          + Over([m \in DOMAIN rounds |-> IF Taken(m) THEN 0 ELSE rounds[m].unallocated])

(***************************************************************************)
(* "Any closed round can be recomputed and verified independently": with   *)
(* the stored program of its policy version, VerifyRound accepts it.       *)
(***************************************************************************)
RoundsReproducible ==
  \A m \in DOMAIN rounds :
    /\ Has(programs, rounds[m].version)
    /\ VerifyRound(programs[rounds[m].version], rounds[m])

\* The published rounds can be checked one by one, and together they hand out
\* no cent more than came in.
RoundsAddUp == RoundsReproducible /\ PoolsAreSpent /\ NoCentTwice

(***************************************************************************)
(* CloseRound's comment on CreateObligation: an obligation left over from  *)
(* a failed attempt "is identical to the one just computed".               *)
(***************************************************************************)
LeftoverIsIdentical ==
  \A c \in Closers :
    closing[c].pc = "store" =>
      \A acct \in closing[c].pending :
        LET id == ObligationID(closing[c].month, acct)
        IN  Has(obligations, id) =>
              obligations[id].amount = closing[c].round.ents[acct].amount

(***************************************************************************)
(* Within the discipline the step-by-step close implements the atomic one  *)
(* of RoundBook, with obligations of months not yet closed out of sight.   *)
(***************************************************************************)
Book == INSTANCE RoundBook WITH
  PaymentSteps <- LegalTransitions,
  book <- rounds,
  payable <- [id \in {i \in DOMAIN obligations : Has(rounds, i[1])} |->
                [amount |-> obligations[id].amount,
                 state |-> obligations[id].state]]

ImplementsRoundBook == Book!Spec

(***************************************************************************)
(* "A failure here leaves the close safely retryable": a month whose       *)
(* closing was started is closed in the end.                               *)
(***************************************************************************)
StartedCloseCompletes ==
  \A m \in Months : (m \in attempted) ~> Has(rounds, m)
=============================================================================
