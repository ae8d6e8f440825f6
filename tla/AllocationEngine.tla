-------------------------- MODULE AllocationEngine --------------------------
(***************************************************************************)
(* The pure allocation engine of the contributor program                   *)
(* (contributor/engine.go, verify.go and the domain types it computes on). *)
(*                                                                         *)
(* Months are integers (month.go keeps "YYYY-MM" strings whose order is    *)
(* chronological): month 1 is a January, m.Next() is m + 1 and m.Before(o) *)
(* is m < o.  Accounts are integers too: their order stands for the string *)
(* order that Allocate sorts and breaks ties by.  Amounts are whole cents; *)
(* the engine multiplies with math/big, so products do not overflow.       *)
(***************************************************************************)
EXTENDS Integers, FiniteSets, FiniteSetsExt

\* The sum of f[x] over the set S: every "total +=" loop of the package.
Total(f, S) == MapThenSumSet(LAMBDA x : f[x], S)

\* Quo of math/big: integer division that truncates toward zero.
Quo(n, d) == IF n >= 0 THEN n \div d ELSE -((-n) \div d)

BpsScale == 10000

\* Program.Validate (the version, currency and month syntax are typed away).
ValidProgram(p) ==
  /\ p.poolBps > 0
  /\ p.poolBps <= BpsScale
  /\ p.duration > 0
  /\ p.dueDays > 0

\* The engine version that SetProgram pins and ComputeRound insists on.
CalculationVersion == 1

ExpirationMonth(p, activation) == activation + p.duration

(***************************************************************************)
(* Awards.  splits is a function from recipient accounts to credits: what  *)
(* Award.Validate requires of the split list (no duplicate recipient).     *)
(***************************************************************************)
ValidAward(a) ==
  /\ DOMAIN a.splits # {}
  /\ \A acct \in DOMAIN a.splits : a.splits[acct] > 0
  /\ a.activation < a.expiration
  /\ a.status \in {"proposed", "approved", "rejected"}

ActiveIn(a, m) == a.activation <= m /\ m < a.expiration

\* The approved awards that weigh in month m.
ActiveAwards(awards, m) ==
  {a \in awards : a.status = "approved" /\ ActiveIn(a, m)}

\* An approved award that does not validate makes ActiveCredits fail.
CreditsFail(awards) ==
  \E a \in awards : a.status = "approved" /\ ~ValidAward(a)

\* The credits of every account that one of the awards names.
CreditsOf(active) ==
  [acct \in UNION {DOMAIN a.splits : a \in active} |->
     LET holding == {a \in active : acct \in DOMAIN a.splits}
     IN  Total([a \in holding |-> a.splits[acct]], holding)]

ActiveCredits(awards, m) == CreditsOf(ActiveAwards(awards, m))

-----------------------------------------------------------------------------
PoolShareCents(poolBps, net) == Quo(net * poolBps, BpsScale)

\* Mutant: leftover cents in account order, whatever the remainders.
RankByAccount(acct, rem) == Cardinality({b \in DOMAIN rem : b < acct})

\* Mutant: the remainders sorted in increasing order.
RankAscending(acct, rem) ==
  Cardinality({b \in DOMAIN rem : \/ rem[b] < rem[acct]
                                  \/ rem[b] = rem[acct] /\ b < acct})

\* How many accounts come before acct when the remainders are sorted in
\* decreasing order, stably over the accounts in increasing order.
Rank(acct, rem) ==
  Cardinality({b \in DOMAIN rem : \/ rem[b] > rem[acct]
                                  \/ rem[b] = rem[acct] /\ b < acct})

(***************************************************************************)
(* Largest remainder: everybody gets the floor of its quota and the cents  *)
(* that are left go one each to the largest remainders.  The result maps   *)
(* the accounts with credits to their entitlements; ComputeRound and       *)
(* VerifyRound clamp the pool and reject negative credits before the call, *)
(* so the error returns of Allocate are AllocateFails.                     *)
(***************************************************************************)
AllocateFails(pool, credits) ==
  \/ pool < 0
  \/ \E acct \in DOMAIN credits : credits[acct] < 0

Allocate(pool, credits) ==
  LET accounts  == {acct \in DOMAIN credits : credits[acct] # 0}
      total     == Total(credits, accounts)
      quota     == [acct \in accounts |-> (pool * credits[acct]) \div total]
      remainder == [acct \in accounts |-> (pool * credits[acct]) % total]
      leftover  == pool - Total(quota, accounts)
  IN  [acct \in accounts |->
         [credits |-> credits[acct],
          amount  |-> quota[acct] +
                        IF Rank(acct, remainder) < leftover THEN 1 ELSE 0]]

AllocatedCents(ents) ==
  Total([acct \in DOMAIN ents |-> ents[acct].amount], DOMAIN ents)

\* The first month after the quarter of m, and the days added to it.
DueDate(p, m) == <<3 * ((m - 1) \div 3) + 4, p.dueDays>>

-----------------------------------------------------------------------------
(***************************************************************************)
(* ComputeRound.  ComputeFails collects the error returns in the order     *)
(* the code can meet them; ComputeRound is the round it returns otherwise. *)
(***************************************************************************)
ComputeFails(p, m, receipts, awards) ==
  \/ ~ValidProgram(p)
  \/ p.calculation # CalculationVersion
  \/ m < p.effectiveFrom
  \/ \E r \in receipts : r.month # m \/ r.currency # p.currency
  \/ CreditsFail(awards)

NetReceipts(receipts) == Total([r \in receipts |-> r.net], receipts)

ComputeRound(p, m, receipts, awards, carryforward) ==
  LET credits == ActiveCredits(awards, m)
      net     == NetReceipts(receipts)
      pool    == carryforward + PoolShareCents(p.poolBps, net)
      ents    == Allocate(IF pool < 0 THEN 0 ELSE pool, credits)
  IN  [month       |-> m,
       version     |-> p.version,
       calculation |-> CalculationVersion,
       currency    |-> p.currency,
       net         |-> net,
       carry       |-> carryforward,
       pool        |-> pool,
       total       |-> Total(credits, DOMAIN credits),
       ents        |-> ents,
       unallocated |-> pool - AllocatedCents(ents)]

\* Mutant: zero amounts become obligations too.
PayeesAll(round) == DOMAIN round.ents

\* The accounts a round owes money to: one obligation each.
Payees(round) == {acct \in DOMAIN round.ents : round.ents[acct].amount > 0}

\* The obligation ComputeRound returns for a payee, as CloseRound stores it.
NewObligation(p, round, acct) ==
  [amount |-> round.ents[acct].amount,
   due    |-> DueDate(p, round.month),
   state  |-> "earned"]

\* Mutant: only the totals are compared, not each entitlement.
VerifyRoundTotals(p, r) ==
  LET pool == r.carry + PoolShareCents(p.poolBps, r.net)
  IN  /\ r.version = p.version
      /\ pool = r.pool
      /\ pool - AllocatedCents(r.ents) = r.unallocated

(***************************************************************************)
(* VerifyRound: recompute a published round from its own frozen inputs.    *)
(***************************************************************************)
VerifyRound(p, r) ==
  LET pool    == r.carry + PoolShareCents(p.poolBps, r.net)
      credits == [acct \in DOMAIN r.ents |-> r.ents[acct].credits]
      clamped == IF pool < 0 THEN 0 ELSE pool
  IN  /\ ValidProgram(p)
      /\ r.version = p.version
      /\ r.calculation = CalculationVersion
      /\ r.currency = p.currency
      /\ pool = r.pool
      /\ Total(credits, DOMAIN credits) = r.total
      /\ ~AllocateFails(clamped, credits)
      /\ Allocate(clamped, credits) = r.ents
      /\ pool - AllocatedCents(r.ents) = r.unallocated
=============================================================================
