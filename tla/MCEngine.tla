------------------------------ MODULE MCEngine ------------------------------
(***************************************************************************)
(* Bounded inputs for the allocation engine.  A state is one input of      *)
(* ComputeRound; a step changes one input.                                 *)
(***************************************************************************)
EXTENDS AllocationEngine

CONSTANTS Accounts,    \* the accounts, a set of integers
          MaxCredits,  \* most credits of one account
          NetRange,    \* the net receipts tried (negative: refunds)
          CarryRange,  \* the carryforwards tried (negative: a debt)
          PoolBps      \* the program's pool share

ASSUME EngineAssumption ==
  /\ IsFiniteSet(Accounts) /\ Accounts \subseteq Int /\ MaxCredits \in Nat
  /\ NetRange \subseteq Int /\ CarryRange \subseteq Int
  /\ PoolBps \in 1..BpsScale

VARIABLES takings,  \* the net receipts of the month
          brought,  \* the balance carried forward
          weights   \* the credits of the accounts
engineVars == <<takings, brought, weights>>

NetRange_cfg == {-3, 0, 2, 3, 5, 7, 9}
CarryRange_cfg == {-2, 0, 2, 3}

Policy1 == [version |-> "v1", currency |-> "usd", poolBps |-> PoolBps,
            duration |-> 1, dueDays |-> 30, calculation |-> 1,
            effectiveFrom |-> 1]

\* One receipt and one award per account: all ComputeRound looks at.
TheReceipts == {[month |-> 1, currency |-> "usd", net |-> takings]}
AwardTo(acct) == [id |-> acct, splits |-> [a \in {acct} |-> weights[a]],
                  activation |-> 1, expiration |-> 2, status |-> "approved"]
Credited == {acct \in DOMAIN weights : weights[acct] > 0}
TheAwards == {AwardTo(acct) : acct \in Credited}

TheRound == ComputeRound(Policy1, 1, TheReceipts, TheAwards, brought)
Amount(acct) == IF acct \in DOMAIN TheRound.ents
                THEN TheRound.ents[acct].amount ELSE 0

-----------------------------------------------------------------------------
EngineInit ==
  /\ takings \in NetRange
  /\ brought \in CarryRange
  /\ weights \in [Accounts -> 0..MaxCredits]

ChangeReceipts == /\ takings' \in NetRange
                  /\ UNCHANGED <<brought, weights>>
ChangeCarry == /\ brought' \in CarryRange
               /\ UNCHANGED <<takings, weights>>
ChangeCredits(acct) == /\ \E c \in 0..MaxCredits :
                            weights' = [weights EXCEPT ![acct] = c]
                       /\ UNCHANGED <<takings, brought>>

EngineNext ==
  ChangeReceipts \/ ChangeCarry \/ \E acct \in Accounts : ChangeCredits(acct)

EngineSpec == EngineInit /\ [][EngineNext]_engineVars

-----------------------------------------------------------------------------
Square(n) == n * n

\* How far the amounts are from the exact shares, scaled by the total.
Distance(amounts, pool, credits) ==
  LET total == Total(credits, DOMAIN amounts)
  IN  Total([a \in DOMAIN amounts |-> Square(amounts[a] * total - pool * credits[a])],
            DOMAIN amounts)

\* Earlier accounts get more in f than in g.
LexGreater(f, g) ==
  \E a \in DOMAIN f : /\ f[a] > g[a]
                      /\ \A b \in DOMAIN f : b < a => f[b] = g[b]

\* Of all the ways to hand out the pool the given one is the nearest to the
\* exact shares, and of equally near ones the first.
Nearest(given, pool, credits) ==
  \A f \in [DOMAIN given -> 0..pool] :
    (Total(f, DOMAIN f) = pool /\ f # given) =>
      \/ Distance(given, pool, credits) < Distance(f, pool, credits)
      \/ /\ Distance(given, pool, credits) = Distance(f, pool, credits)
         /\ LexGreater(given, f)

(***************************************************************************)
(* Allocate against a reference definition: of all the ways to hand out    *)
(* exactly the pool in whole cents, it picks the one nearest to the exact  *)
(* proportional shares, and among equally near ones the one that favours   *)
(* the accounts that sort first ("the allocated total always equals        *)
(* poolCents exactly", ties broken "by account order for determinism").    *)
(***************************************************************************)
AllocationIsNearest ==
  LET pool  == TheRound.pool
      given == [a \in Credited |-> Amount(a)]
  IN  (Credited # {} /\ pool >= 0) =>
        Total(given, Credited) = pool /\ Nearest(given, pool, weights)

(***************************************************************************)
(* More credits never pay less: raising the credits of one account, all    *)
(* else equal, does not lower that account's entitlement.  The largest-    *)
(* remainder method is known for paradoxes of this kind; this one it has   *)
(* not.                                                                    *)
(***************************************************************************)
CreditsNeverHurt ==
  LET pool == IF TheRound.pool < 0 THEN 0 ELSE TheRound.pool
  IN  \A a \in DOMAIN weights : \A c \in 1..MaxCredits :
        c > weights[a] =>
          Allocate(pool, [weights EXCEPT ![a] = c])[a].amount >= Amount(a)

\* Cents go where the exact shares point, and more credits never cost any.
AllocationIsFair == AllocationIsNearest /\ CreditsNeverHurt

\* The rounds a dishonest or corrupted statement could show instead: a cent
\* moved between two accounts, an entitlement, the pool or the carried
\* balance off by one, an entitlement dropped, a wrong denominator.
Tampered(r) ==
  {[r EXCEPT !.ents[p[1]].amount = @ - 1, !.ents[p[2]].amount = @ + 1] :
     p \in {q \in (DOMAIN r.ents) \X (DOMAIN r.ents) : q[1] # q[2]}}
  \cup {[r EXCEPT !.ents[a].amount = @ + 1] : a \in DOMAIN r.ents}
  \cup {[r EXCEPT !.ents[a].credits = @ + 1] : a \in DOMAIN r.ents}
  \cup {[r EXCEPT !.ents = [b \in DOMAIN r.ents \ {a} |-> r.ents[b]]] :
          a \in DOMAIN r.ents}
  \cup {[r EXCEPT !.unallocated = @ + 1], [r EXCEPT !.pool = @ + 1],
        [r EXCEPT !.total = @ + 1]}

(***************************************************************************)
(* VerifyRound accepts exactly what ComputeRound publishes: the published  *)
(* round is reproducible and none of its tampered forms passes.            *)
(***************************************************************************)
PublicationIsTamperEvident ==
  /\ ~ComputeFails(Policy1, 1, TheReceipts, TheAwards)
  /\ VerifyRound(Policy1, TheRound)
  /\ \A t \in Tampered(TheRound) : ~VerifyRound(Policy1, t)
=============================================================================
