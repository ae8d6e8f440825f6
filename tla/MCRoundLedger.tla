--------------------------- MODULE MCRoundLedger ----------------------------
(***************************************************************************)
(* Two months, two contributors.  One award is approved from the start,    *)
(* the second is only proposed and may be decided while a month is being   *)
(* closed; a receipt per month, and a third one for the first month that   *)
(* may come late.                                                          *)
(***************************************************************************)
EXTENDS RoundLedger, TLC

Policy(version, from, bps, duration) ==
  [version |-> version, currency |-> "usd", poolBps |-> bps,
   duration |-> duration, dueDays |-> 30, calculation |-> 1,
   effectiveFrom |-> from]

Grant(id, splits, from, status) ==
  [id |-> id, splits |-> splits, activation |-> from, expiration |-> from + 2,
   version |-> "v1", status |-> status]

Receipt(source, m, net) ==
  [source |-> source, month |-> m, net |-> net, currency |-> "usd"]

NoDocuments == EmptyCollection
NoInput == {}
OnePolicy == [v \in {"v1"} |-> Policy("v1", 1, 5000, 2)]
TwoAwards == [i \in {"a1", "a2"} |->
                IF i = "a1" THEN Grant("a1", 1 :> 1, 2, "approved")
                ELSE Grant("a2", (1 :> 1) @@ (2 :> 2), 1, "proposed")]
OneAward == [i \in {"a1"} |-> Grant("a1", (1 :> 1) @@ (2 :> 2), 2, "approved")]
Symmetry == Permutations(Closers)
NewPolicy == {Policy("v2", 2, 10000, 1)}
Enrolled == {[account |-> 1, handle |-> "ann"]}
Proposals == {[splits |-> [ann |-> 1], activation |-> 2]}
TwoBills == {Receipt("s1", 1, 4), Receipt("s2", 2, 3)}
Bills == {Receipt("s1", 1, 4), Receipt("s2", 2, 3), Receipt("s3", 1, 2)}
=============================================================================
