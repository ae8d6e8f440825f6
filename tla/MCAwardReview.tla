--------------------------- MODULE MCAwardReview ----------------------------
(***************************************************************************)
(* Two operators' commands on two awards, with a policy change between     *)
(* them and a participant who takes over another one's handle.             *)
(***************************************************************************)
EXTENDS AwardReview

Policy(version, from, duration) ==
  [version |-> version, currency |-> "usd", poolBps |-> 5000,
   duration |-> duration, dueDays |-> 30, calculation |-> 0,
   effectiveFrom |-> from]

ProgramDocs_cfg == {Policy("v1", 1, 2), Policy("v2", 2, 1)}
Participants_cfg == {[account |-> 1, handle |-> "ann"],
                     [account |-> 2, handle |-> "bob"],
                     [account |-> 2, handle |-> "ann"]}
Requests_cfg == {[splits |-> [ann |-> 1], activation |-> 1],
                 [splits |-> [ann |-> 1, bob |-> 2], activation |-> 2]}
NoDocuments == EmptyCollection

=============================================================================
