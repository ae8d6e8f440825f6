----------------------------- MODULE MCRecords ------------------------------
(***************************************************************************)
(* The records that operators keep, one scene at a time: awards under a    *)
(* changing policy, the inputs of the allocation engine, and issue reports *)
(* with the bot that watches them.  The variables of the other scenes      *)
(* rest.                                                                   *)
(***************************************************************************)
EXTENDS MCAwardReview, MCEngine, IssueBot, TLC

VARIABLE scene

\* Issues: either two processes and no bot, or one process watched by the bot.
VARIABLE working    \* the processes that run

issueVars == <<trackerVars, botVars, working>>

Pkg(name, upper, dash) == [name |-> name, upper |-> upper, dash |-> dash]
Blue == Pkg("blue", FALSE, FALSE)
TwoCases == {Blue, Pkg("blue", TRUE, FALSE)}
OneClosed == [id \in {MakeID(Blue, 1)} |->
                [pkg |-> Blue, subject |-> "a", label |-> None, kind |-> None, closed |-> TRUE,
                 closedAt |-> Now, seq |-> 1, uid |-> 0]]
SomeFiles == {[pkg |-> Blue, subject |-> "a"]}
Change(put, drop) == [put |-> put, drop |-> drop]
SomeEdits ==
  {Change([pkg |-> Pkg("my", FALSE, TRUE), subject |-> "a", closed |-> TRUE], {}),
   Change([subject |-> None, label |-> "x"], {}), Change([label |-> "x"], {}),
   Change([kind |-> "bug"], {}),
   Change([subject |-> "b"], {"label", "closed"})}
Symmetry == Permutations(Clerks)

IssuesInit ==
  /\ TrackerInit
  /\ BotInit
  /\ working \in {{c} : c \in Clerks} \cup {Clerks}

IssuesNext ==
  \/ /\ \E c \in working : Step(c)
     /\ UNCHANGED <<botVars, working>>
  \/ /\ working # Clerks
     /\ BotNext
     /\ UNCHANGED <<trackerVars, working>>

-----------------------------------------------------------------------------
vars == <<reviewVars, engineVars, issueVars, scene>>

Init ==
  /\ scene \in {"awards", "engine", "issues"}
  /\ ReviewInit
  /\ IF scene = "engine" THEN EngineInit
     ELSE takings = 0 /\ brought = 0 /\ weights = EmptyCollection
  /\ IssuesInit /\ (scene # "issues" => working = Clerks)

Next ==
  /\ UNCHANGED scene
  /\ \/ scene = "awards" /\ ReviewNext /\ UNCHANGED <<engineVars, issueVars>>
     \/ scene = "engine" /\ EngineNext /\ UNCHANGED <<reviewVars, issueVars>>
     \/ scene = "issues" /\ IssuesNext /\ UNCHANGED <<reviewVars, engineVars>>

Spec == Init /\ [][Next]_vars
=============================================================================
