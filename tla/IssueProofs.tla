---------------------------- MODULE IssueProofs -----------------------------
(***************************************************************************)
(* Proofs about IssueTracker and IssueBot, for any number of processes,    *)
(* packages, reports and edits.                                            *)
(***************************************************************************)
EXTENDS IssueBot, FiniteSetTheorems, TLAPS

-----------------------------------------------------------------------------
(***************************************************************************)
(* Operators.                                                              *)
(***************************************************************************)
LEMMA Merged ==
  ASSUME NEW f, NEW g
  PROVE  /\ DOMAIN Merge(f, g) = DOMAIN f \cup DOMAIN g
         /\ \A x \in DOMAIN f : Merge(f, g)[x] = f[x]
         /\ \A x \in DOMAIN g \ DOMAIN f : Merge(f, g)[x] = g[x]
  BY DEF Merge

LEMMA Restricted ==
  ASSUME NEW f, NEW S
  PROVE  /\ DOMAIN Restrict(f, S) = S
         /\ \A x \in S : Restrict(f, S)[x] = f[x]
  BY DEF Restrict

\* A finite set of integers has a largest member: a smallest subset without
\* one would get one from the member it has more than a subset with one.
LEMMA LargestExists ==
  ASSUME NEW S \in SUBSET Int, IsFiniteSet(S), S # {}
  PROVE  \E m \in S : \A x \in S : x <= m
  <1> DEFINE Bad == {U \in SUBSET S : U # {} /\ ~\E m \in U : \A x \in U : x <= m}
  <1> SUFFICES ASSUME Bad # {} PROVE FALSE
    OBVIOUS
  <1>1. Bad \subseteq FiniteSubsetsOf(S)
    <2>1. \A U \in SUBSET S : IsFiniteSet(U)
      BY FS_Subset
    <2> QED BY <2>1 DEF FiniteSubsetsOf
  <1>2. PICK U \in Bad : \A V \in Bad : ~(<<V, U>> \in StrictSubsetOrdering(S))
    BY <1>1, FS_StrictSubsetOrderingWellFounded, WFMin
  <1>3. PICK x \in U : TRUE
    OBVIOUS
  <1> DEFINE V == U \ {x}
  <1>4. V \notin Bad
    <2> SUFFICES ASSUME V \in Bad PROVE FALSE
      OBVIOUS
    <2>1. <<V, U>> \in StrictSubsetOrdering(S)
      BY <1>1 DEF StrictSubsetOrdering
    <2> QED BY <1>2, <2>1
  <1>5. CASE V = {}
    <2>1. \A y \in U : y <= x
      BY <1>5
    <2> QED BY <2>1
  <1>6. CASE V # {}
    <2>1. PICK m \in V : \A y \in V : y <= m
      BY <1>4, <1>6
    <2>2. m \in Int /\ x \in Int
      OBVIOUS
    <2>3. CASE m <= x
      <3>1. \A y \in U : y <= x
        BY <2>1, <2>2, <2>3
      <3> QED BY <3>1
    <2>4. CASE ~(m <= x)
      <3>1. \A y \in U : y <= m
        BY <2>1, <2>2, <2>4
      <3> QED BY <3>1
    <2> QED BY <2>3, <2>4
  <1> QED BY <1>5, <1>6

LEMMA MaxIsMember ==
  ASSUME NEW S \in SUBSET Int, IsFiniteSet(S), S # {}
  PROVE  Max(S) \in S
  <1>1. \E m \in S : \A x \in S : m >= x
    BY LargestExists
  <1> QED BY <1>1 DEF Max

LEMMA FieldNames == UserFields = UserFieldNames
  BY DEF UserFields, UserFieldNames, Blank

-----------------------------------------------------------------------------
(***************************************************************************)
(* The inductive invariant of the tracker.  A stored report has its fields *)
(* and is under its own ID.                                                *)
(***************************************************************************)
FormInv(ret) == UserFieldNames \subseteq DOMAIN ret /\ ret.closed \in BOOLEAN

ReportInv(id, r) ==
  /\ FormInv(r)
  /\ {"closedAt", "seq", "uid"} \subseteq DOMAIN r
  /\ r.seq \in Int
  /\ MakeID(r.pkg, r.seq) = id

ReportsInv ==
  /\ IsFiniteSet(DOMAIN docs)
  /\ \A id \in DOMAIN docs : ReportInv(id, docs[id])

\* An edit keeps the ID of the report it read, and the closed mark of that
\* report stays in the file until the user removes it.
MarkKept(j, ret) ==
  (j.read.closed = TRUE /\ "closed" \notin j.cleared) =>
    ("closed" \in DOMAIN ret /\ ret.closed = TRUE)

DraftInv(j) ==
  /\ DOMAIN j = {"pc", "cmd", "id", "read", "ret", "file", "cleared", "round"}
  /\ FormInv(j.ret)
  /\ ClosedIsFlag(j.file)
  /\ j.cmd \in {"create", "edit"}
  /\ j.cmd = "edit" => /\ MakeID(j.read.pkg, j.id.seq) = j.id
                      /\ j.id.seq \in Int
                      /\ MarkKept(j, j.file)

\* What a process has at each point of a command, given the numbers it keeps.
JobInv(j, numbers) ==
  /\ j.pc \in {"idle", "editor", "create", "edit", "try", "delete"}
  /\ j.pc = "editor" => DraftInv(j)
  /\ j.pc = "create" => FormInv(j.ret)
  /\ j.pc = "edit" => DraftInv(j) /\ j.cmd = "edit" /\ MarkKept(j, j.ret)
  /\ j.pc = "try" => /\ DOMAIN j = {"pc", "ret", "tries"}
                     /\ FormInv(j.ret)
                     /\ j.tries \in Nat
                     /\ j.ret.pkg \in DOMAIN numbers

\* The report an edit has read is still stored, or is gone.
EditStands(c) ==
  (job[c].pc \in {"editor", "edit"} /\ job[c].cmd = "edit") =>
    \/ job[c].read.uid \in gone
    \/ job[c].id \in DOMAIN docs /\ docs[job[c].id].uid = job[c].read.uid

\* The reports a process has passed with the numbers it tried.
Passed(pkg, n) == {id \in DOMAIN docs : id = MakeID(pkg, id.seq) /\ id.seq <= n}

TryMet(c) ==
  job[c].pc = "try" =>
    \/ gone # {}
    \/ job[c].tries <= Cardinality(Passed(job[c].ret.pkg, last[c][job[c].ret.pkg]))

ClerkInv(c) ==
  /\ last[c] \in [DOMAIN last[c] -> Int]
  /\ JobInv(job[c], last[c])
  /\ EditStands(c)
  /\ TryMet(c)

TrackerInv ==
  /\ DOMAIN job = Clerks /\ DOMAIN last = Clerks
  /\ ReportsInv
  /\ \A c \in Clerks : ClerkInv(c)

-----------------------------------------------------------------------------
(***************************************************************************)
(* What a step of one process does for the others: it leaves their work    *)
(* alone, and no report leaves the collection without a trace.             *)
(***************************************************************************)
OthersAlone(c) ==
  /\ DOMAIN job' = Clerks /\ DOMAIN last' = Clerks
  /\ \A d \in Clerks \ {c} : job'[d] = job[d] /\ last'[d] = last[d]

NothingLost ==
  /\ gone \subseteq gone'
  /\ \A id \in DOMAIN docs :
       \/ docs[id].uid \in gone'
       \/ id \in DOMAIN docs' /\ docs'[id].uid = docs[id].uid

StoreAlone == UNCHANGED <<docs, gone>>

LEMMA AloneLosesNothing == StoreAlone => NothingLost
  BY DEF StoreAlone, NothingLost

LEMMA FewPassed ==
  ASSUME ReportsInv, NEW pkg, NEW n \in Int
  PROVE  IsFiniteSet(Passed(pkg, n)) /\ Cardinality(Passed(pkg, n)) \in Nat
  <1>1. Passed(pkg, n) \subseteq DOMAIN docs
    BY DEF Passed
  <1> QED BY <1>1, FS_Subset, FS_CardinalityType DEF ReportsInv

LEMMA SequenceIsInt ==
  ASSUME ReportsInv, NEW id \in DOMAIN docs
  PROVE  id.seq \in Int
  BY DEF ReportsInv, ReportInv, MakeID

\* The others' invariant survives such a step.
LEMMA OthersStand ==
  ASSUME TrackerInv, ReportsInv', NEW c \in Clerks, OthersAlone(c), NothingLost,
         NEW d \in Clerks \ {c}
  PROVE  ClerkInv(d)'
  <1>1. job'[d] = job[d] /\ last'[d] = last[d] /\ ClerkInv(d)
    BY DEF OthersAlone, TrackerInv
  <1>2. EditStands(d)'
    BY <1>1 DEF ClerkInv, EditStands, NothingLost
  <1>3. TryMet(d)'
    <2> SUFFICES ASSUME job[d].pc = "try", gone' = {}
                 PROVE  job[d].tries <= Cardinality(Passed(job[d].ret.pkg, last[d][job[d].ret.pkg])')
      BY <1>1 DEF TryMet, Passed
    <2> DEFINE pkg == job[d].ret.pkg
               n   == last[d][pkg]
    <2>1. n \in Int /\ job[d].tries \in Nat
      BY <1>1 DEF ClerkInv, JobInv
    <2>2. gone = {} /\ DOMAIN docs \subseteq DOMAIN docs'
      BY DEF NothingLost
    <2>3. Passed(pkg, n) \subseteq Passed(pkg, n)'
      BY <1>1, <2>2 DEF Passed
    <2>4. IsFiniteSet(Passed(pkg, n)')
      <3>1. Passed(pkg, n)' \subseteq DOMAIN docs'
        BY <1>1 DEF Passed
      <3> QED BY <3>1, FS_Subset DEF ReportsInv
    <2>5. /\ Cardinality(Passed(pkg, n)) \in Nat
          /\ Cardinality(Passed(pkg, n)') \in Nat
          /\ Cardinality(Passed(pkg, n)) <= Cardinality(Passed(pkg, n)')
      BY <2>3, <2>4, FS_Subset, FS_CardinalityType
    <2>6. job[d].tries <= Cardinality(Passed(pkg, n))
      BY <1>1, <2>2 DEF ClerkInv, TryMet
    <2>7. job[d].tries <= Cardinality(Passed(pkg, n)')
      BY <2>1, <2>5, <2>6
    <2> QED BY <2>7
  <1> QED BY <1>1, <1>2, <1>3 DEF ClerkInv

LEMMA StepKeeps ==
  ASSUME TrackerInv, NEW c \in Clerks, OthersAlone(c), ReportsInv', NothingLost, ClerkInv(c)'
  PROVE  TrackerInv'
  <1>1. \A d \in Clerks \ {c} : ClerkInv(d)'
    BY OthersStand
  <1> QED BY <1>1 DEF TrackerInv, OthersAlone

-----------------------------------------------------------------------------
(***************************************************************************)
(* The actions that leave the store alone.                                 *)
(***************************************************************************)
LEMMA JobStep ==
  ASSUME TrackerInv, NEW c \in Clerks, StoreAlone, UNCHANGED last,
         NEW j, job' = [job EXCEPT ![c] = j],
         JobInv(j, last[c]), j.pc # "try",
         (j.pc \in {"editor", "edit"} /\ j.cmd = "edit") =>
            \/ j.read.uid \in gone
            \/ j.id \in DOMAIN docs /\ docs[j.id].uid = j.read.uid
  PROVE  TrackerInv'
  <1>1. job'[c] = j /\ last'[c] = last[c] /\ last[c] \in [DOMAIN last[c] -> Int]
    BY DEF TrackerInv, ClerkInv
  <1>2. OthersAlone(c)
    BY DEF TrackerInv, OthersAlone
  <1>3. ReportsInv'
    BY DEF TrackerInv, ReportsInv, ReportInv, StoreAlone
  <1>4. ClerkInv(c)'
    BY <1>1 DEF ClerkInv, EditStands, TryMet, StoreAlone
  <1> QED BY <1>2, <1>3, <1>4, AloneLosesNothing, StepKeeps

LEMMA IdleJob ==
  ASSUME NEW numbers
  PROVE  JobInv(NoJob, numbers) /\ NoJob.pc = "idle"
  BY DEF JobInv, NoJob

LEMMA FinishAlone ==
  ASSUME TrackerInv, NEW c \in Clerks, StoreAlone, UNCHANGED last, Finish(c)
  PROVE  TrackerInv'
  BY IdleJob, JobStep DEF Finish

LEMMA TrackerStutters ==
  ASSUME TrackerInv, UNCHANGED trackerVars
  PROVE  TrackerInv'
  <1>1. ReportsInv'
    BY DEF TrackerInv, ReportsInv, ReportInv, trackerVars
  <1>2. ASSUME NEW c \in Clerks PROVE ClerkInv(c)'
    BY DEF TrackerInv, ClerkInv, JobInv, EditStands, TryMet, Passed, trackerVars
  <1> QED BY <1>1, <1>2 DEF TrackerInv, trackerVars

\* As TrackerStutters, for commands that end at once.
LEMMA SameWork ==
  ASSUME TrackerInv, UNCHANGED <<docs, last, job, gone>>
  PROVE  TrackerInv'
  <1>1. ReportsInv'
    BY DEF TrackerInv, ReportsInv, ReportInv
  <1>2. ASSUME NEW c \in Clerks PROVE ClerkInv(c)'
    BY DEF TrackerInv, ClerkInv, JobInv, EditStands, TryMet, Passed
  <1> QED BY <1>1, <1>2 DEF TrackerInv

\* What Unmarshal and Marshal make of a form.
LEMMA UnmarshalledForm ==
  ASSUME NEW file, ClosedIsFlag(file), NEW ret, FormInv(ret)
  PROVE  FormInv(Unmarshal(file, ret))
  <1>1. "closed" \in DOMAIN ret
    BY DEF FormInv, UserFieldNames
  <1>2. /\ DOMAIN Unmarshal(file, ret) = DOMAIN file \cup DOMAIN ret
        /\ "closed" \in DOMAIN file => Unmarshal(file, ret)["closed"] = file["closed"]
        /\ "closed" \notin DOMAIN file => Unmarshal(file, ret)["closed"] = ret["closed"]
    BY <1>1, Merged DEF Unmarshal
  <1> QED BY <1>1, <1>2 DEF FormInv, ClosedIsFlag

LEMMA BlankForm == FormInv(Blank) /\ Blank.closed = FALSE
  BY DEF FormInv, Blank, UserFieldNames

LEMMA MarshalledForm ==
  ASSUME NEW r, FormInv(r)
  PROVE  /\ ClosedIsFlag(Marshal(r))
         /\ r.closed = TRUE => "closed" \in DOMAIN Marshal(r) /\ Marshal(r).closed = TRUE
  <1> DEFINE S == {f \in UserFields : f \notin {"label", "kind", "closed"} \/ r[f] # Blank[f]}
  <1>1. DOMAIN Marshal(r) = S /\ \A f \in S : Marshal(r)[f] = r[f]
    BY Restricted DEF Marshal
  <1>2. r.closed = TRUE => "closed" \in S
    BY FieldNames, BlankForm DEF UserFieldNames
  <1> QED BY <1>1, <1>2 DEF ClosedIsFlag, FormInv

\* A temporary file for a form, and for a report that is to be edited.
LEMMA TempIssueInv ==
  ASSUME NEW cmd \in {"create", "edit"}, NEW id, NEW read, FormInv(read), NEW numbers,
         cmd = "edit" => MakeID(read.pkg, id.seq) = id /\ id.seq \in Int
  PROVE  JobInv(TempIssue(cmd, id, read), numbers)
  <1> DEFINE j == TempIssue(cmd, id, read)
  <1>1. /\ j.pc = "editor" /\ j.cmd = cmd /\ j.id = id /\ j.read = read
        /\ j.ret = Blank /\ j.file = Marshal(read) /\ j.cleared = {}
        /\ DOMAIN j = {"pc", "cmd", "id", "read", "ret", "file", "cleared", "round"}
    BY DEF TempIssue
  <1>2. DraftInv(j)
    BY <1>1, BlankForm, MarshalledForm DEF DraftInv, MarkKept
  <1> QED BY <1>1, <1>2 DEF JobInv

LEMMA CreateCommandKeeps ==
  ASSUME TrackerInv, NEW c \in Clerks, CreateCommand(c)
  PROVE  TrackerInv'
  <1>1. PICK template \in {Blank} \cup {Unmarshal(file, Blank) : file \in Files} :
          job' = [job EXCEPT ![c] = TempIssue("create", None, template)]
    BY DEF CreateCommand
  <1>2. FormInv(template)
    BY <1>1, BlankForm, UnmarshalledForm, ReportsAssumption
  <1>3. JobInv(TempIssue("create", None, template), last[c])
    BY <1>2, TempIssueInv
  <1>4. /\ TempIssue("create", None, template).cmd = "create"
        /\ TempIssue("create", None, template).pc = "editor"
    BY DEF TempIssue
  <1>5. StoreAlone /\ UNCHANGED last
    BY DEF CreateCommand, StoreAlone
  <1> QED BY <1>1, <1>3, <1>4, <1>5, JobStep

LEMMA FormedJob ==
  ASSUME TrackerInv, NEW c \in Clerks, StoreAlone, UNCHANGED last, NEW ret, FormInv(ret),
         job' = [job EXCEPT ![c] = [pc |-> "create", ret |-> ret]]
  PROVE  TrackerInv'
  <1> DEFINE j == [pc |-> "create", ret |-> ret]
  <1>1. j.pc = "create" /\ JobInv(j, last[c])
    BY DEF JobInv
  <1> QED BY <1>1, JobStep

LEMMA CreateFromFileKeeps ==
  ASSUME TrackerInv, NEW c \in Clerks, CreateFromFile(c)
  PROVE  TrackerInv'
  <1>1. PICK file \in Files :
          \/ job' = [job EXCEPT ![c] = [pc |-> "create", ret |-> Unmarshal(file, Blank)]]
          \/ UNCHANGED job
    BY DEF CreateFromFile
  <1>2. StoreAlone /\ UNCHANGED last
    BY DEF CreateFromFile, StoreAlone
  <1>3. FormInv(Unmarshal(file, Blank))
    BY BlankForm, UnmarshalledForm, ReportsAssumption
  <1>4. CASE UNCHANGED job
    BY <1>2, <1>4, SameWork DEF StoreAlone
  <1> QED BY <1>1, <1>2, <1>3, <1>4, FormedJob

LEMMA CrashReportKeeps ==
  ASSUME TrackerInv, NEW c \in Clerks, CrashReport(c)
  PROVE  TrackerInv'
  <1>1. PICK pkg \in Packages :
          \/ job' = [job EXCEPT ![c] =
               [pc |-> "create", ret |-> [Blank EXCEPT !.pkg = pkg, !.subject = "panic"]]]
          \/ UNCHANGED job
    BY DEF CrashReport
  <1>2. StoreAlone /\ UNCHANGED last
    BY DEF CrashReport, StoreAlone
  <1>3. FormInv([Blank EXCEPT !.pkg = pkg, !.subject = "panic"])
    BY DEF FormInv, Blank, UserFieldNames
  <1>4. CASE UNCHANGED job
    BY <1>2, <1>4, SameWork DEF StoreAlone
  <1> QED BY <1>1, <1>2, <1>3, <1>4, FormedJob

LEMMA EditCommandKeeps ==
  ASSUME TrackerInv, NEW c \in Clerks, EditCommand(c)
  PROVE  TrackerInv'
  <1>1. PICK id \in DOMAIN docs : job' = [job EXCEPT ![c] = TempIssue("edit", id, docs[id])]
    BY DEF EditCommand
  <1>2. StoreAlone /\ UNCHANGED last
    BY DEF EditCommand, StoreAlone
  <1>3. FormInv(docs[id]) /\ MakeID(docs[id].pkg, docs[id].seq) = id /\ docs[id].seq \in Int
    BY DEF TrackerInv, ReportsInv, ReportInv
  <1>4. id.seq = docs[id].seq
    BY <1>3 DEF MakeID
  <1>5. JobInv(TempIssue("edit", id, docs[id]), last[c])
    BY <1>3, <1>4, TempIssueInv
  <1>6. LET j == TempIssue("edit", id, docs[id])
        IN  j.pc = "editor" /\ j.id = id /\ j.read = docs[id]
    BY DEF TempIssue
  <1> QED BY <1>1, <1>2, <1>5, <1>6, JobStep

LEMMA DeleteReportKeeps ==
  ASSUME TrackerInv, NEW c \in Clerks, DeleteReport(c)
  PROVE  TrackerInv'
  <1>1. PICK id \in DOMAIN docs : job' = [job EXCEPT ![c] = [pc |-> "delete", id |-> id]]
    BY DEF DeleteReport
  <1>2. StoreAlone /\ UNCHANGED last
    BY DEF DeleteReport, StoreAlone
  <1> DEFINE j == [pc |-> "delete", id |-> id]
  <1>3. j.pc = "delete" /\ JobInv(j, last[c])
    BY DEF JobInv
  <1> QED BY <1>1, <1>2, <1>3, JobStep

\* One round of the editor on a draft: the mark of a closed report goes only
\* when the change drops or blanks it.
SavedFile(j, e) == Merge(e.put, Restrict(j.file, DOMAIN j.file \ e.drop))

SavedRet(j, e) ==
  IF SavedFile(j, e) # Marshal(j.read) THEN Unmarshal(SavedFile(j, e), j.ret) ELSE j.ret

SavedJob(j, e) ==
  [j EXCEPT !.file = SavedFile(j, e), !.ret = SavedRet(j, e), !.round = @ + 1,
            !.cleared = @ \cup e.drop \cup Clears(e)]

LEMMA EditorRound ==
  ASSUME NEW j, DraftInv(j), NEW e \in Edits
  PROVE  /\ DraftInv(SavedJob(j, e)) /\ FormInv(SavedRet(j, e))
         /\ SavedJob(j, e).cmd = j.cmd /\ SavedJob(j, e).id = j.id
         /\ SavedJob(j, e).read = j.read /\ SavedJob(j, e).pc = j.pc
         /\ SavedJob(j, e).ret = SavedRet(j, e)
         /\ SavedFile(j, e) # Marshal(j.read) /\ j.cmd = "edit"
              => MarkKept(SavedJob(j, e), SavedRet(j, e))
  <1> DEFINE kept == Restrict(j.file, DOMAIN j.file \ e.drop)
             file == SavedFile(j, e)
             ret  == SavedRet(j, e)
             next == SavedJob(j, e)
  <1>1. /\ DOMAIN next = {"pc", "cmd", "id", "read", "ret", "file", "cleared", "round"}
        /\ next.cmd = j.cmd /\ next.id = j.id /\ next.read = j.read /\ next.pc = j.pc
        /\ next.file = file /\ next.ret = ret
        /\ next.cleared = j.cleared \cup e.drop \cup Clears(e)
    BY DEF DraftInv, SavedJob
  <1>2. ClosedIsFlag(e.put) /\ ClosedIsFlag(j.file)
    BY ReportsAssumption DEF DraftInv
  <1>3. /\ "closed" \in DOMAIN file <=>
             "closed" \in DOMAIN e.put \/ ("closed" \in DOMAIN j.file /\ "closed" \notin e.drop)
        /\ "closed" \in DOMAIN e.put => file.closed = e.put.closed
        /\ "closed" \in DOMAIN file /\ "closed" \notin DOMAIN e.put
             => file.closed = j.file.closed
    <2>1. /\ DOMAIN kept = DOMAIN j.file \ e.drop
          /\ \A x \in DOMAIN j.file \ e.drop : kept[x] = j.file[x]
      BY Restricted
    <2>2. /\ DOMAIN file = DOMAIN e.put \cup DOMAIN kept
          /\ \A x \in DOMAIN e.put : file[x] = e.put[x]
          /\ \A x \in DOMAIN kept \ DOMAIN e.put : file[x] = kept[x]
      BY DEF Merge, SavedFile
    <2> QED BY <2>1, <2>2
  <1>4. ClosedIsFlag(file)
    BY <1>2, <1>3 DEF ClosedIsFlag
  <1>5. FormInv(ret)
    BY <1>4, UnmarshalledForm DEF DraftInv, SavedRet
  <1>6. j.cmd = "edit" => MarkKept(next, file)
    <2> SUFFICES ASSUME j.cmd = "edit", j.read.closed = TRUE,
                        "closed" \notin j.cleared, "closed" \notin e.drop, "closed" \notin Clears(e)
                 PROVE  "closed" \in DOMAIN file /\ file.closed = TRUE
      BY <1>1 DEF MarkKept
    <2>1. "closed" \in DOMAIN j.file /\ j.file.closed = TRUE
      BY DEF DraftInv, MarkKept
    <2>2. "closed" \in DOMAIN e.put => e.put.closed = TRUE
      BY <1>2, BlankForm, FieldNames DEF Clears, ClosedIsFlag, UserFieldNames
    <2> QED BY <1>3, <2>1, <2>2
  <1>7. DraftInv(next)
    BY <1>1, <1>4, <1>5, <1>6 DEF DraftInv
  <1>8. ASSUME file # Marshal(j.read), j.cmd = "edit"
        PROVE  MarkKept(next, ret)
    <2>1. "closed" \in DOMAIN file => "closed" \in DOMAIN ret /\ ret["closed"] = file["closed"]
      BY <1>8 DEF Unmarshal, Merge, SavedRet
    <2> QED BY <1>6, <1>8, <2>1 DEF MarkKept
  <1> QED BY <1>1, <1>5, <1>7, <1>8

LEMMA EditorSavesKeeps ==
  ASSUME TrackerInv, NEW c \in Clerks, EditorSaves(c)
  PROVE  TrackerInv'
  <1> DEFINE j == job[c]
  <1>1. StoreAlone /\ UNCHANGED last /\ j.pc = "editor"
    BY DEF EditorSaves, StoreAlone
  <1>2. /\ DraftInv(j)
        /\ j.cmd = "edit" => \/ j.read.uid \in gone
                             \/ j.id \in DOMAIN docs /\ docs[j.id].uid = j.read.uid
    BY <1>1 DEF TrackerInv, ClerkInv, JobInv, EditStands
  <1> DEFINE Changed(e) == SavedFile(j, e) # Marshal(j.read)
  <1>3. PICK e \in Edits :
          IF Changed(e) /\ Valid(SavedRet(j, e))
          THEN job' = [job EXCEPT ![c] = [SavedJob(j, e) EXCEPT !.pc = j.cmd]]
          ELSE job' = [job EXCEPT ![c] = SavedJob(j, e)] \/ Finish(c)
    BY DEF EditorSaves, SavedJob, SavedRet, SavedFile
  <1> DEFINE next == SavedJob(j, e)
             ret  == SavedRet(j, e)
  <1>5. /\ DraftInv(next) /\ FormInv(ret)
        /\ next.cmd = j.cmd /\ next.id = j.id /\ next.read = j.read
        /\ next.pc = j.pc /\ next.ret = ret
        /\ Changed(e) /\ j.cmd = "edit" => MarkKept(next, ret)
    BY <1>2, EditorRound
  <1>6. CASE Finish(c)
    BY <1>1, <1>6, FinishAlone
  <1>7. CASE job' = [job EXCEPT ![c] = next]
    <2>1. JobInv(next, last[c])
      BY <1>1, <1>5 DEF JobInv
    <2> QED BY <1>1, <1>2, <1>5, <1>7, <2>1, JobStep
  <1>8. CASE Changed(e) /\ job' = [job EXCEPT ![c] = [next EXCEPT !.pc = j.cmd]]
    <2> DEFINE k == [next EXCEPT !.pc = j.cmd]
    <2>1. /\ k.pc = j.cmd /\ k.cmd = j.cmd /\ k.id = j.id /\ k.read = j.read
          /\ k.ret = ret /\ k.file = next.file /\ k.cleared = next.cleared
          /\ DOMAIN k = DOMAIN next
      BY <1>5 DEF DraftInv
    <2>2. DraftInv(k)
      BY <1>5, <2>1 DEF DraftInv, MarkKept
    <2>3. j.cmd = "edit" => MarkKept(k, k.ret)
      BY <1>5, <1>8, <2>1 DEF MarkKept
    <2>4. j.cmd \in {"create", "edit"} /\ FormInv(k.ret)
      BY <1>2, <1>5, <2>1 DEF DraftInv
    <2>5. JobInv(k, last[c])
      BY <2>1, <2>2, <2>3, <2>4 DEF JobInv
    <2> HIDE DEF k
    <2> QED BY <1>1, <1>2, <1>8, <2>1, <2>4, <2>5, JobStep DEF k
  <1> QED BY <1>3, <1>6, <1>7, <1>8

-----------------------------------------------------------------------------
(***************************************************************************)
(* Numbering.                                                              *)
(***************************************************************************)
LEMMA NumberIsInt ==
  ASSUME ReportsInv, NEW pkg
  PROVE  FetchLastIssueNumber(pkg) \in Int
  <1> DEFINE L == Listed(pkg, FALSE)
             S == {docs[id].seq : id \in L}
             f == [id \in L |-> docs[id].seq]
  <1>1. IsFiniteSet(L) /\ \A id \in L : docs[id].seq \in Int
    <2>1. L \subseteq DOMAIN docs
      BY DEF Listed
    <2> QED BY <2>1, FS_Subset DEF ReportsInv, ReportInv
  <1>2. f \in Surjection(L, S)
    BY DEF Surjection
  <1>3. IsFiniteSet(S)
    BY <1>1, <1>2, FS_Surjection
  <1>4. IsFiniteSet(S \cup {0})
    BY <1>3, FS_AddElement
  <1>5. S \cup {0} \in SUBSET Int /\ S \cup {0} # {}
    <2>1. S \subseteq Int
      BY <1>1
    <2> HIDE DEF S
    <2> QED BY <2>1
  <1>6. Max(S \cup {0}) \in S \cup {0}
    BY <1>4, <1>5, MaxIsMember
  <1>7. FetchLastIssueNumber(pkg) = Max(S \cup {0})
    BY DEF FetchLastIssueNumber
  <1> QED BY <1>5, <1>6, <1>7

LEMMA CreateReportKeeps ==
  ASSUME TrackerInv, NEW c \in Clerks, CreateReport(c)
  PROVE  TrackerInv'
  <1> DEFINE ret == job[c].ret
             pkg == ret.pkg
  <1>1. StoreAlone /\ job[c].pc = "create" /\ FormInv(ret)
    BY DEF CreateReport, StoreAlone, TrackerInv, ClerkInv, JobInv
  <1>2. /\ DOMAIN last' = Clerks
        /\ \A d \in Clerks \ {c} : last'[d] = last[d]
        /\ last'[c] \in [DOMAIN last'[c] -> Int]
        /\ pkg \in DOMAIN last'[c]
    <2>1. last[c] \in [DOMAIN last[c] -> Int] /\ DOMAIN last = Clerks
      BY DEF TrackerInv, ClerkInv
    <2>2. CASE pkg \in DOMAIN last[c]
      BY <2>1, <2>2 DEF CreateReport
    <2>3. CASE pkg \notin DOMAIN last[c]
      <3>1. FetchLastIssueNumber(pkg) \in Int
        BY NumberIsInt DEF TrackerInv
      <3>2. last' = [last EXCEPT ![c] = Put(last[c], pkg, FetchLastIssueNumber(pkg))]
        BY <2>3 DEF CreateReport
      <3> QED BY <2>1, <3>1, <3>2 DEF Put
    <2> QED BY <2>2, <2>3
  <1>3. /\ DOMAIN job' = Clerks
        /\ \A d \in Clerks \ {c} : job'[d] = job[d]
        /\ job'[c] = [pc |-> "try", ret |-> ret, tries |-> 0]
    BY DEF CreateReport, TrackerInv
  <1>4. OthersAlone(c)
    BY <1>2, <1>3 DEF OthersAlone
  <1>5. ReportsInv'
    BY <1>1 DEF TrackerInv, ReportsInv, ReportInv, StoreAlone
  <1>6. JobInv(job'[c], last'[c])
    BY <1>1, <1>2, <1>3 DEF JobInv
  <1>7. TryMet(c)'
    <2>1. last'[c][pkg] \in Int
      BY <1>2
    <2>2. Cardinality(Passed(pkg, last'[c][pkg])) \in Nat
      BY <2>1, FewPassed DEF TrackerInv
    <2>3. Passed(pkg, last'[c][pkg]) = {id \in DOMAIN docs' : id = MakeID(pkg, id.seq) /\ id.seq <= last'[c][pkg]}
      BY <1>1 DEF Passed, StoreAlone
    <2>4. 0 <= Cardinality({id \in DOMAIN docs' : id = MakeID(pkg, id.seq) /\ id.seq <= last'[c][pkg]})
      BY <2>2, <2>3
    <2> QED BY <1>3, <2>4 DEF TryMet, Passed
  <1>8. EditStands(c)'
    BY <1>3 DEF EditStands
  <1>9. ClerkInv(c)'
    BY <1>2, <1>6, <1>7, <1>8 DEF ClerkInv
  <1> QED BY <1>1, <1>4, <1>5, <1>9, AloneLosesNothing, StepKeeps

\* A process that stops working keeps whatever numbers it has.
LEMMA ClerkStops ==
  ASSUME NEW c \in Clerks, DOMAIN job = Clerks, Finish(c), last'[c] \in [DOMAIN last'[c] -> Int]
  PROVE  ClerkInv(c)' /\ DOMAIN job' = Clerks /\ \A d \in Clerks \ {c} : job'[d] = job[d]
  <1>1. /\ job'[c] = NoJob
        /\ DOMAIN job' = Clerks
        /\ \A d \in Clerks \ {c} : job'[d] = job[d]
    BY DEF Finish
  <1>2. JobInv(NoJob, last'[c]) /\ NoJob.pc = "idle"
    BY IdleJob
  <1> QED BY <1>1, <1>2 DEF ClerkInv, EditStands, TryMet

LEMMA TryFailsKeeps ==
  ASSUME TrackerInv, NEW c \in Clerks, TryFails(c)
  PROVE  TrackerInv'
  <1> DEFINE pkg == job[c].ret.pkg
  <1>1. StoreAlone /\ Finish(c) /\ last' = [last EXCEPT ![c][pkg] = @ + 1]
    BY DEF TryFails, StoreAlone
  <1>2. last[c] \in [DOMAIN last[c] -> Int] /\ pkg \in DOMAIN last[c]
    BY DEF TryFails, TrackerInv, ClerkInv, JobInv
  <1>3. /\ DOMAIN last' = Clerks
        /\ \A d \in Clerks \ {c} : last'[d] = last[d]
        /\ last'[c] \in [DOMAIN last'[c] -> Int]
    BY <1>1, <1>2 DEF TrackerInv
  <1>4. ClerkInv(c)' /\ OthersAlone(c)
    BY <1>1, <1>3, ClerkStops DEF TrackerInv, OthersAlone
  <1>5. ReportsInv'
    BY <1>1 DEF TrackerInv, ReportsInv, ReportInv, StoreAlone
  <1> QED BY <1>1, <1>4, <1>5, AloneLosesNothing, StepKeeps

LEMMA RestartKeeps ==
  ASSUME TrackerInv, NEW c \in Clerks, Restart(c)
  PROVE  TrackerInv'
  <1>1. StoreAlone /\ Finish(c) /\ last' = [last EXCEPT ![c] = EmptyCollection]
    BY DEF Restart, StoreAlone
  <1>2. /\ DOMAIN last' = Clerks
        /\ \A d \in Clerks \ {c} : last'[d] = last[d]
        /\ last'[c] \in [DOMAIN last'[c] -> Int]
    BY <1>1 DEF TrackerInv, EmptyCollection
  <1>3. ClerkInv(c)' /\ OthersAlone(c)
    BY <1>1, <1>2, ClerkStops DEF TrackerInv, OthersAlone
  <1>4. ReportsInv'
    BY <1>1 DEF TrackerInv, ReportsInv, ReportInv, StoreAlone
  <1> QED BY <1>1, <1>3, <1>4, AloneLosesNothing, StepKeeps

\* A report that is stored new.
LEMMA StoredReport ==
  ASSUME NEW ret, FormInv(ret), NEW n \in Int
  PROVE  LET id == MakeID(ret.pkg, n) IN ReportInv(id, Stored(ret, id))
  <1> DEFINE id   == MakeID(ret.pkg, n)
             meta == [uid |-> created + 1, seq |-> id.seq, closedAt |-> Zero]
             r    == Stored(ret, id)
  <1>1. id.seq = n
    BY DEF MakeID
  <1>2. DOMAIN meta = {"uid", "seq", "closedAt"} /\ meta.seq = n
    BY <1>1
  <1>3. /\ DOMAIN r = DOMAIN meta \cup DOMAIN ret
        /\ \A x \in DOMAIN meta : r[x] = meta[x]
        /\ \A x \in DOMAIN ret \ DOMAIN meta : r[x] = ret[x]
    <2>1. r = Merge(meta, ret)
      BY DEF Stored
    <2> HIDE DEF r, meta
    <2> QED BY <2>1 DEF Merge
  <1>4. {"pkg", "closed"} \subseteq DOMAIN ret \ DOMAIN meta
    BY <1>2 DEF FormInv, UserFieldNames
  <1>5. r.pkg = ret.pkg /\ r.closed = ret.closed /\ r.seq = n
    BY <1>2, <1>3, <1>4
  <1>6. FormInv(r) /\ {"closedAt", "seq", "uid"} \subseteq DOMAIN r
    BY <1>2, <1>3, <1>5 DEF FormInv
  <1> QED BY <1>5, <1>6 DEF ReportInv

\* A number that is tried and found taken is one report more that was met.
LEMMA TakenIsPassed ==
  ASSUME ReportsInv, NEW pkg, NEW n \in Int, MakeID(pkg, n + 1) \in DOMAIN docs
  PROVE  Cardinality(Passed(pkg, n + 1)) >= Cardinality(Passed(pkg, n)) + 1
  <1> DEFINE id == MakeID(pkg, n + 1)
             A  == Passed(pkg, n)
             B  == Passed(pkg, n + 1)
  <1>1. id.seq = n + 1
    BY DEF MakeID
  <1>2. id \notin A /\ id \in B
    BY <1>1 DEF Passed
  <1>3. A \subseteq B
    <2> SUFFICES ASSUME NEW x \in A PROVE x \in B
      OBVIOUS
    <2>1. x \in DOMAIN docs /\ x = MakeID(pkg, x.seq) /\ x.seq <= n
      BY DEF Passed
    <2>2. x.seq \in Int
      BY <2>1, SequenceIsInt
    <2>3. x.seq <= n + 1
      BY <2>1, <2>2
    <2> QED BY <2>1, <2>3 DEF Passed
  <1>4. IsFiniteSet(A) /\ Cardinality(A) \in Nat /\ IsFiniteSet(B) /\ Cardinality(B) \in Nat
    BY FewPassed
  <1> HIDE DEF A, B, id
  <1>5. IsFiniteSet(A \cup {id}) /\ Cardinality(A \cup {id}) = Cardinality(A) + 1
    BY <1>2, <1>4, FS_AddElement
  <1>6. A \cup {id} \subseteq B
    BY <1>2, <1>3
  <1>7. Cardinality(A \cup {id}) <= Cardinality(B)
    BY <1>4, <1>6, FS_Subset
  <1>8. Cardinality(B) >= Cardinality(A) + 1
    BY <1>4, <1>5, <1>7
  <1> QED BY <1>8 DEF A, B

LEMMA TryCreateKeeps ==
  ASSUME TrackerInv, NEW c \in Clerks, TryCreate(c)
  PROVE  TrackerInv'
  <1> DEFINE j   == job[c]
             ret == j.ret
             pkg == ret.pkg
             n   == last[c][pkg]
             id  == MakeID(pkg, n + 1)
  <1>1. /\ j.pc = "try" /\ FormInv(ret) /\ j.tries \in Nat
        /\ DOMAIN j = {"pc", "ret", "tries"}
        /\ pkg \in DOMAIN last[c] /\ last[c] \in [DOMAIN last[c] -> Int] /\ n \in Int
    BY DEF TryCreate, TrackerInv, ClerkInv, JobInv
  <1>2. last' = [last EXCEPT ![c][pkg] = @ + 1] /\ gone' = gone
    BY DEF TryCreate
  <1>3. /\ DOMAIN last' = Clerks
        /\ \A d \in Clerks \ {c} : last'[d] = last[d]
        /\ last'[c] \in [DOMAIN last'[c] -> Int]
        /\ DOMAIN last'[c] = DOMAIN last[c]
        /\ last'[c][pkg] = n + 1
    BY <1>1, <1>2 DEF TrackerInv
  <1>4. CASE id \in DOMAIN docs
    <2> DEFINE k == [j EXCEPT !.tries = @ + 1]
    <2>1. /\ job' = [job EXCEPT ![c] = IF j.tries + 1 = AutoIncrementMaxRetries THEN NoJob ELSE k]
          /\ docs' = docs
      <3>1. Has(docs, MakeID(job[c].ret.pkg, last[c][job[c].ret.pkg] + 1))
        BY <1>4 DEF Has
      <3> QED BY <3>1 DEF TryCreate
    <2>2. StoreAlone
      BY <1>2, <2>1 DEF StoreAlone
    <2>3. ReportsInv'
      BY <2>2 DEF TrackerInv, ReportsInv, ReportInv, StoreAlone
    <2>4. OthersAlone(c)
      BY <1>3, <2>1 DEF TrackerInv, OthersAlone
    <2>5. CASE job' = [job EXCEPT ![c] = NoJob]
      <3>1. ClerkInv(c)'
        BY <1>3, <2>5, ClerkStops DEF TrackerInv, Finish
      <3> QED BY <2>2, <2>3, <2>4, <3>1, AloneLosesNothing, StepKeeps
    <2>6. CASE job' = [job EXCEPT ![c] = k]
      <3>1. /\ job'[c] = k /\ k.pc = "try" /\ k.ret = ret /\ k.tries = j.tries + 1
            /\ DOMAIN k = {"pc", "ret", "tries"}
        BY <1>1, <2>6 DEF TrackerInv
      <3>2. JobInv(job'[c], last'[c])
        BY <1>1, <1>3, <3>1 DEF JobInv
      <3>3. TryMet(c)'
        <4> SUFFICES ASSUME gone = {}
                     PROVE  j.tries + 1 <= Cardinality(Passed(pkg, n + 1))
          <5>1. job'[c].ret.pkg = pkg /\ job'[c].tries = j.tries + 1 /\ last'[c][pkg] = n + 1
            BY <1>3, <3>1
          <5>2. Passed(job[c].ret.pkg, last[c][job[c].ret.pkg])' = Passed(pkg, n + 1)
            BY <2>1, <5>1 DEF Passed
          <5> QED BY <1>2, <5>1, <5>2 DEF TryMet
        <4>1. j.tries <= Cardinality(Passed(pkg, n))
          BY <1>1 DEF TrackerInv, ClerkInv, TryMet
        <4>2. Cardinality(Passed(pkg, n + 1)) >= Cardinality(Passed(pkg, n)) + 1
          BY <1>1, <1>4, TakenIsPassed DEF TrackerInv
        <4>3. Cardinality(Passed(pkg, n + 1)) \in Nat /\ Cardinality(Passed(pkg, n)) \in Nat
          BY <1>1, FewPassed DEF TrackerInv
        <4> QED BY <1>1, <4>1, <4>2, <4>3
      <3>4. ClerkInv(c)'
        BY <1>3, <3>1, <3>2, <3>3 DEF ClerkInv, EditStands
      <3> QED BY <2>2, <2>3, <2>4, <3>4, AloneLosesNothing, StepKeeps
    <2> QED BY <2>1, <2>5, <2>6
  <1>5. CASE id \notin DOMAIN docs
    <2>1. docs' = Put(docs, id, Stored(ret, id)) /\ Finish(c)
      BY <1>5 DEF TryCreate, Has
    <2>2. /\ DOMAIN docs' = DOMAIN docs \cup {id}
          /\ docs'[id] = Stored(ret, id)
          /\ \A x \in DOMAIN docs : docs'[x] = docs[x]
      BY <1>5, <2>1 DEF Put
    <2>3. ReportInv(id, Stored(ret, id))
      <3>1. FormInv(ret) /\ n + 1 \in Int
        BY <1>1
      <3> HIDE DEF ret, n
      <3> QED BY <3>1, StoredReport
    <2>4. IsFiniteSet(DOMAIN docs')
      BY <2>2, FS_AddElement DEF TrackerInv, ReportsInv
    <2>5. ReportsInv'
      <3>1. \A x \in DOMAIN docs' : ReportInv(x, docs'[x])
        BY <2>2, <2>3 DEF TrackerInv, ReportsInv
      <3> QED BY <2>4, <3>1 DEF ReportsInv, ReportInv
    <2>6. NothingLost
      BY <1>2, <2>2 DEF NothingLost
    <2>7. ClerkInv(c)' /\ OthersAlone(c)
      BY <1>3, <2>1, ClerkStops DEF TrackerInv, OthersAlone
    <2> QED BY <2>5, <2>6, <2>7, StepKeeps
  <1> QED BY <1>4, <1>5

-----------------------------------------------------------------------------
(***************************************************************************)
(* The actions that replace, close and delete.                             *)
(***************************************************************************)

\* What edit stores is a report under the ID it read, with the identity it
\* read and the closed mark that was typed.
LEMMA EditedReport ==
  ASSUME NEW read, NEW ret, FormInv(ret), NEW id,
         MakeID(read.pkg, id.seq) = id, id.seq \in Int
  PROVE  LET r == Normalised(id, Edited(read, ret))
         IN  ReportInv(id, r) /\ r.uid = read.uid /\ r.closed = ret.closed
  <1> DEFINE own == [pkg |-> read.pkg, closedAt |-> read.closedAt, uid |-> read.uid]
             e   == Edited(read, ret)
             set == [closedAt |-> IF ~e.closed THEN Zero
                                  ELSE IF e.closedAt = Zero THEN Now ELSE e.closedAt,
                     seq |-> id.seq]
             r   == Normalised(id, e)
  <1>1. DOMAIN own = {"pkg", "closedAt", "uid"} /\ own.pkg = read.pkg /\ own.uid = read.uid
    OBVIOUS
  <1>2. DOMAIN set = {"closedAt", "seq"} /\ set.seq = id.seq
    OBVIOUS
  <1>3. /\ DOMAIN e = DOMAIN own \cup DOMAIN ret
        /\ \A x \in DOMAIN own : e[x] = own[x]
        /\ \A x \in DOMAIN ret \ DOMAIN own : e[x] = ret[x]
    <2>1. e = Merge(own, ret)
      BY DEF Edited
    <2> HIDE DEF e, own
    <2> QED BY <2>1 DEF Merge
  <1>4. /\ DOMAIN r = DOMAIN set \cup DOMAIN e
        /\ \A x \in DOMAIN set : r[x] = set[x]
        /\ \A x \in DOMAIN e \ DOMAIN set : r[x] = e[x]
    <2>1. r = Merge(set, e)
      BY DEF Normalised
    <2> HIDE DEF e, set, r
    <2> QED BY <2>1 DEF Merge
  <1> HIDE DEF own, e, set, r
  <1>5. UserFieldNames \subseteq DOMAIN ret
    BY DEF FormInv
  <1>6. "closed" \in DOMAIN ret \ DOMAIN own
    BY <1>1, <1>5 DEF UserFieldNames
  <1>7. e.pkg = read.pkg /\ e.uid = read.uid /\ e.closed = ret.closed
    BY <1>1, <1>3, <1>6
  <1>8. {"pkg", "uid", "closed"} \subseteq DOMAIN e \ DOMAIN set
    BY <1>1, <1>2, <1>3, <1>6
  <1>9. r.pkg = read.pkg /\ r.uid = read.uid /\ r.closed = ret.closed /\ r.seq = id.seq
    BY <1>2, <1>4, <1>7, <1>8
  <1>10. FormInv(r) /\ {"closedAt", "seq", "uid"} \subseteq DOMAIN r
    BY <1>1, <1>2, <1>3, <1>4, <1>5, <1>9 DEF FormInv
  <1>11. ReportInv(id, r)
    BY <1>9, <1>10 DEF ReportInv
  <1> QED BY <1>9, <1>11 DEF r, e

\* What UpdateReport does to the collection.
LEMMA UpdateStores ==
  ASSUME TrackerInv, NEW c \in Clerks, UpdateReport(c), ~StoreAlone
  PROVE  LET j == job[c]
             r == Normalised(j.id, Edited(j.read, j.ret))
         IN  /\ DOMAIN docs' = DOMAIN docs \cup {j.id}
             /\ docs'[j.id] = r
             /\ \A x \in DOMAIN docs \ {j.id} : docs'[x] = docs[x]
             /\ gone' = IF j.id \in DOMAIN docs
                        THEN gone \cup ({docs[j.id].uid} \ {r.uid}) ELSE gone
             /\ ReportInv(j.id, r) /\ r.uid = j.read.uid /\ r.closed = j.ret.closed
  <1> DEFINE j == job[c]
             e == Edited(j.read, j.ret)
             r == Normalised(j.id, e)
  <1>1. DraftInv(j) /\ j.cmd = "edit"
    BY DEF UpdateReport, TrackerInv, ClerkInv, JobInv
  <1>2. ReportInv(j.id, r) /\ r.uid = j.read.uid /\ r.closed = j.ret.closed
    BY <1>1, EditedReport DEF DraftInv
  <1>3. e.uid = j.read.uid
    BY DEF Edited, Merge
  <1>4. /\ docs' = Put(docs, j.id, r)
        /\ gone' = IF j.id \in DOMAIN docs
                   THEN gone \cup ({docs[j.id].uid} \ {e.uid}) ELSE gone
    BY DEF UpdateReport, StoreAlone, Has
  <1> HIDE DEF j, e, r
  <1>5. /\ DOMAIN docs' = DOMAIN docs \cup {j.id}
        /\ docs'[j.id] = r
        /\ \A x \in DOMAIN docs \ {j.id} : docs'[x] = docs[x]
    BY <1>4 DEF Put
  <1>6. gone' = IF j.id \in DOMAIN docs
                THEN gone \cup ({docs[j.id].uid} \ {r.uid}) ELSE gone
    BY <1>2, <1>3, <1>4
  <1> QED BY <1>2, <1>5, <1>6 DEF r, j, e

LEMMA UpdateReportKeeps ==
  ASSUME TrackerInv, NEW c \in Clerks, UpdateReport(c)
  PROVE  TrackerInv'
  <1>1. Finish(c) /\ last' = last
    BY DEF UpdateReport
  <1>2. CASE StoreAlone
    BY <1>1, <1>2, FinishAlone
  <1>3. CASE ~StoreAlone
    <2> DEFINE j == job[c]
    <2>1. PICK r :
             /\ DOMAIN docs' = DOMAIN docs \cup {j.id}
             /\ docs'[j.id] = r
             /\ \A x \in DOMAIN docs \ {j.id} : docs'[x] = docs[x]
             /\ gone' = IF j.id \in DOMAIN docs
                        THEN gone \cup ({docs[j.id].uid} \ {r.uid}) ELSE gone
             /\ ReportInv(j.id, r)
      BY <1>3, UpdateStores
    <2> HIDE DEF j
    <2>2. IsFiniteSet(DOMAIN docs')
      BY <2>1, FS_AddElement DEF TrackerInv, ReportsInv
    <2>3. \A x \in DOMAIN docs' : ReportInv(x, docs'[x])
      BY <2>1 DEF TrackerInv, ReportsInv
    <2>4. ReportsInv'
      BY <2>2, <2>3 DEF ReportsInv, ReportInv
    <2>5. NothingLost
      BY <2>1 DEF NothingLost
    <2>6. last'[c] \in [DOMAIN last'[c] -> Int]
      BY <1>1 DEF TrackerInv, ClerkInv
    <2>7. ClerkInv(c)' /\ OthersAlone(c)
      BY <1>1, <2>6, ClerkStops DEF TrackerInv, OthersAlone
    <2> QED BY <2>4, <2>5, <2>7, StepKeeps
  <1> QED BY <1>2, <1>3

\* Closing changes the mark and the time of one report.
LEMMA CloseStores ==
  ASSUME TrackerInv, NEW c \in Clerks, CloseReport(c)
  PROVE  /\ DOMAIN docs' = DOMAIN docs
         /\ \A x \in DOMAIN docs :
              /\ DOMAIN docs'[x] = DOMAIN docs[x]
              /\ \A f \in DOMAIN docs[x] \ {"closed", "closedAt"} : docs'[x][f] = docs[x][f]
              /\ docs'[x].closed \in {TRUE, docs[x].closed}
  <1>1. PICK id \in DOMAIN docs :
          docs' = [docs EXCEPT ![id].closed = TRUE, ![id].closedAt = Now]
    BY DEF CloseReport
  <1>2. {"closed", "closedAt"} \subseteq DOMAIN docs[id]
    BY DEF TrackerInv, ReportsInv, ReportInv, FormInv, UserFieldNames
  <1> QED BY <1>1, <1>2

LEMMA CloseReportKeeps ==
  ASSUME TrackerInv, NEW c \in Clerks, CloseReport(c)
  PROVE  TrackerInv'
  <1>1. job' = job /\ last' = last /\ gone' = gone
    BY DEF CloseReport
  <1>2. /\ DOMAIN docs' = DOMAIN docs
        /\ \A x \in DOMAIN docs :
             /\ DOMAIN docs'[x] = DOMAIN docs[x]
             /\ \A f \in DOMAIN docs[x] \ {"closed", "closedAt"} : docs'[x][f] = docs[x][f]
             /\ docs'[x].closed \in {TRUE, docs[x].closed}
    BY CloseStores
  <1>3. ASSUME NEW x \in DOMAIN docs
        PROVE  ReportInv(x, docs'[x]) /\ docs'[x].uid = docs[x].uid
    <2>1. ReportInv(x, docs[x])
      BY DEF TrackerInv, ReportsInv
    <2>2. {"pkg", "closed", "seq", "uid"} \subseteq DOMAIN docs[x]
      BY <2>1 DEF ReportInv, FormInv, UserFieldNames
    <2>3. /\ docs'[x].pkg = docs[x].pkg /\ docs'[x].seq = docs[x].seq
          /\ docs'[x].uid = docs[x].uid
      BY <1>2, <2>2
    <2>4. docs'[x].closed \in BOOLEAN
      BY <1>2, <2>1 DEF ReportInv, FormInv
    <2> QED BY <1>2, <2>1, <2>3, <2>4 DEF ReportInv, FormInv
  <1>4. ReportsInv'
    <2>1. IsFiniteSet(DOMAIN docs')
      BY <1>2 DEF TrackerInv, ReportsInv
    <2>2. \A x \in DOMAIN docs' : ReportInv(x, docs'[x])
      BY <1>2, <1>3
    <2> QED BY <2>1, <2>2 DEF ReportsInv, ReportInv
  <1>5. ASSUME NEW d \in Clerks PROVE ClerkInv(d)'
    <2>1. ClerkInv(d)
      BY DEF TrackerInv
    <2>2. EditStands(d)'
      BY <1>1, <1>2, <1>3, <2>1 DEF ClerkInv, EditStands
    <2>3. TryMet(d)'
      BY <1>1, <1>2, <2>1 DEF ClerkInv, TryMet, Passed
    <2> QED BY <1>1, <2>1, <2>2, <2>3 DEF ClerkInv
  <1> QED BY <1>1, <1>4, <1>5 DEF TrackerInv

LEMMA DeleteStoredKeeps ==
  ASSUME TrackerInv, NEW c \in Clerks, DeleteStored(c)
  PROVE  TrackerInv'
  <1> DEFINE id == job[c].id
  <1>1. /\ Finish(c) /\ last' = last
        /\ docs' = Without(docs, id)
        /\ gone' = IF id \in DOMAIN docs THEN gone \cup {docs[id].uid} ELSE gone
    BY DEF DeleteStored, Has
  <1> HIDE DEF id
  <1>2. DOMAIN docs' = DOMAIN docs \ {id} /\ \A x \in DOMAIN docs' : docs'[x] = docs[x]
    BY <1>1 DEF Without
  <1>3. ReportsInv'
    <2>1. IsFiniteSet(DOMAIN docs')
      BY <1>2, FS_Subset DEF TrackerInv, ReportsInv
    <2>2. \A x \in DOMAIN docs' : ReportInv(x, docs'[x])
      BY <1>2 DEF TrackerInv, ReportsInv
    <2> QED BY <2>1, <2>2 DEF ReportsInv, ReportInv
  <1>4. NothingLost
    BY <1>1, <1>2 DEF NothingLost
  <1>5. last'[c] \in [DOMAIN last'[c] -> Int]
    BY <1>1 DEF TrackerInv, ClerkInv
  <1>6. ClerkInv(c)' /\ OthersAlone(c)
    BY <1>1, <1>5, ClerkStops DEF TrackerInv, OthersAlone
  <1> QED BY <1>3, <1>4, <1>6, StepKeeps

-----------------------------------------------------------------------------
(***************************************************************************)
(* The theorems about the tracker.                                         *)
(***************************************************************************)
LEMMA TrackerStarts == TrackerInit => TrackerInv
  <1> SUFFICES ASSUME TrackerInit PROVE TrackerInv
    OBVIOUS
  <1>1. /\ docs = Reports
        /\ last = [c \in Clerks |-> EmptyCollection]
        /\ job = [c \in Clerks |-> NoJob]
    BY DEF TrackerInit
  <1>2. ReportsInv
    <2>1. IsFiniteSet(DOMAIN docs)
      BY <1>1, ReportsAssumption
    <2>2. ASSUME NEW id \in DOMAIN docs PROVE ReportInv(id, docs[id])
      BY <1>1, ReportsAssumption DEF ReportInv, FormInv, MakeID, UserFieldNames
    <2> QED BY <2>1, <2>2 DEF ReportsInv
  <1>3. ASSUME NEW c \in Clerks PROVE ClerkInv(c)
    <2>1. job[c] = NoJob /\ last[c] = EmptyCollection
      BY <1>1
    <2>2. EmptyCollection \in [DOMAIN EmptyCollection -> Int]
      BY DEF EmptyCollection
    <2> QED BY <2>1, <2>2, IdleJob DEF ClerkInv, EditStands, TryMet
  <1> QED BY <1>1, <1>2, <1>3 DEF TrackerInv

LEMMA TrackerKeeps == TrackerInv /\ [TrackerNext]_trackerVars => TrackerInv'
  <1> SUFFICES ASSUME TrackerInv, [TrackerNext]_trackerVars PROVE TrackerInv'
    OBVIOUS
  <1>1. CASE UNCHANGED trackerVars
    BY <1>1, TrackerStutters
  <1>2. CASE TrackerNext
    <2>1. PICK c \in Clerks : Step(c)
      BY <1>2 DEF TrackerNext
    <2>2. CASE EditorGarbles(c)
      BY <2>2, FinishAlone DEF EditorGarbles, StoreAlone
    <2>3. CASE ListFails(c)
      BY <2>3, FinishAlone DEF ListFails, StoreAlone
    <2> QED
      BY <2>1, <2>2, <2>3, CreateCommandKeeps, CreateFromFileKeeps, CrashReportKeeps,
         EditCommandKeeps, EditorSavesKeeps, CreateReportKeeps, TryCreateKeeps,
         TryFailsKeeps, UpdateReportKeeps, CloseReportKeeps, DeleteReportKeeps,
         DeleteStoredKeeps, RestartKeeps
         DEF Step
  <1> QED BY <1>1, <1>2

LEMMA TrackerInvSound == TrackerInv => NumbersAreSound
  <1> SUFFICES ASSUME TrackerInv PROVE NumbersAreSound
    OBVIOUS
  <1>1. ReportUnderItsOwnID
    BY DEF TrackerInv, ReportsInv, ReportInv, ReportUnderItsOwnID
  <1>2. EveryTryMetAReport
    BY DEF TrackerInv, ClerkInv, TryMet, Passed, EveryTryMetAReport
  <1> QED BY <1>1, <1>2 DEF NumbersAreSound

(***************************************************************************)
(* CreateReport, edit, close and delete of any number of processes keep    *)
(* every report under the ID of its own package and number, and a process  *)
(* that looks for a free number meets another report with every try.       *)
(***************************************************************************)
THEOREM NumbersStaySound == TrackerSpec => []NumbersAreSound
  BY TrackerStarts, TrackerKeeps, TrackerInvSound, PTL DEF TrackerSpec

\* The steps that leave the stored reports alone are safe.
LEMMA SameDocsSafe ==
  ASSUME docs' = docs
  PROVE  ReplacedOnlyByItself /\ ReopenedByAnEdit
  BY DEF ReplacedOnlyByItself, ReopenedByAnEdit

LEMMA UpdateIsSafe ==
  ASSUME TrackerInv, NEW c \in Clerks, UpdateReport(c)
  PROVE  ReplacedOnlyByItself /\ ReopenedByAnEdit
  <1>1. CASE StoreAlone
    BY <1>1, SameDocsSafe DEF StoreAlone
  <1>2. CASE ~StoreAlone
    <2> DEFINE j == job[c]
    <2>1. PICK r :
             /\ docs'[j.id] = r
             /\ \A x \in DOMAIN docs \ {j.id} : docs'[x] = docs[x]
             /\ r.uid = j.read.uid /\ r.closed = j.ret.closed
      BY <1>2, UpdateStores
    <2>2. j.pc = "edit" /\ DraftInv(j) /\ j.cmd = "edit" /\ MarkKept(j, j.ret) /\ EditStands(c)
      BY DEF UpdateReport, TrackerInv, ClerkInv, JobInv
    <2>3. ReplacedOnlyByItself
      BY <2>1, <2>2 DEF EditStands, ReplacedOnlyByItself
    <2>4. ReopenedByAnEdit
      <3> SUFFICES ASSUME NEW id \in DOMAIN docs \cap DOMAIN docs',
                          docs[id].closed, ~docs'[id].closed
                   PROVE  /\ job[c].pc = "edit" /\ job[c].id = id
                          /\ ~job[c].read.closed \/ "closed" \in job[c].cleared
        BY DEF ReopenedByAnEdit
      <3>1. id = j.id /\ ~j.ret.closed
        BY <2>1
      <3> QED BY <2>2, <3>1 DEF MarkKept
    <2> QED BY <2>3, <2>4
  <1> QED BY <1>1, <1>2

LEMMA CloseIsSafe ==
  ASSUME TrackerInv, NEW c \in Clerks, CloseReport(c)
  PROVE  ReplacedOnlyByItself /\ ReopenedByAnEdit
  <1>1. /\ DOMAIN docs' = DOMAIN docs
        /\ \A x \in DOMAIN docs :
             /\ DOMAIN docs'[x] = DOMAIN docs[x]
             /\ \A f \in DOMAIN docs[x] \ {"closed", "closedAt"} : docs'[x][f] = docs[x][f]
             /\ docs'[x].closed \in {TRUE, docs[x].closed}
    BY CloseStores
  <1>2. \A x \in DOMAIN docs : docs'[x].uid = docs[x].uid
    BY <1>1 DEF TrackerInv, ReportsInv, ReportInv
  <1> QED BY <1>1, <1>2 DEF ReplacedOnlyByItself, ReopenedByAnEdit

LEMMA StepIsSafe ==
  ASSUME TrackerInv, [TrackerNext]_trackerVars
  PROVE  ReplacedOnlyByItself /\ ReopenedByAnEdit
  <1>1. CASE UNCHANGED trackerVars
    BY <1>1, SameDocsSafe DEF trackerVars
  <1>2. CASE TrackerNext
    <2>1. PICK c \in Clerks : Step(c)
      BY <1>2 DEF TrackerNext
    <2>2. CASE \/ CreateCommand(c) \/ CreateFromFile(c) \/ CrashReport(c) \/ EditCommand(c)
               \/ EditorSaves(c) \/ EditorGarbles(c) \/ CreateReport(c) \/ ListFails(c)
               \/ TryFails(c) \/ DeleteReport(c) \/ Restart(c)
      <3>1. docs' = docs
        BY <2>2 DEF CreateCommand, CreateFromFile, CrashReport, EditCommand, EditorSaves,
                    EditorGarbles, CreateReport, ListFails, TryFails, DeleteReport, Restart
      <3> QED BY <3>1, SameDocsSafe
    <2>3. CASE TryCreate(c)
      <3>1. \A x \in DOMAIN docs : docs'[x] = docs[x]
        BY <2>3 DEF TryCreate, Put, Has
      <3> QED BY <3>1 DEF ReplacedOnlyByItself, ReopenedByAnEdit
    <2>4. CASE DeleteStored(c)
      <3>1. \A x \in DOMAIN docs' : docs'[x] = docs[x]
        BY <2>4 DEF DeleteStored, Without
      <3> QED BY <3>1 DEF ReplacedOnlyByItself, ReopenedByAnEdit
    <2> QED BY <2>1, <2>2, <2>3, <2>4, UpdateIsSafe, CloseIsSafe DEF Step
  <1> QED BY <1>1, <1>2

(***************************************************************************)
(* No step of any process puts one report over another, unless one of the  *)
(* two was deleted or overwritten before, and only an edit that had not    *)
(* seen the Close, or whose user removed the mark, opens a closed report.  *)
(***************************************************************************)
THEOREM EditsStaySafe == TrackerSpec => EditsAreSafe
  <1>1. TrackerInv /\ [TrackerNext]_trackerVars
          => [ReplacedOnlyByItself /\ ReopenedByAnEdit]_trackerVars
    BY StepIsSafe
  <1> QED BY <1>1, TrackerStarts, TrackerKeeps, PTL DEF TrackerSpec, EditsAreSafe

-----------------------------------------------------------------------------
(***************************************************************************)
(* The bot.  The invariant is inductive as it stands, whatever happens to  *)
(* the reports: nothing the bot compares changes without a message.        *)
(***************************************************************************)
LEMMA NoMessageNoChange ==
  ASSUME NEW prev, NEW doc, Message(prev, doc) = ""
  PROVE  Compared(prev) = Compared(doc)
  <1>1. /\ prev.closed = doc.closed /\ prev.label = doc.label
        /\ prev.subject = doc.subject /\ prev.pkg = doc.pkg
    BY DEF Message
  <1>2. \A f \in UserFields \ {"kind"} : prev[f] = doc[f]
    BY <1>1, FieldNames DEF UserFieldNames
  <1> QED BY <1>2 DEF Compared, Restrict

LEMMA SnapshotKeeps ==
  ASSUME BotIsCurrent, ProcessSnapshot
  PROVE  BotIsCurrent'
  <1>1. PICK failed \in SUBSET Posted :
          /\ told' = [id \in DOMAIN told \cup (Posted \ failed) |->
                        IF id \in Posted \ failed THEN docs[id] ELSE told[id]]
          /\ unsent' = (unsent \ Posted) \cup failed
    BY DEF ProcessSnapshot
  <1>2. up /\ up' /\ seen' = docs
    BY DEF ProcessSnapshot
  <1>3. /\ DOMAIN issues' = (DOMAIN issues \cap DOMAIN docs) \cup Posted
        /\ \A id \in DOMAIN issues' :
             issues'[id] = IF id \in Posted THEN docs[id] ELSE issues[id]
    BY DEF ProcessSnapshot, Remember
  <1>4. DOMAIN issues = DOMAIN seen /\ \A id \in DOMAIN seen : Compared(issues[id]) = Compared(seen[id])
    BY <1>2 DEF BotIsCurrent, KeptIsLastSnapshot
  <1>5. Posted \subseteq DOMAIN docs /\ \A id \in DOMAIN docs \ DOMAIN seen : id \in Posted
    BY DEF Posted
  <1>6. ASSUME NEW id \in DOMAIN docs \ Posted
        PROVE  id \in DOMAIN seen /\ Compared(issues[id]) = Compared(docs[id])
    <2>1. id \in DOMAIN seen /\ id \in DOMAIN issues
      BY <1>4, <1>5
    <2>2. CASE docs[id] = seen[id]
      BY <1>4, <2>1, <2>2
    <2>3. CASE docs[id] # seen[id]
      <3>1. Message(issues[id], docs[id]) = ""
        BY <2>1, <2>3 DEF Posted
      <3> QED BY <2>1, <3>1, NoMessageNoChange
    <2> QED BY <2>1, <2>2, <2>3
  <1>7. KeptIsLastSnapshot'
    <2>1. DOMAIN issues' = DOMAIN docs
      BY <1>3, <1>4, <1>5
    <2>2. \A id \in DOMAIN docs : Compared(issues'[id]) = Compared(docs[id])
      BY <1>3, <1>6, <2>1
    <2> QED BY <1>2, <2>1, <2>2 DEF KeptIsLastSnapshot, Compared
  <1>8. ChannelIsCurrent'
    <2> SUFFICES ASSUME NEW id \in DOMAIN told' \cap DOMAIN docs, id \notin unsent'
                 PROVE  Compared(told'[id]) = Compared(docs[id])
      BY <1>2 DEF ChannelIsCurrent, Compared
    <2>1. CASE id \in Posted
      BY <1>1, <2>1
    <2>2. CASE id \notin Posted
      <3>1. told'[id] = told[id] /\ id \in DOMAIN told /\ id \notin unsent
        BY <1>1, <2>2
      <3>2. id \in DOMAIN seen /\ Compared(issues[id]) = Compared(docs[id])
        BY <1>6, <2>2
      <3>3. Compared(told[id]) = Compared(seen[id])
        BY <1>2, <3>1, <3>2 DEF BotIsCurrent, ChannelIsCurrent
      <3> QED BY <1>4, <3>1, <3>2, <3>3
    <2> QED BY <2>1, <2>2
  <1> QED BY <1>7, <1>8 DEF BotIsCurrent

(***************************************************************************)
(* Whatever the commands do and however Firestore puts their changes       *)
(* together, the bot's memory and the last posts that were sent agree with *)
(* the last snapshot in every field the bot compares, across posts that    *)
(* fail and restarts of the bot.                                           *)
(***************************************************************************)
THEOREM BotStaysCurrent == WatchSpec => []BotIsCurrent
  <1>1. BotInit => BotIsCurrent
    BY DEF BotInit, BotIsCurrent, KeptIsLastSnapshot, ChannelIsCurrent, EmptyCollection
  <1>2. BotIsCurrent /\ UNCHANGED botVars => BotIsCurrent'
    BY DEF botVars, BotIsCurrent, KeptIsLastSnapshot, ChannelIsCurrent, Compared
  <1>3. BotIsCurrent /\ BotNext => BotIsCurrent'
    <2>1. CASE BotStarts
      BY <2>1 DEF BotStarts, BotIsCurrent, KeptIsLastSnapshot, ChannelIsCurrent, EmptyCollection
    <2>2. CASE BotStops
      BY <2>2 DEF BotStops, BotIsCurrent, KeptIsLastSnapshot, ChannelIsCurrent
    <2> QED BY <2>1, <2>2, SnapshotKeeps DEF BotNext
  <1>4. BotIsCurrent /\ [\/ TrackerNext /\ UNCHANGED botVars
                         \/ BotNext /\ UNCHANGED trackerVars]_<<trackerVars, botVars>>
          => BotIsCurrent'
    BY <1>2, <1>3
  <1> QED BY <1>1, <1>4, PTL DEF WatchSpec
=============================================================================
