---------------------------- MODULE CompilerProofs ----------------------------
(***************************************************************************)
(* Proofs about Compiler for any set of units, any prefixes and any ways   *)
(* in which child processes may end.                                       *)
(*                                                                         *)
(* The argument has two layers.  JobsInv says which jobs come before which *)
(* in compilation->jobs, and how far job creation has come.  DoneInv says  *)
(* what the jobs before the cursor have left behind, as long as res is 0.  *)
(* Together: whatever a job relies on, some job before the cursor made.    *)
(***************************************************************************)
EXTENDS Compiler, TLAPS, SequenceTheorems, FiniteSetTheorems

\* Is there a job of this type for u among the first n - 1 jobs?
Before(n, type, u) == \E j \in 1 .. n - 1 : jobs[j] = Job(type, {u})

\* The same among all jobs.
Has(type, u) == \E j \in 1 .. Len(jobs) : jobs[j] = Job(type, {u})

\* What is known at each place of yf_run_compiler.
PhaseInv ==
  /\ pc = "find_compiler" => order = <<>> /\ jobs = <<>>
  /\ pc \in {"find_compiler", "analyse_jobs"} =>
       cur = 1 /\ linkObjs = <<>> /\ \A i \in 1 .. Len(jobs) : jobs[i].type = "ANALYSE"
  /\ pc \in {"compile_jobs", "run", "cleanup"} => files \subseteq Elems(order)
  /\ pc \notin {"cleanup", "exit"} => res = 0
  /\ pc = "run" => cur =< Len(jobs) + 1
  /\ pc \in {"cleanup", "exit"} /\ res = 0 => cur = Len(jobs) + 1

\* Whose a job is, and what precedes it in the list.
JobOrder(i) ==
  /\ jobs[i].type # "LINK" => \E u \in files : jobs[i].units = {u}
  /\ jobs[i].type # "ANALYSE" => \A u \in files : Before(i, "ANALYSE", u)
  /\ jobs[i].type = "COMPILE" => Stage >= AnalyseOnly
  /\ jobs[i].type = "CC" => /\ Stage >= CodegenOnly
                            /\ \A u \in jobs[i].units : Before(i, "COMPILE", u)
  /\ jobs[i].type = "LINK" => /\ jobs[i].units = files
                              /\ \A u \in files : Before(i, "CC", u)

JobsInv ==
  /\ \A u \in Elems(order) : Has("ANALYSE", u)
  /\ \A i \in 1 .. Len(jobs) : JobOrder(i)

\* How far the second pass has come.
PassInv ==
  pc = "compile_jobs" =>
    /\ cur =< Len(order) + 1
    /\ Stage >= AnalyseOnly => \A k \in 1 .. cur - 1 : Has("COMPILE", order[k])
    /\ Stage >= CodegenOnly => \A k \in 1 .. cur - 1 : Has("CC", order[k])
    /\ Stage >= CodegenOnly => \A k \in 1 .. cur - 1 : order[k] \in Elems(linkObjs)
    /\ linkObjs # <<>> => Stage >= CodegenOnly

\* Nothing that the stage asks for is missing from the finished list.
CompleteInv ==
  pc \in {"run", "cleanup"} \/ (pc = "exit" /\ res = 0) =>
    /\ Stage >= AnalyseOnly => \A u \in files : Has("COMPILE", u)
    /\ Stage >= CodegenOnly => \A u \in files : Has("CC", u)
    /\ Stage = Full /\ files # {} => \E i \in 1 .. Len(jobs) : jobs[i].type = "LINK"

ListInv == TypeOK /\ PhaseInv /\ JobsInv /\ PassInv /\ CompleteInv

\* What an executed job has left behind.
JobDone(j) ==
  /\ jobs[j].type = "ANALYSE" /\ Stage >= AnalyseOnly =>
       /\ jobs[j].units \subseteq symtab
       /\ args.project /\ PrefixesDistinct => jobs[j].units \subseteq symtables
  /\ jobs[j].type = "COMPILE" =>
       /\ jobs[j].units \subseteq ast
       /\ Stage >= CodegenOnly => \A u \in jobs[j].units : cfile[u] = "fresh"
  /\ jobs[j].type = "CC" /\ killed = {} => \A u \in jobs[j].units : objfile[u] = "fresh"
  /\ jobs[j].type = "LINK" /\ killed = {} => exe = "fresh"

DoneInv ==
  /\ pc \in {"run", "cleanup", "exit"} /\ res = 0 /\ ~args.simulate_run =>
       \A j \in 1 .. cur - 1 : JobDone(j)
  /\ ~args.project => symtables = {}

IInv == ListInv /\ DoneInv /\ ValidatedAgainstWholeProgram /\ OneEntryPoint

-------------------------------------------------------------------------------
\* The ways a child may end are integers, and the exit code is 0 or 2.
LEMMA Ends ==
  ASSUME NEW end \in ChildEnds \union {ExecFailed}
  PROVE  end \in Int /\ ExecResult(end) \in {0, 2}
<1>1. end \in Int
  BY CompilerAssumption DEF ExecFailed, SIGABRT, StatusWord, ExitWith, ForkFailed, WaitFailed
<1> QED
  BY <1>1 DEF ExecResult

\* The stage is one of the five of enum yf_compilation_stage.
LEMMA StageType == TypeOK => Stage \in 0 .. 4
BY DEF TypeOK, Args, Stage, LexOnly, ParseOnly, AnalyseOnly, CodegenOnly, Full

\* A returning job moves the cursor or ends the loop.
LEMMA ReturnType ==
  ASSUME TypeOK, NEW r \in {0, 1, 2}, Return(r)
  PROVE  /\ res' \in {0, 1, 2} /\ cur' \in Nat \ {0}
         /\ pc' \in {pc, "cleanup"}
BY DEF Return, TypeOK

\* The current job is one of the list, and it is about units of the program.
LEMMA CurrentType ==
  ASSUME TypeOK, NEW type, Current(type)
  PROVE  /\ cur \in 1 .. Len(jobs) /\ jobs[cur] \in Jobs
         /\ jobs[cur].units \subseteq files /\ jobs[cur].type = type
<1>1. cur \in 1 .. Len(jobs)
  BY DEF TypeOK, Current
<1>2. jobs[cur] \in Jobs
  BY <1>1, ElementOfSeq DEF TypeOK
<1> QED
  BY <1>1, <1>2 DEF Current, Jobs

\* A list of jobs grows at its end.
LEMMA Grows ==
  ASSUME NEW S, NEW s \in Seq(S), NEW a \in S
  PROVE  /\ s \o <<>> = s
         /\ s \o <<a>> = Append(s, a)
         /\ Append(s, a) \in Seq(S)
         /\ Len(Append(s, a)) = Len(s) + 1
         /\ Append(s, a)[Len(s) + 1] = a
         /\ \A i \in 1 .. Len(s) : Append(s, a)[i] = s[i]
BY ConcatEmptySeq, AppendProperties, AppendIsConcat

\* The jobs that creation adds are about units of the program.
LEMMA NewJob ==
  ASSUME NEW type \in JobType, NEW us \in SUBSET files
  PROVE  /\ Job(type, us) \in Jobs
         /\ Job(type, us).type = type /\ Job(type, us).units = us
BY DEF Job, Jobs

\* The type invariant of the job system.
THEOREM Typing == Spec => []TypeOK
<1>1. Init => TypeOK
  <2> SUFFICES ASSUME Init PROVE TypeOK
    OBVIOUS
  <2>1. cfile \in [Units -> FileState] /\ objfile \in [Units -> FileState] /\ exe \in FileState
    BY DEF Init, FileState
  <2>2. order \in Seq(files) /\ linkObjs \in Seq(files) /\ jobs \in Seq(Jobs)
    BY EmptySeq DEF Init
  <2>3. /\ args \in Args /\ selected \in BOOLEAN
        /\ files \subseteq Units /\ mains \subseteq files /\ anew \subseteq files
        /\ symtab \subseteq files /\ symtables \subseteq files /\ ast \subseteq files
        /\ killed \subseteq Nat
    BY DEF Init
  <2>4. /\ pc \in {"find_compiler", "analyse_jobs", "compile_jobs", "run", "cleanup", "exit"}
        /\ cur \in Nat \ {0} /\ res \in {0, 1, 2}
    BY DEF Init
  <2> QED
    BY <2>1, <2>2, <2>3, <2>4 DEF TypeOK
<1>2. TypeOK /\ [Next]_vars => TypeOK'
  <2> SUFFICES ASSUME TypeOK, [Next]_vars PROVE TypeOK'
    OBVIOUS
  <2> USE DEF TypeOK, inputs, created, front, disk
  <2>1. CASE ScanFails
    BY <2>1 DEF ScanFails, Jobs
  <2>2. CASE FindCompiler
    BY <2>2 DEF FindCompiler, Jobs
  <2>3. CASE AllAnalyseJobsAdded
    BY <2>3 DEF AllAnalyseJobsAdded, Jobs
  <2>4. CASE AddCompileJobs
    <3> DEFINE u == order[cur]
    <3>1. u \in files
      BY <2>4, ElementOfSeq DEF AddCompileJobs
    <3>2. Job("COMPILE", {u}) \in Jobs /\ Job("CC", {u}) \in Jobs
      BY <3>1, NewJob DEF JobType
    <3>3. Append(jobs, Job("COMPILE", {u})) \in Seq(Jobs)
      BY <3>2, Grows
    <3>4. /\ Append(Append(jobs, Job("COMPILE", {u})), Job("CC", {u})) \in Seq(Jobs)
          /\ Append(linkObjs, u) \in Seq(files)
      BY <3>1, <3>2, <3>3, Grows
    <3>5. jobs' \in Seq(Jobs) /\ linkObjs' \in Seq(files)
      BY <3>3, <3>4, <2>4 DEF AddCompileJobs
    <3>6. UNCHANGED Jobs
      BY <2>4 DEF AddCompileJobs, Jobs
    <3> QED
      BY <3>5, <3>6, <2>4 DEF AddCompileJobs
  <2>5. CASE AddLinkJob
    <3>1. Elems(linkObjs) \in SUBSET files
      BY DEF Elems
    <3>2. Append(jobs, Job("LINK", Elems(linkObjs))) \in Seq(Jobs)
      BY <3>1, NewJob, Grows DEF JobType
    <3>3. UNCHANGED Jobs
      BY <2>5 DEF AddLinkJob, Jobs
    <3> QED
      BY <3>2, <3>3, <2>5 DEF AddLinkJob
  <2>6. ASSUME NEW u \in Units, AddAnalyseJob(u) PROVE TypeOK'
    <3>1. u \in files
      BY <2>6 DEF AddAnalyseJob
    <3>2. Append(jobs, Job("ANALYSE", {u})) \in Seq(Jobs) /\ Append(order, u) \in Seq(files)
      BY <3>1, NewJob, Grows DEF JobType
    <3>3. UNCHANGED Jobs
      BY <2>6 DEF AddAnalyseJob, Jobs
    <3> QED
      BY <3>2, <3>3, <2>6 DEF AddAnalyseJob
  <2>7. CASE Simulate
    BY <2>7, ReturnType DEF Simulate, Jobs
  <2>8. CASE JobsDone
    BY <2>8 DEF JobsDone, Jobs
  <2>9. CASE Cleanup
    BY <2>9 DEF Cleanup, Jobs
  <2>10. ASSUME NEW u \in Units, RunAnalyse(u) PROVE TypeOK'
    <3>1. u \in files
      BY <2>10, CurrentType DEF RunAnalyse
    <3> QED
      BY <3>1, <2>10, ReturnType DEF RunAnalyse, Jobs
  <2>11. ASSUME NEW u \in Units, RunCompile(u) PROVE TypeOK'
    <3>1. u \in files
      BY <2>11, CurrentType DEF RunCompile
    <3> QED
      BY <3>1, <2>11, ReturnType DEF RunCompile, FileState, Jobs
  <2>12. ASSUME NEW end \in ChildEnds \union {ExecFailed}, RunLink(end) PROVE TypeOK'
    BY <2>12, ReturnType, Ends DEF RunLink, Ended, FileState, Jobs
  <2>13. ASSUME NEW end \in ChildEnds \union {ExecFailed}, NEW u \in Units, RunCC(u, end)
         PROVE  TypeOK'
    BY <2>13, ReturnType, Ends DEF RunCC, Ended, FileState, Jobs
  <2>14. CASE UNCHANGED vars
    BY <2>14 DEF vars, Jobs
  <2> QED
    BY <2>1, <2>2, <2>3, <2>4, <2>5, <2>6, <2>7, <2>8, <2>9, <2>10, <2>11, <2>12, <2>13, <2>14
    DEF Next, Create, Execute
<1> QED
  BY <1>1, <1>2, PTL DEF Spec

-------------------------------------------------------------------------------
(* The list of jobs *)

\* What stays true of a list that only grows at its end.
LEMMA Kept ==
  ASSUME TypeOK, jobs' \in Seq(Jobs'), UNCHANGED <<args, files>>,
         Len(jobs) =< Len(jobs'), \A i \in 1 .. Len(jobs) : jobs'[i] = jobs[i]
  PROVE  /\ \A type, u : Has(type, u) => Has(type, u)'
         /\ \A type, u : Has(type, u) =>
              \A n \in Len(jobs) + 1 .. Len(jobs') : Before(n, type, u)'
         /\ \A i \in 1 .. Len(jobs) : JobOrder(i) => JobOrder(i)'
<1>1. Len(jobs) \in Nat /\ Len(jobs') \in Nat
  BY LenProperties DEF TypeOK
<1>2. \A type, u : Has(type, u) => Has(type, u)'
  BY <1>1 DEF Has
<1>3. \A type, u : Has(type, u) =>
        \A n \in Len(jobs) + 1 .. Len(jobs') : Before(n, type, u)'
  BY <1>1 DEF Has, Before
<1>4. ASSUME NEW i \in 1 .. Len(jobs), NEW type, NEW u, Before(i, type, u)
      PROVE  Before(i, type, u)'
  BY <1>1, <1>4 DEF Before
<1>5. ASSUME NEW i \in 1 .. Len(jobs), JobOrder(i) PROVE JobOrder(i)'
  <2>1. jobs'[i] = jobs[i]
    OBVIOUS
  <2>2. Stage' = Stage
    BY DEF Stage
  <2> QED
    BY <1>4, <1>5, <2>1, <2>2 DEF JobOrder
<1> QED
  BY <1>2, <1>3, <1>5

\* The position after a job that was executed.
LEMMA ReturnPhase ==
  ASSUME TypeOK, PhaseInv, pc = "run", cur =< Len(jobs), NEW r \in {0, 1, 2}, Return(r),
         UNCHANGED <<files, order, jobs, linkObjs>>
  PROVE  PhaseInv' /\ pc' \in {"run", "cleanup"}
<1>1. Len(jobs) \in Nat /\ cur \in Nat
  BY LenProperties DEF TypeOK
<1>2. Elems(order)' = Elems(order)
  BY DEF Elems
<1> QED
  BY <1>1, <1>2 DEF Return, PhaseInv

\* The list's own order does not depend on anything but the list.
LEMMA SameList ==
  ASSUME JobsInv, UNCHANGED <<args, files, order, jobs>>
  PROVE  JobsInv'
<1>1. /\ Stage' = Stage /\ Elems(order)' = Elems(order)
      /\ \A type, u : Has(type, u)' <=> Has(type, u)
      /\ \A n, type, u : Before(n, type, u)' <=> Before(n, type, u)
  BY DEF Stage, Elems, Has, Before
<1>2. \A i \in 1 .. Len(jobs) : JobOrder(i)'
  BY <1>1 DEF JobsInv, JobOrder
<1> QED
  BY <1>1, <1>2 DEF JobsInv

\* A step that changes nothing about creation and execution.
LEMMA SamePlace ==
  ASSUME PhaseInv, PassInv, CompleteInv,
         UNCHANGED <<args, files, order, jobs, linkObjs, pc, cur, res>>
  PROVE  PhaseInv' /\ PassInv' /\ CompleteInv'
<1>1. /\ Stage' = Stage /\ Elems(order)' = Elems(order) /\ Elems(linkObjs)' = Elems(linkObjs)
      /\ \A type, u : Has(type, u)' <=> Has(type, u)
  BY DEF Stage, Elems, Has
<1>2. PhaseInv'
  BY <1>1 DEF PhaseInv
<1>3. PassInv'
  BY <1>1 DEF PassInv
<1>4. CompleteInv'
  BY <1>1 DEF CompleteInv
<1> QED
  BY <1>2, <1>3, <1>4

\* Executing jobs leaves the list alone.
LEMMA ListKept ==
  ASSUME JobsInv, CompleteInv, UNCHANGED <<args, files, order, jobs, linkObjs>>,
         pc \in {"run", "cleanup"}, pc' \in {"run", "cleanup", "exit"}
  PROVE  JobsInv' /\ PassInv' /\ CompleteInv'
<1>1. Stage' = Stage /\ \A type, u : Has(type, u)' <=> Has(type, u)
  BY DEF Stage, Has
<1>2. JobsInv'
  BY SameList
<1>3. PassInv'
  BY DEF PassInv
<1>4. CompleteInv'
  BY <1>1 DEF CompleteInv
<1> QED
  BY <1>2, <1>3, <1>4

\* Appending to a sequence adds one element to its set of elements.
LEMMA ElemsAppend ==
  ASSUME NEW S, NEW s \in Seq(S), NEW a \in S
  PROVE  Elems(Append(s, a)) = Elems(s) \union {a}
<1>1. /\ DOMAIN s = 1 .. Len(s) /\ Len(s) \in Nat
      /\ DOMAIN Append(s, a) = 1 .. Len(s) + 1
  BY LenProperties, AppendProperties
<1> QED
  BY <1>1, Grows DEF Elems

\* The first pass: everything in the list is an ANALYSE job.
LEMMA FirstPass ==
  ASSUME ListInv, NEW u \in Units, AddAnalyseJob(u)
  PROVE  PhaseInv' /\ JobsInv'
<1> DEFINE j == Job("ANALYSE", {u})
<1>1. u \in files /\ Len(jobs) \in Nat
  BY LenProperties DEF AddAnalyseJob, ListInv, TypeOK
<1>2. j \in Jobs /\ j.type = "ANALYSE" /\ j.units = {u}
  BY <1>1, NewJob DEF JobType
<1>3. /\ jobs' = Append(jobs, j) /\ jobs' \in Seq(Jobs)
      /\ Len(jobs') = Len(jobs) + 1 /\ jobs'[Len(jobs) + 1] = j
      /\ \A i \in 1 .. Len(jobs) : jobs'[i] = jobs[i]
  BY <1>2, Grows DEF AddAnalyseJob, ListInv, TypeOK
<1>4. Jobs' = Jobs /\ UNCHANGED <<args, files, mains, anew>>
  BY DEF AddAnalyseJob, Jobs, inputs
<1>5. Elems(order') = Elems(order) \union {u}
  BY <1>1, ElemsAppend DEF AddAnalyseJob, ListInv, TypeOK
<1>6. /\ \A v \in Elems(order) : Has("ANALYSE", v)'
      /\ \A i \in 1 .. Len(jobs) : JobOrder(i)'
  BY <1>1, <1>3, <1>4, Kept DEF ListInv, JobsInv
<1>7. Has("ANALYSE", u)'
  BY <1>1, <1>3 DEF Has
<1>8. JobOrder(Len(jobs))'
  BY <1>1, <1>2, <1>3, <1>4 DEF JobOrder
<1>9. JobsInv'
  BY <1>1, <1>3, <1>5, <1>6, <1>7, <1>8 DEF JobsInv
<1>10. PhaseInv'
  BY <1>1, <1>2, <1>3 DEF AddAnalyseJob, ListInv, PhaseInv
<1> QED
  BY <1>9, <1>10

\* The end of the second pass: whatever was compiled is linked.
LEMMA LinkPass ==
  ASSUME ListInv, AddLinkJob
  PROVE  PhaseInv' /\ JobsInv' /\ CompleteInv'
<1> DEFINE j == Job("LINK", Elems(linkObjs))
<1>1. Len(jobs) \in Nat /\ Len(order) \in Nat
  BY LenProperties DEF ListInv, TypeOK
<1>2. Elems(linkObjs) \in SUBSET files /\ Elems(order) = files
  BY LenProperties DEF Elems, ListInv, TypeOK, PhaseInv, AddLinkJob
<1>3. j \in Jobs /\ j.type = "LINK" /\ j.units = Elems(linkObjs)
  BY <1>2, NewJob DEF JobType
<1>4. /\ Jobs' = Jobs /\ Stage' = Stage /\ Elems(order)' = Elems(order)
      /\ UNCHANGED <<args, files, order, linkObjs, res>>
  BY DEF AddLinkJob, Jobs, inputs, Stage, Elems
<1>5. Stage \in 0 .. 4
  BY StageType DEF ListInv
<1>6. /\ Stage >= AnalyseOnly => \A u \in files : Has("COMPILE", u)
      /\ Stage >= CodegenOnly => \A u \in files : Has("CC", u) /\ u \in Elems(linkObjs)
  <2>1. \A u \in files : \E k \in 1 .. cur - 1 : order[k] = u
    BY <1>1, <1>2, LenProperties DEF Elems, ListInv, TypeOK, AddLinkJob
  <2> QED
    BY <2>1 DEF ListInv, PassInv, AddLinkJob
<1>7. CASE linkObjs # <<>> /\ Stage >= Full
  <2>1. /\ jobs' = Append(jobs, j) /\ jobs' \in Seq(Jobs)
        /\ Len(jobs') = Len(jobs) + 1 /\ jobs'[Len(jobs) + 1] = j
        /\ \A i \in 1 .. Len(jobs) : jobs'[i] = jobs[i]
    BY <1>3, <1>7, Grows DEF AddLinkJob, ListInv, TypeOK
  <2>2. /\ \A type, u : Has(type, u) => Has(type, u)'
        /\ \A type, u : Has(type, u) => Before(Len(jobs), type, u)'
        /\ \A i \in 1 .. Len(jobs) : JobOrder(i)'
    BY <1>1, <1>4, <2>1, Kept DEF ListInv, JobsInv
  <2>3. JobOrder(Len(jobs))'
    <3>1. Elems(linkObjs) = files /\ \A u \in files : Has("CC", u) /\ Has("ANALYSE", u)
      BY <1>2, <1>5, <1>6, <1>7 DEF ListInv, JobsInv, Full, CodegenOnly
    <3> QED
      BY <1>3, <1>4, <2>1, <2>2, <3>1 DEF JobOrder
  <2>4. JobsInv'
    BY <1>1, <1>4, <2>1, <2>2, <2>3 DEF JobsInv, ListInv
  <2>5. CompleteInv'
    BY <1>1, <1>3, <1>4, <1>6, <2>1, <2>2 DEF CompleteInv
  <2>6. PhaseInv'
    BY <1>1, <1>2, <1>4, <2>1 DEF PhaseInv, ListInv, AddLinkJob
  <2> QED
    BY <2>4, <2>5, <2>6
<1>8. CASE ~(linkObjs # <<>> /\ Stage >= Full)
  <2>1. jobs' = jobs
    BY <1>8 DEF AddLinkJob
  <2>2. /\ \A type, u : Has(type, u)' <=> Has(type, u)
        /\ \A n, type, u : Before(n, type, u)' <=> Before(n, type, u)
    BY <2>1 DEF Has, Before
  <2>3. JobsInv'
    <3>1. \A i \in 1 .. Len(jobs) : JobOrder(i)'
      BY <1>4, <2>1, <2>2 DEF ListInv, JobsInv, JobOrder
    <3> QED
      BY <1>4, <2>1, <2>2, <3>1 DEF ListInv, JobsInv
  <2>4. Stage = Full => files = {}
    <3>1. linkObjs = <<>> => Elems(linkObjs) = {}
      BY DEF Elems
    <3> QED
      BY <1>5, <1>6, <1>8, <3>1 DEF Full, CodegenOnly
  <2>5. CompleteInv'
    BY <1>4, <1>6, <2>2, <2>4 DEF CompleteInv
  <2>6. PhaseInv'
    BY <1>1, <1>2, <1>4, <2>1 DEF PhaseInv, ListInv, AddLinkJob
  <2> QED
    BY <2>3, <2>5, <2>6
<1> QED
  BY <1>7, <1>8

\* The second pass, for the unit under its cursor.
LEMMA SecondPass ==
  ASSUME ListInv, AddCompileJobs
  PROVE  PhaseInv' /\ JobsInv' /\ PassInv'
<1>0. PICK u : u = order[cur]
  OBVIOUS
<1> DEFINE c == Job("COMPILE", {u})
           x == Job("CC", {u})
<1>1. Len(jobs) \in Nat /\ Len(order) \in Nat /\ cur \in Nat \ {0}
  BY LenProperties DEF ListInv, TypeOK
<1>2. u \in files /\ Elems(order) = files
  BY <1>0, <1>1, LenProperties, ElementOfSeq
  DEF AddCompileJobs, ListInv, TypeOK, PhaseInv, Elems
<1>3. /\ c \in Jobs /\ c.type = "COMPILE" /\ c.units = {u}
      /\ x \in Jobs /\ x.type = "CC" /\ x.units = {u}
  BY <1>2, NewJob DEF JobType
<1>4. /\ Jobs' = Jobs /\ Stage' = Stage /\ Elems(order)' = Elems(order)
      /\ UNCHANGED <<args, files, order, res, pc>> /\ cur' = cur + 1
  BY DEF AddCompileJobs, Jobs, inputs, Stage, Elems
<1>5. Stage \in 0 .. 4
  BY StageType DEF ListInv
<1>6. PhaseInv'
  BY <1>1, <1>2, <1>4 DEF PhaseInv, ListInv, AddCompileJobs
<1>7. CASE Stage < AnalyseOnly
  <2>1. UNCHANGED <<jobs, linkObjs>>
    BY <1>5, <1>7 DEF AddCompileJobs, AnalyseOnly, CodegenOnly
  <2>2. /\ \A type, v : Has(type, v)' <=> Has(type, v)
        /\ \A n, type, v : Before(n, type, v)' <=> Before(n, type, v)
    BY <2>1 DEF Has, Before
  <2>3. JobsInv'
    <3>1. \A i \in 1 .. Len(jobs) : JobOrder(i)'
      BY <1>4, <2>1, <2>2 DEF ListInv, JobsInv, JobOrder
    <3> QED
      BY <1>4, <2>1, <2>2, <3>1 DEF ListInv, JobsInv
  <2>4. PassInv'
    BY <1>1, <1>4, <1>5, <1>7, <2>1 DEF ListInv, PassInv, AddCompileJobs, AnalyseOnly, CodegenOnly
  <2> QED
    BY <1>6, <2>3, <2>4
<1>8. CASE Stage = AnalyseOnly
  <2>0. jobs' = Append(jobs, c) /\ linkObjs' = linkObjs
    BY <1>0, <1>8 DEF AddCompileJobs, AnalyseOnly, CodegenOnly
  <2>1. /\ jobs' \in Seq(Jobs) /\ Len(jobs') = Len(jobs) + 1 /\ jobs'[Len(jobs')] = c
        /\ \A i \in 1 .. Len(jobs) : jobs'[i] = jobs[i]
    BY <1>1, <1>3, <2>0, Grows DEF ListInv, TypeOK
  <2>2. /\ \A type, v : Has(type, v) => Has(type, v)'
        /\ \A type, v : Has(type, v) => Before(Len(jobs), type, v)'
        /\ \A i \in 1 .. Len(jobs) : JobOrder(i)'
    BY <1>1, <1>4, <2>1, Kept DEF ListInv, JobsInv
  <2>3. Has("COMPILE", u)'
    BY <1>1, <1>4, <2>1 DEF Has
  <2>4. JobOrder(Len(jobs))'
    <3>1. \A v \in files : Has("ANALYSE", v)
      BY <1>2 DEF ListInv, JobsInv
    <3>2. jobs'[Len(jobs')].type = "COMPILE" /\ jobs'[Len(jobs')].units = {u}
      BY <1>3, <2>1
    <3>3. \A v \in files' : Before(Len(jobs), "ANALYSE", v)'
      BY <1>4, <2>2, <3>1
    <3>4. Stage' >= AnalyseOnly
      BY <1>4, <1>8 DEF AnalyseOnly
    <3> QED
      BY <1>2, <1>4, <3>2, <3>3, <3>4 DEF JobOrder
  <2>5. JobsInv'
    BY <1>1, <1>4, <2>1, <2>2, <2>4 DEF JobsInv, ListInv
  <2>6. PassInv'
    <3>1. \A k \in 1 .. cur : Has("COMPILE", order[k])'
      BY <1>0, <1>1, <1>8, <2>2, <2>3 DEF ListInv, PassInv, AddCompileJobs, AnalyseOnly
    <3>2. linkObjs = <<>>
      BY <1>8 DEF ListInv, PassInv, AddCompileJobs, AnalyseOnly, CodegenOnly
    <3> QED
      BY <1>1, <1>4, <1>8, <2>0, <3>1, <3>2
      DEF ListInv, PassInv, AddCompileJobs, AnalyseOnly, CodegenOnly
  <2> QED
    BY <1>6, <2>5, <2>6
<1>9. CASE Stage >= CodegenOnly
  <2> DEFINE mid == Append(jobs, c)
  <2>1. /\ mid \in Seq(Jobs) /\ Len(mid) = Len(jobs) + 1 /\ mid[Len(jobs) + 1] = c
        /\ \A i \in 1 .. Len(jobs) : mid[i] = jobs[i]
    BY <1>1, <1>3, Grows DEF ListInv, TypeOK
  <2>2. jobs' = Append(mid, x) /\ linkObjs' = Append(linkObjs, u)
    <3>1. /\ jobs' = Append(Append(jobs, Job("COMPILE", {order[cur]})), Job("CC", {order[cur]}))
          /\ linkObjs' = Append(linkObjs, order[cur])
      <4>1. ~(Stage < AnalyseOnly) /\ Stage # AnalyseOnly
        BY <1>5, <1>9 DEF AnalyseOnly, CodegenOnly
      <4> QED
        BY <4>1, Zenon DEF AddCompileJobs
    <3> QED
      BY <1>0, <3>1
  <2> HIDE DEF mid, c, x
  <2>3. /\ jobs' \in Seq(Jobs) /\ Len(jobs') = Len(jobs) + 2
        /\ jobs'[Len(jobs) + 2] = x /\ \A i \in 1 .. Len(jobs) + 1 : jobs'[i] = mid[i]
    BY <1>1, <1>3, <2>1, <2>2, Grows
  <2>4. /\ jobs'[Len(jobs') - 1] = c /\ jobs'[Len(jobs')] = x
        /\ \A i \in 1 .. Len(jobs) : jobs'[i] = jobs[i]
    BY <1>1, <2>1, <2>3
  <2>5. /\ \A type, v : Has(type, v) => Has(type, v)'
        /\ \A type, v : Has(type, v) =>
             Before(Len(jobs) - 1, type, v)' /\ Before(Len(jobs), type, v)'
        /\ \A i \in 1 .. Len(jobs) : JobOrder(i)'
    BY <1>1, <1>4, <2>3, <2>4, Kept DEF ListInv, JobsInv
  <2>6. Has("COMPILE", u)' /\ Has("CC", u)' /\ Before(Len(jobs), "COMPILE", u)'
    <3>1. Has("COMPILE", u)'
      BY <1>1, <2>3, <2>4 DEF Has, c
    <3>2. Has("CC", u)'
      BY <1>1, <2>3, <2>4 DEF Has, x
    <3>3. Before(Len(jobs), "COMPILE", u)'
      BY <1>1, <2>3, <2>4 DEF Before, c
    <3> QED
      BY <3>1, <3>2, <3>3
  <2>7. JobOrder(Len(jobs) - 1)' /\ JobOrder(Len(jobs))'
    <3>1. \A v \in files : Has("ANALYSE", v)
      BY <1>2 DEF ListInv, JobsInv
    <3>2. JobOrder(Len(jobs) - 1)'
      BY <1>2, <1>3, <1>4, <1>5, <1>9, <2>4, <2>5, <3>1 DEF JobOrder, AnalyseOnly, CodegenOnly
    <3>3. JobOrder(Len(jobs))'
      BY <1>2, <1>3, <1>4, <1>5, <1>9, <2>4, <2>5, <2>6, <3>1 DEF JobOrder, AnalyseOnly, CodegenOnly
    <3> QED
      BY <3>2, <3>3
  <2>8. JobsInv'
    BY <1>1, <1>4, <2>3, <2>5, <2>7 DEF JobsInv, ListInv
  <2>9. PassInv'
    <3>1. Elems(linkObjs') = Elems(linkObjs) \union {u}
      BY <1>2, <2>2, ElemsAppend DEF ListInv, TypeOK
    <3>2. /\ \A k \in 1 .. cur : Has("COMPILE", order[k])' /\ Has("CC", order[k])'
          /\ \A k \in 1 .. cur : order[k] \in Elems(linkObjs')
      BY <1>0, <1>1, <1>5, <1>9, <2>5, <2>6, <3>1
      DEF ListInv, PassInv, AddCompileJobs, AnalyseOnly, CodegenOnly
    <3> QED
      BY <1>1, <1>4, <1>5, <1>9, <3>2 DEF PassInv, AddCompileJobs, CodegenOnly, AnalyseOnly
  <2> QED
    BY <1>6, <2>8, <2>9
<1> QED
  BY <1>5, <1>7, <1>8, <1>9 DEF AnalyseOnly, CodegenOnly

\* The list of jobs is as ListInv says, at every moment of its creation and execution.
THEOREM JobList == Spec => []ListInv
<1>1. Init /\ TypeOK => ListInv
  <2> SUFFICES ASSUME Init, TypeOK PROVE ListInv
    OBVIOUS
  <2>1. Len(jobs) = 0 /\ Elems(order) = {}
    BY EmptySeq DEF Init, Elems
  <2>2. JobsInv
    BY <2>1 DEF JobsInv
  <2>3. PhaseInv /\ PassInv /\ CompleteInv
    BY <2>1 DEF Init, PhaseInv, PassInv, CompleteInv
  <2> QED
    BY <2>2, <2>3 DEF ListInv
<1>2. ListInv /\ TypeOK' /\ [Next]_vars => ListInv'
  <2> SUFFICES ASSUME ListInv, TypeOK', [Next]_vars
               PROVE  PhaseInv' /\ JobsInv' /\ PassInv' /\ CompleteInv'
    BY DEF ListInv
  <2> USE DEF ListInv, inputs, created
  <2>1. CASE UNCHANGED <<args, files, order, jobs, linkObjs, pc, cur, res>>
    BY <2>1, SameList, SamePlace
  <2>2. CASE ScanFails
    <3>1. JobsInv'
      BY <2>2, SameList DEF ScanFails
    <3> QED
      BY <2>2, <3>1 DEF ScanFails, PhaseInv, PassInv, CompleteInv
  <2>3. CASE FindCompiler
    <3>1. JobsInv'
      BY <2>3, SameList DEF FindCompiler
    <3> QED
      BY <2>3, <3>1 DEF FindCompiler, PhaseInv, PassInv, CompleteInv
  <2>4. CASE AllAnalyseJobsAdded
    <3>1. JobsInv' /\ UNCHANGED Elems(order)
      BY <2>4, SameList DEF AllAnalyseJobsAdded, Elems
    <3>2. PhaseInv' /\ CompleteInv'
      BY <2>4, <3>1 DEF AllAnalyseJobsAdded, PhaseInv, CompleteInv
    <3>3. PassInv'
      BY <2>4, LenProperties DEF AllAnalyseJobsAdded, PassInv, PhaseInv, TypeOK
    <3> QED
      BY <3>1, <3>2, <3>3
  <2>5. CASE AddCompileJobs
    BY <2>5, SecondPass DEF AddCompileJobs, CompleteInv
  <2>6. CASE AddLinkJob
    BY <2>6, LinkPass DEF AddLinkJob, PassInv
  <2>7. ASSUME NEW u \in Units, AddAnalyseJob(u)
        PROVE  PhaseInv' /\ JobsInv' /\ PassInv' /\ CompleteInv'
    BY <2>7, FirstPass DEF AddAnalyseJob, PassInv, CompleteInv
  <2>8. ASSUME UNCHANGED <<args, files, order, jobs, linkObjs>>, NEW r \in {0, 1, 2}, Return(r),
               pc = "run", cur =< Len(jobs)
        PROVE  PhaseInv' /\ JobsInv' /\ PassInv' /\ CompleteInv'
    BY <2>8, ReturnPhase, ListKept
  <2>9. CASE Simulate
    BY <2>9, <2>8 DEF Simulate, TypeOK
  <2>10. CASE JobsDone \/ Cleanup
    <3>1. PhaseInv'
      BY <2>10, SamePlace, LenProperties DEF JobsDone, Cleanup, PhaseInv, TypeOK
    <3>2. /\ UNCHANGED <<args, files, order, jobs, linkObjs>>
          /\ pc \in {"run", "cleanup"} /\ pc' \in {"run", "cleanup", "exit"}
      BY <2>10 DEF JobsDone, Cleanup
    <3> QED
      BY <3>1, <3>2, ListKept
  <2>11. ASSUME NEW u \in Units, RunAnalyse(u) \/ RunCompile(u)
         PROVE  PhaseInv' /\ JobsInv' /\ PassInv' /\ CompleteInv'
    BY <2>11, <2>8 DEF RunAnalyse, RunCompile, Current
  <2>12. ASSUME NEW end \in ChildEnds \union {ExecFailed},
                RunLink(end) \/ \E u \in Units : RunCC(u, end)
         PROVE  PhaseInv' /\ JobsInv' /\ PassInv' /\ CompleteInv'
    BY <2>12, <2>8, Ends DEF RunLink, RunCC, Ended, Current
  <2> QED
    BY <2>1, <2>2, <2>3, <2>4, <2>5, <2>6, <2>7, <2>9, <2>10, <2>11, <2>12
    DEF Next, Create, Execute, vars
<1> QED
  BY <1>1, <1>2, Typing, PTL DEF Spec

-------------------------------------------------------------------------------
(* What the jobs leave behind *)

\* A child that made a job return 0 without being killed exited with status 0.
LEMMA ChildSucceeded ==
  ASSUME NEW end \in ChildEnds \union {ExecFailed}, ExecResult(end) = 0,
         ~(end >= 0 /\ ~Exited(end))
  PROVE  end = ExitWith(0)
<1>1. end \in StatusWord
  BY CompilerAssumption DEF ExecFailed, SIGABRT, StatusWord, ForkFailed, WaitFailed, ExecResult, ProcExec
<1>2. CASE end \in 1 .. 126 \union 129 .. 254
  BY <1>2 DEF Exited
<1>3. CASE \E code \in 0 .. 255 : end = ExitWith(code)
  <2>1. PICK code \in 0 .. 255 : end = ExitWith(code)
    BY <1>3
  <2>2. end = 256 * code
    BY <2>1 DEF ExitWith
  <2>3. (end \div 256) % 256 = code
    BY <2>2
  <2>4. code = 0
    BY <2>2, <2>3 DEF ExecResult, ProcExec, WEXITSTATUS
  <2> QED
    BY <2>1, <2>4
<1> QED
  BY <1>1, <1>2, <1>3 DEF StatusWord

\* What a job finds done when its turn has come.
LEMMA Relies ==
  ASSUME ListInv, DoneInv, NEW type, Current(type), ~args.simulate_run
  PROVE  /\ type \in {"COMPILE", "CC", "LINK"} /\ Stage >= AnalyseOnly =>
              symtab = files /\ (args.project /\ PrefixesDistinct => symtables = files)
         /\ type = "CC" => \A u \in jobs[cur].units : cfile[u] = "fresh"
         /\ type = "LINK" => jobs[cur].units = files
         /\ type = "LINK" /\ killed = {} => \A u \in files : objfile[u] = "fresh"
<1>1. cur \in 1 .. Len(jobs) /\ jobs[cur].type = type
  BY CurrentType DEF ListInv
<1>2. JobOrder(cur)
  BY <1>1 DEF ListInv, JobsInv
<1>3. \A j \in 1 .. cur - 1 : JobDone(j)
  BY DEF Current, DoneInv, ListInv, PhaseInv
<1>4. ASSUME type \in {"COMPILE", "CC", "LINK"}, Stage >= AnalyseOnly
      PROVE  symtab = files /\ (args.project /\ PrefixesDistinct => symtables = files)
  <2>1. ASSUME NEW u \in files
        PROVE  u \in symtab /\ (args.project /\ PrefixesDistinct => u \in symtables)
    <3>1. PICK j \in 1 .. cur - 1 : jobs[j] = Job("ANALYSE", {u})
      BY <1>1, <1>2, <1>4 DEF JobOrder, Before
    <3>2. jobs[j].type = "ANALYSE" /\ jobs[j].units = {u}
      BY <3>1 DEF Job
    <3> QED
      BY <1>3, <1>4, <3>2 DEF JobDone
  <2> QED
    BY <2>1 DEF ListInv, TypeOK
<1>5. ASSUME type = "CC", NEW u \in jobs[cur].units PROVE cfile[u] = "fresh"
  <2>1. PICK j \in 1 .. cur - 1 : jobs[j] = Job("COMPILE", {u})
    BY <1>1, <1>2, <1>5 DEF JobOrder, Before
  <2>2. Stage >= CodegenOnly
    BY <1>1, <1>2, <1>5 DEF JobOrder
  <2>3. jobs[j].type = "COMPILE" /\ jobs[j].units = {u}
    BY <2>1 DEF Job
  <2> QED
    BY <1>3, <2>2, <2>3 DEF JobDone
<1>6. ASSUME type = "LINK" PROVE jobs[cur].units = files
  BY <1>1, <1>2, <1>6 DEF JobOrder
<1>7. ASSUME type = "LINK", killed = {}, NEW u \in files PROVE objfile[u] = "fresh"
  <2>1. PICK j \in 1 .. cur - 1 : jobs[j] = Job("CC", {u})
    BY <1>1, <1>2, <1>7 DEF JobOrder, Before
  <2>2. jobs[j].type = "CC" /\ jobs[j].units = {u}
    BY <2>1 DEF Job
  <2> QED
    BY <1>3, <1>7, <2>2 DEF JobDone
<1> QED
  BY <1>4, <1>5, <1>6, <1>7

\* Later jobs undo nothing.
LEMMA JobDoneKept ==
  ASSUME TypeOK, UNCHANGED <<args, files, jobs>>, symtab \subseteq symtab', ast \subseteq ast',
         PrefixesDistinct => symtables \subseteq symtables',
         \A u \in files : cfile[u] = "fresh" => cfile'[u] = "fresh",
         killed' = {} => /\ killed = {} /\ (exe = "fresh" => exe' = "fresh")
                         /\ \A u \in files : objfile[u] = "fresh" => objfile'[u] = "fresh",
         NEW j \in 1 .. Len(jobs), JobDone(j)
  PROVE  JobDone(j)'
<1>1. jobs[j].units \subseteq files
  <2>1. jobs[j] \in Jobs
    BY ElementOfSeq DEF TypeOK
  <2> QED
    BY <2>1 DEF Jobs
<1>2. Stage' = Stage /\ PrefixesDistinct' = PrefixesDistinct
  BY DEF Stage, PrefixesDistinct
<1> QED
  BY <1>1, <1>2 DEF JobDone

\* A job that returns 0 and has done its work adds itself to those that have.
LEMMA Advance ==
  ASSUME TypeOK, PhaseInv, DoneInv, pc = "run", cur =< Len(jobs), UNCHANGED <<args, jobs>>,
         NEW r \in {0, 1, 2}, Return(r), NEW c, c = cur,
         ~args.project => symtables' = {},
         r = 0 => JobDone(c)' /\ \A j \in 1 .. Len(jobs) : JobDone(j) => JobDone(j)'
  PROVE  DoneInv'
<1>1. res = 0 /\ cur \in Nat \ {0} /\ Len(jobs) \in Nat
  BY LenProperties DEF TypeOK, PhaseInv
<1>2. CASE r # 0
  BY <1>2 DEF Return, DoneInv
<1>3. CASE r = 0
  <2>1. ASSUME ~args.simulate_run, NEW j \in 1 .. cur PROVE JobDone(j)'
    BY <1>1, <1>3, <2>1 DEF DoneInv
  <2> QED
    BY <1>1, <1>3, <2>1 DEF Return, DoneInv
<1> QED
  BY <1>2, <1>3

\* An ANALYSE job: its own unit's symbols are known, and nothing else changes.
LEMMA AnalyseDone ==
  ASSUME IInv, TypeOK', NEW u \in Units, RunAnalyse(u)
  PROVE  DoneInv' /\ ValidatedAgainstWholeProgram' /\ OneEntryPoint'
<1>1. /\ cur \in 1 .. Len(jobs) /\ jobs[cur].type = "ANALYSE" /\ u \in files
      /\ jobs[cur].units = {u}
  <2>1. /\ cur \in 1 .. Len(jobs) /\ jobs[cur].type = "ANALYSE"
        /\ u \in jobs[cur].units /\ u \in files
    BY CurrentType DEF RunAnalyse, IInv, ListInv
  <2> QED
    BY <2>1 DEF IInv, ListInv, JobsInv, JobOrder
<1>2. /\ UNCHANGED <<args, files, mains, jobs, ast, cfile, objfile, exe, killed>>
      /\ Stage' = Stage /\ PrefixesDistinct' = PrefixesDistinct
  BY DEF RunAnalyse, inputs, created, disk, front, Stage, PrefixesDistinct
<1>3. /\ symtab \subseteq symtab' /\ (~args.project => symtables' = {})
      /\ PrefixesDistinct => symtables \subseteq symtables'
  BY <1>1 DEF RunAnalyse, front, IInv, DoneInv, ListInv, TypeOK, PrefixesDistinct
<1>4. PICK c : c = cur
  OBVIOUS
<1>5. PICK r \in {0, 1} : Return(r) /\ (r = 0 /\ Stage >= AnalyseOnly =>
          u \in symtab' /\ (args.project => u \in symtables'))
  BY DEF RunAnalyse
<1>6. r = 0 => JobDone(c)'
  BY <1>1, <1>2, <1>4, <1>5 DEF JobDone
<1>7. \A j \in 1 .. Len(jobs) : JobDone(j) => JobDone(j)'
  BY <1>2, <1>3, JobDoneKept DEF IInv, ListInv
<1>8. DoneInv'
  BY <1>1, <1>2, <1>3, <1>4, <1>5, <1>6, <1>7, Advance DEF IInv, ListInv, RunAnalyse, Current
<1>9. ValidatedAgainstWholeProgram'
  BY <1>2, <1>3 DEF IInv, ValidatedAgainstWholeProgram, TypeOK
<1>10. OneEntryPoint'
  BY <1>2 DEF IInv, OneEntryPoint
<1> QED
  BY <1>8, <1>9, <1>10

\* A COMPILE job: it validates against all symbols, and generates C only for a program
\* with one entry point.
LEMMA CompileDone ==
  ASSUME IInv, TypeOK', NEW u \in Units, RunCompile(u)
  PROVE  DoneInv' /\ ValidatedAgainstWholeProgram' /\ OneEntryPoint'
<1>1. /\ cur \in 1 .. Len(jobs) /\ jobs[cur].type = "COMPILE" /\ u \in files
      /\ jobs[cur].units = {u} /\ Stage >= AnalyseOnly
  <2>1. /\ cur \in 1 .. Len(jobs) /\ jobs[cur].type = "COMPILE"
        /\ u \in jobs[cur].units /\ u \in files
    BY CurrentType DEF RunCompile, IInv, ListInv
  <2> QED
    BY <2>1 DEF IInv, ListInv, JobsInv, JobOrder
<1>2. /\ UNCHANGED <<args, files, mains, jobs, symtab, symtables, objfile, exe, killed>>
      /\ Stage' = Stage /\ PrefixesDistinct' = PrefixesDistinct
  BY DEF RunCompile, inputs, created, Stage, PrefixesDistinct
<1>3. symtab = files /\ (args.project /\ PrefixesDistinct => symtables = files)
  BY <1>1, Relies DEF RunCompile, IInv
<1>4. /\ ast \subseteq ast'
      /\ \A v \in files : cfile[v] = "fresh" => cfile'[v] = "fresh"
  BY <1>1 DEF RunCompile, IInv, ListInv, TypeOK
<1>5. PICK c : c = cur
  OBVIOUS
<1>6. Stage \in 0 .. 4
  BY StageType DEF IInv, ListInv
<1>7. PICK r \in {0, 1} : Return(r) /\ (r = 0 =>
          u \in ast' /\ (Stage >= CodegenOnly => cfile'[u] = "fresh"))
  <2>1. cfile' = [cfile EXCEPT ![u] = "fresh"] => cfile'[u] = "fresh"
    BY DEF IInv, ListInv, TypeOK
  <2> QED
    BY <1>6, <2>1 DEF RunCompile, CodegenOnly
<1>8. r = 0 => JobDone(c)'
  BY <1>1, <1>2, <1>5, <1>7 DEF JobDone
<1>9. \A j \in 1 .. Len(jobs) : JobDone(j) => JobDone(j)'
  BY <1>2, <1>4, JobDoneKept DEF IInv, ListInv
<1>10. DoneInv'
  BY <1>1, <1>2, <1>5, <1>7, <1>8, <1>9, Advance DEF IInv, DoneInv, ListInv, RunCompile, Current
<1>11. ValidatedAgainstWholeProgram'
  BY <1>2, <1>3 DEF ValidatedAgainstWholeProgram
<1>12. OneEntryPoint'
  <2>1. CASE UNCHANGED cfile
    BY <1>2, <2>1 DEF IInv, OneEntryPoint
  <2>2. CASE ~NotOneEntryPoint /\ PrefixesDistinct
    <3>1. args.project
      <4>1. ~args.project => symtables \intersect mains = {}
        BY DEF IInv, DoneInv
      <4> QED
        BY <2>2, <4>1, FS_EmptySet DEF NotOneEntryPoint
    <3>2. symtables \intersect mains = mains
      BY <1>3, <2>2, <3>1 DEF IInv, ListInv, TypeOK
    <3> QED
      BY <1>2, <2>2, <3>2 DEF NotOneEntryPoint, OneEntryPoint
  <2> QED
    BY <1>2, <2>1, <2>2 DEF RunCompile, OneEntryPoint
<1> QED
  BY <1>10, <1>11, <1>12

\* A cc -c job: the object file it leaves comes from C of this invocation.
LEMMA CCDone ==
  ASSUME IInv, TypeOK', NEW u \in Units, NEW end \in ChildEnds \union {ExecFailed}, RunCC(u, end)
  PROVE  DoneInv' /\ ValidatedAgainstWholeProgram' /\ OneEntryPoint'
<1>1. /\ cur \in 1 .. Len(jobs) /\ jobs[cur].type = "CC" /\ u \in files
      /\ jobs[cur].units = {u}
  <2>1. /\ cur \in 1 .. Len(jobs) /\ jobs[cur].type = "CC"
        /\ u \in jobs[cur].units /\ u \in files
    BY CurrentType DEF RunCC, IInv, ListInv
  <2> QED
    BY <2>1 DEF IInv, ListInv, JobsInv, JobOrder
<1>2. /\ UNCHANGED <<args, files, mains, jobs, symtab, symtables, ast, cfile, exe>>
      /\ Stage' = Stage /\ PrefixesDistinct' = PrefixesDistinct
  BY DEF RunCC, inputs, created, front, Stage, PrefixesDistinct
<1>3. cfile[u] = "fresh"
  BY <1>1, Relies DEF RunCC, IInv
<1>4. ValidatedAgainstWholeProgram' /\ OneEntryPoint'
  BY <1>2 DEF IInv, ValidatedAgainstWholeProgram, OneEntryPoint
<1>5. PICK c : c = cur
  OBVIOUS
<1>6. PICK r \in {0, 1, 2} : Return(r) /\ r = ExecResult(end)
  BY Ends DEF RunCC, Ended
<1>7. ASSUME r = 0, killed' = {}
      PROVE  killed = {} /\ objfile' = [objfile EXCEPT ![u] = "fresh"]
  <2>1. killed = {} /\ ~(end >= 0 /\ ~Exited(end))
    BY <1>7 DEF RunCC, Ended
  <2>2. end = ExitWith(0)
    BY <1>6, <1>7, <2>1, ChildSucceeded
  <2> QED
    BY <1>3, <2>1, <2>2 DEF RunCC
<1>8. ASSUME r = 0, killed' = {}
      PROVE  /\ objfile'[u] = "fresh"
             /\ \A v \in files : objfile[v] = "fresh" => objfile'[v] = "fresh"
  BY <1>1, <1>7, <1>8 DEF IInv, ListInv, TypeOK
<1>9. r = 0 => JobDone(c)'
  BY <1>1, <1>2, <1>5, <1>8 DEF JobDone
<1>10. r = 0 => \A j \in 1 .. Len(jobs) : JobDone(j) => JobDone(j)'
  BY <1>2, <1>7, <1>8, JobDoneKept DEF IInv, ListInv
<1>11. DoneInv'
  BY <1>1, <1>2, <1>5, <1>6, <1>9, <1>10, Advance DEF IInv, DoneInv, ListInv, RunCC, Current
<1> QED
  BY <1>4, <1>11

\* The LINK job: all its object files are of this invocation, so the executable is.
LEMMA LinkDone ==
  ASSUME IInv, TypeOK', NEW end \in ChildEnds \union {ExecFailed}, RunLink(end)
  PROVE  DoneInv' /\ ValidatedAgainstWholeProgram' /\ OneEntryPoint'
<1>1. cur \in 1 .. Len(jobs) /\ jobs[cur].type = "LINK"
  BY CurrentType DEF RunLink, IInv, ListInv
<1>2. /\ UNCHANGED <<args, files, mains, jobs, symtab, symtables, ast, cfile, objfile>>
      /\ Stage' = Stage /\ PrefixesDistinct' = PrefixesDistinct
  BY DEF RunLink, inputs, created, front, Stage, PrefixesDistinct
<1>3. killed = {} => \A u \in jobs[cur].units : objfile[u] = "fresh"
  BY Relies DEF RunLink, IInv
<1>4. ValidatedAgainstWholeProgram' /\ OneEntryPoint'
  BY <1>2 DEF IInv, ValidatedAgainstWholeProgram, OneEntryPoint
<1>5. PICK c : c = cur
  OBVIOUS
<1>6. PICK r \in {0, 1, 2} : Return(r) /\ r = ExecResult(end)
  BY Ends DEF RunLink, Ended
<1>7. ASSUME r = 0, killed' = {} PROVE killed = {} /\ exe' = "fresh"
  <2>1. killed = {} /\ ~(end >= 0 /\ ~Exited(end))
    BY <1>7 DEF RunLink, Ended
  <2>2. end = ExitWith(0)
    BY <1>6, <1>7, <2>1, ChildSucceeded
  <2>3. {objfile[u] : u \in jobs[cur].units} \subseteq {"fresh"}
    BY <1>3, <2>1
  <2> QED
    BY <2>1, <2>2, <2>3 DEF RunLink
<1>8. r = 0 => JobDone(c)'
  BY <1>1, <1>2, <1>5, <1>7 DEF JobDone
<1>9. r = 0 => \A j \in 1 .. Len(jobs) : JobDone(j) => JobDone(j)'
  BY <1>2, <1>7, JobDoneKept DEF IInv, ListInv
<1>10. DoneInv'
  BY <1>1, <1>2, <1>5, <1>6, <1>8, <1>9, Advance DEF IInv, DoneInv, ListInv, RunLink, Current
<1> QED
  BY <1>4, <1>10

\* Steps that execute no job.
LEMMA NothingDone ==
  ASSUME IInv, UNCHANGED <<args, files, mains, front, disk, killed>>,
         \/ pc' \notin {"run", "cleanup", "exit"}
         \/ pc' \in {"run", "cleanup", "exit"} /\ (cur' = 1 \/ res' # 0 \/ args.simulate_run)
         \/ pc \in {"run", "cleanup", "exit"} /\ UNCHANGED <<jobs, cur, res>>
  PROVE  DoneInv' /\ ValidatedAgainstWholeProgram' /\ OneEntryPoint'
<1>1. Stage' = Stage /\ PrefixesDistinct' = PrefixesDistinct
  BY DEF Stage, PrefixesDistinct
<1>2. ValidatedAgainstWholeProgram' /\ OneEntryPoint'
  BY <1>1 DEF IInv, ValidatedAgainstWholeProgram, OneEntryPoint, front, disk
<1>3. CASE pc \in {"run", "cleanup", "exit"} /\ UNCHANGED <<jobs, cur, res>>
  <2>1. \A j : JobDone(j) => JobDone(j)'
    BY <1>1, <1>3 DEF JobDone, front, disk
  <2> QED
    BY <1>2, <1>3, <2>1 DEF IInv, DoneInv, front
<1>4. CASE \/ pc' \notin {"run", "cleanup", "exit"}
           \/ cur' = 1 \/ res' # 0 \/ args.simulate_run
  BY <1>2, <1>4 DEF IInv, DoneInv, front
<1> QED
  BY <1>2, <1>3, <1>4

\* The inductive invariant.
THEOREM Inductive == Spec => []IInv
<1>1. Init /\ ListInv => IInv
  <2> SUFFICES ASSUME Init, ListInv PROVE IInv
    OBVIOUS
  <2>1. DoneInv /\ ValidatedAgainstWholeProgram
    BY DEF Init, DoneInv, ValidatedAgainstWholeProgram
  <2>2. OneEntryPoint
    <3>1. \A u \in files : cfile[u] # "fresh"
      BY DEF Init
    <3> QED
      BY <3>1 DEF OneEntryPoint
  <2> QED
    BY <2>1, <2>2 DEF IInv
<1>2. IInv /\ ListInv' /\ [Next]_vars => IInv'
  <2> SUFFICES ASSUME IInv, ListInv', [Next]_vars
               PROVE  DoneInv' /\ ValidatedAgainstWholeProgram' /\ OneEntryPoint'
    BY DEF IInv
  <2>1. CASE UNCHANGED vars
    BY <2>1, NothingDone DEF vars, inputs, created
  <2>2. CASE ScanFails \/ FindCompiler \/ AllAnalyseJobsAdded \/ AddCompileJobs \/ AddLinkJob
    BY <2>2, NothingDone
    DEF ScanFails, FindCompiler, AllAnalyseJobsAdded, AddCompileJobs, AddLinkJob, inputs
  <2>3. ASSUME NEW u \in Units, AddAnalyseJob(u)
        PROVE  DoneInv' /\ ValidatedAgainstWholeProgram' /\ OneEntryPoint'
    BY <2>3, NothingDone DEF AddAnalyseJob, inputs
  <2>4. CASE Simulate
    BY <2>4, NothingDone DEF Simulate, inputs
  <2>5. CASE JobsDone \/ Cleanup
    BY <2>5, NothingDone DEF JobsDone, Cleanup, inputs, created
  <2>6. ASSUME NEW u \in Units, RunAnalyse(u) \/ RunCompile(u)
        PROVE  DoneInv' /\ ValidatedAgainstWholeProgram' /\ OneEntryPoint'
    BY <2>6, AnalyseDone, CompileDone DEF ListInv
  <2>7. ASSUME NEW end \in ChildEnds \union {ExecFailed},
               RunLink(end) \/ \E u \in Units : RunCC(u, end)
        PROVE  DoneInv' /\ ValidatedAgainstWholeProgram' /\ OneEntryPoint'
    BY <2>7, CCDone, LinkDone DEF ListInv
  <2> QED
    BY <2>1, <2>2, <2>3, <2>4, <2>5, <2>6, <2>7 DEF Next, Create, Execute
<1> QED
  BY <1>1, <1>2, JobList, PTL DEF Spec

\* No unit is validated before the symbols of all units are known.
THEOREM WholeProgram == Spec => []ValidatedAgainstWholeProgram
<1>1. IInv => ValidatedAgainstWholeProgram
  BY DEF IInv
<1> QED
  BY <1>1, Inductive, PTL

\* C is generated only for programs with exactly one main.
THEOREM EntryPoint == Spec => []OneEntryPoint
<1>1. IInv => OneEntryPoint
  BY DEF IInv
<1> QED
  BY <1>1, Inductive, PTL

\* The link command gets this build's object file of every unit.
THEOREM LinkInputs == Spec => []LinksThisBuild
<1>1. IInv => LinksThisBuild
  BY Relies DEF IInv, LinksThisBuild
<1> QED
  BY <1>1, Inductive, PTL

\* When the loop has passed every job, and no child was killed, all is made.
LEMMA AllDone ==
  ASSUME IInv, pc \in {"cleanup", "exit"}, res = 0, killed = {}, ~args.simulate_run
  PROVE  AllMade
<1>1. \A j \in 1 .. Len(jobs) : JobDone(j)
  <2>1. cur = Len(jobs) + 1 /\ Len(jobs) \in Nat
    BY LenProperties DEF IInv, ListInv, PhaseInv, TypeOK
  <2> QED
    BY <2>1 DEF IInv, DoneInv
<1>2. Stage \in 0 .. 4
  BY StageType DEF IInv, ListInv
<1>3. ASSUME Stage >= AnalyseOnly, NEW u \in files
      PROVE  u \in ast /\ (Stage >= CodegenOnly => cfile[u] = "fresh")
  <2>1. PICK j \in 1 .. Len(jobs) : jobs[j] = Job("COMPILE", {u})
    BY <1>3 DEF IInv, ListInv, CompleteInv, Has
  <2>2. jobs[j].type = "COMPILE" /\ jobs[j].units = {u}
    BY <2>1 DEF Job
  <2> QED
    BY <1>1, <2>2 DEF JobDone
<1>4. ASSUME Stage >= CodegenOnly, NEW u \in files PROVE objfile[u] = "fresh"
  <2>1. PICK j \in 1 .. Len(jobs) : jobs[j] = Job("CC", {u})
    BY <1>4 DEF IInv, ListInv, CompleteInv, Has
  <2>2. jobs[j].type = "CC" /\ jobs[j].units = {u}
    BY <2>1 DEF Job
  <2> QED
    BY <1>1, <2>2 DEF JobDone
<1>5. Stage = Full /\ files # {} => exe = "fresh"
  BY <1>1 DEF IInv, ListInv, CompleteInv, JobDone
<1>6. Stage >= AnalyseOnly => ast = files
  BY <1>3 DEF IInv, ListInv, TypeOK
<1> QED
  BY <1>2, <1>3, <1>4, <1>5, <1>6 DEF AllMade, AnalyseOnly, CodegenOnly

\* An invocation that exits with 0, with no child killed, has made all that the stage asks for.
THEOREM ExitCode == Spec => []HonestExit
<1>1. IInv => HonestExit
  BY AllDone DEF HonestExit
<1> QED
  BY <1>1, Inductive, PTL

\* With --simulate-run no job does anything, and the loop still passes all of them.
THEOREM Simulation == Spec => []DryRun
<1>1. Init => DryRun
  BY DEF Init, DryRun
<1>2. ListInv /\ ListInv' /\ DryRun /\ [Next]_vars => DryRun'
  <2> SUFFICES ASSUME ListInv, ListInv', DryRun, [Next]_vars, args'.simulate_run PROVE DryRun'
    BY DEF DryRun
  <2>1. UNCHANGED <<args, front, disk, killed>>
    <3>1. args' = args
      BY DEF Next, Create, Execute, ScanFails, FindCompiler, AllAnalyseJobsAdded, AddCompileJobs,
             AddLinkJob, AddAnalyseJob, Simulate, JobsDone, Cleanup, RunAnalyse, RunCompile,
             RunLink, RunCC, vars, inputs
    <3> QED
      BY <3>1 DEF Next, Create, Execute, ScanFails, FindCompiler, AllAnalyseJobsAdded,
             AddCompileJobs, AddLinkJob, AddAnalyseJob, Simulate, JobsDone, Cleanup, RunAnalyse,
             RunCompile, RunLink, RunCC, vars
  <2>2. pc' = "exit" /\ res' = 0 => cur' = Len(jobs') + 1
    BY DEF ListInv, PhaseInv
  <2> QED
    BY <2>1, <2>2 DEF DryRun, front, disk
<1> QED
  BY <1>1, <1>2, JobList, PTL DEF Spec

-------------------------------------------------------------------------------
(***************************************************************************)
(* The job system implements the promise of Build.  Beyond what is known   *)
(* of the jobs above, the mapping needs that nothing once made is lost: a  *)
(* failing cc or linker may remove its output file, so every unit must     *)
(* have only one CC job, the LINK job must be the last, and an output can  *)
(* be up to date only after its job.                                       *)
(***************************************************************************)

\* No unit is visited twice, no unit is compiled by two CC jobs, and the LINK job is the last.
OnceInv ==
  /\ \A k, l \in 1 .. Len(order) : order[k] = order[l] => k = l
  /\ \A i, j \in 1 .. Len(jobs) : jobs[i].type = "CC" /\ jobs[j] = jobs[i] => i = j
  /\ \A i \in 1 .. Len(jobs) : jobs[i].type = "LINK" => i = Len(jobs) /\ Stage = Full
  /\ pc = "compile_jobs" =>
       \A i \in 1 .. Len(jobs) :
         /\ jobs[i].type # "LINK"
         /\ jobs[i].type = "CC" => \E k \in 1 .. cur - 1 : jobs[i].units = {order[k]}

\* Has the CC job of u been passed?
Passed(u) == \E j \in 1 .. Len(jobs) : j < cur /\ jobs[j] = Job("CC", {u})

\* What is up to date was made by a job that has been passed.
MadeInv ==
  /\ \A u \in Units : cfile[u] = "fresh" => u \in files
  /\ \A u \in Units : objfile[u] = "fresh" =>
       pc \in {"run", "cleanup", "exit"} /\ u \in files /\ Passed(u)
  /\ exe = "fresh" => pc \in {"run", "cleanup", "exit"} /\ cur > Len(jobs)

-------------------------------------------------------------------------------
\* A step that leaves the list alone, and is not the start of the second pass.
LEMMA OnceKept ==
  ASSUME OnceInv, TypeOK, UNCHANGED <<args, order, jobs>>,
         pc' = "compile_jobs" => pc = "compile_jobs" /\ cur' >= cur /\ cur' \in Nat
  PROVE  OnceInv'
<1>1. Stage' = Stage
  BY DEF Stage
<1>2. pc' = "compile_jobs" =>
        \A i \in 1 .. Len(jobs) :
          /\ jobs[i].type # "LINK"
          /\ jobs[i].type = "CC" => \E k \in 1 .. cur' - 1 : jobs[i].units = {order[k]}
  <2>1. pc' = "compile_jobs" => 1 .. cur - 1 \subseteq 1 .. cur' - 1
    BY DEF TypeOK
  <2> QED
    BY <2>1 DEF OnceInv
<1> QED
  BY <1>1, <1>2 DEF OnceInv

\* The first pass visits a new unit, and adds no CC or LINK job.
LEMMA OnceFirst ==
  ASSUME ListInv, OnceInv, NEW u \in Units, AddAnalyseJob(u)
  PROVE  OnceInv'
<1> DEFINE j == Job("ANALYSE", {u})
<1>1. u \in files /\ Len(jobs) \in Nat /\ Len(order) \in Nat /\ DOMAIN order = 1 .. Len(order)
  BY LenProperties DEF AddAnalyseJob, ListInv, TypeOK
<1>2. j \in Jobs /\ j.type = "ANALYSE"
  BY <1>1, NewJob DEF JobType
<1>3. /\ jobs' = Append(jobs, j)
      /\ Len(jobs') = Len(jobs) + 1 /\ jobs'[Len(jobs) + 1] = j
      /\ \A i \in 1 .. Len(jobs) : jobs'[i] = jobs[i]
  BY <1>2, Grows DEF AddAnalyseJob, ListInv, TypeOK
<1>4. /\ Len(order') = Len(order) + 1 /\ order'[Len(order) + 1] = u
      /\ \A k \in 1 .. Len(order) : order'[k] = order[k] /\ order[k] # u
  <2>1. /\ Len(Append(order, u)) = Len(order) + 1 /\ Append(order, u)[Len(order) + 1] = u
        /\ \A k \in 1 .. Len(order) : Append(order, u)[k] = order[k]
    BY <1>1, Grows DEF ListInv, TypeOK
  <2>2. \A k \in 1 .. Len(order) : order[k] # u
    BY <1>1 DEF AddAnalyseJob, Elems
  <2> QED
    BY <2>1, <2>2 DEF AddAnalyseJob
<1>5. \A k, l \in 1 .. Len(order') : order'[k] = order'[l] => k = l
  BY <1>1, <1>4 DEF OnceInv
<1>6. \A i \in 1 .. Len(jobs') : jobs'[i].type = "ANALYSE"
  <2>1. \A i \in 1 .. Len(jobs) : jobs[i].type = "ANALYSE"
    BY DEF AddAnalyseJob, ListInv, PhaseInv
  <2> QED
    BY <1>1, <1>2, <1>3, <2>1
<1> QED
  BY <1>5, <1>6 DEF OnceInv, AddAnalyseJob

\* The second pass adds at most one CC job, for a unit that has none yet.
LEMMA OnceSecond ==
  ASSUME ListInv, OnceInv, AddCompileJobs
  PROVE  OnceInv'
<1> DEFINE u == order[cur]
           c == Job("COMPILE", {u})
           x == Job("CC", {u})
<1>1. /\ Len(jobs) \in Nat /\ Len(order) \in Nat /\ cur \in 1 .. Len(order)
      /\ DOMAIN order = 1 .. Len(order) /\ u \in files
  BY LenProperties, ElementOfSeq DEF AddCompileJobs, ListInv, TypeOK
<1>2. /\ c \in Jobs /\ c.type = "COMPILE" /\ c.units = {u}
      /\ x \in Jobs /\ x.type = "CC" /\ x.units = {u}
  BY <1>1, NewJob DEF JobType
<1>3. UNCHANGED <<args, order, pc>> /\ cur' = cur + 1 /\ pc = "compile_jobs" /\ Stage' = Stage
  BY DEF AddCompileJobs, inputs, Stage
<1>4. \/ jobs' = jobs \/ jobs' = Append(jobs, c) \/ jobs' = Append(Append(jobs, c), x)
  BY DEF AddCompileJobs
<1>5. Append(jobs, c) \in Seq(Jobs) /\ Len(Append(jobs, c)) = Len(jobs) + 1
  BY <1>2, Grows DEF ListInv, TypeOK
<1>6. \A i \in 1 .. Len(jobs) : jobs[i].type = "CC" => jobs[i].units # {u} /\ jobs[i] # x
  <2>1. \A k \in 1 .. cur - 1 : order[k] # u
    BY <1>1 DEF OnceInv
  <2> QED
    BY <1>2, <1>3, <2>1 DEF OnceInv
<1>7. \A i \in 1 .. Len(jobs) :
        /\ jobs[i].type # "LINK"
        /\ jobs[i].type = "CC" => \E k \in 1 .. cur : jobs[i].units = {order[k]}
  <2>1. 1 .. cur - 1 \subseteq 1 .. cur
    BY <1>1
  <2> HIDE DEF u, c, x
  <2> QED
    BY <1>3, <2>1 DEF OnceInv
<1> HIDE DEF u, c, x
<1>8. CASE jobs' = jobs
  BY <1>1, <1>3, <1>7, <1>8 DEF OnceInv
<1>9. CASE jobs' = Append(jobs, c)
  <2>1. /\ Len(jobs') = Len(jobs) + 1 /\ jobs'[Len(jobs) + 1] = c
        /\ \A i \in 1 .. Len(jobs) : jobs'[i] = jobs[i]
    BY <1>2, <1>9, Grows DEF ListInv, TypeOK
  <2>2. \A i \in 1 .. Len(jobs') : i \in 1 .. Len(jobs) \/ jobs'[i] = c
    BY <1>1, <2>1
  <2>3. \A i, j \in 1 .. Len(jobs') : jobs'[i].type = "CC" /\ jobs'[j] = jobs'[i] => i = j
    BY <1>1, <1>2, <2>1, <2>2 DEF OnceInv
  <2>4. \A i \in 1 .. Len(jobs') :
          /\ jobs'[i].type # "LINK"
          /\ jobs'[i].type = "CC" => \E k \in 1 .. cur' - 1 : jobs'[i].units = {order[k]}
    BY <1>1, <1>2, <1>3, <1>7, <2>1, <2>2
  <2> QED
    BY <1>3, <2>3, <2>4 DEF OnceInv
<1>10. CASE jobs' = Append(Append(jobs, c), x)
  <2>1. /\ Len(jobs') = Len(jobs) + 2
        /\ jobs'[Len(jobs) + 1] = c /\ jobs'[Len(jobs) + 2] = x
        /\ \A i \in 1 .. Len(jobs) : jobs'[i] = jobs[i]
    <3>1. /\ Append(jobs, c)[Len(jobs) + 1] = c
          /\ \A i \in 1 .. Len(jobs) : Append(jobs, c)[i] = jobs[i]
      BY <1>2, Grows DEF ListInv, TypeOK
    <3>2. /\ Len(jobs') = Len(jobs) + 2 /\ jobs'[Len(jobs) + 2] = x
          /\ \A i \in 1 .. Len(jobs) + 1 : jobs'[i] = Append(jobs, c)[i]
      BY <1>1, <1>2, <1>5, <1>10, Grows
    <3> QED
      BY <1>1, <3>1, <3>2
  <2>2. \A i \in 1 .. Len(jobs') : i \in 1 .. Len(jobs) \/ jobs'[i] = c \/ i = Len(jobs) + 2
    BY <1>1, <2>1
  <2>3. \A i, j \in 1 .. Len(jobs') : jobs'[i].type = "CC" /\ jobs'[j] = jobs'[i] => i = j
    <3> SUFFICES ASSUME NEW i \in 1 .. Len(jobs'), NEW j \in 1 .. Len(jobs'),
                        jobs'[i].type = "CC", jobs'[j] = jobs'[i]
                 PROVE  i = j
      OBVIOUS
    <3>1. jobs'[i] # c /\ jobs'[j] # c
      BY <1>2
    <3>2. CASE i \in 1 .. Len(jobs)
      BY <1>6, <2>1, <2>2, <3>1, <3>2 DEF OnceInv
    <3>3. CASE i = Len(jobs) + 2
      BY <1>6, <2>1, <2>2, <3>1, <3>3
    <3> QED
      BY <2>2, <3>1, <3>2, <3>3
  <2>4. \A i \in 1 .. Len(jobs') :
          /\ jobs'[i].type # "LINK"
          /\ jobs'[i].type = "CC" => \E k \in 1 .. cur' - 1 : jobs'[i].units = {order[k]}
    <3> SUFFICES ASSUME NEW i \in 1 .. Len(jobs')
                 PROVE  /\ jobs'[i].type # "LINK"
                        /\ jobs'[i].type = "CC" => \E k \in 1 .. cur : jobs'[i].units = {order[k]}
      BY <1>1, <1>3
    <3>1. CASE i \in 1 .. Len(jobs)
      BY <1>7, <2>1, <3>1
    <3>2. CASE jobs'[i] = c
      BY <1>2, <3>2
    <3>3. CASE i = Len(jobs) + 2
      BY <1>1, <1>2, <2>1, <3>3 DEF u
    <3> QED
      BY <2>2, <3>1, <3>2, <3>3
  <2> QED
    BY <1>3, <2>3, <2>4 DEF OnceInv
<1> QED
  BY <1>4, <1>8, <1>9, <1>10

\* The LINK job comes last, when there is none yet.
LEMMA OnceLink ==
  ASSUME ListInv, OnceInv, AddLinkJob
  PROVE  OnceInv'
<1> DEFINE j == Job("LINK", Elems(linkObjs))
<1>1. Len(jobs) \in Nat
  BY LenProperties DEF ListInv, TypeOK
<1>2. j \in Jobs /\ j.type = "LINK"
  <2>1. Elems(linkObjs) \in SUBSET files
    BY DEF Elems, ListInv, TypeOK
  <2> QED
    BY <2>1, NewJob DEF JobType
<1>3. UNCHANGED <<args, order>> /\ pc' = "run" /\ Stage' = Stage
  BY DEF AddLinkJob, inputs, Stage
<1>4. \A i \in 1 .. Len(jobs) : jobs[i].type # "LINK"
  BY DEF OnceInv, AddLinkJob
<1>5. CASE jobs' = jobs
  BY <1>3, <1>4, <1>5 DEF OnceInv
<1>6. CASE jobs' = Append(jobs, j) /\ Stage >= Full
  <2>1. /\ Len(jobs') = Len(jobs) + 1 /\ jobs'[Len(jobs) + 1] = j
        /\ \A i \in 1 .. Len(jobs) : jobs'[i] = jobs[i]
    BY <1>2, <1>6, Grows DEF ListInv, TypeOK
  <2>2. Stage = Full
    BY <1>6, StageType DEF ListInv, Full
  <2> HIDE DEF j
  <2>3. \A i, k \in 1 .. Len(jobs') : jobs'[i].type = "CC" /\ jobs'[k] = jobs'[i] => i = k
    BY <1>1, <1>2, <2>1 DEF OnceInv
  <2>4. \A i \in 1 .. Len(jobs') : jobs'[i].type = "LINK" => i = Len(jobs') /\ Stage' = Full
    BY <1>1, <1>3, <1>4, <2>1, <2>2
  <2> QED
    BY <1>3, <2>3, <2>4 DEF OnceInv
<1> QED
  BY <1>5, <1>6 DEF AddLinkJob

\* Every unit has at most one CC job, and the LINK job is the last of the list: no
\* job of yf_create_compiler_jobs redoes, and so may undo, what another has made.
THEOREM JobsOnce == Spec => []OnceInv
<1>1. Init => OnceInv
  <2> SUFFICES ASSUME Init PROVE OnceInv
    OBVIOUS
  <2>1. Len(jobs) = 0 /\ Len(order) = 0
    BY EmptySeq DEF Init
  <2> QED
    BY <2>1 DEF OnceInv, Init
<1>2. ListInv /\ OnceInv /\ [Next]_vars => OnceInv'
  <2> SUFFICES ASSUME ListInv, OnceInv, [Next]_vars PROVE OnceInv'
    OBVIOUS
  <2>1. TypeOK
    BY DEF ListInv
  <2>2. CASE AllAnalyseJobsAdded
    <3>1. UNCHANGED <<args, order, jobs>> /\ Stage' = Stage
      BY <2>2 DEF AllAnalyseJobsAdded, inputs, created, Stage
    <3>2. \A i \in 1 .. Len(jobs) : jobs[i].type = "ANALYSE"
      BY <2>2 DEF AllAnalyseJobsAdded, ListInv, PhaseInv
    <3> QED
      BY <3>1, <3>2 DEF OnceInv
  <2>3. CASE ScanFails \/ FindCompiler \/ Simulate \/ JobsDone \/ Cleanup \/ UNCHANGED vars
    <3>1. UNCHANGED <<args, order, jobs>> /\ (pc' = "compile_jobs" => UNCHANGED <<pc, cur>>)
      BY <2>3 DEF ScanFails, FindCompiler, Simulate, Return, JobsDone, Cleanup, vars, inputs, created
    <3> QED
      BY <2>1, <3>1, OnceKept DEF TypeOK
  <2>4. ASSUME NEW u \in Units, RunAnalyse(u) \/ RunCompile(u) PROVE OnceInv'
    <3>1. UNCHANGED <<args, order, jobs>> /\ pc' # "compile_jobs"
      BY <2>4 DEF RunAnalyse, RunCompile, Current, Return, inputs, created
    <3> QED
      BY <2>1, <3>1, OnceKept
  <2>5. ASSUME NEW end \in ChildEnds \union {ExecFailed},
               RunLink(end) \/ \E u \in Units : RunCC(u, end)
        PROVE  OnceInv'
    <3>1. UNCHANGED <<args, order, jobs>> /\ pc' # "compile_jobs"
      BY <2>5 DEF RunLink, RunCC, Current, Ended, Return, inputs, created
    <3> QED
      BY <2>1, <3>1, OnceKept
  <2> QED
    BY <2>2, <2>3, <2>4, <2>5, OnceFirst, OnceSecond, OnceLink DEF Next, Create, Execute
<1> QED
  BY <1>1, <1>2, JobList, PTL DEF Spec

-------------------------------------------------------------------------------
\* The loop of yf_run_compiler never takes its cursor back.
LEMMA NoReturn ==
  ASSUME TypeOK, NEW r \in {0, 1, 2}, Return(r), pc = "run"
  PROVE  cur' >= cur /\ cur' \in Nat /\ pc' \in {"run", "cleanup"} /\ (r = 0 => cur' = cur + 1)
BY DEF TypeOK, Return

\* A job that has been passed stays passed.
LEMMA PassedKept ==
  ASSUME TypeOK, UNCHANGED jobs, cur' >= cur, cur' \in Nat, NEW u, Passed(u)
  PROVE  Passed(u)'
<1>1. PICK j \in 1 .. Len(jobs) : j < cur /\ jobs[j] = Job("CC", {u})
  BY DEF Passed
<1>2. j \in Int /\ cur \in Int /\ j < cur'
  BY <1>1, LenProperties DEF TypeOK
<1> QED
  BY <1>1, <1>2 DEF Passed

\* A step that makes nothing and does not go back.
LEMMA MadeKept ==
  ASSUME MadeInv, TypeOK, UNCHANGED <<files, jobs, disk>>, cur' >= cur, cur' \in Nat,
         pc \in {"run", "cleanup", "exit"} => pc' \in {"run", "cleanup", "exit"}
  PROVE  MadeInv'
<1>1. Len(jobs) \in Nat
  BY LenProperties DEF TypeOK
<1>2. \A u : Passed(u) => Passed(u)'
  BY PassedKept
<1> QED
  BY <1>1, <1>2 DEF MadeInv, TypeOK, disk

\* While the list is being made, no job runs.
LEMMA MadeNothing ==
  ASSUME MadeInv, UNCHANGED <<files, disk>>, pc \notin {"run", "cleanup", "exit"}
  PROVE  MadeInv'
BY DEF MadeInv, disk

\* A cc -c job: its own unit's object file is up to date only if the job is passed.
LEMMA MadeByCC ==
  ASSUME IInv, OnceInv, MadeInv, NEW u \in Units, NEW end \in ChildEnds \union {ExecFailed},
         RunCC(u, end)
  PROVE  /\ MadeInv'
         /\ objfile[u] # "fresh" /\ cfile[u] = "fresh" /\ u \in files
         /\ objfile' = objfile \/ objfile' = [objfile EXCEPT ![u] = "fresh"]
                               \/ objfile' = [objfile EXCEPT ![u] = "absent"]
<1>1. TypeOK /\ Len(jobs) \in Nat /\ cur \in Nat
  BY LenProperties DEF IInv, ListInv, TypeOK
<1>2. /\ cur \in 1 .. Len(jobs) /\ jobs[cur].type = "CC" /\ u \in jobs[cur].units
      /\ u \in files /\ jobs[cur] \in Jobs
  BY <1>1, CurrentType DEF RunCC
<1>3. jobs[cur].units = {u}
  BY <1>2 DEF IInv, ListInv, JobsInv, JobOrder
<1>4. jobs[cur] = Job("CC", {u})
  BY <1>2, <1>3 DEF Jobs, Job
<1>5. objfile[u] # "fresh"
  <2> SUFFICES ASSUME objfile[u] = "fresh" PROVE FALSE
    OBVIOUS
  <2>1. PICK j \in 1 .. Len(jobs) : j < cur /\ jobs[j] = Job("CC", {u})
    BY DEF MadeInv, Passed
  <2> QED
    BY <1>1, <1>2, <1>4, <2>1 DEF OnceInv
<1>6. cfile[u] = "fresh"
  BY <1>2, Relies DEF RunCC, IInv
<1>7. PICK r \in {0, 1, 2} : Return(r) /\ r = ExecResult(end)
  BY Ends DEF RunCC, Ended
<1>8. cur' >= cur /\ cur' \in Nat /\ pc = "run" /\ pc' \in {"run", "cleanup"}
  BY <1>1, <1>7, NoReturn DEF RunCC, Current
<1>9. UNCHANGED <<files, jobs, cfile, exe>>
  BY DEF RunCC, inputs, created
<1>10. exe # "fresh"
  BY <1>1, <1>2 DEF MadeInv
<1>11. CASE end = ExitWith(0)
  <2>1. objfile' = [objfile EXCEPT ![u] = "fresh"]
    BY <1>6, <1>11 DEF RunCC
  <2>2. cur' = cur + 1
    <3>1. ExecResult(end) = 0
      BY <1>11 DEF ExitWith, ExecResult, ProcExec, WEXITSTATUS
    <3> QED
      BY <1>1, <1>7, <1>8, <3>1, NoReturn
  <2>3. \A v \in Units : objfile'[v] = "fresh" => v = u \/ objfile[v] = "fresh"
    BY <2>1 DEF TypeOK
  <2>4. \A v \in Units : objfile'[v] = "fresh" =>
          v \in files /\ Passed(v)'
    <3>1. Passed(u)'
      BY <1>1, <1>2, <1>4, <1>9, <2>2 DEF Passed
    <3> QED
      BY <1>1, <1>2, <1>8, <1>9, <2>3, <3>1, PassedKept DEF MadeInv
  <2>5. MadeInv'
    BY <1>8, <1>9, <1>10, <2>4 DEF MadeInv
  <2> QED
    BY <1>2, <1>5, <1>6, <2>1, <2>5
<1>12. CASE end # ExitWith(0)
  <2>1. objfile' = objfile \/ objfile' = [objfile EXCEPT ![u] = "absent"]
    BY <1>12 DEF RunCC
  <2>2. \A v \in Units : objfile'[v] = "fresh" => objfile[v] = "fresh"
    BY <1>1, <2>1 DEF TypeOK
  <2>3. \A v \in Units : objfile'[v] = "fresh" =>
          v \in files /\ Passed(v)'
    BY <1>1, <1>8, <1>9, <2>2, PassedKept DEF MadeInv
  <2>4. MadeInv'
    BY <1>8, <1>9, <1>10, <2>3 DEF MadeInv
  <2> QED
    BY <1>2, <1>5, <1>6, <2>1, <2>4
<1> QED
  BY <1>11, <1>12

\* The LINK job: nothing was linked before it.
LEMMA MadeByLink ==
  ASSUME IInv, OnceInv, MadeInv, NEW end \in ChildEnds \union {ExecFailed}, RunLink(end)
  PROVE  MadeInv' /\ exe # "fresh" /\ Stage = Full
<1>1. TypeOK /\ Len(jobs) \in Nat /\ cur \in Nat
  BY LenProperties DEF IInv, ListInv, TypeOK
<1>2. cur \in 1 .. Len(jobs) /\ jobs[cur].type = "LINK"
  BY <1>1, CurrentType DEF RunLink
<1>3. cur = Len(jobs) /\ Stage = Full
  BY <1>2 DEF OnceInv
<1>4. exe # "fresh"
  BY <1>1, <1>2 DEF MadeInv
<1>5. PICK r \in {0, 1, 2} : Return(r) /\ r = ExecResult(end)
  BY Ends DEF RunLink, Ended
<1>6. /\ cur' >= cur /\ cur' \in Nat /\ pc = "run" /\ pc' \in {"run", "cleanup"}
      /\ (r = 0 => cur' = cur + 1)
  BY <1>1, <1>5, NoReturn DEF RunLink, Current
<1>7. UNCHANGED <<files, jobs, cfile, objfile>>
  BY DEF RunLink, inputs, created
<1>8. exe' = "fresh" => cur' > Len(jobs)
  <2>1. CASE end = ExitWith(0)
    <3>1. ExecResult(end) = 0
      BY <2>1 DEF ExitWith, ExecResult, ProcExec, WEXITSTATUS
    <3> QED
      BY <1>1, <1>3, <1>5, <1>6, <3>1
  <2>2. CASE end # ExitWith(0)
    BY <1>4, <2>2 DEF RunLink
  <2> QED
    BY <2>1, <2>2
<1>9. \A v \in Units : objfile[v] = "fresh" =>
        v \in files /\ Passed(v)'
  BY <1>1, <1>6, <1>7, PassedKept DEF MadeInv
<1> QED
  BY <1>3, <1>4, <1>6, <1>7, <1>8, <1>9 DEF MadeInv

\* Whatever is up to date on disk is so because the job that makes it has been passed.
THEOREM MadeByJobs == Spec => []MadeInv
<1>1. Init => MadeInv
  <2> SUFFICES ASSUME Init PROVE MadeInv
    OBVIOUS
  <2>1. exe # "fresh" /\ \A u \in Units : cfile[u] # "fresh" /\ objfile[u] # "fresh"
    BY DEF Init
  <2> QED
    BY <2>1 DEF MadeInv
<1>2. IInv /\ OnceInv /\ MadeInv /\ [Next]_vars => MadeInv'
  <2> SUFFICES ASSUME IInv, OnceInv, MadeInv, [Next]_vars PROVE MadeInv'
    OBVIOUS
  <2>1. TypeOK
    BY DEF IInv, ListInv
  <2>2. CASE ScanFails \/ FindCompiler \/ AllAnalyseJobsAdded \/ AddCompileJobs \/ AddLinkJob
             \/ \E u \in Units : AddAnalyseJob(u)
    <3>1. UNCHANGED <<files, disk>> /\ pc \notin {"run", "cleanup", "exit"}
      BY <2>2 DEF ScanFails, FindCompiler, AllAnalyseJobsAdded, AddCompileJobs, AddLinkJob,
                  AddAnalyseJob, inputs
    <3> QED
      BY <3>1, MadeNothing
  <2>3. CASE JobsDone \/ Cleanup \/ UNCHANGED vars
    <3>1. /\ UNCHANGED <<files, jobs, disk, cur>>
          /\ pc \in {"run", "cleanup", "exit"} => pc' \in {"run", "cleanup", "exit"}
      BY <2>3 DEF JobsDone, Cleanup, vars, inputs, created
    <3> QED
      BY <2>1, <3>1, MadeKept DEF TypeOK
  <2>4. ASSUME UNCHANGED <<files, jobs, disk>>, pc = "run", NEW r \in {0, 1, 2}, Return(r)
        PROVE  MadeInv'
    BY <2>1, <2>4, NoReturn, MadeKept
  <2>5. CASE Simulate
    BY <2>1, <2>4, <2>5 DEF Simulate, inputs, created, TypeOK
  <2>6. ASSUME NEW u \in Units, RunAnalyse(u) PROVE MadeInv'
    BY <2>4, <2>6 DEF RunAnalyse, Current, inputs, created
  <2>7. ASSUME NEW u \in Units, RunCompile(u) PROVE MadeInv'
    <3>1. UNCHANGED <<files, jobs, objfile, exe>> /\ pc = "run"
      BY <2>7 DEF RunCompile, Current, inputs, created
    <3>2. cur' >= cur /\ cur' \in Nat /\ pc' \in {"run", "cleanup"}
      BY <2>1, <2>7, <3>1, NoReturn DEF RunCompile
    <3>3. u \in files
      BY <2>1, <2>7, CurrentType DEF RunCompile
    <3>4. \A v \in Units : cfile'[v] = "fresh" => v \in files
      <4>1. cfile' = cfile \/ cfile' = [cfile EXCEPT ![u] = "fresh"]
        BY <2>7 DEF RunCompile
      <4> QED
        BY <2>1, <3>3, <4>1 DEF MadeInv, TypeOK
    <3>5. Len(jobs) \in Nat /\ cur \in Nat
      BY <2>1, LenProperties DEF TypeOK
    <3>6. \A v \in Units : objfile[v] = "fresh" =>
            v \in files /\ Passed(v)'
      BY <2>1, <3>1, <3>2, PassedKept DEF MadeInv
    <3>7. exe = "fresh" => cur' > Len(jobs)
      BY <3>2, <3>5 DEF MadeInv
    <3> QED
      BY <3>1, <3>2, <3>4, <3>6, <3>7 DEF MadeInv
  <2>8. ASSUME NEW end \in ChildEnds \union {ExecFailed},
               RunLink(end) \/ \E u \in Units : RunCC(u, end)
        PROVE  MadeInv'
    BY <2>8, MadeByCC, MadeByLink
  <2> QED
    BY <2>2, <2>3, <2>5, <2>6, <2>7, <2>8 DEF Next, Create, Execute
<1> QED
  BY <1>1, <1>2, Inductive, JobsOnce, PTL DEF Spec

-------------------------------------------------------------------------------
(* The refinement.  B!vars is the state of Build as the mapping of Compiler gives it. *)

\* A step that changes nothing Build speaks of, before the invocation exits.
LEMMA Stutters ==
  ASSUME UNCHANGED <<args, files, symtab, ast, disk>>, pc # "exit", pc' # "exit"
  PROVE  UNCHANGED B!vars
<1>1. Stage' = Stage
  BY DEF Stage
<1> QED
  BY <1>1 DEF disk, B!vars, B!progress

\* Exiting with 0 is an "ok" that Build allows; any other exit is a failure.
LEMMA Decides ==
  ASSUME IInv, MadeInv, UNCHANGED <<args, files, front, disk, killed>>, pc # "exit", pc' = "exit",
         res' # 0 \/ (pc = "cleanup" /\ res' = res)
  PROVE  B!Decide
<1>1. Stage' = Stage
  BY DEF Stage
<1>2. UNCHANGED <<files, args, symtab, ast, cfile, objfile, exe, killed>>
  BY DEF front, disk
<1>3. CASE res' = 0 /\ killed = {} /\ ~args.simulate_run
  <2>1. AllMade
    BY <1>3, AllDone
  <2>2. TypeOK
    BY DEF IInv, ListInv
  <2>3. Stage >= CodegenOnly => {u \in Units : objfile[u] = "fresh"} = files
    BY <2>1, <2>2 DEF AllMade, MadeInv, TypeOK
  <2>4. B!Met
    BY <2>1, <2>3 DEF AllMade, B!Met, AnalyseOnly, CodegenOnly, Full
  <2> QED
    BY <1>1, <1>2, <1>3, <2>4 DEF B!Decide, B!progress
<1>4. CASE res' = 0 /\ killed = {} /\ args.simulate_run
  BY <1>1, <1>2, <1>4 DEF B!Decide, B!progress
<1>5. CASE res' # 0 \/ killed # {}
  BY <1>1, <1>2, <1>5 DEF B!Decide, B!progress
<1> QED
  BY <1>3, <1>4, <1>5

\* An ANALYSE job learns the symbols of its unit, if the stage asks for them.
LEMMA AnalyseLearns ==
  ASSUME TypeOK, NEW u \in Units, RunAnalyse(u)
  PROVE  (B!Learn(u) /\ u \in files) \/ UNCHANGED B!vars
<1>1. /\ UNCHANGED <<args, files, cfile, objfile, exe>> /\ Stage' = Stage
      /\ pc = "run" /\ ~args.simulate_run /\ u \in files
  BY CurrentType DEF RunAnalyse, Current, inputs, disk, Stage
<1>2. pc' \in {"run", "cleanup"}
  BY <1>1 DEF RunAnalyse, Return
<1>3. CASE symtab' = symtab /\ ast' = ast
  BY <1>1, <1>2, <1>3, Stutters DEF disk
<1>4. CASE symtab' = symtab \union {u} /\ ast' = ast /\ Stage >= AnalyseOnly
  BY <1>1, <1>2, <1>4 DEF B!Learn, B!Working, AnalyseOnly
<1> QED
  BY <1>3, <1>4 DEF RunAnalyse, front

\* A COMPILE job checks its unit against the whole program, and may generate its C.
LEMMA CompileChecks ==
  ASSUME IInv, NEW u \in Units, RunCompile(u)
  PROVE  (B!Check(u) /\ u \in files) \/ UNCHANGED B!vars
<1> DEFINE generated == {v \in Units : cfile[v] = "fresh"}
<1>1. TypeOK
  BY DEF IInv, ListInv
<1>2. /\ UNCHANGED <<args, files, symtab, objfile, exe>> /\ Stage' = Stage
      /\ pc = "run" /\ ~args.simulate_run /\ u \in files
  BY <1>1, CurrentType DEF RunCompile, Current, inputs, Stage
<1>3. pc' \in {"run", "cleanup"}
  BY <1>2 DEF RunCompile, Return
<1>4. Stage >= AnalyseOnly /\ symtab = files
  <2>1. cur \in 1 .. Len(jobs) /\ jobs[cur].type = "COMPILE"
    BY <1>1, CurrentType DEF RunCompile
  <2>2. Stage >= AnalyseOnly
    BY <2>1 DEF IInv, ListInv, JobsInv, JobOrder
  <2> QED
    BY <1>2, <2>2, Relies DEF RunCompile, IInv
<1>5. CASE UNCHANGED <<ast, cfile>>
  BY <1>2, <1>3, <1>5, Stutters DEF disk
<1>6. CASE ast' = ast \union {u} /\ cfile' = cfile
  BY <1>2, <1>3, <1>4, <1>6 DEF B!Check, B!Working, AnalyseOnly
<1>7. CASE ast' = ast \union {u} /\ cfile' = [cfile EXCEPT ![u] = "fresh"] /\ Stage >= CodegenOnly
  <2>1. generated' = generated \union {u}
    BY <1>1, <1>7 DEF TypeOK
  <2>2. Stage # 2
    BY <1>7, <1>1, StageType DEF CodegenOnly
  <2>3. generated' \in {generated} \union {generated \union {u} : g \in {Stage} \ {2}}
    BY <2>1, <2>2
  <2> QED
    BY <1>2, <1>3, <1>4, <1>7, <2>3 DEF B!Check, B!Working, AnalyseOnly
<1> QED
  BY <1>5, <1>6, <1>7 DEF RunCompile

\* A CC job compiles up-to-date C, or leaves no more than there was.
LEMMA CCCompiles ==
  ASSUME IInv, OnceInv, MadeInv, NEW u \in Units, NEW end \in ChildEnds \union {ExecFailed},
         RunCC(u, end)
  PROVE  (B!Compile(u) /\ u \in files) \/ UNCHANGED B!vars
<1> DEFINE objects == {v \in Units : objfile[v] = "fresh"}
<1>1. TypeOK
  BY DEF IInv, ListInv
<1>2. /\ UNCHANGED <<args, files, symtab, ast, cfile, exe>> /\ Stage' = Stage
      /\ pc = "run" /\ ~args.simulate_run
  BY DEF RunCC, Current, inputs, front, Stage
<1>3. pc' \in {"run", "cleanup"}
  BY <1>2 DEF RunCC, Ended, Return
<1>4. /\ objfile[u] # "fresh" /\ cfile[u] = "fresh" /\ u \in files
      /\ objfile' = objfile \/ objfile' = [objfile EXCEPT ![u] = "fresh"]
                            \/ objfile' = [objfile EXCEPT ![u] = "absent"]
  BY MadeByCC
<1>5. CASE objfile' = [objfile EXCEPT ![u] = "fresh"]
  <2>1. objects' = objects \union {u}
    BY <1>1, <1>5 DEF TypeOK
  <2> QED
    BY <1>2, <1>3, <1>4, <2>1 DEF B!Compile, B!Working
<1>6. CASE objfile' = objfile \/ objfile' = [objfile EXCEPT ![u] = "absent"]
  <2>1. objects' = objects
    BY <1>1, <1>4, <1>6 DEF TypeOK
  <2> QED
    BY <1>2, <1>3, <2>1 DEF B!vars, B!progress
<1> QED
  BY <1>4, <1>5, <1>6

\* The LINK job links up-to-date object files, or leaves no more than there was.
LEMMA LinkLinks ==
  ASSUME IInv, OnceInv, MadeInv, NEW end \in ChildEnds \union {ExecFailed}, RunLink(end)
  PROVE  B!Link \/ UNCHANGED B!vars
<1>1. TypeOK
  BY DEF IInv, ListInv
<1>2. /\ UNCHANGED <<args, files, symtab, ast, cfile, objfile>> /\ Stage' = Stage
      /\ pc = "run" /\ ~args.simulate_run
  BY DEF RunLink, Current, inputs, front, Stage
<1>3. pc' \in {"run", "cleanup"}
  BY <1>2 DEF RunLink, Ended, Return
<1>4. exe # "fresh" /\ Stage = Full
  BY MadeByLink
<1>5. CASE exe' = "fresh"
  <2>1. jobs[cur].units = files
    BY Relies DEF RunLink, IInv
  <2>2. {objfile[u] : u \in files} \subseteq {"fresh"}
    BY <1>4, <1>5, <2>1 DEF RunLink
  <2>3. {u \in Units : objfile[u] = "fresh"} = files
    BY <1>1, <2>2 DEF MadeInv, TypeOK
  <2> QED
    BY <1>2, <1>3, <1>4, <1>5, <2>3 DEF B!Link, B!Working, Full
<1>6. CASE exe' # "fresh"
  BY <1>2, <1>3, <1>4, <1>6 DEF B!vars, B!progress
<1> QED
  BY <1>5, <1>6

\* Every behaviour of the job system is one that Build allows: the safety part of
\* ImplementsBuild.  (That Build's fairness is implemented too is left to the model checker.)
THEOREM Refinement == Spec => B!Safety
<1>1. Init => B!Init
  <2> SUFFICES ASSUME Init PROVE B!Init
    OBVIOUS
  <2>1. {u \in Units : cfile[u] = "fresh"} = {} /\ {u \in Units : objfile[u] = "fresh"} = {}
    BY DEF Init
  <2>2. Stage \in 0 .. 4 /\ args.simulate_run \in BOOLEAN
    BY DEF Init, Args, Stage, LexOnly, ParseOnly, AnalyseOnly, CodegenOnly, Full
  <2> QED
    BY <2>1, <2>2 DEF Init, B!Init
<1>2. IInv /\ OnceInv /\ MadeInv /\ [Next]_vars => [B!Next]_(B!vars)
  <2> SUFFICES ASSUME IInv, OnceInv, MadeInv, [Next]_vars PROVE B!Next \/ UNCHANGED B!vars
    OBVIOUS
  <2>1. TypeOK
    BY DEF IInv, ListInv
  <2>2. CASE ScanFails
    <3>1. /\ UNCHANGED <<args, files, front, disk, killed>>
          /\ pc # "exit" /\ pc' = "exit" /\ res' # 0
      BY <2>2 DEF ScanFails, inputs
    <3> QED
      BY <3>1, Decides DEF B!Next
  <2>3. CASE Cleanup
    <3>1. /\ UNCHANGED <<args, files, front, disk, killed>>
          /\ pc = "cleanup" /\ pc' = "exit" /\ res' = res
      BY <2>3 DEF Cleanup, inputs
    <3> QED
      BY <3>1, Decides DEF B!Next
  <2>4. CASE \/ FindCompiler \/ AllAnalyseJobsAdded \/ AddCompileJobs \/ AddLinkJob
             \/ Simulate \/ JobsDone \/ \E u \in Units : AddAnalyseJob(u)
    <3>1. UNCHANGED <<args, files, symtab, ast, disk>> /\ pc # "exit" /\ pc' # "exit"
      BY <2>4 DEF FindCompiler, AllAnalyseJobsAdded, AddCompileJobs, AddLinkJob, Simulate, Return,
                  JobsDone, AddAnalyseJob, inputs, front
    <3> QED
      BY <3>1, Stutters
  <2>5. ASSUME NEW u \in Units, RunAnalyse(u) \/ RunCompile(u)
        PROVE  B!Next \/ UNCHANGED B!vars
    BY <2>1, <2>5, AnalyseLearns, CompileChecks DEF B!Next
  <2>6. ASSUME NEW end \in ChildEnds \union {ExecFailed},
               RunLink(end) \/ \E u \in Units : RunCC(u, end)
        PROVE  B!Next \/ UNCHANGED B!vars
    BY <2>6, CCCompiles, LinkLinks DEF B!Next
  <2>7. CASE UNCHANGED vars
    <3>1. UNCHANGED <<args, files, symtab, ast, cfile, objfile, exe, pc, res, killed>>
      BY <2>7 DEF vars, inputs, front, disk
    <3> QED
      BY <3>1 DEF B!vars, B!progress, Stage
  <2> QED
    BY <2>2, <2>3, <2>4, <2>5, <2>6, <2>7 DEF Next, Create, Execute
<1> QED
  BY <1>1, <1>2, Inductive, JobsOnce, MadeByJobs, PTL DEF Spec, B!Safety
===============================================================================
