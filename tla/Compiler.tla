------------------------------- MODULE Compiler -------------------------------
(***************************************************************************)
(* The driver's job system, src/driver/compile.c and compiler-backend.c:   *)
(* from parsed arguments and a set of source files to a list of jobs, the  *)
(* execution of the jobs in order, and the exit code.                      *)
(*                                                                         *)
(* One behaviour is one invocation of yfc.  What is inside a job (lexing,  *)
(* parsing, validating, generating) is a choice between success and        *)
(* failure; what a job leaves behind for the later ones is kept.           *)
(***************************************************************************)
EXTENDS Integers, Sequences, FiniteSets, Os

CONSTANTS
  Units,      \* the files that may be in src/ or on the command line
  Prefix,     \* the identifier prefix the project scan gives each file
  ChildEnds   \* the ways a C compiler or linker process may end

ASSUME CompilerAssumption == ChildEnds \subseteq StatusWord \union {ForkFailed, WaitFailed}

\* enum yf_compilation_stage
LexOnly     == 0
ParseOnly   == 1
AnalyseOnly == 2
CodegenOnly == 3
Full        == 4

\* A generated file is absent, left by an earlier invocation, or written by this one.
FileState == {"absent", "stale", "fresh"}

VARIABLES
  args,       \* struct yf_args
  files,      \* the keys of data->files
  mains,      \* the files that declare a symbol called main
  anew,       \* the files whose parse_anew is set
  pc,         \* where yf_run_compiler is
  order,      \* the files in the order the hash map's cursor visits them
  jobs,       \* compilation->jobs
  linkObjs,   \* link_objs: the units whose object files are to be linked
  selected,   \* has args->selected_compiler been set?
  cur,        \* the cursor of the loop that runs: over order, then over jobs
  res,        \* yf_run_compiler's res
  symtab,     \* the units whose own symbol table has been built
  symtables,  \* compilation->symtables: the units its entries point to
  ast,        \* the units that passed validation
  cfile,      \* unit -> state of its C file
  objfile,    \* unit -> state of its object file
  exe,        \* state of the executable
  killed      \* jobs whose child ended by a signal (the code keeps no such record)

inputs  == <<args, files, mains, anew>>
created == <<order, jobs, linkObjs, selected>>
front   == <<symtab, symtables, ast>>
disk    == <<cfile, objfile, exe>>
vars    == <<inputs, created, front, disk, pc, cur, res, killed>>

-------------------------------------------------------------------------------
\* What yf_parse_args can leave in args: the three early stops exclude each other.
Args == {a \in [{"project", "tdump", "cstdump", "just_semantics", "run_c_comp",
                 "simulate_run"} -> BOOLEAN] :
           \A f, g \in {"tdump", "cstdump", "just_semantics"} : a[f] /\ a[g] => f = g}

Stage == IF args.tdump          THEN LexOnly     ELSE
         IF args.cstdump        THEN ParseOnly   ELSE
         IF args.just_semantics THEN AnalyseOnly ELSE
         IF ~args.run_c_comp    THEN CodegenOnly ELSE Full

\* CC and LINK are the two kinds of EXEC job: cc -c of one unit's C file, and the
\* final command over the object files of all units.
JobType == {"ANALYSE", "COMPILE", "CC", "LINK"}
Job(type, units) == [type |-> type, units |-> units]
Jobs == [type : JobType, units : SUBSET files]

Elems(s) == {s[i] : i \in DOMAIN s}

\* One invocation: any arguments and files, in a directory where an earlier
\* invocation may have left its products.  Files named on the command line are
\* always parsed anew.
Init ==
  /\ args \in Args
  /\ files \in SUBSET Units /\ mains \in SUBSET files /\ anew \in SUBSET files
  /\ ~args.project => files # {} /\ anew = files
  /\ pc = "find_compiler" /\ cur = 1 /\ res = 0
  /\ order = <<>> /\ jobs = <<>> /\ linkObjs = <<>> /\ selected = FALSE
  /\ symtab = {} /\ symtables = {} /\ ast = {} /\ killed = {}
  /\ exe \in {"absent", "stale"}
  /\ cfile = [u \in Units |-> exe] /\ objfile = [u \in Units |-> exe]

-------------------------------------------------------------------------------
(* Creating the jobs: yf_create_compilation_data *)

\* The project scan fails: yf_run_compiler returns at once, without cleaning up.
ScanFails ==
  /\ pc = "find_compiler" /\ args.project
  /\ res' = 1 /\ pc' = "exit"
  /\ UNCHANGED <<inputs, created, front, disk, cur, killed>>

\* yf_backend_find_compiler; whether it found a compiler makes no difference here.
FindCompiler ==
  /\ pc = "find_compiler"
  /\ selected' \in BOOLEAN
  /\ pc' = "analyse_jobs"
  /\ UNCHANGED <<inputs, order, jobs, linkObjs, front, disk, cur, res, killed>>

\* Mutant: one pass that adds the COMPILE job of a unit right after its ANALYSE job.
AddAnalyseJob_OnePass(u) ==
  /\ pc = "analyse_jobs"
  /\ u \in files \ Elems(order)
  /\ order' = Append(order, u)
  /\ jobs' = jobs \o <<Job("ANALYSE", {u}), Job("COMPILE", {u})>>
  /\ UNCHANGED <<inputs, linkObjs, selected, front, disk, pc, cur, res, killed>>

\* First pass of yf_create_compiler_jobs: an ANALYSE job for the next unit.
AddAnalyseJob(u) ==
  /\ pc = "analyse_jobs"
  /\ u \in files \ Elems(order)
  /\ order' = Append(order, u)
  /\ jobs' = Append(jobs, Job("ANALYSE", {u}))
  /\ UNCHANGED <<inputs, linkObjs, selected, front, disk, pc, cur, res, killed>>

AllAnalyseJobsAdded ==
  /\ pc = "analyse_jobs" /\ files \subseteq Elems(order)
  /\ pc' = "compile_jobs"
  /\ UNCHANGED <<inputs, created, front, disk, cur, res, killed>>

\* Mutant: the C compiler's job is added before the job that writes its input.
AddCompileJobs_Swapped ==
  /\ pc = "compile_jobs" /\ cur =< Len(order)
  /\ \/ /\ Stage < AnalyseOnly
        /\ UNCHANGED <<jobs, linkObjs>>
     \/ /\ Stage = AnalyseOnly
        /\ jobs' = Append(jobs, Job("COMPILE", {order[cur]}))
        /\ UNCHANGED linkObjs
     \/ /\ Stage >= CodegenOnly
        /\ jobs' = Append(Append(jobs, Job("CC", {order[cur]})), Job("COMPILE", {order[cur]}))
        /\ linkObjs' = Append(linkObjs, order[cur])
  /\ cur' = cur + 1
  /\ UNCHANGED <<inputs, order, selected, front, disk, pc, res, killed>>

\* Second pass, over the same entries in the same order: a COMPILE job for the
\* unit and, when C is to be generated, the job that compiles that C.
AddCompileJobs ==
  /\ pc = "compile_jobs" /\ cur =< Len(order)
  /\ \/ /\ Stage < AnalyseOnly
        /\ UNCHANGED <<jobs, linkObjs>>
     \/ /\ Stage = AnalyseOnly
        /\ jobs' = Append(jobs, Job("COMPILE", {order[cur]}))
        /\ UNCHANGED linkObjs
     \/ /\ Stage >= CodegenOnly
        /\ jobs' = Append(Append(jobs, Job("COMPILE", {order[cur]})), Job("CC", {order[cur]}))
        /\ linkObjs' = Append(linkObjs, order[cur])
  /\ cur' = cur + 1
  /\ UNCHANGED <<inputs, order, selected, front, disk, pc, res, killed>>

\* After the passes: one LINK job if there is anything to link and the stage asks for it.
AddLinkJob ==
  /\ pc = "compile_jobs" /\ cur > Len(order)
  /\ jobs' = IF linkObjs # <<>> /\ Stage >= Full
             THEN Append(jobs, Job("LINK", Elems(linkObjs))) ELSE jobs
  /\ pc' = "run" /\ cur' = 1
  /\ UNCHANGED <<inputs, order, linkObjs, selected, front, disk, res, killed>>

-------------------------------------------------------------------------------
(* Running the jobs: the loop of yf_run_compiler *)

Current(type) == pc = "run" /\ cur =< Len(jobs) /\ jobs[cur].type = type

\* Mutant: the loop goes on after a failed job.
Return_NoBreak(r) == res' = r /\ cur' = cur + 1 /\ UNCHANGED pc

\* The end of the loop body: the first job that does not return 0 ends the loop.
Return(r) ==
  /\ res' = r
  /\ IF r # 0 THEN pc' = "cleanup" /\ UNCHANGED cur
              ELSE cur' = cur + 1 /\ UNCHANGED pc

\* Mutant: a dry run stops one job short.
Simulate_Short ==
  /\ pc = "run" /\ cur =< Len(jobs) /\ args.simulate_run
  /\ IF cur = Len(jobs) THEN pc' = "cleanup" /\ UNCHANGED <<res, cur>> ELSE Return(res)
  /\ UNCHANGED <<inputs, created, front, disk, killed>>

\* With --simulate-run a job is printed and not executed.
Simulate ==
  /\ pc = "run" /\ cur =< Len(jobs) /\ args.simulate_run
  /\ Return(res)
  /\ UNCHANGED <<inputs, created, front, disk, killed>>

\* yfc_run_frontend_build_symtable.  The table is entered under the unit's prefix,
\* which replaces an entry with an equal prefix; units named on the command line
\* have no prefix and are not entered.
RunAnalyse(u) ==
  /\ Current("ANALYSE") /\ u \in jobs[cur].units /\ ~args.simulate_run
  /\ \/ /\ Return(1)     \* unreadable, not a regular file, or in error
        /\ UNCHANGED front
     \/ /\ Return(0)
        /\ symtab' = IF Stage >= AnalyseOnly THEN symtab \union {u} ELSE symtab
        /\ symtables' = IF Stage >= AnalyseOnly /\ args.project
                        THEN {v \in symtables : Prefix[v] # Prefix[u]} \union {u}
                        ELSE symtables
        /\ UNCHANGED ast
  /\ UNCHANGED <<inputs, created, disk, killed>>

\* Mutant: only a program without any entry point is refused.
NotOneEntryPoint_Lax == symtables \intersect mains = {}

\* yf_ensure_entry_point
NotOneEntryPoint == Cardinality(symtables \intersect mains) # 1

\* yfc_validate_compile
RunCompile(u) ==
  /\ Current("COMPILE") /\ u \in jobs[cur].units /\ ~args.simulate_run
  /\ \/ /\ Return(1)     \* yf_validate_ast found errors
        /\ UNCHANGED <<ast, cfile>>
     \/ /\ ast' = ast \union {u}
        /\ \/ Stage < CodegenOnly /\ Return(0) /\ UNCHANGED cfile
           \/ /\ Stage >= CodegenOnly /\ NotOneEntryPoint
              /\ Return(1) /\ UNCHANGED cfile
           \/ /\ Stage >= CodegenOnly /\ ~NotOneEntryPoint
              /\ \/ Return(0) /\ cfile' = [cfile EXCEPT ![u] = "fresh"]
                 \/ Return(1) /\ UNCHANGED cfile     \* the C file cannot be opened
  /\ UNCHANGED <<inputs, created, symtab, symtables, objfile, exe, killed>>

\* How the child of an EXEC job may end.  Without a selected compiler argv[0] is
\* NULL and execv fails.
MayEnd(end) == /\ end \in ChildEnds \union {ExecFailed}
               /\ end \in {ForkFailed, WaitFailed, ExecFailed} \/ selected

\* Mutant: what the child returned is passed on as it is.
ExecResult_Raw(end) == ProcExec(end)

\* yf_exec_command
ExecResult(end) == IF ProcExec(end) # 0 THEN 2 ELSE 0

Ended(end) ==
  /\ Return(ExecResult(end))
  /\ killed' = IF end >= 0 /\ ~Exited(end) THEN killed \union {cur} ELSE killed

\* cc -c: exit status 0 means that the object file is the compiled C file; any
\* other end leaves the old object file or none.
RunCC(u, end) ==
  /\ Current("CC") /\ u \in jobs[cur].units /\ ~args.simulate_run
  /\ MayEnd(end) /\ Ended(end)
  /\ IF end = ExitWith(0)
     THEN cfile[u] # "absent" /\ objfile' = [objfile EXCEPT ![u] = cfile[u]]
     ELSE objfile' \in {objfile, [objfile EXCEPT ![u] = "absent"]}
  /\ UNCHANGED <<inputs, created, front, cfile, exe>>

\* The same for the linker: it needs every object file, and what it makes of them
\* is of this invocation only if they all are.
RunLink(end) ==
  /\ Current("LINK") /\ ~args.simulate_run
  /\ MayEnd(end) /\ Ended(end)
  /\ LET objs == {objfile[u] : u \in jobs[cur].units}
     IN IF end = ExitWith(0)
        THEN "absent" \notin objs /\ exe' = IF objs \subseteq {"fresh"} THEN "fresh" ELSE "stale"
        ELSE exe' \in {exe, "absent"}
  /\ UNCHANGED <<inputs, created, front, cfile, objfile>>

\* Mutant: the end of the list is looked for one element too far.
JobsDone_OffByOne ==
  /\ pc = "run" /\ cur > Len(jobs) + 1
  /\ pc' = "cleanup"
  /\ UNCHANGED <<inputs, created, front, disk, cur, res, killed>>

JobsDone ==
  /\ pc = "run" /\ cur > Len(jobs)
  /\ pc' = "cleanup"
  /\ UNCHANGED <<inputs, created, front, disk, cur, res, killed>>

\* yf_cleanup frees what the jobs built; nothing on disk depends on it.
Cleanup ==
  /\ pc = "cleanup"
  /\ pc' = "exit"
  /\ UNCHANGED <<inputs, created, front, disk, cur, res, killed>>

Create == \/ ScanFails \/ FindCompiler \/ AllAnalyseJobsAdded \/ AddCompileJobs \/ AddLinkJob
          \/ \E u \in Units : AddAnalyseJob(u)

Execute == \/ Simulate \/ JobsDone \/ Cleanup
           \/ \E u \in Units : RunAnalyse(u) \/ RunCompile(u)
           \/ \E end \in ChildEnds \union {ExecFailed} :
                 RunLink(end) \/ \E u \in Units : RunCC(u, end)

Next == Create \/ Execute

\* The program is sequential and calls nothing that waits for another invocation;
\* that every call returns is what the fairness assumes (Lexer checks when lexing does).
Spec == Init /\ [][Next]_vars /\ WF_vars(Next)

-------------------------------------------------------------------------------
(* Properties *)

TypeOK ==
  /\ args \in Args
  /\ files \subseteq Units /\ mains \subseteq files /\ anew \subseteq files
  /\ pc \in {"find_compiler", "analyse_jobs", "compile_jobs", "run", "cleanup", "exit"}
  /\ order \in Seq(files) /\ linkObjs \in Seq(files)
  /\ jobs \in Seq(Jobs)
  /\ selected \in BOOLEAN /\ cur \in Nat \ {0} /\ res \in {0, 1, 2}
  /\ symtab \subseteq files /\ symtables \subseteq files /\ ast \subseteq files
  /\ cfile \in [Units -> FileState] /\ objfile \in [Units -> FileState]
  /\ exe \in FileState /\ killed \subseteq Nat

PrefixesDistinct == \A u, v \in files : Prefix[u] = Prefix[v] => u = v

\* No unit is validated before the symbols of every unit are there to be looked up:
\* the two passes of yf_create_compiler_jobs put all ANALYSE jobs first, and the
\* loop of yf_run_compiler passes none that failed.
ValidatedAgainstWholeProgram ==
  ast # {} => /\ symtab = files
              /\ args.project /\ PrefixesDistinct => symtables = files

\* C is only ever generated for a program with one main: the check in
\* yfc_validate_compile counts the entries of compilation->symtables, so this needs
\* every table to be there when the first unit is generated.
OneEntryPoint ==
  PrefixesDistinct /\ (\E u \in files : cfile[u] = "fresh") => Cardinality(mains) = 1

\* When the link command runs it is given the object file of every unit, and none
\* that an earlier invocation left behind, unless a child was killed unnoticed.
LinksThisBuild ==
  Current("LINK") /\ ~args.simulate_run /\ killed = {} =>
    jobs[cur].units = files /\ \A u \in files : objfile[u] = "fresh"

\* The work that the stage asks for has been done, for every unit.
AllMade == /\ Stage >= AnalyseOnly => ast = files
           /\ Stage >= CodegenOnly => \A u \in files : cfile[u] = "fresh" /\ objfile[u] = "fresh"
           /\ Stage = Full /\ files # {} => exe = "fresh"

\* yfc exits with 0 only if every job did what it is for, as long as each child
\* ended by itself.
HonestExit == pc = "exit" /\ res = 0 /\ killed = {} /\ ~args.simulate_run => AllMade

\* --simulate-run reaches every job that a real run would be given, and does none.
DryRun ==
  args.simulate_run =>
    /\ pc = "exit" /\ res = 0 => cur = Len(jobs) + 1
    /\ symtab = {} /\ ast = {} /\ killed = {}
    /\ exe # "fresh" /\ \A u \in Units : "fresh" \notin {cfile[u], objfile[u]}

\* Every invocation ends.
Terminates == <>(pc = "exit")

\* The job system implements the promise of Build.  A child killed by a signal
\* counts as a failure here, which the exit code does not show: ExitCodeTells below.
B == INSTANCE Build WITH
       goal <- Stage, dry <- args.simulate_run, known <- symtab, checked <- ast,
       generated <- {u \in Units : cfile[u] = "fresh"},
       objects <- {u \in Units : objfile[u] = "fresh"},
       linked <- exe = "fresh",
       verdict <- IF pc # "exit" THEN "pending"
                  ELSE IF res = 0 /\ killed = {} THEN "ok" ELSE "failed"

ImplementsBuild == B!Spec

\* compile.h promises a non-zero code "if something goes wrong".  Refuted: proc_wait
\* takes WEXITSTATUS of the status of a killed child, which is 0.
ExitCodeTells == pc = "exit" /\ res = 0 /\ ~args.simulate_run => AllMade

\* "yfc <file1> <file2> ...: compile and link the given files", says the usage text.
\* Refuted: no table of theirs is entered in symtables, so the entry point check
\* counts none, and refuses a program that has exactly one main.
RefusedRightly ==
  Current("COMPILE") /\ Stage >= CodegenOnly /\ ~args.simulate_run /\ ~args.project =>
    (NotOneEntryPoint => Cardinality(mains) # 1)
===============================================================================
