-------------------------------- MODULE Args --------------------------------
(***************************************************************************)
(* yf_parse_args of driver/args.c, one argument per step.  An argument is  *)
(* an option, without its dashes, or any other word.                       *)
(***************************************************************************)
EXTENDS Naturals, Sequences, FiniteSets, FiniteSetsExt

CONSTANTS Argvs, \* the argument lists
          None

\* An argument list is finite, no argument is the null pointer, and None is not a wish either.
ASSUME ArgsAssumption ==
  /\ \A a \in Argvs : a \in Seq({a[j] : j \in DOMAIN a} \ {None})
  /\ None \notin {"name", "type"}

VARIABLES argv,
          i,      \* the argument that is next
          want,   \* "name" or "type" after --native-compiler or --compiler-type
          args,   \* struct yf_args
          parse   \* "parsing" or "parsed"

argsVars == <<argv, i, want, args, parse>>

-----------------------------------------------------------------------------

InfoOptions  == {"help", "version"}
ValueOptions == {"native-compiler", "compiler-type"}
StageFlag    == [o \in {"dump-tokens", "dump-cst", "just-semantics"} |->
                   CASE o = "dump-tokens" -> "tdump"
                     [] o = "dump-cst" -> "cstdump"
                     [] o = "just-semantics" -> "just_semantics"]
StageFlags   == {"tdump", "cstdump", "just_semantics"}
Options == InfoOptions \cup ValueOptions \cup DOMAIN StageFlag \cup
           {"project", "just-gen", "benchmark", "dump-projfiles", "dump-commands",
            "simulate-run", "unknown"}
CompilerTypes == {"gcc", "msvc"}

NoArgs ==
  [compiler |-> None, compiler_class |-> None, files |-> <<>>,
   tdump |-> FALSE, cstdump |-> FALSE, just_semantics |-> FALSE, project |-> FALSE,
   run_c_comp |-> TRUE, profile |-> FALSE, dump_projfiles |-> FALSE,
   dump_commands |-> FALSE, simulate_run |-> FALSE,
   wanted_output |-> "none", error |-> FALSE]

ArgsInit ==
  /\ argv \in Argvs
  /\ i = 1 /\ want = None /\ args = NoArgs /\ parse = "parsing"

\* yf_set_error
SetError(a) == [a EXCEPT !.error = TRUE, !.wanted_output = "error"]

\* Mutant: the last one counts.
CheckAction_Last(a, out) == [a EXCEPT !.wanted_output = out]

\* yf_check_action
CheckAction(a, out) ==
  IF a.wanted_output # "none" THEN SetError(a) ELSE [a EXCEPT !.wanted_output = out]

\* The loop of yf_parse_args goes on to the next argument, or the function returns.
Continue(a, w) ==
  /\ args' = a /\ want' = w /\ i' = i + 1
  /\ UNCHANGED <<argv, parse>>

Stop(a) ==
  /\ args' = a /\ parse' = "parsed"
  /\ UNCHANGED <<argv, i, want>>

Reading(wanted) == parse = "parsing" /\ i <= Len(argv) /\ want = wanted
Option(o) == Reading(None) /\ argv[i] = o

CompilerName ==
  /\ Reading("name")
  /\ IF args.compiler = None
     THEN Continue([args EXCEPT !.compiler = argv[i]], None)
     ELSE Stop(SetError(args))

\* A type that is not known is an error, but what follows is still parsed.
CompilerType ==
  /\ Reading("type")
  /\ IF args.compiler_class # None
     THEN Stop(SetError(args))
     ELSE Continue(IF argv[i] \in CompilerTypes
                   THEN [args EXCEPT !.compiler_class = argv[i]]
                   ELSE SetError(args),
                   None)

Info == \E o \in InfoOptions : Option(o) /\ Continue(CheckAction(args, o), None)

ValueOption ==
  \E o \in ValueOptions :
    /\ Option(o)
    /\ IF i = Len(argv)
       THEN Stop(SetError(args))
       ELSE Continue(args, IF o = "native-compiler" THEN "name" ELSE "type")

\* Mutant: files that came before are forgotten.
Project_NoCheck == Option("project") /\ Continue([args EXCEPT !.project = TRUE], None)

Project ==
  /\ Option("project")
  /\ LET a == [args EXCEPT !.project = TRUE]
     IN  IF args.files # <<>> THEN Stop(SetError(a)) ELSE Continue(a, None)

JustGen == Option("just-gen") /\ Continue([args EXCEPT !.run_c_comp = FALSE], None)

\* The three ways to stop early exclude each other.
StopEarly ==
  \E o \in DOMAIN StageFlag :
    /\ Option(o)
    /\ IF \E f \in StageFlags \ {StageFlag[o]} : args[f]
       THEN Stop(SetError(args))
       ELSE Continue([args EXCEPT ![StageFlag[o]] = TRUE], None)

Benchmark ==
  /\ Option("benchmark")
  /\ IF args.profile \/ args.wanted_output # "none"
     THEN Stop(SetError(args))
     ELSE Continue([args EXCEPT !.profile = TRUE], None)

DumpProjfiles ==
  /\ Option("dump-projfiles")
  /\ Continue([args EXCEPT !.dump_projfiles = TRUE, !.project = TRUE], None)

DumpCommands ==
  Option("dump-commands") /\ Continue([args EXCEPT !.dump_commands = TRUE], None)

SimulateRun ==
  /\ Option("simulate-run")
  /\ Continue([args EXCEPT !.simulate_run = TRUE, !.dump_commands = TRUE], None)

UnknownOption == Option("unknown") /\ Stop(SetError(args))

\* yf_add_file
AddFile ==
  /\ Reading(None) /\ argv[i] \notin Options
  /\ IF args.wanted_output # "none" \/ args.project
     THEN Stop(SetError(args))
     ELSE Continue([args EXCEPT !.files = Append(@, argv[i])], None)

EndOfArgs ==
  /\ parse = "parsing" /\ i > Len(argv)
  /\ Stop(IF args.wanted_output = "none" /\ ~args.project /\ args.files = <<>>
          THEN [args EXCEPT !.error = TRUE, !.wanted_output = "no_args"]
          ELSE args)

ParseArgs ==
  \/ CompilerName \/ CompilerType \/ Info \/ ValueOption \/ Project \/ JustGen
  \/ StopEarly \/ Benchmark \/ DumpProjfiles \/ DumpCommands \/ SimulateRun
  \/ UnknownOption \/ AddFile \/ EndOfArgs

\* yf_should_compile
ShouldCompile == args.wanted_output = "none"

-----------------------------------------------------------------------------
(* What a command line v means, read as a whole. *)

\* The argument at j is the value of the one before it: an odd number of value options precede it.
IsValue(v, j) ==
  Max({n \in 0 .. j - 1 : \A m \in j - n .. j - 1 : v[m] \in ValueOptions}) % 2 = 1

At(v, o) == {j \in DOMAIN v : v[j] = o /\ ~IsValue(v, j)}
Given(v, o) == At(v, o) # {}
Words(v) == {j \in DOMAIN v : v[j] \notin Options /\ ~IsValue(v, j)}

\* A project takes no files; of the words before it, --dump-projfiles takes no notice.
Acceptable(v) ==
  /\ \A o \in InfoOptions \cup {"unknown"} : ~Given(v, o)
  /\ \A o \in ValueOptions \cup {"benchmark"} : Cardinality(At(v, o)) <= 1
  /\ \A o \in ValueOptions : Len(v) \notin At(v, o)
  /\ \A j \in At(v, "compiler-type") : v[j + 1] \in CompilerTypes
  /\ Cardinality({o \in DOMAIN StageFlag : Given(v, o)}) <= 1
  /\ Given(v, "project") => Words(v) = {}
  /\ \A j \in At(v, "dump-projfiles"), w \in Words(v) : w < j
  /\ Given(v, "project") \/ Given(v, "dump-projfiles") \/ Words(v) # {}

\* The options of v have had their effect on a, and the files of a are the words of v that are
\* neither options nor their values, in their order.
Effects(v, a) ==
  /\ \A o \in DOMAIN StageFlag : a[StageFlag[o]] <=> Given(v, o)
  /\ a.project <=> Given(v, "project") \/ Given(v, "dump-projfiles")
  /\ a.run_c_comp <=> ~Given(v, "just-gen")
  /\ a.profile <=> Given(v, "benchmark")
  /\ a.dump_projfiles <=> Given(v, "dump-projfiles")
  /\ a.simulate_run <=> Given(v, "simulate-run")
  /\ a.dump_commands <=> Given(v, "simulate-run") \/ Given(v, "dump-commands")
  /\ \A j \in At(v, "native-compiler") : a.compiler = v[j + 1]
  /\ \A j \in At(v, "compiler-type") : a.compiler_class = v[j + 1]
  /\ Len(a.files) = Cardinality(Words(v))
  /\ \A w \in Words(v) : a.files[Cardinality({u \in Words(v) : u <= w})] = v[w]

\* A command line is accepted exactly when it is acceptable, and then each option has its effect
\* and the files are its words (yf_parse_args).
ParsedRight ==
  parse = "parsed" =>
    /\ ShouldCompile <=> Acceptable(argv)
    /\ ShouldCompile => Effects(argv, args)

\* An error in the arguments is never forgotten, whatever arguments follow it: the compiler is not
\* run and the hint is printed (yf_set_error, yf_check_action).
ErrorSticks ==
  [][args.error => args'.error /\ args'.wanted_output = args.wanted_output]_argsVars
=============================================================================
