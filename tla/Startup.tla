------------------------------- MODULE Startup -------------------------------
(***************************************************************************)
(* main and the first half of yf_run_compiler: the arguments are parsed    *)
(* (Args), and either a message is printed or the files to compile are     *)
(* collected, from the command line or by a scan of src/ (ProjectFiles).   *)
(* What becomes of the files is the business of module Compiler.           *)
(***************************************************************************)
EXTENDS Args, ProjectFiles

CONSTANTS Folders  \* what src/ may hold; NoFolder: it does not exist

\* There is room for src/ in a path, memory holds tokens as paths do, and None is no exit code.
ASSUME StartupAssumption ==
  /\ MaxPath \in Nat /\ MaxPath > 2
  /\ \A rest \in Unwritten : rest \in Seq(Range(rest))
  /\ \A folder \in Folders \ {NoFolder} : IsTree(folder)
  /\ None \notin {0, 1}

VARIABLES exit  \* the exit code, None while there is none

vars == <<argsVars, scanVars, exit>>

Init == ArgsInit /\ ScanInit /\ exit = None

Parse == ParseArgs /\ UNCHANGED <<scanVars, exit>>

\* yf_output_info
OutputInfo ==
  /\ parse = "parsed" /\ ~ShouldCompile /\ exit = None
  /\ exit' = IF args.wanted_output \in InfoOptions THEN 0 ELSE 1
  /\ UNCHANGED <<argsVars, scanVars>>

\* yf_compile_project
CompileProject ==
  /\ parse = "parsed" /\ ShouldCompile /\ args.project /\ exit = None
  /\ \E folder \in Folders : FindProjfiles(folder)
  /\ UNCHANGED <<argsVars, exit>>

\* getcwd fails, or does not give a name with a slash.
NoProjectName ==
  /\ parse = "parsed" /\ ShouldCompile /\ args.project /\ scan = "idle" /\ exit = None
  /\ exit' = 1
  /\ UNCHANGED <<argsVars, scanVars>>

Scan == ScanFolder /\ UNCHANGED <<argsVars, exit>>

\* yf_run_compiler returns what the scan returned.
ProjectFails ==
  /\ scan = "failed" /\ exit = None
  /\ exit' = 1
  /\ UNCHANGED <<argsVars, scanVars>>

\* Mutant: the units stay as memset left them.
CompileFiles_NotAnew ==
  /\ parse = "parsed" /\ ShouldCompile /\ ~args.project /\ scan = "idle"
  /\ units' = [name \in {<<w>> : w \in Range(args.files)} |-> Unit(<<>>, <<>>, FALSE)]
  /\ scan' = "named"
  /\ UNCHANGED <<argsVars, src, dirs, exit>>

\* yf_compile_files: no prefix, no symbol file; a file named twice is one unit.
CompileFiles ==
  /\ parse = "parsed" /\ ShouldCompile /\ ~args.project /\ scan = "idle"
  /\ units' = [name \in {<<w>> : w \in Range(args.files)} |-> Unit(<<>>, <<>>, TRUE)]
  /\ scan' = "named"
  /\ UNCHANGED <<argsVars, src, dirs, exit>>

\* The message is out, the scan has failed, or the jobs of the units can be made.
Finished == (exit # None \/ scan \in {"scanned", "named", "crashed"}) /\ UNCHANGED vars

Next ==
  \/ Parse \/ OutputInfo
  \/ NoProjectName \/ CompileProject \/ Scan \/ ProjectFails
  \/ CompileFiles
  \/ Finished

Spec == Init /\ [][Next]_vars

-----------------------------------------------------------------------------

\* What is compiled is what was asked for: there are units exactly when the command line is good
\* and src/ was read, those of the command line are its words, all to be parsed anew, and there is
\* at least one of them; and exit code 0 at this point means a message that was asked for
\* (main, yf_compile_files, yf_output_info).
UnitsRight ==
  /\ scan \in {"scanned", "named"} => Acceptable(argv)
  /\ scan = "named" =>
       /\ DOMAIN units = {<<argv[w]>> : w \in Words(argv)} /\ Words(argv) # {}
       /\ \A u \in DOMAIN units : units[u].parse_anew
  /\ exit = 0 => \E o \in InfoOptions : Given(argv, o)
  /\ exit # None => scan \in {"idle", "failed"}
=============================================================================
