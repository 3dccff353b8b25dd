------------------------------- MODULE CCompiler -------------------------------
(***************************************************************************)
(* The search for a C compiler, src/driver/c-compiler.c over               *)
(* src/driver/os.c: for one name after the other the parent forks "which", *)
(* reads its output through a pipe until end of file, and waits for it.    *)
(*                                                                         *)
(* Two processes run: the parent, and at most one child at a time, each    *)
(* with its own table of file descriptors.  The pipe and the output of     *)
(* which are counts of bytes.                                              *)
(***************************************************************************)
EXTENDS Integers, Sequences, FiniteSets, Os

CONSTANTS
  Preference,  \* the names tried by default, in order
  PathLen,     \* name -> length of what which prints for it, if it is installed
  None,        \* not a name
  HackFd,      \* the descriptor the write end is moved to: 50 in the code
  BufInit,     \* first size of the read buffer: 255 in the code
  Slack,       \* the buffer grows when less than this is left: 10 in the code
  PipeCap      \* how many bytes the kernel holds for the pipe

Names == {Preference[i] : i \in DOMAIN Preference}
Fds   == 0 .. HackFd

ASSUME CCompilerAssumption ==
  /\ Preference \in Seq(Names) /\ None \notin Names
  /\ PathLen \in [Names -> Nat \ {0}]
  /\ HackFd \in Nat /\ HackFd > 6
  /\ Slack \in Nat \ {0} /\ BufInit \in Nat /\ BufInit >= Slack /\ PipeCap \in Nat \ {0}

VARIABLES
  compiler,   \* args->compiler, or None
  class,      \* args->compiler_class
  installed,  \* the names that are on the PATH
  hasWhich,   \* is there a program called which?
  ppc,        \* where the parent is
  names,      \* the names still to be tried, the current one first
  pfd,        \* the parent's descriptors: what each is open on
  rd, wr,     \* commfp[0], commfp[1]
  idx, size,  \* buf_idx and buf_size
  selected,   \* the name whose path is in args->selected_compiler, or None
  result,     \* what yf_determine_c_compiler returned
  cpc,        \* where the child is
  cfd,        \* its descriptors
  dst,        \* fd_dst, the next descriptor it sets up
  todo,       \* bytes which has still to write
  pipe,       \* bytes in the pipe
  status      \* the child's wait status

setting == <<compiler, installed, hasWhich>>
child   == <<cpc, cfd, dst, todo, status>>
buffer  == <<idx, size>>
vars    == <<setting, class, ppc, names, pfd, rd, wr, buffer, selected, result, child, pipe>>

-------------------------------------------------------------------------------
LowestFree(table) == CHOOSE fd \in Fds : /\ table[fd] = "closed"
                                         /\ \A g \in 0 .. fd - 1 : table[g] # "closed"
Close(table, fd)     == [table EXCEPT ![fd] = "closed"]
Dup2(table, src, to) == [table EXCEPT ![to] = table[src]]

Init ==
  /\ compiler \in Names \union {None} /\ class \in {"unknown", "gcc", "msvc"}
  /\ installed \in SUBSET Names /\ hasWhich \in BOOLEAN
  /\ ppc = "start" /\ names = <<>>
  \* yfc may be started with some of its standard streams closed.
  /\ \E shut \in SUBSET {0, 1, 2} :
       pfd = [fd \in Fds |-> IF fd \in {0, 1, 2} \ shut THEN "std" ELSE "closed"]
  /\ rd = 0 /\ wr = 0 /\ idx = 0 /\ size = 0 /\ selected = None /\ result = "none"
  /\ cpc = "dead" /\ cfd = [fd \in Fds |-> "closed"] /\ dst = 0
  /\ todo = 0 /\ pipe = 0 /\ status = 0

-------------------------------------------------------------------------------
(* The parent *)

\* yf_determine_c_compiler, up to the first call of compiler_exists.
Determine ==
  /\ ppc = "start"
  /\ IF compiler = None /\ class # "unknown"
     THEN ppc' = "done" /\ result' = "no_class" /\ UNCHANGED names
     ELSE /\ names' = IF compiler # None THEN <<compiler>> ELSE Preference
          /\ ppc' = "pipe" /\ UNCHANGED result
  /\ UNCHANGED <<setting, class, pfd, rd, wr, buffer, selected, child, pipe>>

\* Mutant: the write end stays where pipe() put it.
MakePipe_InPlace ==
  /\ ppc = "pipe" /\ names # <<>>
  /\ LET r == LowestFree(pfd)
         w == LowestFree([pfd EXCEPT ![r] = "r"])
     IN rd' = r /\ wr' = w /\ pfd' = [pfd EXCEPT ![r] = "r", ![w] = "w"]
  /\ pipe' = 0 /\ ppc' = "open"
  /\ UNCHANGED <<setting, class, names, buffer, selected, result, child>>

\* pipe(), then the write end is moved out of the way.
MakePipe ==
  /\ ppc = "pipe" /\ names # <<>>
  /\ LET r == LowestFree(pfd)
         w == LowestFree([pfd EXCEPT ![r] = "r"])
     IN /\ rd' = r /\ wr' = HackFd
        /\ pfd' = Close(Dup2([pfd EXCEPT ![r] = "r", ![w] = "w"], w, HackFd), w)
  /\ pipe' = 0 /\ ppc' = "open"
  /\ UNCHANGED <<setting, class, names, buffer, selected, result, child>>

NoneFound ==
  /\ ppc = "pipe" /\ names = <<>>
  /\ result' = IF compiler # None THEN "specified_not_found" ELSE "none_found"
  /\ ppc' = "done"
  /\ UNCHANGED <<setting, class, names, pfd, rd, wr, buffer, selected, child, pipe>>

Fork ==
  /\ ppc = "open"
  /\ cpc' = "forked" /\ cfd' = pfd
  /\ ppc' = "forked"
  /\ UNCHANGED <<setting, class, names, pfd, rd, wr, buffer, selected, result,
                 dst, todo, status, pipe>>

\* Mutant: the write end is left open when fork fails.
ForkFails_Leak ==
  /\ ppc = "open"
  /\ pfd' = Close(pfd, rd)
  /\ names' = Tail(names) /\ ppc' = "pipe"
  /\ UNCHANGED <<setting, class, rd, wr, buffer, selected, result, child, pipe>>

\* proc_open reports that fork failed: this name counts as not found.
ForkFails ==
  /\ ppc = "open"
  /\ pfd' = Close(Close(pfd, rd), wr)
  /\ names' = Tail(names) /\ ppc' = "pipe"
  /\ UNCHANGED <<setting, class, rd, wr, buffer, selected, result, child, pipe>>

\* Mutant: the parent keeps its copy of the write end while it reads.
CloseWriteEnd_Forgotten ==
  /\ ppc = "forked"
  /\ idx' = 0 /\ size' = BufInit /\ ppc' = "read"
  /\ UNCHANGED <<setting, class, names, pfd, rd, wr, selected, result, child, pipe>>

CloseWriteEnd ==
  /\ ppc = "forked"
  /\ pfd' = Close(pfd, wr)
  /\ idx' = 0 /\ size' = BufInit /\ ppc' = "read"
  /\ UNCHANGED <<setting, class, names, rd, wr, selected, result, child, pipe>>

WriteEndOpen == \E fd \in Fds : pfd[fd] = "w" \/ cfd[fd] = "w"

\* Mutant: the buffer does not grow.
Read_NoGrow ==
  /\ ppc = "read" /\ pipe > 0 /\ size > idx
  /\ \E n \in 1 .. pipe :
       /\ n =< size - idx
       /\ idx' = idx + n /\ pipe' = pipe - n
  /\ UNCHANGED <<setting, class, ppc, names, pfd, rd, wr, size, selected, result, child>>

\* read() returns what is there, as far as it fits; the buffer is doubled when it runs low.
Read ==
  /\ ppc = "read" /\ pipe > 0 /\ size > idx
  /\ \E n \in 1 .. pipe :
       /\ n =< size - idx
       /\ idx' = idx + n /\ pipe' = pipe - n
  /\ size' = IF size - idx' < Slack THEN 2 * size ELSE size
  /\ UNCHANGED <<setting, class, ppc, names, pfd, rd, wr, selected, result, child>>

\* read() returns 0: at end of file, but also if it is asked for nothing.
ReadNothing ==
  /\ ppc = "read"
  /\ (pipe = 0 /\ ~WriteEndOpen) \/ size = idx
  /\ ppc' = "wait"
  /\ UNCHANGED <<setting, class, names, pfd, rd, wr, buffer, selected, result, child, pipe>>

\* Mutant: a name counts as found once which has run, whatever its exit code.
Wait_AnyExit ==
  /\ ppc = "wait" /\ cpc = "dead"
  /\ pfd' = Close(pfd, rd)
  /\ selected' = Head(names) /\ result' = "ok" /\ ppc' = "done"
  /\ class' = IF compiler = None \/ class = "unknown" THEN "gcc" ELSE class
  /\ UNCHANGED <<setting, names, rd, wr, buffer, child, pipe>>

\* proc_wait, and what compiler_exists and its caller make of the exit code.
Wait ==
  /\ ppc = "wait" /\ cpc = "dead"
  /\ pfd' = Close(pfd, rd)
  /\ IF WEXITSTATUS(status) = 0
     THEN /\ selected' = Head(names) /\ result' = "ok" /\ ppc' = "done"
          /\ class' = IF compiler = None \/ class = "unknown" THEN "gcc" ELSE class
          /\ UNCHANGED names
     ELSE /\ names' = Tail(names) /\ ppc' = "pipe"
          /\ UNCHANGED <<class, selected, result>>
  /\ UNCHANGED <<setting, rd, wr, buffer, child, pipe>>

Parent == \/ Determine \/ MakePipe \/ NoneFound \/ Fork \/ ForkFails
          \/ CloseWriteEnd \/ Read \/ ReadNothing \/ Wait

-------------------------------------------------------------------------------
(* The child: the other side of fork in proc_open *)

\* The descriptors asked for are 0, 1, 2, so maxfd is 2 and /dev/null goes to 3,
\* whatever was there.
OpenNull ==
  /\ cpc = "forked"
  /\ LET null == LowestFree(cfd)
     IN cfd' = Dup2([cfd EXCEPT ![null] = "null"], null, 3)
  /\ cpc' = "dup" /\ dst' = 0
  /\ UNCHANGED <<todo, status>>

\* Mutant: one descriptor more is set up than was asked for.
Dup_OffByOne ==
  /\ cpc = "dup" /\ dst =< 3
  /\ cfd' = Dup2(cfd, IF dst = 1 THEN wr ELSE 3, dst)
  /\ dst' = dst + 1
  /\ UNCHANGED <<cpc, todo, status>>

Dup ==
  /\ cpc = "dup" /\ dst =< 2
  /\ cfd' = Dup2(cfd, IF dst = 1 THEN wr ELSE 3, dst)
  /\ dst' = dst + 1
  /\ UNCHANGED <<cpc, todo, status>>

Exec ==
  /\ cpc = "dup" /\ dst > 2 /\ hasWhich
  /\ todo' = IF Head(names) \in installed THEN PathLen[Head(names)] ELSE 0
  /\ cpc' = "running"
  /\ UNCHANGED <<cfd, dst, status>>

Die(how) == cpc' = "dead" /\ cfd' = [fd \in Fds |-> "closed"] /\ status' = how

ExecFails ==
  /\ cpc = "dup" /\ dst > 2 /\ ~hasWhich
  /\ Die(ExecFailed)
  /\ UNCHANGED <<dst, todo>>

\* which writes to its standard output, and waits while the pipe is full.
Write ==
  /\ cpc = "running" /\ todo > 0
  /\ \E n \in 1 .. todo :
       /\ IF cfd[1] = "w" THEN n =< PipeCap - pipe /\ pipe' = pipe + n ELSE UNCHANGED pipe
       /\ todo' = todo - n
  /\ UNCHANGED <<cpc, cfd, dst, status>>

Exit ==
  /\ cpc = "running" /\ todo = 0
  /\ Die(ExitWith(IF Head(names) \in installed THEN 0 ELSE 1))
  /\ UNCHANGED <<dst, todo>>

Child == /\ \/ (OpenNull \/ Dup \/ Exec \/ ExecFails \/ Exit) /\ UNCHANGED pipe
            \/ Write
         /\ UNCHANGED <<setting, class, ppc, names, pfd, rd, wr, buffer, selected, result>>

Next == Parent \/ Child

\* The kernel schedules both processes.
Spec == Init /\ [][Next]_vars /\ WF_vars(Parent) /\ WF_vars(Child)

-------------------------------------------------------------------------------
(* Properties *)

TypeOK ==
  /\ class \in {"unknown", "gcc", "msvc"}
  /\ ppc \in {"start", "pipe", "open", "forked", "read", "wait", "done"}
  /\ cpc \in {"dead", "forked", "dup", "running"}
  /\ \A fd \in Fds : {pfd[fd], cfd[fd]} \subseteq {"closed", "std", "null", "r", "w"}
  /\ rd \in Fds /\ wr \in Fds /\ dst \in 0 .. 3
  /\ idx \in 0 .. size /\ pipe \in 0 .. PipeCap
  /\ selected \in Names \union {None}
  /\ status \in StatusWord

\* The parent gets past the read loop only when the child is done for, and then it
\* holds all that the child printed: no end of file is mistaken for another.
WholePathRead ==
  ppc = "wait" =>
    /\ cpc = "dead" /\ pipe = 0
    /\ idx = IF hasWhich /\ Head(names) \in installed THEN PathLen[Head(names)] ELSE 0

\* Whatever descriptors yfc was started with, its shuffle leaves the child with
\* the pipe as standard output and nothing as input.
ChildWritesToPipe ==
  cpc = "running" => cfd[0] = "null" /\ cfd[1] = "w" /\ cfd[2] = "null"

\* The search leaves no descriptor open and no child unreaped, whichever way a
\* name was given up, so that the next name's end of file is its own.
NothingLeftOpen ==
  ppc \in {"pipe", "done"} =>
    cpc = "dead" /\ \A fd \in Fds : pfd[fd] \in {"closed", "std"}

\* With which at hand, a name is chosen if it is installed and passed over if not:
\* the answer about one name never comes from the child asked about another.
AnswersAreRight ==
  [][ppc = "wait" /\ ppc' # "wait" /\ hasWhich =>
       (selected' = Head(names)) = (Head(names) \in installed)]_vars

\* The search ends: no reader waits for an end of file that cannot come.
SearchEnds == <>(ppc = "done")
===============================================================================
