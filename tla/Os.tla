---------------------------------- MODULE Os ----------------------------------
(***************************************************************************)
(* Child processes as src/driver/os.c sees them.  How a child ended is one *)
(* integer:                                                                *)
(*   ForkFailed    proc_open gave up before there was a child              *)
(*   WaitFailed    the child ran, and waitpid reported an error            *)
(*   >= 0          the status word waitpid stored                          *)
(* A status word holds the exit code in bits 8-15, or the number of the    *)
(* signal that ended the child in bits 0-6 and, in bit 7, whether there is *)
(* a core dump.                                                            *)
(***************************************************************************)
EXTENDS Integers

ForkFailed == -1
WaitFailed == -2

ExitWith(code) == (code % 256) * 256
SIGABRT == 6

StatusWord == {ExitWith(code) : code \in 0 .. 255} \union 1 .. 126 \union 129 .. 254

\* The C library's macro: the exit code bits, whether or not the child exited.
WEXITSTATUS(status) == (status \div 256) % 256

\* Did the child end by itself, rather than by a signal?  The code never asks.
Exited(end) == end >= 0 /\ end % 128 = 0

\* A child that could not execute its program calls abort().
ExecFailed == SIGABRT

\* What proc_exec returns for a child that ended this way.
ProcExec(end) == IF end < 0 THEN end ELSE WEXITSTATUS(end)
===============================================================================
