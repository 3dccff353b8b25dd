---------------------------- MODULE CCompilerProofs ----------------------------
(***************************************************************************)
(* Proofs about CCompiler for any names, any lengths of what `which'       *)
(* prints, any descriptor above 6 for the write end, any sizes of buffer   *)
(* and pipe.                                                               *)
(*                                                                         *)
(* The argument follows the bytes: what the parent has read, what is in    *)
(* the pipe and what the child has yet to write always add up to the path  *)
(* that was asked for; and it follows the write end: whoever may still     *)
(* write has it open, so that end of file means that nobody may.           *)
(***************************************************************************)
EXTENDS CCompiler, TLAPS, SequenceTheorems

FdState == {"closed", "std", "null", "r", "w"}

\* Types beyond TypeOK that the proofs need.
Types ==
  /\ compiler \in Names \union {None} /\ installed \subseteq Names /\ hasWhich \in BOOLEAN
  /\ pfd \in [Fds -> FdState] /\ cfd \in [Fds -> FdState]
  /\ names \in Seq(Names)
  /\ idx \in Nat /\ size \in Nat /\ todo \in Nat /\ pipe \in Nat

\* A table with nothing open but what the environment gave, apart from those in except.
CleanBut(table, except) ==
  \A fd \in Fds \ except : table[fd] = "closed" \/ (table[fd] = "std" /\ fd < 3)

\* What the parent has open, where.
ParentFds ==
  /\ ppc \in {"start", "pipe", "done"} => CleanBut(pfd, {})
  /\ ppc \in {"open", "forked", "read", "wait"} =>
       wr = HackFd /\ rd \in 0 .. 3 /\ pfd[rd] = "r"
  /\ ppc \in {"open", "forked"} => pfd[wr] = "w" /\ CleanBut(pfd, {rd, wr})
  /\ ppc \in {"read", "wait"} => CleanBut(pfd, {rd})

\* What the child has open, where: the write end until it is dead.
ChildFds ==
  /\ cpc # "dead" => ppc \in {"forked", "read"} /\ cfd[HackFd] = "w"
  /\ cpc = "forked" => CleanBut(cfd, {rd, wr})
  /\ cpc \in {"dup", "running"} =>
       /\ cfd[3] = "null"
       /\ dst > 0 => cfd[0] = "null"
       /\ dst > 1 => cfd[1] = "w"
       /\ dst > 2 => cfd[2] = "null"
  /\ cpc = "running" => dst = 3
  /\ cpc = "dead" => \A fd \in Fds : cfd[fd] = "closed"

\* There is a name in question while a child may be asked about it, and no answer before the end.
Asked ==
  /\ ppc \in {"open", "forked", "read", "wait"} => names # <<>>
  /\ ppc # "done" => selected = None

\* How many bytes the child is to print, and how many the parent has.
ToPrint == IF hasWhich /\ Head(names) \in installed THEN PathLen[Head(names)] ELSE 0
HasRead == IF ppc \in {"read", "wait"} THEN idx ELSE 0

\* No byte is lost, and none is left from an earlier child.
Bytes ==
  /\ ppc = "open" \/ cpc \in {"forked", "dup"} => pipe = 0 /\ HasRead = 0
  /\ cpc = "running" => hasWhich /\ HasRead + pipe + todo = ToPrint
  /\ cpc = "dead" /\ ppc \in {"forked", "read", "wait"} =>
       /\ HasRead + pipe = ToPrint
       /\ status = IF ~hasWhich THEN ExecFailed
                   ELSE ExitWith(IF Head(names) \in installed THEN 0 ELSE 1)

\* The buffer has room for another read; the parent waits only at end of file.
Room ==
  /\ ppc \in {"read", "wait"} => size >= BufInit /\ size - idx >= Slack
  /\ ppc = "wait" => cpc = "dead" /\ pipe = 0

IInv == TypeOK /\ Types /\ ParentFds /\ ChildFds /\ Asked /\ Bytes /\ Room

-------------------------------------------------------------------------------
\* open and pipe find a free descriptor, and the lowest one.
LEMMA Lowest ==
  ASSUME NEW table, \E fd \in 0 .. 4 : table[fd] = "closed"
  PROVE  /\ LowestFree(table) \in 0 .. 4 /\ table[LowestFree(table)] = "closed"
         /\ \A g \in 0 .. LowestFree(table) - 1 : table[g] # "closed"
<1> DEFINE Free(fd) == table[fd] = "closed" /\ \A g \in 0 .. fd - 1 : table[g] # "closed"
<1>1. 0 .. 4 \subseteq Fds
  BY CCompilerAssumption DEF Fds
<1>2. \E fd \in 0 .. 4 : Free(fd)
  <2>1. CASE table[0] = "closed"
    BY <2>1
  <2>2. CASE table[0] # "closed" /\ table[1] = "closed"
    BY <2>2
  <2>3. CASE table[0] # "closed" /\ table[1] # "closed" /\ table[2] = "closed"
    BY <2>3
  <2>4. CASE table[0] # "closed" /\ table[1] # "closed" /\ table[2] # "closed"
    <3>1. CASE table[3] = "closed"
      <4>1. Free(3)
        BY <2>4, <3>1
      <4> QED
        BY <4>1
    <3>2. CASE table[3] # "closed"
      <4>1. Free(4)
        BY <2>4, <3>2
      <4> QED
        BY <4>1
    <3> QED
      BY <3>1, <3>2
  <2> QED
    BY <2>1, <2>2, <2>3, <2>4
<1>3. LowestFree(table) = CHOOSE fd \in Fds : Free(fd)
  BY DEF LowestFree
<1> DEFINE l == LowestFree(table)
<1>4. l \in Fds /\ Free(l)
  <2>1. \E fd \in Fds : Free(fd)
    BY <1>1, <1>2
  <2> HIDE DEF Free
  <2> QED
    BY <1>3, <2>1
<1>5. l =< 4
  BY <1>4 DEF Fds
<1> QED
  BY <1>4, <1>5 DEF Fds

\* The two ends that pipe() gives a parent with at most its standard streams open.
LEMMA PipeEnds ==
  ASSUME Types, CleanBut(pfd, {}), NEW r, r = LowestFree(pfd),
         NEW w, w = LowestFree([pfd EXCEPT ![r] = "r"])
  PROVE  r \in 0 .. 3 /\ w \in 0 .. 4 /\ w # r /\ pfd[r] = "closed" /\ pfd[w] = "closed"
<1>1. 0 .. 4 \subseteq Fds
  BY CCompilerAssumption DEF Fds
<1>2. pfd[3] = "closed" /\ pfd[4] = "closed"
  BY <1>1 DEF CleanBut
<1>3. /\ r \in 0 .. 4 /\ pfd[r] = "closed"
      /\ \A g \in 0 .. r - 1 : pfd[g] # "closed"
  BY <1>2, Lowest
<1>4. r \in 0 .. 3
  BY <1>2, <1>3
<1>5. PICK table : table = [pfd EXCEPT ![r] = "r"]
  OBVIOUS
<1>6. w \in 0 .. 4 /\ table[w] = "closed"
  <2>1. table[4] = "closed"
    BY <1>1, <1>2, <1>4, <1>5 DEF Types
  <2>2. w = LowestFree(table)
    BY <1>5
  <2> QED
    BY <2>1, <2>2, Lowest
<1>7. r \in Fds /\ w \in Fds
  BY <1>1, <1>3, <1>6
<1>8. w # r
  BY <1>5, <1>6, <1>7 DEF Types
<1>9. pfd[w] = "closed"
  BY <1>5, <1>6, <1>7, <1>8 DEF Types
<1> QED
  BY <1>3, <1>4, <1>6, <1>8, <1>9

\* What CleanBut and the tables' types keep when a descriptor is closed.
LEMMA Closing ==
  ASSUME NEW table \in [Fds -> FdState], NEW fd \in Fds, NEW except, CleanBut(table, except)
  PROVE  /\ Close(table, fd) \in [Fds -> FdState]
         /\ Close(table, fd)[fd] = "closed"
         /\ \A g \in Fds \ {fd} : Close(table, fd)[g] = table[g]
         /\ CleanBut(Close(table, fd), except \ {fd})
BY DEF Close, CleanBut, FdState

\* A buffer of z bytes of which i are used, doubled when it runs low, is not full.
LEMMA Doubling ==
  ASSUME NEW i \in Nat, NEW z \in Nat, i =< z, z >= BufInit,
         NEW y, y = IF z - i < Slack THEN 2 * z ELSE z
  PROVE  y \in Nat /\ y >= z /\ y - i >= Slack
<1>1. BufInit \in Nat /\ Slack \in Nat /\ BufInit >= Slack
  BY CCompilerAssumption
<1>2. CASE z - i < Slack
  BY <1>1, <1>2
<1>3. CASE ~(z - i < Slack)
  BY <1>1, <1>3
<1> QED
  BY <1>2, <1>3

\* Every state word a child of this module can leave is one, and tells success from failure.
LEMMA Status ==
  /\ ExecFailed \in StatusWord /\ ExitWith(0) \in StatusWord /\ ExitWith(1) \in StatusWord
  /\ WEXITSTATUS(ExitWith(0)) = 0 /\ WEXITSTATUS(ExitWith(1)) = 1
  /\ WEXITSTATUS(ExecFailed) = 0
<1>1. ExitWith(0) = 0 /\ ExitWith(1) = 256 /\ ExecFailed = 6
  BY DEF ExitWith, ExecFailed, SIGABRT
<1>2. ExitWith(0) \in StatusWord /\ ExitWith(1) \in StatusWord /\ ExecFailed \in StatusWord
  BY <1>1 DEF StatusWord
<1> QED
  BY <1>1, <1>2 DEF WEXITSTATUS

-------------------------------------------------------------------------------
(* The parent's steps *)

\* Steps that touch neither descriptors nor bytes nor the child.
LEMMA DetermineStep ==
  ASSUME IInv, Determine
  PROVE  IInv'
<1>1. names' \in Seq(Names)
  <2>1. compiler # None => <<compiler>> \in Seq(Names)
    BY DEF IInv, Types
  <2> QED
    BY <2>1, CCompilerAssumption DEF Determine, IInv, Types
<1>2. ppc = "start" /\ ppc' \in {"pipe", "done"}
  BY DEF Determine
<1>3. UNCHANGED <<compiler, installed, hasWhich, class, pfd, rd, wr, idx, size, selected,
                  cpc, cfd, dst, todo, status, pipe>>
  BY DEF Determine, setting, buffer, child
<1>4. cpc = "dead"
  BY <1>2 DEF IInv, ChildFds
<1>5. TypeOK' /\ Types'
  BY <1>1, <1>2, <1>3 DEF IInv, TypeOK, Types
<1>6. ParentFds' /\ ChildFds' /\ Asked' /\ Bytes' /\ Room'
  BY <1>2, <1>3, <1>4 DEF IInv, ParentFds, CleanBut, ChildFds, Asked, Bytes, HasRead, Room
<1> QED
  BY <1>5, <1>6 DEF IInv

LEMMA NoneFoundStep ==
  ASSUME IInv, NoneFound
  PROVE  IInv'
<1>1. ppc = "pipe" /\ ppc' = "done"
  BY DEF NoneFound
<1>2. UNCHANGED <<compiler, installed, hasWhich, class, names, pfd, rd, wr, idx, size, selected,
                  cpc, cfd, dst, todo, status, pipe>>
  BY DEF NoneFound, setting, buffer, child
<1>3. cpc = "dead"
  BY <1>1 DEF IInv, ChildFds
<1>4. TypeOK' /\ Types'
  BY <1>1, <1>2 DEF IInv, TypeOK, Types
<1>5. ParentFds' /\ ChildFds' /\ Asked' /\ Bytes' /\ Room'
  BY <1>1, <1>2, <1>3 DEF IInv, ParentFds, CleanBut, ChildFds, Asked, Bytes, HasRead, Room
<1> QED
  BY <1>4, <1>5 DEF IInv

\* The shuffle leaves the read end below 4, and the write end at HackFd and nowhere else.
LEMMA MakePipeStep ==
  ASSUME IInv, MakePipe
  PROVE  IInv'
<1>1. PICK r : r = LowestFree(pfd)
  OBVIOUS
<1>2. PICK w : w = LowestFree([pfd EXCEPT ![r] = "r"])
  OBVIOUS
<1>3. /\ ppc = "pipe" /\ ppc' = "open" /\ names # <<>>
      /\ rd' = r /\ wr' = HackFd /\ pipe' = 0
      /\ pfd' = Close(Dup2([pfd EXCEPT ![r] = "r", ![w] = "w"], w, HackFd), w)
  BY <1>1, <1>2 DEF MakePipe
<1>4. UNCHANGED <<compiler, installed, hasWhich, class, names, idx, size, selected,
                  cpc, cfd, dst, todo, status>>
  BY DEF MakePipe, setting, buffer, child
<1>5. cpc = "dead" /\ CleanBut(pfd, {})
  BY <1>3 DEF IInv, ChildFds, ParentFds
<1>6. /\ r \in 0 .. 3 /\ w \in 0 .. 4 /\ w # r
      /\ pfd[r] = "closed" /\ pfd[w] = "closed" /\ pfd \in [Fds -> FdState]
  BY <1>1, <1>2, <1>5, PipeEnds DEF IInv, Types
<1>7. /\ r \in Fds /\ w \in Fds /\ HackFd \in Fds /\ HackFd # r /\ HackFd # w
      /\ PipeCap \in Nat
  BY <1>6, CCompilerAssumption DEF Fds
<1>8. pfd' = [pfd EXCEPT ![r] = "r", ![w] = "closed", ![HackFd] = "w"]
  BY <1>3, <1>6, <1>7 DEF Close, Dup2
<1>9. /\ pfd' \in [Fds -> FdState] /\ pfd'[r] = "r" /\ pfd'[HackFd] = "w"
      /\ CleanBut(pfd', {r, HackFd})
  BY <1>5, <1>6, <1>7, <1>8 DEF CleanBut, FdState
<1>10. TypeOK'
  <2>1. \A fd \in Fds : {pfd'[fd], cfd'[fd]} \subseteq {"closed", "std", "null", "r", "w"}
    BY <1>4, <1>9 DEF IInv, Types, FdState
  <2>2. pipe' \in 0 .. PipeCap
    BY <1>3, <1>7
  <2> QED
    BY <1>3, <1>4, <1>7, <2>1, <2>2 DEF IInv, TypeOK
<1>11. Types'
  BY <1>3, <1>4, <1>9 DEF IInv, Types
<1>12. ParentFds' /\ ChildFds'
  BY <1>3, <1>4, <1>5, <1>6, <1>9 DEF IInv, ParentFds, ChildFds
<1>13. Asked' /\ Bytes' /\ Room'
  BY <1>3, <1>4, <1>5 DEF IInv, Asked, Bytes, HasRead, Room
<1> QED
  BY <1>10, <1>11, <1>12, <1>13 DEF IInv

\* The child starts with the parent's descriptors, when no byte is in the pipe.
LEMMA ForkStep ==
  ASSUME IInv, Fork
  PROVE  IInv'
<1>1. ppc = "open" /\ ppc' = "forked" /\ cpc' = "forked" /\ cfd' = pfd
  BY DEF Fork
<1>2. UNCHANGED <<compiler, installed, hasWhich, class, names, pfd, rd, wr, idx, size, selected,
                  dst, todo, status, pipe>>
  BY DEF Fork, setting, buffer
<1>3. TypeOK' /\ Types'
  BY <1>1, <1>2 DEF IInv, TypeOK, Types
<1>4. ParentFds' /\ ChildFds'
  BY <1>1, <1>2 DEF IInv, ParentFds, ChildFds, CleanBut
<1>5. Asked' /\ Bytes' /\ Room'
  BY <1>1, <1>2 DEF IInv, Asked, Bytes, HasRead, Room
<1> QED
  BY <1>3, <1>4, <1>5 DEF IInv

\* Both ends are closed again, so the next name starts from a clean table.
LEMMA ForkFailsStep ==
  ASSUME IInv, ForkFails
  PROVE  IInv'
<1>1. /\ ppc = "open" /\ ppc' = "pipe" /\ names' = Tail(names)
      /\ pfd' = Close(Close(pfd, rd), wr)
  BY DEF ForkFails
<1>2. UNCHANGED <<compiler, installed, hasWhich, class, rd, wr, idx, size, selected,
                  cpc, cfd, dst, todo, status, pipe>>
  BY DEF ForkFails, setting, buffer, child
<1>3. names' \in Seq(Names)
  BY <1>1, HeadTailProperties DEF IInv, Asked, Types
<1>4. cpc = "dead"
  BY <1>1 DEF IInv, ChildFds
<1>5. pfd' \in [Fds -> FdState] /\ CleanBut(pfd', {})
  <2>1. pfd \in [Fds -> FdState] /\ rd \in Fds /\ wr \in Fds /\ CleanBut(pfd, {rd, wr})
    BY <1>1 DEF IInv, Types, TypeOK, ParentFds
  <2>2. Close(pfd, rd) \in [Fds -> FdState] /\ CleanBut(Close(pfd, rd), {rd, wr} \ {rd})
    BY <2>1, Closing
  <2>3. /\ Close(Close(pfd, rd), wr) \in [Fds -> FdState]
        /\ CleanBut(Close(Close(pfd, rd), wr), ({rd, wr} \ {rd}) \ {wr})
    BY <2>1, <2>2, Closing
  <2> QED
    BY <1>1, <2>3 DEF CleanBut
<1>6. TypeOK' /\ Types'
  BY <1>1, <1>2, <1>3, <1>5 DEF IInv, TypeOK, Types, FdState
<1>7. ParentFds' /\ ChildFds' /\ Asked' /\ Bytes' /\ Room'
  BY <1>1, <1>2, <1>4, <1>5 DEF IInv, ParentFds, ChildFds, Asked, Bytes, HasRead, Room
<1> QED
  BY <1>6, <1>7 DEF IInv

\* The buffer is new and has room.
LEMMA CloseWriteEndStep ==
  ASSUME IInv, CloseWriteEnd
  PROVE  IInv'
<1>1. /\ ppc = "forked" /\ ppc' = "read" /\ idx' = 0 /\ size' = BufInit
      /\ pfd' = Close(pfd, wr)
  BY DEF CloseWriteEnd
<1>2. UNCHANGED <<compiler, installed, hasWhich, class, names, rd, wr, selected,
                  cpc, cfd, dst, todo, status, pipe>>
  BY DEF CloseWriteEnd, setting, child
<1>3. pfd' \in [Fds -> FdState] /\ CleanBut(pfd', {rd}) /\ pfd'[rd] = "r"
  <2>1. /\ pfd \in [Fds -> FdState] /\ rd \in Fds /\ wr \in Fds /\ CleanBut(pfd, {rd, wr})
        /\ pfd[rd] = "r" /\ pfd[wr] = "w"
    BY <1>1 DEF IInv, Types, TypeOK, ParentFds
  <2>2. /\ Close(pfd, wr) \in [Fds -> FdState] /\ CleanBut(Close(pfd, wr), {rd, wr} \ {wr})
        /\ Close(pfd, wr)[rd] = pfd[rd]
    BY <2>1, Closing
  <2> QED
    BY <1>1, <2>1, <2>2 DEF CleanBut
<1>4. TypeOK' /\ Types'
  BY <1>1, <1>2, <1>3, CCompilerAssumption DEF IInv, TypeOK, Types, FdState
<1>5. ParentFds' /\ ChildFds'
  BY <1>1, <1>2, <1>3 DEF IInv, ParentFds, ChildFds, CleanBut
<1>6. Asked' /\ Bytes' /\ Room'
  BY <1>1, <1>2, CCompilerAssumption DEF IInv, Asked, Bytes, HasRead, ToPrint, Room
<1> QED
  BY <1>4, <1>5, <1>6 DEF IInv

\* What is read leaves the pipe; doubling keeps room for more.
LEMMA ReadStep ==
  ASSUME IInv, Read
  PROVE  IInv'
<1>1. PICK n \in 1 .. pipe : n =< size - idx /\ idx' = idx + n /\ pipe' = pipe - n
  BY DEF Read
<1>2. ppc = "read" /\ size' = IF size - idx' < Slack THEN 2 * size ELSE size
  BY DEF Read
<1>3. UNCHANGED <<compiler, installed, hasWhich, class, ppc, names, pfd, rd, wr, selected,
                  cpc, cfd, dst, todo, status>>
  BY DEF Read, setting, child
<1>4. idx \in Nat /\ size \in Nat /\ pipe \in 0 .. PipeCap /\ idx =< size /\ n \in Nat
  BY <1>1 DEF IInv, TypeOK, Types
<1>5. /\ idx' \in Nat /\ idx' =< size /\ pipe' \in Nat /\ pipe' =< PipeCap
      /\ idx' + pipe' = idx + pipe
  BY <1>1, <1>4, CCompilerAssumption
<1>6. size' \in Nat /\ size' >= size /\ size' >= BufInit /\ size' - idx' >= Slack
  <2>1. size >= BufInit
    BY <1>2 DEF IInv, Room
  <2>2. size' \in Nat /\ size' >= size /\ size' - idx' >= Slack
    BY <1>2, <1>4, <1>5, <2>1, Doubling
  <2>3. BufInit \in Nat
    BY CCompilerAssumption
  <2> QED
    BY <1>4, <2>1, <2>2, <2>3
<1>7. TypeOK' /\ Types'
  BY <1>3, <1>4, <1>5, <1>6, CCompilerAssumption DEF IInv, TypeOK, Types
<1>8. ParentFds' /\ ChildFds' /\ Asked'
  BY <1>3 DEF IInv, ParentFds, ChildFds, CleanBut, Asked
<1>9. Bytes'
  <2>1. cpc \notin {"forked", "dup"}
    BY <1>1, <1>4 DEF IInv, Bytes
  <2>2. HasRead = idx /\ HasRead' = idx'
    BY <1>2, <1>3 DEF HasRead
  <2>3. ToPrint' = ToPrint
    BY <1>3 DEF ToPrint
  <2>4. HasRead' + pipe' + todo' = HasRead + pipe + todo
    BY <1>3, <1>4, <1>5, <2>2 DEF IInv, Types
  <2> QED
    BY <1>2, <1>3, <1>5, <2>1, <2>2, <2>3, <2>4 DEF IInv, Bytes
<1>10. Room'
  BY <1>2, <1>3, <1>6 DEF Room
<1> QED
  BY <1>7, <1>8, <1>9, <1>10 DEF IInv

\* An end of file: the buffer always has room, so nobody has the write end open.
LEMMA ReadNothingStep ==
  ASSUME IInv, ReadNothing
  PROVE  IInv'
<1>1. ppc = "read" /\ ppc' = "wait" /\ ((pipe = 0 /\ ~WriteEndOpen) \/ size = idx)
  BY DEF ReadNothing
<1>2. UNCHANGED <<compiler, installed, hasWhich, class, names, pfd, rd, wr, idx, size, selected,
                  cpc, cfd, dst, todo, status, pipe>>
  BY DEF ReadNothing, setting, buffer, child
<1>3. pipe = 0 /\ ~WriteEndOpen
  BY <1>1, CCompilerAssumption DEF IInv, Room, Types
<1>4. cpc = "dead"
  <2>1. HackFd \in Fds
    BY CCompilerAssumption DEF Fds
  <2> QED
    BY <1>3, <2>1 DEF WriteEndOpen, IInv, ChildFds
<1>5. TypeOK' /\ Types'
  BY <1>1, <1>2 DEF IInv, TypeOK, Types
<1>6. ParentFds' /\ ChildFds' /\ Asked'
  BY <1>1, <1>2, <1>4 DEF IInv, ParentFds, ChildFds, CleanBut, Asked
<1>7. Bytes' /\ Room'
  BY <1>1, <1>2, <1>3, <1>4 DEF IInv, Bytes, HasRead, ToPrint, Room
<1> QED
  BY <1>5, <1>6, <1>7 DEF IInv

\* The read end is closed, whether the name was found or not.
LEMMA WaitStep ==
  ASSUME IInv, Wait
  PROVE  IInv'
<1>1. ppc = "wait" /\ cpc = "dead" /\ pfd' = Close(pfd, rd) /\ ppc' \in {"pipe", "done"}
  BY DEF Wait
<1>2. UNCHANGED <<compiler, installed, hasWhich, rd, wr, idx, size,
                  cpc, cfd, dst, todo, status, pipe>>
  BY DEF Wait, setting, buffer, child
<1>3. /\ names' \in Seq(Names) /\ selected' \in Names \union {None}
      /\ class' \in {"unknown", "gcc", "msvc"} /\ (ppc' # "done" => selected' = selected)
  <2>1. Head(names) \in Names /\ Tail(names) \in Seq(Names)
    BY <1>1, HeadTailProperties DEF IInv, Asked, Types
  <2> QED
    BY <2>1 DEF Wait, IInv, TypeOK, Types
<1>4. pfd' \in [Fds -> FdState] /\ CleanBut(pfd', {})
  <2>1. pfd \in [Fds -> FdState] /\ rd \in Fds /\ CleanBut(pfd, {rd})
    BY <1>1 DEF IInv, Types, TypeOK, ParentFds
  <2>2. Close(pfd, rd) \in [Fds -> FdState] /\ CleanBut(Close(pfd, rd), {rd} \ {rd})
    BY <2>1, Closing
  <2> QED
    BY <1>1, <2>2 DEF CleanBut
<1>5. TypeOK' /\ Types'
  BY <1>1, <1>2, <1>3, <1>4 DEF IInv, TypeOK, Types, FdState
<1>6. ParentFds' /\ ChildFds' /\ Asked' /\ Bytes' /\ Room'
  BY <1>1, <1>2, <1>3, <1>4 DEF IInv, ParentFds, ChildFds, Asked, Bytes, HasRead, Room
<1> QED
  BY <1>5, <1>6 DEF IInv

-------------------------------------------------------------------------------
(* The child's steps *)

ParentWaits == UNCHANGED <<compiler, installed, hasWhich, class, ppc, names, pfd, rd, wr, idx, size,
                           selected>>

\* What a step of the child leaves as it is.
LEMMA ParentKept ==
  ASSUME IInv, ParentWaits
  PROVE  ParentFds' /\ Asked' /\ ToPrint' = ToPrint /\ HasRead' = HasRead
BY DEF ParentWaits, IInv, ParentFds, CleanBut, Asked, ToPrint, HasRead

\* /dev/null ends up at descriptor 3, and the write end stays where it was.
LEMMA OpenNullStep ==
  ASSUME IInv, OpenNull, ParentWaits, UNCHANGED pipe
  PROVE  IInv'
<1>1. PICK null : null = LowestFree(cfd)
  OBVIOUS
<1>2. /\ cpc = "forked" /\ cpc' = "dup" /\ dst' = 0 /\ UNCHANGED <<todo, status>>
      /\ cfd' = Dup2([cfd EXCEPT ![null] = "null"], null, 3)
  BY <1>1 DEF OpenNull
<1>3. 0 .. 4 \subseteq Fds /\ HackFd \in Fds /\ HackFd > 6
  BY CCompilerAssumption DEF Fds
<1>4. /\ cfd \in [Fds -> FdState] /\ cfd[HackFd] = "w" /\ CleanBut(cfd, {rd, wr})
      /\ rd \in 0 .. 3 /\ wr = HackFd /\ ppc \in {"forked", "read"}
  BY <1>2 DEF IInv, Types, ChildFds, ParentFds
<1>5. null \in 0 .. 4
  <2>1. cfd[4] = "closed"
    BY <1>3, <1>4 DEF CleanBut
  <2> QED
    BY <1>1, <2>1, Lowest
<1>6. cfd' = [cfd EXCEPT ![null] = "null", ![3] = "null"]
  BY <1>2, <1>3, <1>4, <1>5 DEF Dup2
<1>7. cfd' \in [Fds -> FdState] /\ cfd'[3] = "null" /\ cfd'[HackFd] = "w"
  BY <1>3, <1>4, <1>5, <1>6 DEF FdState
<1>8. TypeOK'
  <2>1. \A fd \in Fds : {pfd'[fd], cfd'[fd]} \subseteq {"closed", "std", "null", "r", "w"}
    BY <1>7 DEF IInv, Types, FdState, ParentWaits
  <2>2. cpc' \in {"dead", "forked", "dup", "running"} /\ dst' \in 0 .. 3 /\ status' \in StatusWord
    BY <1>2 DEF IInv, TypeOK
  <2> QED
    BY <2>1, <2>2 DEF IInv, TypeOK, ParentWaits
<1>9. Types'
  BY <1>2, <1>7 DEF IInv, Types, ParentWaits
<1>10. ChildFds'
  BY <1>2, <1>4, <1>7 DEF ChildFds, ParentWaits
<1>11. Bytes' /\ Room'
  BY <1>2, <1>4, ParentKept DEF IInv, Bytes, Room, ParentWaits
<1> QED
  BY <1>8, <1>9, <1>10, <1>11, ParentKept DEF IInv

\* Descriptors 0 and 2 become /dev/null and 1 the write end, in this order.
LEMMA DupStep ==
  ASSUME IInv, Dup, ParentWaits, UNCHANGED pipe
  PROVE  IInv'
<1>1. /\ cpc = "dup" /\ dst =< 2 /\ dst' = dst + 1 /\ UNCHANGED <<cpc, todo, status>>
      /\ cfd' = Dup2(cfd, IF dst = 1 THEN wr ELSE 3, dst)
  BY DEF Dup
<1>2. 0 .. 4 \subseteq Fds /\ HackFd \in Fds /\ HackFd > 6
  BY CCompilerAssumption DEF Fds
<1>3. /\ cfd \in [Fds -> FdState] /\ cfd[HackFd] = "w" /\ cfd[3] = "null" /\ wr = HackFd
      /\ ppc \in {"forked", "read"}
  BY <1>1 DEF IInv, Types, ChildFds, ParentFds
<1>4. dst \in {0, 1, 2}
  BY <1>1 DEF IInv, TypeOK
<1>5. cfd' = [cfd EXCEPT ![dst] = IF dst = 1 THEN "w" ELSE "null"]
  BY <1>1, <1>3, <1>4 DEF Dup2
<1>6. /\ cfd' \in [Fds -> FdState] /\ cfd'[3] = "null" /\ cfd'[HackFd] = "w"
      /\ cfd'[dst] = IF dst = 1 THEN "w" ELSE "null"
      /\ \A fd \in {0, 1, 2} \ {dst} : cfd'[fd] = cfd[fd]
  BY <1>2, <1>3, <1>4, <1>5 DEF FdState
<1>7. TypeOK'
  <2>1. \A fd \in Fds : {pfd'[fd], cfd'[fd]} \subseteq {"closed", "std", "null", "r", "w"}
    BY <1>6 DEF IInv, Types, FdState, ParentWaits
  <2>2. dst' \in 0 .. 3
    BY <1>1, <1>4
  <2> QED
    BY <1>1, <2>1, <2>2 DEF IInv, TypeOK, ParentWaits
<1>8. Types'
  BY <1>1, <1>6 DEF IInv, Types, ParentWaits
<1>9. ChildFds'
  <2>1. /\ dst > 0 => cfd[0] = "null"
        /\ dst > 1 => cfd[1] = "w"
    BY <1>1 DEF IInv, ChildFds
  <2>2. /\ dst' > 0 => cfd'[0] = "null"
        /\ dst' > 1 => cfd'[1] = "w"
        /\ dst' > 2 => cfd'[2] = "null"
    BY <1>1, <1>4, <1>6, <2>1
  <2> QED
    BY <1>1, <1>3, <1>6, <2>2 DEF ChildFds, ParentWaits
<1>10. Bytes' /\ Room'
  BY <1>1, <1>3, ParentKept DEF IInv, Bytes, Room, ParentWaits
<1> QED
  BY <1>7, <1>8, <1>9, <1>10, ParentKept DEF IInv

\* The program runs with all that it is to print before it.
LEMMA ExecStep ==
  ASSUME IInv, Exec, ParentWaits, UNCHANGED pipe
  PROVE  IInv'
<1>1. /\ cpc = "dup" /\ dst > 2 /\ hasWhich /\ cpc' = "running" /\ todo' = ToPrint
      /\ UNCHANGED <<cfd, dst, status>>
  BY DEF Exec, ToPrint
<1>2. ppc \in {"forked", "read"} /\ pipe = 0 /\ HasRead = 0
  BY <1>1 DEF IInv, ChildFds, Bytes
<1>3. ToPrint \in Nat
  <2>1. Head(names) \in Names
    BY <1>2, HeadTailProperties DEF IInv, Asked, Types
  <2> QED
    BY <2>1, CCompilerAssumption DEF ToPrint
<1>4. dst = 3
  BY <1>1 DEF IInv, TypeOK
<1>5. TypeOK' /\ Types'
  BY <1>1, <1>3 DEF IInv, TypeOK, Types, ParentWaits
<1>6. ChildFds'
  BY <1>1, <1>2, <1>4 DEF IInv, ChildFds, ParentWaits
<1>7. Bytes' /\ Room'
  BY <1>1, <1>2, <1>3, ParentKept DEF IInv, Bytes, Room, ParentWaits
<1> QED
  BY <1>5, <1>6, <1>7, ParentKept DEF IInv

\* A child that dies with nothing left to print has its status to say how.
LEMMA DieStep ==
  ASSUME IInv, ParentWaits, UNCHANGED <<pipe, dst, todo>>, cpc \in {"dup", "running"},
         NEW how, Die(how),
         how = IF ~hasWhich THEN ExecFailed
               ELSE ExitWith(IF Head(names) \in installed THEN 0 ELSE 1),
         HasRead + pipe = ToPrint
  PROVE  IInv'
<1>1. cpc' = "dead" /\ cfd' = [fd \in Fds |-> "closed"] /\ status' = how
  BY DEF Die
<1>2. ppc \in {"forked", "read"}
  BY DEF IInv, ChildFds
<1>3. how \in StatusWord
  BY Status
<1>4. cfd' \in [Fds -> FdState] /\ \A fd \in Fds : cfd'[fd] = "closed"
  BY <1>1 DEF FdState
<1>5. TypeOK'
  <2>1. \A fd \in Fds : {pfd'[fd], cfd'[fd]} \subseteq {"closed", "std", "null", "r", "w"}
    BY <1>4 DEF IInv, Types, FdState, ParentWaits
  <2> QED
    BY <1>1, <1>3, <2>1 DEF IInv, TypeOK, ParentWaits
<1>6. Types'
  BY <1>4 DEF IInv, Types, ParentWaits
<1>7. ChildFds'
  BY <1>1, <1>4 DEF ChildFds
<1>8. Bytes' /\ Room'
  BY <1>1, <1>2, ParentKept DEF IInv, Bytes, Room, ParentWaits
<1> QED
  BY <1>5, <1>6, <1>7, <1>8, ParentKept DEF IInv

LEMMA ExecFailsStep ==
  ASSUME IInv, ExecFails, ParentWaits, UNCHANGED pipe
  PROVE  IInv'
<1>1. cpc = "dup" /\ ~hasWhich /\ Die(ExecFailed) /\ UNCHANGED <<dst, todo>>
  BY DEF ExecFails
<1>2. HasRead + pipe = ToPrint
  BY <1>1 DEF IInv, Bytes, ToPrint
<1> QED
  BY <1>1, <1>2, DieStep

LEMMA ExitStep ==
  ASSUME IInv, Exit, ParentWaits, UNCHANGED pipe
  PROVE  IInv'
<1>1. /\ cpc = "running" /\ todo = 0 /\ UNCHANGED <<dst, todo>>
      /\ Die(ExitWith(IF Head(names) \in installed THEN 0 ELSE 1))
  BY DEF Exit
<1>2. hasWhich /\ HasRead + pipe = ToPrint
  <2>1. hasWhich /\ HasRead + pipe + todo = ToPrint
    BY <1>1 DEF IInv, Bytes
  <2>2. HasRead \in Nat /\ pipe \in Nat
    BY DEF HasRead, IInv, Types
  <2> QED
    BY <1>1, <2>1, <2>2
<1> QED
  BY <1>1, <1>2, DieStep

\* What which writes goes to the pipe, since that is its standard output.
LEMMA WriteStep ==
  ASSUME IInv, Write, ParentWaits
  PROVE  IInv'
<1>1. cpc = "running" /\ UNCHANGED <<cpc, cfd, dst, status>>
  BY DEF Write
<1>2. cfd[1] = "w" /\ ppc \in {"forked", "read"}
  BY <1>1 DEF IInv, ChildFds
<1>3. PICK n \in 1 .. todo : n =< PipeCap - pipe /\ pipe' = pipe + n /\ todo' = todo - n
  BY <1>2 DEF Write
<1>4. pipe' \in Nat /\ pipe' =< PipeCap /\ todo' \in Nat /\ pipe' + todo' = pipe + todo
  <2>1. pipe \in Nat /\ todo \in Nat /\ PipeCap \in Nat
    BY CCompilerAssumption DEF IInv, Types
  <2> QED
    BY <1>3, <2>1
<1>5. TypeOK' /\ Types'
  <2>1. pipe' \in 0 .. PipeCap
    BY <1>4, CCompilerAssumption
  <2> QED
    BY <1>1, <1>4, <2>1 DEF IInv, TypeOK, Types, ParentWaits
<1>6. ChildFds'
  BY <1>1 DEF IInv, ChildFds, ParentWaits
<1>7. Bytes'
  <2>1. HasRead + pipe + todo = ToPrint /\ hasWhich
    BY <1>1 DEF IInv, Bytes
  <2>2. HasRead \in Nat /\ pipe \in Nat /\ todo \in Nat
    BY DEF HasRead, IInv, Types
  <2>3. HasRead + pipe' + todo' = ToPrint
    <3>1. HasRead + (pipe' + todo') = HasRead + (pipe + todo)
      BY <1>4
    <3>2. /\ HasRead + (pipe' + todo') = HasRead + pipe' + todo'
          /\ HasRead + (pipe + todo) = HasRead + pipe + todo
      BY <1>4, <2>2
    <3> QED
      BY <2>1, <3>1, <3>2
  <2> QED
    BY <1>1, <1>2, <2>1, <2>3, ParentKept DEF Bytes, ParentWaits
<1>8. Room'
  BY <1>1, <1>2 DEF IInv, Room, ParentWaits
<1> QED
  BY <1>5, <1>6, <1>7, <1>8, ParentKept DEF IInv

-------------------------------------------------------------------------------
\* The inductive invariant: no byte and no descriptor is ever out of account.
THEOREM Inductive == Spec => []IInv
<1>1. Init => IInv
  <2> SUFFICES ASSUME Init PROVE IInv
    OBVIOUS
  <2>1. {0, 1, 2} \subseteq Fds /\ 0 \in Fds /\ 0 \in 0 .. PipeCap
    BY CCompilerAssumption DEF Fds
  <2>2. pfd \in [Fds -> FdState] /\ cfd \in [Fds -> FdState] /\ CleanBut(pfd, {})
    <3>1. PICK shut \in SUBSET {0, 1, 2} :
            pfd = [fd \in Fds |-> IF fd \in {0, 1, 2} \ shut THEN "std" ELSE "closed"]
      BY DEF Init
    <3> QED
      BY <3>1 DEF Init, FdState, CleanBut
  <2>3. status \in StatusWord
    <3>1. ExitWith(0) = 0
      BY DEF ExitWith
    <3> QED
      BY <3>1, Status DEF Init
  <2>4. Types
    BY <2>2, EmptySeq DEF Init, Types
  <2>5. TypeOK
    BY <2>1, <2>2, <2>3 DEF Init, TypeOK, FdState
  <2>6. ParentFds /\ ChildFds /\ Asked /\ Bytes /\ Room
    BY <2>2 DEF Init, ParentFds, ChildFds, Asked, Bytes, HasRead, Room
  <2> QED
    BY <2>4, <2>5, <2>6 DEF IInv
<1>2. IInv /\ [Next]_vars => IInv'
  <2> SUFFICES ASSUME IInv, [Next]_vars PROVE IInv'
    OBVIOUS
  <2>1. CASE Parent
    BY <2>1, DetermineStep, MakePipeStep, NoneFoundStep, ForkStep, ForkFailsStep,
       CloseWriteEndStep, ReadStep, ReadNothingStep, WaitStep DEF Parent
  <2>2. CASE Child
    <3>1. ParentWaits
      BY <2>2 DEF Child, ParentWaits, setting, buffer
    <3> QED
      BY <2>2, <3>1, OpenNullStep, DupStep, ExecStep, ExecFailsStep, ExitStep, WriteStep DEF Child
  <2>3. CASE UNCHANGED vars
    BY <2>3 DEF vars, setting, child, buffer, IInv, TypeOK, Types, ParentFds, CleanBut, ChildFds,
                Asked, Bytes, HasRead, ToPrint, Room
  <2> QED
    BY <2>1, <2>2, <2>3 DEF Next
<1> QED
  BY <1>1, <1>2, PTL DEF Spec

\* The type invariant of the search, for any sizes and any names.
THEOREM Typing == Spec => []TypeOK
<1>1. IInv => TypeOK
  BY DEF IInv
<1> QED
  BY <1>1, Inductive, PTL

\* The parent's end of file is the end of the child: it has all that the child printed.
THEOREM EndOfFile == Spec => []WholePathRead
<1>1. IInv => WholePathRead
  <2> SUFFICES ASSUME IInv, ppc = "wait" PROVE cpc = "dead" /\ pipe = 0 /\ idx = ToPrint
    BY DEF WholePathRead, ToPrint
  <2>1. cpc = "dead" /\ pipe = 0 /\ HasRead = idx
    BY DEF IInv, Room, HasRead
  <2>2. idx + pipe = ToPrint /\ idx \in Nat
    BY <2>1 DEF IInv, Bytes, Types
  <2> QED
    BY <2>1, <2>2
<1> QED
  BY <1>1, Inductive, PTL

\* The shuffle of descriptors gives the child the pipe, whatever yfc was started with.
THEOREM Shuffle == Spec => []ChildWritesToPipe
<1>1. IInv => ChildWritesToPipe
  BY DEF IInv, ChildFds, ChildWritesToPipe
<1> QED
  BY <1>1, Inductive, PTL

\* Between two names no descriptor and no child is left of the one before.
THEOREM Released == Spec => []NothingLeftOpen
<1>1. IInv => NothingLeftOpen
  BY DEF IInv, ChildFds, ParentFds, CleanBut, NothingLeftOpen
<1> QED
  BY <1>1, Inductive, PTL

\* The answer about a name is the one its own child gave.
THEOREM Answers == Spec => AnswersAreRight
<1>1. IInv /\ [Next]_vars =>
        [ppc = "wait" /\ ppc' # "wait" /\ hasWhich =>
           (selected' = Head(names)) = (Head(names) \in installed)]_vars
  <2> SUFFICES ASSUME IInv, Next, ppc = "wait", ppc' # "wait", hasWhich
               PROVE  (selected' = Head(names)) = (Head(names) \in installed)
    BY DEF vars
  <2>1. Wait
    BY DEF Next, Parent, Child, Determine, MakePipe, NoneFound, Fork, ForkFails, CloseWriteEnd,
           Read, ReadNothing
  <2>2. status = ExitWith(IF Head(names) \in installed THEN 0 ELSE 1)
    BY <2>1 DEF Wait, IInv, Bytes
  <2>3. WEXITSTATUS(status) = 0 <=> Head(names) \in installed
    BY <2>2, Status
  <2>4. selected = None /\ Head(names) \in Names
    BY HeadTailProperties DEF IInv, Asked, Types
  <2>5. selected' = Head(names) <=> Head(names) \in installed
    BY <2>1, <2>3, <2>4, CCompilerAssumption DEF Wait
  <2> QED
    BY <2>5
<1> QED
  BY <1>1, Inductive, PTL DEF Spec, AnswersAreRight
================================================================================
