---------------------------- MODULE ProjectFiles ----------------------------
(***************************************************************************)
(* driver/find-files.c: the recursive scan of src/ and the names it gives  *)
(* the files it finds.  A path is a sequence of tokens: "/", "." and the   *)
(* pieces between them, so that its length stands for the number of its    *)
(* characters.                                                             *)
(***************************************************************************)
EXTENDS Naturals, Sequences, SequencesExt, FiniteSetsExt

CONSTANTS MaxPath,    \* the size of sub_entry_buf, and of output_file: 256
          NoFolder,
          Unwritten   \* what memory from malloc may hold, up to the first NUL

VARIABLES src,    \* what is in and below the folder src/, or NoFolder
          dirs,   \* the activations of yfd_folder_scan: the path and what readdir has yet to give
          units,  \* data->files: file name -> what is known of the file
          scan    \* "idle", "scanning", "scanned", "failed", "crashed", or "named": there was none

scanVars == <<src, dirs, units, scan>>

\* An entry of a folder: a "file", a "dir", one that is "locked" (opendir fails), or "other".
Entry(folder, name, kind) == [folder |-> folder, name |-> name, kind |-> kind]
Dir(path, left) == [path |-> path, left |-> left]
Unit(prefix, sym, anew) == [file_prefix |-> prefix, sym_file |-> sym, parse_anew |-> anew]

In(entries, folder) == {e \in entries : e.folder = folder}
Sub(folder, name) == folder \o <<"/">> \o name

Root == <<"src">>
FolderKinds == {"dir", "locked"}

\* Every entry is in src/ or in a folder that can be read.
IsTree(entries) ==
  \A e \in entries :
    /\ e.name \in Seq(Range(e.name)) /\ e.folder \in Seq(Range(e.folder))
    /\ e.folder = Root \/ \E d \in entries : d.kind = "dir" /\ e.folder = Sub(d.folder, d.name)

\* snprintf into sub_entry_buf
Truncated(path) == IF Len(path) < MaxPath THEN path ELSE SubSeq(path, 1, MaxPath - 1)

\* What follows the first "/".
Rest(path) == SubSeq(path, SelectInSeq(path, LAMBDA t : t = "/") + 1, Len(path))

Dotted(path) == [j \in DOMAIN Rest(path) |-> IF Rest(path)[j] = "/" THEN "." ELSE Rest(path)[j]]
LastDot(name) == SelectLastInSeq(name, LAMBDA t : t = ".")

UpToDot(name) == SubSeq(name, 1, LastDot(name) - 1)

\* Mutant: the folders are left out.
IdentifierPrefix_BaseName(path, rest) ==
  UpToDot(SubSeq(path, SelectLastInSeq(path, LAMBDA t : t = "/") + 1, Len(path)) \o rest)

\* yfd_get_identifier_prefix: no NUL is written behind the name, and strrchr goes on in the rest of
\* the buffer, which nobody wrote.  The cut is at the last dot it finds.
IdentifierPrefix(path, rest) == UpToDot(Dotted(path) \o rest)

\* yfd_get_sym_file_name
SymFileName(path) == <<"bin", "/", "sym", "/">> \o Rest(path) \o <<"sym">>

IsYf(path) == IsSuffix(<<".", "yf">>, path)
Output(path) == <<"bin", "/", "c", "/">> \o Rest(path)

\* create_output_file_name of compiler-backend.c, for a project
OutputFile(path) == IF IsYf(path) THEN Front(Output(path)) \o <<"c">> ELSE Output(path) \o <<".", "c">>

\* What is copied into output_file on the way fits it, with its NUL.  Nothing checks that.
OutputFits(path) == Len(Output(path)) + (IF IsYf(path) THEN 0 ELSE 2) < MaxPath

ScanInit == src = {} /\ dirs = <<>> /\ units = <<>> /\ scan = "idle"

\* yfd_find_projfiles
FindProjfiles(folder) ==
  /\ scan = "idle"
  /\ src' = folder
  /\ IF folder = NoFolder
     THEN scan' = "failed" /\ dirs' = <<>>
     ELSE scan' = "scanning" /\ dirs' = <<Dir(Root, In(folder, Root))>>
  /\ units' = units

Scanning == scan = "scanning"
Here == Last(dirs)

\* readdir gives the entry e; the order of a folder's entries is the file system's.
ReadDir(e) == dirs' = [dirs EXCEPT ![Len(dirs)].left = @ \ {e}]

\* The activation for the folder e.
SubDir(e) == LET path == Sub(Here.path, e.name) IN Dir(path, In(src, path))

\* Every activation closes its folder and returns the error.
Fail == dirs' = <<>> /\ scan' = "failed" /\ UNCHANGED <<src, units>>

\* Mutant: a folder that cannot be scanned is passed over.
EnterFolder_Skips ==
  \E e \in Here.left :
    /\ e.kind \in FolderKinds
    /\ IF Len(Here.path) + Len(e.name) + 2 > MaxPath \/ e.kind = "locked"
       THEN ReadDir(e)
       ELSE dirs' = Append([dirs EXCEPT ![Len(dirs)].left = @ \ {e}], SubDir(e))
    /\ UNCHANGED <<src, units, scan>>

EnterFolder ==
  \E e \in Here.left :
    /\ e.kind \in FolderKinds
    /\ IF Len(Here.path) + Len(e.name) + 2 > MaxPath \/ e.kind = "locked"
       THEN Fail
       ELSE /\ dirs' = Append([dirs EXCEPT ![Len(dirs)].left = @ \ {e}], SubDir(e))
            /\ UNCHANGED <<src, units, scan>>

\* yfd_add_file.  The symbol file is there and up to date, or it is not (yfd_should_recompile);
\* a name that was cut is no file, and is always parsed anew.
AddUnit(path, rest, upToDate) ==
  units' = [p \in DOMAIN units \cup {path} |->
              IF p = path
              THEN Unit(IdentifierPrefix(path, rest), SymFileName(path), ~upToDate)
              ELSE units[p]]

\* Without a dot to cut at, NULL is written to.
FoundFile ==
  \E e \in Here.left, rest \in Unwritten :
    /\ e.kind = "file"
    /\ LET path == Truncated(Sub(Here.path, e.name)) IN
       IF LastDot(Dotted(path) \o rest) = 0
       THEN scan' = "crashed" /\ UNCHANGED <<src, dirs, units>>
       ELSE /\ \E upToDate \in BOOLEAN :
                 /\ upToDate => path = Sub(Here.path, e.name)
                 /\ AddUnit(path, rest, upToDate)
            /\ ReadDir(e)
            /\ UNCHANGED <<src, scan>>

\* Links, and whatever else is neither a folder nor a file, are passed over.
OtherEntry ==
  \E e \in Here.left : e.kind = "other" /\ ReadDir(e) /\ UNCHANGED <<src, units, scan>>

FolderDone ==
  /\ Here.left = {}
  /\ dirs' = Front(dirs)
  /\ scan' = IF Len(dirs) = 1 THEN "scanned" ELSE scan
  /\ UNCHANGED <<src, units>>

ScanFolder == Scanning /\ (EnterFolder \/ FoundFile \/ OtherEntry \/ FolderDone)

-----------------------------------------------------------------------------
(* What is in src/, read as a whole. *)

Path(e) == Sub(e.folder, e.name)
Files == {Path(e) : e \in {x \in src : x.kind = "file"}}
Unscannable ==
  \E e \in src : e.kind \in FolderKinds /\ (e.kind = "locked" \/ Len(Path(e)) >= MaxPath)
NoDot == \E path \in Files : LastDot(Dotted(Truncated(path))) = 0

\* Whatever order the file system lists its entries in: if the scan ends, every file under src/ is
\* a unit under its own name, unless that was too long, and nothing else is; it fails only for a
\* missing src/, a folder too deep or one that cannot be opened, and always for these; it crashes
\* only when a file in src/ has no dot in its name (yfd_folder_scan, yfd_add_file).
ScanRight ==
  /\ scan = "scanned" => DOMAIN units = {Truncated(path) : path \in Files} /\ ~Unscannable
  /\ scan = "failed" => src = NoFolder \/ Unscannable
  /\ scan = "crashed" => NoDot

Plain(path) == IsYf(path) /\ Cardinality({j \in DOMAIN path : path[j] = "."}) = 1

\* The dot that the prefix of a unit was cut at is one of its path.
CutInPath(path) == Len(units[path].file_prefix) < Len(Rest(path))

\* Two units whose names end in .yf and have no other dot in them have symbol files and C files of
\* their own, if output_file has room for these, and share a prefix only if one of the two was cut in
\* bytes nobody wrote (yfd_get_identifier_prefix, yfd_get_sym_file_name, create_output_file_name).
NamesDistinct ==
  \A p, q \in {path \in DOMAIN units : Plain(path)} :
    p # q => /\ CutInPath(p) /\ CutInPath(q) => units[p].file_prefix # units[q].file_prefix
             /\ units[p].sym_file # units[q].sym_file
             /\ OutputFits(p) /\ OutputFits(q) => OutputFile(p) # OutputFile(q)
=============================================================================
