------------------------------ MODULE MCStartup ------------------------------
EXTENDS Startup

MCMaxPath == 9

\* Nothing, or a dot.
MCUnwritten == {<<>>, <<".">>}

F(folder, name) == Entry(folder, name, "file")
Yf(folder, name) == F(folder, <<name, ".", "yf">>)
D(folder, name) == Entry(folder, <<name>>, "dir")
Locked(folder, name) == Entry(folder, <<name>>, "locked")

A == Sub(Root, <<"a">>)
B == Sub(Root, <<"b">>)
AB == Sub(A, <<"b">>)
ABC == Sub(AB, <<"c">>)

\* An empty project; prefixes that collide if the folders are left out, or if one is cut behind its
\* path; file names that collide; a name without a dot in and below src/; links; a folder too deep,
\* and one that cannot be opened, beside others; and names of files that are cut, to one name.
MCFolders ==
  { NoFolder, {},
    {Yf(Root, "a"), D(Root, "a"), Yf(A, "a"), Yf(A, "yf")},
    {F(Root, <<"a", ".", "b", ".", "yf">>), D(Root, "a"), Yf(A, "b"), F(A, <<"b">>)},
    {Yf(Root, "a"), D(Root, "b"), Yf(B, "b"), Locked(B, "c")},
    {F(Root, <<"a">>), Yf(Root, "a"), Entry(Root, <<"l">>, "other")},
    {Yf(Root, "a"), D(Root, "a"), D(A, "b"),
     Yf(AB, "a"), D(AB, "c"), D(ABC, "d"), Yf(Sub(ABC, <<"d">>), "a")},
    {D(Root, "a"), D(A, "b"), F(AB, <<"c", ".", "d", ".", "yf">>),
     F(AB, <<"c", ".", "d", ".", "txt">>), F(Root, <<"b", "txt">>)} }

Short == BoundedSeq(Options \cup {"gcc", "foo"}, 3)
Long == [1 .. 4 -> {"native-compiler", "compiler-type", "gcc", "foo", "project",
                    "dump-projfiles", "version"}]
MCArgvs == Short \cup Long
=============================================================================
