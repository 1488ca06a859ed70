---------------------------- MODULE MCFileSystem ----------------------------
(***************************************************************************)
(* Instances of FileSystem: packages with two NCAs.  The run about what    *)
(* open handles stand for explores two halves of the space: many loads     *)
(* with one number for the opened files, which two clients may get         *)
(* ("games"), and one load with many files, opened by one client after the *)
(* other ("files").                                                        *)
(***************************************************************************)
EXTENDS FileSystem, TLC

Dir(name, parent) == [name |-> name, parent |-> parent]
RomFile(name, parent, fits) == [name |-> name, parent |-> parent, fits |-> fits]

Image(id, header, dirTable, fileTable, dirs, files) ==
    [id |-> id, header |-> header, dirTable |-> dirTable, fileTable |-> fileTable,
     dirs |-> dirs, files |-> files]

\* A root "." with a directory; the nameless root that ends the table, and a
\* file past the end; images that Parse gives up at each of its checks.
Nested == Image(1, TRUE, TRUE, TRUE, <<Dir(<<".">>, 0), Dir(<<"a">>, 1)>>,
                <<RomFile(<<"x">>, 2, TRUE), RomFile(<<"x">>, 1, TRUE)>>)
Flat == Image(2, TRUE, TRUE, TRUE, <<Dir(<<>>, 0), Dir(<<"a">>, 1)>>,
              <<RomFile(<<"x">>, 2, TRUE), RomFile(<<"y">>, 9, FALSE), RomFile(<<>>, 1, TRUE)>>)
NoFiles == Image(3, TRUE, TRUE, FALSE, <<Dir(<<"a">>, 0)>>, <<>>)
Broken == Image(4, TRUE, FALSE, TRUE, <<>>, <<RomFile(<<"x">>, 0, TRUE)>>)

Section(off, size) == [off |-> off, size |-> size]
Nca(sections, mains, image) ==
    [magic |-> TRUE, sections |-> sections, mains |-> mains, image |-> image]
PackageEntry(name, pos, size, nca) == [name |-> name, pos |-> pos, size |-> size, nca |-> nca]
Package(id, format, length, entries) ==
    [id |-> id, format |-> format, parsed |-> TRUE, length |-> length, entries |-> entries]

Control == Nca(<<Section(2, 2)>>, {2}, NoFiles)
Program(image) == Nca(<<Section(0, 3), Section(2, 3)>>, {0, 2}, image)
DataOnly == Nca(<<Section(2, 3)>>, {2}, Flat)
CutOff == Nca(<<Section(7, 3)>>, {7}, Flat)

MCPackages ==
  {Package(1, "PFS0", 15, <<PackageEntry("nca", 1, 5, Control), PackageEntry("nca", 6, 6, Program(Nested))>>),
   Package(2, "HEAD", 15, <<PackageEntry("nca", 1, 5, Program(Flat)), PackageEntry("contains", 6, 6, DataOnly)>>),
   Package(3, "PFS0", 9, <<PackageEntry("other", 1, 2, Control), PackageEntry("nca", 2, 9, DataOnly), PackageEntry("nca", 2, 5, CutOff)>>),
   Package(4, "PFS0", 15, <<PackageEntry("nca", 1, 6, Nca(<<Section(2, 3)>>, {}, Broken))>>),
   [Package(5, "HEAD", 15, <<>>) EXCEPT !.parsed = FALSE],
   Package(6, "NSO0", 4, <<>>), Package(7, "NRO", 4, <<>>)}

ClientSymmetry == Permutations(Clients)

MCPaths == {<<>>, <<"x">>, <<"a">>, <<"a", "x">>, <<"y">>}

VARIABLE part

Games ==
    /\ part = "games" /\ FsNext /\ nextFd' <= 2
    /\ \A c \in Clients : opening'[c].fd <= 1

\* The one load is that of the first game, and succeeds.
Files ==
    /\ part = "files" /\ FsNext /\ ~overlapped'
    /\ program' \in {NoNca, <<1, 2>>} /\ loads' = IF program' = NoNca THEN 0 ELSE 1

ServeSpec ==
    /\ part \in {"games", "files"} /\ FsInit
    /\ [][(Games \/ Files) /\ UNCHANGED part]_<<part, fsVars>>
=============================================================================
