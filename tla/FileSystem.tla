----------------------------- MODULE FileSystem -----------------------------
(***************************************************************************)
(* Game packages and the file system service: Loader_LoadExecutable and    *)
(* Loader_LoadPackage pick a RomFS and a program out of an NSP or XCI      *)
(* (loader/Loader.cpp), RomFs parses it (loader/RomFs.cpp), and FsService  *)
(* serves it to the guest (services/Fs.cpp).  Offsets and sizes are in     *)
(* media units of 512 bytes, which is also the size of an ExeFS header.    *)
(***************************************************************************)
EXTENDS Integers, FiniteSets, Sequences

CONSTANTS
    Clients,    \* guest threads that send commands to FsService
    Packages,   \* game files, see Package below
    Paths,      \* normalised paths the guest asks for: sequences of names
    MaxDepth,   \* directories BuildPath climbs (100)
    MaxLoads,   \* bound: calls of LoadGame
    MaxOpens    \* bound: file handles given out

VARIABLES
    romfs,      \* g_romfs, g_romfs_raw_data, g_romfs_loaded
    program,    \* the NCA the running program came from, NoNca if none
    fds,        \* g_file_table: open handles
    nextFd,     \* FileTable::next_fd_
    opening,    \* of each client: the handle it read and the entry it will store
    overlapped, \* history: another client used the table during an Open
    loads       \* calls of LoadGame, for the bound

fsVars == <<romfs, program, fds, nextFd, opening, overlapped, loads>>

\* A package: format is its magic; parsed says whether ParsePfs0 accepts the
\* archive (of an XCI: whether the partition lies in the file, too).
\* entries: name is "nca" (ends in .nca), "contains" or "other"; pos and size
\* place the entry in a file of the given length.
\* nca: magic; sections with offset and size; mains, where an ExeFS that lists
\* an NSO "main" begins; image, the bytes the loader takes for the RomFS.
\* image: the bounds checks of the header and the two tables; names are <<>>
\* for name_len = 0; parent is the index of a directory, 0 for none.

\* ParsePfs0 lists the entries of an archive in a vector.
ASSUME PackagesAssumption ==
    \A pkg \in Packages : DOMAIN pkg.entries = 1..Len(pkg.entries)

\* No image, and the one byte OpenRomFS makes up; ids of images are positive.
Unusable(id) == [id |-> id, header |-> FALSE, dirTable |-> FALSE, fileTable |-> FALSE,
                 dirs |-> <<>>, files |-> <<>>]
NoImage == Unusable(0)
Placeholder == Unusable(0 - 1)
NoNca == <<0, 0>>

\* What an open handle holds: nothing, the bytes of an image, or of one file.
Data(kind, image, file) == [kind |-> kind, image |-> image.id, file |-> file]
Empty == Data("empty", NoImage, 0)

File(path, data, writable) ==
    [path |-> path, data |-> data, writable |-> writable, dir |-> FALSE, pos |-> 0, names |-> <<>>]

NotOpening == [fd |-> 0, entry |-> File(<<>>, Empty, FALSE)]

FsInit ==
    /\ romfs = [raw |-> NoImage, loaded |-> FALSE, dirs |-> <<>>, files |-> <<>>]
    /\ program = NoNca
    /\ fds = [fd \in {} |-> 0]
    /\ nextFd = 1 /\ loads = 0
    /\ opening = [c \in Clients |-> NotOpening] /\ overlapped = FALSE

-----------------------------------------------------------------------------
(* RomFs.                                                                  *)

\* A table ends at the first entry without a name, or at its size.
UpToNameless(table) ==
    LET cut == {i \in DOMAIN table : table[i].name = <<>>}
    IN IF cut = {} THEN table
       ELSE SubSeq(table, 1, (CHOOSE i \in cut : \A j \in cut : i <= j) - 1)

\* Mutant: the tables of the last image are not cleared.
ParseAppends(fs, image) ==
    IF ~image.header \/ ~image.dirTable THEN [fs EXCEPT !.raw = image]
    ELSE IF ~image.fileTable
    THEN [fs EXCEPT !.raw = image, !.dirs = @ \o UpToNameless(image.dirs)]
    ELSE [raw |-> image, loaded |-> TRUE,
          dirs |-> fs.dirs \o UpToNameless(image.dirs),
          files |-> fs.files \o UpToNameless(image.files)]

\* FsService_SetRomFS and RomFs::Parse: the raw bytes are replaced and the
\* tables cleared even if the image turns out to be unusable.
SetRomFS(fs, image) ==
    IF ~image.header \/ ~image.dirTable
    THEN [fs EXCEPT !.raw = image, !.dirs = <<>>, !.files = <<>>]
    ELSE IF ~image.fileTable
    THEN [fs EXCEPT !.raw = image, !.dirs = UpToNameless(image.dirs), !.files = <<>>]
    ELSE [raw |-> image, loaded |-> TRUE,
          dirs |-> UpToNameless(image.dirs), files |-> UpToNameless(image.files)]

\* BuildPath of a file: the names of the directories above, outermost first;
\* "." adds nothing and a parent that is no index ends the climb.
Above(dirs) ==
    LET Climb[d \in 0..MaxDepth] ==
          [q \in 0..Len(dirs) |->
             IF d = 0 \/ q = 0 THEN <<>>
             ELSE LET up == IF dirs[q].parent \in 0..Len(dirs) THEN dirs[q].parent ELSE 0
                  IN Climb[d - 1][up] \o IF dirs[q].name = <<".">> THEN <<>> ELSE dirs[q].name]
    IN Climb[MaxDepth]

BuildPath(dirs, e) ==
    (IF e.parent \in 1..Len(dirs) THEN Above(dirs)[e.parent] ELSE <<>>) \o e.name

\* The first file with the path, 0 if there is none.
FindFile(path) ==
    LET found == {i \in DOMAIN romfs.files : BuildPath(romfs.dirs, romfs.files[i]) = path}
    IN IF found = {} THEN 0 ELSE CHOOSE i \in found : \A j \in found : i <= j

\* The path of a directory is built without the check of the index, so a bad
\* parent is read past the table.  What comes of it decides nothing: every
\* caller that opens something needs a file of the path (ReadFile).
Exists(path) ==
    \/ FindFile(path) # 0
    \/ \E i \in DOMAIN romfs.dirs : BuildPath(romfs.dirs, romfs.dirs[i]) = path

\* ReadFile copies from the span that Parse kept.  It points into the buffer
\* of the loader, which is gone: what is read is anybody's guess.
ReadFile(path) ==
    LET i == FindFile(path)
    IN IF i = 0 \/ ~romfs.files[i].fits THEN {}
       ELSE {Data("file", romfs.raw, i), Data("garbage", romfs.raw, i)}

-----------------------------------------------------------------------------
(* Loader.                                                                 *)

\* ParseNca: where the RomFS is thought to be, given the bytes available.
\* A section reaches far enough for an ExeFS header, or the first section
\* that does not leaves an ExeFS only.  exefs_offset stays 0 in any case.
ParseNca(nca, limit) ==
    LET used == {i \in DOMAIN nca.sections : nca.sections[i].off > 0 /\ nca.sections[i].size > 0}
        far == {i \in used : limit > nca.sections[i].off + 1}
        last == nca.sections[CHOOSE i \in far : \A j \in far : j <= i]
        first == nca.sections[CHOOSE i \in used : \A j \in used : i <= j]
        none == [ok |-> FALSE, off |-> 0, size |-> 0]
    IN IF limit < 2 \/ ~nca.magic \/ used = {} THEN none
       ELSE IF far = {} THEN [ok |-> TRUE, off |-> first.off + first.size, size |-> 0]
       ELSE [ok |-> TRUE, off |-> last.off + 1, size |-> last.size - 1]

ExeFsOffset == 0

\* A RomFS is usable if it lies inside the file.
HasRomFS(pkg, e, parsed) ==
    parsed.ok /\ parsed.size > 0 /\ e.pos + parsed.off + parsed.size <= pkg.length

IsNca(pkg, e) ==
    e.name = "nca" \/ (pkg.format = "HEAD" /\ e.name = "contains")

Smaller(x, y) == IF x < y THEN x ELSE y

\* What Loader_LoadExecutable makes of one entry.
Examined(pkg, e) ==
    IF pkg.format = "HEAD" THEN ParseNca(e.nca, e.size)
    ELSE IF e.pos + 2 > pkg.length THEN [ok |-> FALSE, off |-> 0, size |-> 0]
    ELSE ParseNca(e.nca, Smaller(e.size, pkg.length - e.pos))

\* FindExeFsEntry and IsNSO at the place where the ExeFS is looked for.
HasMain(pkg, e) == Examined(pkg, e).ok /\ ExeFsOffset \in e.nca.mains

\* The NCAs among the first n entries whose RomFS can be used.
Mounting(pkg, n) ==
    {i \in 1..n : /\ IsNca(pkg, pkg.entries[i])
                  /\ HasRomFS(pkg, pkg.entries[i], Examined(pkg, pkg.entries[i]))}

Parses(image) == image.header /\ image.dirTable /\ image.fileTable

\* SetRomFS for the entries in S, in their order: each replaces the one before,
\* and g_romfs_loaded stays set once any of them was parsed.
MountAll(pkg, S, fs) ==
    LET last == CHOOSE i \in S : \A j \in S : j <= i
    IN IF S = {} THEN fs
       ELSE [SetRomFS(fs, pkg.entries[last].nca.image)
               EXCEPT !.loaded = @ \/ \E i \in S : Parses(pkg.entries[i].nca.image)]

\* Mutant: the RomFS is taken up after the program was looked for.
MountedLate(pkg, n, fs) == MountAll(pkg, Mounting(pkg, n) \ {n}, fs)

\* Loader_LoadExecutable up to entry n: every NCA on the way mounts its RomFS.
Mounted(pkg, n, fs) == MountAll(pkg, Mounting(pkg, n), fs)

IsArchive(pkg) == pkg.format \in {"PFS0", "HEAD"} /\ pkg.parsed

\* Loader_LoadPackage: the first NCA with a usable RomFS.
Extracted(pkg, fs) ==
    LET Parsed(e) == IF pkg.format = "PFS0" /\ e.pos + e.size > pkg.length
                     THEN [ok |-> FALSE, off |-> 0, size |-> 0]
                     ELSE ParseNca(e.nca, e.size)
        usable == {i \in DOMAIN pkg.entries :
                     IsNca(pkg, pkg.entries[i]) /\ HasRomFS(pkg, pkg.entries[i], Parsed(pkg.entries[i]))}
    IN IF ~IsArchive(pkg) \/ usable = {} THEN fs
       ELSE SetRomFS(fs, pkg.entries[CHOOSE i \in usable : \A j \in usable : i <= j].nca.image)

Entries(pkg) == IF IsArchive(pkg) THEN DOMAIN pkg.entries ELSE {}
Candidates(pkg) == {i \in Entries(pkg) : IsNca(pkg, pkg.entries[i]) /\ HasMain(pkg, pkg.entries[i])}

Load == loads < MaxLoads /\ loads' = loads + 1 /\ UNCHANGED <<fds, nextFd, opening, overlapped>>

\* LoadGame: the "main" of the first NCA whose NSO can be placed in memory.
LoadProgram(pkg) ==
    /\ Load
    /\ \E n \in Candidates(pkg) :
         /\ romfs' = Mounted(pkg, n, romfs)
         /\ program' = <<pkg.id, n>>
\* ... an NSO by itself.
LoadNsoFile(pkg) ==
    /\ Load
    /\ pkg.format = "NSO0"
    /\ program' = <<pkg.id, 0>>
    /\ UNCHANGED romfs
\* ... and when there is no program: the package is looked through a second
\* time for a RomFS, and the NRO loader decides (it refuses archives).
LoadOther(pkg) ==
    /\ Load
    /\ romfs' = Extracted(pkg, IF IsArchive(pkg) THEN Mounted(pkg, Len(pkg.entries), romfs) ELSE romfs)
    /\ program' = IF pkg.format = "NRO" THEN <<pkg.id, 0>> ELSE program

-----------------------------------------------------------------------------
(* FsService.  An open handle holds a copy of the data.  The table has no  *)
(* lock, and the commands of several guest threads run side by side.       *)

Opening == {c \in Clients : opening[c].fd # 0}

\* A client that is not inside an Open uses the table.
UseTable == overlapped' = (overlapped \/ Opening # {})

\* FileTable::Open and OpenDir: fd = next_fd_++ reads the counter here ...
Open(c, entry) ==
    /\ c \notin Opening
    /\ nextFd <= MaxOpens
    /\ opening' = [opening EXCEPT ![c] = [fd |-> nextFd, entry |-> entry]]
    /\ UseTable
    /\ UNCHANGED <<fds, nextFd>>

\* Mutant: handles are numbered by the size of the table.
StoreBySize(c) ==
    LET fd == 1 + Cardinality(DOMAIN fds) IN
    /\ c \in Opening
    /\ fds' = [f \in DOMAIN fds \cup {fd} |-> IF f = fd THEN opening[c].entry ELSE fds[f]]
    /\ nextFd' = opening[c].fd + 1
    /\ opening' = [opening EXCEPT ![c] = NotOpening]
    /\ UNCHANGED <<romfs, program, overlapped, loads>>

\* ... and writes it, and the entry, here: of two clients that have read the
\* same number, the later replaces the entry of the earlier.
Store(c) ==
    LET fd == opening[c].fd IN
    /\ c \in Opening
    /\ fds' = [f \in DOMAIN fds \cup {fd} |-> IF f = fd THEN opening[c].entry ELSE fds[f]]
    /\ nextFd' = fd + 1
    /\ opening' = [opening EXCEPT ![c] = NotOpening]
    /\ UNCHANGED <<romfs, program, overlapped, loads>>

OpenRomFS(c) ==
    /\ romfs' = IF romfs.loaded THEN romfs ELSE [romfs EXCEPT !.raw = Placeholder, !.loaded = TRUE]
    /\ Open(c, File(<<"romfs">>, Data("raw", romfs'.raw, 0), FALSE))
    /\ UNCHANGED <<program, loads>>

OpenDataFile(c) ==
    /\ Open(c, IF romfs.loaded THEN File(<<"romfs-data">>, Data("raw", romfs.raw, 0), FALSE)
               ELSE File(<<"save">>, Empty, TRUE))
    /\ UNCHANGED <<romfs, program, loads>>

OpenFile(c, path) ==
    /\ romfs.loaded /\ path # <<>> /\ Exists(path)
    /\ \E data \in ReadFile(path) : Open(c, File(path, data, FALSE))
    /\ UNCHANGED <<romfs, program, loads>>

\* The listing is the same for every RomFS.
OpenDirectory(c, path) ==
    /\ Open(c, [File(path, Empty, FALSE) EXCEPT !.dir = TRUE,
                !.names = IF path = <<>> THEN <<"data", "contents">> ELSE <<>>])
    /\ UNCHANGED <<romfs, program, loads>>

\* Save data come from the RomFS if it has a file of that name.
OpenSaveDataFile(c, path) ==
    LET found == IF romfs.loaded /\ path # <<>> /\ Exists(path) THEN ReadFile(path) ELSE {} IN
    /\ \E data \in IF found = {} THEN {Empty} ELSE found : Open(c, File(path, data, TRUE))
    /\ UNCHANGED <<romfs, program, loads>>

\* Reading a directory moves its cursor; reading a file leaves it alone.
ReadDirectory(fd) ==
    /\ fds[fd].dir /\ fds[fd].pos < Len(fds[fd].names)
    /\ fds' = [fds EXCEPT ![fd].pos = @ + 1]
    /\ UseTable
    /\ UNCHANGED <<romfs, program, nextFd, opening, loads>>

Close(fd) ==
    /\ fds' = [f \in DOMAIN fds \ {fd} |-> fds[f]]
    /\ UseTable
    /\ UNCHANGED <<romfs, program, nextFd, opening, loads>>

FsNext ==
    \/ \E pkg \in Packages : LoadProgram(pkg) \/ LoadNsoFile(pkg) \/ LoadOther(pkg)
    \/ \E c \in Clients :
         \/ OpenRomFS(c) \/ OpenDataFile(c)
         \/ \E path \in Paths : OpenFile(c, path) \/ OpenDirectory(c, path) \/ OpenSaveDataFile(c, path)
         \/ Store(c)
         \/ c \notin Opening /\ \E fd \in DOMAIN fds : ReadDirectory(fd) \/ Close(fd)

FsSpec == FsInit /\ [][FsNext]_fsVars

-----------------------------------------------------------------------------
(* Properties.                                                             *)

\* The files FsService finds by name are those of the RomFS whose bytes it
\* hands out in OpenRomFS, through any sequence of games, usable or not.
OneRomFs ==
    romfs.files # <<>> => romfs.files = UpToNameless(romfs.raw.files)

\* A program taken from an NCA that has a RomFS runs with that RomFS, not with
\* that of another NCA of the package or of an earlier game.
ProgramsRomFs ==
    [][program' # program /\ program'[2] # 0 =>
         \E pkg \in Packages :
           /\ pkg.id = program'[1]
           /\ LET e == pkg.entries[program'[2]] IN
              HasRomFS(pkg, e, Examined(pkg, e)) => romfs'.raw = e.nca.image]_fsVars

\* Whatever is loaded, opened or closed, by whichever client, a handle that
\* stays open stands for the same file with the same data - as long as no two
\* commands of the service have been in the unlocked file table at once
\* (FileTable::Open, Fs.cpp): from then on two files may share a handle.
HandlesKept ==
    [][~overlapped' =>
         \A fd \in DOMAIN fds \cap DOMAIN fds' :
           fds'[fd].data = fds[fd].data /\ fds'[fd].path = fds[fd].path]_fsVars

\* A file opened from the RomFS holds the file's data.
FileHoldsItsData ==
    \A fd \in DOMAIN fds : fds[fd].data.kind # "garbage"
=============================================================================
