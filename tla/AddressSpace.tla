---------------------------- MODULE AddressSpace ----------------------------
(***************************************************************************)
(* Everything that places something in the guest address space: the        *)
(* loaders (loader/NroLoader.cpp, NsoLoader.cpp, EmulatorCore::LoadGame),  *)
(* the start of the main thread (EmulatorCore::Run), the stack and TLS     *)
(* slots of SvcCreateThread, the heap and the HID memory.  The regions     *)
(* are laid out by constants in different files and know nothing of each   *)
(* other; all of them go through MapPhysical, which replaces whole host    *)
(* pages.                                                                  *)
(***************************************************************************)
EXTENDS GuestMemory, Integers, Sequences

CONSTANTS
    CodeBase,                        \* NRO_TEXT_BASE, NSO_BASE_ADDRESS
    NroImages, NsoImages,            \* headers of the files that may be loaded
    HidBase, HidSize,                \* shared memory of InitServices
    StackSlotsBase, StackPerThread,  \* STACK_SLOTS_BASE, STACK_PER_THREAD
    TlsBase, TlsPerThread,           \* TLS_SLOTS_BASE, TLS_PER_THREAD
    RelrSlack,                       \* how far past data RELR pages are moved
    RelrLimit,                       \* how much of the RELR table is patched
    MaxLoads, MaxThreads             \* bounds: LoadGame, SvcCreateThread

ASSUME SpaceAssumption ==
    /\ {CodeBase, HidBase, HidSize, StackSlotsBase, TlsBase} \subseteq Nat
    /\ {StackPerThread, TlsPerThread} \subseteq Nat \ {0}
    /\ CodeBase % HostPage = 0 /\ TlsBase % HostPage = 0
    /\ {RelrSlack, RelrLimit, MaxLoads, MaxThreads} \subseteq Nat

\* The layout of the constants: the heap, with the main stack at its limit
\* (0x80000000, 0xC0000000), the HID memory (0xE1000000), the stack slots
\* (0xFB000000), the TLS slots (0xFD000000), each on host pages of its own;
\* stacks of whole host pages, TLS slots smaller than a page.
ASSUME RegionsAssumption ==
    /\ HeapBase % PageSize = 0 /\ HeapBase % HostPage = 0
    /\ StackBase % HostPage = 0
    /\ HeapBase + HeapMax <= StackBase /\ HeapBase + StackMax <= StackBase
    /\ StackBase <= HidBase
    /\ HidBase + HidSize <= StackSlotsBase
    /\ StackSlotsBase % PageSize = 0 /\ StackSlotsBase % HostPage = 0
    /\ StackPerThread % PageSize = 0 /\ StackPerThread % HostPage = 0
    /\ StackSlotsBase <= TlsBase /\ TlsBase % PageSize = 0
    /\ PageSize <= HostPage /\ TlsBase + HostPage <= Space
    /\ TlsPerThread % PageSize # 0

\* The fields of the headers are unsigned.
ASSUME HeadersAssumption ==
    /\ \A h \in NroImages :
         {h.textStart, h.textSize, h.rodataStart, h.rodataSize, h.dataStart, h.dataSize,
          h.bssSize} \subseteq Nat
    /\ \A n \in NsoImages :
         /\ n.bssSize \in Nat
         /\ \A s \in {n.text, n.rodata, n.data} : {s.memOff, s.size, s.comp} \subseteq Nat

VARIABLES
    phase,      \* "idle" until EmulatorCore::Run, then "running"
    segments,   \* load_info_: the segments and, of an NSO, the bss
    game,       \* game_path_ is set
    refs,       \* references of the loaded NRO: where they are, what they address
    readonly,   \* addresses that Protect made read-only
    threads,    \* threads the guest created: stack slot (0: its own), TLS slot
    loads       \* calls of LoadGame, for the bound

spaceVars == <<phase, segments, game, refs, readonly, threads, loads>>
allVars == <<memVars, spaceVars>>

\* filled: how much of it was copied from the file; map: which call of
\* MapPhysical it lies in.
Segment == [addr: Nat, size: Nat, filled: Nat, map: Nat,
            kind: {"text", "rodata", "data", "bss"}]

SpaceTypeOK ==
    /\ MemTypeOK
    /\ phase \in {"idle", "running"}
    /\ segments \subseteq Segment
    /\ game \in BOOLEAN
    /\ readonly \subseteq Addr
    /\ threads \in Seq([stack: Nat, tls: Nat]) /\ Len(threads) <= MaxThreads
    /\ loads \in 0..MaxLoads

\* InitServices maps the HID shared memory before anything is loaded.
SpaceInit ==
    /\ mem = Mapped([data |-> [a \in Addr |-> "none"], pages |-> [b \in {} |-> 0]],
                    HidBase, HidSize)
    /\ heapSize = 0 /\ stackSize = 0 /\ refused = FALSE
    /\ phase = "idle" /\ segments = {} /\ game = FALSE
    /\ refs = {} /\ readonly = {}
    /\ threads = <<>> /\ loads = 0

-----------------------------------------------------------------------------
(* Loading.  An outcome is what a sequence of MapPhysical calls may leave. *)

\* memset, memcpy and stores, as far as there is memory.
Store(m, A, v) ==
    [m EXCEPT !.data = Fill(@, {a \in A : m.data[a] # "none"}, v)]

\* Mutant: the segment is copied before its pages are mapped.
ThenMaps(outcomes, b, s, copied) ==
    UNION {IF o.res # "Success" THEN {o}
           ELSE {[res |-> r.res, m |-> r.m] : r \in MapPhysical(Store(o.m, copied, "data"), b, s)}
           : o \in outcomes}

\* The first failing MapPhysical ends the load.
Then(outcomes, b, s, copied) ==
    UNION {IF o.res # "Success" THEN {o}
           ELSE {[res |-> r.res,
                  m |-> IF r.res = "Success" THEN Store(r.m, copied, "data") ELSE r.m]
                 : r \in MapPhysical(o.m, b, s)}
           : o \in outcomes}

Start == {[res |-> "Success", m |-> mem]}

\* NroLoader: where the data segment is meant to be, and whether it shares
\* host pages with the text ("PIE format").
DataOrig(h) == CodeBase + h.dataStart
Overlapping(h) ==
    /\ h.textStart = 0
    /\ DataOrig(h) < CodeBase + AlignUp(h.textSize, HostPage)
    /\ DataOrig(h) + h.dataSize > CodeBase

\* The data segment of an overlapping image goes to the page after the
\* first, however long the text is.
DataAddr(h) ==
    IF Overlapping(h) THEN AlignUp(CodeBase, HostPage) + HostPage ELSE DataOrig(h)

NroText(h) == Extent(CodeBase, h.textSize)
NroRodata(h) == Extent(CodeBase + h.rodataStart, h.rodataSize)
NroData(h) == Extent(DataAddr(h), h.dataSize)

AtLeast(x, y) == IF x < y THEN y ELSE x

\* Overlapping images are mapped in two pieces, others in one.
NroOutcomes(h) ==
    LET bssAddr == AlignUp(DataAddr(h) + AlignUp(h.dataSize, HostPage), HostPage)
        wholeEnd == AlignUp(bssAddr + AlignUp(h.bssSize, HostPage), HostPage)
        Pages(s) == AtLeast(AlignUp(s, HostPage), HostPage)
    IN
    IF Overlapping(h) /\ DataAddr(h) # DataOrig(h)
    THEN Then(Then(Start, CodeBase, Pages(h.textSize + h.rodataSize),
                   NroText(h) \cup NroRodata(h)),
              DataAddr(h), Pages(h.dataSize + h.bssSize), NroData(h))
    ELSE Then(Start, CodeBase, wholeEnd - CodeBase,
              NroText(h) \cup NroRodata(h) \cup NroData(h))

\* Mutant: text is protected although data shares its pages.
NroProtectedAlways(h) == Rounded(CodeBase, AlignUp(h.textSize, HostPage))

\* Protect: text RX and rodata R, unless the data segment lies among the
\* text's pages.
NroProtected(h) ==
    LET textEnd == CodeBase + AlignUp(h.textSize, HostPage)
        roEnd == IF h.dataSize > 0 THEN (DataAddr(h) \div HostPage) * HostPage
                 ELSE CodeBase + h.rodataStart + AlignUp(h.rodataSize, HostPage)
        shared == h.dataSize > 0 /\ DataAddr(h) < textEnd
    IN
    IF shared THEN {}
    ELSE Rounded(CodeBase, textEnd - CodeBase)
         \cup IF h.rodataSize > 0 /\ textEnd < roEnd
              THEN Rounded(textEnd, roEnd - textEnd) ELSE {}

\* Addresses in the file are moved with the data segment: the page an ADRP of
\* the text forms, the entry points and arrays of the DYNAMIC table, the bss
\* bounds and the DYNAMIC offset in MOD0, the pages of the RELR table whose
\* entries lie in its first 4096 bytes (r.at is the entry's place).  The RELA
\* table is applied afterwards, with neither its places nor its values
\* moved, and the call of crt0 that would apply it is overwritten.
Shift(h) == DataAddr(h) - DataOrig(h)
Between(x, from, to) == from <= x /\ x < to

\* Mutant: references to the bss are forgotten.
AdrpMovesData(h, r) == Between(r.to, h.dataStart, h.dataStart + h.dataSize)

AdrpMoves(h, r) == Between(r.to, h.dataStart, h.dataStart + h.dataSize + h.bssSize + HostPage)
RelrMoves(h, r) == /\ r.at < RelrLimit
                   /\ Between(r.to, h.dataStart, h.dataStart + h.dataSize + RelrSlack)

NroRefs(h) ==
    LET Moves(r) == \/ r.kind \in {"dynamic", "mod0"}
                    \/ r.kind = "adrp" /\ AdrpMoves(h, r)
                    \/ r.kind = "relr" /\ RelrMoves(h, r)
    IN {[r EXCEPT !.to = IF Moves(r) THEN r.to + Shift(h) ELSE r.to] : r \in h.refs}

Nonempty(pieces) == {s \in pieces : s.size > 0}

Piece(addr, size, filled, kind, map) ==
    [addr |-> addr, size |-> size, filled |-> filled, kind |-> kind, map |-> 4 * loads + map]

NroSegments(h) ==
    LET piece == IF DataAddr(h) # DataOrig(h) THEN 1 ELSE 0 IN
    Nonempty({Piece(CodeBase, h.textSize, h.textSize, "text", 0),
              Piece(CodeBase + h.rodataStart, h.rodataSize, h.rodataSize, "rodata", 0),
              Piece(DataAddr(h), h.dataSize, h.dataSize, "data", piece)})

\* NsoLoader: every segment is mapped, filled and protected in turn, then
\* the bss behind the last of them.  A compressed segment that does not begin
\* with the LZ4 frame magic is copied as it is in the file.
NsoWritten(s) == IF s.comp > 0 /\ s.comp < s.size /\ ~s.lz4 THEN s.comp ELSE s.size

\* A segment whose file offset lies outside the file is left out.
Present(s) == s.size > 0 /\ s.inFile

NsoSegment(outcomes, s) ==
    IF ~Present(s) THEN outcomes
    ELSE Then(outcomes, CodeBase + s.memOff, AlignUp(s.size, PageSize),
              Extent(CodeBase + s.memOff, NsoWritten(s)))

NsoEnd(n) ==
    LET ends == {s.memOff + s.size : s \in {n.text, n.rodata, n.data}}
    IN CHOOSE e \in ends : \A f \in ends : f <= e

NsoBss(n) == CodeBase + NsoEnd(n)

NsoOutcomes(n) ==
    LET loaded == NsoSegment(NsoSegment(NsoSegment(Start, n.text), n.rodata), n.data)
    IN IF n.bssSize = 0 THEN loaded
       ELSE Then(loaded, NsoBss(n), AlignUp(n.bssSize, PageSize), {})

NsoPages(s) ==
    IF ~Present(s) THEN {} ELSE Rounded(CodeBase + s.memOff, AlignUp(s.size, PageSize))

\* Mapping the next piece makes the host pages it shares writable again.
NsoProtected(n) ==
    (NsoPages(n.text) \cup NsoPages(n.rodata))
      \ (NsoPages(n.data) \cup IF n.bssSize = 0 THEN {}
                               ELSE Rounded(NsoBss(n), AlignUp(n.bssSize, PageSize)))

NsoSegments(n) ==
    LET At(s, k, i) == Piece(CodeBase + s.memOff, IF Present(s) THEN s.size ELSE 0, NsoWritten(s), k, i)
    IN Nonempty({At(n.text, "text", 0), At(n.rodata, "rodata", 1), At(n.data, "data", 2),
                 Piece(NsoBss(n), n.bssSize, 0, "bss", 3)})

\* The end of LoadGame: a stack, whatever becomes of it.
Finish(m) ==
    \E size \in StackSizes : \E r \in SetupStack(m, size) :
      /\ mem' = r.m /\ Note(r)
      /\ stackSize' = IF r.res = "Success" THEN StackExtent(size) ELSE stackSize

Loading == phase = "idle" /\ loads < MaxLoads /\ loads' = loads + 1

\* LoadGame with an NRO: load_info_ is emptied first, game_path_ is kept
\* when the load fails.
LoadNro(h) ==
    /\ Loading
    /\ \E o \in NroOutcomes(h) :
         \/ /\ o.res = "Success" /\ NroSegments(h) # {}
            /\ Finish(o.m)
            /\ segments' = NroSegments(h) /\ game' = TRUE
            /\ refs' = NroRefs(h) /\ readonly' = NroProtected(h)
         \/ /\ o.res # "Success"
            /\ mem' = o.m /\ Note(o)
            /\ segments' = {} /\ refs' = {}
            /\ UNCHANGED <<stackSize, game, readonly>>
    /\ UNCHANGED <<heapSize, phase, threads>>

\* ... with an NSO: the segments are added to those of the last game; when
\* the load fails, the NRO loader rejects the file and empties load_info_.
LoadNso(n) ==
    /\ Loading
    /\ \E o \in NsoOutcomes(n) :
         \/ /\ o.res = "Success"
            /\ Finish(o.m)
            /\ segments' = segments \cup NsoSegments(n) /\ game' = TRUE
            /\ readonly' = (readonly \ UNION {NsoPages(n.text), NsoPages(n.rodata), NsoPages(n.data)})
                             \cup NsoProtected(n)
         \/ /\ o.res # "Success"
            /\ mem' = o.m /\ Note(o)
            /\ segments' = {}
            /\ UNCHANGED <<stackSize, game, readonly>>
    /\ refs' = {}
    /\ UNCHANGED <<heapSize, phase, threads>>

-----------------------------------------------------------------------------
(* The running guest.                                                      *)

\* EmulatorCore::Run: the page of the TLS slots, then the main thread.
Run ==
    /\ phase = "idle" /\ game
    /\ \E r \in MapPhysical(mem, TlsBase, PageSize) : mem' = r.m /\ Note(r)
    /\ phase' = "running"
    /\ UNCHANGED <<heapSize, stackSize, segments, game, refs, readonly, threads, loads>>

StackSlot(i) == StackSlotsBase + i * StackPerThread
TlsSlot(i) == TlsBase + i * TlsPerThread
Stack(t) == IF t.stack = 0 THEN {} ELSE Extent(StackSlot(t.stack), StackPerThread)
Tls(t) == Extent(TlsSlot(t.tls), TlsPerThread)

\* g_stack_next_slot and g_tls_next_slot: slots are never reused.
NextStack == 1 + Cardinality({i \in DOMAIN threads : threads[i].stack # 0})

\* Mutant: the slots start at the TLS of the main thread.
NextTlsZero == Len(threads)

NextTls == 1 + Len(threads)

\* Mutant: the TLS slot is rounded to the page it lies in, and mapped.
TlsMappingPage(m, t) == MapPhysical(m, TlsBase, PageSize)

TlsMapping(m, t) == MapPhysical(m, TlsSlot(t.tls), TlsPerThread)

\* SvcCreateThread: a stack slot unless the guest brings its own stack, and
\* a TLS slot.  The results of both mappings are ignored; the second one is
\* rejected, a TLS slot being no whole page.
CreateThread(ownStack) ==
    LET t == [stack |-> IF ownStack THEN 0 ELSE NextStack, tls |-> NextTls]
        stacks == IF ownStack THEN Start
                  ELSE {[r EXCEPT !.m = Store(@, Stack(t), "zero")]
                        : r \in MapPhysical(mem, StackSlot(t.stack), StackPerThread)}
    IN
    /\ phase = "running" /\ Len(threads) < MaxThreads
    /\ \E r \in stacks :
         /\ Note(r)
         /\ \E q \in TlsMapping(r.m, t) :
              mem' = Store(q.m, Tls(t), "zero")
    /\ threads' = Append(threads, t)
    /\ UNCHANGED <<heapSize, stackSize, phase, segments, game, refs, readonly, loads>>

Guest(A) == phase = "running" /\ A /\ UNCHANGED spaceVars

\* The guest writes to all it was given.
Given ==
    UNION ({Stack(threads[i]) \cup Tls(threads[i]) : i \in DOMAIN threads}
           \cup {Extent(HeapBase, heapSize), Extent(StackBase - stackSize, stackSize),
                 Extent(TlsBase, TlsPerThread), Extent(HidBase, HidSize)})

GuestWrites ==
    /\ mem' = Store(mem, Given, "data")
    /\ UNCHANGED <<heapSize, stackSize, refused>>

SpaceNext ==
    \/ \E h \in NroImages : LoadNro(h)
    \/ \E n \in NsoImages : LoadNso(n)
    \/ Run
    \/ \E ownStack \in BOOLEAN : CreateThread(ownStack)
    \/ Guest(\E size \in HeapSizes : SetHeapSize(size))
    \/ Guest(GuestWrites)

SpaceSpec == SpaceInit /\ [][SpaceNext]_allVars

-----------------------------------------------------------------------------
(* What the properties ask of the guest and of the files it is loaded      *)
(* from.                                                                   *)

\* The sizes asked of SetHeapSize round to whole host pages.
WholeHostPages == \A size \in HeapSizes : AlignUp(size, PageSize) % HostPage = 0

\* The heaps it asks for end below the stack of the main thread, which lies
\* at the end of the largest one.
HeapBelowStack ==
    \E top \in 0..HeapMax : /\ AlignUp(HeapBase + top, HostPage) <= StackBase - StackMax
                            /\ \A size \in HeapSizes : AlignUp(size, PageSize) <= top

\* What a linker writes: a reference lies in the segment it addresses, text
\* and rodata lie below the data, MOD0 names the bss, and neither ADRP nor RELR
\* reaches further behind the data than the loader looks.
Linked(h) ==
    \A r \in h.refs :
        /\ r = [kind |-> r.kind, seg |-> r.seg, to |-> r.to, off |-> r.off, at |-> r.at]
        /\ r.to \in Nat /\ r.off \in Nat /\ r.at \in Nat
        /\ r.kind \in {"adrp", "mod0", "relr"} =>
             \/ /\ r.seg = "text" /\ r.kind # "mod0" /\ h.textSize > 0
                /\ r.to = r.off /\ r.to < h.dataStart
             \/ /\ r.seg = "rodata" /\ r.kind # "mod0" /\ h.rodataSize > 0
                /\ r.to = h.rodataStart + r.off /\ r.to < h.dataStart
             \/ /\ r.seg = "data" /\ r.to = h.dataStart + r.off /\ r.off < h.dataSize
             \/ /\ r.seg = "bss" /\ h.dataSize > 0 /\ r.to = h.dataStart + h.dataSize + r.off
                /\ r.kind = "adrp" => r.off < h.bssSize + HostPage
                /\ r.kind = "relr" => r.off < RelrSlack

\* Segments one after the other and below the heap; an image that is split
\* has data, and its rodata joins its text.
NroFits(h) ==
    /\ h.textSize <= h.dataStart /\ h.rodataStart + h.rodataSize <= h.dataStart
    /\ Overlapping(h) => h.dataSize > 0 /\ h.rodataStart <= h.textSize
    /\ CodeBase + h.dataStart <= HeapBase /\ DataAddr(h) + h.dataSize <= HeapBase

NsoFits(n) ==
    \A s \in {n.text, n.rodata, n.data} : CodeBase + s.memOff + s.size <= HeapBase

-----------------------------------------------------------------------------
(* Properties.                                                             *)

Pages(s) == Rounded(s.addr, s.size)
Filled(s) == Extent(s.addr, s.filled)

\* Segments that MapPhysical placed in different calls share no host page.
Apart ==
    \A s, t \in segments : s.map # t.map => Pages(s) \cap Pages(t) = {}

\* From the load on, and through everything the running guest asks for, text,
\* rodata and data hold what the file holds - unless segments that are mapped
\* one by one share a host page.
ImageKept ==
    Apart => \A s \in segments : \A a \in Filled(s) : mem.data[a] = "data"

\* The data segment can be written after the load, whatever pages Protect
\* makes read-only for text and rodata.
DataWritable ==
    Apart => \A s \in segments :
        s.kind = "data" => Extent(s.addr, s.size) \cap readonly = {}

\* After the data segment was moved, what addressed a page of data or bss
\* addresses the page it was moved to, and what addressed text or rodata still
\* does: the instructions, MOD0 and the RELR pages in the first 4096 bytes of
\* their table (later ones, the RELA table and a DT_INIT in the text are known
\* not to).
ReferencesFollow ==
    \A r \in refs : r.kind \in {"adrp", "mod0"} \/ (r.kind = "relr" /\ r.at < RelrLimit) =>
        \E s \in segments :
          /\ s.kind = r.seg \/ (r.seg = "bss" /\ s.kind = "data")
          /\ CodeBase + r.to = s.addr + r.off + IF r.seg = "bss" THEN s.size ELSE 0

\* Slots that fit between STACK_SLOTS_BASE and the TLS page, TLS slots that
\* fit in the host page of the main thread's.
SlotsLeft ==
    /\ StackSlot(NextStack - 1) + StackPerThread <= TlsBase
    /\ TlsSlot(NextTls - 1) + TlsPerThread <= TlsBase + HostPage

\* As long as there are slots, and the host refuses nothing, every thread has
\* a stack and a TLS of its own, in mapped memory.
ThreadsBacked ==
    SlotsLeft /\ ~refused =>
        /\ \A i \in DOMAIN threads : \A a \in Stack(threads[i]) \cup Tls(threads[i]) :
             mem.data[a] # "none"
        /\ \A i, j \in DOMAIN threads : i # j =>
             (Stack(threads[i]) \cup Tls(threads[i])) \cap (Stack(threads[j]) \cup Tls(threads[j])) = {}
        /\ phase = "running" => \A i \in DOMAIN threads :
             Tls(threads[i]) \cap Extent(TlsBase, TlsPerThread) = {}

\* What was written to the stack of the main thread, the stacks and TLS of
\* the other threads and the HID memory survives every request of the running
\* guest: new threads and a resized heap (while there are slots).
Kept ==
    UNION ({Stack(threads[i]) \cup Tls(threads[i]) : i \in DOMAIN threads}
           \cup {Extent(StackBase - stackSize, stackSize), Extent(TlsBase, TlsPerThread),
                 Extent(HidBase, HidSize)})

GuestMemoryKept ==
    [][phase = "running" /\ SlotsLeft' =>
         \A a \in Kept : mem.data[a] = "data" => mem'.data[a] = "data"]_allVars
=============================================================================
