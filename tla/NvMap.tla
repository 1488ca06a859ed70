------------------------------- MODULE NvMap -------------------------------
(***************************************************************************)
(* GPU buffers of the nvmap service (services/Nv.cpp): entries that        *)
(* Create makes, Alloc places in the carveout and Free forgets.  The       *)
(* carveout is a bump allocator on top of MapPhysical of GuestMemory; the  *)
(* guest heap of SetHeapSize lives beside it.  Every ioctl holds           *)
(* g_nvmap_mutex throughout.                                               *)
(***************************************************************************)
EXTENDS GuestMemory

CONSTANTS
    CarveoutBase, CarveoutSize,   \* NVMAP_CARVEOUT_BASE, NVMAP_CARVEOUT_SIZE
    DefaultAlign,                 \* 0x1000
    Sizes,                        \* sizes asked of Create
    Aligns,                       \* alignments asked of Alloc; 0 for none
    MaxEntries                    \* bound on the entries ever created

ASSUME NvAssumption ==
    /\ CarveoutBase \in Nat \ {0} /\ CarveoutSize \in Nat
    /\ DefaultAlign \in Nat \ {0}
    /\ Sizes \subseteq Nat /\ Aligns \subseteq Nat
    /\ \A a \in Aligns \ {0} : \E k \in 0..31 : a = 2^k
    /\ MaxEntries \in Nat

\* The host pages of the largest heap end below the carveout: 0xC0000000 and
\* 0xD0000000.
ASSUME LayoutAssumption == AlignUp(HeapBase + HeapMax, HostPage) <= CarveoutBase

VARIABLES
    entries,   \* g_nvmap_entries; the handle of an entry is its index
    offset     \* g_nvmap_carveout_offset

nvVars == <<entries, offset, memVars>>

\* addr = 0: not placed.  Free leaves the iova that Param reports.
Entry == [size: Nat, align: Nat, addr: Nat, iova: Nat]

NvTypeOK ==
    /\ DOMAIN entries \subseteq 1..MaxEntries
    /\ \A e \in DOMAIN entries : entries[e] \in Entry
    /\ offset \in 0..CarveoutSize

NvInit ==
    /\ MemInit
    /\ entries = [e \in {} |-> 0]
    /\ offset = 0

-----------------------------------------------------------------------------

Placed(e) == e \in DOMAIN entries /\ entries[e].addr # 0

AlignOf(align) == IF align > 0 THEN align ELSE DefaultAlign

\* HandleCreate (align = 0) and NvMap_Alloc: a new entry without memory.
Create(size, align) ==
    LET e == Cardinality(DOMAIN entries) + 1 IN
    /\ e <= MaxEntries
    /\ entries' = [x \in DOMAIN entries \cup {e} |->
                     IF x = e THEN [size |-> size, align |-> AlignOf(align),
                                    addr |-> 0, iova |-> 0]
                     ELSE entries[x]]
    /\ UNCHANGED <<offset, memVars>>

Fits(room) == offset + room <= CarveoutSize

\* HandleAlloc: the size, and only the size, is rounded up to the alignment.
Alloc(e, align) ==
    LET a == AlignOf(align)
        room == AlignUp(entries[e].size, a)
        addr == CarveoutBase + offset
        aligned == [entries EXCEPT ![e].align = a]
        placed == [size |-> entries[e].size, align |-> a,
                   addr |-> addr, iova |-> addr]
    IN
    /\ e \in DOMAIN entries
    /\ \/ /\ entries[e].addr # 0 \/ ~Fits(room)
          /\ entries' = aligned
          /\ UNCHANGED <<offset, mem, refused>>
       \/ /\ entries[e].addr = 0 /\ Fits(room)
          /\ \E r \in MapPhysical(mem, addr, room) :
               /\ mem' = r.m /\ Note(r)
               /\ \/ /\ r.res # "Success"
                     /\ entries' = aligned /\ UNCHANGED offset
                  \/ /\ r.res = "Success"
                     /\ entries' = [entries EXCEPT ![e] = placed]
                     /\ offset' = offset + room
    /\ UNCHANGED <<heapSize, stackSize>>

\* Mutant: freeing gives the space of the buffer back to the bump pointer.
FreeRewinds(e) ==
    /\ Placed(e)
    /\ entries' = [entries EXCEPT ![e].addr = 0]
    /\ offset' = entries[e].addr - CarveoutBase
    /\ UNCHANGED memVars

\* Mutant: freeing unmaps the buffer, and with it its host pages.
FreeUnmaps(e) ==
    /\ Placed(e)
    /\ entries' = [entries EXCEPT ![e].addr = 0]
    /\ mem' = UnmapPhysical(mem, entries[e].addr, entries[e].size)
    /\ UNCHANGED <<offset, heapSize, stackSize, refused>>

\* HandleFree: the entry forgets its address; space and mapping stay.
Free(e) ==
    /\ Placed(e)
    /\ entries' = [entries EXCEPT ![e].addr = 0]
    /\ UNCHANGED <<offset, memVars>>

Buffer(e) == Extent(entries[e].addr, entries[e].size)

\* The guest fills a buffer, or its heap.
FillBuffer(e) ==
    /\ Placed(e)
    /\ Write(entries[e].addr, entries[e].size)
    /\ UNCHANGED <<entries, offset>>

ResizeHeap(size) == SetHeapSize(size) /\ UNCHANGED <<entries, offset>>

NvNext ==
    \/ \E size \in Sizes, align \in Aligns : Create(size, align)
    \/ \E e \in DOMAIN entries :
         \/ \E align \in Aligns : Alloc(e, align)
         \/ Free(e)
         \/ FillBuffer(e)
    \/ \E size \in HeapSizes : ResizeHeap(size)

NvSpec == NvInit /\ [][NvNext]_nvVars

-----------------------------------------------------------------------------
(* Properties.                                                             *)

\* Placed buffers lie in the carveout, below its offset, and no two of them
\* overlap, whatever was allocated and freed before.
BuffersDisjoint ==
    /\ \A e \in DOMAIN entries : Placed(e) =>
         /\ CarveoutBase <= entries[e].addr
         /\ entries[e].addr + entries[e].size <= CarveoutBase + offset
    /\ \A e, f \in DOMAIN entries : Placed(e) /\ Placed(f) /\ e # f =>
         \/ entries[e].addr + entries[e].size <= entries[f].addr
         \/ entries[f].addr + entries[f].size <= entries[e].addr

\* A placed buffer is mapped memory, while the heap grows and shrinks and
\* other buffers come and go, unless the host has refused a mapping.
BufferBacked ==
    ~refused => \A e \in DOMAIN entries : Placed(e) =>
        \A a \in Buffer(e) : mem.data[a] # "none"

\* SetHeapSize does not clear GPU buffers: what the carveout is for
\* (README line 113, comment at Nv.cpp line 58).
HeapSparesBuffers ==
    [][heapSize' # heapSize =>
         \A e \in DOMAIN entries : Placed(e) =>
           \A a \in Buffer(e) : mem'.data[a] = mem.data[a]]_nvVars

=============================================================================
