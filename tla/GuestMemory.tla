---------------------------- MODULE GuestMemory ----------------------------
(***************************************************************************)
(* The guest address space (memory/Memory.cpp): MapPhysical and            *)
(* UnmapPhysical on host pages that are larger than guest pages, the table *)
(* pages_ that QueryRegion answers from, the heap of SetHeapSize and the   *)
(* stack of SetupStack.                                                    *)
(*                                                                         *)
(* An address counts granules.  A guest page (PAGE_SIZE, 4K) has PageSize  *)
(* of them, a host page (HOST_PAGE, 16K) HostPage.  The memory is the      *)
(* contents of every granule and pages_; the operations on it are written  *)
(* as functions of such a record, because SetHeapSize performs several of  *)
(* them in a row.  The code locks only its changes of pages_; here a call  *)
(* is one step, and two threads that map or resize at once are not         *)
(* modelled.                                                               *)
(***************************************************************************)
EXTENDS Naturals, FiniteSets, Functions

CONSTANTS
    Space,                 \* ADDR_SPACE_SIZE
    PageSize, HostPage,    \* guest page, host page
    HeapBase, HeapMax,     \* HEAP_BASE and the 1 GiB limit
    StackBase, StackMax,   \* STACK_BASE and the 1 MiB limit
    HeapSizes, StackSizes, \* sizes asked of SetHeapSize and SetupStack
    MayFail                \* the host may refuse a mapping

ASSUME MemoryAssumption ==
    /\ Space \in Nat /\ HeapBase \in Nat /\ HeapMax \in Nat
    /\ StackBase \in Nat /\ StackMax \in Nat /\ StackMax <= StackBase
    /\ PageSize \in Nat \ {0} /\ HostPage \in Nat \ {0}
    /\ \E k \in 0..63 : PageSize = 2^k    \* AlignUp masks: powers of two
    /\ \E k \in 0..63 : HostPage = 2^k
    /\ HostPage % PageSize = 0
    /\ HeapSizes \subseteq Nat /\ StackSizes \subseteq Nat
    /\ MayFail \in BOOLEAN

Addr == 0 .. Space - 1

VARIABLES
    mem,        \* [data: contents of each granule, pages: pages_]
    heapSize,   \* heap_size_
    stackSize,  \* stack_size_
    refused     \* history: the host has refused a mapping

memVars == <<mem, heapSize, stackSize, refused>>

Contents == {"none", "zero", "data"}   \* unmapped, fresh, written

MemTypeOK ==
    /\ mem.data \in [Addr -> Contents]
    /\ DOMAIN mem.pages \subseteq Addr
    /\ \A b \in DOMAIN mem.pages : mem.pages[b] \in 0..Space
    /\ heapSize \in 0..HeapMax
    /\ stackSize \in 0..StackMax
    /\ refused \in BOOLEAN

MemInit ==
    /\ mem = [data |-> [a \in Addr |-> "none"], pages |-> [b \in {} |-> 0]]
    /\ heapSize = 0
    /\ stackSize = 0
    /\ refused = FALSE

-----------------------------------------------------------------------------

\* For a power of two, as the bit mask of the source computes it.
AlignUp(x, a) == ((x + a - 1) \div a) * a

Extent(b, s) == {a \in Addr : b <= a /\ a < b + s}

\* The host pages around a range: the start rounded down, the end up.
Rounded(b, s) == {a \in Addr : (b \div HostPage) * HostPage <= a
                               /\ a < AlignUp(b + s, HostPage)}

Fill(data, A, v) == [a \in Addr |-> IF a \in A THEN v ELSE data[a]]

\* mach_vm_deallocate and pages_.erase(address).
UnmapPhysical(m, b, s) ==
    [data |-> Fill(m.data, Rounded(b, s), "none"),
     pages |-> Restrict(m.pages, DOMAIN m.pages \ {b})]

Valid(b, s) == b % PageSize = 0 /\ s % PageSize = 0 /\ b + s <= Space

\* MapPhysical: the whole range of host pages is deallocated first, then
\* mapped afresh; only a success enters pages_.  The host maps no empty
\* range, and may refuse others.
Mapped(m, b, s) ==
    [data |-> Fill(m.data, Rounded(b, s), "zero"),
     pages |-> [x \in DOMAIN m.pages \cup {b} |->
                  IF x = b THEN s ELSE m.pages[x]]]

Outcomes(b, s) ==
    IF ~Valid(b, s) THEN {"InvalidArgument"}
    ELSE IF Rounded(b, s) = {} THEN {"OutOfMemory"}
    ELSE IF MayFail THEN {"Success", "OutOfMemory"} ELSE {"Success"}

MapPhysical(m, b, s) ==
    {[res |-> o,
      m |-> CASE o = "Success" -> Mapped(m, b, s)
              [] o = "OutOfMemory" ->
                   [m EXCEPT !.data = Fill(@, Rounded(b, s), "none")]
              [] OTHER -> m] : o \in Outcomes(b, s)}

Note(r) == refused' = (refused \/ r.res = "OutOfMemory")

\* SvcSetHeapSize with a larger size: unmap the old heap, map the new one;
\* if that fails, map the old size again and hope.  The supervisor call
\* reports success either way.
GrowHeap(size) ==
    LET aligned == AlignUp(size, PageSize)
        freed == IF heapSize > 0 THEN UnmapPhysical(mem, HeapBase, heapSize)
                 ELSE mem
    IN
    /\ size > 0 /\ aligned <= HeapMax /\ aligned > heapSize
    /\ \E r \in MapPhysical(freed, HeapBase, aligned) :
         /\ Note(r)
         /\ \/ r.res = "Success" /\ mem' = r.m /\ heapSize' = aligned
            \/ /\ r.res # "Success" /\ UNCHANGED heapSize
               /\ \/ heapSize = 0 /\ mem' = r.m
                  \/ /\ heapSize > 0
                     /\ \E q \in MapPhysical(r.m, HeapBase, heapSize) : mem' = q.m
    /\ UNCHANGED stackSize

\* Mutant: the unmapped range starts at the base of the heap.
ShrinkFromBase(size) ==
    LET aligned == AlignUp(size, PageSize) IN
    /\ size > 0 /\ aligned < heapSize
    /\ mem' = UnmapPhysical(mem, HeapBase, heapSize - aligned)
    /\ heapSize' = aligned
    /\ UNCHANGED <<stackSize, refused>>

\* Mutant: the end of the heap is passed for the length of the tail.
ShrinkByEnd(size) ==
    LET aligned == AlignUp(size, PageSize) IN
    /\ size > 0 /\ aligned < heapSize
    /\ mem' = UnmapPhysical(mem, HeapBase + aligned, HeapBase + heapSize)
    /\ heapSize' = aligned
    /\ UNCHANGED <<stackSize, refused>>

\* ... with a smaller one: unmap the tail.
ShrinkHeap(size) ==
    LET aligned == AlignUp(size, PageSize) IN
    /\ size > 0 /\ aligned < heapSize
    /\ mem' = UnmapPhysical(mem, HeapBase + aligned, heapSize - aligned)
    /\ heapSize' = aligned
    /\ UNCHANGED <<stackSize, refused>>

SetHeapSize(size) == GrowHeap(size) \/ ShrinkHeap(size)

StackExtent(size) ==
    LET up == AlignUp(size, PageSize) IN IF up < StackMax THEN up ELSE StackMax

SetupStack(m, size) ==
    LET aligned == StackExtent(size) IN MapPhysical(m, StackBase - aligned, aligned)

\* The guest fills a region it was given, as far as it is mapped.
Write(b, s) ==
    /\ mem' = [mem EXCEPT !.data =
                 Fill(@, {a \in Extent(b, s) : mem.data[a] # "none"}, "data")]
    /\ UNCHANGED <<heapSize, stackSize, refused>>

-----------------------------------------------------------------------------
(* Properties.                                                             *)

\* The heap the guest was told it has is accessible memory, after any
\* sequence of growing and shrinking by whole host pages, unless the host
\* has refused a mapping.
HeapBacked ==
    ~refused => \A a \in Extent(HeapBase, heapSize) : mem.data[a] # "none"
=============================================================================
