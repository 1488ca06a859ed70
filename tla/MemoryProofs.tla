---------------------------- MODULE MemoryProofs ---------------------------
(***************************************************************************)
(* Proofs about memory.  GPU buffers: for every size, alignment and        *)
(* carveout no two overlap, all are mapped, and no resized heap touches    *)
(* them.  The running guest: heap, stacks and TLS are mapped, the threads' *)
(* are distinct, and what the guest wrote to them stays.  The image: data  *)
(* is writable, references follow it, and the contents of the file stay.   *)
(***************************************************************************)
EXTENDS NvMap, AddressSpace, FiniteSetTheorems, TLAPS

-----------------------------------------------------------------------------
(* Rounding.                                                               *)

\* Division is monotonic.
LEMMA DivMonotonic ==
    ASSUME NEW x \in Nat, NEW y \in Nat, NEW a \in Nat \ {0}, x <= y
    PROVE  /\ (x \div a) \in Nat /\ (x \div a) * a \in Nat /\ (x \div a) * a <= x
           /\ (x \div a) * a <= (y \div a) * a
<1> DEFINE p == x \div a
           q == y \div a
           r == x % a
           t == y % a
<1>1. p \in Nat /\ q \in Nat /\ r \in 0..(a - 1) /\ t \in 0..(a - 1)
  OBVIOUS
<1>2. x = a * p + r /\ y = a * q + t
  OBVIOUS
<1> HIDE DEF p, q, r, t
<1>3. a * p \in Nat /\ a * q \in Nat /\ p * a = a * p /\ q * a = a * q
  BY <1>1
<1>4. p <= q
  <2> SUFFICES ASSUME p > q PROVE FALSE
    BY <1>1
  <2> DEFINE d == p - (q + 1)
  <2>1. d \in Nat /\ p = q + 1 + d
    BY <1>1
  <2> HIDE DEF d
  <2>2. a * p = a * q + a + a * d /\ a * d \in Nat
    BY <1>1, <2>1
  <2> QED BY <1>1, <1>2, <1>3, <2>2
<1>5. p * a <= q * a
  <2> DEFINE d == q - p
  <2>1. d \in Nat /\ q = p + d
    BY <1>1, <1>4
  <2> HIDE DEF d
  <2>2. a * q = a * p + a * d /\ a * d \in Nat
    BY <1>1, <2>1
  <2> QED BY <1>3, <2>2
<1> QED BY <1>1, <1>2, <1>3, <1>5 DEF p, q

\* Rounding up never rounds down.
LEMMA AlignUpBounds ==
    ASSUME NEW x \in Nat, NEW a \in Nat \ {0}
    PROVE  AlignUp(x, a) \in Nat /\ AlignUp(x, a) >= x
<1> DEFINE y == x + a - 1
           q == y \div a
           r == y % a
<1>1. y \in Nat
  OBVIOUS
<1>2. q \in Nat /\ r \in 0..(a - 1)
  BY <1>1
<1>3. y = a * q + r
  BY <1>1
<1>4. AlignUp(x, a) = q * a
  BY DEF AlignUp
<1>5. q * a = a * q /\ q * a \in Nat
  BY <1>2
<1> HIDE DEF q, r
<1>6. q * a >= x
  BY <1>2, <1>3, <1>5
<1> QED BY <1>4, <1>5, <1>6

LEMMA AlignUpMonotonic ==
    ASSUME NEW x \in Nat, NEW y \in Nat, NEW a \in Nat \ {0}, x <= y
    PROVE  AlignUp(x, a) <= AlignUp(y, a)
<1>1. x + a - 1 \in Nat /\ y + a - 1 \in Nat /\ x + a - 1 <= y + a - 1
  OBVIOUS
<1> QED BY <1>1, DivMonotonic DEF AlignUp

\* A multiple is its own rounding.
LEMMA AlignUpMultiple ==
    ASSUME NEW a \in Nat \ {0}, NEW k \in Nat
    PROVE  AlignUp(a * k, a) = a * k
<1> DEFINE y == a * k + a - 1
           q == y \div a
           r == y % a
<1>1. a * k \in Nat
  OBVIOUS
<1>2. y \in Nat
  BY <1>1
<1>3. q \in Nat /\ r \in 0..(a - 1) /\ y = a * q + r
  BY <1>2
<1>4. AlignUp(a * k, a) = q * a
  BY DEF AlignUp
<1>5. y = a * k + a - 1
  OBVIOUS
<1> HIDE DEF q, r, y
<1>6. q = k
  <2>1. CASE q < k
    <3> DEFINE d == k - (q + 1)
    <3>1. d \in Nat /\ k = q + 1 + d
      BY <1>3, <2>1
    <3> HIDE DEF d
    <3>2. a * k = a * q + a + a * d /\ a * d \in Nat /\ a * q \in Nat
      BY <1>3, <3>1
    <3> QED BY <1>1, <1>3, <1>5, <3>2
  <2>2. CASE q > k
    <3> DEFINE d == q - (k + 1)
    <3>1. d \in Nat /\ q = k + 1 + d
      BY <1>3, <2>2
    <3> HIDE DEF d
    <3>2. a * q = a * k + a + a * d /\ a * d \in Nat
      BY <1>3, <3>1
    <3> QED BY <1>1, <1>3, <1>5, <3>2
  <2> QED BY <1>3, <2>1, <2>2
<1> QED BY <1>3, <1>4, <1>6

\* The host pages around a range contain it and reach no further than the
\* rounding of what contains it.
LEMMA RoundedBounds ==
    ASSUME NEW b \in Nat, NEW s \in Nat
    PROVE  /\ Extent(b, s) \subseteq Rounded(b, s)
           /\ \A lo, end \in Nat : lo <= b /\ b + s <= end =>
                Rounded(b, s) \subseteq {a \in Addr : /\ (lo \div HostPage) * HostPage <= a
                                                      /\ a < AlignUp(end, HostPage)}
<1>1. HostPage \in Nat \ {0} /\ b + s \in Nat /\ Addr \subseteq Nat
  BY MemoryAssumption DEF Addr
<1>2. (b \div HostPage) * HostPage \in Nat /\ (b \div HostPage) * HostPage <= b
  BY <1>1, DivMonotonic
<1>3. AlignUp(b + s, HostPage) \in Nat /\ b + s <= AlignUp(b + s, HostPage)
  BY <1>1, AlignUpBounds
<1>4. ASSUME NEW a \in Extent(b, s) PROVE a \in Rounded(b, s)
  <2>1. a \in Addr /\ a \in Nat /\ b <= a /\ a < b + s
    BY <1>1 DEF Extent
  <2> QED BY <1>1, <1>2, <1>3, <2>1 DEF Rounded
<1>5. ASSUME NEW lo \in Nat, NEW end \in Nat, lo <= b, b + s <= end, NEW a \in Rounded(b, s)
      PROVE  /\ a \in Addr /\ (lo \div HostPage) * HostPage <= a
             /\ a < AlignUp(end, HostPage)
  <2>1. /\ (lo \div HostPage) * HostPage \in Nat
        /\ (lo \div HostPage) * HostPage <= (b \div HostPage) * HostPage
    BY <1>1, <1>5, DivMonotonic
  <2>2. AlignUp(end, HostPage) \in Nat /\ AlignUp(b + s, HostPage) <= AlignUp(end, HostPage)
    BY <1>1, <1>5, AlignUpBounds, AlignUpMonotonic
  <2>3. a \in Addr /\ a \in Nat /\ (b \div HostPage) * HostPage <= a
        /\ a < AlignUp(b + s, HostPage)
    BY <1>1, <1>5 DEF Rounded
  <2> QED BY <1>2, <1>3, <2>1, <2>2, <2>3
<1> QED BY <1>4, <1>5

-----------------------------------------------------------------------------
(* What the operations do to a memory.                                     *)

IsMemory(m) == m = [data |-> m.data, pages |-> m.pages] /\ m.data \in [Addr -> Contents]

LEMMA FillEffect ==
    ASSUME NEW data \in [Addr -> Contents], NEW A, NEW v \in Contents
    PROVE  /\ Fill(data, A, v) \in [Addr -> Contents]
           /\ \A a \in Addr : Fill(data, A, v)[a] = IF a \in A THEN v ELSE data[a]
BY DEF Fill

\* UnmapPhysical clears host pages and touches nothing else.
LEMMA UnmapEffect ==
    ASSUME NEW m, IsMemory(m), NEW b, NEW s
    PROVE  /\ IsMemory(UnmapPhysical(m, b, s))
           /\ \A a \in Addr : UnmapPhysical(m, b, s).data[a] =
                IF a \in Rounded(b, s) THEN "none" ELSE m.data[a]
<1> DEFINE u == UnmapPhysical(m, b, s)
<1>1. u.data = Fill(m.data, Rounded(b, s), "none") /\ u = [data |-> u.data, pages |-> u.pages]
  BY DEF UnmapPhysical
<1> HIDE DEF u
<1>2. m.data \in [Addr -> Contents] /\ "none" \in Contents
  BY DEF IsMemory, Contents
<1>3. IsMemory(u) /\ \A a \in Addr : u.data[a] = IF a \in Rounded(b, s) THEN "none" ELSE m.data[a]
  BY <1>1, <1>2, FillEffect DEF IsMemory
<1> QED BY <1>3 DEF u

\* MapPhysical touches the host pages of its range and nothing else: on
\* success they are fresh, a rejected call changes nothing.
LEMMA MapEffect ==
    ASSUME NEW m, IsMemory(m), NEW b, NEW s, NEW r \in MapPhysical(m, b, s)
    PROVE  /\ IsMemory(r.m)
           /\ \A a \in Addr : a \notin Rounded(b, s) => r.m.data[a] = m.data[a]
           /\ r.res \in {"Success", "OutOfMemory", "InvalidArgument"}
           /\ r.res = "Success" =>
                Valid(b, s) /\ \A a \in Addr : a \in Rounded(b, s) => r.m.data[a] = "zero"
           /\ r.res = "InvalidArgument" => ~Valid(b, s) /\ r.m = m
<1> DEFINE M(o) == CASE o = "Success" -> Mapped(m, b, s)
                     [] o = "OutOfMemory" -> [m EXCEPT !.data = Fill(@, Rounded(b, s), "none")]
                     [] OTHER -> m
<1>1. PICK o \in Outcomes(b, s) : r = [res |-> o, m |-> M(o)]
  BY DEF MapPhysical
<1>2. r.res = o /\ r.m = M(o)
  BY <1>1
<1>3. /\ o \in {"Success", "OutOfMemory", "InvalidArgument"}
      /\ o = "InvalidArgument" <=> ~Valid(b, s)
  BY DEF Outcomes
<1>4. m.data \in [Addr -> Contents] /\ m = [data |-> m.data, pages |-> m.pages]
  BY DEF IsMemory
<1>5. CASE o = "Success"
  <2>1. r.m = Mapped(m, b, s)
    BY <1>2, <1>5
  <2>2. r.m.data = Fill(m.data, Rounded(b, s), "zero") /\ r.m = [data |-> r.m.data, pages |-> r.m.pages]
    BY <2>1 DEF Mapped
  <2>3. "zero" \in Contents
    BY DEF Contents
  <2> QED BY <1>2, <1>3, <1>4, <1>5, <2>2, <2>3, FillEffect DEF IsMemory
<1>6. CASE o = "OutOfMemory"
  <2>1. r.m = [m EXCEPT !.data = Fill(@, Rounded(b, s), "none")]
    BY <1>2, <1>6
  <2>2. r.m.data = Fill(m.data, Rounded(b, s), "none") /\ r.m = [data |-> r.m.data, pages |-> r.m.pages]
    BY <1>4, <2>1
  <2>3. "none" \in Contents
    BY DEF Contents
  <2> QED BY <1>2, <1>4, <1>6, <2>2, <2>3, FillEffect DEF IsMemory
<1>7. CASE o = "InvalidArgument"
  <2>1. r.m = m
    BY <1>2, <1>7
  <2> QED BY <1>2, <1>3, <1>7, <2>1
<1> QED BY <1>3, <1>5, <1>6, <1>7

\* Resizing the heap below a limit touches the host pages below it and
\* nothing else.  A history of refusals is never forgotten.
LEMMA HeapEffect ==
    ASSUME IsMemory(mem), NEW top \in 0..HeapMax, heapSize \in 0..top,
           NEW size \in HeapSizes, AlignUp(size, PageSize) <= top, SetHeapSize(size)
    PROVE  /\ IsMemory(mem') /\ heapSize' \in 0..top
           /\ \A a \in Addr : a \notin Rounded(HeapBase, top) => mem'.data[a] = mem.data[a]
           /\ refused => refused'
<1> DEFINE aligned == AlignUp(size, PageSize)
<1>1. /\ HeapBase \in Nat /\ PageSize \in Nat \ {0} /\ size \in Nat
      /\ heapSize \in Nat /\ top \in Nat
  BY MemoryAssumption
<1>2. aligned \in Nat /\ aligned <= top
  BY <1>1, AlignUpBounds
<1> HIDE DEF aligned
<1>3. \A b, s \in Nat : HeapBase <= b /\ b + s <= HeapBase + top =>
        Rounded(b, s) \subseteq Rounded(HeapBase, top)
  <2>1. ASSUME NEW b \in Nat, NEW s \in Nat, HeapBase <= b, b + s <= HeapBase + top
        PROVE  Rounded(b, s) \subseteq Rounded(HeapBase, top)
    <3>1. HeapBase + top \in Nat
      BY <1>1
    <3>2. Rounded(b, s) \subseteq {a \in Addr : /\ (HeapBase \div HostPage) * HostPage <= a
                                                /\ a < AlignUp(HeapBase + top, HostPage)}
      BY <1>1, <2>1, <3>1, RoundedBounds
    <3> QED BY <3>2 DEF Rounded
  <2> QED BY <2>1
<1>4. Rounded(HeapBase, heapSize) \subseteq Rounded(HeapBase, top)
  BY <1>1, <1>3
<1>5. CASE GrowHeap(size)
  <2> DEFINE freed == IF heapSize > 0 THEN UnmapPhysical(mem, HeapBase, heapSize) ELSE mem
  <2>1. PICK r \in MapPhysical(freed, HeapBase, aligned) :
          /\ refused' = (refused \/ r.res = "OutOfMemory")
          /\ \/ r.res = "Success" /\ mem' = r.m /\ heapSize' = aligned
             \/ /\ heapSize' = heapSize
                /\ \/ mem' = r.m
                   \/ \E q \in MapPhysical(r.m, HeapBase, heapSize) : mem' = q.m
    BY <1>5 DEF GrowHeap, Note, aligned
  <2>2. /\ IsMemory(freed)
        /\ \A a \in Addr : a \notin Rounded(HeapBase, top) => freed.data[a] = mem.data[a]
    BY <1>4, UnmapEffect
  <2> HIDE DEF freed
  <2>3. Rounded(HeapBase, aligned) \subseteq Rounded(HeapBase, top)
    BY <1>1, <1>2, <1>3
  <2>4. /\ IsMemory(r.m)
        /\ \A a \in Addr : a \notin Rounded(HeapBase, top) => r.m.data[a] = mem.data[a]
    BY <2>1, <2>2, <2>3, MapEffect
  <2>5. heapSize' \in 0..top
    BY <1>1, <1>2, <2>1
  <2>6. CASE mem' = r.m
    BY <2>1, <2>4, <2>5, <2>6
  <2>7. ASSUME NEW q \in MapPhysical(r.m, HeapBase, heapSize), mem' = q.m
        PROVE  /\ IsMemory(mem')
               /\ \A a \in Addr : a \notin Rounded(HeapBase, top) => mem'.data[a] = mem.data[a]
    BY <1>4, <2>4, <2>7, MapEffect
  <2> QED BY <2>1, <2>5, <2>6, <2>7
<1>6. CASE ShrinkHeap(size)
  <2>1. /\ aligned < heapSize /\ refused' = refused /\ heapSize' = aligned
        /\ mem' = UnmapPhysical(mem, HeapBase + aligned, heapSize - aligned)
    BY <1>6 DEF ShrinkHeap, aligned
  <2>2. /\ HeapBase + aligned \in Nat /\ heapSize - aligned \in Nat
        /\ HeapBase <= HeapBase + aligned
        /\ (HeapBase + aligned) + (heapSize - aligned) <= HeapBase + top
    BY <1>1, <1>2, <2>1
  <2>3. Rounded(HeapBase + aligned, heapSize - aligned) \subseteq Rounded(HeapBase, top)
    BY <1>3, <2>2
  <2>4. heapSize' \in 0..top
    BY <1>2, <2>1
  <2>5. /\ IsMemory(mem')
        /\ \A a \in Addr : mem'.data[a] =
             IF a \in Rounded(HeapBase + aligned, heapSize - aligned) THEN "none" ELSE mem.data[a]
    BY <2>1, UnmapEffect
  <2> QED BY <2>1, <2>3, <2>4, <2>5
<1> QED BY <1>5, <1>6 DEF SetHeapSize

\* A write maps and unmaps nothing.
LEMMA WriteEffect ==
    ASSUME IsMemory(mem), NEW A,
           mem' = [mem EXCEPT !.data = Fill(@, {a \in A : mem.data[a] # "none"}, "data")]
    PROVE  /\ IsMemory(mem')
           /\ \A a \in Addr : /\ mem'.data[a] = "none" <=> mem.data[a] = "none"
                              /\ mem.data[a] = "data" => mem'.data[a] = "data"
<1>1. mem.data \in [Addr -> Contents] /\ mem = [data |-> mem.data, pages |-> mem.pages]
  BY DEF IsMemory
<1>2. /\ mem'.data = Fill(mem.data, {a \in A : mem.data[a] # "none"}, "data")
      /\ mem' = [data |-> mem'.data, pages |-> mem'.pages]
  BY <1>1
<1>3. "data" \in Contents
  BY DEF Contents
<1> QED BY <1>1, <1>2, <1>3, FillEffect DEF IsMemory

-----------------------------------------------------------------------------
(* The carveout.                                                           *)

\* The types that the argument uses.
NvTypes ==
    /\ \A e \in DOMAIN entries : entries[e] \in Entry
    /\ offset \in Nat

NvInv == NvTypes /\ BuffersDisjoint

\* Placing e at the offset: the placed buffers lie below it, so the new one
\* is beyond all of them.
LEMMA PlaceStep ==
    ASSUME NvInv, NEW e \in DOMAIN entries, NEW a \in Nat, NEW room \in Nat,
           room >= entries[e].size,
           entries[e].addr = 0,
           entries' = [entries EXCEPT
                         ![e] = [size |-> entries[e].size, align |-> a,
                                 addr |-> CarveoutBase + offset,
                                 iova |-> CarveoutBase + offset]],
           offset' = offset + room
    PROVE  NvInv'
<1>1. /\ DOMAIN entries' = DOMAIN entries
      /\ \A f \in DOMAIN entries : f # e => entries'[f] = entries[f]
      /\ entries'[e] = [size |-> entries[e].size, align |-> a,
                        addr |-> CarveoutBase + offset,
                        iova |-> CarveoutBase + offset]
  OBVIOUS
<1>2. /\ \A f \in DOMAIN entries : /\ entries[f].size \in Nat
                                   /\ entries[f].addr \in Nat
      /\ CarveoutBase \in Nat /\ offset \in Nat
  BY NvAssumption DEF NvInv, NvTypes, Entry
<1>3. NvTypes'
  BY <1>1, <1>2 DEF NvInv, NvTypes, Entry
<1>4. /\ entries'[e].addr = CarveoutBase + offset
      /\ entries'[e].size = entries[e].size
  BY <1>1
<1>5. ASSUME NEW f \in DOMAIN entries', entries'[f].addr # 0
      PROVE  /\ CarveoutBase <= entries'[f].addr
             /\ entries'[f].addr + entries'[f].size <= CarveoutBase + offset'
  <2>1. CASE f = e
    BY <1>2, <1>4, <2>1
  <2>2. CASE f # e
    BY <1>1, <1>2, <1>5, <2>2 DEF NvInv, BuffersDisjoint, Placed
  <2> QED BY <2>1, <2>2
<1>6. ASSUME NEW f \in DOMAIN entries', NEW g \in DOMAIN entries', f # g,
             entries'[f].addr # 0, entries'[g].addr # 0
      PROVE  \/ entries'[f].addr + entries'[f].size <= entries'[g].addr
             \/ entries'[g].addr + entries'[g].size <= entries'[f].addr
  <2>1. CASE f = e
    BY <1>1, <1>2, <1>4, <1>6, <2>1 DEF NvInv, BuffersDisjoint, Placed
  <2>2. CASE g = e
    BY <1>1, <1>2, <1>4, <1>6, <2>2 DEF NvInv, BuffersDisjoint, Placed
  <2>3. CASE f # e /\ g # e
    BY <1>1, <1>6, <2>3 DEF NvInv, BuffersDisjoint, Placed
  <2> QED BY <2>1, <2>2, <2>3
<1>7. BuffersDisjoint'
  BY <1>5, <1>6 DEF BuffersDisjoint, Placed
<1> QED BY <1>3, <1>7 DEF NvInv

\* A step that places nothing: every entry keeps its size and keeps or loses
\* its address, or is new and has none.
LEMMA QuietStep ==
    ASSUME NvInv, NvTypes', offset' = offset,
           \A e \in DOMAIN entries' : entries'[e].addr # 0 =>
              /\ e \in DOMAIN entries
              /\ entries'[e].addr = entries[e].addr
              /\ entries'[e].size = entries[e].size
    PROVE  NvInv'
BY DEF NvInv, BuffersDisjoint, Placed

\* The ioctls, the guest's writes and the heap.
LEMMA NvStep == NvInv /\ [NvNext]_nvVars => NvInv'
<1> SUFFICES ASSUME NvInv, [NvNext]_nvVars PROVE NvInv'
  OBVIOUS
<1>1. CASE UNCHANGED <<entries, offset>>
  BY <1>1 DEF NvInv, NvTypes, BuffersDisjoint, Placed
<1>2. ASSUME NEW size \in Sizes, NEW align \in Aligns, Create(size, align)
      PROVE  NvInv'
  <2> DEFINE n == Cardinality(DOMAIN entries) + 1
             new == [size |-> size, align |-> AlignOf(align), addr |-> 0, iova |-> 0]
  <2>1. entries' = [x \in DOMAIN entries \cup {n} |->
                      IF x = n THEN new ELSE entries[x]]
        /\ offset' = offset
    BY <1>2 DEF Create
  <2>2. new \in Entry
    BY NvAssumption DEF Entry, AlignOf
  <2>3. new.addr = 0
    OBVIOUS
  <2> HIDE DEF n, new
  <2>4. NvTypes'
    BY <2>1, <2>2 DEF NvInv, NvTypes
  <2>5. \A e \in DOMAIN entries' : entries'[e].addr # 0 =>
          /\ e \in DOMAIN entries
          /\ entries'[e].addr = entries[e].addr
          /\ entries'[e].size = entries[e].size
    BY <2>1, <2>3
  <2> QED BY <2>1, <2>4, <2>5, QuietStep
<1>3. ASSUME NEW e \in DOMAIN entries, NEW align \in Aligns, Alloc(e, align)
      PROVE  NvInv'
  <2> DEFINE a == AlignOf(align)
             room == AlignUp(entries[e].size, a)
             addr == CarveoutBase + offset
             aligned == [entries EXCEPT ![e].align = a]
             placed == [size |-> entries[e].size, align |-> a,
                        addr |-> addr, iova |-> addr]
  <2>1. a \in Nat \ {0}
    BY NvAssumption DEF AlignOf
  <2>2. entries[e] \in Entry
    BY DEF NvInv, NvTypes
  <2>3. room \in Nat /\ room >= entries[e].size
    BY <2>1, <2>2, AlignUpBounds DEF Entry
  <2>4. \/ entries' = aligned /\ offset' = offset
        \/ /\ entries[e].addr = 0
           /\ entries' = [entries EXCEPT ![e] = placed]
           /\ offset' = offset + room
    BY <1>3 DEF Alloc
  <2> HIDE DEF a, room
  <2>5. CASE entries' = aligned /\ offset' = offset
    <3>1. [entries[e] EXCEPT !.align = a] \in Entry
      BY <2>1, <2>2 DEF Entry
    <3>2. NvTypes'
      BY <2>5, <3>1 DEF NvInv, NvTypes
    <3>3. \A f \in DOMAIN entries' : /\ f \in DOMAIN entries
                                     /\ entries'[f].addr = entries[f].addr
                                     /\ entries'[f].size = entries[f].size
      BY <2>2, <2>5 DEF Entry
    <3> QED BY <2>5, <3>2, <3>3, QuietStep
  <2>6. CASE /\ entries[e].addr = 0
             /\ entries' = [entries EXCEPT ![e] = placed]
             /\ offset' = offset + room
    BY <2>1, <2>3, <2>6, PlaceStep
  <2> QED BY <2>4, <2>5, <2>6
<1>4. ASSUME NEW e \in DOMAIN entries, Free(e)
      PROVE  NvInv'
  <2>1. entries' = [entries EXCEPT ![e].addr = 0] /\ offset' = offset
    BY <1>4 DEF Free
  <2>2. entries[e] \in Entry
    BY DEF NvInv, NvTypes
  <2>3. [entries[e] EXCEPT !.addr = 0] \in Entry
    BY <2>2 DEF Entry
  <2>4. NvTypes'
    BY <2>1, <2>3 DEF NvInv, NvTypes
  <2>5. \A f \in DOMAIN entries' : entries'[f].addr # 0 =>
          /\ f \in DOMAIN entries
          /\ entries'[f].addr = entries[f].addr
          /\ entries'[f].size = entries[f].size
    BY <2>1, <2>2 DEF Entry
  <2> QED BY <2>1, <2>4, <2>5, QuietStep
<1>5. ASSUME NEW e \in DOMAIN entries, FillBuffer(e)
      PROVE  UNCHANGED <<entries, offset>>
  BY <1>5 DEF FillBuffer
<1>6. ASSUME NEW size \in HeapSizes, ResizeHeap(size)
      PROVE  UNCHANGED <<entries, offset>>
  BY <1>6 DEF ResizeHeap
<1>7. UNCHANGED nvVars => UNCHANGED <<entries, offset>>
  BY DEF nvVars
<1> QED BY <1>1, <1>2, <1>3, <1>4, <1>5, <1>6, <1>7 DEF NvNext

\* For every sequence of Create, Alloc and Free, with any sizes and
\* alignments, the placed buffers are disjoint and inside the used part of
\* the carveout.
THEOREM CarveoutDisjoint == NvSpec => []BuffersDisjoint
<1>1. NvInit => NvInv
  BY DEF NvInit, NvInv, NvTypes, BuffersDisjoint
<1>2. NvInv => BuffersDisjoint
  BY DEF NvInv
<1> QED BY <1>1, <1>2, NvStep, PTL DEF NvSpec

-----------------------------------------------------------------------------
(* The buffers' memory.                                                    *)

NvMemory == IsMemory(mem) /\ heapSize \in 0..HeapMax /\ refused \in BOOLEAN

\* A placed buffer begins at the carveout, above all that the heap touches.
LEMMA BufferAboveHeap ==
    ASSUME NvInv, NEW e \in DOMAIN entries, Placed(e), NEW a \in Buffer(e)
    PROVE  a \in Addr /\ a \notin Rounded(HeapBase, HeapMax)
<1>1. /\ CarveoutBase \in Nat /\ HeapBase \in Nat /\ HeapMax \in Nat /\ HostPage \in Nat \ {0}
      /\ Addr \subseteq Nat
  BY MemoryAssumption, NvAssumption DEF Addr
<1>2. entries[e].addr \in Nat /\ CarveoutBase <= entries[e].addr
  BY DEF NvInv, NvTypes, Entry, BuffersDisjoint
<1>3. a \in Addr /\ a \in Nat /\ entries[e].addr <= a
  BY <1>1 DEF Buffer, Extent
<1>4. AlignUp(HeapBase + HeapMax, HostPage) \in Nat
  BY <1>1, AlignUpBounds
<1>5. ~(a < AlignUp(HeapBase + HeapMax, HostPage))
  BY <1>1, <1>2, <1>3, <1>4, LayoutAssumption
<1> QED BY <1>3, <1>5 DEF Rounded

\* Resizing the heap leaves placed buffers alone.
LEMMA ResizeSpares ==
    ASSUME NvInv, NvMemory, NEW size \in HeapSizes, ResizeHeap(size)
    PROVE  /\ NvMemory' /\ UNCHANGED <<entries, offset>> /\ (refused => refused')
           /\ \A e \in DOMAIN entries : Placed(e) =>
                \A a \in Buffer(e) : mem'.data[a] = mem.data[a]
<1>1. SetHeapSize(size) /\ UNCHANGED <<entries, offset>>
  BY DEF ResizeHeap
<1>2. HeapMax \in Nat /\ PageSize \in Nat \ {0} /\ size \in Nat /\ HeapMax \in 0..HeapMax
  BY MemoryAssumption
<1>3. AlignUp(size, PageSize) \in Nat
  BY <1>2, AlignUpBounds
<1>4. AlignUp(size, PageSize) <= HeapMax
  <2>1. CASE GrowHeap(size)
    BY <2>1 DEF GrowHeap
  <2>2. CASE ShrinkHeap(size)
    <3>1. AlignUp(size, PageSize) < heapSize /\ heapSize \in 0..HeapMax
      BY <2>2 DEF ShrinkHeap, NvMemory
    <3> QED BY <1>2, <1>3, <3>1
  <2> QED BY <1>1, <2>1, <2>2 DEF SetHeapSize
<1>5. /\ IsMemory(mem') /\ heapSize' \in 0..HeapMax /\ (refused => refused')
      /\ \A a \in Addr : a \notin Rounded(HeapBase, HeapMax) => mem'.data[a] = mem.data[a]
  BY <1>1, <1>2, <1>4, HeapEffect DEF NvMemory
<1>6. refused' \in BOOLEAN
  BY <1>1 DEF SetHeapSize, GrowHeap, ShrinkHeap, Note, NvMemory
<1> QED BY <1>1, <1>5, <1>6, BufferAboveHeap DEF NvMemory

\* HandleAlloc: a buffer that is placed is mapped first; a host page that it
\* shares with an older buffer is mapped afresh, not lost.
LEMMA AllocBacked ==
    ASSUME NvInv, NvMemory, BufferBacked, NEW e \in DOMAIN entries, NEW align \in Aligns,
           Alloc(e, align)
    PROVE  NvMemory' /\ BufferBacked'
<1> DEFINE a == AlignOf(align)
           room == AlignUp(entries[e].size, a)
           addr == CarveoutBase + offset
           aligned == [entries EXCEPT ![e].align = a]
           placed == [size |-> entries[e].size, align |-> a, addr |-> addr, iova |-> addr]
<1>1. a \in Nat \ {0}
  BY NvAssumption DEF AlignOf
<1>2. entries[e] \in Entry /\ offset \in Nat /\ CarveoutBase \in Nat
  BY NvAssumption DEF NvInv, NvTypes
<1>3. room \in Nat /\ room >= entries[e].size
  BY <1>1, <1>2, AlignUpBounds DEF Entry
<1>4. \/ entries' = aligned /\ UNCHANGED <<mem, refused>>
      \/ \E r \in MapPhysical(mem, addr, room) :
           /\ mem' = r.m /\ refused' = (refused \/ r.res = "OutOfMemory")
           /\ \/ r.res # "Success" /\ entries' = aligned
              \/ r.res = "Success" /\ entries' = [entries EXCEPT ![e] = placed]
  BY DEF Alloc, Note
<1>5. heapSize' = heapSize
  BY DEF Alloc
<1> HIDE DEF a, room
<1>6. ASSUME entries' = aligned
      PROVE  \A f \in DOMAIN entries' :
               /\ f \in DOMAIN entries
               /\ entries'[f].addr = entries[f].addr /\ entries'[f].size = entries[f].size
  BY <1>2, <1>6 DEF Entry
<1>7. CASE entries' = aligned /\ UNCHANGED <<mem, refused>>
  BY <1>5, <1>6, <1>7 DEF NvMemory, BufferBacked, Placed, Buffer
<1>8. ASSUME NEW r \in MapPhysical(mem, addr, room), mem' = r.m,
             refused' = (refused \/ r.res = "OutOfMemory"),
             \/ r.res # "Success" /\ entries' = aligned
             \/ r.res = "Success" /\ entries' = [entries EXCEPT ![e] = placed]
      PROVE  NvMemory' /\ BufferBacked'
  <2>1. /\ IsMemory(r.m)
        /\ \A x \in Addr : x \notin Rounded(addr, room) => r.m.data[x] = mem.data[x]
        /\ r.res \in {"Success", "OutOfMemory", "InvalidArgument"}
        /\ r.res = "Success" => \A x \in Addr : x \in Rounded(addr, room) => r.m.data[x] = "zero"
        /\ r.res = "InvalidArgument" => r.m = mem
    BY <1>8, MapEffect DEF NvMemory
  <2>2. NvMemory'
    BY <1>5, <1>8, <2>1 DEF NvMemory
  <2>3. CASE r.res = "OutOfMemory"
    BY <1>8, <2>2, <2>3 DEF BufferBacked
  <2>4. CASE r.res = "InvalidArgument"
    <3>1. entries' = aligned /\ mem' = mem /\ refused' = refused
      BY <1>8, <2>1, <2>4 DEF NvMemory
    <3> QED BY <1>6, <2>2, <3>1 DEF BufferBacked, Placed, Buffer
  <2>5. CASE r.res = "Success"
    <3>1. entries' = [entries EXCEPT ![e] = placed] /\ refused' = refused
      BY <1>8, <2>5 DEF NvMemory
    <3>2. /\ DOMAIN entries' = DOMAIN entries
          /\ \A f \in DOMAIN entries : f # e => entries'[f] = entries[f]
          /\ entries'[e].addr = addr /\ entries'[e].size = entries[e].size
      BY <3>1
    <3>3. Extent(addr, entries[e].size) \subseteq Rounded(addr, room)
      <4>1. addr \in Nat /\ entries[e].size \in Nat
        BY <1>2 DEF Entry
      <4>2. Extent(addr, room) \subseteq Rounded(addr, room)
        BY <1>3, <4>1, RoundedBounds
      <4>3. Addr \subseteq Nat
        BY MemoryAssumption DEF Addr
      <4>4. Extent(addr, entries[e].size) \subseteq Extent(addr, room)
        BY <1>3, <4>1, <4>3 DEF Extent
      <4> QED BY <4>2, <4>4
    <3>4. "zero" # "none"
      OBVIOUS
    <3>5. ASSUME ~refused', NEW f \in DOMAIN entries', Placed(f)', NEW x \in Buffer(f)'
          PROVE  mem'.data[x] # "none"
      <4>1. CASE f = e
        <5>1. x \in Extent(addr, entries[e].size)
          BY <3>2, <3>5, <4>1 DEF Buffer
        <5>2. x \in Addr /\ x \in Rounded(addr, room)
          BY <3>3, <5>1 DEF Extent
        <5> QED BY <1>8, <2>1, <2>5, <3>4, <5>2
      <4>2. CASE f # e
        <5>1. Placed(f) /\ x \in Buffer(f) /\ f \in DOMAIN entries
          BY <3>2, <3>5, <4>2 DEF Placed, Buffer
        <5>2. mem.data[x] # "none" /\ x \in Addr
          BY <3>1, <3>5, <5>1 DEF BufferBacked, Buffer, Extent
        <5> QED BY <1>8, <2>1, <2>5, <3>4, <5>2
      <4> QED BY <4>1, <4>2
    <3> QED BY <2>2, <3>5 DEF BufferBacked
  <2> QED BY <2>1, <2>3, <2>4, <2>5
<1> QED BY <1>4, <1>7, <1>8

LEMMA BackedStep ==
    ASSUME NvInv, NvMemory, BufferBacked, [NvNext]_nvVars
    PROVE  NvMemory' /\ BufferBacked'
<1>1. CASE UNCHANGED nvVars
  BY <1>1 DEF nvVars, memVars, NvMemory, BufferBacked, Placed, Buffer
<1>2. ASSUME NEW size \in Sizes, NEW align \in Aligns, Create(size, align)
      PROVE  NvMemory' /\ BufferBacked'
  <2> DEFINE n == Cardinality(DOMAIN entries) + 1
             new == [size |-> size, align |-> AlignOf(align), addr |-> 0, iova |-> 0]
  <2>1. /\ entries' = [x \in DOMAIN entries \cup {n} |-> IF x = n THEN new ELSE entries[x]]
        /\ UNCHANGED <<mem, heapSize, refused>>
    BY <1>2 DEF Create, memVars
  <2>2. new.addr = 0
    OBVIOUS
  <2> HIDE DEF n, new
  <2>3. \A e \in DOMAIN entries' : entries'[e].addr # 0 =>
          e \in DOMAIN entries /\ entries'[e] = entries[e]
    BY <2>1, <2>2
  <2> QED BY <2>1, <2>3 DEF NvMemory, BufferBacked, Placed, Buffer
<1>3. ASSUME NEW e \in DOMAIN entries, NEW align \in Aligns, Alloc(e, align)
      PROVE  NvMemory' /\ BufferBacked'
  BY <1>3, AllocBacked
<1>4. ASSUME NEW e \in DOMAIN entries, Free(e)
      PROVE  NvMemory' /\ BufferBacked'
  <2>1. entries' = [entries EXCEPT ![e].addr = 0] /\ UNCHANGED <<mem, heapSize, refused>>
    BY <1>4 DEF Free, memVars
  <2>2. entries[e] \in Entry
    BY DEF NvInv, NvTypes
  <2>3. \A f \in DOMAIN entries' : entries'[f].addr # 0 =>
          f \in DOMAIN entries /\ entries'[f] = entries[f]
    BY <2>1, <2>2 DEF Entry
  <2> QED BY <2>1, <2>3 DEF NvMemory, BufferBacked, Placed, Buffer
<1>5. ASSUME NEW e \in DOMAIN entries, FillBuffer(e)
      PROVE  NvMemory' /\ BufferBacked'
  <2>1. UNCHANGED <<entries, heapSize, refused>>
    BY <1>5 DEF FillBuffer, Write
  <2>2. IsMemory(mem') /\ \A a \in Addr : mem'.data[a] = "none" <=> mem.data[a] = "none"
    BY <1>5, WriteEffect DEF FillBuffer, Write, NvMemory
  <2> QED BY <2>1, <2>2 DEF NvMemory, BufferBacked, Placed, Buffer, Extent
<1>6. ASSUME NEW size \in HeapSizes, ResizeHeap(size)
      PROVE  NvMemory' /\ BufferBacked'
  BY <1>6, ResizeSpares DEF BufferBacked, Placed, Buffer
<1> QED BY <1>1, <1>2, <1>3, <1>4, <1>5, <1>6 DEF NvNext

LEMMA NvInvariant == NvSpec => [](NvInv /\ NvMemory /\ BufferBacked)
<1>1. NvInit => NvInv /\ NvMemory /\ BufferBacked
  <2> SUFFICES ASSUME NvInit PROVE NvInv /\ NvMemory /\ BufferBacked
    OBVIOUS
  <2>1. NvInv /\ BufferBacked
    BY DEF NvInit, NvInv, NvTypes, BuffersDisjoint, BufferBacked
  <2>2. IsMemory(mem)
    BY DEF NvInit, MemInit, IsMemory, Contents
  <2>3. heapSize \in 0..HeapMax
    BY MemoryAssumption DEF NvInit, MemInit
  <2>4. refused \in BOOLEAN
    BY DEF NvInit, MemInit
  <2> QED BY <2>1, <2>2, <2>3, <2>4 DEF NvMemory
<1> QED BY <1>1, NvStep, BackedStep, PTL DEF NvSpec

\* Whatever sizes and alignments the buffers have, whether or not they share
\* host pages, and however the heap is resized meanwhile: unless the host
\* refuses a mapping, a placed buffer is mapped memory.
THEOREM BuffersStayMapped == NvSpec => []BufferBacked
BY NvInvariant, PTL

\* No call of SetHeapSize changes a byte of a placed buffer.
THEOREM HeapLeavesBuffers == NvSpec => HeapSparesBuffers
<1>1. ASSUME NvInv, NvMemory, [NvNext]_nvVars, heapSize' # heapSize,
             NEW e \in DOMAIN entries, Placed(e)
      PROVE  \A a \in Buffer(e) : mem'.data[a] = mem.data[a]
  <2>1. \E size \in HeapSizes : ResizeHeap(size)
    BY <1>1 DEF NvNext, nvVars, memVars, Create, Alloc, Free, FillBuffer, Write
  <2> QED BY <1>1, <2>1, ResizeSpares
<1>2. NvInv /\ NvMemory /\ [NvNext]_nvVars =>
        [heapSize' # heapSize => \A e \in DOMAIN entries : Placed(e) =>
           \A a \in Buffer(e) : mem'.data[a] = mem.data[a]]_nvVars
  BY <1>1
<1> QED BY <1>2, NvInvariant, PTL DEF NvSpec, HeapSparesBuffers

-----------------------------------------------------------------------------
(* The running guest.                                                      *)

LEMMA ModMultiple ==
    ASSUME NEW a \in Nat \ {0}, NEW k \in Nat
    PROVE  (a * k) % a = 0
<1> DEFINE x == a * k
           q == x \div a
           r == x % a
<1>1. x \in Nat
  OBVIOUS
<1>2. q \in Nat /\ r \in 0..(a - 1) /\ x = a * q + r
  BY <1>1
<1>3. x = a * k /\ r = (a * k) % a
  OBVIOUS
<1> HIDE DEF q, r, x
<1>4. a * q \in Nat
  BY <1>2
<1>5. CASE k > q
  <2> DEFINE d == k - (q + 1)
  <2>1. d \in Nat /\ k = q + 1 + d
    BY <1>2, <1>5
  <2> HIDE DEF d
  <2>2. a * k = a * q + a + a * d /\ a * d \in Nat
    BY <1>2, <2>1
  <2> QED BY <1>2, <1>3, <1>4, <2>2
<1>6. CASE k < q
  <2> DEFINE d == q - (k + 1)
  <2>1. d \in Nat /\ q = k + 1 + d
    BY <1>2, <1>6
  <2> HIDE DEF d
  <2>2. a * q = a * k + a + a * d /\ a * d \in Nat
    BY <1>2, <2>1
  <2> QED BY <1>1, <1>2, <1>3, <2>2
<1>7. CASE k = q
  <2>1. a * q + r = a * q
    BY <1>2, <1>3, <1>7
  <2>2. r = 0
    BY <1>2, <1>4, <2>1
  <2> QED BY <1>3, <2>2
<1> QED BY <1>2, <1>5, <1>6, <1>7

\* Multiples are closed under sums and products, and are their own floor and
\* ceiling.
LEMMA Multiples ==
    ASSUME NEW a \in Nat \ {0}, NEW x \in Nat, x % a = 0
    PROVE  /\ (x \div a) * a = x /\ AlignUp(x, a) = x
           /\ \A y, i \in Nat : y % a = 0 => (x + i * y) % a = 0
<1>1. \A z \in Nat : z % a = 0 => z = a * (z \div a) /\ (z \div a) \in Nat
  OBVIOUS
<1>2. x = a * (x \div a) /\ (x \div a) \in Nat
  BY <1>1
<1>3. (x \div a) * a = x
  BY <1>2
<1>4. AlignUp(x, a) = x
  BY <1>2, AlignUpMultiple
<1>5. ASSUME NEW y \in Nat, NEW i \in Nat, y % a = 0
      PROVE  (x + i * y) % a = 0
  <2> DEFINE p == x \div a
             q == y \div a
  <2>1. x = a * p /\ p \in Nat /\ y = a * q /\ q \in Nat
    BY <1>1, <1>5
  <2> HIDE DEF p, q
  <2>2. x + i * y = a * (p + i * q) /\ p + i * q \in Nat
    BY <2>1
  <2> QED BY <2>2, ModMultiple
<1> QED BY <1>3, <1>4, <1>5

LEMMA AlignUpMod ==
    ASSUME NEW x \in Nat, NEW a \in Nat \ {0}
    PROVE  AlignUp(x, a) % a = 0
<1> DEFINE q == (x + a - 1) \div a
<1>1. x + a - 1 \in Nat
  OBVIOUS
<1>2. q \in Nat
  BY <1>1
<1>3. AlignUp(x, a) = q * a
  BY DEF AlignUp
<1> HIDE DEF q
<1>4. q * a = a * q
  BY <1>2
<1> QED BY <1>2, <1>3, <1>4, ModMultiple

\* memset and stores of the guest map and unmap nothing, and touch no other
\* address.
LEMMA StoreEffect ==
    ASSUME NEW m, IsMemory(m), NEW A, NEW v \in {"zero", "data"}
    PROVE  /\ IsMemory(Store(m, A, v))
           /\ \A a \in Addr : /\ Store(m, A, v).data[a] = "none" <=> m.data[a] = "none"
                              /\ a \notin A => Store(m, A, v).data[a] = m.data[a]
<1> DEFINE u == Store(m, A, v)
           B == {a \in A : m.data[a] # "none"}
<1>1. m.data \in [Addr -> Contents] /\ m = [data |-> m.data, pages |-> m.pages]
  BY DEF IsMemory
<1>2. u = [m EXCEPT !.data = Fill(@, B, v)]
  BY DEF Store
<1> HIDE DEF u
<1>3. u.data = Fill(m.data, B, v) /\ u = [data |-> u.data, pages |-> u.pages]
  BY <1>1, <1>2
<1>4. v \in Contents /\ v # "none"
  BY DEF Contents
<1>5. /\ u.data \in [Addr -> Contents]
      /\ \A a \in Addr : u.data[a] = IF a \in B THEN v ELSE m.data[a]
  BY <1>1, <1>3, <1>4, FillEffect
<1>6. IsMemory(u)
  BY <1>3, <1>5 DEF IsMemory
<1> QED BY <1>4, <1>5, <1>6 DEF u

\* The slots given out: the i-th thread has the i-th TLS slot; a stack slot
\* is given once.
ThreadsInv ==
    /\ threads \in Seq([stack: Nat, tls: Nat])
    /\ NextStack \in Nat \ {0}
    /\ \A i \in DOMAIN threads : threads[i].tls = i /\ threads[i].stack < NextStack
    /\ \A i, j \in DOMAIN threads :
         i # j /\ threads[i].stack # 0 => threads[i].stack # threads[j].stack

SpaceInv ==
    /\ IsMemory(mem) /\ refused \in BOOLEAN
    /\ heapSize \in 0..HeapMax /\ stackSize \in 0..StackMax
    /\ phase \in {"idle", "running"}
    /\ phase = "idle" => heapSize = 0 /\ threads = <<>>
    /\ ThreadsInv

\* The first failing MapPhysical ends the load; all of them leave a memory.
LEMMA ThenMemory ==
    ASSUME NEW outcomes, \A o \in outcomes : IsMemory(o.m), NEW b, NEW s, NEW copied
    PROVE  \A o \in Then(outcomes, b, s, copied) : IsMemory(o.m)
<1> SUFFICES ASSUME NEW o \in Then(outcomes, b, s, copied) PROVE IsMemory(o.m)
  OBVIOUS
<1> DEFINE After(p) == {[res |-> r.res,
                         m |-> IF r.res = "Success" THEN Store(r.m, copied, "data") ELSE r.m]
                        : r \in MapPhysical(p.m, b, s)}
<1>1. PICK p \in outcomes : o \in IF p.res # "Success" THEN {p} ELSE After(p)
  BY DEF Then
<1>2. CASE p.res # "Success"
  BY <1>1, <1>2
<1>3. CASE p.res = "Success"
  <2>1. PICK r \in MapPhysical(p.m, b, s) :
          o = [res |-> r.res, m |-> IF r.res = "Success" THEN Store(r.m, copied, "data") ELSE r.m]
    BY <1>1, <1>3
  <2>2. IsMemory(r.m)
    BY MapEffect
  <2>3. IsMemory(Store(r.m, copied, "data"))
    BY <2>2, StoreEffect
  <2>4. o.m = IF r.res = "Success" THEN Store(r.m, copied, "data") ELSE r.m
    BY <2>1
  <2> QED BY <2>2, <2>3, <2>4
<1> QED BY <1>2, <1>3

LEMMA LoadMemory ==
    ASSUME IsMemory(mem)
    PROVE  /\ \A h \in NroImages : \A o \in NroOutcomes(h) : IsMemory(o.m)
           /\ \A n \in NsoImages : \A o \in NsoOutcomes(n) : IsMemory(o.m)
<1>1. \A o \in Start : IsMemory(o.m)
  BY DEF Start
<1>2. ASSUME NEW h \in NroImages PROVE \A o \in NroOutcomes(h) : IsMemory(o.m)
  <2>1. PICK b, s, A, c, t, B, u, C :
          NroOutcomes(h) = IF Overlapping(h) /\ DataAddr(h) # DataOrig(h)
                           THEN Then(Then(Start, b, s, A), c, t, B)
                           ELSE Then(Start, b, u, C)
    BY DEF NroOutcomes
  <2>2. /\ \A o \in Then(Start, b, s, A) : IsMemory(o.m)
        /\ \A o \in Then(Start, b, u, C) : IsMemory(o.m)
    BY <1>1, ThenMemory
  <2>3. \A o \in Then(Then(Start, b, s, A), c, t, B) : IsMemory(o.m)
    BY <2>2, ThenMemory
  <2> QED BY <2>1, <2>2, <2>3
<1>3. ASSUME NEW n \in NsoImages PROVE \A o \in NsoOutcomes(n) : IsMemory(o.m)
  <2>1. ASSUME NEW outcomes, \A o \in outcomes : IsMemory(o.m), NEW s
        PROVE  \A o \in NsoSegment(outcomes, s) : IsMemory(o.m)
    BY <2>1, ThenMemory DEF NsoSegment
  <2> DEFINE loaded == NsoSegment(NsoSegment(NsoSegment(Start, n.text), n.rodata), n.data)
  <2>2. \A o \in NsoSegment(Start, n.text) : IsMemory(o.m)
    BY <1>1, <2>1
  <2>3. \A o \in NsoSegment(NsoSegment(Start, n.text), n.rodata) : IsMemory(o.m)
    BY <2>1, <2>2
  <2>4. \A o \in loaded : IsMemory(o.m)
    BY <2>1, <2>3
  <2>5. NsoOutcomes(n) = IF n.bssSize = 0 THEN loaded
                         ELSE Then(loaded, NsoBss(n), AlignUp(n.bssSize, PageSize), {})
    BY DEF NsoOutcomes
  <2> HIDE DEF loaded
  <2>6. \A o \in Then(loaded, NsoBss(n), AlignUp(n.bssSize, PageSize), {}) : IsMemory(o.m)
    BY <2>4, ThenMemory
  <2> QED BY <2>4, <2>5, <2>6
<1> QED BY <1>2, <1>3

\* The stack at the end of LoadGame.
LEMMA FinishMemory ==
    ASSUME NEW m, IsMemory(m), refused \in BOOLEAN, stackSize \in 0..StackMax, Finish(m)
    PROVE  IsMemory(mem') /\ refused' \in BOOLEAN /\ stackSize' \in 0..StackMax
<1>0. PICK size \in StackSizes : \E r \in SetupStack(m, size) :
        /\ mem' = r.m /\ refused' = (refused \/ r.res = "OutOfMemory")
        /\ stackSize' = IF r.res = "Success" THEN StackExtent(size) ELSE stackSize
  BY DEF Finish, Note
<1>1. PICK r \in SetupStack(m, size) :
        /\ mem' = r.m /\ refused' = (refused \/ r.res = "OutOfMemory")
        /\ stackSize' = IF r.res = "Success" THEN StackExtent(size) ELSE stackSize
  BY <1>0
<1>2. IsMemory(mem')
  BY <1>1, MapEffect DEF SetupStack
<1>3. AlignUp(size, PageSize) \in Nat /\ StackMax \in Nat
  BY MemoryAssumption, AlignUpBounds
<1>4. StackExtent(size) \in 0..StackMax
  BY <1>3 DEF StackExtent
<1>5. refused' \in BOOLEAN
  BY <1>1
<1>6. stackSize' \in 0..StackMax
  BY <1>1, <1>4
<1> QED BY <1>2, <1>5, <1>6

\* A new thread takes the next TLS slot and the next stack slot, or none.
LEMMA ThreadsStep ==
    ASSUME ThreadsInv, NEW t, t.stack \in {0, NextStack}, t.tls = NextTls,
           t \in [stack: Nat, tls: Nat], threads' = Append(threads, t)
    PROVE  /\ ThreadsInv' /\ NextTls' = NextTls + 1 /\ NextTls = Len(threads) + 1
           /\ NextStack' = IF t.stack = 0 THEN NextStack ELSE NextStack + 1
           /\ DOMAIN threads' = DOMAIN threads \cup {NextTls} /\ NextTls \notin DOMAIN threads
           /\ threads'[NextTls] = t
           /\ \A i \in DOMAIN threads : threads'[i] = threads[i]
<1> DEFINE n == Len(threads)
           S == {i \in DOMAIN threads : threads[i].stack # 0}
<1>1. n \in Nat /\ DOMAIN threads = 1..n
  BY DEF ThreadsInv
<1>2. /\ DOMAIN threads' = 1..(n + 1) /\ Len(threads') = n + 1
      /\ threads'[n + 1] = t /\ threads' \in Seq([stack: Nat, tls: Nat])
      /\ \A i \in 1..n : threads'[i] = threads[i]
  BY <1>1 DEF ThreadsInv
<1>3. NextTls = n + 1 /\ NextTls' = NextTls + 1
  BY <1>1, <1>2 DEF NextTls
<1>4. IsFiniteSet(S) /\ Cardinality(S) \in Nat /\ n + 1 \notin S
  <2>1. IsFiniteSet(1..n)
    BY <1>1, FS_Interval
  <2>2. S \subseteq 1..n
    BY <1>1
  <2>3. n + 1 \notin S
    BY <1>1
  <2> QED BY <2>1, <2>2, <2>3, FS_Subset, FS_CardinalityType
<1>5. NextStack = 1 + Cardinality(S)
  BY DEF NextStack
<1>6. {i \in DOMAIN threads' : threads'[i].stack # 0} = IF t.stack = 0 THEN S ELSE S \cup {n + 1}
  BY <1>1, <1>2
<1>7. NextStack' = 1 + Cardinality(IF t.stack = 0 THEN S ELSE S \cup {n + 1})
  BY <1>6 DEF NextStack
<1>8. Cardinality(S \cup {n + 1}) = Cardinality(S) + 1
  BY <1>4, FS_AddElement
<1> HIDE DEF S, n
<1>9. NextStack' = IF t.stack = 0 THEN NextStack ELSE NextStack + 1
  BY <1>4, <1>5, <1>7, <1>8
<1>10. /\ DOMAIN threads' = DOMAIN threads \cup {NextTls} /\ NextTls \notin DOMAIN threads
       /\ threads'[NextTls] = t
       /\ \A i \in DOMAIN threads : threads'[i] = threads[i]
  BY <1>1, <1>2, <1>3
<1>11. PICK k \in Nat \ {0} : k = NextStack
  BY DEF ThreadsInv
<1>12. /\ \A i \in DOMAIN threads : threads[i].stack \in Nat /\ threads[i].stack < k
       /\ NextStack' \in {k, k + 1} /\ (t.stack # 0 => NextStack' = k + 1) /\ t.stack \in {0, k}
  <2>1. \A i \in DOMAIN threads : threads[i].stack \in Nat
    <3> DEFINE R == [stack: Nat, tls: Nat]
    <3>1. threads \in Seq(R)
      BY DEF ThreadsInv
    <3>2. \A x \in R : x.stack \in Nat
      OBVIOUS
    <3> HIDE DEF R
    <3>3. \A i \in 1..n : threads[i] \in R
      BY <3>1 DEF n
    <3> QED BY <1>1, <3>2, <3>3
  <2> QED BY <1>9, <1>11, <2>1 DEF ThreadsInv
<1>13. NextStack' \in Nat \ {0}
  BY <1>12
<1>14. \A i \in DOMAIN threads' : threads'[i].tls = i /\ threads'[i].stack < NextStack'
  <2>1. ASSUME NEW i \in DOMAIN threads
        PROVE  threads'[i].tls = i /\ threads'[i].stack < NextStack'
    <3>1. threads'[i] = threads[i] /\ threads[i].tls = i
      BY <1>10 DEF ThreadsInv
    <3> QED BY <1>12, <3>1
  <2>2. t.tls = NextTls /\ t.stack < NextStack'
    BY <1>12
  <2> QED BY <1>10, <2>1, <2>2
<1>15. \A i, j \in DOMAIN threads' :
         i # j /\ threads'[i].stack # 0 => threads'[i].stack # threads'[j].stack
  <2>1. \A i \in DOMAIN threads : threads[i].stack # k
    BY <1>12
  <2> QED BY SMTT(20), <1>10, <1>12, <2>1 DEF ThreadsInv
<1> QED BY <1>1, <1>2, <1>3, <1>9, <1>10, <1>13, <1>14, <1>15 DEF ThreadsInv, n

\* SvcCreateThread: the slots of the new thread, and what its two mappings
\* leave.  The TLS slot is no whole page, so that its mapping is rejected.
LEMMA CreateEffect ==
    ASSUME IsMemory(mem), refused \in BOOLEAN, ThreadsInv, NEW ownStack \in BOOLEAN,
           CreateThread(ownStack)
    PROVE  \E t \in [stack: Nat, tls: Nat] :
             /\ t.stack = (IF ownStack THEN 0 ELSE NextStack) /\ t.tls = NextTls
             /\ threads' = Append(threads, t)
             /\ IsMemory(mem') /\ refused' \in BOOLEAN /\ (refused => refused')
             /\ \A a \in Addr : ~refused' /\ mem.data[a] # "none" => mem'.data[a] # "none"
             /\ \A a \in Addr :
                  /\ a \notin Stack(t) \cup Tls(t)
                  /\ ownStack \/ a \notin Rounded(StackSlot(t.stack), StackPerThread)
                  => mem'.data[a] = mem.data[a]
             /\ ~refused' /\ ~ownStack /\ Valid(StackSlot(t.stack), StackPerThread) =>
                  \A a \in Rounded(StackSlot(t.stack), StackPerThread) : mem'.data[a] # "none"
<1> DEFINE t == [stack |-> IF ownStack THEN 0 ELSE NextStack, tls |-> NextTls]
           stacks == IF ownStack THEN Start
                     ELSE {[r EXCEPT !.m = Store(@, Stack(t), "zero")]
                           : r \in MapPhysical(mem, StackSlot(t.stack), StackPerThread)}
           b == StackSlot(t.stack)
<1>1. PICK r \in stacks : /\ refused' = (refused \/ r.res = "OutOfMemory")
                          /\ \E q \in TlsMapping(r.m, t) : mem' = Store(q.m, Tls(t), "zero")
  BY DEF CreateThread, Note
<1>2. threads' = Append(threads, t)
  BY DEF CreateThread
<1>3. t \in [stack: Nat, tls: Nat] /\ t.tls = NextTls /\ t.stack = IF ownStack THEN 0 ELSE NextStack
  <2>1. NextTls \in Nat /\ NextStack \in Nat
    BY DEF ThreadsInv, NextTls
  <2> QED BY <2>1
<1>4. /\ IsMemory(r.m)
      /\ \A a \in Addr : /\ a \notin Stack(t)
                         /\ ownStack \/ a \notin Rounded(b, StackPerThread)
                         => r.m.data[a] = mem.data[a]
      /\ \A a \in Addr : r.res # "OutOfMemory" /\ mem.data[a] # "none" => r.m.data[a] # "none"
      /\ r.res # "OutOfMemory" /\ ~ownStack /\ Valid(b, StackPerThread) =>
           \A a \in Rounded(b, StackPerThread) : r.m.data[a] # "none"
  <2>1. CASE ownStack
    <3>1. r.m = mem
      BY <2>1 DEF Start
    <3> QED BY <2>1, <3>1
  <2>2. CASE ~ownStack
    <3>1. PICK p \in MapPhysical(mem, b, StackPerThread) :
            r = [p EXCEPT !.m = Store(@, Stack(t), "zero")]
      BY <2>2
    <3>2. p = [res |-> p.res, m |-> p.m]
      BY DEF MapPhysical
    <3>3. r.res = p.res /\ r.m = Store(p.m, Stack(t), "zero")
      BY <3>1, <3>2
    <3> HIDE DEF t, b, stacks
    <3>4. /\ IsMemory(p.m)
          /\ \A a \in Addr : a \notin Rounded(b, StackPerThread) => p.m.data[a] = mem.data[a]
          /\ p.res \in {"Success", "OutOfMemory", "InvalidArgument"}
          /\ p.res = "Success" =>
               \A a \in Addr : a \in Rounded(b, StackPerThread) => p.m.data[a] = "zero"
          /\ p.res = "InvalidArgument" => ~Valid(b, StackPerThread) /\ p.m = mem
      BY MapEffect
    <3>5. /\ IsMemory(r.m)
          /\ \A a \in Addr : /\ r.m.data[a] = "none" <=> p.m.data[a] = "none"
                             /\ a \notin Stack(t) => r.m.data[a] = p.m.data[a]
      BY <3>3, <3>4, StoreEffect
    <3>6. Rounded(b, StackPerThread) \subseteq Addr
      BY DEF Rounded
    <3>7. CASE p.res = "Success"
      BY <2>2, <3>3, <3>4, <3>5, <3>6, <3>7
    <3>8. CASE p.res = "InvalidArgument"
      BY <2>2, <3>3, <3>4, <3>5, <3>6, <3>8
    <3>9. CASE p.res = "OutOfMemory"
      BY <2>2, <3>3, <3>4, <3>5, <3>6, <3>9
    <3> QED BY <3>4, <3>7, <3>8, <3>9
  <2> QED BY <2>1, <2>2
<1> HIDE DEF t, stacks
<1>5. PICK q \in TlsMapping(r.m, t) : mem' = Store(q.m, Tls(t), "zero")
  BY <1>1
<1>6. q.m = r.m
  <2>1. ~Valid(TlsSlot(t.tls), TlsPerThread)
    BY RegionsAssumption DEF Valid
  <2>2. q \in MapPhysical(r.m, TlsSlot(t.tls), TlsPerThread)
    BY DEF TlsMapping
  <2>3. q.res = "InvalidArgument"
    BY <1>4, <2>1, <2>2 DEF MapPhysical, Outcomes
  <2> QED BY <1>4, <2>2, <2>3, MapEffect
<1>7. /\ IsMemory(mem')
      /\ \A a \in Addr : /\ mem'.data[a] = "none" <=> r.m.data[a] = "none"
                         /\ a \notin Tls(t) => mem'.data[a] = r.m.data[a]
  BY <1>4, <1>5, <1>6, StoreEffect
<1>8. refused' \in BOOLEAN /\ (refused => refused') /\ (~refused' => r.res # "OutOfMemory")
  BY <1>1
<1>9. Rounded(b, StackPerThread) \subseteq Addr
  BY DEF Rounded
<1>10. /\ \A a \in Addr : ~refused' /\ mem.data[a] # "none" => mem'.data[a] # "none"
       /\ \A a \in Addr :
            /\ a \notin Stack(t) \cup Tls(t)
            /\ ownStack \/ a \notin Rounded(b, StackPerThread)
            => mem'.data[a] = mem.data[a]
       /\ ~refused' /\ ~ownStack /\ Valid(b, StackPerThread) =>
            \A a \in Rounded(b, StackPerThread) : mem'.data[a] # "none"
  BY <1>4, <1>7, <1>8, <1>9
<1> QED BY <1>2, <1>3, <1>7, <1>8, <1>10

\* The limit of SetHeapSize.
LEMMA HeapLimit ==
    ASSUME heapSize \in 0..HeapMax, NEW size \in HeapSizes, SetHeapSize(size)
    PROVE  AlignUp(size, PageSize) \in 0..HeapMax
<1>1. HeapMax \in Nat /\ AlignUp(size, PageSize) \in Nat
  BY MemoryAssumption, AlignUpBounds
<1>2. AlignUp(size, PageSize) <= HeapMax \/ AlignUp(size, PageSize) < heapSize
  BY DEF SetHeapSize, GrowHeap, ShrinkHeap
<1> QED BY <1>1, <1>2

LEMMA SpaceStep ==
    ASSUME SpaceInv, [SpaceNext]_allVars
    PROVE  SpaceInv'
<1>1. /\ IsMemory(mem) /\ refused \in BOOLEAN
      /\ heapSize \in 0..HeapMax /\ stackSize \in 0..StackMax
      /\ phase \in {"idle", "running"}
      /\ phase = "idle" => heapSize = 0 /\ threads = <<>>
      /\ ThreadsInv
  BY DEF SpaceInv
<1>2. threads' = threads => ThreadsInv'
  BY <1>1 DEF ThreadsInv, NextStack
<1>3. CASE UNCHANGED allVars
  BY <1>1, <1>2, <1>3 DEF allVars, memVars, spaceVars, SpaceInv, IsMemory
<1>4. ASSUME NEW h \in NroImages, LoadNro(h) PROVE SpaceInv'
  <2>1. phase = "idle" /\ UNCHANGED <<heapSize, phase, threads>>
    BY <1>4 DEF LoadNro, Loading
  <2>2. PICK o \in NroOutcomes(h) :
          Finish(o.m) \/ (mem' = o.m /\ Note(o) /\ UNCHANGED stackSize)
    BY <1>4 DEF LoadNro
  <2>3. IsMemory(o.m)
    BY <1>1, LoadMemory
  <2>4. IsMemory(mem') /\ refused' \in BOOLEAN /\ stackSize' \in 0..StackMax
    BY <1>1, <2>2, <2>3, FinishMemory DEF Note
  <2> QED BY <1>1, <1>2, <2>1, <2>4 DEF SpaceInv
<1>5. ASSUME NEW n \in NsoImages, LoadNso(n) PROVE SpaceInv'
  <2>1. phase = "idle" /\ UNCHANGED <<heapSize, phase, threads>>
    BY <1>5 DEF LoadNso, Loading
  <2>2. PICK o \in NsoOutcomes(n) :
          Finish(o.m) \/ (mem' = o.m /\ Note(o) /\ UNCHANGED stackSize)
    BY <1>5 DEF LoadNso
  <2>3. IsMemory(o.m)
    BY <1>1, LoadMemory
  <2>4. IsMemory(mem') /\ refused' \in BOOLEAN /\ stackSize' \in 0..StackMax
    BY <1>1, <2>2, <2>3, FinishMemory DEF Note
  <2> QED BY <1>1, <1>2, <2>1, <2>4 DEF SpaceInv
<1>6. CASE Run
  <2>1. PICK r \in MapPhysical(mem, TlsBase, PageSize) :
          mem' = r.m /\ refused' = (refused \/ r.res = "OutOfMemory")
    BY <1>6 DEF Run, Note
  <2>2. IsMemory(mem')
    BY <1>1, <2>1, MapEffect
  <2>3. refused' \in BOOLEAN
    BY <2>1
  <2>4. phase' = "running" /\ UNCHANGED <<heapSize, stackSize, threads>>
    BY <1>6 DEF Run
  <2> QED BY <1>1, <1>2, <2>2, <2>3, <2>4 DEF SpaceInv
<1>7. ASSUME NEW ownStack \in BOOLEAN, CreateThread(ownStack) PROVE SpaceInv'
  <2>1. PICK t \in [stack: Nat, tls: Nat] :
          /\ t.stack = (IF ownStack THEN 0 ELSE NextStack) /\ t.tls = NextTls
          /\ threads' = Append(threads, t)
          /\ IsMemory(mem') /\ refused' \in BOOLEAN
    BY <1>1, <1>7, CreateEffect
  <2>2. t.stack \in {0, NextStack}
    BY <2>1
  <2>3. ThreadsInv'
    BY <1>1, <2>1, <2>2, ThreadsStep
  <2>4. phase = "running" /\ UNCHANGED <<heapSize, stackSize, phase>>
    BY <1>7 DEF CreateThread
  <2> QED BY <1>1, <2>1, <2>3, <2>4 DEF SpaceInv
<1>8. ASSUME NEW size \in HeapSizes, Guest(SetHeapSize(size)) PROVE SpaceInv'
  <2>1. SetHeapSize(size) /\ phase = "running" /\ UNCHANGED <<phase, threads>>
    BY <1>8 DEF Guest, spaceVars
  <2>2. HeapMax \in 0..HeapMax /\ AlignUp(size, PageSize) <= HeapMax
    BY <1>1, <2>1, MemoryAssumption, HeapLimit
  <2>3. IsMemory(mem') /\ heapSize' \in 0..HeapMax
    BY <1>1, <2>1, <2>2, HeapEffect
  <2>4. refused' \in BOOLEAN
    BY <1>1, <2>1 DEF SetHeapSize, GrowHeap, ShrinkHeap, Note
  <2>5. stackSize' = stackSize
    BY <2>1 DEF SetHeapSize, GrowHeap, ShrinkHeap
  <2> QED BY <1>1, <1>2, <2>1, <2>3, <2>4, <2>5 DEF SpaceInv
<1>9. CASE Guest(GuestWrites)
  <2>1. /\ mem' = Store(mem, Given, "data") /\ phase = "running"
        /\ UNCHANGED <<heapSize, stackSize, refused, phase, threads>>
    BY <1>9 DEF Guest, GuestWrites, spaceVars
  <2>2. IsMemory(mem')
    BY <1>1, <2>1, StoreEffect
  <2> QED BY <1>1, <1>2, <2>1, <2>2 DEF SpaceInv
<1>10. ASSUME Guest(\E size \in HeapSizes : SetHeapSize(size))
       PROVE  \E size \in HeapSizes : Guest(SetHeapSize(size))
  BY <1>10 DEF Guest
<1> QED BY <1>3, <1>4, <1>5, <1>6, <1>7, <1>8, <1>9, <1>10 DEF SpaceNext

LEMMA SpaceInitial == SpaceInit => SpaceInv
<1> SUFFICES ASSUME SpaceInit PROVE SpaceInv
  OBVIOUS
<1>1. IsMemory(mem)
  <2> DEFINE m == [data |-> [a \in Addr |-> "none"], pages |-> [b \in {} |-> 0]]
  <2>1. m.data \in [Addr -> Contents] /\ "zero" \in Contents
    BY DEF Contents
  <2>2. mem = Mapped(m, HidBase, HidSize)
    BY DEF SpaceInit
  <2> HIDE DEF m
  <2>3. mem.data = Fill(m.data, Rounded(HidBase, HidSize), "zero")
        /\ mem = [data |-> mem.data, pages |-> mem.pages]
    BY <2>2 DEF Mapped
  <2> QED BY <2>1, <2>3, FillEffect DEF IsMemory
<1>2. heapSize \in 0..HeapMax /\ stackSize \in 0..StackMax
  BY MemoryAssumption DEF SpaceInit
<1>3. refused \in BOOLEAN
  BY DEF SpaceInit
<1>4. ThreadsInv
  <2>1. threads = <<>>
    BY DEF SpaceInit
  <2>2. {i \in DOMAIN threads : threads[i].stack # 0} = {}
    BY <2>1
  <2>3. NextStack = 1
    BY <2>2, FS_EmptySet DEF NextStack
  <2> QED BY <2>1, <2>3 DEF ThreadsInv
<1> QED BY <1>1, <1>2, <1>3, <1>4 DEF SpaceInit, SpaceInv

LEMMA SpaceInvariant == SpaceSpec => []SpaceInv
BY SpaceInitial, SpaceStep, PTL DEF SpaceSpec

-----------------------------------------------------------------------------
(* The heap.                                                               *)

HeapWhole == heapSize % HostPage = 0

\* Resizing: a new heap is mapped as a whole, and of a smaller one only the
\* host pages behind it are unmapped.
LEMMA HeapBackedResize ==
    ASSUME WholeHostPages, SpaceInv, HeapWhole, HeapBacked, NEW size \in HeapSizes,
           SetHeapSize(size)
    PROVE  HeapWhole' /\ HeapBacked'
<1> DEFINE aligned == AlignUp(size, PageSize)
<1>1. /\ HeapBase \in Nat /\ HeapMax \in Nat /\ PageSize \in Nat \ {0} /\ HostPage \in Nat \ {0}
      /\ size \in Nat /\ heapSize \in 0..HeapMax /\ IsMemory(mem) /\ Addr \subseteq Nat
      /\ Space \in Nat
  BY MemoryAssumption DEF SpaceInv, Addr
<1>2. aligned \in 0..HeapMax /\ aligned % PageSize = 0 /\ aligned % HostPage = 0
  BY <1>1, HeapLimit, AlignUpMod DEF WholeHostPages
<1>3. refused \in BOOLEAN
  BY DEF SpaceInv
<1> HIDE DEF aligned
<1>4. CASE GrowHeap(size)
  <2> DEFINE freed == IF heapSize > 0 THEN UnmapPhysical(mem, HeapBase, heapSize) ELSE mem
  <2>1. PICK r \in MapPhysical(freed, HeapBase, aligned) :
          /\ refused' = (refused \/ r.res = "OutOfMemory")
          /\ \/ r.res = "Success" /\ mem' = r.m /\ heapSize' = aligned
             \/ r.res # "Success" /\ heapSize' = heapSize
    BY <1>4 DEF GrowHeap, Note, aligned
  <2>2. IsMemory(freed)
    BY <1>1, UnmapEffect
  <2> HIDE DEF freed
  <2>3. Valid(HeapBase, aligned)
    <3>1. /\ StackBase \in Nat /\ HidBase \in Nat /\ HidSize \in Nat /\ StackSlotsBase \in Nat
          /\ TlsBase \in Nat
      BY MemoryAssumption, SpaceAssumption
    <3>2. HeapBase + aligned <= Space
      BY <1>1, <1>2, <3>1, RegionsAssumption
    <3> QED BY <1>2, <3>2, RegionsAssumption DEF Valid
  <2>4. CASE r.res = "Success"
    <3>1. \A a \in Addr : a \in Rounded(HeapBase, aligned) => mem'.data[a] = "zero"
      BY <2>1, <2>2, <2>4, MapEffect
    <3>2. Extent(HeapBase, aligned) \subseteq Rounded(HeapBase, aligned)
      BY <1>1, <1>2, RoundedBounds
    <3>3. \A a \in Extent(HeapBase, aligned) : mem'.data[a] # "none"
      BY <3>1, <3>2 DEF Extent
    <3> QED BY <1>2, <2>1, <2>4, <3>3 DEF HeapWhole, HeapBacked
  <2>5. CASE r.res # "Success"
    <3>1. r.res = "OutOfMemory"
      BY <2>2, <2>3, <2>5, MapEffect
    <3> QED BY <2>1, <3>1 DEF HeapWhole, HeapBacked
  <2> QED BY <2>4, <2>5
<1>5. CASE ShrinkHeap(size)
  <2>1. /\ aligned < heapSize /\ refused' = refused /\ heapSize' = aligned
        /\ mem' = UnmapPhysical(mem, HeapBase + aligned, heapSize - aligned)
    BY <1>5 DEF ShrinkHeap, aligned
  <2>2. \A a \in Addr : mem'.data[a] =
          IF a \in Rounded(HeapBase + aligned, heapSize - aligned) THEN "none" ELSE mem.data[a]
    BY <1>1, <2>1, UnmapEffect
  <2>3. ((HeapBase + aligned) \div HostPage) * HostPage = HeapBase + aligned
    <3>0. HeapBase % HostPage = 0 /\ aligned \in Nat
      BY <1>2, RegionsAssumption
    <3>1. (HeapBase + 1 * aligned) % HostPage = 0
      <4>1. \A y, i \in Nat : y % HostPage = 0 => (HeapBase + i * y) % HostPage = 0
        BY <1>1, <3>0, Multiples
      <4>2. 1 \in Nat /\ aligned % HostPage = 0
        BY <1>2
      <4> QED BY <3>0, <4>1, <4>2, Zenon
    <3>2. HeapBase + 1 * aligned = HeapBase + aligned /\ HeapBase + aligned \in Nat
      BY <1>1, <1>2
    <3> QED BY <1>1, <3>1, <3>2, Multiples
  <2>4. ASSUME ~refused', NEW a \in Extent(HeapBase, aligned) PROVE mem'.data[a] # "none"
    <3>1. a \in Addr /\ a \in Nat /\ HeapBase <= a /\ a < HeapBase + aligned
      BY <1>1 DEF Extent
    <3>2. a \notin Rounded(HeapBase + aligned, heapSize - aligned)
      BY <1>1, <1>2, <2>3, <3>1 DEF Rounded
    <3>3. a \in Extent(HeapBase, heapSize)
      <4>1. aligned \in Nat /\ heapSize \in Nat /\ aligned < heapSize
        BY <1>1, <1>2, <2>1
      <4>2. a < HeapBase + heapSize
        BY <1>1, <3>1, <4>1
      <4> QED BY <3>1, <4>2 DEF Extent
    <3> QED BY <2>1, <2>2, <2>4, <3>1, <3>2, <3>3 DEF HeapBacked
  <2> QED BY <1>2, <2>1, <2>4 DEF HeapWhole, HeapBacked
<1> QED BY <1>4, <1>5 DEF SetHeapSize

LEMMA EmptyExtent ==
    ASSUME NEW b \in Nat
    PROVE  Extent(b, 0) = {}
<1> SUFFICES ASSUME NEW a \in Addr, b <= a, a < b + 0 PROVE FALSE
  BY Zenon DEF Extent
<1>1. a \in Nat
  BY MemoryAssumption DEF Addr
<1> QED BY <1>1

LEMMA HeapBackedStep ==
    ASSUME WholeHostPages, SpaceInv, HeapWhole, HeapBacked, [SpaceNext]_allVars
    PROVE  HeapWhole' /\ HeapBacked'
<1>1. HeapBase \in Nat /\ Addr \subseteq Nat
  BY MemoryAssumption DEF Addr
<1>2. Extent(HeapBase, 0) = {}
  BY <1>1, EmptyExtent
<1>3. CASE phase = "idle"
  <2>1. heapSize' = heapSize /\ heapSize = 0
    BY <1>3 DEF SpaceInv, SpaceNext, LoadNro, LoadNso, Run, CreateThread, Guest, allVars, memVars
  <2> QED BY <1>2, <2>1 DEF HeapWhole, HeapBacked
<1>4. CASE UNCHANGED allVars
  <2>1. UNCHANGED <<mem, heapSize, refused>>
    BY <1>4 DEF allVars, memVars
  <2> QED BY <2>1 DEF HeapWhole, HeapBacked
<1>5. ASSUME NEW ownStack \in BOOLEAN, CreateThread(ownStack) PROVE HeapWhole' /\ HeapBacked'
  <2>1. /\ refused => refused'
        /\ \A a \in Addr : ~refused' /\ mem.data[a] # "none" => mem'.data[a] # "none"
    BY <1>5, CreateEffect DEF SpaceInv
  <2>2. heapSize' = heapSize
    BY <1>5 DEF CreateThread
  <2> QED BY <2>1, <2>2 DEF HeapWhole, HeapBacked, Extent
<1>6. ASSUME NEW size \in HeapSizes, Guest(SetHeapSize(size)) PROVE HeapWhole' /\ HeapBacked'
  BY <1>6, HeapBackedResize DEF Guest
<1>7. CASE Guest(GuestWrites)
  <2>1. mem' = Store(mem, Given, "data") /\ UNCHANGED <<heapSize, refused>>
    BY <1>7 DEF Guest, GuestWrites
  <2>2. \A a \in Addr : mem'.data[a] = "none" <=> mem.data[a] = "none"
    BY <2>1, StoreEffect DEF SpaceInv
  <2> QED BY <2>1, <2>2 DEF HeapWhole, HeapBacked, Extent
<1>8. phase # "idle" => ~Run /\ (\A h \in NroImages : ~LoadNro(h)) /\ (\A n \in NsoImages : ~LoadNso(n))
  BY DEF Run, LoadNro, LoadNso, Loading
<1>9. ASSUME Guest(\E size \in HeapSizes : SetHeapSize(size))
      PROVE  \E size \in HeapSizes : Guest(SetHeapSize(size))
  BY <1>9 DEF Guest
<1> QED BY <1>3, <1>4, <1>5, <1>6, <1>7, <1>8, <1>9 DEF SpaceNext

\* A heap that grows and shrinks by whole host pages stays mapped, whatever
\* threads are created and whatever the guest writes, unless the host refuses
\* a mapping.
THEOREM HeapStaysMapped ==
    ASSUME WholeHostPages
    PROVE  SpaceSpec => []HeapBacked
<1>1. SpaceInit => HeapWhole /\ HeapBacked
  <2> SUFFICES ASSUME SpaceInit PROVE HeapWhole /\ HeapBacked
    OBVIOUS
  <2>1. HeapBase \in Nat /\ Addr \subseteq Nat /\ HostPage \in Nat \ {0}
    BY MemoryAssumption DEF Addr
  <2>2. Extent(HeapBase, 0) = {}
    BY <2>1, EmptyExtent
  <2>3. 0 % HostPage = 0
    <3>1. HostPage * 0 = 0
      BY <2>1
    <3> QED BY <2>1, <3>1, ModMultiple
  <2> QED BY <2>2, <2>3 DEF SpaceInit, HeapWhole, HeapBacked
<1>2. SpaceInv /\ HeapWhole /\ HeapBacked /\ [SpaceNext]_allVars => HeapWhole' /\ HeapBacked'
  BY HeapBackedStep
<1> QED BY <1>1, <1>2, SpaceInvariant, PTL DEF SpaceSpec

-----------------------------------------------------------------------------
(* Stacks and TLS slots.                                                   *)

\* The constants that the regions are made of.
LEMMA Regions ==
    /\ HeapBase \in Nat /\ HeapMax \in Nat /\ StackBase \in Nat /\ StackMax \in Nat
    /\ StackMax <= StackBase /\ HidBase \in Nat /\ HidSize \in Nat /\ StackSlotsBase \in Nat
    /\ StackPerThread \in Nat \ {0} /\ TlsBase \in Nat /\ TlsPerThread \in Nat \ {0}
    /\ Space \in Nat /\ PageSize \in Nat \ {0} /\ HostPage \in Nat \ {0} /\ Addr \subseteq Nat
BY MemoryAssumption, SpaceAssumption DEF Addr

\* Slots of equal size, one after the other.
LEMMA SlotOrder ==
    ASSUME NEW base \in Nat, NEW size \in Nat, NEW i \in Nat, NEW j \in Nat
    PROVE  /\ base + i * size \in Nat /\ base <= base + i * size
           /\ i < j => (base + i * size) + size <= base + j * size
           /\ i <= j => base + i * size <= base + j * size
<1>1. i * size \in Nat /\ j * size \in Nat
  OBVIOUS
<1>2. ASSUME i < j PROVE i * size + size <= j * size
  <2> DEFINE d == j - (i + 1)
  <2>1. d \in Nat /\ j = i + 1 + d
    BY <1>2
  <2> HIDE DEF d
  <2>2. j * size = i * size + size + d * size /\ d * size \in Nat
    BY <2>1
  <2> QED BY <1>1, <2>2
<1>3. base + i * size \in Nat /\ base <= base + i * size
  BY <1>1
<1>4. i < j => (base + i * size) + size <= base + j * size
  BY <1>1, <1>2
<1>5. i <= j => base + i * size <= base + j * size
  BY <1>1, <1>2
<1> QED BY <1>3, <1>4, <1>5

\* What a thread was given.
LEMMA ThreadSlots ==
    ASSUME ThreadsInv, NEW i \in DOMAIN threads
    PROVE  /\ i \in Nat \ {0} /\ i < NextTls /\ NextTls \in Nat \ {0}
           /\ threads[i].tls = i /\ threads[i].stack \in Nat
           /\ threads[i].stack < NextStack /\ NextStack \in Nat \ {0}
<1> DEFINE R == [stack: Nat, tls: Nat]
<1>1. threads \in Seq(R)
  BY DEF ThreadsInv
<1>2. \A x \in R : x.stack \in Nat
  OBVIOUS
<1> HIDE DEF R
<1>3. DOMAIN threads = 1..Len(threads) /\ Len(threads) \in Nat /\ threads[i] \in R
  BY <1>1
<1>4. i \in Nat \ {0} /\ i < NextTls /\ NextTls \in Nat \ {0}
  BY <1>3 DEF NextTls
<1> QED BY <1>2, <1>3, <1>4 DEF ThreadsInv

\* Where the slots lie while there are slots left.
LEMMA SlotPlaces ==
    ASSUME ThreadsInv, NEW i \in DOMAIN threads
    PROVE  /\ TlsSlot(threads[i].tls) \in Nat
           /\ TlsBase + TlsPerThread <= TlsSlot(threads[i].tls)
           /\ StackSlot(threads[i].stack) \in Nat
           /\ StackSlotsBase <= StackSlot(threads[i].stack)
           /\ SlotsLeft => /\ StackSlot(threads[i].stack) + StackPerThread <= TlsBase
                           /\ TlsSlot(threads[i].tls) + TlsPerThread <= TlsBase + HostPage
<1> DEFINE k == threads[i].stack
           n == NextStack - 1
           p == NextTls - 1
<1>1. /\ i \in Nat \ {0} /\ threads[i].tls = i /\ k \in Nat /\ n \in Nat /\ k <= n
      /\ p \in Nat /\ i <= p
  BY ThreadSlots
<1> HIDE DEF k, n, p
<1>2. TlsSlot(i) \in Nat /\ TlsSlot(p) \in Nat /\ TlsSlot(i) <= TlsSlot(p)
  BY <1>1, Regions, SlotOrder DEF TlsSlot
<1>3. TlsBase + TlsPerThread <= TlsSlot(i)
  <2>1. 0 \in Nat /\ 0 < i /\ i \in Nat
    BY <1>1
  <2>2. (TlsBase + 0 * TlsPerThread) + TlsPerThread <= TlsBase + i * TlsPerThread
    BY <2>1, Regions, SlotOrder
  <2>3. TlsBase + 0 * TlsPerThread = TlsBase
    BY Regions
  <2> QED BY <2>2, <2>3 DEF TlsSlot
<1>4. /\ StackSlot(k) \in Nat /\ StackSlot(n) \in Nat /\ StackSlot(k) <= StackSlot(n)
      /\ StackSlotsBase <= StackSlot(k)
  BY <1>1, Regions, SlotOrder DEF StackSlot
<1>5. SlotsLeft => /\ StackSlot(n) + StackPerThread <= TlsBase
                   /\ TlsSlot(p) + TlsPerThread <= TlsBase + HostPage
  BY DEF SlotsLeft, n, p
<1>6. SlotsLeft => /\ StackSlot(k) + StackPerThread <= TlsBase
                   /\ TlsSlot(i) + TlsPerThread <= TlsBase + HostPage
  BY <1>2, <1>4, <1>5, Regions
<1> QED BY <1>1, <1>2, <1>3, <1>4, <1>6 DEF k

\* Two ranges one after the other.
LEMMA RangesApart ==
    ASSUME NEW b \in Nat, NEW s \in Nat, NEW c \in Nat, NEW t \in Nat, b + s <= c
    PROVE  Extent(b, s) \cap Extent(c, t) = {}
<1> SUFFICES ASSUME NEW a \in Extent(b, s), a \in Extent(c, t) PROVE FALSE
  BY Zenon
<1>1. a \in Nat /\ a < b + s /\ c <= a
  BY Regions DEF Extent
<1> QED BY <1>1

\* While there are slots left, no two threads share a byte of stack or TLS,
\* and none has the TLS of the main thread.
LEMMA SlotsApart ==
    ASSUME ThreadsInv, SlotsLeft, NEW i \in DOMAIN threads
    PROVE  /\ Tls(threads[i]) \cap Extent(TlsBase, TlsPerThread) = {}
           /\ \A j \in DOMAIN threads : i # j =>
                (Stack(threads[i]) \cup Tls(threads[i])) \cap (Stack(threads[j]) \cup Tls(threads[j])) = {}
<1>1. ASSUME NEW j \in DOMAIN threads
      PROVE  Stack(threads[j]) \subseteq Extent(StackSlot(threads[j].stack), StackPerThread)
  BY DEF Stack
<1>2. ASSUME NEW j \in DOMAIN threads, NEW k \in DOMAIN threads
      PROVE  Stack(threads[j]) \cap Tls(threads[k]) = {}
  <2>1. /\ StackSlot(threads[j].stack) \in Nat /\ TlsSlot(threads[k].tls) \in Nat
        /\ StackSlot(threads[j].stack) + StackPerThread <= TlsBase
        /\ TlsBase + TlsPerThread <= TlsSlot(threads[k].tls)
    BY SlotPlaces
  <2>2. StackSlot(threads[j].stack) + StackPerThread <= TlsSlot(threads[k].tls)
    BY <2>1, Regions
  <2>3. Extent(StackSlot(threads[j].stack), StackPerThread) \cap Tls(threads[k]) = {}
    BY <2>1, <2>2, Regions, RangesApart DEF Tls
  <2> QED BY <1>1, <2>3
<1>3. ASSUME NEW j \in DOMAIN threads, NEW k \in DOMAIN threads, j < k
      PROVE  Tls(threads[j]) \cap Tls(threads[k]) = {}
  <2>1. j \in Nat /\ k \in Nat /\ threads[j].tls = j /\ threads[k].tls = k
    BY ThreadSlots
  <2>2. TlsSlot(j) \in Nat /\ TlsSlot(k) \in Nat /\ TlsSlot(j) + TlsPerThread <= TlsSlot(k)
    BY <1>3, <2>1, Regions, SlotOrder DEF TlsSlot
  <2> QED BY <2>1, <2>2, Regions, RangesApart DEF Tls
<1>4. ASSUME NEW j \in DOMAIN threads, NEW k \in DOMAIN threads,
             threads[j].stack < threads[k].stack
      PROVE  Stack(threads[j]) \cap Stack(threads[k]) = {}
  <2>1. threads[j].stack \in Nat /\ threads[k].stack \in Nat
    BY ThreadSlots
  <2>2. /\ StackSlot(threads[j].stack) \in Nat /\ StackSlot(threads[k].stack) \in Nat
        /\ StackSlot(threads[j].stack) + StackPerThread <= StackSlot(threads[k].stack)
    BY <1>4, <2>1, Regions, SlotOrder DEF StackSlot
  <2>3. Extent(StackSlot(threads[j].stack), StackPerThread)
          \cap Extent(StackSlot(threads[k].stack), StackPerThread) = {}
    BY <2>2, Regions, RangesApart
  <2> QED BY <1>1, <2>3
<1>5. ASSUME NEW j \in DOMAIN threads, i # j
      PROVE  /\ Tls(threads[i]) \cap Tls(threads[j]) = {}
             /\ Stack(threads[i]) \cap Stack(threads[j]) = {}
  <2>1. i \in Nat /\ j \in Nat /\ (i < j \/ j < i)
    BY <1>5, ThreadSlots
  <2>2. Tls(threads[i]) \cap Tls(threads[j]) = {}
    <3>1. CASE i < j
      BY <1>3, <3>1
    <3>2. CASE j < i
      <4>1. Tls(threads[j]) \cap Tls(threads[i]) = {}
        BY <1>3, <3>2
      <4> QED BY <4>1, Zenon
    <3> QED BY <2>1, <3>1, <3>2
  <2>3. CASE threads[i].stack = 0
    <3>1. Stack(threads[i]) = {}
      BY <2>3 DEF Stack
    <3> QED BY <2>2, <3>1
  <2>4. CASE threads[i].stack # 0
    <3>1. threads[i].stack # threads[j].stack
      BY <1>5, <2>4 DEF ThreadsInv
    <3>2. threads[i].stack < threads[j].stack \/ threads[j].stack < threads[i].stack
      BY <3>1, ThreadSlots
    <3>3. CASE threads[i].stack < threads[j].stack
      BY <1>4, <2>2, <3>3
    <3>4. CASE threads[j].stack < threads[i].stack
      <4>1. Stack(threads[j]) \cap Stack(threads[i]) = {}
        BY <1>4, <3>4
      <4> QED BY <2>2, <4>1, Zenon
    <3> QED BY <2>2, <3>2, <3>3, <3>4
  <2> QED BY <2>2, <2>3, <2>4
<1>6. Tls(threads[i]) \cap Extent(TlsBase, TlsPerThread) = {}
  <2>1. Extent(TlsBase, TlsPerThread) \cap Tls(threads[i]) = {}
    BY SlotPlaces, Regions, RangesApart DEF Tls
  <2> QED BY <2>1
<1> QED BY <1>2, <1>5, <1>6

\* What a running guest's threads have: a host page of TLS slots, and stacks.
SlotsMapped ==
    ~refused =>
        /\ phase = "running" => \A a \in Extent(TlsBase, HostPage) : mem.data[a] # "none"
        /\ SlotsLeft => \A i \in DOMAIN threads : \A a \in Stack(threads[i]) : mem.data[a] # "none"

\* The slots lie above all that the heap touches.
LEMMA AboveHeap ==
    ASSUME NEW a \in Addr, StackBase <= a
    PROVE  a \notin Rounded(HeapBase, HeapMax)
<1>1. a \in Nat /\ HeapBase + HeapMax \in Nat
  BY Regions
<1>2. AlignUp(StackBase, HostPage) = StackBase
  BY Regions, RegionsAssumption, Multiples
<1>3. AlignUp(HeapBase + HeapMax, HostPage) <= AlignUp(StackBase, HostPage)
  BY <1>1, Regions, RegionsAssumption, AlignUpMonotonic
<1>4. AlignUp(HeapBase + HeapMax, HostPage) \in Nat
  BY <1>1, Regions, AlignUpBounds
<1>5. ~(a < AlignUp(HeapBase + HeapMax, HostPage))
  BY <1>1, <1>2, <1>3, <1>4, Regions
<1> QED BY <1>5 DEF Rounded

LEMMA SlotsAboveHeap ==
    ASSUME ThreadsInv
    PROVE  /\ \A a \in Extent(TlsBase, HostPage) : a \in Addr /\ StackBase <= a
           /\ \A i \in DOMAIN threads : \A a \in Stack(threads[i]) \cup Tls(threads[i]) :
                a \in Addr /\ StackBase <= a
<1>1. StackBase <= StackSlotsBase /\ StackBase <= TlsBase
  BY Regions, RegionsAssumption
<1>2. ASSUME NEW b \in Nat, NEW s, StackBase <= b, NEW a \in Extent(b, s)
      PROVE  a \in Addr /\ StackBase <= a
  <2>1. a \in Addr /\ a \in Nat /\ b <= a
    BY <1>2, Regions DEF Extent
  <2> QED BY <1>2, <2>1, Regions
<1>3. ASSUME NEW i \in DOMAIN threads, NEW a \in Stack(threads[i]) \cup Tls(threads[i])
      PROVE  a \in Addr /\ StackBase <= a
  <2>1. /\ StackSlot(threads[i].stack) \in Nat /\ StackBase <= StackSlot(threads[i].stack)
        /\ TlsSlot(threads[i].tls) \in Nat /\ StackBase <= TlsSlot(threads[i].tls)
    BY <1>1, Regions, SlotPlaces
  <2>2. \/ a \in Extent(StackSlot(threads[i].stack), StackPerThread)
        \/ a \in Extent(TlsSlot(threads[i].tls), TlsPerThread)
    BY <1>3 DEF Stack, Tls
  <2> QED BY <1>2, <2>1, <2>2
<1> QED BY <1>1, <1>2, <1>3, Regions

\* EmulatorCore::Run asks for one guest page of TLS and gets a host page.
LEMMA TlsPage == Extent(TlsBase, HostPage) \subseteq Rounded(TlsBase, PageSize) /\ Valid(TlsBase, PageSize)
<1> DEFINE top == AlignUp(TlsBase + PageSize, HostPage)
           k == TlsBase \div HostPage
           q == top \div HostPage
<1>1. top \in Nat /\ TlsBase + PageSize <= top /\ top % HostPage = 0
  BY Regions, AlignUpBounds, AlignUpMod
<1>2. TlsBase = HostPage * k /\ k \in Nat
  BY Regions, SpaceAssumption
<1> HIDE DEF top
<1>3. top = HostPage * q /\ q \in Nat
  BY <1>1, Regions
<1> HIDE DEF k, q
<1>4. HostPage * k < HostPage * q
  BY <1>1, <1>2, <1>3, Regions
<1>5. TlsBase + HostPage <= top
  <2>1. CASE q <= k
    <3> DEFINE d == k - q
    <3>1. d \in Nat /\ k = q + d
      BY <1>2, <1>3, <2>1
    <3> HIDE DEF d
    <3>2. HostPage * k = HostPage * q + HostPage * d /\ HostPage * d \in Nat /\ HostPage * q \in Nat
      BY <1>3, <3>1, Regions
    <3> QED BY <1>4, <3>2
  <2>2. CASE q > k
    <3> DEFINE d == q - (k + 1)
    <3>1. d \in Nat /\ q = k + 1 + d
      BY <1>2, <1>3, <2>2
    <3> HIDE DEF d
    <3>2. HostPage * q = HostPage * k + HostPage + HostPage * d /\ HostPage * d \in Nat
      BY <1>2, <3>1, Regions
    <3> QED BY <1>2, <1>3, <3>2, Regions
  <2> QED BY <1>2, <1>3, <2>1, <2>2
<1>6. (TlsBase \div HostPage) * HostPage = TlsBase
  BY Regions, SpaceAssumption, Multiples
<1>7. ASSUME NEW a \in Extent(TlsBase, HostPage) PROVE a \in Rounded(TlsBase, PageSize)
  <2>1. a \in Addr /\ a \in Nat /\ TlsBase <= a /\ a < TlsBase + HostPage
    BY Regions DEF Extent
  <2>2. a < top
    BY <1>1, <1>5, <2>1, Regions
  <2> QED BY <1>6, <2>1, <2>2 DEF Rounded, top
<1>8. Valid(TlsBase, PageSize)
  <2>1. PageSize % PageSize = 0
    <3>1. PageSize * 1 = PageSize
      BY Regions
    <3> QED BY <3>1, Regions, ModMultiple
  <2>2. TlsBase + PageSize <= Space
    BY Regions, RegionsAssumption
  <2> QED BY <2>1, <2>2, RegionsAssumption DEF Valid
<1> QED BY <1>7, <1>8

\* The next stack slot can be mapped while there is one.
LEMMA StackSlotValid ==
    ASSUME NEW k \in Nat, StackSlot(k) + StackPerThread <= TlsBase
    PROVE  /\ Valid(StackSlot(k), StackPerThread) /\ StackSlot(k) \in Nat
           /\ Rounded(StackSlot(k), StackPerThread) = Extent(StackSlot(k), StackPerThread)
<1>1. StackSlot(k) \in Nat
  BY Regions, SlotOrder DEF StackSlot
<1>2. StackSlot(k) % PageSize = 0 /\ StackSlot(k) % HostPage = 0
  <2>1. /\ StackSlotsBase % PageSize = 0 /\ StackSlotsBase % HostPage = 0
        /\ StackPerThread % PageSize = 0 /\ StackPerThread % HostPage = 0
        /\ StackPerThread \in Nat
    BY Regions, RegionsAssumption
  <2>2. \A y, i \in Nat : y % PageSize = 0 => (StackSlotsBase + i * y) % PageSize = 0
    BY <2>1, Regions, Multiples
  <2>3. \A y, i \in Nat : y % HostPage = 0 => (StackSlotsBase + i * y) % HostPage = 0
    BY <2>1, Regions, Multiples
  <2>4. (StackSlotsBase + k * StackPerThread) % PageSize = 0
    BY <2>1, <2>2, Zenon
  <2>5. (StackSlotsBase + k * StackPerThread) % HostPage = 0
    BY <2>1, <2>3, Zenon
  <2> QED BY <2>4, <2>5 DEF StackSlot
<1>3. StackSlot(k) + StackPerThread <= Space
  BY <1>1, Regions, RegionsAssumption
<1>4. Valid(StackSlot(k), StackPerThread)
  BY <1>2, <1>3, RegionsAssumption DEF Valid
<1>5. (StackSlot(k) \div HostPage) * HostPage = StackSlot(k)
  BY <1>1, <1>2, Regions, Multiples
<1>6. AlignUp(StackSlot(k) + StackPerThread, HostPage) = StackSlot(k) + StackPerThread
  <2>1. StackPerThread % HostPage = 0 /\ StackPerThread \in Nat /\ 1 \in Nat
    BY Regions, RegionsAssumption
  <2>2. \A y, i \in Nat : y % HostPage = 0 => (StackSlot(k) + i * y) % HostPage = 0
    BY <1>1, <1>2, Regions, Multiples
  <2>3. (StackSlot(k) + 1 * StackPerThread) % HostPage = 0
    BY <2>1, <2>2, Zenon
  <2>4. 1 * StackPerThread = StackPerThread
    BY Regions
  <2>5. (StackSlot(k) + StackPerThread) % HostPage = 0 /\ StackSlot(k) + StackPerThread \in Nat
    BY <1>1, <2>3, <2>4, Regions
  <2> QED BY <2>5, Regions, Multiples
<1>7. Rounded(StackSlot(k), StackPerThread) = Extent(StackSlot(k), StackPerThread)
  BY <1>5, <1>6 DEF Rounded, Extent
<1> QED BY <1>1, <1>4, <1>7

\* A new thread leaves no more slots than there were, and has its own.
LEMMA CreateSlots ==
    ASSUME ThreadsInv, NEW t \in [stack: Nat, tls: Nat], t.stack \in {0, NextStack},
           t.tls = NextTls, threads' = Append(threads, t)
    PROVE  SlotsLeft' => /\ SlotsLeft
                         /\ t.stack # 0 => StackSlot(t.stack) + StackPerThread <= TlsBase
<1> SUFFICES ASSUME SlotsLeft'
             PROVE  /\ SlotsLeft
                    /\ t.stack # 0 => StackSlot(t.stack) + StackPerThread <= TlsBase
  OBVIOUS
<1>1. PICK k \in Nat, n \in Nat : k + 1 = NextStack /\ n = Len(threads)
  <2>1. NextStack - 1 \in Nat /\ (NextStack - 1) + 1 = NextStack /\ Len(threads) \in Nat
    BY DEF ThreadsInv
  <2> QED BY <2>1
<1>2. NextTls = n + 1 /\ NextTls' = n + 2 /\ NextStack' = IF t.stack = 0 THEN k + 1 ELSE k + 2
  BY <1>1, ThreadsStep
<1>3. PICK l \in Nat : NextStack' = l + 1 /\ l = IF t.stack = 0 THEN k ELSE k + 1
  <2>1. CASE t.stack = 0
    BY <1>2, <2>1
  <2>2. CASE t.stack # 0
    <3>1. NextStack' = (k + 1) + 1 /\ k + 1 \in Nat
      BY <1>2, <2>2
    <3> QED BY <2>2, <3>1
  <2> QED BY <2>1, <2>2
<1>4. NextStack' - 1 = l /\ NextStack - 1 = k /\ NextTls' - 1 = n + 1 /\ NextTls - 1 = n
  BY <1>1, <1>2, <1>3
<1>5. /\ StackSlot(l) + StackPerThread <= TlsBase
      /\ TlsSlot(n + 1) + TlsPerThread <= TlsBase + HostPage
  BY <1>4 DEF SlotsLeft, StackSlot, TlsSlot
<1>6. k <= l /\ n <= n + 1 /\ n + 1 \in Nat
  BY <1>3
<1>7. /\ StackSlot(k) \in Nat /\ StackSlot(l) \in Nat /\ StackSlot(k) <= StackSlot(l)
      /\ TlsSlot(n) \in Nat /\ TlsSlot(n + 1) \in Nat /\ TlsSlot(n) <= TlsSlot(n + 1)
  BY <1>6, Regions, SlotOrder DEF StackSlot, TlsSlot
<1>8. /\ StackSlot(k) + StackPerThread <= TlsBase
      /\ TlsSlot(n) + TlsPerThread <= TlsBase + HostPage
  <2>1. \A x, y, d, top \in Nat : x <= y /\ y + d <= top => x + d <= top
    OBVIOUS
  <2>2. StackPerThread \in Nat /\ TlsPerThread \in Nat /\ TlsBase \in Nat /\ TlsBase + HostPage \in Nat
    BY Regions
  <2>3. StackSlot(k) + StackPerThread <= TlsBase
    BY <1>5, <1>7, <2>1, <2>2, Zenon
  <2>4. TlsSlot(n) + TlsPerThread <= TlsBase + HostPage
    <3> DEFINE x == TlsSlot(n)
               y == TlsSlot(n + 1)
               top == TlsBase + HostPage
    <3>1. x \in Nat /\ y \in Nat /\ x <= y /\ y + TlsPerThread <= top /\ top \in Nat
      BY <1>5, <1>7, <2>2
    <3> HIDE DEF x, y, top
    <3>2. x + TlsPerThread <= top
      BY <2>2, <3>1
    <3> QED BY <3>2 DEF x, top
  <2> QED BY <2>3, <2>4
<1>9. SlotsLeft
  BY <1>4, <1>8 DEF SlotsLeft
<1>10. t.stack # 0 => t.stack = l
  BY <1>1, <1>3
<1> QED BY <1>5, <1>9, <1>10

LEMMA SlotsMappedStep ==
    ASSUME SpaceInv, SlotsMapped, [SpaceNext]_allVars
    PROVE  SlotsMapped'
<1>1. /\ IsMemory(mem) /\ refused \in BOOLEAN /\ heapSize \in 0..HeapMax /\ ThreadsInv
      /\ phase = "idle" => threads = <<>>
  BY DEF SpaceInv
<1>2. CASE UNCHANGED allVars
  <2>1. UNCHANGED <<mem, refused, phase, threads>>
    BY <1>2 DEF allVars, memVars, spaceVars
  <2> QED BY <2>1 DEF SlotsMapped, SlotsLeft, StackSlot, TlsSlot, NextStack, NextTls, Stack
<1>3. ASSUME phase = "idle", threads' = threads, phase' = "idle" PROVE SlotsMapped'
  BY <1>1, <1>3 DEF SlotsMapped
<1>4. ASSUME NEW h \in NroImages, LoadNro(h) PROVE SlotsMapped'
  BY <1>3, <1>4 DEF LoadNro, Loading
<1>5. ASSUME NEW n \in NsoImages, LoadNso(n) PROVE SlotsMapped'
  BY <1>3, <1>5 DEF LoadNso, Loading
<1>6. CASE Run
  <2>1. PICK r \in MapPhysical(mem, TlsBase, PageSize) :
          mem' = r.m /\ refused' = (refused \/ r.res = "OutOfMemory")
    BY <1>6 DEF Run, Note
  <2>2. threads' = <<>>
    BY <1>1, <1>6 DEF Run
  <2>3. ~refused' => r.res = "Success"
    <3>1. r.res \in {"Success", "OutOfMemory"}
      BY <1>1, TlsPage, MapEffect
    <3> QED BY <2>1, <3>1
  <2>4. r.res = "Success" => \A a \in Addr : a \in Rounded(TlsBase, PageSize) => mem'.data[a] = "zero"
    BY <1>1, <2>1, MapEffect
  <2>5. ~refused' => \A a \in Extent(TlsBase, HostPage) : mem'.data[a] # "none"
    BY <2>3, <2>4, TlsPage DEF Extent
  <2> QED BY <2>2, <2>5 DEF SlotsMapped
<1>7. ASSUME NEW ownStack \in BOOLEAN, CreateThread(ownStack) PROVE SlotsMapped'
  <2>1. PICK t \in [stack: Nat, tls: Nat] :
          /\ t.stack = (IF ownStack THEN 0 ELSE NextStack) /\ t.tls = NextTls
          /\ threads' = Append(threads, t)
          /\ refused => refused'
          /\ \A a \in Addr : ~refused' /\ mem.data[a] # "none" => mem'.data[a] # "none"
          /\ ~refused' /\ ~ownStack /\ Valid(StackSlot(t.stack), StackPerThread) =>
               \A a \in Rounded(StackSlot(t.stack), StackPerThread) : mem'.data[a] # "none"
    BY <1>1, <1>7, CreateEffect
  <2>2. t.stack \in {0, NextStack} /\ (ownStack => t.stack = 0)
    BY <2>1
  <2>3. phase = "running" /\ phase' = phase
    BY <1>7 DEF CreateThread
  <2>4. ~refused' => \A a \in Extent(TlsBase, HostPage) : mem'.data[a] # "none"
    BY <2>1, <2>3 DEF SlotsMapped, Extent
  <2>5. ASSUME ~refused', SlotsLeft', NEW i \in DOMAIN threads', NEW a \in Stack(threads'[i])
        PROVE  mem'.data[a] # "none"
    <3>1. /\ DOMAIN threads' = DOMAIN threads \cup {NextTls}
          /\ threads'[NextTls] = t
          /\ \A j \in DOMAIN threads : threads'[j] = threads[j]
      BY <1>1, <2>1, <2>2, ThreadsStep
    <3>2. SlotsLeft /\ (t.stack # 0 => StackSlot(t.stack) + StackPerThread <= TlsBase)
      BY <1>1, <2>1, <2>2, <2>5, CreateSlots
    <3>3. a \in Addr
      BY <2>5 DEF Stack, Extent
    <3>4. CASE i \in DOMAIN threads
      <4>1. mem.data[a] # "none"
        BY <2>1, <2>5, <3>1, <3>2, <3>4 DEF SlotsMapped
      <4> QED BY <2>1, <2>5, <3>3, <4>1
    <3>5. CASE i = NextTls
      <4>1. t.stack # 0 /\ a \in Extent(StackSlot(t.stack), StackPerThread)
        BY <2>5, <3>1, <3>5 DEF Stack
      <4>2. t.stack \in Nat
        OBVIOUS
      <4>3. /\ Valid(StackSlot(t.stack), StackPerThread)
            /\ a \in Rounded(StackSlot(t.stack), StackPerThread)
        BY <3>2, <4>1, <4>2, StackSlotValid
      <4> QED BY <2>1, <2>2, <2>5, <4>1, <4>3
    <3> QED BY <2>5, <3>1, <3>4, <3>5
  <2>6. ~refused' /\ SlotsLeft' =>
          \A i \in DOMAIN threads' : \A a \in Stack(threads'[i]) : mem'.data[a] # "none"
    BY <2>5
  <2> QED BY <2>4, <2>6 DEF SlotsMapped, Stack, StackSlot
<1>8. ASSUME NEW size \in HeapSizes, Guest(SetHeapSize(size)) PROVE SlotsMapped'
  <2>1. SetHeapSize(size) /\ phase = "running" /\ UNCHANGED <<phase, threads>>
    BY <1>8 DEF Guest, spaceVars
  <2>2. HeapMax \in 0..HeapMax /\ AlignUp(size, PageSize) <= HeapMax
    BY <1>1, <2>1, MemoryAssumption, HeapLimit
  <2>3. /\ refused => refused'
        /\ \A a \in Addr : a \notin Rounded(HeapBase, HeapMax) => mem'.data[a] = mem.data[a]
    BY <1>1, <2>1, <2>2, HeapEffect
  <2>4. \A a \in Addr : StackBase <= a => mem'.data[a] = mem.data[a]
    BY <2>3, AboveHeap
  <2>5. /\ \A a \in Extent(TlsBase, HostPage) : mem'.data[a] = mem.data[a]
        /\ \A i \in DOMAIN threads : \A a \in Stack(threads[i]) : mem'.data[a] = mem.data[a]
    BY <1>1, <2>4, SlotsAboveHeap
  <2>6. SlotsLeft' <=> SlotsLeft
    BY <2>1 DEF SlotsLeft, StackSlot, TlsSlot, NextStack, NextTls
  <2> QED BY <2>1, <2>3, <2>5, <2>6 DEF SlotsMapped, Stack, StackSlot
<1>9. CASE Guest(GuestWrites)
  <2>1. mem' = Store(mem, Given, "data") /\ UNCHANGED <<refused, phase, threads>>
    BY <1>9 DEF Guest, GuestWrites, spaceVars
  <2>2. \A a \in Addr : mem'.data[a] = "none" <=> mem.data[a] = "none"
    BY <1>1, <2>1, StoreEffect
  <2>3. SlotsLeft' <=> SlotsLeft
    BY <2>1 DEF SlotsLeft, StackSlot, TlsSlot, NextStack, NextTls
  <2>4. \A i \in DOMAIN threads : Stack(threads[i]) \subseteq Addr
    BY DEF Stack, Extent
  <2>5. Extent(TlsBase, HostPage) \subseteq Addr
    BY DEF Extent
  <2> QED BY <2>1, <2>2, <2>3, <2>4, <2>5 DEF SlotsMapped, Stack, StackSlot
<1>10. ASSUME Guest(\E size \in HeapSizes : SetHeapSize(size))
       PROVE  \E size \in HeapSizes : Guest(SetHeapSize(size))
  BY <1>10 DEF Guest
<1> QED BY <1>2, <1>4, <1>5, <1>6, <1>7, <1>8, <1>9, <1>10 DEF SpaceNext

\* As long as stack and TLS slots are left and the host refuses nothing, every
\* thread that SvcCreateThread makes has mapped memory for both, shared with
\* no other thread - although the mapping of each TLS slot is rejected.
THEOREM ThreadsHaveMemory == SpaceSpec => []ThreadsBacked
<1>1. SpaceInit => SlotsMapped
  BY DEF SpaceInit, SlotsMapped
<1>2. SpaceInv /\ SlotsMapped /\ [SpaceNext]_allVars => SlotsMapped'
  BY SlotsMappedStep
<1>3. SpaceInv /\ SlotsMapped => ThreadsBacked
  <2> SUFFICES ASSUME SpaceInv, SlotsMapped, SlotsLeft, ~refused
               PROVE  /\ \A i \in DOMAIN threads : \A a \in Stack(threads[i]) \cup Tls(threads[i]) :
                           mem.data[a] # "none"
                      /\ \A i, j \in DOMAIN threads : i # j =>
                           (Stack(threads[i]) \cup Tls(threads[i]))
                             \cap (Stack(threads[j]) \cup Tls(threads[j])) = {}
                      /\ \A i \in DOMAIN threads : Tls(threads[i]) \cap Extent(TlsBase, TlsPerThread) = {}
    BY DEF ThreadsBacked
  <2>1. ThreadsInv
    BY DEF SpaceInv
  <2>2. ASSUME NEW i \in DOMAIN threads, NEW a \in Tls(threads[i])
        PROVE  mem.data[a] # "none"
    <3>1. phase = "running"
      <4>1. threads # <<>>
        BY <2>2
      <4> QED BY <4>1 DEF SpaceInv
    <3>2. /\ TlsSlot(threads[i].tls) \in Nat /\ TlsBase + TlsPerThread <= TlsSlot(threads[i].tls)
          /\ TlsSlot(threads[i].tls) + TlsPerThread <= TlsBase + HostPage
      BY <2>1, SlotPlaces
    <3>3. a \in Addr /\ a \in Nat /\ TlsSlot(threads[i].tls) <= a
          /\ a < TlsSlot(threads[i].tls) + TlsPerThread
      BY <2>2, Regions DEF Tls, Extent
    <3>4. TlsBase <= a /\ a < TlsBase + HostPage
      BY <3>2, <3>3, Regions
    <3> QED BY <3>1, <3>3, <3>4 DEF SlotsMapped, Extent
  <2> QED BY <2>1, <2>2, SlotsApart DEF SlotsMapped
<1> QED BY <1>1, <1>2, <1>3, SpaceInvariant, PTL DEF SpaceSpec

-----------------------------------------------------------------------------
(* What the guest wrote.                                                   *)

\* The slots of a new thread are nobody's.
LEMMA FreshSlots ==
    ASSUME ThreadsInv, SlotsLeft, NEW t \in [stack: Nat, tls: Nat], t.stack \in {0, NextStack},
           t.tls = NextTls, t.stack # 0 => StackSlot(t.stack) + StackPerThread <= TlsBase,
           NEW a \in Stack(t) \cup Tls(t)
    PROVE  /\ a \in Nat /\ StackSlotsBase <= a
           /\ a \notin Extent(TlsBase, TlsPerThread)
           /\ \A i \in DOMAIN threads : a \notin Stack(threads[i]) \cup Tls(threads[i])
<1>1. a \in Nat
  BY Regions DEF Stack, Tls, Extent
<1>2. NextTls \in Nat \ {0} /\ NextStack \in Nat \ {0}
  BY DEF ThreadsInv, NextTls
<1>3. CASE a \in Tls(t)
  <2>1. a < TlsSlot(NextTls) + TlsPerThread /\ TlsSlot(NextTls) <= a
    BY <1>3 DEF Tls, Extent
  <2>2. TlsBase + TlsPerThread <= TlsSlot(NextTls) /\ TlsSlot(NextTls) \in Nat
    <3>1. 0 \in Nat /\ 0 < NextTls /\ NextTls \in Nat
      BY <1>2
    <3>2. /\ (TlsBase + 0 * TlsPerThread) + TlsPerThread <= TlsBase + NextTls * TlsPerThread
          /\ TlsBase + NextTls * TlsPerThread \in Nat
      BY <3>1, Regions, SlotOrder
    <3>3. TlsBase + 0 * TlsPerThread = TlsBase
      BY Regions
    <3> QED BY <3>2, <3>3 DEF TlsSlot
  <2>3. TlsBase + TlsPerThread <= a /\ TlsBase <= a /\ StackSlotsBase <= a
    BY <1>1, <2>1, <2>2, Regions, RegionsAssumption
  <2>4. a \notin Extent(TlsBase, TlsPerThread)
    BY <1>1, <2>3, Regions DEF Extent
  <2>5. ASSUME NEW i \in DOMAIN threads PROVE a \notin Stack(threads[i]) \cup Tls(threads[i])
    <3>1. /\ i \in Nat /\ i < NextTls /\ threads[i].tls = i
          /\ StackSlot(threads[i].stack) \in Nat
          /\ StackSlot(threads[i].stack) + StackPerThread <= TlsBase
      BY ThreadSlots, SlotPlaces
    <3>2. ~(a < StackSlot(threads[i].stack) + StackPerThread)
      BY <1>1, <2>3, <3>1, Regions
    <3>3. a \notin Stack(threads[i])
      BY <3>2 DEF Stack, Extent
    <3>4. TlsSlot(i) \in Nat /\ TlsSlot(i) + TlsPerThread <= TlsSlot(NextTls)
      BY <1>2, <3>1, Regions, SlotOrder DEF TlsSlot
    <3>5. ~(a < TlsSlot(i) + TlsPerThread)
      BY <1>1, <2>1, <2>2, <3>4, Regions
    <3>6. a \notin Tls(threads[i])
      BY <3>1, <3>5 DEF Tls, Extent
    <3> QED BY <3>3, <3>6
  <2> QED BY <1>1, <2>3, <2>4, <2>5
<1>4. CASE a \in Stack(t)
  <2>1. t.stack = NextStack /\ StackSlot(NextStack) <= a /\ a < StackSlot(NextStack) + StackPerThread
    BY <1>4 DEF Stack, Extent
  <2>2. /\ StackSlot(NextStack) \in Nat /\ StackSlot(NextStack) + StackPerThread <= TlsBase
        /\ StackSlotsBase <= StackSlot(NextStack)
    BY <1>2, <2>1, Regions, SlotOrder DEF StackSlot
  <2>3. StackSlotsBase <= a /\ a < TlsBase
    BY <1>1, <2>1, <2>2, Regions
  <2>4. a \notin Extent(TlsBase, TlsPerThread)
    BY <1>1, <2>3, Regions DEF Extent
  <2>5. ASSUME NEW i \in DOMAIN threads PROVE a \notin Stack(threads[i]) \cup Tls(threads[i])
    <3>1. /\ threads[i].stack \in Nat /\ threads[i].stack < NextStack
          /\ TlsSlot(threads[i].tls) \in Nat
          /\ TlsBase + TlsPerThread <= TlsSlot(threads[i].tls)
      BY ThreadSlots, SlotPlaces
    <3>2. ~(TlsSlot(threads[i].tls) <= a)
      BY <1>1, <2>3, <3>1, Regions
    <3>3. a \notin Tls(threads[i])
      BY <3>2 DEF Tls, Extent
    <3>4. /\ StackSlot(threads[i].stack) \in Nat
          /\ StackSlot(threads[i].stack) + StackPerThread <= StackSlot(NextStack)
      BY <1>2, <3>1, Regions, SlotOrder DEF StackSlot
    <3>5. ~(a < StackSlot(threads[i].stack) + StackPerThread)
      BY <1>1, <2>1, <2>2, <3>4, Regions
    <3>6. a \notin Stack(threads[i])
      BY <3>5 DEF Stack, Extent
    <3> QED BY <3>3, <3>6
  <2> QED BY <1>1, <2>3, <2>4, <2>5
<1> QED BY <1>3, <1>4

\* What is kept: what threads were given, the main thread's stack and TLS, and
\* the HID memory.
LEMMA KeptParts ==
    ASSUME SpaceInv, NEW a \in Kept
    PROVE  /\ a \in Addr /\ a \in Nat /\ StackBase - StackMax <= a
           /\ \/ \E i \in DOMAIN threads : a \in Stack(threads[i]) \cup Tls(threads[i])
              \/ a \in Extent(TlsBase, TlsPerThread)
              \/ a < StackSlotsBase
<1>1. /\ ThreadsInv /\ stackSize \in 0..StackMax
      /\ StackBase <= HidBase /\ HidBase + HidSize <= StackSlotsBase
      /\ StackBase <= StackSlotsBase /\ StackSlotsBase <= TlsBase /\ StackBase <= TlsBase
  BY Regions, RegionsAssumption DEF SpaceInv
<1>2. \/ \E i \in DOMAIN threads : a \in Stack(threads[i]) \cup Tls(threads[i])
      \/ a \in Extent(StackBase - stackSize, stackSize)
      \/ a \in Extent(TlsBase, TlsPerThread)
      \/ a \in Extent(HidBase, HidSize)
  BY DEF Kept
<1>3. ASSUME NEW i \in DOMAIN threads, a \in Stack(threads[i]) \cup Tls(threads[i])
      PROVE  a \in Addr /\ StackBase <= a
  BY <1>1, <1>3, SlotsAboveHeap
<1>4. a \in Addr /\ a \in Nat
  BY <1>2, <1>3, Regions DEF Extent
<1>5. CASE \E i \in DOMAIN threads : a \in Stack(threads[i]) \cup Tls(threads[i])
  <2>1. StackBase <= a
    BY <1>3, <1>5
  <2>2. StackBase - StackMax <= a
    BY <1>4, <2>1, Regions
  <2> QED BY <1>4, <1>5, <2>2
<1>6. CASE a \in Extent(StackBase - stackSize, stackSize)
  <2>1. StackBase - stackSize <= a /\ a < (StackBase - stackSize) + stackSize
    BY <1>6 DEF Extent
  <2>2. StackBase - StackMax <= a /\ a < StackSlotsBase
    BY <1>1, <1>4, <2>1, Regions
  <2> QED BY <1>4, <2>2
<1>7. CASE a \in Extent(TlsBase, TlsPerThread)
  <2>1. TlsBase <= a
    BY <1>7 DEF Extent
  <2>2. StackBase - StackMax <= a
    BY <1>1, <1>4, <2>1, Regions
  <2> QED BY <1>4, <1>7, <2>2
<1>8. CASE a \in Extent(HidBase, HidSize)
  <2>1. HidBase <= a /\ a < HidBase + HidSize
    BY <1>8 DEF Extent
  <2>2. StackBase - StackMax <= a /\ a < StackSlotsBase
    BY <1>1, <1>4, <2>1, Regions
  <2> QED BY <1>4, <2>2
<1> QED BY <1>2, <1>5, <1>6, <1>7, <1>8

\* One request of the running guest.
LEMMA KeptStep ==
    ASSUME NEW top \in 0..HeapMax, AlignUp(HeapBase + top, HostPage) <= StackBase - StackMax,
           \A size \in HeapSizes : AlignUp(size, PageSize) <= top,
           SpaceInv, heapSize \in 0..top, [SpaceNext]_allVars
    PROVE  /\ heapSize' \in 0..top
           /\ phase = "running" /\ SlotsLeft' =>
                \A a \in Kept : mem.data[a] = "data" => mem'.data[a] = "data"
<1>1. IsMemory(mem) /\ refused \in BOOLEAN /\ ThreadsInv
  BY DEF SpaceInv
<1>2. CASE UNCHANGED allVars
  BY <1>2 DEF allVars, memVars
<1>3. CASE phase = "idle"
  <2>1. heapSize' = heapSize
    BY <1>3 DEF SpaceNext, LoadNro, LoadNso, Run, CreateThread, Guest, allVars, memVars
  <2> QED BY <1>3, <2>1
<1>4. ASSUME NEW ownStack \in BOOLEAN, CreateThread(ownStack)
      PROVE  /\ heapSize' = heapSize
             /\ SlotsLeft' => \A a \in Kept : mem'.data[a] = mem.data[a]
  <2>1. PICK t \in [stack: Nat, tls: Nat] :
          /\ t.stack = (IF ownStack THEN 0 ELSE NextStack) /\ t.tls = NextTls
          /\ threads' = Append(threads, t)
          /\ \A a \in Addr :
               /\ a \notin Stack(t) \cup Tls(t)
               /\ ownStack \/ a \notin Rounded(StackSlot(t.stack), StackPerThread)
               => mem'.data[a] = mem.data[a]
    BY <1>1, <1>4, CreateEffect
  <2>2. t.stack \in {0, NextStack} /\ NextStack # 0 /\ (~ownStack => t.stack # 0)
    BY <1>1, <2>1 DEF ThreadsInv
  <2>3. ASSUME SlotsLeft', NEW a \in Kept PROVE mem'.data[a] = mem.data[a]
    <3>1. SlotsLeft /\ (t.stack # 0 => StackSlot(t.stack) + StackPerThread <= TlsBase)
      BY <1>1, <2>1, <2>2, <2>3, CreateSlots
    <3>2. /\ a \in Addr /\ a \in Nat
          /\ \/ \E i \in DOMAIN threads : a \in Stack(threads[i]) \cup Tls(threads[i])
             \/ a \in Extent(TlsBase, TlsPerThread)
             \/ a < StackSlotsBase
      BY <2>3, KeptParts
    <3>3. a \notin Stack(t) \cup Tls(t)
      <4> SUFFICES ASSUME a \in Stack(t) \cup Tls(t) PROVE FALSE
        OBVIOUS
      <4>1. /\ StackSlotsBase <= a /\ a \notin Extent(TlsBase, TlsPerThread)
            /\ \A i \in DOMAIN threads : a \notin Stack(threads[i]) \cup Tls(threads[i])
        BY <1>1, <2>1, <2>2, <3>1, FreshSlots
      <4>2. ~(a < StackSlotsBase)
        BY <3>2, <4>1, Regions
      <4> QED BY <3>2, <4>1, <4>2
    <3>4. ~ownStack => Rounded(StackSlot(t.stack), StackPerThread) = Stack(t)
      <4>1. ~ownStack => Rounded(StackSlot(t.stack), StackPerThread)
                         = Extent(StackSlot(t.stack), StackPerThread)
        BY <2>2, <3>1, StackSlotValid
      <4> QED BY <2>2, <4>1 DEF Stack
    <3> QED BY <2>1, <3>2, <3>3, <3>4
  <2>4. heapSize' = heapSize
    BY <1>4 DEF CreateThread
  <2> QED BY <2>3, <2>4
<1>5. ASSUME NEW size \in HeapSizes, Guest(SetHeapSize(size))
      PROVE  heapSize' \in 0..top /\ \A a \in Kept : mem'.data[a] = mem.data[a]
  <2>1. SetHeapSize(size)
    BY <1>5 DEF Guest
  <2>2. /\ heapSize' \in 0..top
        /\ \A a \in Addr : a \notin Rounded(HeapBase, top) => mem'.data[a] = mem.data[a]
    BY <1>1, <2>1, HeapEffect
  <2>3. ASSUME NEW a \in Kept PROVE a \in Addr /\ a \notin Rounded(HeapBase, top)
    <3>1. a \in Addr /\ a \in Nat /\ StackBase - StackMax <= a
      BY KeptParts
    <3>2. AlignUp(HeapBase + top, HostPage) \in Nat
      <4>1. HeapBase + top \in Nat
        BY Regions
      <4> QED BY <4>1, Regions, AlignUpBounds
    <3>3. ~(a < AlignUp(HeapBase + top, HostPage))
      BY <3>1, <3>2, Regions
    <3> QED BY <3>1, <3>3 DEF Rounded
  <2> QED BY <2>2, <2>3
<1>6. CASE Guest(GuestWrites)
  <2>1. mem' = Store(mem, Given, "data") /\ heapSize' = heapSize
    BY <1>6 DEF Guest, GuestWrites
  <2>2. mem' = [mem EXCEPT !.data = Fill(@, {a \in Given : mem.data[a] # "none"}, "data")]
    BY <2>1 DEF Store
  <2>3. \A a \in Addr : mem.data[a] = "data" => mem'.data[a] = "data"
    BY <1>1, <2>2, WriteEffect
  <2>4. \A a \in Kept : mem.data[a] = "data" => mem'.data[a] = "data"
    BY <2>3, KeptParts
  <2> QED BY <2>1, <2>4
<1>7. phase # "idle" => ~Run /\ (\A h \in NroImages : ~LoadNro(h)) /\ (\A n \in NsoImages : ~LoadNso(n))
  BY DEF Run, LoadNro, LoadNso, Loading
<1>8. ASSUME Guest(\E size \in HeapSizes : SetHeapSize(size))
      PROVE  \E size \in HeapSizes : Guest(SetHeapSize(size))
  BY <1>8 DEF Guest
<1>9. /\ (\E ownStack \in BOOLEAN : CreateThread(ownStack)) => heapSize' \in 0..top
      /\ (\E ownStack \in BOOLEAN : CreateThread(ownStack)) /\ SlotsLeft' =>
           \A a \in Kept : mem.data[a] = "data" => mem'.data[a] = "data"
  BY <1>4
<1>10. Guest(\E size \in HeapSizes : SetHeapSize(size)) =>
         /\ heapSize' \in 0..top
         /\ \A a \in Kept : mem.data[a] = "data" => mem'.data[a] = "data"
  BY <1>5, <1>8
<1> QED BY <1>2, <1>3, <1>6, <1>7, <1>9, <1>10 DEF SpaceNext

\* If the heaps that the guest asks for end below the main thread's stack,
\* nothing that it wrote to a stack, a TLS slot or the HID memory is lost to
\* new threads and a resized heap while there are slots.
THEOREM GuestKeepsMemory ==
    ASSUME HeapBelowStack
    PROVE  SpaceSpec => GuestMemoryKept
<1>0. PICK top \in 0..HeapMax : /\ AlignUp(HeapBase + top, HostPage) <= StackBase - StackMax
                               /\ \A size \in HeapSizes : AlignUp(size, PageSize) <= top
  BY DEF HeapBelowStack
<1> DEFINE Below == heapSize \in 0..top
<1>1. SpaceInit => Below
  BY Regions DEF SpaceInit
<1>2. SpaceInv /\ Below /\ [SpaceNext]_allVars =>
        /\ Below'
        /\ [phase = "running" /\ SlotsLeft' =>
              \A a \in Kept : mem.data[a] = "data" => mem'.data[a] = "data"]_allVars
  BY <1>0, KeptStep
<1> HIDE DEF Below
<1> QED BY <1>1, <1>2, SpaceInvariant, PTL DEF SpaceSpec, GuestMemoryKept

-----------------------------------------------------------------------------
(* The data segment.                                                       *)

\* Rounding a size to guest pages adds no host page to a range that begins at
\* a guest page.
LEMMA PageRounding ==
    ASSUME NEW b \in Nat, NEW s \in Nat, b % PageSize = 0
    PROVE  Rounded(b, AlignUp(s, PageSize)) = Rounded(b, s)
<1> DEFINE up == AlignUp(s, PageSize)
           T == AlignUp(b + s, HostPage)
           k == HostPage \div PageSize
           q == T \div HostPage
           p == b \div PageSize
<1>1. up \in Nat /\ s <= up /\ T \in Nat /\ b + s <= T /\ T % HostPage = 0
  BY Regions, AlignUpBounds, AlignUpMod
<1>2. HostPage = PageSize * k /\ k \in Nat
  BY Regions, MemoryAssumption
<1>3. b = PageSize * p /\ p \in Nat
  BY Regions
<1> HIDE DEF T
<1>4. T = HostPage * q /\ q \in Nat
  BY <1>1, Regions
<1> HIDE DEF up, k, q, p
<1>5. T - b = PageSize * (k * q - p)
  <2>1. T = PageSize * (k * q)
    BY <1>2, <1>4, Regions
  <2>2. k * q \in Nat
    BY <1>2, <1>4
  <2> QED BY <1>3, <2>1, <2>2, Regions
<1>6. up <= T - b
  <2> DEFINE d == k * q - p
  <2>1. T - b \in Nat /\ s <= T - b
    BY <1>1
  <2>2. d \in Int /\ PageSize * d = T - b
    BY <1>2, <1>3, <1>4, <1>5
  <2> HIDE DEF d
  <2>3. d \in Nat
    <3> SUFFICES ASSUME d < 0 PROVE FALSE
      BY <2>2
    <3>1. PageSize * d < 0
      BY <2>2, Regions
    <3> QED BY <2>1, <2>2, <3>1
  <2>4. AlignUp(T - b, PageSize) = T - b
    BY <2>2, <2>3, Regions, AlignUpMultiple
  <2>5. AlignUp(s, PageSize) <= AlignUp(T - b, PageSize)
    BY <2>1, Regions, AlignUpMonotonic
  <2> QED BY <2>4, <2>5 DEF up
<1>7. AlignUp(b + up, HostPage) = T
  <2>1. AlignUp(T, HostPage) = T
    BY <1>1, Regions, Multiples
  <2>2. b + up \in Nat /\ b + up <= T /\ b + s <= b + up /\ b + s \in Nat
    BY <1>1, <1>6
  <2>3. AlignUp(b + up, HostPage) <= T
    BY <1>1, <2>1, <2>2, Regions, AlignUpMonotonic
  <2>4. T <= AlignUp(b + up, HostPage) /\ AlignUp(b + up, HostPage) \in Nat
    BY <2>2, Regions, AlignUpMonotonic, AlignUpBounds DEF T
  <2> QED BY <1>1, <2>3, <2>4
<1>8. Rounded(b, up) = Rounded(b, s)
  BY <1>7 DEF Rounded, T
<1> QED BY <1>8 DEF up

\* A load that succeeds has mapped all it asked for.
LEMMA ThenSucceeds ==
    ASSUME NEW outcomes, \A o \in outcomes : IsMemory(o.m), NEW b, NEW s, NEW copied,
           NEW o \in Then(outcomes, b, s, copied), o.res = "Success"
    PROVE  Valid(b, s) /\ \E p \in outcomes : p.res = "Success"
<1> DEFINE After(p) == {[res |-> r.res,
                         m |-> IF r.res = "Success" THEN Store(r.m, copied, "data") ELSE r.m]
                        : r \in MapPhysical(p.m, b, s)}
<1>1. PICK p \in outcomes : o \in IF p.res # "Success" THEN {p} ELSE After(p)
  BY DEF Then
<1>2. p.res = "Success"
  BY <1>1
<1>3. PICK r \in MapPhysical(p.m, b, s) :
        o = [res |-> r.res, m |-> IF r.res = "Success" THEN Store(r.m, copied, "data") ELSE r.m]
  BY <1>1, <1>2
<1>4. r.res = "Success"
  BY <1>3
<1>5. Valid(b, s)
  BY <1>4, MapEffect
<1> QED BY <1>2, <1>5

LEMMA NsoValid ==
    ASSUME IsMemory(mem), NEW n \in NsoImages, NEW o \in NsoOutcomes(n), o.res = "Success",
           NEW s \in {n.text, n.rodata, n.data}, Present(s)
    PROVE  /\ CodeBase + s.memOff \in Nat /\ s.size \in Nat
           /\ NsoPages(s) = Rounded(CodeBase + s.memOff, s.size)
<1>1. \A x \in Start : IsMemory(x.m)
  BY DEF Start
<1>2. ASSUME NEW outcomes, \A x \in outcomes : IsMemory(x.m), NEW t, NEW y \in NsoSegment(outcomes, t)
      PROVE  /\ IsMemory(y.m)
             /\ y.res = "Success" =>
                  /\ Present(t) => Valid(CodeBase + t.memOff, AlignUp(t.size, PageSize))
                  /\ \E p \in outcomes : p.res = "Success"
  BY <1>2, ThenMemory, ThenSucceeds DEF NsoSegment
<1> DEFINE first == NsoSegment(Start, n.text)
           second == NsoSegment(first, n.rodata)
           loaded == NsoSegment(second, n.data)
           V(t) == Present(t) => Valid(CodeBase + t.memOff, AlignUp(t.size, PageSize))
<1>3. /\ \A y \in first : IsMemory(y.m)
      /\ (\E y \in first : y.res = "Success") => V(n.text)
  BY <1>1, <1>2
<1> HIDE DEF first
<1>4. /\ \A y \in second : IsMemory(y.m)
      /\ (\E y \in second : y.res = "Success") => V(n.rodata) /\ \E y \in first : y.res = "Success"
  BY <1>2, <1>3
<1> HIDE DEF second
<1>5. /\ \A y \in loaded : IsMemory(y.m)
      /\ (\E y \in loaded : y.res = "Success") => V(n.data) /\ \E y \in second : y.res = "Success"
  BY <1>2, <1>4
<1>6. NsoOutcomes(n) = IF n.bssSize = 0 THEN loaded
                       ELSE Then(loaded, NsoBss(n), AlignUp(n.bssSize, PageSize), {})
  BY DEF NsoOutcomes, first, second
<1> HIDE DEF loaded
<1>7. \E y \in loaded : y.res = "Success"
  BY <1>5, <1>6, ThenSucceeds
<1>8. V(s)
  BY <1>3, <1>4, <1>5, <1>7
<1>9. CodeBase + s.memOff \in Nat /\ s.size \in Nat
  BY HeadersAssumption, SpaceAssumption
<1>10. (CodeBase + s.memOff) % PageSize = 0
  BY <1>8 DEF Valid
<1>11. NsoPages(s) = Rounded(CodeBase + s.memOff, AlignUp(s.size, PageSize))
  BY DEF NsoPages
<1> QED BY <1>9, <1>10, <1>11, PageRounding

\* NroLoader protects pages that begin with the text and end before the data.
LEMMA NroSparesData ==
    ASSUME NEW h \in NroImages
    PROVE  DataAddr(h) \in Nat /\ Extent(DataAddr(h), h.dataSize) \cap NroProtected(h) = {}
<1> DEFINE textEnd == CodeBase + AlignUp(h.textSize, HostPage)
           roEnd == IF h.dataSize > 0 THEN (DataAddr(h) \div HostPage) * HostPage
                    ELSE CodeBase + h.rodataStart + AlignUp(h.rodataSize, HostPage)
           D == DataAddr(h)
           floor == (D \div HostPage) * HostPage
<1>1. /\ CodeBase \in Nat /\ CodeBase % HostPage = 0
      /\ {h.textSize, h.dataStart, h.dataSize} \subseteq Nat
  BY SpaceAssumption, HeadersAssumption
<1>2. D \in Nat
  <2>1. CodeBase + h.dataStart \in Nat /\ AlignUp(CodeBase, HostPage) + HostPage \in Nat
    <3>1. AlignUp(CodeBase, HostPage) \in Nat
      BY <1>1, Regions, AlignUpBounds
    <3>2. CodeBase \in Nat /\ h.dataStart \in Nat /\ HostPage \in Nat
      BY <1>1, Regions
    <3> QED BY <3>1, <3>2
  <2> QED BY <2>1 DEF DataAddr, DataOrig
<1> HIDE DEF D
<1>3. textEnd \in Nat /\ textEnd % HostPage = 0 /\ CodeBase <= textEnd
  <2> DEFINE up == AlignUp(h.textSize, HostPage)
  <2>1. up \in Nat /\ up % HostPage = 0 /\ 1 \in Nat
    BY <1>1, Regions, AlignUpBounds, AlignUpMod
  <2> HIDE DEF up
  <2>2. \A y, i \in Nat : y % HostPage = 0 => (CodeBase + i * y) % HostPage = 0
    BY <1>1, Regions, Multiples
  <2>3. (CodeBase + 1 * up) % HostPage = 0
    BY <2>1, <2>2, Zenon
  <2>4. 1 * up = up /\ CodeBase + up \in Nat /\ CodeBase <= CodeBase + up
    BY <1>1, <2>1
  <2> QED BY <2>3, <2>4 DEF up
<1>4. floor \in Nat /\ floor <= D /\ floor % HostPage = 0
  <2>1. (D \div HostPage) \in Nat /\ floor \in Nat /\ floor <= D
    BY <1>2, Regions, DivMonotonic
  <2>2. floor = HostPage * (D \div HostPage)
    BY <2>1, Regions
  <2> QED BY <2>1, <2>2, Regions, ModMultiple
<1> HIDE DEF floor
<1>5. ASSUME NEW a \in Extent(D, h.dataSize), a \in NroProtected(h) PROVE FALSE
  <2>1. a \in Nat /\ D <= a /\ a < D + h.dataSize
    BY Regions DEF Extent
  <2>2. h.dataSize > 0
    BY <1>1, <1>2, <2>1
  <2>3. roEnd = floor
    BY <2>2 DEF floor, D
  <2>4. NroProtected(h) = IF h.dataSize > 0 /\ D < textEnd THEN {}
                          ELSE Rounded(CodeBase, textEnd - CodeBase)
                               \cup IF h.rodataSize > 0 /\ textEnd < roEnd
                                    THEN Rounded(textEnd, roEnd - textEnd) ELSE {}
    BY DEF NroProtected, D
  <2> HIDE DEF textEnd, roEnd
  <2>5. textEnd <= D
    BY <1>2, <1>3, <1>5, <2>2, <2>4
  <2>6. ~(a < textEnd) /\ ~(a < floor)
    BY <1>2, <1>3, <1>4, <2>1, <2>5
  <2>7. CodeBase + (textEnd - CodeBase) = textEnd /\ textEnd + (roEnd - textEnd) = floor
    BY <1>1, <1>3, <1>4, <2>3
  <2>8. AlignUp(textEnd, HostPage) = textEnd /\ AlignUp(floor, HostPage) = floor
    BY <1>3, <1>4, Regions, Multiples
  <2>9. a \notin Rounded(CodeBase, textEnd - CodeBase) /\ a \notin Rounded(textEnd, roEnd - textEnd)
    BY <2>6, <2>7, <2>8 DEF Rounded
  <2> QED BY <1>5, <2>4, <2>9
<1> QED BY <1>2, <1>5 DEF D

SegmentsInv ==
    /\ loads \in Nat
    /\ \A s \in segments : s.addr \in Nat /\ s.size \in Nat /\ s.map \in Nat /\ s.map < 4 * loads

\* The pieces of a load are numbered after those of earlier ones.
LEMMA NewSegments ==
    ASSUME loads \in Nat
    PROVE  /\ \A h \in NroImages : \A s \in NroSegments(h) :
                /\ s.addr \in Nat /\ s.size \in Nat /\ s.map \in 4 * loads .. 4 * loads + 3
                /\ s.kind = "data" => s.addr = DataAddr(h) /\ s.size = h.dataSize
           /\ \A n \in NsoImages : \A s \in NsoSegments(n) :
                /\ s.addr \in Nat /\ s.size \in Nat /\ s.map \in 4 * loads .. 4 * loads + 3
                /\ s.kind = "data" => /\ Present(n.data) /\ s.size = n.data.size
                                      /\ s.addr = CodeBase + n.data.memOff
<1>1. CodeBase \in Nat
  BY SpaceAssumption
<1>2. ASSUME NEW h \in NroImages, NEW s \in NroSegments(h)
      PROVE  /\ s.addr \in Nat /\ s.size \in Nat /\ s.map \in 4 * loads .. 4 * loads + 3
             /\ s.kind = "data" => s.addr = DataAddr(h) /\ s.size = h.dataSize
  <2>1. /\ {h.textSize, h.rodataStart, h.rodataSize, h.dataSize} \subseteq Nat
        /\ DataAddr(h) \in Nat
    BY HeadersAssumption, NroSparesData
  <2>2. PICK piece \in {0, 1} :
          \/ s = Piece(CodeBase, h.textSize, h.textSize, "text", 0)
          \/ s = Piece(CodeBase + h.rodataStart, h.rodataSize, h.rodataSize, "rodata", 0)
          \/ s = Piece(DataAddr(h), h.dataSize, h.dataSize, "data", piece)
    BY <1>2 DEF NroSegments, Nonempty
  <2>3. CASE s = Piece(CodeBase, h.textSize, h.textSize, "text", 0)
    BY <1>1, <2>1, <2>3 DEF Piece
  <2>4. CASE s = Piece(CodeBase + h.rodataStart, h.rodataSize, h.rodataSize, "rodata", 0)
    BY <1>1, <2>1, <2>4 DEF Piece
  <2>5. CASE s = Piece(DataAddr(h), h.dataSize, h.dataSize, "data", piece)
    BY <2>1, <2>2, <2>5 DEF Piece
  <2> QED BY <2>2, <2>3, <2>4, <2>5
<1>3. ASSUME NEW n \in NsoImages, NEW s \in NsoSegments(n)
      PROVE  /\ s.addr \in Nat /\ s.size \in Nat /\ s.map \in 4 * loads .. 4 * loads + 3
             /\ s.kind = "data" => /\ Present(n.data) /\ s.size = n.data.size
                                   /\ s.addr = CodeBase + n.data.memOff
  <2> DEFINE At(t, k, i) == Piece(CodeBase + t.memOff, IF Present(t) THEN t.size ELSE 0, NsoWritten(t), k, i)
  <2>1. /\ {n.text.memOff, n.text.size, n.rodata.memOff, n.rodata.size} \subseteq Nat
        /\ {n.data.memOff, n.data.size, n.bssSize} \subseteq Nat
    BY HeadersAssumption
  <2>2. /\ s.size > 0
        /\ \/ s = At(n.text, "text", 0) \/ s = At(n.rodata, "rodata", 1)
           \/ s = At(n.data, "data", 2) \/ s = Piece(NsoBss(n), n.bssSize, 0, "bss", 3)
    BY <1>3 DEF NsoSegments, Nonempty
  <2>3. NsoBss(n) \in Nat
    <3> DEFINE ends == {x.memOff + x.size : x \in {n.text, n.rodata, n.data}}
    <3>1. \E e \in ends : \A f \in ends : f <= e
      <4> DEFINE a == n.text.memOff + n.text.size
                 b == n.rodata.memOff + n.rodata.size
                 c == n.data.memOff + n.data.size
      <4>1. ends = {a, b, c} /\ a \in Nat /\ b \in Nat /\ c \in Nat
        BY <2>1
      <4> HIDE DEF a, b, c, ends
      <4>2. CASE a >= b /\ a >= c
        BY <4>1, <4>2
      <4>3. CASE b >= a /\ b >= c
        BY <4>1, <4>3
      <4>4. CASE c >= a /\ c >= b
        BY <4>1, <4>4
      <4> QED BY <4>1, <4>2, <4>3, <4>4
    <3>2. \A e \in ends : e \in Nat
      BY <2>1
    <3>3. NsoEnd(n) = CHOOSE e \in ends : \A f \in ends : f <= e
      BY DEF NsoEnd
    <3> HIDE DEF ends
    <3>4. NsoEnd(n) \in ends
      BY <3>1, <3>3
    <3> QED BY <1>1, <3>2, <3>4 DEF NsoBss
  <2>4. CASE s = At(n.text, "text", 0)
    BY <1>1, <2>1, <2>4 DEF Piece
  <2>5. CASE s = At(n.rodata, "rodata", 1)
    BY <1>1, <2>1, <2>5 DEF Piece
  <2>6. CASE s = At(n.data, "data", 2)
    BY <1>1, <2>1, <2>2, <2>6 DEF Piece
  <2>7. CASE s = Piece(NsoBss(n), n.bssSize, 0, "bss", 3)
    BY <2>1, <2>3, <2>7 DEF Piece
  <2> QED BY <2>2, <2>4, <2>5, <2>6, <2>7
<1> QED BY <1>2, <1>3

LEMMA WritableStep ==
    ASSUME SpaceInv, SegmentsInv, DataWritable, [SpaceNext]_allVars
    PROVE  SegmentsInv' /\ DataWritable'
<1>1. loads \in Nat /\ IsMemory(mem)
  BY DEF SegmentsInv, SpaceInv
<1>2. ASSUME NEW N, \A s \in N : s.addr \in Nat /\ s.size \in Nat /\ s.map \in 4 * loads .. 4 * loads + 3,
             segments' \subseteq segments \cup N, loads' = loads + 1
      PROVE  SegmentsInv'
  <2>1. ASSUME NEW s \in segments'
        PROVE  s.addr \in Nat /\ s.size \in Nat /\ s.map \in Nat /\ s.map < 4 * (loads + 1)
    <3>1. CASE s \in segments
      BY <1>1, <3>1 DEF SegmentsInv
    <3>2. CASE s \in N
      BY <1>1, <1>2, <3>2
    <3> QED BY <1>2, <2>1, <3>1, <3>2
  <2> QED BY <1>1, <1>2, <2>1 DEF SegmentsInv
<1>3. CASE UNCHANGED <<segments, readonly, loads>>
  BY <1>3 DEF SegmentsInv, DataWritable, Apart, Pages
<1>4. ASSUME NEW h \in NroImages, LoadNro(h) PROVE SegmentsInv' /\ DataWritable'
  <2>1. /\ loads' = loads + 1
        /\ \/ segments' = NroSegments(h) /\ readonly' = NroProtected(h)
           \/ segments' = {}
    BY <1>4 DEF LoadNro, Loading
  <2>2. \A s \in NroSegments(h) :
          /\ s.addr \in Nat /\ s.size \in Nat /\ s.map \in 4 * loads .. 4 * loads + 3
          /\ s.kind = "data" => s.addr = DataAddr(h) /\ s.size = h.dataSize
    BY <1>1, NewSegments
  <2>3. SegmentsInv'
    BY <1>2, <2>1, <2>2
  <2>4. DataWritable'
    BY <2>1, <2>2, NroSparesData DEF DataWritable
  <2> QED BY <2>3, <2>4
<1>5. ASSUME NEW n \in NsoImages, LoadNso(n) PROVE SegmentsInv' /\ DataWritable'
  <2>1. loads' = loads + 1
    BY <1>5 DEF LoadNso, Loading
  <2>2. PICK o \in NsoOutcomes(n) :
          \/ /\ o.res = "Success" /\ segments' = segments \cup NsoSegments(n)
             /\ readonly' = (readonly \ UNION {NsoPages(n.text), NsoPages(n.rodata), NsoPages(n.data)})
                              \cup NsoProtected(n)
          \/ segments' = {}
    BY <1>5 DEF LoadNso
  <2>3. \A s \in NsoSegments(n) :
          /\ s.addr \in Nat /\ s.size \in Nat /\ s.map \in 4 * loads .. 4 * loads + 3
          /\ s.kind = "data" => /\ Present(n.data) /\ s.size = n.data.size
                                /\ s.addr = CodeBase + n.data.memOff
    BY <1>1, NewSegments
  <2>4. SegmentsInv'
    BY <1>2, <2>1, <2>2, <2>3
  <2>5. CASE segments' = {}
    BY <2>4, <2>5 DEF DataWritable
  <2>6. CASE /\ o.res = "Success" /\ segments' = segments \cup NsoSegments(n)
             /\ readonly' = (readonly \ UNION {NsoPages(n.text), NsoPages(n.rodata), NsoPages(n.data)})
                              \cup NsoProtected(n)
    <3>1. ASSUME NEW t \in {n.text, n.rodata, n.data}, Present(t)
          PROVE  /\ CodeBase + t.memOff \in Nat /\ t.size \in Nat
                 /\ NsoPages(t) = Rounded(CodeBase + t.memOff, t.size)
      BY <1>1, <2>6, <3>1, NsoValid
    <3>2. ASSUME Apart', NEW s \in segments', s.kind = "data", NEW a \in Extent(s.addr, s.size),
                 a \in readonly'
          PROVE  FALSE
      <4>1. CASE s \in NsoSegments(n)
        <5>1. Present(n.data) /\ s.size = n.data.size /\ s.addr = CodeBase + n.data.memOff
          BY <2>3, <3>2, <4>1
        <5>2. a \in NsoPages(n.data)
          BY <3>1, <3>2, <5>1, RoundedBounds
        <5> QED BY <2>6, <3>2, <5>2 DEF NsoProtected
      <4>2. CASE s \in segments
        <5>1. Apart
          BY <2>6, <3>2 DEF Apart, Pages
        <5>2. a \notin readonly
          BY <3>2, <4>2, <5>1 DEF DataWritable
        <5>3. a \in NsoPages(n.text) \cup NsoPages(n.rodata)
          BY <2>6, <3>2, <5>2 DEF NsoProtected
        <5>4. PICK t \in {n.text, n.rodata} : a \in NsoPages(t)
          BY <5>3
        <5>5. Present(t)
          BY <5>4 DEF NsoPages
        <5>6. PICK p \in NsoSegments(n) : p.addr = CodeBase + t.memOff /\ p.size = t.size
          <6> DEFINE At(x, k, i) == Piece(CodeBase + x.memOff, IF Present(x) THEN x.size ELSE 0, NsoWritten(x), k, i)
          <6>1. /\ At(n.text, "text", 0).size > 0 => At(n.text, "text", 0) \in NsoSegments(n)
                /\ At(n.rodata, "rodata", 1).size > 0 => At(n.rodata, "rodata", 1) \in NsoSegments(n)
            BY DEF NsoSegments, Nonempty
          <6>2. \A k, i : /\ At(t, k, i).addr = CodeBase + t.memOff /\ At(t, k, i).size = t.size
            BY <5>5 DEF Piece
          <6>3. t.size > 0
            BY <5>5 DEF Present
          <6> HIDE DEF At
          <6>4. CASE t = n.text
            BY <6>1, <6>2, <6>3, <6>4
          <6>5. CASE t = n.rodata
            BY <6>1, <6>2, <6>3, <6>5
          <6> QED BY <6>4, <6>5
        <5>7. p.map # s.map
          <6>1. p.map \in 4 * loads .. 4 * loads + 3 /\ s.map \in Nat /\ s.map < 4 * loads
            BY <2>3, <4>2 DEF SegmentsInv
          <6> QED BY <1>1, <6>1
        <5>8. Pages(p) \cap Pages(s) = {}
          BY <2>6, <3>2, <5>7 DEF Apart, Pages
        <5>9. a \in Pages(p)
          BY <3>1, <5>4, <5>5, <5>6 DEF Pages
        <5>10. a \in Pages(s)
          <6>1. s.addr \in Nat /\ s.size \in Nat
            BY <4>2 DEF SegmentsInv
          <6> QED BY <3>2, <6>1, RoundedBounds DEF Pages
        <5> QED BY <5>8, <5>9, <5>10
      <4> QED BY <2>6, <3>2, <4>1, <4>2
    <3> QED BY <2>4, <3>2 DEF DataWritable
  <2> QED BY <2>2, <2>5, <2>6
<1>6. (UNCHANGED allVars) \/ Run \/ (\E ownStack \in BOOLEAN : CreateThread(ownStack))
        \/ Guest(\E size \in HeapSizes : SetHeapSize(size)) \/ Guest(GuestWrites)
      => UNCHANGED <<segments, readonly, loads>>
  BY DEF allVars, spaceVars, Run, CreateThread, Guest
<1> QED BY <1>3, <1>4, <1>5, <1>6 DEF SpaceNext

\* For every NRO and NSO layout, after any number of loads: no page that
\* Protect made read-only holds a byte of a data segment, unless segments
\* that are mapped one by one share a host page.
THEOREM DataStaysWritable == SpaceSpec => []DataWritable
<1>1. SpaceInit => SegmentsInv /\ DataWritable
  BY DEF SpaceInit, SegmentsInv, DataWritable
<1>2. SpaceInv /\ SegmentsInv /\ DataWritable /\ [SpaceNext]_allVars => SegmentsInv' /\ DataWritable'
  BY WritableStep
<1> QED BY <1>1, <1>2, SpaceInvariant, PTL DEF SpaceSpec

-----------------------------------------------------------------------------
(* References into the moved data segment.                                 *)

LEMMA NroRefsFollow ==
    ASSUME NEW h \in NroImages, Linked(h), NEW q \in NroRefs(h),
           q.kind \in {"adrp", "mod0"} \/ (q.kind = "relr" /\ q.at < RelrLimit)
    PROVE  \E s \in NroSegments(h) :
             /\ s.kind = q.seg \/ (q.seg = "bss" /\ s.kind = "data")
             /\ CodeBase + q.to = s.addr + q.off + IF q.seg = "bss" THEN s.size ELSE 0
<1> DEFINE D == DataAddr(h)
           Moves(r) == \/ r.kind \in {"dynamic", "mod0"}
                       \/ r.kind = "adrp" /\ AdrpMoves(h, r)
                       \/ r.kind = "relr" /\ RelrMoves(h, r)
<1>1. /\ CodeBase \in Nat /\ RelrSlack \in Nat
      /\ {h.textSize, h.rodataStart, h.rodataSize, h.dataStart, h.dataSize, h.bssSize} \subseteq Nat
  BY SpaceAssumption, HeadersAssumption
<1>2. D \in Nat
  BY NroSparesData
<1>3. Shift(h) = D - (CodeBase + h.dataStart)
  BY DEF Shift, DataOrig
<1> HIDE DEF D
<1>4. PICK r \in h.refs : q = [r EXCEPT !.to = IF Moves(r) THEN r.to + Shift(h) ELSE r.to]
  BY DEF NroRefs
<1>5. r = [kind |-> r.kind, seg |-> r.seg, to |-> r.to, off |-> r.off, at |-> r.at]
      /\ r.to \in Nat /\ r.off \in Nat
  BY DEF Linked
<1>6. /\ q.kind = r.kind /\ q.seg = r.seg /\ q.off = r.off /\ q.at = r.at
      /\ q.to = IF Moves(r) THEN r.to + Shift(h) ELSE r.to
  BY <1>4, <1>5
<1>7. \/ /\ r.seg = "text" /\ r.kind # "mod0" /\ h.textSize > 0
         /\ r.to = r.off /\ r.to < h.dataStart
      \/ /\ r.seg = "rodata" /\ r.kind # "mod0" /\ h.rodataSize > 0
         /\ r.to = h.rodataStart + r.off /\ r.to < h.dataStart
      \/ /\ r.seg = "data" /\ r.to = h.dataStart + r.off /\ r.off < h.dataSize
      \/ /\ r.seg = "bss" /\ h.dataSize > 0 /\ r.to = h.dataStart + h.dataSize + r.off
         /\ r.kind = "adrp" => r.off < h.bssSize + HostPage
         /\ r.kind = "relr" => r.off < RelrSlack
  BY <1>6 DEF Linked
<1>8. \E i \in {0, 1} :
        /\ h.textSize > 0 => Piece(CodeBase, h.textSize, h.textSize, "text", 0) \in NroSegments(h)
        /\ h.rodataSize > 0 =>
             Piece(CodeBase + h.rodataStart, h.rodataSize, h.rodataSize, "rodata", 0) \in NroSegments(h)
        /\ h.dataSize > 0 => Piece(D, h.dataSize, h.dataSize, "data", i) \in NroSegments(h)
  BY DEF NroSegments, Nonempty, Piece, D
<1>9. ASSUME r.to < h.dataStart, r.kind # "mod0" PROVE q.to = r.to
  <2>1. ~Between(r.to, h.dataStart, h.dataStart + h.dataSize + h.bssSize + HostPage)
        /\ ~Between(r.to, h.dataStart, h.dataStart + h.dataSize + RelrSlack)
    BY <1>1, <1>5, <1>9 DEF Between
  <2> QED BY <1>6, <1>9, <2>1 DEF AdrpMoves, RelrMoves
<1>10. ASSUME h.dataStart <= r.to,
              r.kind = "adrp" => r.to < h.dataStart + h.dataSize + h.bssSize + HostPage,
              r.kind = "relr" => r.to < h.dataStart + h.dataSize + RelrSlack
       PROVE  CodeBase + q.to = D + (r.to - h.dataStart)
  <2>1. Moves(r)
    BY <1>6, <1>10 DEF AdrpMoves, RelrMoves, Between
  <2>2. q.to = r.to + Shift(h)
    BY <1>6, <2>1
  <2>3. CodeBase \in Nat /\ h.dataStart \in Nat
    BY <1>1
  <2> QED BY <1>2, <1>3, <1>5, <2>2, <2>3
<1>11. CASE r.seg = "text"
  <2>1. r.to = r.off /\ q.to = r.to /\ h.textSize > 0
    BY <1>7, <1>9, <1>11
  <2>2. CodeBase + r.off = CodeBase + r.off + 0
    BY <1>1, <1>5
  <2>3. PICK s \in NroSegments(h) : s = Piece(CodeBase, h.textSize, h.textSize, "text", 0)
    BY <1>8, <2>1
  <2>4. s.kind = "text" /\ s.addr = CodeBase
    BY <2>3 DEF Piece
  <2> QED BY <1>6, <1>11, <2>1, <2>2, <2>4
<1>12. CASE r.seg = "rodata"
  <2>1. r.to = h.rodataStart + r.off /\ q.to = r.to /\ h.rodataSize > 0
    BY <1>7, <1>9, <1>12
  <2>2. CodeBase + (h.rodataStart + r.off) = (CodeBase + h.rodataStart) + r.off + 0
    BY <1>1, <1>5
  <2>3. PICK s \in NroSegments(h) :
          s = Piece(CodeBase + h.rodataStart, h.rodataSize, h.rodataSize, "rodata", 0)
    BY <1>8, <2>1
  <2>4. s.kind = "rodata" /\ s.addr = CodeBase + h.rodataStart
    BY <2>3 DEF Piece
  <2> QED BY <1>6, <1>12, <2>1, <2>2, <2>4
<1>13. CASE r.seg \in {"data", "bss"}
  <2>1. h.dataSize > 0 /\ r.to = h.dataStart + (IF r.seg = "bss" THEN h.dataSize ELSE 0) + r.off
    BY <1>1, <1>5, <1>7, <1>13
  <2>2. PICK i \in {0, 1} : Piece(D, h.dataSize, h.dataSize, "data", i) \in NroSegments(h)
    BY <1>8, <2>1
  <2>3. PICK s \in NroSegments(h) : s = Piece(D, h.dataSize, h.dataSize, "data", i)
    BY <2>2
  <2>4. s.kind = "data" /\ s.addr = D /\ s.size = h.dataSize
    BY <2>3 DEF Piece
  <2>5. /\ h.dataStart <= r.to
        /\ r.kind = "adrp" => r.to < h.dataStart + h.dataSize + h.bssSize + HostPage
        /\ r.kind = "relr" => r.to < h.dataStart + h.dataSize + RelrSlack
    <3>1. h.dataStart \in Nat /\ h.dataSize \in Nat /\ h.bssSize \in Nat /\ HostPage \in Nat \ {0}
      BY <1>1, Regions
    <3>2. CASE r.seg = "data"
      <4>1. r.to = h.dataStart + r.off /\ r.off < h.dataSize
        BY <1>7, <3>2
      <4> QED BY <1>1, <1>5, <3>1, <4>1
    <3>3. CASE r.seg = "bss"
      <4>1. /\ r.to = h.dataStart + h.dataSize + r.off
            /\ r.kind = "adrp" => r.off < h.bssSize + HostPage
            /\ r.kind = "relr" => r.off < RelrSlack
        BY <1>7, <3>3
      <4> QED BY <1>1, <1>5, <3>1, <4>1
    <3> QED BY <1>13, <3>2, <3>3
  <2>6. CodeBase + q.to = D + (r.to - h.dataStart)
    BY <1>10, <2>5
  <2>7. CodeBase + q.to = D + r.off + IF r.seg = "bss" THEN h.dataSize ELSE 0
    <3>1. h.dataStart \in Nat /\ h.dataSize \in Nat
      BY <1>1
    <3> QED BY <1>2, <1>5, <2>1, <2>6, <3>1
  <2> QED BY <1>6, <1>13, <2>4, <2>7
<1> QED BY <1>7, <1>11, <1>12, <1>13

\* For every linked NRO: after the loader has moved the data segment, every
\* ADRP, MOD0 field and RELR page within the patched part of the table addresses
\* the byte that it addressed in the file, and text and rodata references are left alone.
THEOREM ReferencesMove ==
    ASSUME \A h \in NroImages : Linked(h)
    PROVE  SpaceSpec => []ReferencesFollow
<1>1. SpaceInit => ReferencesFollow
  BY DEF SpaceInit, ReferencesFollow
<1>2. ASSUME ReferencesFollow, [SpaceNext]_allVars PROVE ReferencesFollow'
  <2>1. CASE UNCHANGED <<refs, segments>>
    BY <1>2, <2>1 DEF ReferencesFollow
  <2>2. CASE refs' = {}
    BY <2>2 DEF ReferencesFollow
  <2>3. ASSUME NEW h \in NroImages, LoadNro(h) PROVE ReferencesFollow'
    <3>1. \/ segments' = NroSegments(h) /\ refs' = NroRefs(h)
          \/ refs' = {}
      BY <2>3 DEF LoadNro
    <3>2. CASE segments' = NroSegments(h) /\ refs' = NroRefs(h)
      BY <3>2, NroRefsFollow DEF ReferencesFollow
    <3> QED BY <2>2, <3>1, <3>2
  <2>4. ASSUME NEW n \in NsoImages, LoadNso(n) PROVE refs' = {}
    BY <2>4 DEF LoadNso
  <2>5. (UNCHANGED allVars) \/ Run \/ (\E ownStack \in BOOLEAN : CreateThread(ownStack))
          \/ Guest(\E size \in HeapSizes : SetHeapSize(size)) \/ Guest(GuestWrites)
        => UNCHANGED <<refs, segments>>
    BY DEF allVars, spaceVars, Run, CreateThread, Guest
  <2> QED BY <1>2, <2>1, <2>2, <2>3, <2>4, <2>5 DEF SpaceNext
<1>3. ReferencesFollow /\ [SpaceNext]_allVars => ReferencesFollow'
  BY <1>2
<1> QED BY <1>1, <1>3, PTL DEF SpaceSpec

-----------------------------------------------------------------------------
(* The image.                                                              *)

\* A store leaves data where there was data and where it writes to memory.
LEMMA StoreWrites ==
    ASSUME NEW m, IsMemory(m), NEW A
    PROVE  \A a \in Addr : (a \in A /\ m.data[a] # "none") \/ m.data[a] = "data" =>
             Store(m, A, "data").data[a] = "data"
<1> DEFINE u == Store(m, A, "data")
           B == {a \in A : m.data[a] # "none"}
<1>1. m.data \in [Addr -> Contents] /\ m = [data |-> m.data, pages |-> m.pages]
  BY DEF IsMemory
<1>2. u = [m EXCEPT !.data = Fill(@, B, "data")]
  BY DEF Store
<1> HIDE DEF u
<1>3. u.data = Fill(m.data, B, "data")
  BY <1>1, <1>2
<1>4. \A a \in Addr : u.data[a] = IF a \in B THEN "data" ELSE m.data[a]
  BY <1>1, <1>3, FillEffect DEF Contents
<1> QED BY <1>4 DEF u

\* A step of a load that succeeds: what it copies into its own pages is there
\* afterwards, and so is what was in other pages.
LEMMA ThenContents ==
    ASSUME NEW outcomes, \A o \in outcomes : IsMemory(o.m), NEW b, NEW s, NEW copied,
           NEW o \in Then(outcomes, b, s, copied), o.res = "Success"
    PROVE  \E p \in outcomes :
             /\ p.res = "Success"
             /\ \A a \in Addr :
                  /\ a \in Rounded(b, s) /\ a \in copied => o.m.data[a] = "data"
                  /\ a \notin Rounded(b, s) /\ p.m.data[a] = "data" => o.m.data[a] = "data"
<1> DEFINE After(p) == {[res |-> r.res,
                         m |-> IF r.res = "Success" THEN Store(r.m, copied, "data") ELSE r.m]
                        : r \in MapPhysical(p.m, b, s)}
<1>1. PICK p \in outcomes : o \in IF p.res # "Success" THEN {p} ELSE After(p)
  BY DEF Then
<1>2. p.res = "Success"
  BY <1>1
<1>3. PICK r \in MapPhysical(p.m, b, s) :
        o = [res |-> r.res, m |-> IF r.res = "Success" THEN Store(r.m, copied, "data") ELSE r.m]
  BY <1>1, <1>2
<1>4. r.res = "Success" /\ o.m = Store(r.m, copied, "data")
  BY <1>3
<1>5. /\ IsMemory(r.m)
      /\ \A a \in Addr : a \notin Rounded(b, s) => r.m.data[a] = p.m.data[a]
      /\ \A a \in Addr : a \in Rounded(b, s) => r.m.data[a] = "zero"
  <2>1. IsMemory(p.m)
    OBVIOUS
  <2> QED BY <1>4, <2>1, MapEffect
<1>6. \A a \in Addr : (a \in copied /\ r.m.data[a] # "none") \/ r.m.data[a] = "data" =>
        Store(r.m, copied, "data").data[a] = "data"
  BY <1>5, StoreWrites
<1>7. \A a \in Addr :
        /\ a \in Rounded(b, s) /\ a \in copied => o.m.data[a] = "data"
        /\ a \notin Rounded(b, s) /\ p.m.data[a] = "data" => o.m.data[a] = "data"
  BY <1>4, <1>5, <1>6
<1> QED BY <1>2, <1>7

\* The host pages of the bss of an NSO.
BssPages(n) ==
    IF n.bssSize = 0 THEN {} ELSE Rounded(NsoBss(n), AlignUp(n.bssSize, PageSize))

\* NsoLoader: a segment holds what was copied if the segments after it and the
\* bss have other pages, and memory in none of their pages keeps its contents.
LEMMA NsoContents ==
    ASSUME IsMemory(mem), NEW n \in NsoImages, NEW o \in NsoOutcomes(n), o.res = "Success",
           NEW a \in Addr, a \notin BssPages(n)
    PROVE  LET Copied(t) == Present(t) /\ a \in NsoPages(t)
                            /\ a \in Extent(CodeBase + t.memOff, NsoWritten(t))
           IN \/ Copied(n.data)
              \/ a \notin NsoPages(n.data) /\ Copied(n.rodata)
              \/ a \notin NsoPages(n.data) \cup NsoPages(n.rodata) /\ Copied(n.text)
              \/ /\ a \notin NsoPages(n.data) \cup NsoPages(n.rodata) \cup NsoPages(n.text)
                 /\ mem.data[a] = "data"
              => o.m.data[a] = "data"
<1> DEFINE Copied(t) == Present(t) /\ a \in NsoPages(t)
                        /\ a \in Extent(CodeBase + t.memOff, NsoWritten(t))
           first == NsoSegment(Start, n.text)
           second == NsoSegment(first, n.rodata)
           loaded == NsoSegment(second, n.data)
<1>1. ASSUME NEW outcomes, \A x \in outcomes : IsMemory(x.m), NEW t
      PROVE  /\ \A y \in NsoSegment(outcomes, t) : IsMemory(y.m)
             /\ \A y \in NsoSegment(outcomes, t) : y.res = "Success" =>
                  \E p \in outcomes :
                    /\ p.res = "Success"
                    /\ Copied(t) => y.m.data[a] = "data"
                    /\ a \notin NsoPages(t) /\ p.m.data[a] = "data" => y.m.data[a] = "data"
  <2>1. CASE ~Present(t)
    BY <1>1, <2>1 DEF NsoSegment
  <2>2. CASE Present(t)
    <3> DEFINE b == CodeBase + t.memOff
               up == AlignUp(t.size, PageSize)
               copied == Extent(CodeBase + t.memOff, NsoWritten(t))
    <3>1. NsoSegment(outcomes, t) = Then(outcomes, b, up, copied) /\ NsoPages(t) = Rounded(b, up)
      BY <2>2 DEF NsoSegment, NsoPages
    <3>2. Copied(t) => a \in copied /\ a \in NsoPages(t)
      OBVIOUS
    <3> HIDE DEF b, up, copied, Copied
    <3>3. \A y \in Then(outcomes, b, up, copied) : IsMemory(y.m)
      BY <1>1, ThenMemory
    <3>4. ASSUME NEW y \in Then(outcomes, b, up, copied), y.res = "Success"
          PROVE  \E p \in outcomes :
                    /\ p.res = "Success"
                    /\ a \in Rounded(b, up) /\ a \in copied => y.m.data[a] = "data"
                    /\ a \notin Rounded(b, up) /\ p.m.data[a] = "data" => y.m.data[a] = "data"
      BY <1>1, <3>4, ThenContents
    <3> QED BY <3>1, <3>2, <3>3, <3>4
  <2> QED BY <2>1, <2>2
<1> HIDE DEF Copied
<1>2. /\ \A y \in first : IsMemory(y.m)
      /\ \A y \in first : y.res = "Success" =>
           /\ Copied(n.text) => y.m.data[a] = "data"
           /\ a \notin NsoPages(n.text) /\ mem.data[a] = "data" => y.m.data[a] = "data"
  <2>1. \A x \in Start : IsMemory(x.m) /\ x.m = mem
    BY DEF Start
  <2> QED BY <1>1, <2>1
<1> HIDE DEF first
<1>3. /\ \A y \in second : IsMemory(y.m)
      /\ \A y \in second : y.res = "Success" =>
           \E p \in first :
             /\ p.res = "Success"
             /\ Copied(n.rodata) => y.m.data[a] = "data"
             /\ a \notin NsoPages(n.rodata) /\ p.m.data[a] = "data" => y.m.data[a] = "data"
  BY <1>1, <1>2
<1> HIDE DEF second
<1>4. /\ \A y \in loaded : IsMemory(y.m)
      /\ \A y \in loaded : y.res = "Success" =>
           \E p \in second :
             /\ p.res = "Success"
             /\ Copied(n.data) => y.m.data[a] = "data"
             /\ a \notin NsoPages(n.data) /\ p.m.data[a] = "data" => y.m.data[a] = "data"
  BY <1>1, <1>3
<1>5. NsoOutcomes(n) = IF n.bssSize = 0 THEN loaded
                       ELSE Then(loaded, NsoBss(n), AlignUp(n.bssSize, PageSize), {})
  BY DEF NsoOutcomes, first, second
<1> HIDE DEF loaded
<1>6. \E p \in loaded : p.res = "Success" /\ (p.m.data[a] = "data" => o.m.data[a] = "data")
  <2>1. CASE n.bssSize = 0
    BY <1>5, <2>1
  <2>2. CASE n.bssSize # 0
    <3>1. o \in Then(loaded, NsoBss(n), AlignUp(n.bssSize, PageSize), {})
      BY <1>5, <2>2
    <3>2. \E p \in loaded :
            /\ p.res = "Success"
            /\ \A c \in Addr : c \notin Rounded(NsoBss(n), AlignUp(n.bssSize, PageSize))
                               /\ p.m.data[c] = "data" => o.m.data[c] = "data"
      BY <1>4, <3>1, ThenContents
    <3> QED BY <2>2, <3>2 DEF BssPages
  <2> QED BY <2>1, <2>2
<1>7. PICK p \in loaded : p.res = "Success" /\ (p.m.data[a] = "data" => o.m.data[a] = "data")
  BY <1>6
<1>8. PICK q \in second :
        /\ q.res = "Success"
        /\ Copied(n.data) => p.m.data[a] = "data"
        /\ a \notin NsoPages(n.data) /\ q.m.data[a] = "data" => p.m.data[a] = "data"
  BY <1>4, <1>7
<1>9. PICK r \in first :
        /\ r.res = "Success"
        /\ Copied(n.rodata) => q.m.data[a] = "data"
        /\ a \notin NsoPages(n.rodata) /\ r.m.data[a] = "data" => q.m.data[a] = "data"
  BY <1>3, <1>8
<1>10. /\ Copied(n.text) => r.m.data[a] = "data"
       /\ a \notin NsoPages(n.text) /\ mem.data[a] = "data" => r.m.data[a] = "data"
  BY <1>2, <1>9
<1> QED BY <1>7, <1>8, <1>9, <1>10 DEF Copied

LEMMA NsoBssPages ==
    ASSUME IsMemory(mem), loads \in Nat, NEW n \in NsoImages, NEW o \in NsoOutcomes(n),
           o.res = "Success", n.bssSize # 0
    PROVE  BssPages(n) = Rounded(NsoBss(n), n.bssSize)
<1> DEFINE first == NsoSegment(Start, n.text)
           second == NsoSegment(first, n.rodata)
           loaded == NsoSegment(second, n.data)
<1>1. \A outcomes, t : (\A x \in outcomes : IsMemory(x.m)) =>
        \A y \in NsoSegment(outcomes, t) : IsMemory(y.m)
  BY ThenMemory DEF NsoSegment
<1>2. \A y \in first : IsMemory(y.m)
  BY <1>1 DEF Start
<1> HIDE DEF first
<1>3. \A y \in second : IsMemory(y.m)
  BY <1>1, <1>2
<1> HIDE DEF second
<1>4. \A y \in loaded : IsMemory(y.m)
  BY <1>1, <1>3
<1>5. o \in Then(loaded, NsoBss(n), AlignUp(n.bssSize, PageSize), {})
  BY DEF NsoOutcomes, first, second
<1> HIDE DEF loaded
<1>6. NsoBss(n) % PageSize = 0
  BY <1>4, <1>5, ThenSucceeds DEF Valid
<1>7. NsoBss(n) \in Nat /\ n.bssSize \in Nat
  <2> DEFINE p == Piece(NsoBss(n), n.bssSize, 0, "bss", 3)
  <2>1. n.bssSize \in Nat /\ n.bssSize > 0
    BY HeadersAssumption
  <2>2. p.addr = NsoBss(n) /\ p.size = n.bssSize
    BY DEF Piece
  <2>3. p \in NsoSegments(n)
    BY <2>1, <2>2 DEF NsoSegments, Nonempty
  <2> HIDE DEF p
  <2> QED BY <2>1, <2>2, <2>3, NewSegments
<1> QED BY <1>6, <1>7, PageRounding DEF BssPages

\* How much of each segment was copied, and that it lies below the heap.
ImageInv ==
    \A s \in segments : /\ s.filled \in Nat /\ s.filled <= s.size
                        /\ \A a \in Filled(s) : a < HeapBase

\* The pieces of an NSO: what is recorded of them, and the pages they take.
LEMMA NsoPieces ==
    ASSUME IsMemory(mem), loads \in Nat, NEW n \in NsoImages, NEW o \in NsoOutcomes(n),
           o.res = "Success", NEW s \in NsoSegments(n)
    PROVE  \/ \E c \in {<<n.text, 0>>, <<n.rodata, 1>>, <<n.data, 2>>} :
                /\ Present(c[1]) /\ s.addr = CodeBase + c[1].memOff /\ s.size = c[1].size
                /\ s.filled = NsoWritten(c[1]) /\ s.map = 4 * loads + c[2]
                /\ Pages(s) = NsoPages(c[1])
                /\ s.filled \in Nat /\ s.filled <= s.size
           \/ n.bssSize # 0 /\ s.filled = 0 /\ s.map = 4 * loads + 3 /\ Pages(s) = BssPages(n)
<1> DEFINE At(t, k, i) == Piece(CodeBase + t.memOff, IF Present(t) THEN t.size ELSE 0, NsoWritten(t), k, i)
<1>1. /\ s.size > 0
      /\ \/ s = At(n.text, "text", 0) \/ s = At(n.rodata, "rodata", 1)
         \/ s = At(n.data, "data", 2) \/ s = Piece(NsoBss(n), n.bssSize, 0, "bss", 3)
  BY DEF NsoSegments, Nonempty
<1>2. ASSUME NEW t \in {n.text, n.rodata, n.data}, NEW k, NEW i, s = At(t, k, i)
      PROVE  /\ Present(t) /\ s.addr = CodeBase + t.memOff /\ s.size = t.size
             /\ s.filled = NsoWritten(t) /\ s.map = 4 * loads + i
             /\ Pages(s) = NsoPages(t)
             /\ s.filled \in Nat /\ s.filled <= s.size
  <2>1. /\ s.addr = CodeBase + t.memOff /\ s.size = IF Present(t) THEN t.size ELSE 0
        /\ s.filled = NsoWritten(t) /\ s.map = 4 * loads + i
    BY <1>2 DEF Piece
  <2>2. Present(t)
    BY <1>1, <2>1
  <2>3. Pages(s) = NsoPages(t)
    BY <2>1, <2>2, NsoValid DEF Pages
  <2>4. t.size \in Nat /\ t.comp \in Nat
    BY HeadersAssumption
  <2>5. NsoWritten(t) \in Nat /\ NsoWritten(t) <= t.size
    BY <2>4 DEF NsoWritten
  <2> QED BY <2>1, <2>2, <2>3, <2>5
<1>3. ASSUME s = Piece(NsoBss(n), n.bssSize, 0, "bss", 3)
      PROVE  n.bssSize # 0 /\ s.filled = 0 /\ s.map = 4 * loads + 3 /\ Pages(s) = BssPages(n)
  <2>1. s.addr = NsoBss(n) /\ s.size = n.bssSize /\ s.filled = 0 /\ s.map = 4 * loads + 3
    BY <1>3 DEF Piece
  <2>2. n.bssSize # 0
    BY <1>1, <2>1
  <2> QED BY <2>1, <2>2, NsoBssPages DEF Pages
<1> HIDE DEF At
<1>4. CASE s = At(n.text, "text", 0)
  <2> DEFINE c == <<n.text, 0>>
  <2>1. c[1] = n.text /\ c[2] = 0
    OBVIOUS
  <2> QED BY <1>2, <1>4, <2>1
<1>5. CASE s = At(n.rodata, "rodata", 1)
  <2> DEFINE c == <<n.rodata, 1>>
  <2>1. c[1] = n.rodata /\ c[2] = 1
    OBVIOUS
  <2> QED BY <1>2, <1>5, <2>1
<1>6. CASE s = At(n.data, "data", 2)
  <2> DEFINE c == <<n.data, 2>>
  <2>1. c[1] = n.data /\ c[2] = 2
    OBVIOUS
  <2> QED BY <1>2, <1>6, <2>1
<1> QED BY <1>1, <1>3, <1>4, <1>5, <1>6

\* Every part of an NSO that takes pages is one of its pieces.
LEMMA NsoParts ==
    ASSUME IsMemory(mem), loads \in Nat, NEW n \in NsoImages, NEW o \in NsoOutcomes(n),
           o.res = "Success"
    PROVE  /\ Present(n.text) => \E p \in NsoSegments(n) : p.map = 4 * loads /\ Pages(p) = NsoPages(n.text)
           /\ Present(n.rodata) => \E p \in NsoSegments(n) : p.map = 4 * loads + 1 /\ Pages(p) = NsoPages(n.rodata)
           /\ Present(n.data) => \E p \in NsoSegments(n) : p.map = 4 * loads + 2 /\ Pages(p) = NsoPages(n.data)
           /\ n.bssSize # 0 => \E p \in NsoSegments(n) : p.map = 4 * loads + 3 /\ Pages(p) = BssPages(n)
<1> DEFINE At(t, k, i) == Piece(CodeBase + t.memOff, IF Present(t) THEN t.size ELSE 0, NsoWritten(t), k, i)
           bss == Piece(NsoBss(n), n.bssSize, 0, "bss", 3)
<1>1. /\ At(n.text, "text", 0).size > 0 => At(n.text, "text", 0) \in NsoSegments(n)
      /\ At(n.rodata, "rodata", 1).size > 0 => At(n.rodata, "rodata", 1) \in NsoSegments(n)
      /\ At(n.data, "data", 2).size > 0 => At(n.data, "data", 2) \in NsoSegments(n)
      /\ bss.size > 0 => bss \in NsoSegments(n)
  BY DEF NsoSegments, Nonempty
<1>2. ASSUME NEW t \in {n.text, n.rodata, n.data}, Present(t), NEW k, NEW i
      PROVE  At(t, k, i).size > 0 /\ At(t, k, i).map = 4 * loads + i /\ Pages(At(t, k, i)) = NsoPages(t)
  <2>1. At(t, k, i).addr = CodeBase + t.memOff /\ At(t, k, i).size = t.size /\ At(t, k, i).map = 4 * loads + i
    BY <1>2 DEF Piece
  <2>2. t.size > 0
    BY <1>2 DEF Present
  <2> QED BY <1>2, <2>1, <2>2, NsoValid DEF Pages
<1>3. n.bssSize # 0 => bss.size > 0 /\ bss.map = 4 * loads + 3 /\ Pages(bss) = BssPages(n)
  <2>1. bss.addr = NsoBss(n) /\ bss.size = n.bssSize /\ bss.map = 4 * loads + 3 /\ n.bssSize \in Nat
    BY HeadersAssumption DEF Piece
  <2> HIDE DEF bss
  <2> QED BY <2>1, NsoBssPages DEF Pages
<1> HIDE DEF At, bss
<1>4. 4 * loads + 0 = 4 * loads
  OBVIOUS
<1> QED BY <1>1, <1>2, <1>3, <1>4

\* An NSO on pages of its own: its segments hold what was copied, and those
\* of the last game what they held.
LEMMA NsoImage ==
    ASSUME IsMemory(mem), SegmentsInv, ImageInv, ImageKept,
           NEW n \in NsoImages, NEW o \in NsoOutcomes(n), o.res = "Success",
           \A s, t \in segments \cup NsoSegments(n) : s.map # t.map => Pages(s) \cap Pages(t) = {},
           NEW s \in segments \cup NsoSegments(n), NEW a \in Filled(s)
    PROVE  o.m.data[a] = "data"
<1>1. loads \in Nat /\ a \in Addr
  BY DEF SegmentsInv, Filled, Extent
<1>2. s.addr \in Nat /\ s.size \in Nat /\ s.filled \in Nat /\ s.filled <= s.size
  <2>1. CASE s \in segments
    BY <2>1 DEF SegmentsInv, ImageInv
  <2>2. CASE s \in NsoSegments(n)
    <3>1. s.addr \in Nat /\ s.size \in Nat
      BY <1>1, <2>2, NewSegments
    <3>2. s.filled \in Nat /\ s.filled <= s.size
      <4>1. s.filled = 0 \/ (s.filled \in Nat /\ s.filled <= s.size)
        BY <1>1, <2>2, NsoPieces
      <4> QED BY <3>1, <4>1
    <3> QED BY <3>1, <3>2
  <2> QED BY <2>1, <2>2
<1>3. a \in Pages(s) /\ s.filled # 0
  <2>1. a \in Nat /\ s.addr <= a /\ a < s.addr + s.filled
    BY <1>1, Regions DEF Filled, Extent
  <2>2. a \in Extent(s.addr, s.size)
    BY <1>1, <1>2, <2>1 DEF Extent
  <2> QED BY <1>2, <2>1, <2>2, RoundedBounds DEF Pages
<1>4. \A p \in NsoSegments(n) : p.map # s.map => a \notin Pages(p)
  BY <1>3
<1>5. /\ s.map # 4 * loads => a \notin NsoPages(n.text)
      /\ s.map # 4 * loads + 1 => a \notin NsoPages(n.rodata)
      /\ s.map # 4 * loads + 2 => a \notin NsoPages(n.data)
      /\ s.map # 4 * loads + 3 => a \notin BssPages(n)
  <2>1. \A t : ~Present(t) => a \notin NsoPages(t)
    BY DEF NsoPages
  <2>2. n.bssSize = 0 => a \notin BssPages(n)
    BY DEF BssPages
  <2> QED BY <1>1, <1>4, <2>1, <2>2, NsoParts
<1> DEFINE Copied(t) == Present(t) /\ a \in NsoPages(t)
                        /\ a \in Extent(CodeBase + t.memOff, NsoWritten(t))
<1>6. a \notin BssPages(n) =>
        (\/ Copied(n.data)
         \/ a \notin NsoPages(n.data) /\ Copied(n.rodata)
         \/ a \notin NsoPages(n.data) \cup NsoPages(n.rodata) /\ Copied(n.text)
         \/ /\ a \notin NsoPages(n.data) \cup NsoPages(n.rodata) \cup NsoPages(n.text)
            /\ mem.data[a] = "data"
         => o.m.data[a] = "data")
  BY <1>1, NsoContents
<1>7. CASE s \in segments
  <2>1. s.map \in Nat /\ s.map < 4 * loads
    BY <1>7 DEF SegmentsInv
  <2>2. s.map # 4 * loads /\ s.map # 4 * loads + 1 /\ s.map # 4 * loads + 2 /\ s.map # 4 * loads + 3
    BY <1>1, <2>1
  <2>3. Apart
    BY DEF Apart
  <2>4. mem.data[a] = "data"
    BY <1>7, <2>3 DEF ImageKept
  <2> QED BY <1>5, <1>6, <2>2, <2>4
<1>8. CASE s \in NsoSegments(n)
  <2>1. PICK c \in {<<n.text, 0>>, <<n.rodata, 1>>, <<n.data, 2>>} :
          /\ Present(c[1]) /\ s.addr = CodeBase + c[1].memOff
          /\ s.filled = NsoWritten(c[1]) /\ s.map = 4 * loads + c[2]
          /\ Pages(s) = NsoPages(c[1])
    BY <1>1, <1>3, <1>8, NsoPieces
  <2>2. Copied(c[1])
    BY <1>3, <2>1 DEF Filled
  <2> HIDE DEF Copied
  <2>3. CASE c = <<n.text, 0>>
    <3>1. c[1] = n.text /\ s.map = 4 * loads
      BY <1>1, <2>1, <2>3
    <3> QED BY <1>1, <1>5, <1>6, <2>2, <3>1
  <2>4. CASE c = <<n.rodata, 1>>
    <3>1. c[1] = n.rodata /\ s.map = 4 * loads + 1
      BY <1>1, <2>1, <2>4
    <3> QED BY <1>1, <1>5, <1>6, <2>2, <3>1
  <2>5. CASE c = <<n.data, 2>>
    <3>1. c[1] = n.data /\ s.map = 4 * loads + 2
      BY <1>1, <2>1, <2>5
    <3> QED BY <1>1, <1>5, <1>6, <2>2, <3>1
  <2> QED BY <2>1, <2>3, <2>4, <2>5
<1> QED BY <1>7, <1>8

\* The parts of a split NRO: text and rodata fill the first mapping and end
\* before the second begins, since they share no page with the data.
LEMMA SplitImage ==
    ASSUME loads \in Nat, NEW h \in NroImages, NroFits(h), Overlapping(h), DataAddr(h) # DataOrig(h),
           DataAddr(h) \in Addr,
           \A s, t \in NroSegments(h) : s.map # t.map => Pages(s) \cap Pages(t) = {},
           NEW a \in NroText(h) \cup NroRodata(h)
    PROVE  a \in Extent(CodeBase, h.textSize + h.rodataSize) /\ a < DataAddr(h)
<1> DEFINE D == DataAddr(h)
           text == Piece(CodeBase, h.textSize, h.textSize, "text", 0)
           rodata == Piece(CodeBase + h.rodataStart, h.rodataSize, h.rodataSize, "rodata", 0)
           data == Piece(D, h.dataSize, h.dataSize, "data", 1)
<1>1. /\ {h.textSize, h.rodataStart, h.rodataSize, h.dataSize} \subseteq Nat /\ CodeBase \in Nat
      /\ h.dataSize > 0 /\ h.rodataStart <= h.textSize /\ D \in Nat
  BY HeadersAssumption, SpaceAssumption, NroSparesData DEF NroFits
<1>2. D = CodeBase + HostPage
  <2>1. AlignUp(CodeBase, HostPage) = CodeBase
    BY Regions, SpaceAssumption, Multiples
  <2> QED BY <2>1 DEF DataAddr
<1>3. /\ h.textSize > 0 => text \in NroSegments(h)
      /\ h.rodataSize > 0 => rodata \in NroSegments(h)
      /\ data \in NroSegments(h)
  <2>1. text.size = h.textSize /\ rodata.size = h.rodataSize /\ data.size = h.dataSize
    BY DEF Piece
  <2> QED BY <1>1, <2>1 DEF NroSegments, Nonempty
<1>4. /\ text.map # data.map /\ rodata.map # data.map
      /\ Pages(text) = Rounded(CodeBase, h.textSize)
      /\ Pages(rodata) = Rounded(CodeBase + h.rodataStart, h.rodataSize)
      /\ Pages(data) = Rounded(D, h.dataSize)
  BY DEF Piece, Pages
<1>5. D \in Pages(data)
  <2>1. D \in Extent(D, h.dataSize)
    BY <1>1 DEF Extent
  <2> QED BY <1>1, <1>4, <2>1, RoundedBounds
<1> HIDE DEF text, rodata, data
<1>6. /\ h.textSize > 0 => D \notin Rounded(CodeBase, h.textSize)
      /\ h.rodataSize > 0 => D \notin Rounded(CodeBase + h.rodataStart, h.rodataSize)
  BY <1>3, <1>4, <1>5
<1>7. /\ D \notin Extent(CodeBase, h.textSize)
      /\ D \notin Extent(CodeBase + h.rodataStart, h.rodataSize)
  <2>1. h.textSize > 0 => D \notin Extent(CodeBase, h.textSize)
    BY <1>1, <1>6, RoundedBounds
  <2>2. h.rodataSize > 0 => D \notin Extent(CodeBase + h.rodataStart, h.rodataSize)
    <3>1. CodeBase + h.rodataStart \in Nat
      BY <1>1
    <3> QED BY <1>1, <1>6, <3>1, RoundedBounds
  <2>3. /\ h.textSize = 0 => Extent(CodeBase, h.textSize) = {}
        /\ h.rodataSize = 0 => Extent(CodeBase + h.rodataStart, h.rodataSize) = {}
    <3>1. CodeBase + h.rodataStart \in Nat
      BY <1>1
    <3> QED BY <1>1, <3>1, EmptyExtent
  <2> QED BY <1>1, <2>1, <2>2, <2>3
<1> HIDE DEF D
<1>8. /\ ~(CodeBase <= D /\ D < CodeBase + h.textSize)
      /\ ~(CodeBase + h.rodataStart <= D /\ D < CodeBase + h.rodataStart + h.rodataSize)
  <2>1. D \in Addr
    BY DEF D
  <2> QED BY <1>7, <2>1 DEF Extent
<1>9. h.textSize <= HostPage
  BY <1>1, <1>2, <1>8, Regions
<1>10. h.rodataStart + h.rodataSize <= HostPage
  BY <1>1, <1>2, <1>8, <1>9, Regions
<1>11. a \in Addr /\ a \in Nat
  BY Regions DEF NroText, NroRodata, Extent
<1>12. CASE a \in NroText(h)
  <2>1. CodeBase <= a /\ a < CodeBase + h.textSize
    BY <1>12 DEF NroText, Extent
  <2>2. CodeBase <= a /\ a < CodeBase + (h.textSize + h.rodataSize) /\ a < D
    BY <1>1, <1>2, <1>9, <1>11, <2>1, Regions
  <2> QED BY <1>11, <2>2 DEF Extent, D
<1>13. CASE a \in NroRodata(h)
  <2>1. CodeBase + h.rodataStart <= a /\ a < CodeBase + h.rodataStart + h.rodataSize
    BY <1>13 DEF NroRodata, Extent
  <2>2. CodeBase <= a /\ a < CodeBase + (h.textSize + h.rodataSize) /\ a < D
    BY <1>1, <1>2, <1>10, <1>11, <2>1, Regions
  <2> QED BY <1>11, <2>2 DEF Extent, D
<1> QED BY <1>12, <1>13

\* The pieces of an NRO: all of them copied, and all below the heap.
LEMMA NroPieces ==
    ASSUME NEW h \in NroImages, NroFits(h), NEW s \in NroSegments(h)
    PROVE  /\ s.filled \in Nat /\ s.filled <= s.size
           /\ Filled(s) \subseteq NroText(h) \cup NroRodata(h) \cup NroData(h)
           /\ \A a \in Filled(s) : a < HeapBase
<1>1. /\ {h.textSize, h.rodataStart, h.rodataSize, h.dataStart, h.dataSize} \subseteq Nat
      /\ CodeBase \in Nat /\ HeapBase \in Nat /\ DataAddr(h) \in Nat
  BY HeadersAssumption, SpaceAssumption, Regions, NroSparesData
<1>2. /\ h.textSize <= h.dataStart /\ h.rodataStart + h.rodataSize <= h.dataStart
      /\ CodeBase + h.dataStart <= HeapBase /\ DataAddr(h) + h.dataSize <= HeapBase
  BY DEF NroFits
<1>3. PICK piece \in {0, 1} :
        \/ s = Piece(CodeBase, h.textSize, h.textSize, "text", 0)
        \/ s = Piece(CodeBase + h.rodataStart, h.rodataSize, h.rodataSize, "rodata", 0)
        \/ s = Piece(DataAddr(h), h.dataSize, h.dataSize, "data", piece)
  BY DEF NroSegments, Nonempty
<1>4. \/ s.filled = h.textSize /\ s.size = h.textSize /\ Filled(s) = NroText(h)
      \/ s.filled = h.rodataSize /\ s.size = h.rodataSize /\ Filled(s) = NroRodata(h)
      \/ s.filled = h.dataSize /\ s.size = h.dataSize /\ Filled(s) = NroData(h)
  BY <1>3 DEF Piece, Filled, NroText, NroRodata, NroData
<1>5. \A a \in NroText(h) : a < HeapBase
  <2> SUFFICES ASSUME NEW a \in Nat, a < CodeBase + h.textSize PROVE a < HeapBase
    BY Regions DEF NroText, Extent
  <2> QED BY <1>1, <1>2
<1>6. \A a \in NroRodata(h) : a < HeapBase
  <2> SUFFICES ASSUME NEW a \in Nat, a < CodeBase + h.rodataStart + h.rodataSize PROVE a < HeapBase
    BY Regions DEF NroRodata, Extent
  <2> QED BY <1>1, <1>2
<1>7. \A a \in NroData(h) : a < HeapBase
  <2> SUFFICES ASSUME NEW a \in Nat, a < DataAddr(h) + h.dataSize PROVE a < HeapBase
    BY Regions DEF NroData, Extent
  <2> QED BY <1>1, <1>2
<1>8. s.filled \in Nat /\ s.filled <= s.size
  BY <1>1, <1>4
<1> QED BY <1>4, <1>5, <1>6, <1>7, <1>8

\* NroLoader, in one mapping or in two: the segments hold what was copied.
LEMMA NroImage ==
    ASSUME IsMemory(mem), loads \in Nat, NEW h \in NroImages, NroFits(h),
           NEW o \in NroOutcomes(h), o.res = "Success",
           \A s, t \in NroSegments(h) : s.map # t.map => Pages(s) \cap Pages(t) = {},
           NEW a \in NroText(h) \cup NroRodata(h) \cup NroData(h)
    PROVE  o.m.data[a] = "data"
<1> DEFINE bssAddr == AlignUp(DataAddr(h) + AlignUp(h.dataSize, HostPage), HostPage)
           wholeEnd == AlignUp(bssAddr + AlignUp(h.bssSize, HostPage), HostPage)
           D == DataAddr(h)
           size1 == AtLeast(AlignUp(h.textSize + h.rodataSize, HostPage), HostPage)
           size2 == AtLeast(AlignUp(h.dataSize + h.bssSize, HostPage), HostPage)
<1>1. /\ {h.textSize, h.rodataStart, h.rodataSize, h.dataStart, h.dataSize, h.bssSize} \subseteq Nat
      /\ CodeBase \in Nat /\ D \in Nat /\ HostPage \in Nat \ {0}
      /\ a \in Addr /\ a \in Nat
  BY HeadersAssumption, SpaceAssumption, Regions, NroSparesData
     DEF NroText, NroRodata, NroData, Extent
<1>2. \A x \in Start : IsMemory(x.m)
  BY DEF Start
<1>3. \A x, y, z \in Nat : y <= z => Extent(x, y) \subseteq Rounded(x, z)
  <2> SUFFICES ASSUME NEW x \in Nat, NEW y \in Nat, NEW z \in Nat, y <= z
               PROVE  Extent(x, y) \subseteq Extent(x, z)
    BY RoundedBounds
  <2> SUFFICES ASSUME NEW c \in Addr, c < x + y PROVE c < x + z
    BY DEF Extent
  <2> QED BY Regions
<1>4. CASE Overlapping(h) /\ D # DataOrig(h)
  <2> DEFINE first == Then(Start, CodeBase, size1, NroText(h) \cup NroRodata(h))
  <2>1. o \in Then(first, D, size2, NroData(h))
    BY <1>4 DEF NroOutcomes
  <2>2. \A x \in first : IsMemory(x.m)
    BY <1>2, ThenMemory
  <2>3. /\ size1 \in Nat /\ h.textSize + h.rodataSize <= size1 /\ h.textSize + h.rodataSize \in Nat
        /\ size2 \in Nat /\ h.dataSize <= size2 /\ size2 > 0
    <3>1. /\ AlignUp(h.textSize + h.rodataSize, HostPage) \in Nat
          /\ h.textSize + h.rodataSize <= AlignUp(h.textSize + h.rodataSize, HostPage)
          /\ AlignUp(h.dataSize + h.bssSize, HostPage) \in Nat
          /\ h.dataSize + h.bssSize <= AlignUp(h.dataSize + h.bssSize, HostPage)
      <4>1. h.textSize + h.rodataSize \in Nat /\ h.dataSize + h.bssSize \in Nat
        BY <1>1
      <4> QED BY <1>1, <4>1, AlignUpBounds
    <3>2. \A x \in Nat : /\ AtLeast(x, HostPage) \in Nat /\ x <= AtLeast(x, HostPage)
                         /\ AtLeast(x, HostPage) > 0
      BY <1>1 DEF AtLeast
    <3> DEFINE u == AlignUp(h.textSize + h.rodataSize, HostPage)
               v == AlignUp(h.dataSize + h.bssSize, HostPage)
    <3>3. u \in Nat /\ v \in Nat /\ h.textSize + h.rodataSize <= u /\ h.dataSize + h.bssSize <= v
      BY <3>1
    <3> HIDE DEF u, v
    <3>4. /\ AtLeast(u, HostPage) \in Nat /\ u <= AtLeast(u, HostPage)
          /\ AtLeast(v, HostPage) \in Nat /\ v <= AtLeast(v, HostPage) /\ AtLeast(v, HostPage) > 0
      BY <3>2, <3>3
    <3>5. /\ AtLeast(u, HostPage) \in Nat /\ h.textSize + h.rodataSize <= AtLeast(u, HostPage)
          /\ h.textSize + h.rodataSize \in Nat
          /\ AtLeast(v, HostPage) \in Nat /\ h.dataSize <= AtLeast(v, HostPage)
          /\ AtLeast(v, HostPage) > 0
      BY <1>1, <3>3, <3>4
    <3> QED BY <3>5 DEF u, v
  <2> HIDE DEF first, size1, size2
  <2>4. Valid(D, size2)
    BY <2>1, <2>2, ThenSucceeds
  <2>5. D \in Addr
    <3>1. D < Space
      BY <1>1, <2>3, <2>4, Regions DEF Valid
    <3> QED BY <1>1, <3>1, Regions DEF Addr
  <2>6. PICK p \in first :
          /\ p.res = "Success"
          /\ a \in Rounded(D, size2) /\ a \in NroData(h) => o.m.data[a] = "data"
          /\ a \notin Rounded(D, size2) /\ p.m.data[a] = "data" => o.m.data[a] = "data"
    BY <1>1, <2>1, <2>2, ThenContents
  <2>7. CASE a \in NroData(h)
    <3>1. a \in Rounded(D, size2)
      BY <1>1, <1>3, <2>3, <2>7 DEF NroData, D
    <3> QED BY <2>6, <2>7, <3>1
  <2>8. CASE a \in NroText(h) \cup NroRodata(h)
    <3>1. a \in Extent(CodeBase, h.textSize + h.rodataSize) /\ a < D
      BY <1>4, <2>5, <2>8, SplitImage DEF D
    <3>2. a \in Rounded(CodeBase, size1)
      BY <1>1, <1>3, <2>3, <3>1
    <3>3. p.m.data[a] = "data"
      BY <1>1, <1>2, <2>6, <2>8, <3>2, ThenContents DEF first
    <3>4. (D \div HostPage) * HostPage = D
      <4>1. D = CodeBase + 1 * HostPage
        <5>1. AlignUp(CodeBase, HostPage) = CodeBase
          BY Regions, SpaceAssumption, Multiples
        <5> QED BY <1>1, <1>4, <5>1 DEF DataAddr, D
      <4>2. \A y, i \in Nat : y % HostPage = 0 => (CodeBase + i * y) % HostPage = 0
        BY <1>1, SpaceAssumption, Multiples
      <4>3. HostPage % HostPage = 0 /\ 1 \in Nat /\ HostPage \in Nat
        BY <1>1
      <4>4. (CodeBase + 1 * HostPage) % HostPage = 0
        BY <4>2, <4>3, Zenon
      <4>5. D % HostPage = 0
        BY <4>1, <4>4
      <4> HIDE DEF D
      <4> QED BY <1>1, <4>5, Multiples
    <3>5. a \notin Rounded(D, size2)
      <4>1. ~(D <= a)
        BY <1>1, <3>1
      <4> QED BY <3>4, <4>1 DEF Rounded
    <3> QED BY <2>6, <3>3, <3>5
  <2> QED BY <2>7, <2>8
<1>5. CASE ~(Overlapping(h) /\ D # DataOrig(h))
  <2>1. o \in Then(Start, CodeBase, wholeEnd - CodeBase, NroText(h) \cup NroRodata(h) \cup NroData(h))
    BY <1>5 DEF NroOutcomes
  <2>2. D = CodeBase + h.dataStart
    BY <1>5 DEF DataAddr, DataOrig
  <2>3. wholeEnd \in Nat /\ D + h.dataSize <= wholeEnd
    <3> DEFINE d == AlignUp(h.dataSize, HostPage)
               e == AlignUp(h.bssSize, HostPage)
               f == AlignUp(D + d, HostPage)
               g == AlignUp(f + e, HostPage)
    <3>1. d \in Nat /\ h.dataSize <= d /\ e \in Nat
      BY <1>1, AlignUpBounds
    <3> HIDE DEF d, e, D
    <3>2. D + d \in Nat
      BY <1>1, <3>1
    <3>3. f \in Nat /\ D + d <= f
      BY <1>1, <3>2, AlignUpBounds
    <3> HIDE DEF f
    <3>4. f + e \in Nat
      BY <3>1, <3>3
    <3>5. g \in Nat /\ f + e <= g
      BY <1>1, <3>4, AlignUpBounds
    <3> HIDE DEF g
    <3>6. g \in Nat /\ D + h.dataSize <= g
      BY <1>1, <3>1, <3>3, <3>5
    <3> QED BY <3>6 DEF g, f, e, d, D
  <2> HIDE DEF wholeEnd
  <2>4. /\ h.textSize <= h.dataStart /\ h.rodataStart + h.rodataSize <= h.dataStart
    BY DEF NroFits
  <2>5. CodeBase <= a /\ a < wholeEnd
    <3>1. \/ CodeBase <= a /\ a < CodeBase + h.textSize
          \/ CodeBase + h.rodataStart <= a /\ a < CodeBase + h.rodataStart + h.rodataSize
          \/ D <= a /\ a < D + h.dataSize
      BY DEF NroText, NroRodata, NroData, Extent, D
    <3> HIDE DEF D
    <3> QED BY <1>1, <2>2, <2>3, <2>4, <3>1
  <2>6. a \in Extent(CodeBase, wholeEnd - CodeBase) /\ wholeEnd - CodeBase \in Nat
    <3>1. a < CodeBase + (wholeEnd - CodeBase) /\ wholeEnd - CodeBase \in Nat
      BY <1>1, <2>3, <2>5
    <3> QED BY <1>1, <2>5, <3>1 DEF Extent
  <2>7. a \in Rounded(CodeBase, wholeEnd - CodeBase)
    BY <1>1, <2>6, RoundedBounds
  <2> QED BY <1>1, <1>2, <2>1, <2>7, ThenContents
<1> QED BY <1>4, <1>5

\* The pages of what lies above the base of the heap lie above it too.
LEMMA BelowHeap ==
    ASSUME NEW a \in Addr, a < HeapBase, NEW b \in Nat, NEW s \in Nat, HeapBase <= b
    PROVE  a \notin Rounded(b, s) /\ a \notin Extent(b, s)
<1>1. (HeapBase \div HostPage) * HostPage = HeapBase
  BY Regions, RegionsAssumption, Multiples
<1>2. b + s \in Nat /\ b + s <= b + s
  OBVIOUS
<1>3. Rounded(b, s) \subseteq {c \in Addr : /\ (HeapBase \div HostPage) * HostPage <= c
                                            /\ c < AlignUp(b + s, HostPage)}
  BY <1>2, Regions, RoundedBounds
<1>4. ~(HeapBase <= a)
  BY Regions
<1> QED BY <1>1, <1>3, <1>4, RoundedBounds

LEMMA FinishBelowHeap ==
    ASSUME NEW m, IsMemory(m), Finish(m), NEW a \in Addr, a < HeapBase
    PROVE  mem'.data[a] = m.data[a]
<1>1. PICK size \in StackSizes : \E r \in SetupStack(m, size) : mem' = r.m
  BY DEF Finish
<1>2. PICK r \in SetupStack(m, size) : mem' = r.m
  BY <1>1
<1> DEFINE e == StackExtent(size)
           b == StackBase - StackExtent(size)
<1>3. e \in Nat /\ e <= StackMax
  <2>1. AlignUp(size, PageSize) \in Nat /\ StackMax \in Nat
    BY MemoryAssumption, AlignUpBounds
  <2> QED BY <2>1 DEF StackExtent
<1>4. b \in Nat /\ HeapBase <= b
  <2> HIDE DEF e
  <2>1. StackBase - e \in Nat /\ HeapBase <= StackBase - e
    BY <1>3, Regions, RegionsAssumption
  <2> QED BY <2>1 DEF e
<1>5. r \in MapPhysical(m, b, e)
  BY DEF SetupStack
<1> HIDE DEF b, e
<1>6. a \notin Rounded(b, e)
  BY <1>3, <1>4, BelowHeap
<1> QED BY <1>2, <1>5, <1>6, MapEffect

\* What the running guest asks for leaves the memory below the heap alone.
LEMMA RunningBelowHeap ==
    ASSUME SpaceInv, NEW a \in Addr, a < HeapBase, mem.data[a] = "data",
           (UNCHANGED allVars) \/ Run \/ (\E ownStack \in BOOLEAN : CreateThread(ownStack))
             \/ Guest(\E size \in HeapSizes : SetHeapSize(size)) \/ Guest(GuestWrites)
    PROVE  mem'.data[a] = "data"
<1>1. /\ IsMemory(mem) /\ refused \in BOOLEAN /\ ThreadsInv /\ heapSize \in 0..HeapMax
      /\ HeapBase <= StackSlotsBase /\ HeapBase <= TlsBase /\ HeapMax \in 0..HeapMax
  <2>1. /\ HeapBase + HeapMax <= StackBase /\ StackBase <= HidBase
        /\ HidBase + HidSize <= StackSlotsBase /\ StackSlotsBase <= TlsBase
    BY RegionsAssumption
  <2>2. HeapBase <= StackSlotsBase /\ HeapBase <= TlsBase /\ HeapMax \in 0..HeapMax
    BY <2>1, Regions
  <2> QED BY <2>2 DEF SpaceInv
<1>2. CASE UNCHANGED allVars
  BY <1>2 DEF allVars, memVars
<1>3. CASE Run
  <2>1. PICK r \in MapPhysical(mem, TlsBase, PageSize) : mem' = r.m
    BY <1>3 DEF Run
  <2>2. a \notin Rounded(TlsBase, PageSize)
    BY <1>1, Regions, BelowHeap
  <2> QED BY <1>1, <2>1, <2>2, MapEffect
<1>4. ASSUME NEW ownStack \in BOOLEAN, CreateThread(ownStack) PROVE mem'.data[a] = "data"
  <2>1. PICK t \in [stack: Nat, tls: Nat] :
          /\ a \notin Stack(t) \cup Tls(t)
          /\ ownStack \/ a \notin Rounded(StackSlot(t.stack), StackPerThread)
          => mem'.data[a] = mem.data[a]
    BY <1>1, <1>4, CreateEffect
  <2>2. StackSlot(t.stack) \in Nat /\ HeapBase <= StackSlot(t.stack)
    <3>1. t.stack * StackPerThread \in Nat
      BY Regions
    <3> QED BY <1>1, <3>1, Regions DEF StackSlot
  <2>3. TlsSlot(t.tls) \in Nat /\ HeapBase <= TlsSlot(t.tls)
    <3>1. t.tls * TlsPerThread \in Nat
      BY Regions
    <3> QED BY <1>1, <3>1, Regions DEF TlsSlot
  <2>4. /\ a \notin Rounded(StackSlot(t.stack), StackPerThread)
        /\ a \notin Extent(StackSlot(t.stack), StackPerThread)
        /\ a \notin Extent(TlsSlot(t.tls), TlsPerThread)
    BY <2>2, <2>3, Regions, BelowHeap
  <2> QED BY <2>1, <2>4 DEF Stack, Tls
<1>5. CASE Guest(\E size \in HeapSizes : SetHeapSize(size))
  <2>1. PICK size \in HeapSizes : SetHeapSize(size)
    BY <1>5 DEF Guest
  <2>2. AlignUp(size, PageSize) <= HeapMax
    BY <1>1, <2>1, HeapLimit
  <2>3. a \notin Rounded(HeapBase, HeapMax)
    BY Regions, BelowHeap
  <2> QED BY <1>1, <2>1, <2>2, <2>3, HeapEffect
<1>6. CASE Guest(GuestWrites)
  <2>1. mem' = Store(mem, Given, "data")
    BY <1>6 DEF Guest, GuestWrites
  <2> QED BY <1>1, <2>1, StoreWrites
<1> QED BY <1>2, <1>3, <1>4, <1>5, <1>6

LEMMA ImageStep ==
    ASSUME \A h \in NroImages : NroFits(h), \A n \in NsoImages : NsoFits(n),
           SpaceInv, SegmentsInv, ImageInv, ImageKept, [SpaceNext]_allVars
    PROVE  ImageInv' /\ ImageKept'
<1>1. loads \in Nat /\ IsMemory(mem)
  BY DEF SegmentsInv, SpaceInv
<1>2. ASSUME segments' = {} PROVE ImageInv' /\ ImageKept'
  BY <1>2 DEF ImageInv, ImageKept
<1>3. \A s : \A a \in Filled(s) : a \in Addr
  BY DEF Filled, Extent
<1>4. ASSUME NEW h \in NroImages, LoadNro(h) PROVE ImageInv' /\ ImageKept'
  <2>1. PICK o \in NroOutcomes(h) :
          \/ o.res = "Success" /\ Finish(o.m) /\ segments' = NroSegments(h)
          \/ segments' = {}
    BY <1>4 DEF LoadNro
  <2>2. CASE o.res = "Success" /\ Finish(o.m) /\ segments' = NroSegments(h)
    <3>1. ImageInv'
      BY <2>2, NroPieces DEF ImageInv, Filled
    <3>2. ASSUME Apart', NEW s \in NroSegments(h), NEW a \in Filled(s) PROVE mem'.data[a] = "data"
      <4>1. \A x, y \in NroSegments(h) : x.map # y.map => Pages(x) \cap Pages(y) = {}
        BY <2>2, <3>2 DEF Apart, Pages
      <4>2. o.m.data[a] = "data"
        BY <1>1, <2>2, <3>2, <4>1, NroPieces, NroImage
      <4>3. IsMemory(o.m)
        BY <1>1, LoadMemory
      <4>4. a \in Addr /\ a < HeapBase
        BY <1>3, NroPieces
      <4> QED BY <2>2, <4>2, <4>3, <4>4, FinishBelowHeap
    <3> QED BY <2>2, <3>1, <3>2 DEF ImageKept, Filled
  <2> QED BY <1>2, <2>1, <2>2
<1>5. ASSUME NEW n \in NsoImages, LoadNso(n) PROVE ImageInv' /\ ImageKept'
  <2>1. PICK o \in NsoOutcomes(n) :
          \/ o.res = "Success" /\ Finish(o.m) /\ segments' = segments \cup NsoSegments(n)
          \/ segments' = {}
    BY <1>5 DEF LoadNso
  <2>2. CASE o.res = "Success" /\ Finish(o.m) /\ segments' = segments \cup NsoSegments(n)
    <3>1. ASSUME NEW s \in NsoSegments(n)
          PROVE  s.filled \in Nat /\ s.filled <= s.size /\ \A a \in Filled(s) : a < HeapBase
      <4>1. s.addr \in Nat /\ s.size \in Nat
        BY <1>1, NewSegments
      <4>2. CASE s.filled = 0
        <5>1. Filled(s) = {}
          BY <4>1, <4>2, EmptyExtent DEF Filled
        <5> QED BY <4>1, <4>2, <5>1
      <4>3. CASE s.filled # 0
        <5>1. PICK c \in {<<n.text, 0>>, <<n.rodata, 1>>, <<n.data, 2>>} :
                /\ s.addr = CodeBase + c[1].memOff /\ s.size = c[1].size
                /\ s.filled \in Nat /\ s.filled <= s.size
          BY <1>1, <2>2, <4>3, NsoPieces
        <5>2. c[1] \in {n.text, n.rodata, n.data}
          BY <5>1
        <5>3. CodeBase + c[1].memOff + c[1].size <= HeapBase
          BY <5>2 DEF NsoFits
        <5>4. s.addr + s.size <= HeapBase
          BY <5>1, <5>3
        <5>5. \A a \in Filled(s) : a < HeapBase
          <6> SUFFICES ASSUME NEW a \in Nat, a < s.addr + s.filled PROVE a < HeapBase
            BY Regions DEF Filled, Extent
          <6> QED BY <4>1, <5>1, <5>4, Regions
        <5> QED BY <5>1, <5>5
      <4> QED BY <4>2, <4>3
    <3>2. ImageInv'
      BY <2>2, <3>1 DEF ImageInv, Filled
    <3>3. ASSUME Apart', NEW s \in segments \cup NsoSegments(n), NEW a \in Filled(s)
          PROVE  mem'.data[a] = "data"
      <4>1. \A x, y \in segments \cup NsoSegments(n) : x.map # y.map => Pages(x) \cap Pages(y) = {}
        BY <2>2, <3>3 DEF Apart, Pages
      <4>2. o.m.data[a] = "data"
        BY <1>1, <2>2, <3>3, <4>1, NsoImage
      <4>3. IsMemory(o.m)
        BY <1>1, LoadMemory
      <4>4. a \in Addr /\ a < HeapBase
        BY <1>3, <3>1, <3>3 DEF ImageInv
      <4> QED BY <2>2, <4>2, <4>3, <4>4, FinishBelowHeap
    <3> QED BY <2>2, <3>2, <3>3 DEF ImageKept, Filled
  <2> QED BY <1>2, <2>1, <2>2
<1>6. ASSUME (UNCHANGED allVars) \/ Run \/ (\E ownStack \in BOOLEAN : CreateThread(ownStack))
               \/ Guest(\E size \in HeapSizes : SetHeapSize(size)) \/ Guest(GuestWrites)
      PROVE  ImageInv' /\ ImageKept'
  <2>1. segments' = segments
    BY <1>6 DEF allVars, spaceVars, Run, CreateThread, Guest
  <2>2. ImageInv'
    BY <2>1 DEF ImageInv, Filled
  <2>3. ASSUME Apart', NEW s \in segments, NEW a \in Filled(s) PROVE mem'.data[a] = "data"
    <3>1. Apart
      BY <2>1, <2>3 DEF Apart, Pages
    <3>2. mem.data[a] = "data" /\ a \in Addr /\ a < HeapBase
      BY <1>3, <3>1 DEF ImageKept, ImageInv
    <3> QED BY <1>6, <3>2, RunningBelowHeap
  <2> QED BY <2>1, <2>2, <2>3 DEF ImageKept, Filled
<1> QED BY <1>4, <1>5, <1>6 DEF SpaceNext

\* For all NRO and NSO files whose segments follow each other and end below the
\* heap: text, rodata and data hold what the file holds, from the load on and
\* through every thread, heap and write of the running guest, after any number
\* of loads and whatever mappings the host refuses - unless segments that are
\* mapped one by one share a host page.
THEOREM ImageStays ==
    ASSUME \A h \in NroImages : NroFits(h), \A n \in NsoImages : NsoFits(n)
    PROVE  SpaceSpec => []ImageKept
<1>1. SpaceInit => SegmentsInv /\ ImageInv /\ ImageKept
  BY DEF SpaceInit, SegmentsInv, ImageInv, ImageKept
<1>2. SpaceInit => DataWritable
  BY DEF SpaceInit, DataWritable
<1>3. SpaceInv /\ SegmentsInv /\ DataWritable /\ [SpaceNext]_allVars => SegmentsInv' /\ DataWritable'
  BY WritableStep
<1>4. SpaceInv /\ SegmentsInv /\ ImageInv /\ ImageKept /\ [SpaceNext]_allVars => ImageInv' /\ ImageKept'
  BY ImageStep
<1> QED BY <1>1, <1>2, <1>3, <1>4, SpaceInvariant, PTL DEF SpaceSpec
=============================================================================
