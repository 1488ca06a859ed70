--------------------------- MODULE MCAddressSpace ---------------------------
(***************************************************************************)
(* Instances of the two users of GuestMemory in one layout of the address  *)
(* space: a behaviour is one of a game with its threads, or one of GPU     *)
(* buffers in the carveout with the heap beside them.                      *)
(***************************************************************************)
EXTENDS AddressSpace, NvMap

VARIABLE part
mapVars == <<part, allVars, nvVars>>

\* Of NvInit, all but MemInit: HID's memory is mapped before any buffer.
MapInit ==
    /\ part \in {"game", "buffers"} /\ SpaceInit
    /\ entries = [e \in {} |-> 0] /\ offset = 0

MapNext ==
    \/ part = "game" /\ SpaceNext /\ UNCHANGED <<part, entries, offset>>
    \/ part = "buffers" /\ NvNext /\ UNCHANGED <<part, spaceVars>>

MapSpec == MapInit /\ [][MapNext]_mapVars

Ref(kind, seg, to, off) ==
    [kind |-> kind, seg |-> seg, to |-> to, off |-> off, at |-> 0]

\* One reference of each kind to each segment it may address, and an entry
\* behind the patched part of the RELR table.
Refs(textSize, rodataStart, dataStart, dataSize) ==
    {Ref("adrp", "text", textSize - 1, textSize - 1), Ref("adrp", "rodata", rodataStart, 0),
     Ref("adrp", "data", dataStart, 0), Ref("adrp", "bss", dataStart + dataSize, 0),
     Ref("relr", "data", dataStart + dataSize - 1, dataSize - 1),
     [Ref("relr", "data", dataStart, 0) EXCEPT !.at = RelrLimit],
     Ref("mod0", "bss", dataStart + dataSize, 0)}

Header(textStart, textSize, rodataStart, rodataSize, dataStart, dataSize, bssSize) ==
    [textStart |-> textStart, textSize |-> textSize,
     rodataStart |-> rodataStart, rodataSize |-> rodataSize,
     dataStart |-> dataStart, dataSize |-> dataSize, bssSize |-> bssSize,
     refs |-> Refs(textSize, rodataStart, dataStart, dataSize)]

\* A PIE image whose text and rodata fit in one host page, one whose text
\* does not; an older image with its data apart from the text, and one with
\* both in one host page.
SmallPie == Header(0, 1, 1, 1, 2, 2, 1)
LargePie == Header(0, 5, 5, 1, 6, 1, 1)
Spread == Header(1, 3, 4, 2, 8, 2, 1)
Packed == Header(1, 1, 2, 1, 3, 2, 1)

NsoSeg(memOff, size, comp, lz4) ==
    [memOff |-> memOff, size |-> size, comp |-> comp, lz4 |-> lz4, inFile |-> TRUE]

\* Segments on guest pages, segments on host pages with a bss, and data of
\* an odd size below a bss, with a rodata segment that is not in the file.
GuestPaged == [text |-> NsoSeg(0, 2, 1, TRUE), rodata |-> NsoSeg(2, 2, 0, FALSE),
               data |-> NsoSeg(4, 2, 0, FALSE), bssSize |-> 0]
HostPaged == [text |-> NsoSeg(0, 3, 2, FALSE), rodata |-> NsoSeg(4, 0, 0, FALSE),
              data |-> NsoSeg(4, 4, 0, FALSE), bssSize |-> 2]
OddData == [text |-> NsoSeg(0, 4, 0, FALSE),
            rodata |-> [NsoSeg(4, 2, 0, FALSE) EXCEPT !.inFile = FALSE],
            data |-> NsoSeg(4, 3, 0, FALSE), bssSize |-> 2]

AllNros == {SmallPie, LargePie, Spread, Packed}
AllNsos == {GuestPaged, HostPaged, OddData}

\* What the theorems ask of the heap sizes and the images holds here.
ASSUME InstanceAssumption ==
    /\ WholeHostPages /\ HeapBelowStack
    /\ \A h \in NroImages : Linked(h) /\ NroFits(h)
    /\ \A n \in NsoImages : NsoFits(n)
=============================================================================
