----------------------------- MODULE TraceRing ------------------------------
(***************************************************************************)
(* The ring of trace events (debug/TraceEngine.cpp).  Guest threads record *)
(* events without a lock: a slot is reserved with fetch_add on write_pos_, *)
(* the oldest slots are given up by moving read_pos_ with a plain load and *)
(* a plain store.  The debug server reads the ring meanwhile.              *)
(*                                                                         *)
(* The ring is there: without it (mmap failed) AllocateSlot drops every    *)
(* event and Query has nothing to read.  SetFilter, ClearFilter and Clear  *)
(* have no caller; file output and the counters of statistics are left out.*)
(*                                                                         *)
(* Positions are u64 in the code.  Here they are integers: read_pos_ is    *)
(* below zero where the code's wraps around.                               *)
(***************************************************************************)
EXTENDS Integers

CONSTANTS
    RingSize,   \* RING_BUFFER_SIZE
    Writer,     \* guest threads
    Channel,    \* TraceChannel
    Sizes,      \* slots an event takes: 1, more with extra data
    MaxSlots    \* bound on write_pos_

ASSUME TraceAssumption ==
    /\ RingSize \in Nat \ {0} /\ MaxSlots \in Nat
    /\ Sizes \subseteq 1..RingSize

VARIABLES
    writePos, readPos,  \* write_pos_, read_pos_
    enabled,            \* channel_enabled_
    ring,               \* ring_buffer_: the position whose event a slot holds
    writer,             \* where each thread is in Record, its position and size,
                        \* and whether it was alone in AllocateSlot so far
    lapped              \* a slot was given out again before it was written

traceVars == <<writePos, readPos, enabled, ring, writer, lapped>>

Outside == [pc |-> "idle", pos |-> 0, size |-> 1, alone |-> FALSE]
Allocating(w) == writer[w].pc \in {"compare", "push"}

TraceInit ==
    /\ writePos = 0 /\ readPos = 0
    /\ enabled = Channel
    /\ ring = [s \in 0..RingSize - 1 |-> -1]
    /\ writer = [w \in Writer |-> Outside]
    /\ lapped = FALSE

-----------------------------------------------------------------------------

\* CmdTrace of the debug server, EnableAll and DisableAll.
EnableChannel(chs) ==
    /\ enabled' = chs
    /\ UNCHANGED <<writePos, readPos, ring, writer, lapped>>

\* Record and RecordWithExtra, up to the fetch_add in AllocateSlot.
Record(w, ch, n) ==
    /\ writer[w].pc = "idle" /\ ch \in enabled
    /\ writePos + n <= MaxSlots
    /\ writePos' = writePos + n
    /\ writer' = [v \in Writer |->
         IF v = w THEN [pc |-> "compare", pos |-> writePos, size |-> n,
                        alone |-> \A u \in Writer : ~Allocating(u)]
         ELSE [writer[v] EXCEPT !.alone = FALSE]]
    /\ lapped' = (lapped \/ \E v \in Writer : /\ writer[v].pc # "idle"
                                             /\ writePos' > writer[v].pos + RingSize)
    /\ UNCHANGED <<readPos, enabled, ring>>

Move(w, label) == writer' = [writer EXCEPT ![w].pc = label]

\* The difference is unsigned: it is large where read_pos_ is ahead.
Full(w) ==
    LET distance == writer[w].pos - readPos
    IN distance < 0 \/ distance > RingSize - writer[w].size

Compare(w) ==
    /\ writer[w].pc = "compare"
    /\ Move(w, IF Full(w) THEN "push" ELSE "clear")
    /\ UNCHANGED <<writePos, readPos, enabled, ring, lapped>>

\* Mutant: the size of the event is forgotten.
OldestWithoutSize(w) == writer[w].pos - RingSize

Oldest(w) == writer[w].pos - RingSize + writer[w].size

\* A later writer's store may be overwritten by an earlier one's.
PushReadPos(w) ==
    /\ writer[w].pc = "push"
    /\ readPos' = Oldest(w)
    /\ Move(w, "clear")
    /\ UNCHANGED <<writePos, enabled, ring, lapped>>

\* The slots of an event: evt.Clear() and then the fields.
Slots(w) == {(writer[w].pos + k) % RingSize : k \in 0..writer[w].size - 1}

ClearEvent(w) ==
    /\ writer[w].pc = "clear"
    /\ ring' = [ring EXCEPT ![writer[w].pos % RingSize] = -1]
    /\ Move(w, "fill")
    /\ UNCHANGED <<writePos, readPos, enabled, lapped>>

\* Mutant: extra data goes to the slots in front.
FillBefore(w) ==
    /\ writer[w].pc = "fill"
    /\ ring' = [s \in DOMAIN ring |->
         IF s \in {(writer[w].pos - k) % RingSize : k \in 0..writer[w].size - 1}
         THEN writer[w].pos ELSE ring[s]]
    /\ writer' = [writer EXCEPT ![w] = Outside]
    /\ UNCHANGED <<writePos, readPos, enabled, lapped>>

Fill(w) ==
    /\ writer[w].pc = "fill"
    /\ ring' = [s \in DOMAIN ring |-> IF s \in Slots(w) THEN writer[w].pos ELSE ring[s]]
    /\ writer' = [writer EXCEPT ![w] = Outside]
    /\ UNCHANGED <<writePos, readPos, enabled, lapped>>

TraceNext ==
    \/ \E chs \in SUBSET Channel : EnableChannel(chs)
    \/ \E w \in Writer :
         \/ \E ch \in Channel, n \in Sizes : Record(w, ch, n)
         \/ Compare(w)
         \/ PushReadPos(w)
         \/ ClearEvent(w)
         \/ Fill(w)

TraceSpec == TraceInit /\ [][TraceNext]_traceVars

-----------------------------------------------------------------------------
(* Properties.                                                             *)

\* However writers that overlapped have left read_pos_ - behind the ring,
\* ahead of a writer, wrapped around - one event that is recorded alone puts
\* it right: Query then sees every slot at most once.
WindowHeals ==
    [][\A w \in Writer :
         Allocating(w) /\ ~Allocating(w)' /\ writer[w].alone =>
             writePos' - readPos' <= RingSize]_traceVars

\* When nobody is recording, and no writer was so slow that its slot was given
\* out again, the newest RingSize slots hold the events they were given to,
\* none of them half written, extra data included.
EventsKept ==
    ~lapped /\ (\A w \in Writer : writer[w].pc = "idle") =>
        \A p \in 0..writePos - 1 :
            p >= writePos - RingSize => \E n \in Sizes : ring[p % RingSize] \in (p - n + 1)..p
=============================================================================
