---------------------------- MODULE HandleTable -----------------------------
(***************************************************************************)
(* The handle table (kernel/Kernel.h, KHandleTable) under the supervisor   *)
(* calls of several guest threads that create, use and close objects.  The *)
(* table's lock covers one Create, Get or Close; Get returns a bare        *)
(* pointer, which is used after the unlock, and Close deletes the object.  *)
(*                                                                         *)
(* Objects are numbered as they are allocated.  Object 1 is the shared     *)
(* memory of the HID service, to which every GetSharedMemoryHandle makes   *)
(* one more handle.                                                        *)
(***************************************************************************)
EXTENDS Naturals, Sequences, FiniteSets

CONSTANTS
    Caller,      \* guest threads
    MaxHandles   \* bound on next_index_

Kinds == {"Event", "Thread", "SharedMemory", "TransferMemory", "InterruptEvent",
          "DeviceAddressSpace", "ResourceLimit", "Session", "Port"}

\* Kinds whose supervisor call makes two objects, one for each end.
Paired == {"Session", "Port"}

VARIABLES
    objects,     \* objects_: handle (less HANDLE_BASE) -> object
    nextIndex,   \* next_index_
    alive,       \* of each object ever allocated: it is not deleted yet
    caller       \* of each thread: the supervisor call it is in

handleVars == <<objects, nextIndex, alive, caller>>

Hid == 1
Free == [pc |-> "guest", object |-> 0, raced |-> FALSE]

\* HidService's constructor.
HandleInit ==
    /\ alive = <<TRUE>>
    /\ objects = [h \in {1} |-> Hid] /\ nextIndex = 2
    /\ caller = [c \in Caller |-> Free]

-----------------------------------------------------------------------------

Guest(c) == caller[c].pc = "guest"

\* objects_[handle] = object
With(handle, object) ==
    [h \in DOMAIN objects \cup {handle} |-> IF h = handle THEN object ELSE objects[h]]

\* Mutant: the next handle is taken from the size of the table.
CreateBySize(object) ==
    LET handle == 1 + Cardinality(DOMAIN objects) IN
    /\ nextIndex <= MaxHandles
    /\ objects' = With(handle, object)
    /\ nextIndex' = nextIndex + 1

Create(object) ==
    /\ nextIndex <= MaxHandles
    /\ objects' = With(nextIndex, object)
    /\ nextIndex' = nextIndex + 1

Allocate ==
    /\ alive' = Append(alive, TRUE)
    /\ Create(Len(alive) + 1)

\* SvcCreateEvent, SvcCreateThread, SvcCreateSharedMemory and so on.
CreateObject(c, kind) ==
    /\ Guest(c)
    /\ Allocate
    /\ caller' = IF kind \in Paired THEN [caller EXCEPT ![c].pc = "pair"] ELSE caller

\* SvcCreateSession and SvcCreatePort: the second end.
CreatePeer(c) ==
    /\ caller[c].pc = "pair"
    /\ Allocate
    /\ caller' = [caller EXCEPT ![c] = Free]

\* HidAppletResourceService, command 0.
GetSharedMemoryHandle(c) ==
    /\ Guest(c)
    /\ Create(Hid)
    /\ UNCHANGED <<alive, caller>>

\* A supervisor call that looks a handle up (SvcGetThreadPriority,
\* SvcSignalEvent, SvcMapSharedMemory, ...) and goes on with the object.
Get(c, h) ==
    /\ Guest(c) /\ h \in DOMAIN objects
    /\ caller' = [caller EXCEPT ![c].pc = "uses", ![c].object = objects[h]]
    /\ UNCHANGED <<objects, nextIndex, alive>>

Use(c) ==
    /\ caller[c].pc = "uses"
    /\ caller' = [caller EXCEPT ![c] = Free]
    /\ UNCHANGED <<objects, nextIndex, alive>>

\* Everyone who has the object's pointer now has a stale one.
Delete(o) ==
    /\ alive' = [alive EXCEPT ![o] = FALSE]
    /\ caller' = [c \in Caller |->
         IF caller[c].pc = "uses" /\ caller[c].object = o
         THEN [caller[c] EXCEPT !.raced = TRUE] ELSE caller[c]]

\* Mutant: the entry stays in the table.
CloseKeepsEntry(c, h) ==
    /\ Guest(c) /\ h \in DOMAIN objects
    /\ Delete(objects[h])
    /\ UNCHANGED <<objects, nextIndex>>

\* SvcCloseHandle.
Close(c, h) ==
    /\ Guest(c) /\ h \in DOMAIN objects
    /\ Delete(objects[h])
    /\ objects' = [g \in DOMAIN objects \ {h} |-> objects[g]]
    /\ UNCHANGED nextIndex

HandleNext ==
    \E c \in Caller :
      \/ \E kind \in Kinds : CreateObject(c, kind)
      \/ CreatePeer(c)
      \/ GetSharedMemoryHandle(c)
      \/ \E h \in DOMAIN objects : Get(c, h) \/ Close(c, h)
      \/ Use(c)

HandleSpec == HandleInit /\ [][HandleNext]_handleVars

-----------------------------------------------------------------------------
(* Properties.                                                             *)

\* A handle in the table is the only one of its object, and the object exists:
\* it is deleted once, and who uses it sees a deleted object only when another
\* thread closed the handle during the call.  The HID memory, with a handle
\* for every client, is the known exception.
HandleOwnsObject ==
    /\ \A h \in DOMAIN objects : objects[h] # Hid =>
         /\ alive[objects[h]]
         /\ \A g \in DOMAIN objects : objects[g] = objects[h] => g = h
    /\ \A c \in Caller : caller[c].pc = "uses" /\ caller[c].object # Hid =>
         alive[caller[c].object] \/ caller[c].raced

\* A handle names the same object as long as it is open, and a handle that was
\* closed is never given out again: a thread that still has it gets nothing,
\* not someone else's object.
HandlesStable ==
    [][\A h \in 1..MaxHandles :
         h < nextIndex /\ h \in DOMAIN objects' =>
             h \in DOMAIN objects /\ objects'[h] = objects[h]]_handleVars
=============================================================================
