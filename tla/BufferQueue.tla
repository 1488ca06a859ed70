----------------------------- MODULE BufferQueue -----------------------------
(***************************************************************************)
(* The display service's buffer queue and the screen view that polls it.   *)
(*                                                                         *)
(* Guest threads dequeue a slot, draw into it and queue it; a guest        *)
(* compositor may acquire and release slots; the view's draw callback      *)
(* tests the new-frame flag, asks for the current frame buffer and clears  *)
(* the flag.  Every handler holds the queue's mutex; the flag is atomic on *)
(* its own.  The age of a slot counts the frames queued since its own.     *)
(***************************************************************************)
EXTENDS Naturals, FiniteSets

CONSTANTS
  NumSlots,   \* BufferQueue::NUM_SLOTS
  Producer,   \* guest threads that draw
  Canceler,   \* the producers that may cancel a dequeued slot
  Consumer,   \* guest threads that acquire
  MaxHeld     \* slots a producer keeps dequeued at a time

ASSUME QueueAssumption ==
  /\ NumSlots \in Nat \ {0}
  /\ MaxHeld \in Nat \ {0}
  /\ Producer \cap Consumer = {}

Slot == 0 .. NumSlots - 1
SlotState == {"FREE", "DEQUEUED", "QUEUED", "ACQUIRED"}

VARIABLES
  state,     \* Slot::state
  next,      \* next_dequeue_slot
  connected, \* BufferQueue::connected
  newFrame,  \* g_vi_new_frame
  view,      \* where drawInMTKView is
  shown,     \* the slot whose memory the view shows; slot 0 is at FB_ADDR
  held,      \* slots each producer got from DequeueBuffer and has not returned
  acquired,  \* slots each consumer got from AcquireBuffer and has not returned
  age,       \* history: frames queued since the slot's own, NumSlots and more alike
  users      \* history: the threads that have taken a slot from the queue

vars == <<state, next, connected, newFrame, view, shown, held, acquired, age,
          users>>
otherVars == <<connected, newFrame, view, shown>>

TypeOK ==
  /\ state \in [Slot -> SlotState]
  /\ next \in 0 .. NumSlots
  /\ connected \in BOOLEAN
  /\ newFrame \in BOOLEAN
  /\ view \in {"idle", "new", "fetched"}
  /\ shown \in Slot
  /\ held \in [Producer -> SUBSET Slot]
  /\ acquired \in [Consumer -> SUBSET Slot]
  /\ age \in [Slot -> 0 .. NumSlots]
  /\ users \subseteq Producer \cup Consumer

Init ==
  /\ state = [s \in Slot |-> "FREE"]
  /\ next = 0
  /\ connected = FALSE
  /\ newFrame = FALSE
  /\ view = "idle"
  /\ shown = 0
  /\ held = [p \in Producer |-> {}]
  /\ acquired = [c \in Consumer |-> {}]
  /\ age = [s \in Slot |-> NumSlots]
  /\ users = {}

----------------------------------------------------------------------------
Reusable(s) == state[s] \in {"FREE", "ACQUIRED"}

(* The slot k places after next_dequeue_slot.                              *)
Turn(k) == (next + k) % NumSlots

(* Mutant: the forced reuse always takes the first slot.                   *)
IsDequeueSlotZero(s) ==
  \/ \E k \in Slot : /\ s = Turn(k) /\ Reusable(s)
                     /\ \A j \in Slot : j < k => ~Reusable(Turn(j))
  \/ s = 0 /\ \A r \in Slot : ~Reusable(r)

(* HandleDequeueBuffer picks the first reusable slot in turn; if there is  *)
(* none, the next one whatever its state.                                  *)
IsDequeueSlot(s) ==
  \/ \E k \in Slot : /\ s = Turn(k) /\ Reusable(s)
                     /\ \A j \in Slot : j < k => ~Reusable(Turn(j))
  \/ s = Turn(0) /\ \A r \in Slot : ~Reusable(r)

DequeueBuffer(p) ==
  \E s \in Slot :
    /\ IsDequeueSlot(s)
    /\ state' = [state EXCEPT ![s] = "DEQUEUED"]
    /\ next' = s + 1
    /\ held' = [held EXCEPT ![p] = @ \cup {s}]
    /\ users' = users \cup {p}
    /\ UNCHANGED <<otherVars, acquired, age>>

(* Mutant: the slot is announced but not marked as queued.                 *)
QueueUnmarked(p, s) ==
  /\ s \in held[p]
  /\ newFrame' = TRUE
  /\ held' = [held EXCEPT ![p] = @ \ {s}]
  /\ age' = [age EXCEPT ![s] = 0]
  /\ UNCHANGED <<state, next, connected, view, shown, acquired, users>>

(* HandleQueueBuffer takes the producer's word for the slot.               *)
QueueBuffer(p, s) ==
  /\ s \in held[p]
  /\ state' = [state EXCEPT ![s] = "QUEUED"]
  /\ newFrame' = TRUE
  /\ held' = [held EXCEPT ![p] = @ \ {s}]
  /\ age' = [r \in Slot |-> IF r = s THEN 0
                             ELSE IF age[r] < NumSlots THEN age[r] + 1 ELSE NumSlots]
  /\ UNCHANGED <<next, connected, view, shown, acquired, users>>

(* Mutant: the canceled slot is not freed.                                 *)
CancelKeeps(p, s) ==
  /\ s \in held[p]
  /\ held' = [held EXCEPT ![p] = @ \ {s}]
  /\ UNCHANGED <<otherVars, state, next, acquired, age, users>>

CancelBuffer(p, s) ==
  /\ s \in held[p]
  /\ state' = [state EXCEPT ![s] = "FREE"]
  /\ held' = [held EXCEPT ![p] = @ \ {s}]
  /\ UNCHANGED <<otherVars, next, acquired, age, users>>

(* HandleAcquireBuffer takes the queued slot with the lowest index.        *)
FirstIn(s, states) ==
  state[s] \in states /\ \A r \in Slot : r < s => state[r] \notin states

AcquireBuffer(c) ==
  \E s \in Slot :
    /\ FirstIn(s, {"QUEUED"})
    /\ state' = [state EXCEPT ![s] = "ACQUIRED"]
    /\ acquired' = [acquired EXCEPT ![c] = @ \cup {s}]
    /\ users' = users \cup {c}
    /\ UNCHANGED <<otherVars, next, held, age>>

(* HandleReleaseBuffer frees the slot whatever its state.                  *)
ReleaseBuffer(c, s) ==
  /\ s \in acquired[c]
  /\ state' = [state EXCEPT ![s] = "FREE"]
  /\ acquired' = [acquired EXCEPT ![c] = @ \ {s}]
  /\ UNCHANGED <<otherVars, next, held, age, users>>

(* HandleConnect and HandleDisconnect; no other handler looks at the flag. *)
Connect ==
  /\ connected' = TRUE
  /\ UNCHANGED <<state, next, newFrame, view, shown, held, acquired, age, users>>

Disconnect ==
  /\ connected' = FALSE
  /\ UNCHANGED <<state, next, newFrame, view, shown, held, acquired, age, users>>

----------------------------------------------------------------------------
(* drawInMTKView: Vi_HasNewFrame, Vi_GetCurrentFramebuffer with            *)
(* SetFramebufferSource, Vi_ConsumeNewFrame.                               *)
HasNewFrame ==
  /\ view = "idle" /\ newFrame
  /\ view' = "new"
  /\ UNCHANGED <<state, next, connected, newFrame, shown, held, acquired, age,
                 users>>

(* The lowest slot that is queued or acquired, else FB_ADDR, slot 0.       *)
IsCurrent(s) ==
  \/ FirstIn(s, {"QUEUED", "ACQUIRED"})
  \/ s = 0 /\ \A r \in Slot : state[r] \notin {"QUEUED", "ACQUIRED"}

GetCurrentFramebuffer ==
  /\ view = "new"
  /\ \E s \in Slot : IsCurrent(s) /\ shown' = s
  /\ view' = "fetched"
  /\ UNCHANGED <<state, next, connected, newFrame, held, acquired, age, users>>

ConsumeNewFrame ==
  /\ view = "fetched"
  /\ newFrame' = FALSE
  /\ view' = "idle"
  /\ UNCHANGED <<state, next, connected, shown, held, acquired, age, users>>

View == HasNewFrame \/ GetCurrentFramebuffer \/ ConsumeNewFrame

(* A producer keeps at most MaxHeld slots and hands each of them back.     *)
Produce(p) ==
  \/ Cardinality(held[p]) < MaxHeld /\ DequeueBuffer(p)
  \/ \E s \in Slot : QueueBuffer(p, s)
  \/ p \in Canceler /\ \E s \in Slot : CancelBuffer(p, s)

Consume(c) == AcquireBuffer(c) \/ \E s \in Slot : ReleaseBuffer(c, s)

Next ==
  \/ \E p \in Producer : Produce(p)
  \/ \E c \in Consumer : Consume(c)
  \/ Connect \/ Disconnect
  \/ View

Spec == Init /\ [][Next]_vars

----------------------------------------------------------------------------
(* Properties                                                              *)

(* No slot is stuck: one that is dequeued is kept by a producer that can   *)
(* queue or cancel it, one that is acquired by a compositor that can       *)
(* release it.  It holds although the forced reuse in DequeueBuffer and    *)
(* the unchecked QueueBuffer, CancelBuffer and ReleaseBuffer may give one  *)
(* slot several owners.                                                    *)
NoSlotStuck ==
  \A s \in Slot :
    /\ state[s] = "DEQUEUED" => \E p \in Producer : s \in held[p]
    /\ state[s] = "ACQUIRED" => \E c \in Consumer : s \in acquired[c]

(* A single thread draws, and no compositor has touched the queue.         *)
Solo == \A u, v \in users : u = v /\ u \in Producer

(* While one thread draws alone, the slots it keeps are exactly the ones   *)
(* the queue believes dequeued, so that no frame that waits in the queue   *)
(* is being redrawn, the forced reuse in DequeueBuffer included.  A second *)
(* thread breaks it.                                                       *)
HeldIsDequeued ==
  Solo => \A s \in Slot :
    state[s] = "DEQUEUED" <=> \E p \in Producer : s \in held[p]

(* When the forced reuse overruns queued frames it overwrites the oldest:  *)
(* the frames that wait are among the last NumSlots ones, all different.   *)
(* It holds for a thread that draws alone, one frame at a time, and never  *)
(* cancels; one that keeps two slots and queues them out of turn may leave *)
(* a frame behind.                                                         *)
OldestRecycled ==
  MaxHeld = 1 /\ Solo /\ users \cap Canceler = {} =>
    /\ \A s \in Slot : state[s] = "QUEUED" => age[s] < NumSlots
    /\ \A r, s \in Slot : r # s /\ age[r] < NumSlots => age[r] # age[s]

=============================================================================
