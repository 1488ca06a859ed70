-------------------------- MODULE BufferQueueProofs --------------------------
(* Slot ownership in the display's buffer queue, for any number of slots,  *)
(* producers and compositors.                                              *)
EXTENDS BufferQueue, FiniteSetTheorems, TLAPS

USE DEF Slot, SlotState

(* Type correctness of the queue, the view and their clients.              *)
THEOREM TypeCorrect == Spec => []TypeOK
<1>1. Init => TypeOK
  <2> SUFFICES ASSUME Init PROVE TypeOK
    OBVIOUS
  <2>1. 0 \in Slot /\ 0 \in 0 .. NumSlots /\ NumSlots \in 0 .. NumSlots
    BY QueueAssumption
  <2>2. state \in [Slot -> SlotState] /\ age \in [Slot -> 0 .. NumSlots]
    BY <2>1 DEF Init
  <2> QED BY <2>1, <2>2 DEF Init, TypeOK
<1>2. TypeOK /\ [Next]_vars => TypeOK'
  <2> SUFFICES ASSUME TypeOK, [Next]_vars PROVE TypeOK'
    OBVIOUS
  <2> USE QueueAssumption DEF TypeOK, otherVars
  <2>1. ASSUME NEW p \in Producer, DequeueBuffer(p) PROVE TypeOK'
    <3>1. PICK s \in Slot :
            /\ state' = [state EXCEPT ![s] = "DEQUEUED"]
            /\ next' = s + 1
            /\ held' = [held EXCEPT ![p] = @ \cup {s}]
            /\ users' = users \cup {p}
            /\ UNCHANGED <<otherVars, acquired, age>>
      BY <2>1 DEF DequeueBuffer
    <3> QED BY <3>1
  <2>2. ASSUME NEW p \in Producer, NEW s \in Slot, QueueBuffer(p, s) PROVE TypeOK'
    <3>1. \A r \in Slot :
            (IF r = s THEN 0 ELSE IF age[r] < NumSlots THEN age[r] + 1 ELSE NumSlots)
              \in 0 .. NumSlots
      OBVIOUS
    <3>2. age' \in [Slot -> 0 .. NumSlots]
      BY <2>2, <3>1 DEF QueueBuffer
    <3> QED BY <2>2, <3>2 DEF QueueBuffer
  <2>3. ASSUME NEW p \in Producer, NEW s \in Slot, CancelBuffer(p, s) PROVE TypeOK'
    BY <2>3 DEF CancelBuffer
  <2>4. ASSUME NEW c \in Consumer, AcquireBuffer(c) PROVE TypeOK'
    BY <2>4 DEF AcquireBuffer
  <2>5. ASSUME NEW c \in Consumer, NEW s \in Slot, ReleaseBuffer(c, s) PROVE TypeOK'
    BY <2>5 DEF ReleaseBuffer
  <2>6. CASE Connect \/ Disconnect
    BY <2>6 DEF Connect, Disconnect
  <2>7. CASE View
    BY <2>7 DEF View, HasNewFrame, GetCurrentFramebuffer, ConsumeNewFrame
  <2>8. CASE UNCHANGED vars
    BY <2>8 DEF vars
  <2> QED
    BY <2>1, <2>2, <2>3, <2>4, <2>5, <2>6, <2>7, <2>8 DEF Next, Produce, Consume
<1> QED
  BY <1>1, <1>2, PTL DEF Spec

(* No slot of the queue is ever stuck without an owner that can return it, *)
(* whatever the producers and compositors do.                              *)
THEOREM SlotsReturnable == Spec => []NoSlotStuck
<1>1. Init => NoSlotStuck
  BY DEF Init, NoSlotStuck
<1>2. TypeOK /\ NoSlotStuck /\ [Next]_vars => NoSlotStuck'
  <2> SUFFICES ASSUME TypeOK, NoSlotStuck, [Next]_vars PROVE NoSlotStuck'
    OBVIOUS
  <2> USE DEF TypeOK, NoSlotStuck, otherVars
  <2>1. ASSUME NEW p \in Producer, DequeueBuffer(p) PROVE NoSlotStuck'
    BY <2>1 DEF DequeueBuffer
  <2>2. ASSUME NEW p \in Producer, NEW s \in Slot, QueueBuffer(p, s)
        PROVE  NoSlotStuck'
    BY <2>2 DEF QueueBuffer
  <2>3. ASSUME NEW p \in Producer, NEW s \in Slot, CancelBuffer(p, s)
        PROVE  NoSlotStuck'
    BY <2>3 DEF CancelBuffer
  <2>4. ASSUME NEW c \in Consumer, AcquireBuffer(c) PROVE NoSlotStuck'
    BY <2>4 DEF AcquireBuffer
  <2>5. ASSUME NEW c \in Consumer, NEW s \in Slot, ReleaseBuffer(c, s)
        PROVE  NoSlotStuck'
    BY <2>5 DEF ReleaseBuffer
  <2>6. CASE Connect \/ Disconnect
    BY <2>6 DEF Connect, Disconnect
  <2>7. CASE View
    BY <2>7 DEF View, HasNewFrame, GetCurrentFramebuffer, ConsumeNewFrame
  <2>8. CASE UNCHANGED vars
    BY <2>8 DEF vars
  <2> QED
    BY <2>1, <2>2, <2>3, <2>4, <2>5, <2>6, <2>7, <2>8 DEF Next, Produce, Consume
<1> QED
  BY <1>1, <1>2, TypeCorrect, PTL DEF Spec

(* Only users of the queue hold slots: the strengthening that makes the    *)
(* next property inductive.                                                *)
UsersHold ==
  /\ \A p \in Producer : p \notin users => held[p] = {}
  /\ \A c \in Consumer : c \notin users => acquired[c] = {}

LEMMA UsersOwn == Spec => [](UsersHold /\ HeldIsDequeued)
<1> DEFINE Inv == UsersHold /\ HeldIsDequeued
<1>1. Init => Inv
  BY DEF Init, HeldIsDequeued, UsersHold
<1>2. TypeOK /\ Inv /\ [Next]_vars => Inv'
  <2> SUFFICES ASSUME TypeOK, Inv, [Next]_vars PROVE Inv'
    OBVIOUS
  <2> USE QueueAssumption DEF TypeOK, HeldIsDequeued, UsersHold, Solo, otherVars
  <2>1. ASSUME NEW p \in Producer, DequeueBuffer(p) PROVE Inv'
    BY <2>1 DEF DequeueBuffer
  <2>2. ASSUME NEW p \in Producer, NEW s \in Slot, QueueBuffer(p, s)
        PROVE  Inv'
    <3>1. /\ s \in held[p]
          /\ state' = [state EXCEPT ![s] = "QUEUED"]
          /\ held' = [held EXCEPT ![p] = @ \ {s}]
          /\ acquired' = acquired /\ users' = users
      BY <2>2 DEF QueueBuffer
    <3>2. UsersHold'
      BY <3>1
    <3>3. ASSUME Solo PROVE \A q \in Producer : q # p => held[q] = {}
      BY <3>1, <3>3
    <3>4. HeldIsDequeued'
      BY <3>1, <3>3
    <3> QED BY <3>2, <3>4
  <2>3. ASSUME NEW p \in Producer, NEW s \in Slot, CancelBuffer(p, s)
        PROVE  Inv'
    BY <2>3 DEF CancelBuffer
  <2>4. ASSUME NEW c \in Consumer, AcquireBuffer(c) PROVE Inv'
    BY <2>4 DEF AcquireBuffer
  <2>5. ASSUME NEW c \in Consumer, NEW s \in Slot, ReleaseBuffer(c, s)
        PROVE  Inv'
    BY <2>5 DEF ReleaseBuffer
  <2>6. CASE Connect \/ Disconnect
    BY <2>6 DEF Connect, Disconnect
  <2>7. CASE View
    BY <2>7 DEF View, HasNewFrame, GetCurrentFramebuffer, ConsumeNewFrame
  <2>8. CASE UNCHANGED vars
    BY <2>8 DEF vars
  <2> QED
    BY <2>1, <2>2, <2>3, <2>4, <2>5, <2>6, <2>7, <2>8 DEF Next, Produce, Consume
<1> QED
  BY <1>1, <1>2, TypeCorrect, PTL DEF Spec

(* While one producer draws alone, the slots being drawn are the dequeued  *)
(* ones, for any number of slots: no frame that waits in the queue is      *)
(* being redrawn, the forced reuse of DequeueBuffer included.              *)
THEOREM SingleProducerOwns == Spec => []HeldIsDequeued
BY UsersOwn, PTL

----------------------------------------------------------------------------
(* One thread that draws one frame at a time.                              *)

InTurn == MaxHeld = 1 /\ Solo /\ users \cap Canceler = {}

(* How many slots were dequeued since slot s, going round.                 *)
Behind(s) == IF s < next THEN next - 1 - s ELSE NumSlots + next - 1 - s

Busy == \E s \in Slot : state[s] = "DEQUEUED"

(* Slots are dequeued strictly in turn: the one being drawn was the last,  *)
(* the untouched ones come next, and a frame that waits is as many frames  *)
(* old as slots were dequeued since its own, bar the one being drawn.      *)
RoundRobin ==
  InTurn => \A s \in Slot :
    /\ state[s] # "ACQUIRED"
    /\ state[s] = "DEQUEUED" => s + 1 = next
    /\ state[s] = "FREE" => next <= s /\ \A r \in Slot : next <= r => state[r] = "FREE"
    /\ state[s] = "QUEUED" => age[s] = IF Busy THEN Behind(s) - 1 ELSE Behind(s)

(* No two of the last NumSlots frames are in slots of the same age; this   *)
(* much needs no discipline.                                               *)
AgesDiffer ==
  \A r, s \in Slot : r # s /\ age[r] < NumSlots => age[r] # age[s]

(* A turn that reaches the last slot starts over.                          *)
LEMMA FirstTurn ==
  ASSUME next \in 0..NumSlots
  PROVE  Turn(0) = IF next < NumSlots THEN next ELSE 0
<1>1. NumSlots \in Nat \ {0} /\ next \in Nat /\ next + 0 = next
  BY QueueAssumption
<1>2. \A x \in Nat : x < NumSlots => x % NumSlots = x
  BY <1>1
<1>3. NumSlots % NumSlots = 0
  BY <1>1
<1> QED BY <1>1, <1>2, <1>3 DEF Turn

(* A thread that keeps one slot at a time dequeues only empty-handed.      *)
LEMMA EmptyHanded ==
  ASSUME TypeOK, MaxHeld = 1, NEW p \in Producer, Cardinality(held[p]) < MaxHeld
  PROVE  held[p] = {}
<1>1. NumSlots \in Nat \ {0} /\ NumSlots - 1 \in Int /\ 0 \in Int
  BY QueueAssumption
<1>2. IsFiniteSet(Slot)
  BY <1>1, FS_Interval DEF Slot
<1>3. held[p] \in SUBSET Slot
  BY DEF TypeOK
<1>4. IsFiniteSet(held[p])
  BY <1>2, <1>3, FS_Subset
<1>5. Cardinality(held[p]) \in Nat
  BY <1>4, FS_CardinalityType
<1>6. Cardinality(held[p]) = 0
  BY <1>5
<1> QED BY <1>4, <1>6, FS_EmptySet

(* A step that leaves slots, turn and ages alone.                          *)
LEMMA RoundFrame ==
  ASSUME RoundRobin, UNCHANGED <<state, next, age, users>>
  PROVE  RoundRobin'
BY DEF RoundRobin, InTurn, Solo, Busy, Behind

(* The next slot in turn is taken, free or not.                            *)
LEMMA RoundDequeue ==
  ASSUME TypeOK, UsersHold, HeldIsDequeued, RoundRobin, NEW p \in Producer,
         Cardinality(held[p]) < MaxHeld, DequeueBuffer(p)
  PROVE  RoundRobin'
<1> SUFFICES ASSUME InTurn' PROVE RoundRobin'
  BY DEF RoundRobin
<1>1. PICK s \in Slot :
        /\ IsDequeueSlot(s)
        /\ state' = [state EXCEPT ![s] = "DEQUEUED"]
        /\ next' = s + 1
        /\ users' = users \cup {p} /\ age' = age
  BY DEF DequeueBuffer
<1>2. InTurn /\ users \subseteq {p}
  BY <1>1 DEF InTurn, Solo
<1>3. held[p] = {}
  BY <1>2, EmptyHanded DEF InTurn
<1>4. ~Busy
  <2>1. \A q \in Producer : held[q] = {}
    BY <1>2, <1>3 DEF UsersHold
  <2> QED BY <1>2, <2>1 DEF Busy, HeldIsDequeued, InTurn
<1>5. \A r \in Slot : state[r] \in {"FREE", "QUEUED"}
  BY <1>2, <1>4 DEF RoundRobin, Busy, TypeOK
<1>6. NumSlots \in Nat \ {0} /\ next \in 0..NumSlots
  BY QueueAssumption DEF TypeOK
<1>7. s = Turn(0)
  <2>1. CASE \A r \in Slot : ~Reusable(r)
    BY <1>1, <2>1 DEF IsDequeueSlot
  <2>2. CASE \E r \in Slot : Reusable(r)
    <3>1. PICK r \in Slot : state[r] = "FREE"
      BY <1>5, <2>2 DEF Reusable
    <3>2. next \in Slot /\ state[next] = "FREE"
      BY <1>2, <1>6, <3>1 DEF RoundRobin
    <3>3. Turn(0) = next /\ Reusable(Turn(0))
      BY <1>6, <3>2, FirstTurn DEF Reusable
    <3>4. PICK k \in Slot : /\ s = Turn(k) /\ Reusable(s)
                            /\ \A j \in Slot : j < k => ~Reusable(Turn(j))
      BY <1>1, <2>2 DEF IsDequeueSlot
    <3>5. 0 \in Slot /\ ~(0 < k)
      BY <1>6, <3>3, <3>4
    <3>6. k = 0
      BY <1>6, <3>5
    <3> QED BY <3>4, <3>6
  <2> QED BY <2>1, <2>2
<1>8. s = IF next < NumSlots THEN next ELSE 0
  BY <1>6, <1>7, FirstTurn
<1>9. \A r \in Slot : state'[r] = IF r = s THEN "DEQUEUED" ELSE state[r]
  BY <1>1 DEF TypeOK
<1>10. Busy'
  BY <1>9 DEF Busy
<1>11. ASSUME NEW r \in Slot, r # s
       PROVE  Behind(r)' = Behind(r) + 1
  BY <1>1, <1>6, <1>8, <1>11 DEF Behind
<1>12. ASSUME NEW r \in Slot
       PROVE  /\ state'[r] # "ACQUIRED"
              /\ state'[r] = "DEQUEUED" => r + 1 = next'
              /\ state'[r] = "FREE" =>
                   next' <= r /\ \A q \in Slot : next' <= q => state'[q] = "FREE"
              /\ state'[r] = "QUEUED" => age'[r] = IF Busy' THEN Behind(r)' - 1 ELSE Behind(r)'
  <2>1. CASE r = s
    BY <1>1, <1>9, <2>1
  <2>2. CASE r # s
    <3>1. state'[r] = state[r] /\ state[r] \in {"FREE", "QUEUED"}
      BY <1>5, <1>9, <2>2
    <3>2. state[r] = "FREE" =>
            next' <= r /\ \A q \in Slot : next' <= q => state'[q] = "FREE"
      <4> SUFFICES ASSUME state[r] = "FREE"
                   PROVE  next' <= r /\ \A q \in Slot : next' <= q => state'[q] = "FREE"
        OBVIOUS
      <4>1. next <= r /\ \A q \in Slot : next <= q => state[q] = "FREE"
        BY <1>2 DEF RoundRobin
      <4>2. s = next
        BY <1>6, <1>8, <4>1
      <4>3. next' <= r
        BY <1>1, <1>6, <2>2, <4>1, <4>2
      <4>4. \A q \in Slot : next' <= q => next <= q /\ q # s
        BY <1>1, <1>6, <4>2
      <4> QED BY <1>9, <4>1, <4>3, <4>4
    <3>3. state[r] = "QUEUED" => age[r] = Behind(r)
      BY <1>2, <1>4 DEF RoundRobin
    <3>4. Behind(r)' - 1 = Behind(r)
      <4>1. Behind(r) \in Int
        BY <1>6 DEF Behind
      <4> QED BY <1>11, <2>2, <4>1
    <3> QED BY <1>1, <1>10, <3>1, <3>2, <3>3, <3>4
  <2> QED BY <2>1, <2>2
<1> QED BY <1>12 DEF RoundRobin

(* The one frame being drawn is queued.                                    *)
LEMMA RoundQueue ==
  ASSUME TypeOK, UsersHold, HeldIsDequeued, RoundRobin, NEW p \in Producer,
         NEW s \in Slot, QueueBuffer(p, s)
  PROVE  RoundRobin'
<1> SUFFICES ASSUME InTurn' PROVE RoundRobin'
  BY DEF RoundRobin
<1>1. /\ s \in held[p]
      /\ state' = [state EXCEPT ![s] = "QUEUED"]
      /\ age' = [r \in Slot |-> IF r = s THEN 0
                                ELSE IF age[r] < NumSlots THEN age[r] + 1 ELSE NumSlots]
      /\ next' = next /\ users' = users
  BY DEF QueueBuffer
<1>2. InTurn
  BY <1>1 DEF InTurn, Solo
<1>3. state[s] = "DEQUEUED" /\ s + 1 = next /\ Busy
  BY <1>1, <1>2 DEF InTurn, HeldIsDequeued, RoundRobin, Busy
<1>4. NumSlots \in Nat \ {0} /\ next \in 0..NumSlots
  BY QueueAssumption DEF TypeOK
<1>5. \A r \in Slot : r # s => state[r] # "DEQUEUED"
  BY <1>2, <1>3, <1>4 DEF RoundRobin
<1>6. \A r \in Slot : state'[r] = IF r = s THEN "QUEUED" ELSE state[r]
  BY <1>1 DEF TypeOK
<1>7. ~Busy'
  BY <1>5, <1>6 DEF Busy
<1>8. \A r \in Slot : Behind(r)' = Behind(r) /\ Behind(r) \in 0..(NumSlots - 1)
  BY <1>1, <1>4 DEF Behind
<1>9. ASSUME NEW r \in Slot
      PROVE  /\ state'[r] # "ACQUIRED"
             /\ state'[r] = "DEQUEUED" => r + 1 = next'
             /\ state'[r] = "FREE" =>
                  next' <= r /\ \A q \in Slot : next' <= q => state'[q] = "FREE"
             /\ state'[r] = "QUEUED" => age'[r] = IF Busy' THEN Behind(r)' - 1 ELSE Behind(r)'
  <2>1. CASE r = s
    <3>1. Behind(s) = 0
      BY <1>3, <1>4 DEF Behind
    <3> QED BY <1>1, <1>6, <1>7, <1>8, <2>1, <3>1
  <2>2. CASE r # s
    <3>1. state'[r] = state[r] /\ state[r] # "DEQUEUED" /\ state[r] # "ACQUIRED"
      BY <1>2, <1>5, <1>6, <2>2 DEF RoundRobin
    <3>2. state[r] = "FREE" =>
            next' <= r /\ \A q \in Slot : next' <= q => state'[q] = "FREE"
      <4>1. \A q \in Slot : next <= q => q # s
        BY <1>3, <1>4
      <4> QED BY <1>1, <1>2, <1>6, <4>1 DEF RoundRobin
    <3>3. state[r] = "QUEUED" => age'[r] = Behind(r)
      <4>1. state[r] = "QUEUED" => age[r] = Behind(r) - 1
        BY <1>2, <1>3 DEF RoundRobin
      <4>2. Behind(r) - 1 < NumSlots /\ Behind(r) \in Int
        BY <1>4, <1>8
      <4> QED BY <1>1, <2>2, <4>1, <4>2
    <3> QED BY <1>7, <1>8, <3>1, <3>2, <3>3
  <2> QED BY <2>1, <2>2
<1> QED BY <1>9 DEF RoundRobin

LEMMA RoundStep ==
  ASSUME TypeOK, UsersHold, HeldIsDequeued, RoundRobin, [Next]_vars
  PROVE  RoundRobin'
<1>1. ASSUME NEW p \in Producer, Produce(p) PROVE RoundRobin'
  <2>1. CASE Cardinality(held[p]) < MaxHeld /\ DequeueBuffer(p)
    BY <2>1, RoundDequeue
  <2>2. ASSUME NEW s \in Slot, QueueBuffer(p, s) PROVE RoundRobin'
    BY <2>2, RoundQueue
  <2>3. ASSUME NEW s \in Slot, CancelBuffer(p, s), p \in Canceler PROVE RoundRobin'
    <3>1. p \in users /\ users' = users
      BY <2>3 DEF CancelBuffer, UsersHold
    <3> QED BY <2>3, <3>1 DEF RoundRobin, InTurn
  <2> QED BY <1>1, <2>1, <2>2, <2>3 DEF Produce
<1>2. ASSUME NEW c \in Consumer, Consume(c) PROVE RoundRobin'
  <2>1. c \in users'
    BY <1>2 DEF Consume, AcquireBuffer, ReleaseBuffer, UsersHold
  <2>2. ~Solo'
    BY <2>1, QueueAssumption DEF Solo
  <2> QED BY <2>2 DEF RoundRobin, InTurn
<1>3. CASE Connect \/ Disconnect \/ View \/ UNCHANGED vars
  BY <1>3, RoundFrame DEF Connect, Disconnect, View, HasNewFrame, GetCurrentFramebuffer,
                          ConsumeNewFrame, vars
<1> QED BY <1>1, <1>2, <1>3 DEF Next

LEMMA AgesStep ==
  ASSUME TypeOK, AgesDiffer, [Next]_vars
  PROVE  AgesDiffer'
<1>1. NumSlots \in Nat \ {0} /\ age \in [Slot -> 0..NumSlots]
  BY QueueAssumption DEF TypeOK
<1>2. ASSUME UNCHANGED age PROVE AgesDiffer'
  BY <1>2 DEF AgesDiffer
<1>3. ASSUME NEW p \in Producer, NEW s \in Slot, QueueBuffer(p, s) PROVE AgesDiffer'
  <2>1. \A r \in Slot : age'[r] = IF r = s THEN 0
                                  ELSE IF age[r] < NumSlots THEN age[r] + 1 ELSE NumSlots
    BY <1>3 DEF QueueBuffer
  <2>2. ASSUME NEW q \in Slot, NEW r \in Slot, q # r, age'[q] < NumSlots
        PROVE  age'[q] # age'[r]
    <3>1. age[q] \in 0..NumSlots /\ age[r] \in 0..NumSlots
      BY <1>1
    <3>2. age[q] < NumSlots => age[q] # age[r]
      BY <2>2 DEF AgesDiffer
    <3>3. CASE q = s
      <4>1. age'[q] = 0 /\ age'[r] = IF age[r] < NumSlots THEN age[r] + 1 ELSE NumSlots
        BY <2>1, <2>2, <3>3
      <4> QED BY <1>1, <3>1, <4>1
    <3>4. CASE q # s
      <4>1. age'[q] = age[q] + 1 /\ age[q] < NumSlots
        BY <1>1, <2>1, <2>2, <3>1, <3>4
      <4>2. age'[r] = IF r = s THEN 0 ELSE IF age[r] < NumSlots THEN age[r] + 1 ELSE NumSlots
        BY <2>1
      <4> QED BY SMTT(20), <1>1, <2>2, <3>1, <3>2, <4>1, <4>2
    <3> QED BY <3>3, <3>4
  <2> QED BY <2>2 DEF AgesDiffer
<1> QED BY <1>2, <1>3
  DEF Next, vars, Produce, DequeueBuffer, CancelBuffer, Consume, AcquireBuffer, ReleaseBuffer,
      Connect, Disconnect, View, HasNewFrame, GetCurrentFramebuffer, ConsumeNewFrame

(* For any number of slots, the frames that wait in the queue of a thread  *)
(* that draws alone, one frame at a time, are the newest ones: the forced  *)
(* reuse of DequeueBuffer overwrites the oldest.                           *)
THEOREM ForcedReuseTakesOldest == Spec => []OldestRecycled
<1>1. Init => RoundRobin /\ AgesDiffer
  <2> SUFFICES ASSUME Init PROVE RoundRobin /\ AgesDiffer
    OBVIOUS
  <2>1. \A s \in Slot : state[s] = "FREE" /\ age[s] = NumSlots /\ next <= s
    BY QueueAssumption DEF Init
  <2>2. ~(NumSlots < NumSlots)
    BY QueueAssumption
  <2> QED BY <2>1, <2>2 DEF RoundRobin, AgesDiffer
<1>2. TypeOK /\ UsersHold /\ HeldIsDequeued /\ RoundRobin /\ AgesDiffer /\ [Next]_vars
      => RoundRobin' /\ AgesDiffer'
  BY RoundStep, AgesStep
<1>3. TypeOK /\ RoundRobin /\ AgesDiffer => OldestRecycled
  <2> SUFFICES ASSUME TypeOK, RoundRobin, AgesDiffer, InTurn
               PROVE  \A s \in Slot : state[s] = "QUEUED" => age[s] < NumSlots
    BY DEF OldestRecycled, InTurn, AgesDiffer
  <2>1. NumSlots \in Nat \ {0} /\ next \in 0..NumSlots
    BY QueueAssumption DEF TypeOK
  <2>2. \A s \in Slot : Behind(s) \in Int /\ Behind(s) < NumSlots /\ Behind(s) - 1 < NumSlots
    BY <2>1 DEF Behind
  <2> QED BY <2>2 DEF RoundRobin
<1> QED BY <1>1, <1>2, <1>3, TypeCorrect, UsersOwn, PTL DEF Spec
=============================================================================
