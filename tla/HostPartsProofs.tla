-------------------------- MODULE HostPartsProofs ---------------------------
(***************************************************************************)
(* Safety of four parts of the host that share no state: KEvent with its   *)
(* threads, the handle table, the debugger with its server, and the trace  *)
(* ring.                                                                   *)
(***************************************************************************)
EXTENDS KEventWait, HandleTable, DebugServer, TraceRing, TLAPS

-----------------------------------------------------------------------------
(* KEvent::Wait, for any number of threads.                                *)

(* Type correctness of the state of one KEvent and its threads.            *)
THEOREM TypeCorrect == Spec => []TypeOK
<1>1. Init => TypeOK
  BY DEF Init, TypeOK, PcSet, TimeoutKinds
<1>2. TypeOK /\ [Next]_vars => TypeOK'
  BY TimeoutsAssumption
  DEF TypeOK, Next, vars, Wait, Retest, SpuriousWakeup, Expire, Return,
      Signal, NotifyAll, Clear, Inside, Goto, PcSet, TimeoutKinds
<1> QED
  BY <1>1, <1>2, PTL DEF Spec

(* KEvent::Signal never misses a thread in KEvent::Wait: with the flag set *)
(* and a thread asleep, a notify_all is still to come.  The formula is     *)
(* inductive because a thread goes to sleep only when the flag is down,    *)
(* and notify_all leaves no one asleep.                                    *)
THEOREM NoWakeupLost == Spec => []NoLostWakeup
<1>1. Init => NoLostWakeup
  BY DEF Init, NoLostWakeup
<1>2. TypeOK /\ NoLostWakeup /\ [Next]_vars => NoLostWakeup'
  <2> SUFFICES ASSUME TypeOK, NoLostWakeup, [Next]_vars
               PROVE  NoLostWakeup'
    OBVIOUS
  <2> USE DEF TypeOK, NoLostWakeup, Goto
  <2>1. ASSUME NEW t \in Thread, NEW to \in Timeouts, Wait(t, to)
        PROVE  NoLostWakeup'
    BY <2>1 DEF Wait
  <2>2. ASSUME NEW t \in Thread, Signal(t) PROVE NoLostWakeup'
    BY <2>2 DEF Signal
  <2>3. ASSUME NEW t \in Thread, Clear(t) PROVE NoLostWakeup'
    BY <2>3 DEF Clear
  <2>4. ASSUME NEW t \in Thread, SpuriousWakeup(t) PROVE NoLostWakeup'
    BY <2>4 DEF SpuriousWakeup
  <2>5. ASSUME NEW t \in Thread, Expire(t) PROVE NoLostWakeup'
    BY <2>5 DEF Expire
  <2>6. ASSUME NEW t \in Thread, Inside(t) PROVE NoLostWakeup'
    <3>1. CASE Retest(t)    BY <3>1 DEF Retest
    <3>2. CASE Return(t)    BY <3>2 DEF Return
    <3>3. CASE NotifyAll(t) BY <3>3 DEF NotifyAll
    <3> QED BY <2>6, <3>1, <3>2, <3>3 DEF Inside
  <2>7. CASE UNCHANGED vars
    BY <2>7 DEF vars
  <2> QED BY <2>1, <2>2, <2>3, <2>4, <2>5, <2>6, <2>7 DEF Next
<1> QED
  BY <1>1, <1>2, TypeCorrect, PTL DEF Spec

(* KEvent::Wait with a negative timeout never reports TimedOut.            *)
THEOREM InfiniteWaitSucceeds == Spec => []InfiniteNeverTimesOut
<1>1. Init => InfiniteNeverTimesOut
  BY DEF Init, InfiniteNeverTimesOut
<1>2. TypeOK /\ InfiniteNeverTimesOut /\ [Next]_vars => InfiniteNeverTimesOut'
  BY DEF TypeOK, InfiniteNeverTimesOut, Next, vars, Wait, Retest,
         SpuriousWakeup, Expire, Return, Signal, NotifyAll, Clear, Inside, Goto
<1> QED
  BY <1>1, <1>2, TypeCorrect, PTL DEF Spec

(* The status a thread has in the abstract event, as a function of where   *)
(* KEvent::Wait or Signal is.                                              *)
StatusOf == [t \in Thread |-> Status(t)]

(* A step that moves one thread only changes the status of that thread.    *)
LEMMA OneStatus ==
  ASSUME TypeOK, TypeOK', NEW t \in Thread, NEW s, Status(t)' = s,
         \A u \in Thread \ {t} : pc[u]' = pc[u] /\ timeout[u]' = timeout[u]
  PROVE  StatusOf' = [StatusOf EXCEPT ![t] = s]
<1>1. \A u \in Thread \ {t} : Status(u)' = Status(u)
  BY DEF Status
<1> QED
  BY <1>1 DEF StatusOf

(* Every step of KEvent::Wait, Signal and Clear is a step of the abstract  *)
(* event or leaves it as it is.                                            *)
LEMMA StepsOfEvent ==
  TypeOK /\ TypeOK' /\ [Next]_vars => [Event!Next]_(Event!vars)
<1> SUFFICES ASSUME TypeOK, TypeOK', [Next]_vars
             PROVE  Event!Next \/ UNCHANGED <<signaled, StatusOf>>
  BY DEF Event!vars, StatusOf
<1> DEFINE Kept(t) == \A u \in Thread \ {t} : pc[u]' = pc[u] /\ timeout[u]' = timeout[u]
<1>a. ASSUME NEW t \in Thread, NEW to \in Timeouts, Wait(t, to)
      PROVE  Event!Call(t)
  <2>1. Kept(t) /\ Status(t) = "out" /\ to \in TimeoutKinds
    BY <1>a, TimeoutsAssumption DEF Wait, Goto, TypeOK, Status
  <2>2. pc[t]' = (IF signaled THEN "success" ELSE IF to = "zero" THEN "timedout" ELSE "asleep")
        /\ timeout[t]' = to
    BY <1>a DEF Wait, Goto, TypeOK
  <2>3. \/ Status(t)' = (IF signaled THEN "success" ELSE "timedout")
        \/ ~signaled /\ Status(t)' \in {"limited", "unlimited"}
    BY <2>2 DEF Status
  <2>4. StatusOf' = [StatusOf EXCEPT ![t] = Status(t)']
    BY <2>1, OneStatus
  <2> QED
    BY <1>a, <2>1, <2>3, <2>4 DEF Event!Call, StatusOf, Wait
<1>b. ASSUME NEW t \in Thread, Signal(t) \/ Clear(t) \/ NotifyAll(t) \/ SpuriousWakeup(t)
      PROVE  StatusOf' = StatusOf
  <2>1. \A u \in Thread : Status(u)' = Status(u)
    BY <1>b DEF Signal, Clear, NotifyAll, SpuriousWakeup, Goto, TypeOK, PcSet, Status
  <2> QED
    BY <2>1 DEF StatusOf
<1>c. ASSUME NEW t \in Thread, Retest(t) \/ Expire(t)
      PROVE  Event!Succeed(t) \/ Event!TimeOut(t) \/ UNCHANGED <<signaled, StatusOf>>
  <2>1. Kept(t) /\ signaled' = signaled /\ timeout' = timeout
    BY <1>c DEF Retest, Expire, Goto, TypeOK
  <2>2. Status(t) = (IF timeout[t] = "finite" THEN "limited" ELSE "unlimited")
    BY <1>c DEF Retest, Expire, Status
  <2>3. StatusOf' = [StatusOf EXCEPT ![t] = Status(t)']
    BY <2>1, OneStatus
  <2>4. CASE signaled
    <3>1. Status(t)' = "success"
      BY <1>c, <2>4 DEF Retest, Expire, Goto, TypeOK, Status
    <3> QED
      BY <2>1, <2>2, <2>3, <2>4, <3>1 DEF Event!Succeed, Event!Become, StatusOf
  <2>5. CASE ~signaled /\ Retest(t)
    <3>1. Status(t)' = Status(t)
      BY <2>1, <2>2, <2>5 DEF Retest, Goto, TypeOK, Status
    <3> QED
      BY <2>1, <2>3, <3>1 DEF StatusOf
  <2>6. CASE ~signaled /\ Expire(t)
    <3>1. Status(t)' = "timedout" /\ timeout[t] = "finite"
      BY <2>6 DEF Expire, Goto, TypeOK, Status
    <3> QED
      BY <2>1, <2>2, <2>3, <2>6, <3>1 DEF Event!TimeOut, Event!Become, StatusOf
  <2> QED
    BY <1>c, <2>4, <2>5, <2>6
<1>d. ASSUME NEW t \in Thread, Return(t)
      PROVE  Event!Leave(t)
  <2>1. Kept(t) /\ Status(t) \in {"success", "timedout"} /\ Status(t)' = "out"
    BY <1>d DEF Return, Goto, TypeOK, Status
  <2>2. StatusOf' = [StatusOf EXCEPT ![t] = "out"]
    BY <2>1, OneStatus
  <2> QED
    BY <1>d, <2>1, <2>2 DEF Event!Leave, Event!Become, StatusOf, Return
<1>e. CASE UNCHANGED vars
  BY <1>e DEF vars, StatusOf, Status
<1>f. ASSUME NEW t \in Thread, Signal(t) \/ Clear(t)
      PROVE  Event!Raise \/ Event!Lower
  BY <1>b, <1>f DEF Signal, Clear, Event!Raise, Event!Lower, StatusOf
<1>g. ASSUME NEW t \in Thread, NotifyAll(t) \/ SpuriousWakeup(t)
      PROVE  UNCHANGED <<signaled, StatusOf>>
  BY <1>b, <1>g DEF NotifyAll, SpuriousWakeup
<1> QED
  BY <1>a, <1>c, <1>d, <1>e, <1>f, <1>g DEF Next, Inside, Event!Next

(* KEvent::Wait, Signal and Clear implement the abstract event step by     *)
(* step: a wait succeeds only while the event is signaled, times out only  *)
(* while it is not and only with a limit, and no notification, spurious    *)
(* wakeup or retest shows through.  (That every wait ends, the fairness    *)
(* part of ImplementsEvent, is left to TLC.)                               *)
THEOREM StepsImplementEvent == Spec => Event!Init /\ [][Event!Next]_(Event!vars)
<1>1. Init => Event!Init
  BY DEF Init, Event!Init, Status
<1> QED
  BY <1>1, StepsOfEvent, TypeCorrect, PTL DEF Spec

-----------------------------------------------------------------------------
(* The handle table.                                                       *)

CallerRecord == [pc: {"guest", "pair", "uses"}, object: Nat, raced: BOOLEAN]

\* Handles are below next_index_, and whatever refers to an object refers to
\* one that was allocated.
HandleTypeOK ==
    /\ nextIndex \in Nat
    /\ alive \in Seq(BOOLEAN) /\ Len(alive) >= 1
    /\ caller \in [Caller -> CallerRecord]
    /\ \A h \in DOMAIN objects : h \in Nat /\ h < nextIndex /\ objects[h] \in 1..Len(alive)
    /\ \A c \in Caller : caller[c].pc = "uses" => caller[c].object \in 1..Len(alive)

HandleInv == HandleTypeOK /\ HandleOwnsObject

(* KHandleTable::Create adds one entry, at an index not used before.       *)
LEMMA CreateAdds ==
  ASSUME HandleTypeOK, NEW o, Create(o)
  PROVE  /\ nextIndex \notin DOMAIN objects /\ nextIndex' = nextIndex + 1
         /\ DOMAIN objects' = DOMAIN objects \cup {nextIndex}
         /\ objects'[nextIndex] = o
         /\ \A h \in DOMAIN objects : objects'[h] = objects[h]
BY DEF HandleTypeOK, Create, With

(* A new object: KHandleTable::Create of something just allocated.         *)
LEMMA AllocateKeeps ==
  ASSUME HandleInv, Allocate, caller' \in [Caller -> CallerRecord],
         \A c \in Caller : caller'[c].pc = "uses" => caller'[c] = caller[c]
  PROVE  HandleInv'
<1> DEFINE n == Len(alive) + 1
<1>1. n \in Nat /\ Create(n) /\ alive' \in Seq(BOOLEAN) /\ Len(alive') = n
      /\ alive'[n] = TRUE /\ \A o \in 1..Len(alive) : alive'[o] = alive[o]
  BY DEF HandleInv, HandleTypeOK, Allocate
<1>2. /\ nextIndex \notin DOMAIN objects /\ nextIndex' = nextIndex + 1
      /\ DOMAIN objects' = DOMAIN objects \cup {nextIndex}
      /\ objects'[nextIndex] = n
      /\ \A h \in DOMAIN objects : objects'[h] = objects[h]
  BY <1>1, CreateAdds DEF HandleInv
<1> HIDE DEF n
<1>3. HandleTypeOK'
  <2>1. \A h \in DOMAIN objects' : h \in Nat /\ h < nextIndex' /\ objects'[h] \in 1..Len(alive')
    BY <1>1, <1>2 DEF HandleInv, HandleTypeOK, n
  <2>2. \A c \in Caller : caller'[c].pc = "uses" => caller'[c].object \in 1..Len(alive')
    BY <1>1 DEF HandleInv, HandleTypeOK, n
  <2> QED
    BY <1>1, <1>2, <2>1, <2>2 DEF HandleInv, HandleTypeOK
<1>4. ASSUME NEW h \in DOMAIN objects', objects'[h] # Hid
      PROVE  /\ alive'[objects'[h]]
             /\ \A g \in DOMAIN objects' : objects'[g] = objects'[h] => g = h
  BY <1>1, <1>2, <1>4 DEF HandleInv, HandleTypeOK, HandleOwnsObject, n
<1>5. ASSUME NEW c \in Caller, caller'[c].pc = "uses", caller'[c].object # Hid
      PROVE  alive'[caller'[c].object] \/ caller'[c].raced
  BY <1>1, <1>5 DEF HandleInv, HandleTypeOK, HandleOwnsObject
<1> QED
  BY <1>3, <1>4, <1>5 DEF HandleInv, HandleOwnsObject

(* SvcCloseHandle deletes the object and erases its only entry.            *)
LEMMA CloseKeeps ==
  ASSUME HandleInv, NEW c \in Caller, NEW h \in DOMAIN objects, Close(c, h)
  PROVE  HandleInv'
<1> DEFINE o == objects[h]
<1>1. o \in 1..Len(alive) /\ alive' = [alive EXCEPT ![o] = FALSE]
  BY DEF HandleInv, HandleTypeOK, Close, Delete
<1>2. alive' \in Seq(BOOLEAN) /\ Len(alive') = Len(alive)
      /\ \A i \in 1..Len(alive) : i # o => alive'[i] = alive[i]
  BY <1>1 DEF HandleInv, HandleTypeOK
<1>3. DOMAIN objects' = DOMAIN objects \ {h} /\ \A g \in DOMAIN objects' : objects'[g] = objects[g]
  BY DEF Close
<1>4. \A d \in Caller : caller'[d] = IF caller[d].pc = "uses" /\ caller[d].object = o
                                     THEN [caller[d] EXCEPT !.raced = TRUE] ELSE caller[d]
  BY DEF Close, Delete
<1> HIDE DEF o
<1>5. ASSUME NEW d \in Caller
      PROVE  /\ caller'[d] \in CallerRecord
             /\ caller'[d].pc = caller[d].pc /\ caller'[d].object = caller[d].object
             /\ caller'[d].raced = (caller[d].raced \/ (caller[d].pc = "uses" /\ caller[d].object = o))
  <2>1. caller[d] \in CallerRecord
    BY DEF HandleInv, HandleTypeOK
  <2> QED
    BY <1>4, <2>1 DEF CallerRecord
<1>6. caller' \in [Caller -> CallerRecord]
  <2>1. caller' = [d \in Caller |-> caller'[d]]
    BY DEF Close, Delete
  <2> QED
    BY <1>5, <2>1
<1>7. HandleTypeOK'
  BY <1>2, <1>3, <1>5, <1>6 DEF HandleInv, HandleTypeOK, Close
<1>8. ASSUME NEW g \in DOMAIN objects', objects'[g] # Hid
      PROVE  /\ alive'[objects'[g]]
             /\ \A f \in DOMAIN objects' : objects'[f] = objects'[g] => f = g
  <2>1. objects'[g] = objects[g] /\ objects[g] \in 1..Len(alive) /\ g # h
    BY <1>3 DEF HandleInv, HandleTypeOK
  <2>2. objects[g] # o
    BY <1>8, <2>1, <1>3 DEF HandleInv, HandleOwnsObject, o
  <2> QED
    BY <1>8, <2>1, <2>2, <1>2, <1>3 DEF HandleInv, HandleOwnsObject
<1>9. ASSUME NEW d \in Caller, caller'[d].pc = "uses", caller'[d].object # Hid
      PROVE  alive'[caller'[d].object] \/ caller'[d].raced
  BY <1>2, <1>5, <1>9 DEF HandleInv, HandleTypeOK, HandleOwnsObject
<1> QED
  BY <1>7, <1>8, <1>9 DEF HandleInv, HandleOwnsObject

(* Every supervisor call on the handle table keeps handles and objects     *)
(* one to one.                                                             *)
LEMMA HandleInductive == HandleInv /\ [HandleNext]_handleVars => HandleInv'
<1> SUFFICES ASSUME HandleInv, [HandleNext]_handleVars PROVE HandleInv'
  OBVIOUS
<1>0. caller \in [Caller -> CallerRecord]
  BY DEF HandleInv, HandleTypeOK
<1>1. ASSUME NEW c \in Caller, NEW kind \in Kinds, CreateObject(c, kind)
      PROVE  HandleInv'
  <2>1. caller' \in [Caller -> CallerRecord] /\ \A d \in Caller : caller'[d].pc = "uses" => caller'[d] = caller[d]
    BY <1>0, <1>1 DEF CreateObject, CallerRecord
  <2> QED
    BY <1>1, <2>1, AllocateKeeps DEF CreateObject
<1>2. ASSUME NEW c \in Caller, CreatePeer(c)
      PROVE  HandleInv'
  <2>1. caller' \in [Caller -> CallerRecord] /\ \A d \in Caller : caller'[d].pc = "uses" => caller'[d] = caller[d]
    BY <1>0, <1>2 DEF CreatePeer, Free, CallerRecord
  <2> QED
    BY <1>2, <2>1, AllocateKeeps DEF CreatePeer
<1>3. ASSUME NEW c \in Caller, GetSharedMemoryHandle(c)
      PROVE  HandleInv'
  <2>1. /\ nextIndex \notin DOMAIN objects /\ nextIndex' = nextIndex + 1
        /\ DOMAIN objects' = DOMAIN objects \cup {nextIndex}
        /\ objects'[nextIndex] = Hid
        /\ \A h \in DOMAIN objects : objects'[h] = objects[h]
    BY <1>3, CreateAdds DEF GetSharedMemoryHandle, HandleInv
  <2>2. HandleTypeOK'
    BY <1>3, <2>1 DEF GetSharedMemoryHandle, HandleInv, HandleTypeOK, Hid
  <2>3. HandleOwnsObject'
    BY <1>3, <2>1 DEF GetSharedMemoryHandle, HandleInv, HandleOwnsObject
  <2> QED
    BY <2>2, <2>3 DEF HandleInv
<1>4. ASSUME NEW c \in Caller, NEW h \in DOMAIN objects, Get(c, h)
      PROVE  HandleInv'
  <2>1. /\ caller' \in [Caller -> CallerRecord]
        /\ caller'[c].object = objects[h]
        /\ \A d \in Caller \ {c} : caller'[d] = caller[d]
    <3>1. objects[h] \in Nat
      BY DEF HandleInv, HandleTypeOK
    <3> QED
      BY <1>0, <1>4, <3>1 DEF Get, CallerRecord
  <2>2. HandleTypeOK'
    BY <1>4, <2>1 DEF Get, HandleInv, HandleTypeOK
  <2>3. HandleOwnsObject'
    BY <1>4, <2>1 DEF Get, HandleInv, HandleOwnsObject
  <2> QED
    BY <2>2, <2>3 DEF HandleInv
<1>5. ASSUME NEW c \in Caller, Use(c)
      PROVE  HandleInv'
  <2>1. /\ caller' \in [Caller -> CallerRecord]
        /\ caller'[c].pc = "guest"
        /\ \A d \in Caller \ {c} : caller'[d] = caller[d]
    BY <1>0, <1>5 DEF Use, Free, CallerRecord
  <2> QED
    BY <1>5, <2>1 DEF Use, HandleInv, HandleTypeOK, HandleOwnsObject
<1>6. CASE UNCHANGED handleVars
  BY <1>6 DEF handleVars, HandleInv, HandleTypeOK, HandleOwnsObject
<1> QED
  BY <1>1, <1>2, <1>3, <1>4, <1>5, <1>6, CloseKeeps DEF HandleNext

(* The invariant of the table, from HidService's constructor on.           *)
LEMMA HandleInvariant == HandleSpec => []HandleInv
<1>1. HandleInit => HandleInv
  <2> SUFFICES ASSUME HandleInit PROVE HandleInv
    OBVIOUS
  <2>1. DOMAIN objects = {1} /\ objects[1] = 1 /\ nextIndex = 2
    BY DEF HandleInit, Hid
  <2>2. alive \in Seq(BOOLEAN) /\ Len(alive) = 1 /\ caller \in [Caller -> CallerRecord]
        /\ \A c \in Caller : caller[c].pc = "guest"
    BY DEF HandleInit, Free, CallerRecord
  <2> QED
    BY <2>1, <2>2 DEF HandleInv, HandleTypeOK, HandleOwnsObject, Hid
<1> QED
  BY <1>1, HandleInductive, PTL DEF HandleSpec

(* KHandleTable, whatever supervisor calls of whatever threads interleave: *)
(* an open handle (of anything but the HID memory) owns a live object, and *)
(* no one uses a deleted one unless its handle was closed meanwhile.       *)
THEOREM OpenHandlesOwn == HandleSpec => []HandleOwnsObject
<1>1. HandleInv => HandleOwnsObject
  BY DEF HandleInv
<1> QED
  BY <1>1, HandleInvariant, PTL

(* KHandleTable never gives a handle to a second object.                   *)
THEOREM HandlesNotReused == HandleSpec => HandlesStable
<1>1. ASSUME HandleInv, [HandleNext]_handleVars, NEW h \in 1..MaxHandles,
             h < nextIndex, h \in DOMAIN objects'
      PROVE  h \in DOMAIN objects /\ objects'[h] = objects[h]
  <2>1. ASSUME NEW o, Create(o) PROVE h \in DOMAIN objects /\ objects'[h] = objects[h]
    BY <1>1, <2>1, CreateAdds DEF HandleInv, HandleTypeOK
  <2>2. ASSUME NEW c \in Caller, NEW g \in DOMAIN objects, Close(c, g)
        PROVE  h \in DOMAIN objects /\ objects'[h] = objects[h]
    BY <1>1, <2>2 DEF Close
  <2>3. CASE UNCHANGED objects
    BY <1>1, <2>3
  <2> QED
    BY <1>1, <2>1, <2>2, <2>3
    DEF HandleNext, handleVars, CreateObject, CreatePeer, Allocate,
        GetSharedMemoryHandle, Get, Use
<1> DEFINE Kept == \A h \in 1..MaxHandles :
                     h < nextIndex /\ h \in DOMAIN objects' =>
                       h \in DOMAIN objects /\ objects'[h] = objects[h]
<1>2. HandleInv /\ [HandleNext]_handleVars => [Kept]_handleVars
  BY <1>1
<1> QED
  BY <1>2, HandleInvariant, PTL DEF HandleSpec, HandlesStable

-----------------------------------------------------------------------------
(* The debugger.                                                           *)

DebuggerTypeOK ==
    /\ code = [a \in Code |-> code[a]]
    /\ Breakpoint \subseteq Code
    /\ \A a \in Breakpoint : breakpoints[a].patched \in BOOLEAN

DebuggerInv == DebuggerTypeOK /\ CodeRestored

(* A BRK is written only where no breakpoint is patched: what SetBreakpoint *)
(* and ApplyBreakpoints save is the guest's own instruction.               *)
LEMMA PatchKeeps ==
  ASSUME DebuggerInv, NEW A \in SUBSET Code, A \cap Patched = {}, Patch(A),
         UNCHANGED <<image, orphans>>
  PROVE  DebuggerInv'
<1>1. /\ Breakpoint' = Breakpoint \cup A
      /\ \A a \in A : breakpoints'[a].original = code[a] /\ breakpoints'[a].patched = TRUE
      /\ \A a \in Breakpoint \ A : breakpoints'[a] = breakpoints[a]
      /\ code' = [a \in Code |-> IF a \in A THEN "brk" ELSE code[a]]
  BY DEF Patch, Breakpoint
<1>2. Patched' = Patched \cup A
  BY <1>1 DEF Patched, DebuggerInv, DebuggerTypeOK
<1>3. DebuggerTypeOK'
  <2>1. code' = [a \in Code |-> code'[a]]
    BY <1>1
  <2>2. \A a \in Breakpoint' : breakpoints'[a].patched \in BOOLEAN
    BY <1>1 DEF DebuggerInv, DebuggerTypeOK
  <2> QED
    BY <1>1, <2>1, <2>2 DEF DebuggerInv, DebuggerTypeOK
<1>4. ASSUME NEW a \in Code \ orphans'
      PROVE  IF a \in Patched' THEN code'[a] = "brk" /\ breakpoints'[a].original = image'[a]
             ELSE code'[a] = image'[a]
  <2>0. a \in Code \ orphans /\ image' = image
    OBVIOUS
  <2>1. CASE a \in A
    BY <1>1, <1>2, <2>0, <2>1 DEF DebuggerInv, CodeRestored
  <2>2. CASE a \in Patched \ A
    BY <1>1, <1>2, <2>0, <2>2 DEF DebuggerInv, CodeRestored, Patched
  <2>3. CASE a \notin Patched \cup A
    BY <1>1, <1>2, <2>0, <2>3 DEF DebuggerInv, CodeRestored
  <2> QED
    BY <2>1, <2>2, <2>3
<1> QED
  BY <1>3, <1>4 DEF DebuggerInv, CodeRestored

(* Debugger::SetBreakpoint.                                                *)
LEMMA SetBreakpointKeeps ==
  ASSUME DebuggerInv, NEW a \in Code, SetBreakpoint(a)
  PROVE  DebuggerInv'
<1>1. UNCHANGED <<image, orphans>>
  BY DEF SetBreakpoint
<1>2. CASE UNCHANGED <<breakpoints, code>>
  BY <1>1, <1>2 DEF DebuggerInv, DebuggerTypeOK, CodeRestored, Patched, Breakpoint
<1>3. CASE a \notin Breakpoint /\ Patch({a})
  <2>1. {a} \cap Patched = {} /\ {a} \in SUBSET Code
    BY <1>3 DEF Patched
  <2> QED
    BY <1>1, <1>3, <2>1, PatchKeeps
<1>4. CASE /\ a \notin Breakpoint
           /\ breakpoints' = [b \in Breakpoint \cup {a} |->
                IF b = a THEN [original |-> "zero", patched |-> FALSE] ELSE breakpoints[b]]
           /\ UNCHANGED code
  <2>1. /\ Breakpoint' = Breakpoint \cup {a} /\ breakpoints'[a].patched = FALSE
        /\ \A b \in Breakpoint : breakpoints'[b] = breakpoints[b]
    BY <1>4 DEF Breakpoint
  <2>2. Patched' = Patched
    BY <1>4, <2>1 DEF Patched
  <2>3. DebuggerTypeOK'
    BY <1>4, <2>1 DEF DebuggerInv, DebuggerTypeOK
  <2>4. CodeRestored'
    BY <1>1, <1>4, <2>1, <2>2 DEF DebuggerInv, CodeRestored, Patched
  <2> QED
    BY <2>3, <2>4 DEF DebuggerInv
<1> QED
  BY <1>2, <1>3, <1>4 DEF SetBreakpoint

(* Breakpoints that leave the table leave the others as they were.         *)
LEMMA ForgetShrinks ==
  ASSUME DebuggerTypeOK, NEW A, Forget(A)
  PROVE  /\ Breakpoint' = Breakpoint \ A /\ Patched' = Patched \ A
         /\ \A a \in Breakpoint' : breakpoints'[a] = breakpoints[a]
<1>1. Breakpoint' = Breakpoint \ A /\ \A a \in Breakpoint' : breakpoints'[a] = breakpoints[a]
  BY DEF Forget, Breakpoint
<1> QED
  BY <1>1 DEF Patched

(* Debugger::RemoveBreakpoint: the saved instruction goes back, or the     *)
(* address becomes an orphan.                                              *)
LEMMA RemoveBreakpointKeeps ==
  ASSUME DebuggerInv, NEW a \in Code, RemoveBreakpoint(a)
  PROVE  DebuggerInv'
<1> DEFINE word == breakpoints[a].original
<1>1. /\ Breakpoint' = Breakpoint \ {a} /\ Patched' = Patched \ {a}
      /\ \A b \in Breakpoint' : breakpoints'[b] = breakpoints[b]
  BY ForgetShrinks DEF RemoveBreakpoint, DebuggerInv
<1>2. a \in Breakpoint /\ image' = image
  BY DEF RemoveBreakpoint
<1>3. CASE a \in Patched /\ code' = [code EXCEPT ![a] = word] /\ UNCHANGED orphans
  <2>1. DebuggerTypeOK'
    BY <1>1, <1>3 DEF DebuggerInv, DebuggerTypeOK
  <2>2. \A b \in Code : code'[b] = IF b = a THEN word ELSE code[b]
    BY <1>3 DEF DebuggerInv, DebuggerTypeOK
  <2>3. CodeRestored'
    BY <1>1, <1>2, <1>3, <2>2 DEF DebuggerInv, CodeRestored, Patched
  <2> QED
    BY <2>1, <2>3 DEF DebuggerInv
<1>4. CASE orphans' = orphans \cup ({a} \cap Patched) /\ UNCHANGED code
  <2>1. DebuggerTypeOK'
    BY <1>1, <1>4 DEF DebuggerInv, DebuggerTypeOK
  <2>2. CodeRestored'
    BY <1>1, <1>2, <1>4 DEF DebuggerInv, CodeRestored, Patched
  <2> QED
    BY <2>1, <2>2 DEF DebuggerInv
<1> QED
  BY <1>3, <1>4 DEF RemoveBreakpoint

(* Debugger::ClearAllBreakpoints leaves the BRKs behind as orphans.        *)
LEMMA ClearAllKeeps ==
  ASSUME DebuggerInv, ClearAllBreakpoints
  PROVE  DebuggerInv'
<1>1. Breakpoint' = {} /\ Patched' = {}
  BY ForgetShrinks DEF ClearAllBreakpoints, DebuggerInv, Patched
<1>2. orphans' = orphans \cup Patched /\ code' = code /\ image' = image
  BY DEF ClearAllBreakpoints
<1> QED
  BY <1>1, <1>2 DEF DebuggerInv, DebuggerTypeOK, CodeRestored

(* ApplyBreakpoints, before the guest goes on.                             *)
LEMMA ResumeKeeps ==
  ASSUME DebuggerInv, NEW step, Resume(step)
  PROVE  DebuggerInv'
<1> DEFINE A == IF attached THEN Breakpoint \ Patched ELSE {}
<1>1. A \in SUBSET Code /\ A \cap Patched = {}
  BY DEF DebuggerInv, DebuggerTypeOK
<1>2. Patch(A) /\ UNCHANGED <<image, orphans>>
  BY DEF Resume, ApplyBreakpoints
<1> HIDE DEF A
<1> QED
  BY <1>1, <1>2, PatchKeeps

(* A game that is loaded, or the memory attached.                          *)
LEMMA GameKeeps ==
  ASSUME DebuggerInv, Game
  PROVE  DebuggerInv'
<1>1. CASE Attach
  BY <1>1 DEF Attach, DebuggerInv, DebuggerTypeOK, CodeRestored, Patched, Breakpoint
<1>2. ASSUME NEW i \in Images, Reload(i)
      PROVE  DebuggerInv'
  <2>1. code' = i /\ image' = i /\ orphans' = Patched /\ breakpoints' = breakpoints
    BY <1>2 DEF Reload
  <2>2. Patched' = Patched /\ Breakpoint' = Breakpoint
    BY <2>1 DEF Patched, Breakpoint
  <2>3. code' = [a \in Code |-> code'[a]]
    BY <2>1, ImagesAssumption
  <2> QED
    BY <2>1, <2>2, <2>3 DEF DebuggerInv, DebuggerTypeOK, CodeRestored
<1> QED
  BY <1>1, <1>2 DEF Game

(* A step that leaves the debugger alone.                                  *)
LEMMA DebuggerUnchanged ==
  ASSUME DebuggerInv, UNCHANGED <<image, code, breakpoints, orphans>>
  PROVE  DebuggerInv'
BY DEF DebuggerInv, DebuggerTypeOK, CodeRestored, Patched, Breakpoint

(* The server's commands and the panel's, in any order, keep the           *)
(* instructions of the guest.                                              *)
LEMMA DebuggerInductive == DebuggerInv /\ [DebugNext]_debugVars => DebuggerInv'
<1> SUFFICES ASSUME DebuggerInv, [DebugNext]_debugVars PROVE DebuggerInv'
  OBVIOUS
<1>1. CASE UNCHANGED debuggerVars
  BY <1>1, DebuggerUnchanged DEF debuggerVars
<1>0. CASE Pause
  BY <1>0, DebuggerUnchanged DEF Pause
<1>2. CASE Command
  BY <1>0, <1>1, <1>2, SetBreakpointKeeps, RemoveBreakpointKeeps, ResumeKeeps
  DEF Command, Continue, StepOver
<1>3. CASE Panel
  BY <1>0, <1>3, SetBreakpointKeeps, RemoveBreakpointKeeps, ResumeKeeps, ClearAllKeeps
  DEF Panel, Continue, StepOver
<1>4. CASE Game
  BY <1>4, GameKeeps
<1> QED
  BY <1>1, <1>2, <1>3, <1>4
  DEF DebugNext, debugVars, Start, ServerStep, Loop, Accept, Test, Read, Stop,
      Joined, Client

(* Debugger, driven by the panel and the debug server at once, with games  *)
(* loaded in between: where a breakpoint is patched the guest's own        *)
(* instruction is saved, everywhere else it is in memory, orphans aside.   *)
THEOREM InstructionsKept == DebugSpec => []CodeRestored
<1>1. DebugInit => DebuggerInv
  BY DEF DebugInit, DebuggerInit, NoImage, DebuggerInv, DebuggerTypeOK,
         CodeRestored, Patched, Breakpoint
<1>2. DebuggerInv => CodeRestored
  BY DEF DebuggerInv
<1> QED
  BY <1>1, <1>2, DebuggerInductive, PTL DEF DebugSpec

\* While Stop waits to join the server's thread, that thread is past its loop,
\* can take its next step, or reads from a client that is silent: it is never
\* left in accept, nor in a read whose client is gone.
StopNotStuck ==
    stop = "joining" =>
        \/ server.pc \in {"none", "loop", "test"}
        \/ At("accept") /\ ~server.socket
        \/ At("read") /\ client \in {"sent", "left", "connected"}

\* Who talks to whom at each place of the server's thread.
ServerInv ==
    /\ server \in [running: BOOLEAN, socket: BOOLEAN, pc: {"none", "loop", "accept", "test", "read"}]
    /\ stop \in {"no", "joining", "done"}
    /\ stop # "no" => ~server.running /\ ~server.socket
    /\ server.pc \in {"test", "read"} => client \in {"connected", "sent", "left"}

(* DebugServer::Stop closes the listening socket before it joins, and no   *)
(* connection outlives HandleClient: the join waits for nothing but a      *)
(* client that stays connected and silent.                                 *)
THEOREM JoinNotStuck == DebugSpec => []StopNotStuck
<1>1. DebugInit => ServerInv
  BY DEF DebugInit, ServerInit, ServerInv
<1>2. ServerInv /\ [DebugNext]_debugVars => ServerInv'
  <2> SUFFICES ASSUME ServerInv, [DebugNext]_debugVars PROVE ServerInv'
    OBVIOUS
  <2> USE DEF ServerInv, At, Goto_
  <2>1. CASE Start        BY <2>1 DEF Start
  <2>2. CASE Loop         BY <2>2 DEF Loop
  <2>3. CASE Accept       BY <2>3 DEF Accept
  <2>4. CASE Test         BY <2>4 DEF Test
  <2>5. CASE Read         BY <2>5 DEF Read
  <2>6. CASE Stop         BY <2>6 DEF Stop
  <2>7. CASE Joined       BY <2>7 DEF Joined
  <2>8. CASE Client       BY <2>8 DEF Client
  <2>9. CASE UNCHANGED serverVars
    BY <2>9 DEF serverVars
  <2> QED BY <2>1, <2>2, <2>3, <2>4, <2>5, <2>6, <2>7, <2>8, <2>9 DEF DebugNext, ServerStep, debugVars
<1>3. ServerInv => StopNotStuck
  BY DEF ServerInv, StopNotStuck, At
<1> QED BY <1>1, <1>2, <1>3, PTL DEF DebugSpec

-----------------------------------------------------------------------------
(* The trace ring.                                                         *)

WriterRecord == [pc: {"idle", "compare", "push", "clear", "fill"}, pos: Nat,
                 size: 1..RingSize, alone: BOOLEAN]

\* What a thread inside Record or RecordWithExtra has reserved.
Reserved(w) ==
    writer[w].pc # "idle" =>
      /\ writer[w].size \in Sizes
      /\ writer[w].pos + writer[w].size <= writePos
      /\ Allocating(w) /\ writer[w].alone => writer[w].pos + writer[w].size = writePos
      /\ ~lapped => writePos <= writer[w].pos + RingSize

TraceTypeOK ==
    /\ writePos \in Nat /\ readPos \in Int /\ lapped \in BOOLEAN
    /\ ring = [s \in 0..RingSize - 1 |-> ring[s]]
    /\ writer \in [Writer -> WriterRecord]
    /\ \A w \in Writer : Reserved(w)

Recent(p) == p \in 0..writePos - 1 /\ p >= writePos - RingSize
Filled(p) == \E n \in Sizes : ring[p % RingSize] \in (p - n + 1)..p
HeldBy(w, p) == writer[w].pc # "idle" /\ p \in writer[w].pos..writer[w].pos + writer[w].size - 1

\* Each of the newest slots holds its event or is still a writer's.
SlotsCovered == ~lapped => \A p \in Nat : Recent(p) => Filled(p) \/ \E w \in Writer : HeldBy(w, p)

TraceInv == TraceTypeOK /\ SlotsCovered

(* Division of positions by the size of the ring.                          *)
LEMMA Division ==
  ASSUME NEW p \in Int
  PROVE  /\ p \div RingSize \in Int /\ p % RingSize \in 0..RingSize - 1
         /\ p = RingSize * (p \div RingSize) + (p % RingSize)
BY TraceAssumption

(* Two positions less than a ring apart share a slot only if they are      *)
(* equal.                                                                  *)
LEMMA SlotInjective ==
  ASSUME NEW p \in Int, NEW q \in Int, p % RingSize = q % RingSize,
         p - q < RingSize, q - p < RingSize
  PROVE  p = q
<1> DEFINE d == (p \div RingSize) - (q \div RingSize)
<1>1. d \in Int /\ p - q = RingSize * d
  BY TraceAssumption, Division
<1> HIDE DEF d
<1>2. d > 0 => RingSize * d >= RingSize
  BY <1>1, TraceAssumption
<1>3. d < 0 => RingSize * d <= -RingSize
  BY <1>1, TraceAssumption
<1>4. d = 0
  BY <1>1, <1>2, <1>3, TraceAssumption
<1> QED
  BY <1>1, <1>4, TraceAssumption

(* The slot a recent position shares with one a writer holds is that       *)
(* position's own, as long as no writer was lapped.                        *)
LEMMA HeldSlot ==
  ASSUME TraceTypeOK, ~lapped, NEW w \in Writer, NEW p \in Nat, Recent(p),
         NEW q \in Nat, HeldBy(w, q), p % RingSize = q % RingSize
  PROVE  p = q
<1>1. writer[w].pos \in Nat /\ writer[w].size \in 1..RingSize
  BY DEF TraceTypeOK, WriterRecord
<1>2. q < writePos /\ writePos <= q + RingSize
  BY SMTT(20), <1>1, TraceAssumption DEF TraceTypeOK, Reserved, HeldBy
<1>3. p < writePos /\ writePos <= p + RingSize
  BY TraceAssumption DEF TraceTypeOK, Recent
<1>4. p - q < RingSize /\ q - p < RingSize
  BY <1>2, <1>3, TraceAssumption DEF TraceTypeOK
<1> QED
  BY <1>4, SlotInjective

(* TraceEngine::Record up to the fetch_add.                                *)
LEMMA RecordKeeps ==
  ASSUME TraceInv, NEW w \in Writer, NEW ch, NEW n \in Sizes, Record(w, ch, n)
  PROVE  TraceInv'
<1>1. n \in 1..RingSize /\ writePos' = writePos + n /\ writePos' \in Nat
      /\ UNCHANGED <<readPos, ring>> /\ writer[w].pc = "idle"
  BY TraceAssumption DEF Record, TraceInv, TraceTypeOK
<1>2. /\ writer'[w].pc = "compare" /\ writer'[w].pos = writePos /\ writer'[w].size = n
      /\ writer'[w] \in WriterRecord
  BY <1>1 DEF Record, WriterRecord, TraceInv, TraceTypeOK
<1>3. ASSUME NEW v \in Writer \ {w}
      PROVE  /\ writer'[v] \in WriterRecord /\ writer'[v].alone = FALSE
             /\ writer'[v].pc = writer[v].pc /\ writer'[v].pos = writer[v].pos
             /\ writer'[v].size = writer[v].size
  <2>1. writer'[v] = [writer[v] EXCEPT !.alone = FALSE] /\ writer[v] \in WriterRecord
    BY DEF Record, TraceInv, TraceTypeOK
  <2> QED
    BY <2>1 DEF WriterRecord
<1>4. writer' \in [Writer -> WriterRecord]
  <2>1. writer' = [v \in Writer |-> writer'[v]]
    BY DEF Record
  <2> QED
    BY <1>2, <1>3, <2>1
<1>5. /\ lapped' \in BOOLEAN
      /\ ~lapped' => ~lapped /\ \A v \in Writer : writer[v].pc # "idle" => ~(writePos' > writer[v].pos + RingSize)
  BY DEF Record, TraceInv, TraceTypeOK
<1>6. ASSUME NEW v \in Writer PROVE Reserved(v)'
  <2>1. CASE v = w
    BY <1>1, <1>2, <2>1, TraceAssumption DEF Reserved, TraceInv, TraceTypeOK
  <2>2. CASE v # w
    <3>1. writer[v].pos \in Nat /\ writer[v].size \in 1..RingSize
      BY DEF TraceInv, TraceTypeOK, WriterRecord
    <3>2. writer[v].pc # "idle" => writer[v].size \in Sizes /\ writer[v].pos + writer[v].size <= writePos
      BY DEF TraceInv, TraceTypeOK, Reserved
    <3>3. SUFFICES ASSUME writer[v].pc # "idle" PROVE Reserved(v)'
      BY <1>3, <2>2 DEF Reserved
    <3>4. writer[v].pos + writer[v].size <= writePos'
      BY <1>1, <3>1, <3>2, <3>3, TraceAssumption DEF TraceInv, TraceTypeOK
    <3>5. ~lapped' => writePos' <= writer[v].pos + RingSize
      BY <1>1, <1>5, <3>1, <3>3, TraceAssumption
    <3> QED
      BY <1>3, <2>2, <3>2, <3>3, <3>4, <3>5 DEF Reserved
  <2> QED
    BY <2>1, <2>2
<1>7. TraceTypeOK'
  BY <1>1, <1>4, <1>5, <1>6 DEF TraceInv, TraceTypeOK
<1>8. ASSUME ~lapped', NEW p \in Nat, Recent(p)' PROVE Filled(p)' \/ \E v \in Writer : HeldBy(v, p)'
  <2>1. CASE p >= writePos
    BY SMTT(20), <1>1, <1>2, <1>8, <2>1, TraceAssumption DEF Recent, HeldBy, TraceInv, TraceTypeOK
  <2>2. CASE p < writePos
    <3>1. Recent(p)
      BY <1>1, <1>8, <2>2, TraceAssumption DEF Recent, TraceInv, TraceTypeOK
    <3>2. Filled(p) \/ \E v \in Writer : HeldBy(v, p)
      BY <1>5, <1>8, <3>1 DEF TraceInv, SlotsCovered
    <3>3. Filled(p) => Filled(p)'
      BY <1>1 DEF Filled
    <3>4. ASSUME NEW v \in Writer, HeldBy(v, p) PROVE HeldBy(v, p)'
      BY <1>1, <1>3, <3>4 DEF HeldBy
    <3> QED
      BY <3>2, <3>3, <3>4
  <2> QED
    BY <1>8, <2>1, <2>2 DEF TraceInv, TraceTypeOK
<1> QED
  BY <1>7, <1>8 DEF TraceInv, SlotsCovered

(* A thread that moves on inside AllocateSlot, or clears its first slot,   *)
(* keeps what it has reserved.                                             *)
LEMMA MoveKeeps ==
  ASSUME TraceTypeOK, NEW w \in Writer, writer[w].pc # "idle",
         NEW label \in {"push", "clear", "fill"}, Move(w, label),
         label = "push" => Allocating(w),
         UNCHANGED <<writePos, lapped>>
  PROVE  /\ writer' \in [Writer -> WriterRecord]
         /\ \A v \in Writer : Reserved(v)' /\ \A p : HeldBy(v, p)' <=> HeldBy(v, p)
<1>1. writer' \in [Writer -> WriterRecord]
  BY DEF TraceTypeOK, Move, WriterRecord
<1>2. ASSUME NEW v \in Writer
      PROVE  /\ writer'[v].pos = writer[v].pos /\ writer'[v].size = writer[v].size
             /\ writer'[v].alone = writer[v].alone
             /\ writer'[v].pc = IF v = w THEN label ELSE writer[v].pc
  BY DEF TraceTypeOK, Move, WriterRecord
<1>3. ASSUME NEW v \in Writer PROVE Reserved(v)'
  BY <1>2 DEF Reserved, Allocating, TraceTypeOK
<1>4. ASSUME NEW v \in Writer, NEW p PROVE HeldBy(v, p)' <=> HeldBy(v, p)
  BY <1>2 DEF HeldBy
<1> QED
  BY <1>1, <1>3, <1>4

(* AllocateSlot: the comparison and the store of read_pos_.                *)
LEMMA AllocateSlotKeeps ==
  ASSUME TraceInv, NEW w \in Writer, Compare(w) \/ PushReadPos(w)
  PROVE  TraceInv'
<1>1. UNCHANGED <<writePos, ring, lapped>> /\ Allocating(w)
  BY DEF Compare, PushReadPos, Allocating
<1>2. writer[w] \in WriterRecord /\ readPos' \in Int
  BY TraceAssumption DEF Compare, PushReadPos, Oldest, TraceInv, TraceTypeOK, WriterRecord
<1>3. PICK label \in {"push", "clear"} : Move(w, label)
  BY DEF Compare, PushReadPos
<1>4. /\ writer' \in [Writer -> WriterRecord]
      /\ \A v \in Writer : Reserved(v)' /\ \A p : HeldBy(v, p)' <=> HeldBy(v, p)
  BY <1>1, <1>3, MoveKeeps DEF TraceInv, Allocating
<1>5. TraceTypeOK'
  BY <1>1, <1>2, <1>4 DEF TraceInv, TraceTypeOK
<1>6. SlotsCovered'
  BY <1>1, <1>4 DEF TraceInv, SlotsCovered, Recent, Filled
<1> QED
  BY <1>5, <1>6 DEF TraceInv

(* evt.Clear() touches the writer's own slot only.                         *)
LEMMA ClearEventKeeps ==
  ASSUME TraceInv, NEW w \in Writer, ClearEvent(w)
  PROVE  TraceInv'
<1> DEFINE q == writer[w].pos
<1>1. UNCHANGED <<writePos, readPos, lapped>> /\ writer[w].pc = "clear" /\ Move(w, "fill")
      /\ ring' = [ring EXCEPT ![q % RingSize] = -1]
  BY DEF ClearEvent
<1>2. q \in Nat /\ writer[w].size \in 1..RingSize
  BY DEF TraceInv, TraceTypeOK, WriterRecord
<1>3. q % RingSize \in 0..RingSize - 1
  BY <1>2, Division
<1>4. ring' = [s \in 0..RingSize - 1 |-> ring'[s]] /\ \A s \in 0..RingSize - 1 : s # q % RingSize => ring'[s] = ring[s]
  BY <1>1, <1>3 DEF TraceInv, TraceTypeOK
<1>5. /\ writer' \in [Writer -> WriterRecord]
      /\ \A v \in Writer : Reserved(v)' /\ \A p : HeldBy(v, p)' <=> HeldBy(v, p)
  BY <1>1, MoveKeeps DEF TraceInv
<1>6. HeldBy(w, q)
  BY <1>1, <1>2 DEF HeldBy
<1> HIDE DEF q
<1>7. TraceTypeOK'
  BY <1>1, <1>4, <1>5 DEF TraceInv, TraceTypeOK
<1>8. ASSUME ~lapped', NEW p \in Nat, Recent(p)' PROVE Filled(p)' \/ \E v \in Writer : HeldBy(v, p)'
  <2>1. Recent(p) /\ ~lapped
    BY <1>1, <1>8 DEF Recent
  <2>2. CASE p % RingSize = q % RingSize
    <3>1. p = q
      BY <1>2, <1>6, <2>1, <2>2, HeldSlot DEF TraceInv
    <3> QED
      BY <1>5, <1>6, <3>1
  <2>3. CASE p % RingSize # q % RingSize
    <3>1. ring'[p % RingSize] = ring[p % RingSize]
      BY <1>4, <2>3, Division
    <3> QED
      BY <1>5, <2>1, <3>1 DEF TraceInv, SlotsCovered, Filled
  <2> QED
    BY <2>2, <2>3
<1> QED
  BY <1>7, <1>8 DEF TraceInv, SlotsCovered

(* The fields, and the extra data in the slots behind: everything the      *)
(* writer had reserved holds its event.                                    *)
LEMMA FillKeeps ==
  ASSUME TraceInv, NEW w \in Writer, Fill(w)
  PROVE  TraceInv'
<1> DEFINE q == writer[w].pos
<1> DEFINE n == writer[w].size
<1>1. UNCHANGED <<writePos, readPos, lapped>> /\ writer[w].pc = "fill"
      /\ writer' = [writer EXCEPT ![w] = Outside]
      /\ ring' = [s \in DOMAIN ring |-> IF s \in Slots(w) THEN q ELSE ring[s]]
  BY DEF Fill
<1>2. q \in Nat /\ n \in 1..RingSize /\ n \in Sizes
  BY <1>1 DEF TraceInv, TraceTypeOK, WriterRecord, Reserved
<1>3. DOMAIN ring = 0..RingSize - 1
  BY DEF TraceInv, TraceTypeOK
<1>4. ring' = [s \in 0..RingSize - 1 |-> ring'[s]]
      /\ \A s \in 0..RingSize - 1 : ring'[s] = IF s \in Slots(w) THEN q ELSE ring[s]
  BY <1>1, <1>3
<1>5. Outside \in WriterRecord
  BY TraceAssumption DEF Outside, WriterRecord
<1>6. /\ writer' \in [Writer -> WriterRecord] /\ writer'[w].pc = "idle"
      /\ \A v \in Writer \ {w} : writer'[v] = writer[v]
  BY <1>1, <1>5 DEF TraceInv, TraceTypeOK, Outside
<1>7. \A k \in 0..n - 1 : (q + k) % RingSize \in Slots(w)
  BY DEF Slots
<1>8. \A s \in Slots(w) : \E k \in 0..n - 1 : s = (q + k) % RingSize
  BY DEF Slots
<1>9. \A v \in Writer : Reserved(v)'
  BY <1>1, <1>6 DEF Reserved, Allocating, TraceInv, TraceTypeOK
<1>10. TraceTypeOK'
  BY <1>1, <1>4, <1>6, <1>9 DEF TraceInv, TraceTypeOK
<1>11. \A k \in 0..n - 1 : HeldBy(w, q + k)
  BY <1>1, <1>2 DEF HeldBy
<1> HIDE DEF q, n
<1>12. ASSUME ~lapped', NEW p \in Nat, Recent(p)' PROVE Filled(p)' \/ \E v \in Writer : HeldBy(v, p)'
  <2>1. Recent(p) /\ ~lapped
    BY <1>1, <1>12 DEF Recent
  <2>2. p % RingSize \in 0..RingSize - 1
    BY Division
  <2>3. CASE p % RingSize \in Slots(w)
    <3>1. PICK k \in 0..n - 1 : p % RingSize = (q + k) % RingSize
      BY <1>8, <2>3
    <3>2. p = q + k
      <4>1. q + k \in Nat /\ HeldBy(w, q + k)
        BY <1>2, <1>11
      <4> QED
        BY <2>1, <3>1, <4>1, HeldSlot DEF TraceInv
    <3>3. ring'[p % RingSize] = q
      BY <1>4, <2>2, <2>3
    <3>4. q \in (p - n + 1)..p
      BY <1>2, <3>1, <3>2
    <3> QED
      BY <1>2, <3>3, <3>4 DEF Filled
  <2>4. CASE p % RingSize \notin Slots(w)
    <3>1. ring'[p % RingSize] = ring[p % RingSize]
      BY <1>4, <2>2, <2>4
    <3>2. ~HeldBy(w, p)
      <4>1. HeldBy(w, p) => p - q \in 0..n - 1 /\ p = q + (p - q)
        BY <1>2 DEF HeldBy, q, n
      <4> QED
        BY <1>7, <2>4, <4>1
    <3>3. ASSUME NEW v \in Writer, HeldBy(v, p) PROVE HeldBy(v, p)'
      BY <1>6, <3>2, <3>3 DEF HeldBy
    <3> QED
      BY <2>1, <3>1, <3>3 DEF TraceInv, SlotsCovered, Filled
  <2> QED
    BY <2>3, <2>4
<1> QED
  BY <1>10, <1>12 DEF TraceInv, SlotsCovered

(* The invariant of the ring, whatever threads record at once.             *)
LEMMA TraceInvariant == TraceSpec => []TraceInv
<1>1. TraceInit => TraceInv
  <2> SUFFICES ASSUME TraceInit PROVE TraceInv
    OBVIOUS
  <2>1. Outside \in WriterRecord /\ Outside.pc = "idle"
    BY TraceAssumption DEF Outside, WriterRecord
  <2>2. writer \in [Writer -> WriterRecord] /\ \A w \in Writer : writer[w].pc = "idle"
    BY <2>1 DEF TraceInit
  <2> QED
    <3>1. writePos = 0 /\ readPos = 0 /\ lapped = FALSE
      BY DEF TraceInit
    <3>2. ASSUME NEW p \in Nat PROVE ~Recent(p)
      BY <3>1 DEF Recent
    <3>3. \A w \in Writer : Reserved(w)
      BY <2>2 DEF Reserved
    <3>4. TraceTypeOK
      <4>1. writePos \in Nat /\ readPos \in Int
        BY <3>1
      <4>2. lapped \in BOOLEAN
        BY <3>1
      <4>3. ring = [s \in 0..RingSize - 1 |-> ring[s]]
        BY DEF TraceInit
      <4> QED
        BY <2>2, <3>3, <4>1, <4>2, <4>3 DEF TraceTypeOK
    <3> QED
      BY <3>2, <3>4 DEF TraceInv, SlotsCovered
<1>2. TraceInv /\ [TraceNext]_traceVars => TraceInv'
  <2> SUFFICES ASSUME TraceInv, [TraceNext]_traceVars PROVE TraceInv'
    OBVIOUS
  <2>1. CASE UNCHANGED <<writePos, readPos, ring, writer, lapped>>
    BY <2>1 DEF TraceInv, TraceTypeOK, Reserved, Allocating, SlotsCovered, Recent, Filled, HeldBy
  <2> QED
    BY <2>1, RecordKeeps, AllocateSlotKeeps, ClearEventKeeps, FillKeeps
    DEF TraceNext, traceVars, EnableChannel
<1> QED
  BY <1>1, <1>2, PTL DEF TraceSpec

(* TraceEngine: the newest slots of the ring hold the events they were     *)
(* reserved for once no thread is recording, if none was lapped.           *)
THEOREM TraceKeepsEvents == TraceSpec => []EventsKept
<1>1. TraceInv => EventsKept
  <2> SUFFICES ASSUME TraceInv, ~lapped, \A w \in Writer : writer[w].pc = "idle",
                      NEW p \in 0..writePos - 1, p >= writePos - RingSize
               PROVE  Filled(p)
    BY DEF EventsKept, Filled
  <2>1. p \in Nat /\ Recent(p)
    BY DEF TraceInv, TraceTypeOK, Recent
  <2> QED
    BY <2>1 DEF TraceInv, SlotsCovered, HeldBy
<1> QED
  BY <1>1, TraceInvariant, PTL

(* AllocateSlot of a thread that is alone in it puts read_pos_ within one  *)
(* ring of write_pos_, wherever overlapping writers had left it.           *)
THEOREM AloneHealsWindow == TraceSpec => WindowHeals
<1>1. ASSUME TraceInv, [TraceNext]_traceVars, NEW w \in Writer,
             Allocating(w), ~Allocating(w)', writer[w].alone
      PROVE  writePos' - readPos' <= RingSize
  <2>1. /\ writer[w] \in WriterRecord /\ writer[w].pos + writer[w].size = writePos
        /\ writer \in [Writer -> WriterRecord]
    BY <1>1 DEF TraceInv, TraceTypeOK, Reserved, Allocating
  <2>2. CASE Compare(w)
    <3>1. ~Full(w) /\ UNCHANGED <<writePos, readPos>>
      BY <1>1, <2>1, <2>2 DEF Compare, Move, Allocating
    <3> QED
      <4>1. writer[w].pos \in Nat /\ writer[w].size \in 1..RingSize /\ readPos \in Int /\ writePos \in Nat
        BY <1>1, <2>1 DEF TraceInv, TraceTypeOK, WriterRecord
      <4>2. writer[w].pos - readPos <= RingSize - writer[w].size
        BY <3>1, <4>1, TraceAssumption DEF Full
      <4> QED
        BY <2>1, <3>1, <4>1, <4>2, TraceAssumption
  <2>3. CASE PushReadPos(w)
    BY <2>1, <2>3, TraceAssumption DEF PushReadPos, Oldest, TraceInv, TraceTypeOK, WriterRecord
  <2>4. ASSUME NEW v \in Writer, v # w, writer' = [writer EXCEPT ![v] = writer'[v]]
        PROVE  FALSE
    BY <1>1, <2>1, <2>4 DEF Allocating
  <2>5. CASE UNCHANGED writer
    BY <1>1, <2>5 DEF Allocating
  <2>6. ASSUME NEW v \in Writer, NEW label, Move(v, label)
        PROVE  writer' = [writer EXCEPT ![v] = writer'[v]]
    BY <2>1, <2>6 DEF Move
  <2>7. ASSUME NEW v \in Writer, Compare(v) \/ PushReadPos(v)
        PROVE  writePos' - readPos' <= RingSize
    BY <2>2, <2>3, <2>4, <2>6, <2>7 DEF Compare, PushReadPos
  <2>8. ASSUME NEW v \in Writer, ClearEvent(v) \/ Fill(v)
        PROVE  FALSE
    <3>1. v # w
      BY <1>1, <2>8 DEF ClearEvent, Fill, Allocating
    <3>2. writer' = [writer EXCEPT ![v] = writer'[v]]
      BY <2>1, <2>6, <2>8 DEF ClearEvent, Fill
    <3> QED
      BY <2>4, <3>1, <3>2
  <2>9. ASSUME NEW v \in Writer, NEW ch, NEW n \in Sizes, Record(v, ch, n)
        PROVE  FALSE
    <3>1. v # w
      BY <1>1, <2>9 DEF Record, Allocating
    <3>2. writer'[w] = [writer[w] EXCEPT !.alone = FALSE]
      BY <2>9, <3>1 DEF Record
    <3> QED
      BY <1>1, <2>1, <3>2 DEF Allocating, WriterRecord
  <2> QED
    BY <1>1, <2>5, <2>7, <2>8, <2>9 DEF TraceNext, traceVars, EnableChannel
<1> DEFINE Heals == \A w \in Writer : Allocating(w) /\ ~Allocating(w)' /\ writer[w].alone =>
                      writePos' - readPos' <= RingSize
<1>2. TraceInv /\ [TraceNext]_traceVars => [Heals]_traceVars
  BY <1>1
<1> QED
  BY <1>2, TraceInvariant, PTL DEF TraceSpec, WindowHeals
=============================================================================
