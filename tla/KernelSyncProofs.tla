-------------------------- MODULE KernelSyncProofs --------------------------
(***************************************************************************)
(* The waiter lists of KObject never hold a dangling entry, and a sleeping *)
(* thread is registered with every object it waits for: for any number of  *)
(* threads, events and handles per call, whatever the guests close.  What  *)
(* the call returns is justified by what happened during it.               *)
(***************************************************************************)
EXTENDS KernelSync, TLAPS

(* Where a call uses its loop index, and where it has one at all.          *)
LoopPc == {"get", "scan", "register", "check", "pred", "recheck", "unregister"}
BodyPc == LoopPc \cup {"block", "asleep"}
CoveredPc == {"check", "pred", "block", "asleep", "recheck"}

(* The loop index is within the handle array, and rewound between loops.   *)
IndexInv ==
  \A t \in Thread : /\ pc[t] \in BodyPc => i[t] \in 1..Len(objs[t])
                    /\ pc[t] \notin LoopPc => i[t] = 1

(* The registration loop has passed the entry and the deregistration loop  *)
(* has not; deleted objects have no entries.                               *)
EntryInv ==
  /\ \A o \in Obj : \A t \in waiters[o] :
       /\ pc[t] \in RegisteredPc
       /\ \E k \in 1..Len(objs[t]) : /\ objs[t][k] = o
                                     /\ pc[t] = "register" => k < i[t]
                                     /\ pc[t] = "unregister" => i[t] <= k
  /\ \A o \in Obj \ table : waiters[o] = {}

(* What has been registered stays registered until the deregistration loop.*)
CoverInv ==
  \A t \in Thread : \A k \in 1..Len(objs[t]) :
    /\ objs[t][k] \in table
    /\ pc[t] \in CoveredPc \/ (pc[t] = "register" /\ k < i[t])
    => t \in waiters[objs[t][k]]

IInv == TypeOK /\ IndexInv /\ EntryInv /\ CoverInv

----------------------------------------------------------------------------
(* Replacing the element under the loop index by the result of             *)
(* KHandleTable::Get gives an object array of the same length.             *)
LEMMA GetObjectTyped ==
  ASSUME TypeOK, NEW t \in Thread, i[t] \in 1..Len(objs[t]),
         objs' = [objs EXCEPT ![t][i[t]] = Get(@)]
  PROVE  /\ objs' \in [Thread -> Seq(Obj \cup {FakeHandle, Null})]
         /\ Len(objs'[t]) = Len(objs[t])
         /\ \A u \in Thread \ {t} : objs'[u] = objs[u]
<1> DEFINE S == Obj \cup {FakeHandle, Null}
           q == objs[t]
           r == [q EXCEPT ![i[t]] = Get(@)]
<1>1. q \in Seq(S) /\ Len(q) \in Nat /\ DOMAIN q = 1..Len(q)
  BY DEF TypeOK
<1>2. Get(q[i[t]]) \in S
  BY DEF Get, TypeOK
<1>3. objs' = [objs EXCEPT ![t] = r]
  BY DEF TypeOK
<1>4. r \in [1..Len(q) -> S]
  <2> HIDE DEF S
  <2> QED BY <1>1, <1>2
<1>5. r \in Seq(S) /\ Len(r) = Len(q)
  <2> HIDE DEF S, r
  <2> QED BY <1>1, <1>4
<1> HIDE DEF r, S
<1>6. objs' \in [Thread -> Seq(S)] /\ objs'[t] = r
  BY <1>3, <1>5 DEF TypeOK, S
<1>7. \A u \in Thread \ {t} : objs'[u] = objs[u]
  BY <1>3 DEF TypeOK
<1> QED BY <1>5, <1>6, <1>7 DEF S

(* A loop over the handle array goes on with the next index, or leaves     *)
(* with the index rewound after the last one.                              *)
LEMMA IterateEffect ==
  ASSUME TypeOK, NEW t \in Thread, NEW label \in PcSet,
         i[t] \in 1..Len(objs[t]), Iterate(t, label)
  PROVE  /\ i' \in [Thread -> Nat] /\ pc' \in [Thread -> PcSet]
         /\ \A u \in Thread \ {t} : pc'[u] = pc[u] /\ i'[u] = i[u]
         /\ \/ pc'[t] = label /\ i'[t] = 1 /\ i[t] = Len(objs[t])
            \/ pc'[t] = pc[t] /\ i'[t] = i[t] + 1 /\ i'[t] <= Len(objs[t])
<1>0. pc \in [Thread -> PcSet] /\ i \in [Thread -> Nat] /\ Len(objs[t]) \in Nat
  BY DEF TypeOK
<1>1. CASE i[t] = Len(objs[t]) /\ i' = [i EXCEPT ![t] = 1] /\ Goto(t, label)
  BY <1>0, <1>1 DEF Goto
<1>2. CASE i[t] # Len(objs[t]) /\ i' = [i EXCEPT ![t] = @ + 1] /\ UNCHANGED pc
  BY <1>0, <1>2
<1> QED BY <1>1, <1>2 DEF Iterate

(* A search step of SvcWaitSynchronization changes only the searching      *)
(* thread's label and index, keeps the index in the array, and rewinds it  *)
(* when the loop is left.                                                  *)
LEMMA LookEffect ==
  ASSUME TypeOK, NEW t \in Thread, NEW at, NEW hit \in PcSet, NEW miss \in PcSet,
         i[t] \in 1..Len(objs[t]), Look(t, at, hit, miss)
  PROVE  /\ pc[t] = at
         /\ i' \in [Thread -> Nat] /\ idx' \in [Thread -> Nat]
         /\ pc' \in [Thread -> PcSet]
         /\ \A u \in Thread \ {t} : pc'[u] = pc[u] /\ i'[u] = i[u]
         /\ \/ pc'[t] \in {hit, miss} /\ i'[t] = 1
            \/ pc'[t] = pc[t] /\ i'[t] = i[t] + 1 /\ i'[t] <= Len(objs[t])
         /\ uaf' \subseteq Obj
<1>1. pc[t] = at /\ uaf' \subseteq Obj
  BY DEF Look, Access, TypeOK
<1>2. CASE /\ Goto(t, hit)
           /\ i' = [i EXCEPT ![t] = 1]
           /\ idx' = [idx EXCEPT ![t] = i[t]]
  BY <1>1, <1>2 DEF Goto, TypeOK
<1>3. CASE idx' = [idx EXCEPT ![t] = 0] /\ Iterate(t, miss)
  <2>1. idx' \in [Thread -> Nat]
    BY <1>3 DEF TypeOK
  <2> QED BY <1>1, <1>3, <2>1, IterateEffect
<1> QED BY <1>2, <1>3 DEF Look

----------------------------------------------------------------------------
(* The initial state: no object has a waiter.                              *)
LEMMA InitIInv == Init => IInv
BY DEF Init, IInv, TypeOK, IndexInv, EntryInv, CoverInv, PcSet, WaitPc,
       TimeoutKinds, LoopPc, BodyPc, CoveredPc, RegisteredPc

(* A step that only moves one thread between labels at which it has no     *)
(* waiter registered.                                                      *)
LEMMA QuietStep ==
  ASSUME IInv, TypeOK', NEW t \in Thread, NEW label, Goto(t, label),
         pc[t] \notin BodyPc, label \notin BodyPc,
         UNCHANGED <<table, waiters, objs, i>>
  PROVE  IInv'
<1> USE DEF IInv, Goto
<1>1. IndexInv'
  BY DEF TypeOK, IndexInv, LoopPc, BodyPc
<1>2. EntryInv'
  BY DEF TypeOK, EntryInv, LoopPc, BodyPc, RegisteredPc
<1>3. CoverInv'
  BY DEF TypeOK, CoverInv, LoopPc, BodyPc, CoveredPc
<1> QED BY <1>1, <1>2, <1>3

(* wait_cv starting to sleep registers nothing and releases nothing.       *)
LEMMA BlockStep ==
  ASSUME IInv, NEW t \in Thread, Block(t)
  PROVE  IInv'
<1> USE DEF IInv
<1>1. TypeOK'
  BY DEF Block, Goto, TypeOK, PcSet, WaitPc, SignalPc, TimeoutKinds
<1>2. IndexInv'
  BY DEF Block, Goto, TypeOK, IndexInv, LoopPc, BodyPc
<1>3. EntryInv'
  BY DEF Block, Goto, TypeOK, IndexInv, EntryInv, LoopPc, BodyPc, RegisteredPc
<1>4. CoverInv'
  BY DEF Block, Goto, TypeOK, IndexInv, EntryInv, CoverInv, LoopPc, BodyPc, CoveredPc, RegisteredPc
<1> QED BY <1>1, <1>2, <1>3, <1>4

(* A spurious wakeup goes back to the predicate, still registered.         *)
LEMMA SpuriousWakeupStep ==
  ASSUME IInv, NEW t \in Thread, SpuriousWakeup(t)
  PROVE  IInv'
<1> USE DEF IInv
<1>1. TypeOK'
  BY DEF SpuriousWakeup, Goto, TypeOK, PcSet, WaitPc, SignalPc, TimeoutKinds
<1>2. IndexInv'
  BY DEF SpuriousWakeup, Goto, TypeOK, IndexInv, LoopPc, BodyPc
<1>3. EntryInv'
  BY DEF SpuriousWakeup, Goto, TypeOK, IndexInv, EntryInv, LoopPc, BodyPc, RegisteredPc
<1>4. CoverInv'
  BY DEF SpuriousWakeup, Goto, TypeOK, IndexInv, EntryInv, CoverInv, LoopPc, BodyPc, CoveredPc, RegisteredPc
<1> QED BY <1>1, <1>2, <1>3, <1>4

(* A wait_for that gives up goes on to the recheck, still registered.      *)
LEMMA ExpireStep ==
  ASSUME IInv, NEW t \in Thread, Expire(t)
  PROVE  IInv'
<1> USE DEF IInv
<1>1. TypeOK'
  BY DEF Expire, Goto, TypeOK, PcSet, WaitPc, SignalPc, TimeoutKinds
<1>2. IndexInv'
  BY DEF Expire, Goto, TypeOK, IndexInv, LoopPc, BodyPc
<1>3. EntryInv'
  BY DEF Expire, Goto, TypeOK, IndexInv, EntryInv, LoopPc, BodyPc, RegisteredPc
<1>4. CoverInv'
  BY DEF Expire, Goto, TypeOK, IndexInv, EntryInv, CoverInv, LoopPc, BodyPc, CoveredPc, RegisteredPc
<1> QED BY <1>1, <1>2, <1>3, <1>4

(* A call returns only after its last UnregisterWaiter.                    *)
LEMMA ReturnStep ==
  ASSUME IInv, NEW t \in Thread, Return(t)
  PROVE  IInv'
<1> USE DEF IInv
<1>1. TypeOK'
  BY DEF Return, LeaveCall, Goto, TypeOK, PcSet, WaitPc, SignalPc, TimeoutKinds
<1>2. IndexInv'
  BY DEF Return, LeaveCall, Goto, TypeOK, IndexInv, LoopPc, BodyPc
<1>3. EntryInv'
  BY DEF Return, LeaveCall, Goto, TypeOK, IndexInv, EntryInv, LoopPc, BodyPc, RegisteredPc
<1>4. CoverInv'
  BY DEF Return, LeaveCall, Goto, TypeOK, IndexInv, EntryInv, CoverInv, LoopPc, BodyPc, CoveredPc, RegisteredPc
<1> QED BY <1>1, <1>2, <1>3, <1>4

(* SvcExitThread starts in guest code, where no waiter is registered.      *)
LEMMA ExitThreadStep ==
  ASSUME IInv, NEW t \in Thread, ExitThread(t)
  PROVE  IInv'
<1> USE DEF IInv
<1>1. CASE Goto(t, "set") /\ tgt' = [tgt EXCEPT ![t] = t]
  <2>1. TypeOK'
    BY <1>1 DEF ExitThread, Goto, TypeOK, PcSet, SignalPc, Obj
  <2> QED BY <1>1, <2>1, QuietStep DEF ExitThread, BodyPc, LoopPc
<1>2. CASE Goto(t, "gone") /\ UNCHANGED tgt
  <2>1. TypeOK'
    BY <1>2 DEF ExitThread, Goto, TypeOK, PcSet
  <2> QED BY <1>2, <2>1, QuietStep DEF ExitThread, BodyPc, LoopPc
<1> QED BY <1>1, <1>2 DEF ExitThread

(* A returning guest function has no waiter registered either.             *)
LEMMA GuestReturnsStep ==
  ASSUME IInv, NEW t \in Thread, GuestReturns(t)
  PROVE  IInv'
<1> USE DEF IInv
<1>1. TypeOK'
  BY DEF GuestReturns, Goto, Obj, TypeOK, PcSet, WaitPc, SignalPc, TimeoutKinds
<1>2. IndexInv'
  BY DEF GuestReturns, Goto, Obj, TypeOK, IndexInv, LoopPc, BodyPc
<1>3. EntryInv'
  BY DEF GuestReturns, Goto, Obj, TypeOK, IndexInv, EntryInv, LoopPc, BodyPc, RegisteredPc
<1>4. CoverInv'
  BY DEF GuestReturns, Goto, Obj, TypeOK, IndexInv, EntryInv, CoverInv, LoopPc, BodyPc, CoveredPc, RegisteredPc
<1> QED BY <1>1, <1>2, <1>3, <1>4

(* Setting a flag touches no waiter list.                                  *)
LEMMA SetFlagStep ==
  ASSUME IInv, NEW t \in Thread, SetFlag(t)
  PROVE  IInv'
<1> USE DEF IInv
<1>1. sig' \in [Obj -> BOOLEAN] /\ seen' \in [Thread -> SUBSET Obj]
  <2>1. CASE tgt[t] \notin table
    BY <2>1 DEF SetFlag, TypeOK
  <2>2. CASE tgt[t] \in table
    <3>1. /\ sig' = [sig EXCEPT ![tgt[t]] = TRUE]
          /\ seen' = [u \in Thread |->
                        IF pc[u] \in WaitPc THEN seen[u] \cup {tgt[t]} ELSE seen[u]]
      BY <2>2 DEF SetFlag
    <3>2. sig' \in [Obj -> BOOLEAN]
      BY <3>1, Zenon DEF TypeOK
    <3>3. \A u \in Thread : seen[u] \subseteq Obj /\ tgt[t] \in Obj
      BY <2>2 DEF TypeOK
    <3>4. seen' \in [Thread -> SUBSET Obj]
      BY <3>1, <3>3
    <3> QED BY <3>2, <3>4
  <2> QED BY <2>1, <2>2
<1>2. TypeOK'
  BY <1>1 DEF SetFlag, Access, Goto, TypeOK, PcSet, SignalPc
<1> QED BY <1>2, QuietStep DEF SetFlag, BodyPc, LoopPc

(* Notifying the object's own condition variable wakes no call.            *)
LEMMA NotifyOwnCvStep ==
  ASSUME IInv, NEW t \in Thread, NotifyOwnCv(t)
  PROVE  IInv'
<1> USE DEF IInv
<1>1. TypeOK'
  BY DEF NotifyOwnCv, Goto, Access, TypeOK, PcSet, WaitPc, SignalPc, TimeoutKinds
<1>2. IndexInv'
  BY DEF NotifyOwnCv, Goto, Access, TypeOK, IndexInv, LoopPc, BodyPc
<1>3. EntryInv'
  BY DEF NotifyOwnCv, Goto, Access, TypeOK, IndexInv, EntryInv, LoopPc, BodyPc, RegisteredPc
<1>4. CoverInv'
  BY DEF NotifyOwnCv, Goto, Access, TypeOK, IndexInv, EntryInv, CoverInv, LoopPc, BodyPc, CoveredPc, RegisteredPc
<1> QED BY <1>1, <1>2, <1>3, <1>4

(* Notified sleepers go back to their predicate, still registered.         *)
LEMMA NotifyWaitersStep ==
  ASSUME IInv, NEW t \in Thread, NotifyWaiters(t)
  PROVE  IInv'
<1> USE DEF IInv
<1>1. TypeOK'
  BY DEF NotifyWaiters, Access, TypeOK, PcSet, WaitPc, SignalPc
<1>2. /\ pc[t] = "notify" /\ pc'[t] \in {"wake", "guest"}
      /\ \A u \in Thread \ {t} :
           pc'[u] = pc[u] \/ (pc[u] = "asleep" /\ pc'[u] = "pred")
      /\ UNCHANGED <<table, waiters, objs, i>>
  BY DEF NotifyWaiters, TypeOK
<1>3. IndexInv'
  BY <1>2 DEF TypeOK, IndexInv, LoopPc, BodyPc
<1>4. ASSUME NEW x \in Obj, NEW u \in waiters[x]
      PROVE  /\ pc'[u] \in RegisteredPc
             /\ pc'[u] \in {"register", "unregister"} => pc'[u] = pc[u]
  BY <1>2 DEF TypeOK, EntryInv, RegisteredPc
<1>5. EntryInv'
  BY <1>2, <1>4 DEF EntryInv
<1>6. CoverInv'
  BY <1>2 DEF TypeOK, CoverInv, CoveredPc
<1> QED BY <1>1, <1>3, <1>5, <1>6

(* The end of MarkFinished leaves the waiter lists alone.                  *)
LEMMA WakeEventStep ==
  ASSUME IInv, NEW t \in Thread, WakeEvent(t)
  PROVE  IInv'
<1> USE DEF IInv
<1>1. TypeOK'
  BY DEF WakeEvent, Goto, Access, TypeOK, PcSet, WaitPc, SignalPc, TimeoutKinds
<1>2. IndexInv'
  BY DEF WakeEvent, Goto, Access, TypeOK, IndexInv, LoopPc, BodyPc
<1>3. EntryInv'
  BY DEF WakeEvent, Goto, Access, TypeOK, IndexInv, EntryInv, LoopPc, BodyPc, RegisteredPc
<1>4. CoverInv'
  BY DEF WakeEvent, Goto, Access, TypeOK, IndexInv, EntryInv, CoverInv, LoopPc, BodyPc, CoveredPc, RegisteredPc
<1> QED BY <1>1, <1>2, <1>3, <1>4

(* KEvent::Clear leaves the waiter lists alone.                            *)
LEMMA ClearStep ==
  ASSUME IInv, NEW t \in Thread, Clear(t)
  PROVE  IInv'
<1> USE DEF IInv
<1>1. TypeOK'
  BY DEF Clear, Goto, Access, TypeOK, PcSet, WaitPc, SignalPc, TimeoutKinds
<1>2. IndexInv'
  BY DEF Clear, Goto, Access, TypeOK, IndexInv, LoopPc, BodyPc
<1>3. EntryInv'
  BY DEF Clear, Goto, Access, TypeOK, IndexInv, EntryInv, LoopPc, BodyPc, RegisteredPc
<1>4. CoverInv'
  BY DEF Clear, Goto, Access, TypeOK, IndexInv, EntryInv, CoverInv, LoopPc, BodyPc, CoveredPc, RegisteredPc
<1> QED BY <1>1, <1>2, <1>3, <1>4

(* RegisterWaiter adds the caller to the list of one of its objects.       *)
LEMMA RegisterWaiterStep ==
  ASSUME IInv, NEW t \in Thread, RegisterWaiter(t)
  PROVE  IInv'
<1> USE DEF IInv
<1> DEFINE o == objs[t][i[t]]
           leave == "check"
<1>1. /\ pc[t] = "register" /\ i[t] \in 1..Len(objs[t])
      /\ waiters' = [x \in Obj |-> IF x = o /\ x \in table
                                      THEN waiters[x] \cup {t} ELSE waiters[x]]
      /\ uaf' \subseteq Obj
      /\ UNCHANGED <<table, sig, objs, timeout, idx, tgt, seen, cleared>>
      /\ Iterate(t, leave)
  BY DEF RegisterWaiter, Access, TypeOK, IndexInv, BodyPc, LoopPc
<1>2. leave \in PcSet
  BY DEF PcSet, WaitPc
<1> HIDE DEF leave
<1>3. /\ i' \in [Thread -> Nat] /\ pc' \in [Thread -> PcSet]
      /\ \A u \in Thread \ {t} : pc'[u] = pc[u] /\ i'[u] = i[u]
      /\ \/ pc'[t] = leave /\ i'[t] = 1 /\ i[t] = Len(objs[t])
         \/ pc'[t] = pc[t] /\ i'[t] = i[t] + 1 /\ i'[t] <= Len(objs[t])
  BY <1>1, <1>2, IterateEffect
<1>4. TypeOK'
  BY <1>1, <1>3 DEF TypeOK
<1>5. IndexInv'
  BY <1>1, <1>3 DEF TypeOK, IndexInv, LoopPc, BodyPc, leave
<1>6. EntryInv'
  BY <1>1, <1>3 DEF TypeOK, IndexInv, EntryInv, LoopPc, BodyPc, RegisteredPc, leave
<1>7. CoverInv'
  BY <1>1, <1>3 DEF TypeOK, IndexInv, EntryInv, CoverInv, LoopPc, BodyPc,
                     CoveredPc, RegisteredPc, leave
<1> QED BY <1>4, <1>5, <1>6, <1>7

(* UnregisterWaiter removes the entry of the object at the loop index.     *)
LEMMA UnregisterWaiterStep ==
  ASSUME IInv, NEW t \in Thread, UnregisterWaiter(t)
  PROVE  IInv'
<1> USE DEF IInv
<1> DEFINE o == objs[t][i[t]]
           leave == IF idx[t] = 0 THEN "timedout" ELSE "success"
<1>1. /\ pc[t] = "unregister" /\ i[t] \in 1..Len(objs[t])
      /\ waiters' = [x \in Obj |-> IF x = o /\ x \in table
                                      THEN waiters[x] \ {t} ELSE waiters[x]]
      /\ uaf' \subseteq Obj
      /\ UNCHANGED <<table, sig, objs, timeout, idx, tgt, seen, cleared>>
      /\ Iterate(t, leave)
  BY DEF UnregisterWaiter, Access, TypeOK, IndexInv, BodyPc, LoopPc
<1>2. leave \in PcSet
  BY DEF PcSet, WaitPc
<1> HIDE DEF leave
<1>3. /\ i' \in [Thread -> Nat] /\ pc' \in [Thread -> PcSet]
      /\ \A u \in Thread \ {t} : pc'[u] = pc[u] /\ i'[u] = i[u]
      /\ \/ pc'[t] = leave /\ i'[t] = 1 /\ i[t] = Len(objs[t])
         \/ pc'[t] = pc[t] /\ i'[t] = i[t] + 1 /\ i'[t] <= Len(objs[t])
  BY <1>1, <1>2, IterateEffect
<1>4. TypeOK'
  BY <1>1, <1>3 DEF TypeOK
<1>5. IndexInv'
  <2>1. leave \in {"timedout", "success"}
    BY DEF leave
  <2> QED BY <1>1, <1>3, <2>1 DEF TypeOK, IndexInv, LoopPc, BodyPc
<1>6. EntryInv'
  <2>1. \A x \in Obj \ table : waiters'[x] = {}
    BY <1>1 DEF EntryInv
  <2>2. ASSUME NEW x \in Obj, NEW u \in waiters'[x]
        PROVE  /\ pc'[u] \in RegisteredPc
               /\ \E k \in 1..Len(objs[u]) : /\ objs[u][k] = x
                                             /\ pc'[u] = "register" => k < i'[u]
                                             /\ pc'[u] = "unregister" => i'[u] <= k
    <3>1. u \in waiters[x] /\ u \in Thread /\ x \in table
      BY <1>1, <2>2 DEF TypeOK, EntryInv
    <3>2. PICK k \in 1..Len(objs[u]) : /\ objs[u][k] = x
                                       /\ pc[u] = "register" => k < i[u]
                                       /\ pc[u] = "unregister" => i[u] <= k
      BY <3>1 DEF EntryInv
    <3>3. CASE u # t
      BY <1>3, <3>1, <3>2, <3>3 DEF EntryInv
    <3>4. CASE u = t
      <4>1. x # o
        BY <1>1, <2>2, <3>1, <3>4
      <4>2. i[t] < k /\ k <= Len(objs[t])
        BY <1>1, <3>2, <3>4, <4>1 DEF TypeOK
      <4>3. pc'[t] = pc[t] /\ i'[t] = i[t] + 1
        BY <1>1, <1>3, <4>2 DEF TypeOK
      <4> QED BY <1>1, <3>2, <3>4, <4>2, <4>3 DEF TypeOK, RegisteredPc
    <3> QED BY <3>3, <3>4
  <2> QED BY <1>1, <2>1, <2>2 DEF EntryInv
<1>7. CoverInv'
  BY <1>1, <1>3 DEF TypeOK, IndexInv, EntryInv, CoverInv, LoopPc, BodyPc,
                     CoveredPc, RegisteredPc, leave
<1> QED BY <1>4, <1>5, <1>6, <1>7

(* Deleting an object deletes its waiter list with it.                     *)
LEMMA CloseHandleStep ==
  ASSUME IInv, NEW t \in Thread, NEW o \in Obj, CloseHandle(t, o)
  PROVE  IInv'
<1> USE DEF IInv
<1>1. TypeOK'
  BY DEF CloseHandle, DeleteObject, TypeOK, PcSet, WaitPc, SignalPc, TimeoutKinds
<1>2. IndexInv'
  BY DEF CloseHandle, DeleteObject, TypeOK, IndexInv, LoopPc, BodyPc
<1>3. EntryInv'
  BY DEF CloseHandle, DeleteObject, TypeOK, IndexInv, EntryInv, LoopPc, BodyPc, RegisteredPc
<1>4. CoverInv'
  BY DEF CloseHandle, DeleteObject, TypeOK, IndexInv, EntryInv, CoverInv, LoopPc, BodyPc, CoveredPc, RegisteredPc
<1> QED BY <1>1, <1>2, <1>3, <1>4

(* Looking an event up by its handle touches no waiter list.               *)
LEMMA EventCallStep ==
  ASSUME IInv, NEW t \in Thread, NEW e \in Event, NEW label \in {"set", "clear"}, EventCall(t, e, label)
  PROVE  IInv'
<1> USE DEF IInv
<1>1. TypeOK'
  BY DEF EventCall, Goto, Obj, TypeOK, PcSet, WaitPc, SignalPc, TimeoutKinds
<1>2. IndexInv'
  BY DEF EventCall, Goto, Obj, TypeOK, IndexInv, LoopPc, BodyPc
<1>3. EntryInv'
  BY DEF EventCall, Goto, Obj, TypeOK, IndexInv, EntryInv, LoopPc, BodyPc, RegisteredPc
<1>4. CoverInv'
  BY DEF EventCall, Goto, Obj, TypeOK, IndexInv, EntryInv, CoverInv, LoopPc, BodyPc, CoveredPc, RegisteredPc
<1> QED BY <1>1, <1>2, <1>3, <1>4

(* A call starts unregistered.                                             *)
LEMMA WaitSynchronizationStep ==
  ASSUME IInv, NEW t \in Thread, NEW hs \in HandleLists, NEW to \in Timeouts,
         WaitSynchronization(t, hs, to)
  PROVE  IInv'
<1> USE DEF IInv
<1>1. /\ hs \in Seq(Obj \cup {FakeHandle}) /\ Len(hs) \in Nat
      /\ hs \in Seq(Obj \cup {FakeHandle, Null})
      /\ to \in TimeoutKinds
  BY SyncAssumption
<1>2. /\ pc[t] = "guest" /\ i[t] = 1
      /\ objs' = [objs EXCEPT ![t] = hs]
      /\ timeout' = [timeout EXCEPT ![t] = to]
      /\ seen' = [seen EXCEPT ![t] = {o \in Obj : sig[o]}]
      /\ UNCHANGED <<table, sig, waiters, i, tgt, cleared, uaf>>
  BY DEF WaitSynchronization, IndexInv, LoopPc
<1>3. \E label \in {"success", "get"}, n \in Nat :
        /\ Goto(t, label) /\ idx' = [idx EXCEPT ![t] = n]
        /\ label = "get" => hs # <<>>
  <2>1. CASE hs = <<>> /\ Goto(t, "success") /\ UNCHANGED idx
    BY <2>1 DEF TypeOK
  <2>2. CASE \E k \in 1..Len(hs) : Goto(t, "success") /\ idx' = [idx EXCEPT ![t] = k]
    <3>1. PICK k \in 1..Len(hs) :
            Goto(t, "success") /\ idx' = [idx EXCEPT ![t] = k]
      BY <2>2
    <3>2. k \in Nat /\ "success" # "get"
      BY <1>1
    <3> QED BY <3>1, <3>2, Zenon
  <2>3. CASE hs # <<>> /\ Goto(t, "get") /\ UNCHANGED idx
    BY <2>3 DEF TypeOK
  <2> QED BY <2>1, <2>2, <2>3 DEF WaitSynchronization
<1>4. PICK label \in {"success", "get"}, n \in Nat :
        /\ Goto(t, label) /\ idx' = [idx EXCEPT ![t] = n]
        /\ label = "get" => hs # <<>>
  BY <1>3
<1>5. TypeOK'
  BY <1>1, <1>2, <1>4 DEF Goto, TypeOK, PcSet, WaitPc
<1>6. label = "get" => 1 \in 1..Len(hs)
  BY <1>1, <1>4
<1>7. IndexInv'
  BY <1>2, <1>4, <1>6 DEF Goto, TypeOK, IndexInv, LoopPc, BodyPc
<1>8. EntryInv'
  BY <1>2, <1>4 DEF Goto, TypeOK, EntryInv, RegisteredPc
<1>9. CoverInv'
  BY <1>2, <1>4 DEF Goto, TypeOK, CoverInv, CoveredPc
<1> QED BY <1>5, <1>7, <1>8, <1>9

(* Reading the objects: the call is not registered yet.                    *)
LEMMA GetObjectStep ==
  ASSUME IInv, NEW t \in Thread, GetObject(t)
  PROVE  IInv'
<1> USE DEF IInv
<1>1. /\ pc[t] = "get" /\ i[t] \in 1..Len(objs[t])
      /\ objs' = [objs EXCEPT ![t][i[t]] = Get(@)]
      /\ Iterate(t, "scan")
      /\ UNCHANGED <<table, sig, waiters, timeout, idx, tgt, seen, cleared, uaf>>
  BY DEF GetObject, IndexInv, BodyPc, LoopPc
<1>2. /\ objs' \in [Thread -> Seq(Obj \cup {FakeHandle, Null})]
      /\ Len(objs'[t]) = Len(objs[t])
      /\ \A u \in Thread \ {t} : objs'[u] = objs[u]
  BY <1>1, GetObjectTyped
<1>3. "scan" \in PcSet
  BY DEF PcSet, WaitPc
<1>4. /\ i' \in [Thread -> Nat] /\ pc' \in [Thread -> PcSet]
      /\ \A u \in Thread \ {t} : pc'[u] = pc[u] /\ i'[u] = i[u]
      /\ \/ pc'[t] = "scan" /\ i'[t] = 1 /\ i[t] = Len(objs[t])
         \/ pc'[t] = pc[t] /\ i'[t] = i[t] + 1 /\ i'[t] <= Len(objs[t])
  BY <1>1, <1>3, IterateEffect
<1>5. TypeOK'
  BY <1>1, <1>2, <1>4 DEF TypeOK
<1>6. IndexInv'
  BY <1>1, <1>2, <1>4 DEF TypeOK, IndexInv, LoopPc, BodyPc
<1>7. EntryInv'
  <2>1. \A x \in Obj : \A u \in waiters[x] : u \in Thread \ {t}
    BY <1>1 DEF TypeOK, EntryInv, RegisteredPc
  <2>2. \A x \in Obj : \A u \in waiters[x] :
          pc'[u] = pc[u] /\ i'[u] = i[u] /\ objs'[u] = objs[u]
    BY <1>2, <1>4, <2>1
  <2> QED BY <1>1, <2>2 DEF EntryInv
<1>8. CoverInv'
  <2> SUFFICES ASSUME NEW u \in Thread, NEW k \in 1..Len(objs'[u]),
                      objs'[u][k] \in table,
                      pc'[u] \in CoveredPc \/ (pc'[u] = "register" /\ k < i'[u])
               PROVE  u \in waiters[objs'[u][k]]
    BY <1>1 DEF CoverInv
  <2>1. u # t
    BY <1>1, <1>4 DEF CoveredPc
  <2>2. pc'[u] = pc[u] /\ i'[u] = i[u] /\ objs'[u] = objs[u]
    BY <1>2, <1>4, <2>1
  <2> QED BY <2>2 DEF CoverInv
<1> QED BY <1>5, <1>6, <1>7, <1>8

(* The four search loops of SvcWaitSynchronization: before registering,    *)
(* after it, as the predicate of the wait, and after the wait.             *)
LEMMA LookStep ==
  ASSUME IInv, NEW t \in Thread, NEW at, NEW hit, NEW miss,
         Look(t, at, hit, miss),
         \/ at = "scan" /\ {hit, miss} \subseteq {"success", "timedout", "register"}
         \/ /\ at \in {"check", "pred", "recheck"}
            /\ {hit, miss} \subseteq {"pred", "recheck", "block", "unregister"}
  PROVE  IInv'
<1> USE DEF IInv
<1>1. /\ pc[t] = at /\ i[t] \in 1..Len(objs[t]) /\ hit \in PcSet /\ miss \in PcSet
      /\ UNCHANGED <<table, sig, waiters, objs, timeout, tgt, seen, cleared>>
  BY DEF Look, IndexInv, BodyPc, LoopPc, PcSet, WaitPc
<1>2. /\ i' \in [Thread -> Nat] /\ idx' \in [Thread -> Nat]
      /\ pc' \in [Thread -> PcSet]
      /\ \A u \in Thread \ {t} : pc'[u] = pc[u] /\ i'[u] = i[u]
      /\ \/ pc'[t] \in {hit, miss} /\ i'[t] = 1
         \/ pc'[t] = pc[t] /\ i'[t] = i[t] + 1 /\ i'[t] <= Len(objs[t])
      /\ uaf' \subseteq Obj
  BY <1>1, LookEffect
<1>3. TypeOK'
  BY <1>1, <1>2 DEF TypeOK
<1>4. IndexInv'
  BY <1>1, <1>2 DEF TypeOK, IndexInv, LoopPc, BodyPc
<1>5. EntryInv'
  <2>1. ASSUME NEW x \in Obj, NEW u \in waiters[x]
        PROVE  /\ pc'[u] \in RegisteredPc
               /\ pc'[u] \in {"register", "unregister"} =>
                    (pc'[u] = pc[u] /\ i'[u] = i[u]) \/ (pc'[u] = "unregister" /\ i'[u] = 1)
    BY <1>1, <1>2 DEF TypeOK, EntryInv, RegisteredPc
  <2> QED BY <1>1, <2>1 DEF EntryInv
<1>6. CoverInv'
  <2>1. \/ pc'[t] \in CoveredPc /\ pc[t] \in CoveredPc
        \/ pc'[t] \notin CoveredPc \cup {"register"}
        \/ pc'[t] = "register" /\ i'[t] = 1
    BY <1>1, <1>2 DEF CoveredPc
  <2> SUFFICES ASSUME NEW u \in Thread, NEW k \in 1..Len(objs[u]),
                      objs[u][k] \in table,
                      pc'[u] \in CoveredPc \/ (pc'[u] = "register" /\ k < i'[u])
               PROVE  u \in waiters[objs[u][k]]
    BY <1>1 DEF CoverInv
  <2>2. CASE u = t
    <3>1. pc[t] \in CoveredPc
      BY <2>1, <2>2 DEF CoveredPc, TypeOK
    <3> QED BY <2>2, <3>1 DEF CoverInv
  <2>3. CASE u # t
    BY <1>2, <2>3 DEF CoverInv
  <2> QED BY <2>2, <2>3
<1> QED BY <1>3, <1>4, <1>5, <1>6

(* Every step of every thread keeps the invariant.                         *)
LEMMA NextIInv == IInv /\ [Next]_vars => IInv'
<1> SUFFICES ASSUME IInv, [Next]_vars PROVE IInv'
  OBVIOUS
<1>1. ASSUME NEW t \in Thread, WaitStep(t) PROVE IInv'
  <2>1. CASE Scan(t)      BY <2>1, LookStep DEF Scan
  <2>2. CASE Check(t)     BY <2>2, LookStep DEF Check
  <2>3. CASE Predicate(t) BY <2>3, LookStep DEF Predicate
  <2>4. CASE Recheck(t)   BY <2>4, LookStep DEF Recheck
  <2> QED BY <1>1, <2>1, <2>2, <2>3, <2>4, GetObjectStep, RegisterWaiterStep,
             BlockStep, UnregisterWaiterStep, ReturnStep DEF WaitStep
<1>2. ASSUME NEW t \in Thread, SignalStep(t) PROVE IInv'
  BY <1>2, SetFlagStep, NotifyOwnCvStep, NotifyWaitersStep, WakeEventStep,
     ClearStep DEF SignalStep
<1>3. ASSUME NEW t \in Thread, Call(t) PROVE IInv'
  <2>1. CASE \E hs \in HandleLists, to \in Timeouts : WaitSynchronization(t, hs, to)
    BY <2>1, WaitSynchronizationStep
  <2>2. CASE \E e \in Event : SignalEvent(t, e) \/ ClearEvent(t, e)
    BY <2>2, EventCallStep DEF SignalEvent, ClearEvent
  <2> QED BY <1>3, <2>1, <2>2, ExitThreadStep, GuestReturnsStep DEF Call
<1>4. ASSUME NEW t \in Thread, NEW o \in Closable, CloseHandle(t, o) PROVE IInv'
  BY <1>4, CloseHandleStep, SyncAssumption
<1>5. CASE UNCHANGED vars
  BY <1>5 DEF vars, IInv, TypeOK, IndexInv, EntryInv, CoverInv
<1> QED BY <1>1, <1>2, <1>3, <1>4, <1>5, SpuriousWakeupStep, ExpireStep DEF Next

(* The inductive invariant of the waiter lists.                            *)
THEOREM Inductive == Spec => []IInv
BY InitIInv, NextIInv, PTL DEF Spec

(* The kernel-object state keeps its type.                                 *)
THEOREM TypeCorrect == Spec => []TypeOK
<1>1. IInv => TypeOK
  BY DEF IInv
<1> QED BY <1>1, Inductive, PTL

(* No KObject ever holds a waiter whose condition variable is gone from    *)
(* the stack of SvcWaitSynchronization.                                    *)
THEOREM NoDanglingWaiter == Spec => []WaiterLifetime
<1>1. IInv => WaiterLifetime
  BY DEF IInv, TypeOK, EntryInv, WaiterLifetime, Waiting, RegisteredPc, WaitPc
<1> QED BY <1>1, Inductive, PTL

(* A thread asleep in SvcWaitSynchronization is on the waiter list of      *)
(* every object it waits for that still exists.                            *)
THEOREM SleepersRegistered == Spec => []AsleepCovered
<1>1. IInv => AsleepCovered
  BY DEF IInv, TypeOK, CoverInv, AsleepCovered, CoveredPc
<1> QED BY <1>1, Inductive, PTL
----------------------------------------------------------------------------
(* Results of SvcWaitSynchronization.                                      *)

(* Whatever is signaled during a call has been seen by its history.        *)
SignaledSeen(t) == pc[t] \in WaitPc => \A o \in Obj : sig[o] => o \in seen[t]

(* There is no index before the call's first search.                       *)
IndexUnset(t) == pc[t] \notin WaitPc \/ pc[t] = "get" => idx[t] = 0

(* An index, once found, denotes a fake handle, or an object that was      *)
(* signaled during the call or read after it was deleted.                  *)
HitJustified(t) ==
  pc[t] \in WaitPc /\ idx[t] # 0 =>
    /\ idx[t] \in 1..Len(objs[t])
    /\ objs[t][idx[t]] \in seen[t] \cup uaf \cup {FakeHandle}

(* What can make a call without a timeout come back empty-handed.          *)
Excused(t) == cleared[t] \/ \E k \in 1..Len(objs[t]) : objs[t][k] \in uaf

(* A call without a timeout gets to the second look only because of a      *)
(* signaled object, which the look has yet to reach unless it was cleared  *)
(* or deleted meanwhile.                                                   *)
MissJustified(t) ==
  timeout[t] = "infinite" =>
    /\ pc[t] = "recheck" =>
         \/ Excused(t)
         \/ \E k \in 1..Len(objs[t]) :
              i[t] <= k /\ objs[t][k] \in Obj /\ sig[objs[t][k]]
    /\ pc[t] = "unregister" /\ idx[t] = 0 => Excused(t)
    /\ pc[t] = "timedout" => Excused(t)

Justified(t) == SignaledSeen(t) /\ IndexUnset(t) /\ HitJustified(t) /\ MissJustified(t)

ResultInv == \A t \in Thread : Justified(t)

(* A step of another thread that signals and clears nothing.               *)
LEMMA JustifiedFrame ==
  ASSUME NEW u \in Thread, Justified(u), sig' = sig, uaf \subseteq uaf',
         pc'[u] = pc[u], objs'[u] = objs[u], timeout'[u] = timeout[u], i'[u] = i[u],
         idx'[u] = idx[u], seen'[u] = seen[u], cleared'[u] = cleared[u]
  PROVE  Justified(u)'
<1>1. Excused(u) => Excused(u)'
  BY DEF Excused
<1>2. SignaledSeen(u)' /\ IndexUnset(u)'
  BY DEF Justified, SignaledSeen, IndexUnset
<1>3. HitJustified(u)'
  BY DEF Justified, HitJustified
<1>4. MissJustified(u)'
  BY <1>1 DEF Justified, MissJustified
<1> QED BY <1>2, <1>3, <1>4 DEF Justified

(* A thread outside every wait call, or with nothing found yet.            *)
LEMMA JustifiedOutside ==
  ASSUME NEW t \in Thread, idx'[t] = 0, pc'[t] \notin WaitPc
  PROVE  Justified(t)'
BY DEF Justified, SignaledSeen, IndexUnset, HitJustified, MissJustified, WaitPc

(* A search step of any of the four loops.                                 *)
LEMMA JustifiedLook ==
  ASSUME IInv, ResultInv, NEW t \in Thread, NEW at, NEW hit, NEW miss,
         Look(t, at, hit, miss),
         \/ at = "scan" /\ hit = "success"
            /\ miss \in {"register"} \cup (IF timeout[t] = "zero" THEN {"timedout"} ELSE {})
         \/ at = "check" /\ hit = "unregister" /\ miss = "pred"
         \/ at = "pred" /\ hit = "recheck" /\ miss = "block"
         \/ at = "recheck" /\ hit = "unregister" /\ miss = "unregister"
  PROVE  ResultInv'
<1> DEFINE o == objs[t][i[t]]
<1>1. /\ pc[t] = at /\ i[t] \in 1..Len(objs[t]) /\ Len(objs[t]) \in Nat /\ Access(o)
      /\ UNCHANGED <<table, sig, objs, timeout, seen, cleared>>
      /\ hit \in WaitPc /\ miss \in WaitPc /\ at \in WaitPc
  BY DEF Look, IInv, IndexInv, BodyPc, LoopPc, WaitPc, TypeOK
<1>2. uaf \subseteq uaf'
  BY <1>1 DEF Access
<1>3. /\ pc \in [Thread -> PcSet] /\ i \in [Thread -> Nat] /\ idx \in [Thread -> Nat]
      /\ timeout \in [Thread -> TimeoutKinds]
  BY DEF IInv, TypeOK
<1>4. \A u \in Thread \ {t} : pc'[u] = pc[u] /\ i'[u] = i[u] /\ idx'[u] = idx[u]
  BY <1>1, <1>3 DEF Look, Goto, Iterate
<1>5. \A u \in Thread \ {t} : Justified(u)'
  BY <1>1, <1>2, <1>4, JustifiedFrame DEF ResultInv
<1>6. Justified(t)
  BY DEF ResultInv
<1>7. Excused(t) => Excused(t)'
  BY <1>1, <1>2 DEF Excused
<1>8. CASE MaySignaled(o) /\ Goto(t, hit) /\ i' = [i EXCEPT ![t] = 1]
           /\ idx' = [idx EXCEPT ![t] = i[t]]
  <2>1. pc'[t] = hit /\ i'[t] = 1 /\ idx'[t] = i[t] /\ idx'[t] # 0
    BY <1>1, <1>3, <1>8 DEF Goto
  <2>2. o \in Obj /\ (o \in uaf' \/ sig[o])
    BY <1>1, <1>8 DEF MaySignaled, Access, IInv, TypeOK
  <2>3. o \in seen[t] \cup uaf'
    BY <1>1, <1>6, <2>2 DEF Justified, SignaledSeen
  <2>4. SignaledSeen(t)' /\ IndexUnset(t)'
    BY <1>1, <1>6, <2>1 DEF Justified, SignaledSeen, IndexUnset, WaitPc
  <2>5. HitJustified(t)'
    BY <1>1, <2>1, <2>3 DEF HitJustified
  <2>6. MissJustified(t)'
    <3>1. o \in uaf' => Excused(t)'
      BY <1>1 DEF Excused
    <3>2. sig[o] => \E k \in 1..Len(objs'[t]) :
                      i'[t] <= k /\ objs'[t][k] \in Obj /\ sig'[objs'[t][k]]
      BY <1>1, <2>1, <2>2
    <3> QED BY <2>1, <2>2, <3>1, <3>2 DEF MissJustified
  <2> QED BY <1>5, <2>4, <2>5, <2>6 DEF ResultInv, Justified
<1>9. CASE MayNotSignaled(o) /\ idx' = [idx EXCEPT ![t] = 0] /\ Iterate(t, miss)
  <2>1. idx'[t] = 0
    BY <1>3, <1>9
  <2>2. \/ pc'[t] = miss /\ i'[t] = 1 /\ i[t] = Len(objs[t])
        \/ pc'[t] = at /\ i'[t] = i[t] + 1 /\ i[t] # Len(objs[t])
    BY <1>1, <1>3, <1>9 DEF Iterate, Goto
  <2>3. SignaledSeen(t)' /\ IndexUnset(t)' /\ HitJustified(t)'
    BY <1>1, <1>6, <2>1, <2>2 DEF Justified, SignaledSeen, IndexUnset, HitJustified
  <2>4. MissJustified(t)'
    <3> SUFFICES ASSUME timeout[t] = "infinite" PROVE MissJustified(t)'
      BY <1>1 DEF MissJustified
    <3>1. CASE at # "recheck"
      <4>1. pc'[t] \notin {"recheck", "unregister", "timedout"}
        BY <2>2, <3>1
      <4> QED BY <4>1 DEF MissJustified
    <3>2. CASE at = "recheck"
      <4>1. ASSUME o \in Obj, sig[o] PROVE Excused(t)'
        <5>1. o \in uaf'
          BY <1>1, <1>9, <4>1, SyncAssumption DEF MayNotSignaled, Access
        <5> QED BY <1>1, <5>1 DEF Excused
      <4>2. \/ Excused(t)
            \/ \E k \in 1..Len(objs[t]) : i[t] <= k /\ objs[t][k] \in Obj /\ sig[objs[t][k]]
        BY <1>1, <1>6, <3>2 DEF Justified, MissJustified
      <4>3. \/ Excused(t)'
            \/ \E k \in 1..Len(objs[t]) : i[t] + 1 <= k /\ objs[t][k] \in Obj /\ sig[objs[t][k]]
        BY <1>1, <1>7, <4>1, <4>2
      <4>4. CASE pc'[t] = at /\ i'[t] = i[t] + 1
        BY <1>1, <3>2, <4>3, <4>4 DEF MissJustified
      <4>5. CASE pc'[t] = miss /\ i[t] = Len(objs[t])
        <5>1. Excused(t)'
          BY <1>1, <4>3, <4>5
        <5>2. pc'[t] = "unregister"
          BY <3>2, <4>5
        <5> QED BY <5>1, <5>2 DEF MissJustified
      <4> QED BY <2>2, <4>4, <4>5
    <3> QED BY <3>1, <3>2
  <2> QED BY <1>5, <2>3, <2>4 DEF ResultInv, Justified
<1> QED BY <1>8, <1>9 DEF Look

(* A step inside a wait call that looks at nothing: the searches before it *)
(* keep their result, and what it touches may at most be added to uaf.     *)
LEMMA JustifiedMove ==
  ASSUME IInv, ResultInv, NEW t \in Thread, uaf \subseteq uaf',
         UNCHANGED <<sig, objs, timeout, idx, seen, cleared>>,
         pc[t] \in WaitPc \ {"get"}, pc'[t] \in WaitPc \ {"get"},
         \A u \in Thread \ {t} : pc'[u] = pc[u] /\ i'[u] = i[u],
         \/ pc'[t] \notin {"recheck", "unregister", "timedout"}
         \/ pc'[t] = "recheck" /\ timeout[t] # "infinite"
         \/ /\ pc[t] = "unregister" /\ pc'[t] \in {"unregister", "timedout"}
            /\ pc'[t] = "timedout" => idx[t] = 0
  PROVE  ResultInv'
<1>1. \A u \in Thread \ {t} : Justified(u)'
  BY JustifiedFrame DEF ResultInv
<1>2. Justified(t)
  BY DEF ResultInv
<1>3. Excused(t) => Excused(t)'
  BY DEF Excused
<1>4. SignaledSeen(t)' /\ IndexUnset(t)'
  BY <1>2 DEF Justified, SignaledSeen, IndexUnset
<1>5. HitJustified(t)'
  BY <1>2 DEF Justified, HitJustified
<1>6. MissJustified(t)'
  BY <1>2, <1>3 DEF Justified, MissJustified
<1> QED BY <1>1, <1>4, <1>5, <1>6 DEF ResultInv, Justified

LEMMA JustifiedWait ==
  ASSUME IInv, ResultInv, NEW t \in Thread, WaitStep(t)
  PROVE  ResultInv'
<1>0. /\ pc \in [Thread -> PcSet] /\ i \in [Thread -> Nat] /\ idx \in [Thread -> Nat]
      /\ objs \in [Thread -> Seq(Obj \cup {FakeHandle, Null})]
      /\ timeout \in [Thread -> TimeoutKinds] /\ seen \in [Thread -> SUBSET Obj]
      /\ cleared \in [Thread -> BOOLEAN] /\ uaf \subseteq Obj
      /\ pc[t] \in BodyPc => i[t] \in 1..Len(objs[t])
  BY DEF IInv, TypeOK, IndexInv
<1>1. CASE GetObject(t)
  <2>1. /\ pc[t] = "get" /\ idx'[t] = 0 /\ UNCHANGED <<sig, timeout, idx, seen, cleared, uaf>>
        /\ i[t] \in 1..Len(objs[t])
        /\ Iterate(t, "scan") /\ objs' = [objs EXCEPT ![t][i[t]] = Get(@)]
    BY <1>0, <1>1 DEF GetObject, ResultInv, Justified, IndexUnset, BodyPc, LoopPc
  <2>2. \A u \in Thread \ {t} : objs'[u] = objs[u]
    BY <2>1, GetObjectTyped DEF IInv
  <2>3. /\ \A u \in Thread \ {t} : pc'[u] = pc[u] /\ i'[u] = i[u]
        /\ pc'[t] \in {"get", "scan"}
    BY <2>1, IterateEffect DEF IInv, PcSet, WaitPc
  <2>4. \A u \in Thread \ {t} : Justified(u)'
    BY <2>1, <2>2, <2>3, JustifiedFrame DEF ResultInv
  <2>5. Justified(t)'
    <3>1. SignaledSeen(t)'
      BY <2>1, <2>3 DEF ResultInv, Justified, SignaledSeen, WaitPc
    <3> QED BY <2>1, <2>3, <3>1 DEF Justified, IndexUnset, HitJustified, MissJustified
  <2> QED BY <2>4, <2>5 DEF ResultInv
<1>2. CASE Scan(t)
  BY <1>2, JustifiedLook DEF Scan
<1>3. CASE Check(t)
  BY <1>3, JustifiedLook DEF Check
<1>4. CASE Predicate(t)
  BY <1>4, JustifiedLook DEF Predicate
<1>5. CASE Recheck(t)
  BY <1>5, JustifiedLook DEF Recheck
<1>6. CASE RegisterWaiter(t)
  <2>1. /\ pc[t] = "register" /\ uaf \subseteq uaf' /\ Iterate(t, "check")
        /\ UNCHANGED <<sig, objs, timeout, idx, seen, cleared>>
    BY <1>6 DEF RegisterWaiter, Access
  <2>2. /\ \A u \in Thread \ {t} : pc'[u] = pc[u] /\ i'[u] = i[u]
        /\ pc'[t] \in {"register", "check"}
    BY <1>0, <2>1, IterateEffect DEF IInv, PcSet, WaitPc, BodyPc, LoopPc
  <2> QED BY <2>1, <2>2, JustifiedMove DEF WaitPc
<1>7. CASE Block(t)
  <2>1. /\ pc[t] = "block" /\ pc'[t] = "asleep"
        /\ \A u \in Thread \ {t} : pc'[u] = pc[u] /\ i'[u] = i[u]
        /\ UNCHANGED <<sig, objs, timeout, idx, seen, cleared, uaf>>
    BY <1>0, <1>7 DEF Block, Goto
  <2> QED BY <2>1, JustifiedMove DEF WaitPc
<1>8. CASE UnregisterWaiter(t)
  <2> DEFINE label == IF idx[t] = 0 THEN "timedout" ELSE "success"
  <2>1. /\ pc[t] = "unregister" /\ uaf \subseteq uaf' /\ Iterate(t, label)
        /\ UNCHANGED <<sig, objs, timeout, idx, seen, cleared>> /\ label \in PcSet
    BY <1>8 DEF UnregisterWaiter, Access, PcSet, WaitPc
  <2>2. /\ \A u \in Thread \ {t} : pc'[u] = pc[u] /\ i'[u] = i[u]
        /\ pc'[t] \in {"unregister", label}
    BY <1>0, <2>1, IterateEffect DEF IInv, BodyPc, LoopPc
  <2> QED BY <2>1, <2>2, JustifiedMove DEF WaitPc
<1>9. CASE Return(t)
  <2>1. /\ pc'[t] = "guest" /\ idx'[t] = 0 /\ sig' = sig /\ uaf' = uaf
        /\ \A u \in Thread \ {t} :
             /\ pc'[u] = pc[u] /\ objs'[u] = objs[u] /\ timeout'[u] = timeout[u]
             /\ i'[u] = i[u] /\ idx'[u] = idx[u] /\ seen'[u] = seen[u]
             /\ cleared'[u] = cleared[u]
    BY <1>0, <1>9 DEF Return, LeaveCall, Goto
  <2>2. Justified(t)'
    BY <2>1, JustifiedOutside DEF WaitPc
  <2>3. \A u \in Thread \ {t} : Justified(u)'
    BY <2>1, JustifiedFrame DEF ResultInv
  <2> QED BY <2>2, <2>3 DEF ResultInv
<1> QED BY <1>1, <1>2, <1>3, <1>4, <1>5, <1>6, <1>7, <1>8, <1>9 DEF WaitStep

(* Steps of a thread outside wait calls, which wake others at most.        *)
LEMMA JustifiedSignal ==
  ASSUME IInv, ResultInv, NEW t \in Thread, SignalStep(t)
  PROVE  ResultInv'
<1>0. /\ pc \in [Thread -> PcSet] /\ sig \in [Obj -> BOOLEAN] /\ tgt[t] \in Obj \cup {Null}
      /\ uaf \subseteq uaf'
  BY DEF IInv, TypeOK, SignalStep, SetFlag, NotifyOwnCv, NotifyWaiters, WakeEvent, Clear, Access
<1>1. UNCHANGED <<objs, timeout, i, idx>>
  BY DEF SignalStep, SetFlag, NotifyOwnCv, NotifyWaiters, WakeEvent, Clear
<1>2. pc[t] \in SignalPc /\ pc'[t] \notin WaitPc /\ idx'[t] = 0
  <2>1. pc[t] \in SignalPc
    BY DEF SignalStep, SetFlag, NotifyOwnCv, NotifyWaiters, WakeEvent, Clear, SignalPc
  <2>2. pc'[t] \notin WaitPc
    BY <1>0 DEF SignalStep, SetFlag, NotifyOwnCv, NotifyWaiters, WakeEvent, Clear,
                Goto, WaitPc
  <2>3. idx[t] = 0
    BY <2>1 DEF SignalPc, WaitPc, ResultInv, Justified, IndexUnset
  <2> QED BY <1>1, <2>1, <2>2, <2>3
<1>3. Justified(t)'
  BY <1>2, JustifiedOutside
<1>4. CASE SetFlag(t)
  <2>1. \A u \in Thread \ {t} : pc'[u] = pc[u]
    BY <1>0, <1>4 DEF SetFlag, Goto
  <2>2. \A o \in Obj : sig[o] => sig'[o]
    BY <1>0, <1>4 DEF SetFlag
  <2>3. ASSUME NEW u \in Thread \ {t} PROVE Justified(u)'
    <3>1. cleared'[u] = cleared[u] /\ Justified(u) /\ pc'[u] = pc[u]
      BY <1>4, <2>1 DEF SetFlag, ResultInv
    <3>2. Excused(u) => Excused(u)'
      BY <1>0, <1>1, <3>1 DEF Excused
    <3>3. seen[u] \subseteq seen'[u]
      <4>1. CASE tgt[t] \in table
        <5>1. seen'[u] = IF pc[u] \in WaitPc THEN seen[u] \cup {tgt[t]} ELSE seen[u]
          BY <1>4, <4>1 DEF SetFlag
        <5> QED BY <5>1
      <4>2. CASE tgt[t] \notin table
        BY <1>4, <4>2 DEF SetFlag
      <4> QED BY <4>1, <4>2
    <3>4. SignaledSeen(u)'
      <4>1. CASE tgt[t] \in table
        <5>1. sig' = [sig EXCEPT ![tgt[t]] = TRUE]
              /\ (pc[u] \in WaitPc => seen'[u] = seen[u] \cup {tgt[t]})
          BY <1>4, <4>1 DEF SetFlag
        <5>2. \A o \in Obj : sig'[o] => sig[o] \/ o = tgt[t]
          BY <1>0, <5>1
        <5> QED BY <3>1, <5>1, <5>2 DEF Justified, SignaledSeen
      <4>2. CASE tgt[t] \notin table
        BY <1>4, <3>1, <4>2 DEF SetFlag, Justified, SignaledSeen
      <4> QED BY <4>1, <4>2
    <3>5. IndexUnset(u)' /\ HitJustified(u)'
      BY <1>0, <1>1, <3>1, <3>3 DEF Justified, IndexUnset, HitJustified
    <3>6. MissJustified(u)'
      BY <1>1, <2>2, <3>1, <3>2 DEF Justified, MissJustified
    <3> QED BY <3>4, <3>5, <3>6 DEF Justified
  <2> QED BY <1>3, <2>3 DEF ResultInv
<1>5. CASE NotifyOwnCv(t) \/ WakeEvent(t)
  <2>1. /\ \A u \in Thread \ {t} : pc'[u] = pc[u]
        /\ UNCHANGED <<sig, seen, cleared>>
    BY <1>0, <1>5 DEF NotifyOwnCv, WakeEvent, Goto
  <2>2. \A u \in Thread \ {t} : Justified(u)'
    BY <1>0, <1>1, <2>1, JustifiedFrame DEF ResultInv
  <2> QED BY <1>3, <2>2 DEF ResultInv
<1>6. CASE NotifyWaiters(t)
  <2>1. /\ \A u \in Thread \ {t} : pc'[u] = pc[u] \/ (pc[u] = "asleep" /\ pc'[u] = "pred")
        /\ UNCHANGED <<sig, seen, cleared>>
    BY <1>6 DEF NotifyWaiters
  <2>2. ASSUME NEW u \in Thread \ {t}, pc[u] = "asleep", pc'[u] = "pred"
        PROVE  Justified(u)'
    BY <1>0, <1>1, <2>1, <2>2 DEF ResultInv, Justified, SignaledSeen, IndexUnset,
                                  HitJustified, MissJustified, WaitPc
  <2>3. \A u \in Thread \ {t} : pc'[u] = pc[u] => Justified(u)'
    BY <1>0, <1>1, <2>1, JustifiedFrame DEF ResultInv
  <2> QED BY <1>3, <2>1, <2>2, <2>3 DEF ResultInv
<1>7. CASE Clear(t)
  <2>1. \A u \in Thread \ {t} : pc'[u] = pc[u]
    BY <1>0, <1>7 DEF Clear, Goto
  <2>2. CASE tgt[t] \notin table
    <3>1. UNCHANGED <<sig, seen, cleared>>
      BY <1>7, <2>2 DEF Clear
    <3>2. \A u \in Thread \ {t} : Justified(u)'
      BY <1>0, <1>1, <2>1, <3>1, JustifiedFrame DEF ResultInv
    <3> QED BY <1>3, <3>2 DEF ResultInv
  <2>3. CASE tgt[t] \in table
    <3>1. /\ sig' = [sig EXCEPT ![tgt[t]] = FALSE] /\ seen' = seen
          /\ \A u \in Thread : cleared'[u] = (cleared[u] \/ Waiting(u, tgt[t]))
      BY <1>7, <2>3 DEF Clear
    <3>2. \A o \in Obj : /\ sig'[o] => sig[o]
                         /\ sig[o] => sig'[o] \/ o = tgt[t]
      BY <1>0, <3>1
    <3>3. ASSUME NEW u \in Thread \ {t} PROVE Justified(u)'
      <4>1. Justified(u) /\ pc'[u] = pc[u]
        BY <2>1 DEF ResultInv
      <4>2. Excused(u) => Excused(u)'
        BY <1>0, <1>1, <3>1 DEF Excused
      <4>3. SignaledSeen(u)' /\ IndexUnset(u)' /\ HitJustified(u)'
        BY <1>0, <1>1, <3>1, <3>2, <4>1 DEF Justified, SignaledSeen, IndexUnset, HitJustified
      <4>4. MissJustified(u)'
        <5>1. ASSUME NEW k \in 1..Len(objs[u]), objs[u][k] = tgt[t], pc[u] = "recheck"
              PROVE  Excused(u)'
          <6>1. Waiting(u, tgt[t])
            BY <5>1 DEF Waiting, WaitPc, IInv, TypeOK
          <6> QED BY <3>1, <6>1 DEF Excused
        <5> QED BY <1>1, <3>2, <4>1, <4>2, <5>1 DEF Justified, MissJustified
      <4> QED BY <4>3, <4>4 DEF Justified
    <3> QED BY <1>3, <3>3 DEF ResultInv
  <2> QED BY <2>2, <2>3
<1> QED BY <1>4, <1>5, <1>6, <1>7 DEF SignalStep

(* Calls, wakeups and closing handles.                                     *)
LEMMA JustifiedCall ==
  ASSUME IInv, ResultInv, NEW t \in Thread,
         \/ SpuriousWakeup(t) \/ Expire(t) \/ Call(t)
         \/ \E o \in Closable : CloseHandle(t, o)
  PROVE  ResultInv'
<1>0. /\ pc \in [Thread -> PcSet] /\ idx \in [Thread -> Nat]
      /\ objs \in [Thread -> Seq(Obj \cup {FakeHandle, Null})]
      /\ timeout \in [Thread -> TimeoutKinds] /\ seen \in [Thread -> SUBSET Obj]
  BY DEF IInv, TypeOK
<1>1. CASE SpuriousWakeup(t) \/ Expire(t)
  <2>1. /\ pc[t] = "asleep" /\ \/ pc'[t] = "pred"
                               \/ pc'[t] = "recheck" /\ timeout[t] # "infinite"
        /\ \A u \in Thread \ {t} : pc'[u] = pc[u] /\ i'[u] = i[u]
        /\ UNCHANGED <<sig, objs, timeout, idx, seen, cleared, uaf>>
    BY <1>0, <1>1 DEF SpuriousWakeup, Expire, Goto
  <2> QED BY <2>1, JustifiedMove DEF WaitPc
<1>2. ASSUME pc[t] = "guest", UNCHANGED <<sig, objs, timeout, i, idx, seen, cleared, uaf>>,
             pc'[t] \notin WaitPc, \A u \in Thread \ {t} : pc'[u] = pc[u]
      PROVE  ResultInv'
  <2>1. idx'[t] = 0
    BY <1>2 DEF ResultInv, Justified, IndexUnset, WaitPc
  <2>2. Justified(t)'
    BY <1>2, <2>1, JustifiedOutside
  <2>3. \A u \in Thread \ {t} : Justified(u)'
    BY <1>2, JustifiedFrame DEF ResultInv
  <2> QED BY <2>2, <2>3 DEF ResultInv
<1>3. CASE \E o \in Closable : CloseHandle(t, o)
  BY <1>2, <1>3 DEF CloseHandle, WaitPc
<1>4. CASE ExitThread(t) \/ GuestReturns(t) \/ \E e \in Event : SignalEvent(t, e) \/ ClearEvent(t, e)
  BY <1>0, <1>2, <1>4 DEF ExitThread, GuestReturns, SignalEvent, ClearEvent, EventCall,
                          Goto, WaitPc
<1>5. ASSUME NEW hs \in HandleLists, NEW to \in Timeouts, WaitSynchronization(t, hs, to)
      PROVE  ResultInv'
  <2>1. /\ pc[t] = "guest" /\ objs'[t] = hs /\ seen'[t] = {o \in Obj : sig[o]}
        /\ UNCHANGED <<sig, i, cleared, uaf>>
        /\ \A u \in Thread \ {t} :
             /\ pc'[u] = pc[u] /\ objs'[u] = objs[u] /\ timeout'[u] = timeout[u]
             /\ idx'[u] = idx[u] /\ seen'[u] = seen[u]
    BY <1>0, <1>5 DEF WaitSynchronization, Goto
  <2>2. idx[t] = 0
    BY <2>1 DEF ResultInv, Justified, IndexUnset, WaitPc
  <2>3. /\ pc'[t] \in {"success", "get"}
        /\ \/ idx'[t] = 0
           \/ pc'[t] = "success" /\ idx'[t] \in 1..Len(hs) /\ hs[idx'[t]] = FakeHandle
    BY <1>0, <1>5, <2>2 DEF WaitSynchronization, Goto
  <2>4. Justified(t)'
    BY <2>1, <2>3 DEF Justified, SignaledSeen, IndexUnset, HitJustified, MissJustified, WaitPc
  <2>5. \A u \in Thread \ {t} : Justified(u)'
    BY <2>1, JustifiedFrame DEF ResultInv
  <2> QED BY <2>4, <2>5 DEF ResultInv
<1> QED BY <1>1, <1>3, <1>4, <1>5 DEF Call

(* SvcWaitSynchronization never reports an object that was not signaled    *)
(* during the call, and never times out without a timeout unless one of    *)
(* its events was cleared meanwhile; deleted objects are the exception.    *)
THEOREM ResultsJustified == Spec => []ResultJustified
<1>1. Init => ResultInv
  <2>1. Init => \A t \in Thread : pc[t] = "guest" /\ idx[t] = 0
    BY DEF Init
  <2> QED BY <2>1 DEF ResultInv, Justified, SignaledSeen, IndexUnset, HitJustified,
                      MissJustified, WaitPc
<1>2. IInv /\ ResultInv /\ [Next]_vars => ResultInv'
  <2>1. CASE UNCHANGED vars
    BY <2>1 DEF vars, ResultInv, Justified, SignaledSeen, IndexUnset, HitJustified,
                MissJustified, Excused
  <2> QED BY <2>1, JustifiedWait, JustifiedSignal, JustifiedCall DEF Next
<1>3. IInv /\ ResultInv => ResultJustified
  <2> SUFFICES ASSUME IInv, ResultInv, NEW t \in Thread
               PROVE  /\ pc[t] = "success" /\ idx[t] # 0 =>
                           objs[t][idx[t]] \in seen[t] \cup uaf \cup {FakeHandle}
                      /\ pc[t] = "timedout" /\ timeout[t] = "infinite" =>
                           cleared[t] \/ \E k \in DOMAIN objs[t] : objs[t][k] \in uaf
    BY DEF ResultJustified
  <2>1. Justified(t) /\ DOMAIN objs[t] = 1..Len(objs[t])
    BY DEF ResultInv, IInv, TypeOK
  <2> QED BY <2>1 DEF Justified, HitJustified, MissJustified, Excused, WaitPc
<1> QED BY <1>1, <1>2, <1>3, Inductive, PTL DEF Spec
=============================================================================
