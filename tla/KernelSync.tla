----------------------------- MODULE KernelSync -----------------------------
(***************************************************************************)
(* Waiting and signalling in the emulated kernel: the waiter lists of      *)
(* KObject, the flags of KEvent and KThread, the handle table's Get and    *)
(* Close, and the supervisor calls that use them: WaitSynchronization,     *)
(* SignalEvent, ClearEvent / ResetSignal, ExitThread and CloseHandle.      *)
(*                                                                         *)
(* Guest threads are host threads, so every lock region of the code is a   *)
(* step of its own.  A waiter is a pair of pointers to a mutex and a       *)
(* condition variable on the stack of the waiting call; a thread has one   *)
(* such pair at a time and is identified with it here.  The KThread of a   *)
(* thread is the object with the thread's own name; all threads have       *)
(* already been started.                                                   *)
(***************************************************************************)
EXTENDS Naturals, Sequences

CONSTANTS
  Thread,       \* host threads that run guest code
  Event,        \* the KEvent objects
  Null,         \* the null pointer KHandleTable::Get returns
  FakeHandle,   \* a handle that is reported signaled at once: 0, 0xE0000001
  HandleLists,  \* the handle arrays guests pass to WaitSynchronization
  Timeouts,     \* the timeouts guests pass: zero, finite, infinite
  Closable      \* the handles guests close

Obj == Event \cup Thread

TimeoutKinds == {"zero", "finite", "infinite"}

ASSUME SyncAssumption ==
  /\ Event \cap Thread = {}
  /\ Null \notin Obj \cup {FakeHandle}
  /\ FakeHandle \notin Obj
  /\ HandleLists \subseteq Seq(Obj \cup {FakeHandle})
  /\ Timeouts \subseteq TimeoutKinds
  /\ Closable \subseteq Obj

VARIABLES
  table,     \* objects the handle table holds; the others have been deleted
  sig,       \* KEvent::signaled, KThread::finished
  waiters,   \* KObject::waiters_ of each object
  pc,        \* where each thread is inside its supervisor call
  objs,      \* the call's handle array, then its object array
  timeout,   \* the call's timeout
  i,         \* the call's loop index
  idx,       \* the index the call reports; 0 for none
  tgt,       \* the object of SignalEvent, ClearEvent, ExitThread
  seen,      \* history: objects that were signaled during the call
  cleared,   \* history: the call overlapped the Clear of one of its events
  uaf        \* history: objects accessed after they were deleted

vars == <<table, sig, waiters, pc, objs, timeout, i, idx, tgt,
          seen, cleared, uaf>>

WaitPc ==
  {"get", "scan", "register", "check", "pred", "block", "asleep", "recheck",
   "unregister", "success", "timedout"}
SignalPc == {"set", "cv", "notify", "wake", "clear"}
PcSet == {"guest", "gone"} \cup WaitPc \cup SignalPc

TypeOK ==
  /\ table \subseteq Obj
  /\ sig \in [Obj -> BOOLEAN]
  /\ waiters \in [Obj -> SUBSET Thread]
  /\ pc \in [Thread -> PcSet]
  /\ objs \in [Thread -> Seq(Obj \cup {FakeHandle, Null})]
  /\ timeout \in [Thread -> TimeoutKinds]
  /\ i \in [Thread -> Nat]
  /\ idx \in [Thread -> Nat]
  /\ tgt \in [Thread -> Obj \cup {Null}]
  /\ seen \in [Thread -> SUBSET Obj]
  /\ cleared \in [Thread -> BOOLEAN]
  /\ uaf \subseteq Obj

Init ==
  /\ table = Obj
  /\ sig = [o \in Obj |-> FALSE]
  /\ waiters = [o \in Obj |-> {}]
  /\ pc = [t \in Thread |-> "guest"]
  /\ objs = [t \in Thread |-> <<>>]
  /\ timeout = [t \in Thread |-> "zero"]
  /\ i = [t \in Thread |-> 1]
  /\ idx = [t \in Thread |-> 0]
  /\ tgt = [t \in Thread |-> Null]
  /\ seen = [t \in Thread |-> {}]
  /\ cleared = [t \in Thread |-> FALSE]
  /\ uaf = {}

----------------------------------------------------------------------------
(* KHandleTable::Get: the pointer is used after the table's lock is gone.  *)
Get(h) == IF h \in table THEN h ELSE Null

(* The object is accessed through a pointer obtained earlier.              *)
Access(o) == uaf' = IF o \in Obj \ table THEN uaf \cup {o} ELSE uaf

(* o && o->IsSignaled() may be true, may be false; reading a deleted       *)
(* object may give either.                                                 *)
MaySignaled(o) == o \in Obj \ table \/ (o \in table /\ sig[o])
MayNotSignaled(o) == o \in Obj \ table \/ o = Null \/ (o \in table /\ ~sig[o])

(* The threads that are inside a wait call on object o.                    *)
Waiting(t, o) == pc[t] \in WaitPc /\ \E k \in DOMAIN objs[t] : objs[t][k] = o

Goto(t, label) == pc' = [pc EXCEPT ![t] = label]

(* The next iteration of a loop over the handle array, or out to a label.  *)
Iterate(t, label) ==
  \/ i[t] = Len(objs[t]) /\ i' = [i EXCEPT ![t] = 1] /\ Goto(t, label)
  \/ i[t] # Len(objs[t]) /\ i' = [i EXCEPT ![t] = @ + 1] /\ UNCHANGED pc

----------------------------------------------------------------------------
(* SvcWaitSynchronization                                                  *)

(* Entry: no handles, or a fake handle, which returns its index at once.   *)
WaitSynchronization(t, hs, to) ==
  /\ pc[t] = "guest"
  /\ objs' = [objs EXCEPT ![t] = hs]
  /\ timeout' = [timeout EXCEPT ![t] = to]
  /\ \/ hs = <<>> /\ Goto(t, "success") /\ UNCHANGED idx
     \/ \E k \in 1..Len(hs) :
          /\ hs[k] = FakeHandle
          /\ \A j \in 1..k-1 : hs[j] # FakeHandle
          /\ Goto(t, "success")
          /\ idx' = [idx EXCEPT ![t] = k]
     \/ /\ hs # <<>> /\ \A k \in 1..Len(hs) : hs[k] # FakeHandle
        /\ Goto(t, "get") /\ UNCHANGED idx
  /\ seen' = [seen EXCEPT ![t] = {o \in Obj : sig[o]}]
  /\ UNCHANGED <<table, sig, waiters, i, tgt, cleared, uaf>>

(* objects[i] = KernelHandleTable().Get(handles[i])                        *)
GetObject(t) ==
  /\ pc[t] = "get"
  /\ objs' = [objs EXCEPT ![t][i[t]] = Get(@)]
  /\ Iterate(t, "scan")
  /\ UNCHANGED <<table, sig, waiters, timeout, idx, tgt, seen, cleared, uaf>>

(* Mutant: a hit anywhere is reported as the first object's.               *)
LookFirst(t, at, hit, miss) ==
  LET o == objs[t][i[t]] IN
  /\ pc[t] = at
  /\ \/ /\ MaySignaled(o)
        /\ Goto(t, hit)
        /\ i' = [i EXCEPT ![t] = 1]
        /\ idx' = [idx EXCEPT ![t] = 1]
     \/ /\ MayNotSignaled(o)
        /\ idx' = [idx EXCEPT ![t] = 0]
        /\ Iterate(t, miss)
  /\ Access(o)
  /\ UNCHANGED <<table, sig, waiters, objs, timeout, tgt, seen, cleared>>

(* One iteration of a loop that looks for a signaled object.               *)
Look(t, at, hit, miss) ==
  LET o == objs[t][i[t]] IN
  /\ pc[t] = at
  /\ \/ /\ MaySignaled(o)
        /\ Goto(t, hit)
        /\ i' = [i EXCEPT ![t] = 1]
        /\ idx' = [idx EXCEPT ![t] = i[t]]
     \/ /\ MayNotSignaled(o)
        /\ idx' = [idx EXCEPT ![t] = 0]
        /\ Iterate(t, miss)
  /\ Access(o)
  /\ UNCHANGED <<table, sig, waiters, objs, timeout, tgt, seen, cleared>>

(* The scan before anything is registered; a zero timeout ends here.       *)
Scan(t) ==
  Look(t, "scan", "success", IF timeout[t] = "zero" THEN "timedout" ELSE "register")

(* Mutant: only the first object gets the waiter.                          *)
RegisterFirst(t) ==
  LET o == objs[t][i[t]] IN
  /\ pc[t] = "register"
  /\ waiters' = [x \in Obj |-> IF x = o /\ x \in table /\ i[t] = 1
                                  THEN waiters[x] \cup {t} ELSE waiters[x]]
  /\ Access(o)
  /\ Iterate(t, "check")
  /\ UNCHANGED <<table, sig, objs, timeout, idx, tgt, seen, cleared>>

(* objects[i]->RegisterWaiter(&wait_mtx, &wait_cv)                         *)
RegisterWaiter(t) ==
  LET o == objs[t][i[t]] IN
  /\ pc[t] = "register"
  /\ waiters' = [x \in Obj |-> IF x = o /\ x \in table
                                  THEN waiters[x] \cup {t} ELSE waiters[x]]
  /\ Access(o)
  /\ Iterate(t, "check")
  /\ UNCHANGED <<table, sig, objs, timeout, idx, tgt, seen, cleared>>

(* Mutant: a hit after registration returns without unregistering.         *)
CheckReturns(t) == Look(t, "check", "success", "pred")

(* check_signaled() after registration, under the call's own wait_mtx,     *)
(* which no other thread ever takes.                                       *)
Check(t) == Look(t, "check", "unregister", "pred")

(* The predicate of wait_cv.wait and wait_cv.wait_for.                     *)
Predicate(t) == Look(t, "pred", "recheck", "block")

(* wait_cv releases wait_mtx and sleeps, some time after the predicate.    *)
Block(t) ==
  /\ pc[t] = "block"
  /\ Goto(t, "asleep")
  /\ UNCHANGED <<table, sig, waiters, objs, timeout, i, idx, tgt, seen, cleared, uaf>>

(* A condition variable may wake without a notification.                   *)
SpuriousWakeup(t) ==
  /\ pc[t] = "asleep"
  /\ Goto(t, "pred")
  /\ UNCHANGED <<table, sig, waiters, objs, timeout, i, idx, tgt, seen, cleared, uaf>>

(* Mutant: the test of the timeout's sign is the wrong way round.          *)
ExpireInfinite(t) ==
  /\ pc[t] = "asleep"
  /\ timeout[t] = "infinite"
  /\ Goto(t, "recheck")
  /\ UNCHANGED <<table, sig, waiters, objs, timeout, i, idx, tgt, seen, cleared, uaf>>

(* wait_for gives up; the value it returns is ignored.                     *)
Expire(t) ==
  /\ pc[t] = "asleep"
  /\ timeout[t] = "finite"
  /\ Goto(t, "recheck")
  /\ UNCHANGED <<table, sig, waiters, objs, timeout, i, idx, tgt, seen, cleared, uaf>>

(* idx = check_signaled() after the wait.                                  *)
Recheck(t) == Look(t, "recheck", "unregister", "unregister")

(* objects[i]->UnregisterWaiter(&wait_cv), then the result.                *)
UnregisterWaiter(t) ==
  LET o == objs[t][i[t]] IN
  /\ pc[t] = "unregister"
  /\ waiters' = [x \in Obj |-> IF x = o /\ x \in table
                                  THEN waiters[x] \ {t} ELSE waiters[x]]
  /\ Access(o)
  /\ Iterate(t, IF idx[t] = 0 THEN "timedout" ELSE "success")
  /\ UNCHANGED <<table, sig, objs, timeout, idx, tgt, seen, cleared>>

(* The supervisor call returns to the guest; its locals are gone.          *)
LeaveCall(t) ==
  /\ Goto(t, "guest")
  /\ objs' = [objs EXCEPT ![t] = <<>>]
  /\ timeout' = [timeout EXCEPT ![t] = "zero"]
  /\ idx' = [idx EXCEPT ![t] = 0]
  /\ seen' = [seen EXCEPT ![t] = {}]
  /\ cleared' = [cleared EXCEPT ![t] = FALSE]

Return(t) ==
  /\ pc[t] \in {"success", "timedout"}
  /\ LeaveCall(t)
  /\ UNCHANGED <<table, sig, waiters, i, tgt, uaf>>

----------------------------------------------------------------------------
(* SvcSignalEvent, SvcClearEvent, SvcResetSignal: look the event up.       *)
EventCall(t, e, label) ==
  /\ pc[t] = "guest"
  /\ e \in table
  /\ Goto(t, label)
  /\ tgt' = [tgt EXCEPT ![t] = e]
  /\ UNCHANGED <<table, sig, waiters, objs, timeout, i, idx, seen, cleared, uaf>>

SignalEvent(t, e) == EventCall(t, e, "set")

ClearEvent(t, e) == EventCall(t, e, "clear")

(* SvcExitThread finds its own KThread by handle and marks it finished; a  *)
(* thread whose handle has been closed is not marked.  A guest function    *)
(* that returns gets to the same MarkFinished through the pointer the host *)
(* thread captured, without a lookup.                                      *)
ExitThread(t) ==
  /\ pc[t] = "guest"
  /\ \/ t \in table /\ Goto(t, "set") /\ tgt' = [tgt EXCEPT ![t] = t]
     \/ t \notin table /\ Goto(t, "gone") /\ UNCHANGED tgt
  /\ UNCHANGED <<table, sig, waiters, objs, timeout, i, idx, seen, cleared, uaf>>

GuestReturns(t) ==
  /\ pc[t] = "guest"
  /\ Goto(t, "set")
  /\ tgt' = [tgt EXCEPT ![t] = t]
  /\ UNCHANGED <<table, sig, waiters, objs, timeout, i, idx, seen, cleared, uaf>>

(* KEvent::Signal and KThread::MarkFinished, first the flag: under the     *)
(* event's own mutex, or atomically.                                       *)
SetFlag(t) ==
  /\ pc[t] = "set"
  /\ Access(tgt[t])
  /\ \/ /\ tgt[t] \in table
        /\ sig' = [sig EXCEPT ![tgt[t]] = TRUE]
        /\ seen' = [u \in Thread |->
                      IF pc[u] \in WaitPc THEN seen[u] \cup {tgt[t]} ELSE seen[u]]
     \/ tgt[t] \notin table /\ UNCHANGED <<sig, seen>>
  /\ Goto(t, "cv")
  /\ UNCHANGED <<table, waiters, objs, timeout, i, idx, tgt, cleared>>

(* cv.notify_all() on the object's own condition variable, on which no     *)
(* supervisor call waits.                                                  *)
NotifyOwnCv(t) ==
  /\ pc[t] = "cv"
  /\ Access(tgt[t])
  /\ Goto(t, "notify")
  /\ UNCHANGED <<table, sig, waiters, objs, timeout, i, idx, tgt, seen, cleared>>

(* KObject::NotifyWaiters: notify_all on every registered condition        *)
(* variable, under waiter_mtx_ and without the waiters' mutexes, so that   *)
(* only the threads already asleep are woken.  MarkFinished goes on.       *)
NotifyWaiters(t) ==
  LET woken == IF tgt[t] \in table
                 THEN {u \in waiters[tgt[t]] : pc[u] = "asleep"} ELSE {}
  IN
  /\ pc[t] = "notify"
  /\ Access(tgt[t])
  /\ pc' = [u \in Thread |->
              IF u = t THEN IF tgt[t] = t THEN "wake" ELSE "guest"
              ELSE IF u \in woken THEN "pred" ELSE pc[u]]
  /\ tgt' = IF tgt[t] = t THEN tgt ELSE [tgt EXCEPT ![t] = Null]
  /\ UNCHANGED <<table, sig, waiters, objs, timeout, i, idx, seen, cleared>>

(* The end of MarkFinished: wake_event, on which no one waits, is signaled *)
(* through the KThread, and the host thread ends.                          *)
WakeEvent(t) ==
  /\ pc[t] = "wake"
  /\ Access(tgt[t])
  /\ Goto(t, "gone")
  /\ tgt' = [tgt EXCEPT ![t] = Null]
  /\ UNCHANGED <<table, sig, waiters, objs, timeout, i, idx, seen, cleared>>

(* KEvent::Clear                                                           *)
Clear(t) ==
  /\ pc[t] = "clear"
  /\ Access(tgt[t])
  /\ \/ /\ tgt[t] \in table
        /\ sig' = [sig EXCEPT ![tgt[t]] = FALSE]
        /\ cleared' = [u \in Thread |-> cleared[u] \/ Waiting(u, tgt[t])]
     \/ tgt[t] \notin table /\ UNCHANGED <<sig, cleared>>
  /\ Goto(t, "guest")
  /\ tgt' = [tgt EXCEPT ![t] = Null]
  /\ UNCHANGED <<table, waiters, objs, timeout, i, idx, seen>>

(* SvcCloseHandle, KHandleTable::Close: the object is deleted, whoever     *)
(* still has a pointer to it.                                              *)
DeleteObject(o) ==
  /\ table' = table \ {o}
  /\ waiters' = [waiters EXCEPT ![o] = {}]

CloseHandle(t, o) ==
  /\ pc[t] = "guest"
  /\ o \in table
  /\ DeleteObject(o)
  /\ UNCHANGED <<sig, pc, objs, timeout, i, idx, tgt, seen, cleared, uaf>>

----------------------------------------------------------------------------
(* The steps a thread takes inside a call it has made.                     *)
WaitStep(t) ==
  \/ GetObject(t) \/ Scan(t) \/ RegisterWaiter(t) \/ Check(t) \/ Predicate(t)
  \/ Block(t) \/ Recheck(t) \/ UnregisterWaiter(t) \/ Return(t)

SignalStep(t) ==
  \/ SetFlag(t) \/ NotifyOwnCv(t) \/ NotifyWaiters(t) \/ WakeEvent(t) \/ Clear(t)

(* The calls a guest thread may make.                                      *)
Call(t) ==
  \/ \E hs \in HandleLists, to \in Timeouts : WaitSynchronization(t, hs, to)
  \/ \E e \in Event : SignalEvent(t, e) \/ ClearEvent(t, e)
  \/ ExitThread(t) \/ GuestReturns(t)

Next ==
  \E t \in Thread :
    \/ WaitStep(t) \/ SignalStep(t) \/ SpuriousWakeup(t) \/ Expire(t)
    \/ Call(t)
    \/ \E o \in Closable : CloseHandle(t, o)

Spec == Init /\ [][Next]_vars

(* The host schedules its threads.  The deadline of wait_for is absolute:  *)
(* once it has passed, going back to sleep after a vain wakeup ends in a   *)
(* timeout, so a thread cannot sleep again and again without expiring.     *)
(* Nothing makes a guest call anything, and no spurious wakeup is owed.    *)
Fairness ==
  \A t \in Thread :
    WF_vars(WaitStep(t)) /\ WF_vars(SignalStep(t)) /\ SF_vars(Expire(t))

FairSpec == Spec /\ Fairness

----------------------------------------------------------------------------
(* Properties                                                              *)

(* A waiter entry points at a condition variable on the stack of the call  *)
(* that registered it.  Every entry an object holds therefore belongs to a *)
(* call that is still between RegisterWaiter and the matching              *)
(* UnregisterWaiter and that names the object: no path out of              *)
(* SvcWaitSynchronization leaves a dangling waiter behind.                 *)
RegisteredPc ==
  {"register", "check", "pred", "block", "asleep", "recheck", "unregister"}

WaiterLifetime ==
  \A o \in Obj : \A t \in waiters[o] : pc[t] \in RegisteredPc /\ Waiting(t, o)

(* A thread that sleeps in SvcWaitSynchronization is registered with every *)
(* object it found and that still exists, so a later NotifyWaiters of any  *)
(* of them reaches it.                                                     *)
AsleepCovered ==
  \A t \in Thread : pc[t] = "asleep" =>
    \A k \in DOMAIN objs[t] : objs[t][k] \in table => t \in waiters[objs[t][k]]

(* The result of SvcWaitSynchronization is justified, although it is       *)
(* computed by a second look at the objects.  Success for an index: the    *)
(* object there was signaled at some moment of the call.  TimedOut without *)
(* a timeout: one of its events was cleared during the call.  Either may   *)
(* also be the answer of an object that was deleted under the call.        *)
ResultJustified ==
  \A t \in Thread :
    /\ pc[t] = "success" /\ idx[t] # 0 =>
         objs[t][idx[t]] \in seen[t] \cup uaf \cup {FakeHandle}
    /\ pc[t] = "timedout" /\ timeout[t] = "infinite" =>
         cleared[t] \/ \E k \in DOMAIN objs[t] : objs[t][k] \in uaf

(* SvcWaitSynchronization with a zero or finite timeout always returns.    *)
TimedWaitReturns ==
  \A t \in Thread :
    (pc[t] \in WaitPc /\ timeout[t] # "infinite") ~> pc[t] = "guest"

(* A wait on an event that stays signaled returns: what the unit test      *)
(* KObject_MultiHandleWait expects of RegisterWaiter, wait and Signal.     *)
SignaledWaitReturns ==
  \A t \in Thread, o \in Obj : ~<>[](Waiting(t, o) /\ o \in table /\ sig[o])
=============================================================================
