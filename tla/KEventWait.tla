----------------------------- MODULE KEventWait -----------------------------
(***************************************************************************)
(* KEvent::Signal, Clear and Wait on one event.  Unlike the multi-object   *)
(* wait of KernelSync, Wait sleeps on the event's own condition variable,  *)
(* holding the mutex under which Signal sets the flag: testing the         *)
(* predicate and going to sleep are one step with respect to Signal.       *)
(***************************************************************************)
EXTENDS Naturals

CONSTANTS Thread,   \* host threads
          Timeouts  \* timeouts passed to Wait: zero, finite, infinite

TimeoutKinds == {"zero", "finite", "infinite"}

ASSUME TimeoutsAssumption == Timeouts \subseteq TimeoutKinds

VARIABLES signaled,  \* KEvent::signaled
          pc,        \* where each thread is in Wait or Signal
          timeout    \* the timeout of the thread's Wait

vars == <<signaled, pc, timeout>>

(* "asleep" and "woken" are inside cv.wait or cv.wait_for.                 *)
PcSet == {"idle", "asleep", "woken", "success", "timedout", "notify"}

TypeOK ==
  /\ signaled \in BOOLEAN
  /\ pc \in [Thread -> PcSet]
  /\ timeout \in [Thread -> TimeoutKinds]

Init ==
  /\ signaled = FALSE
  /\ pc = [t \in Thread |-> "idle"]
  /\ timeout = [t \in Thread |-> "zero"]

Goto(t, label) == pc' = [pc EXCEPT ![t] = label]

(* Wait: the flag, then a zero timeout, then the condition variable.       *)
Wait(t, to) ==
  /\ pc[t] = "idle"
  /\ timeout' = [timeout EXCEPT ![t] = to]
  /\ Goto(t, IF signaled THEN "success"
             ELSE IF to = "zero" THEN "timedout" ELSE "asleep")
  /\ UNCHANGED signaled

(* After a notification the predicate is tested under the mutex.           *)
Retest(t) ==
  /\ pc[t] = "woken"
  /\ Goto(t, IF signaled THEN "success" ELSE "asleep")
  /\ UNCHANGED <<signaled, timeout>>

SpuriousWakeup(t) ==
  /\ pc[t] = "asleep"
  /\ Goto(t, "woken")
  /\ UNCHANGED <<signaled, timeout>>

(* Mutant: the wait starts over with the full time span.                   *)
ExpireRearms(t) ==
  /\ pc[t] = "asleep"
  /\ timeout[t] = "finite"
  /\ Goto(t, IF signaled THEN "success" ELSE "woken")
  /\ UNCHANGED <<signaled, timeout>>

(* wait_for returns the predicate's value when the time is up.             *)
Expire(t) ==
  /\ pc[t] = "asleep"
  /\ timeout[t] = "finite"
  /\ Goto(t, IF signaled THEN "success" ELSE "timedout")
  /\ UNCHANGED <<signaled, timeout>>

Return(t) ==
  /\ pc[t] \in {"success", "timedout"}
  /\ Goto(t, "idle")
  /\ timeout' = [timeout EXCEPT ![t] = "zero"]
  /\ UNCHANGED signaled

(* Signal: the flag under the mutex, then notify_all without it.           *)
Signal(t) ==
  /\ pc[t] = "idle"
  /\ signaled' = TRUE
  /\ Goto(t, "notify")
  /\ UNCHANGED timeout

(* Mutant: notify_one.                                                     *)
NotifyOne(t) ==
  /\ pc[t] = "notify"
  /\ \E w \in Thread :
       /\ pc[w] = "asleep" \/ w = t
       /\ pc' = [u \in Thread |-> IF u = t THEN "idle"
                                  ELSE IF u = w THEN "woken" ELSE pc[u]]
  /\ UNCHANGED <<signaled, timeout>>

NotifyAll(t) ==
  /\ pc[t] = "notify"
  /\ pc' = [u \in Thread |->
              IF u = t THEN "idle" ELSE IF pc[u] = "asleep" THEN "woken" ELSE pc[u]]
  /\ UNCHANGED <<signaled, timeout>>

Clear(t) ==
  /\ pc[t] = "idle"
  /\ signaled' = FALSE
  /\ UNCHANGED <<pc, timeout>>

Inside(t) == Retest(t) \/ Return(t) \/ NotifyAll(t)

Next ==
  \E t \in Thread :
    \/ \E to \in Timeouts : Wait(t, to)
    \/ Signal(t) \/ Clear(t)
    \/ SpuriousWakeup(t) \/ Expire(t)
    \/ Inside(t)

Spec == Init /\ [][Next]_vars

(* The host schedules its threads; a deadline is absolute (see KernelSync).*)
Fairness == \A t \in Thread : WF_vars(Inside(t)) /\ SF_vars(Expire(t))

FairSpec == Spec /\ Fairness

----------------------------------------------------------------------------
(* Whenever a thread sleeps in Wait although the event is signaled, some   *)
(* thread is still between setting the flag and notify_all in Signal: no   *)
(* wakeup of KEvent::Wait is lost.                                         *)
NoLostWakeup ==
  \A t \in Thread : pc[t] = "asleep" /\ signaled =>
    \E s \in Thread : pc[s] = "notify"

(* A Wait with a negative timeout never returns TimedOut, whatever Clear   *)
(* does in between: the predicate that ends the wait decides the result.   *)
InfiniteNeverTimesOut ==
  \A t \in Thread : pc[t] = "timedout" => timeout[t] # "infinite"

(* The event the code promises: see EventSpec.                             *)
Status(t) ==
  CASE pc[t] \in {"idle", "notify"} -> "out"
    [] pc[t] \in {"asleep", "woken"} -> IF timeout[t] = "finite" THEN "limited" ELSE "unlimited"
    [] OTHER -> pc[t]

Event == INSTANCE EventSpec WITH flag <- signaled, status <- [t \in Thread |-> Status(t)]

(* KEvent::Wait, Signal and Clear implement the abstract event: a wait     *)
(* succeeds only at a moment the event is signaled, times out only at one  *)
(* when it is not and never without a limit, and returns when the event    *)
(* stays signaled or the time is up - however notifications, spurious      *)
(* wakeups and Clear fall.                                                 *)
ImplementsEvent == Event!Spec
=============================================================================
