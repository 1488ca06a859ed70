----------------------------- MODULE EventSpec ------------------------------
(***************************************************************************)
(* What a kernel event promises its users (kernel/Kernel.h, KEvent): a     *)
(* flag that is raised and lowered, and waits that end while it is up or,  *)
(* when they have a timeout, while it is down.  KEventWait implements it   *)
(* with a mutex and a condition variable.                                  *)
(***************************************************************************)

CONSTANT Thread

VARIABLES flag,    \* the event is signaled
          status   \* of each thread: "out", in a wait with or without a limit,
                   \* or about to return from it

vars == <<flag, status>>

Init == flag = FALSE /\ status = [t \in Thread |-> "out"]

Become(t, s) == status' = [status EXCEPT ![t] = s] /\ UNCHANGED flag

Raise == flag' = TRUE /\ UNCHANGED status
Lower == flag' = FALSE /\ UNCHANGED status

\* A wait may return at once.
Call(t) ==
    /\ status[t] = "out"
    /\ \/ status' = [status EXCEPT ![t] = IF flag THEN "success" ELSE "timedout"]
       \/ ~flag /\ \E s \in {"limited", "unlimited"} : status' = [status EXCEPT ![t] = s]
    /\ UNCHANGED flag

Succeed(t) ==
    /\ status[t] \in {"limited", "unlimited"} /\ flag
    /\ Become(t, "success")

TimeOut(t) ==
    /\ status[t] = "limited" /\ ~flag
    /\ Become(t, "timedout")

Leave(t) ==
    /\ status[t] \in {"success", "timedout"}
    /\ Become(t, "out")

Next ==
    \/ Raise
    \/ Lower
    \/ \E t \in Thread : Call(t) \/ Succeed(t) \/ TimeOut(t) \/ Leave(t)

\* A wait returns when the flag stays up, a limited one in any case.
Fairness ==
    \A t \in Thread : /\ WF_vars(Succeed(t))
                      /\ WF_vars(status[t] = "limited" /\ (Succeed(t) \/ TimeOut(t)))

Spec == Init /\ [][Next]_vars /\ Fairness
=============================================================================
