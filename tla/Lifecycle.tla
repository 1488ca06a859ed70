----------------------------- MODULE Lifecycle ------------------------------
(***************************************************************************)
(* The life of a game: EmulatorCore::Run and Stop (core/Core.cpp), guest   *)
(* threads from SvcStartThread to their end, the ways out of the guest     *)
(* (SvcExitThread, SvcExitProcess, SvcBreak, a fault), which all but the   *)
(* first pass through SigHandler::TrapHandler.                             *)
(***************************************************************************)
EXTENDS Naturals, FiniteSets, Sequences

CONSTANTS MaxThreads,  \* bound: KThread objects
          MaxHosts     \* bound: host threads that execute guest code

ASSUME LifecycleAssumption == {MaxThreads, MaxHosts} \subseteq Nat

VARIABLES
    running,   \* EmulatorCore::running_ (nothing reads paused_)
    exited,    \* g_guest_exited: set once, never reset
    threads,   \* KThread objects: the main one of a run?, started, finished
    hosts,     \* host threads: KThread they execute, where they are, argument
    stopped    \* EmulatorCore::Stop was called

lifeVars == <<running, exited, threads, hosts, stopped>>

Thread == 1..Len(threads)
Host == 1..Len(hosts)

\* "call": inside a supervisor call; "start": between the test and the store
\* of started in SvcStartThread; "wait": in a wait without a timeout;
\* "back": RunGuest has returned.
HostPc == {"guest", "start", "wait", "call", "back", "gone"}

LifeTypeOK ==
    /\ {running, exited} \subseteq BOOLEAN
    /\ \A k \in Thread : threads[k] \in [main: BOOLEAN, started: BOOLEAN, finished: BOOLEAN]
    /\ \A h \in Host : hosts[h].thread \in Thread /\ hosts[h].pc \in HostPc /\ hosts[h].arg \in 0..MaxThreads
    /\ stopped \in BOOLEAN

\* After Initialize: no game is running.
LifeInit ==
    /\ running = FALSE /\ exited = FALSE
    /\ threads = <<>> /\ hosts = <<>>
    /\ stopped = FALSE

-----------------------------------------------------------------------------
(* EmulatorCore.                                                           *)

\* The bound counts the host threads that are about to be started.
Room == Len(hosts) + Cardinality({h \in Host : hosts[h].pc = "start"}) < MaxHosts

Launch(k) ==
    /\ Room
    /\ hosts' = Append(hosts, [thread |-> k, pc |-> "guest", arg |-> 0])

\* Run: a new main thread on a detached host thread.
Run ==
    /\ ~stopped
    /\ ~running
    /\ Len(threads) < MaxThreads
    /\ running' = TRUE
    /\ threads' = Append(threads, [main |-> TRUE, started |-> TRUE, finished |-> FALSE])
    /\ Launch(Len(threads) + 1)
    /\ UNCHANGED <<exited, stopped>>

\* Stop: no guest thread is asked to end.
Stop ==
    /\ ~stopped /\ stopped' = TRUE
    /\ running' = FALSE
    /\ UNCHANGED <<exited, threads, hosts>>

-----------------------------------------------------------------------------
(* Guest threads.                                                          *)

At(h, pc) == h \in Host /\ hosts[h].pc = pc
Goto(h, pc) == hosts' = [hosts EXCEPT ![h].pc = pc]

\* A supervisor call that changes nothing modelled here.
OtherCall(h) ==
    /\ At(h, "guest") /\ Goto(h, "call")
    /\ UNCHANGED <<running, exited, threads, stopped>>

WaitForever(h) ==
    /\ At(h, "guest") /\ Goto(h, "wait")
    /\ UNCHANGED <<running, exited, threads, stopped>>

Signaled(h) ==
    /\ At(h, "wait") /\ Goto(h, "call")
    /\ UNCHANGED <<running, exited, threads, stopped>>

CreateThread(h) ==
    /\ At(h, "guest") /\ Goto(h, "call")
    /\ Len(threads) < MaxThreads
    /\ threads' = Append(threads, [main |-> FALSE, started |-> FALSE, finished |-> FALSE])
    /\ UNCHANGED <<running, exited, stopped>>

\* SvcStartThread: started is read, and set in a second step.
StartThread(h, k) ==
    /\ At(h, "guest") /\ (Room \/ threads[k].started)
    /\ hosts' = [hosts EXCEPT ![h].pc = IF threads[k].started THEN "call" ELSE "start", ![h].arg = k]
    /\ UNCHANGED <<running, exited, threads, stopped>>

StartHost(h) ==
    /\ At(h, "start")
    /\ threads' = [threads EXCEPT ![hosts[h].arg].started = TRUE]
    /\ hosts' = Append([hosts EXCEPT ![h].pc = "call", ![h].arg = 0],
                       [thread |-> hosts[h].arg, pc |-> "guest", arg |-> 0])
    /\ UNCHANGED <<running, exited, stopped>>

\* Mutant: the thread goes on after it was marked finished.
ExitThreadReturns(h) ==
    /\ At(h, "guest") /\ Goto(h, "call")
    /\ threads' = [threads EXCEPT ![hosts[h].thread].finished = @ \/ ~threads[hosts[h].thread].main]
    /\ UNCHANGED <<running, exited, stopped>>

\* SvcExitThread: the host thread ends on the spot.  The host thread of a main
\* thread has no g_current_thread_handle: nothing is marked, running_ stays.
ExitThread(h) ==
    /\ At(h, "guest") /\ Goto(h, "gone")
    /\ threads' = [threads EXCEPT ![hosts[h].thread].finished = @ \/ ~threads[hosts[h].thread].main]
    /\ UNCHANGED <<running, exited, stopped>>

\* SvcExitProcess and SvcBreak only set flags (SvcBreak also g_guest_crashed).
ExitProcess(h) ==
    /\ At(h, "guest") /\ Goto(h, "call")
    /\ exited' = TRUE
    /\ UNCHANGED <<running, threads, stopped>>

\* TrapHandler, any other signal: back to RunGuest at once.
Fault(h) ==
    /\ At(h, "guest") /\ Goto(h, "back")
    /\ exited' = TRUE
    /\ UNCHANGED <<running, threads, stopped>>

\* Mutant: only the main thread leaves when the process has exited.
TrapReturnMain(h) ==
    /\ At(h, "call")
    /\ Goto(h, IF exited /\ threads[hosts[h].thread].main THEN "back" ELSE "guest")
    /\ UNCHANGED <<running, exited, threads, stopped>>

\* TrapHandler after a supervisor call: on to the next instruction, or out
\* of the guest when the process has exited.
TrapReturn(h) ==
    /\ At(h, "call")
    /\ Goto(h, IF exited THEN "back" ELSE "guest")
    /\ UNCHANGED <<running, exited, threads, stopped>>

\* What follows RunGuest: in Run's thread also running_ = false.
Finish(h) ==
    LET k == hosts[h].thread IN
    /\ At(h, "back") /\ Goto(h, "gone")
    /\ threads' = [threads EXCEPT ![k].finished = TRUE]
    /\ running' = (running /\ ~threads[k].main)
    /\ UNCHANGED <<exited, stopped>>

\* What guest code may do next.  It cannot return from GuestTrampoline: that
\* enters the guest by a jump with the entry point itself as return address,
\* so a thread function that returns is begun again.
GuestCall(h) ==
    \/ OtherCall(h) \/ WaitForever(h) \/ CreateThread(h)
    \/ \E k \in Thread : StartThread(h, k)
    \/ ExitThread(h) \/ ExitProcess(h) \/ Fault(h)

Emulated(h) == StartHost(h) \/ TrapReturn(h) \/ Finish(h)

LifeNext ==
    \/ Run \/ Stop
    \/ \E h \in 1..MaxHosts : GuestCall(h) \/ Emulated(h) \/ Signaled(h)

\* The host schedules its threads; guest code makes supervisor calls as long
\* as it runs.
LifeFairness ==
    \A h \in 1..MaxHosts : WF_lifeVars(Emulated(h)) /\ WF_lifeVars(GuestCall(h))

LifeSpec == LifeInit /\ [][LifeNext]_lifeVars /\ LifeFairness

-----------------------------------------------------------------------------
(* Properties.                                                             *)

HostsOf(k) == {h \in Host : hosts[h].thread = k}
InGuest(h) == hosts[h].pc \in {"guest", "start", "wait", "call"}

\* A thread that waiters were told has finished executes guest code no more -
\* unless two calls of SvcStartThread met and gave it two host threads.
FinishedIsOver ==
    \A k \in Thread : threads[k].finished /\ Cardinality(HostsOf(k)) = 1 =>
        \A h \in HostsOf(k) : ~InGuest(h)

\* Once the process has exited, by a call, a break or a fault of any thread,
\* every guest thread that goes on making calls ends; only one that waits
\* for an object nobody signals stays behind.
ExitEndsGuest ==
    \A h \in 1..MaxHosts : (exited /\ h \in Host) ~> (h \in Host /\ hosts[h].pc \in {"gone", "wait"})
=============================================================================
