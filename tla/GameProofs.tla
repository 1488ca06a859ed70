----------------------------- MODULE GameProofs -----------------------------
(***************************************************************************)
(* Safety of two parts that serve a game: the life of its threads          *)
(* (Lifecycle) and the file system service (FileSystem).                   *)
(***************************************************************************)
EXTENDS Lifecycle, FileSystem, FiniteSetTheorems, TLAPS

-----------------------------------------------------------------------------
(* The life of a game.                                                     *)

ThreadRecord == [main: BOOLEAN, started: BOOLEAN, finished: BOOLEAN]
HostRecord == [thread: Nat, pc: HostPc, arg: Nat]

\* Who marks a thread finished is a host thread of its own, which then is gone.
LifeInv ==
    /\ threads \in Seq(ThreadRecord) /\ hosts \in Seq(HostRecord)
    /\ \A h \in Host : hosts[h].thread \in Thread
    /\ \A h \in Host : hosts[h].pc = "start" => hosts[h].arg \in Thread
    /\ \A k \in Thread : threads[k].finished => \E h \in HostsOf(k) : hosts[h].pc = "gone"

(* A host thread moves on and stays with its KThread; a KThread that       *)
(* becomes finished is that of a host thread that ends.                    *)
LEMMA HostMoves ==
  ASSUME LifeInv, NEW h \in Host, NEW pc \in HostPc, hosts[h].pc # "gone",
         hosts' \in Seq(HostRecord), Len(hosts') >= Len(hosts),
         \A g \in Host : hosts'[g].thread = hosts[g].thread /\ (g # h => hosts'[g] = hosts[g]),
         hosts'[h].pc = pc, pc = "start" => hosts'[h].arg \in Thread,
         \A g \in Host' \ Host : hosts'[g].thread \in Thread /\ hosts'[g].pc = "guest",
         threads' \in Seq(ThreadRecord), Len(threads') >= Len(threads),
         \A k \in Thread' : threads'[k].finished =>
            \/ k \in Thread /\ threads[k].finished
            \/ k = hosts[h].thread /\ pc = "gone"
  PROVE  LifeInv'
<1>1. Host \subseteq Host' /\ Thread \subseteq Thread'
  BY DEF LifeInv, Host, Thread
<1>2. \A g \in Host' : hosts'[g].thread \in Thread'
  BY <1>1 DEF LifeInv
<1>3. \A g \in Host' : hosts'[g].pc = "start" => hosts'[g].arg \in Thread'
  BY <1>1 DEF LifeInv
<1>4. ASSUME NEW k \in Thread', threads'[k].finished
      PROVE  \E g \in HostsOf(k)' : hosts'[g].pc = "gone"
  <2>1. CASE k \in Thread /\ threads[k].finished
    <3>1. PICK g \in HostsOf(k) : hosts[g].pc = "gone"
      BY <2>1 DEF LifeInv
    <3>2. g \in Host /\ g # h /\ hosts'[g] = hosts[g] /\ hosts[g].thread = k
      BY <3>1 DEF HostsOf
    <3> QED
      BY <1>1, <3>1, <3>2 DEF HostsOf
  <2>2. CASE k = hosts[h].thread /\ pc = "gone"
    BY <1>1, <2>2 DEF HostsOf
  <2> QED
    BY <1>4, <2>1, <2>2
<1> QED
  BY <1>2, <1>3, <1>4 DEF LifeInv

(* Goto is such a move.                                                    *)
LEMMA GotoMoves ==
  ASSUME LifeInv, NEW h \in Host, NEW pc \in HostPc \ {"start"}, Goto(h, pc)
  PROVE  /\ hosts' \in Seq(HostRecord) /\ Len(hosts') = Len(hosts) /\ Host' = Host
         /\ \A g \in Host : hosts'[g].thread = hosts[g].thread /\ (g # h => hosts'[g] = hosts[g])
         /\ hosts'[h].pc = pc
<1>1. /\ hosts' \in Seq(HostRecord) /\ Len(hosts') = Len(hosts)
      /\ \A g \in Host : hosts'[g] = IF g = h THEN [hosts[h] EXCEPT !.pc = pc] ELSE hosts[g]
  <2>1. hosts \in Seq(HostRecord) /\ h \in 1..Len(hosts)
    BY DEF LifeInv, Host
  <2>2. hosts[h] \in HostRecord
    BY <2>1
  <2>3. [hosts[h] EXCEPT !.pc = pc] \in HostRecord
    BY <2>2 DEF HostRecord
  <2> QED
    BY <2>1, <2>3 DEF Goto, Host
<1>2. \A g \in Host : hosts[g] \in HostRecord
  BY DEF LifeInv, Host
<1> QED
  BY <1>1, <1>2 DEF HostRecord, Host

(* An element of a sequence is replaced.                                   *)
LEMMA ReplaceElement ==
  ASSUME NEW S, NEW q \in Seq(S), NEW i \in 1..Len(q), NEW e \in S
  PROVE  /\ [q EXCEPT ![i] = e] \in Seq(S) /\ Len([q EXCEPT ![i] = e]) = Len(q)
         /\ \A k \in 1..Len(q) : k # i => [q EXCEPT ![i] = e][k] = q[k]
OBVIOUS

(* A thread is marked finished by its own host thread only, in SvcExitThread *)
(* or after RunGuest.                                                      *)
LEMMA MarkFinished ==
  ASSUME LifeInv, NEW h \in Host, NEW f,
         f \in BOOLEAN, threads' = [threads EXCEPT ![hosts[h].thread].finished = f]
  PROVE  /\ threads' \in Seq(ThreadRecord) /\ Len(threads') = Len(threads)
         /\ \A k \in Thread' : threads'[k].finished =>
              k \in Thread /\ (threads[k].finished \/ k = hosts[h].thread)
<1> DEFINE t == hosts[h].thread
           new == [threads[t] EXCEPT !.finished = f]
<1>1. threads \in Seq(ThreadRecord) /\ t \in 1..Len(threads)
  BY DEF LifeInv, Thread
<1>2. threads[t] \in ThreadRecord
  BY <1>1
<1>3. new \in ThreadRecord
  BY <1>2 DEF ThreadRecord
<1>4. threads' = [threads EXCEPT ![t] = new]
  OBVIOUS
<1> HIDE DEF t, new
<1>5. threads' \in Seq(ThreadRecord) /\ Len(threads') = Len(threads)
      /\ \A k \in 1..Len(threads) : k # t => threads'[k] = threads[k]
  <2> DEFINE next == [threads EXCEPT ![t] = new]
  <2>1. /\ next \in Seq(ThreadRecord) /\ Len(next) = Len(threads)
        /\ \A k \in 1..Len(threads) : k # t => next[k] = threads[k]
    BY <1>1, <1>3, ReplaceElement
  <2>2. threads' = next
    BY <1>4
  <2> HIDE DEF next
  <2> QED
    BY <2>1, <2>2, Zenon
<1> QED
  BY <1>5 DEF Thread, t

(* The supervisor calls of a guest thread, and its faults.                 *)
LEMMA GuestCallKeeps ==
  ASSUME LifeInv, NEW h, GuestCall(h) \/ Signaled(h)
  PROVE  LifeInv'
<1>0. h \in Host /\ hosts[h].pc # "gone"
  BY DEF GuestCall, Signaled, OtherCall, WaitForever, CreateThread, StartThread,
         ExitThread, ExitProcess, Fault, At
<1>1. ASSUME NEW pc \in {"call", "wait", "back"}, Goto(h, pc), UNCHANGED threads
      PROVE  LifeInv'
  <2>1. /\ hosts' \in Seq(HostRecord) /\ Len(hosts') = Len(hosts) /\ Host' = Host
        /\ \A g \in Host : hosts'[g].thread = hosts[g].thread /\ (g # h => hosts'[g] = hosts[g])
        /\ hosts'[h].pc = pc
    BY <1>0, <1>1, GotoMoves DEF HostPc
  <2>2. threads' \in Seq(ThreadRecord) /\ Len(threads') >= Len(threads) /\ Len(hosts') >= Len(hosts)
    BY <1>1, <2>1 DEF LifeInv
  <2>3. \A k \in Thread' : threads'[k].finished => k \in Thread /\ threads[k].finished
    BY <1>1 DEF Thread
  <2>4. pc \in HostPc /\ pc # "start"
    BY DEF HostPc
  <2> QED
    BY <1>0, <2>1, <2>2, <2>3, <2>4, HostMoves
<1>2. CASE CreateThread(h)
  <2> DEFINE new == [main |-> FALSE, started |-> FALSE, finished |-> FALSE]
  <2>0. Goto(h, "call") /\ threads' = Append(threads, new)
    BY <1>2 DEF CreateThread
  <2>1. /\ hosts' \in Seq(HostRecord) /\ Len(hosts') = Len(hosts) /\ Host' = Host
        /\ \A g \in Host : hosts'[g].thread = hosts[g].thread /\ (g # h => hosts'[g] = hosts[g])
        /\ hosts'[h].pc = "call"
    BY <1>0, <2>0, GotoMoves DEF HostPc
  <2>2. new \in ThreadRecord /\ new.finished = FALSE
    BY DEF ThreadRecord
  <2> HIDE DEF new
  <2>3. /\ threads' \in Seq(ThreadRecord) /\ Len(threads') = Len(threads) + 1
        /\ threads'[Len(threads) + 1] = new
        /\ \A k \in 1..Len(threads) : threads'[k] = threads[k]
    BY <2>0, <2>2 DEF LifeInv
  <2>4. Len(threads') >= Len(threads) /\ Len(hosts') >= Len(hosts)
    BY <2>1, <2>3 DEF LifeInv
  <2>5. \A k \in Thread' : threads'[k].finished => k \in Thread /\ threads[k].finished
    BY <2>2, <2>3 DEF Thread, LifeInv
  <2> QED
    BY <1>0, <2>1, <2>3, <2>4, <2>5, HostMoves DEF HostPc
<1>3. ASSUME NEW k \in Thread, StartThread(h, k)
      PROVE  LifeInv'
  <2> DEFINE pc == IF threads[k].started THEN "call" ELSE "start"
  <2>0. hosts' = [hosts EXCEPT ![h] = [hosts[h] EXCEPT !.pc = pc, !.arg = k]] /\ UNCHANGED threads
    BY <1>3 DEF StartThread
  <2>1. hosts[h] \in HostRecord /\ k \in Nat /\ pc \in HostPc
    BY <1>0 DEF LifeInv, Host, Thread, HostPc
  <2> HIDE DEF pc
  <2>2. /\ [hosts[h] EXCEPT !.pc = pc, !.arg = k] \in HostRecord
        /\ [hosts[h] EXCEPT !.pc = pc, !.arg = k].thread = hosts[h].thread
        /\ [hosts[h] EXCEPT !.pc = pc, !.arg = k].pc = pc
        /\ [hosts[h] EXCEPT !.pc = pc, !.arg = k].arg = k
    BY <2>1 DEF HostRecord
  <2>3. /\ hosts' \in Seq(HostRecord) /\ Len(hosts') = Len(hosts) /\ Host' = Host
        /\ \A g \in Host : hosts'[g].thread = hosts[g].thread /\ (g # h => hosts'[g] = hosts[g])
        /\ hosts'[h].pc = pc /\ hosts'[h].arg = k
    BY <1>0, <2>0, <2>2 DEF LifeInv, Host
  <2>4. threads' \in Seq(ThreadRecord) /\ Len(threads') >= Len(threads) /\ Len(hosts') >= Len(hosts)
    BY <2>0, <2>3 DEF LifeInv
  <2>5. \A m \in Thread' : threads'[m].finished => m \in Thread /\ threads[m].finished
    BY <2>0 DEF Thread
  <2> QED
    BY <1>0, <2>1, <2>3, <2>4, <2>5, HostMoves
<1>4. CASE ExitThread(h)
  <2>0. Goto(h, "gone")
        /\ threads' = [threads EXCEPT ![hosts[h].thread].finished =
                         threads[hosts[h].thread].finished \/ ~threads[hosts[h].thread].main]
    BY <1>4 DEF ExitThread
  <2>1. /\ hosts' \in Seq(HostRecord) /\ Len(hosts') = Len(hosts) /\ Host' = Host
        /\ \A g \in Host : hosts'[g].thread = hosts[g].thread /\ (g # h => hosts'[g] = hosts[g])
        /\ hosts'[h].pc = "gone"
    BY <1>0, <2>0, GotoMoves DEF HostPc
  <2>2. /\ threads' \in Seq(ThreadRecord) /\ Len(threads') = Len(threads)
        /\ \A k \in Thread' : threads'[k].finished =>
             k \in Thread /\ (threads[k].finished \/ k = hosts[h].thread)
    BY <1>0, <2>0, MarkFinished
  <2>3. Len(threads') >= Len(threads) /\ Len(hosts') >= Len(hosts)
    BY <2>1, <2>2 DEF LifeInv
  <2> QED
    BY <1>0, <2>1, <2>2, <2>3, HostMoves DEF HostPc
<1> QED
  BY <1>1, <1>2, <1>3, <1>4
  DEF GuestCall, OtherCall, WaitForever, Signaled, ExitProcess, Fault

(* What the emulator does for a guest thread: the second half of           *)
(* SvcStartThread, the way back from a call, the end.                      *)
LEMMA EmulatedKeeps ==
  ASSUME LifeInv, NEW h, Emulated(h)
  PROVE  LifeInv'
<1>0. h \in Host /\ hosts[h].pc # "gone"
  BY DEF Emulated, StartHost, TrapReturn, Finish, At
<1>1. CASE StartHost(h)
  <2> DEFINE k == hosts[h].arg
             old == [hosts[h] EXCEPT !.pc = "call", !.arg = 0]
             new == [thread |-> k, pc |-> "guest", arg |-> 0]
             moved == [hosts EXCEPT ![h] = old]
  <2>0. hosts' = Append(moved, new) /\ threads' = [threads EXCEPT ![k].started = TRUE]
    BY <1>1 DEF StartHost
  <2>1. hosts[h] \in HostRecord /\ k \in Thread /\ k \in Nat
    BY SMTT(20), <1>0, <1>1 DEF LifeInv, Host, StartHost, At, Thread
  <2>2. /\ old \in HostRecord /\ old.thread = hosts[h].thread /\ old.pc = "call"
        /\ new \in HostRecord /\ new.thread = k /\ new.pc = "guest"
    BY <2>1 DEF HostRecord, HostPc
  <2> HIDE DEF k, old, new
  <2>3. /\ moved \in Seq(HostRecord) /\ Len(moved) = Len(hosts)
        /\ \A g \in 1..Len(hosts) : moved[g] = IF g = h THEN old ELSE hosts[g]
    BY <1>0, <2>2 DEF LifeInv, Host
  <2> HIDE DEF moved
  <2>4. /\ hosts' \in Seq(HostRecord) /\ Len(hosts') = Len(hosts) + 1
        /\ hosts'[Len(hosts) + 1] = new
        /\ \A g \in 1..Len(hosts) : hosts'[g] = IF g = h THEN old ELSE hosts[g]
    BY <2>0, <2>2, <2>3
  <2>5. Len(hosts) \in Nat
    BY DEF LifeInv
  <2>6. /\ \A g \in Host : hosts'[g].thread = hosts[g].thread /\ (g # h => hosts'[g] = hosts[g])
        /\ hosts'[h].pc = "call"
        /\ \A g \in Host' \ Host : hosts'[g].thread \in Thread /\ hosts'[g].pc = "guest"
    BY <1>0, <2>1, <2>2, <2>4, <2>5 DEF Host
  <2>7. threads[k] \in ThreadRecord /\ threads \in Seq(ThreadRecord) /\ k \in 1..Len(threads)
    BY <2>1 DEF LifeInv, Thread
  <2>8. [threads[k] EXCEPT !.started = TRUE] \in ThreadRecord
        /\ [threads[k] EXCEPT !.started = TRUE].finished = threads[k].finished
    BY <2>7 DEF ThreadRecord
  <2>9. threads' \in Seq(ThreadRecord) /\ Len(threads') = Len(threads)
        /\ \A m \in 1..Len(threads) : threads'[m].finished = threads[m].finished
    BY <2>0, <2>7, <2>8
  <2>10. Len(threads') >= Len(threads) /\ Len(hosts') >= Len(hosts)
    BY <2>4, <2>5, <2>7, <2>9
  <2>11. \A m \in Thread' : threads'[m].finished => m \in Thread /\ threads[m].finished
    BY <2>9 DEF Thread
  <2> QED
    BY <1>0, <2>4, <2>6, <2>9, <2>10, <2>11, HostMoves DEF HostPc
<1>2. CASE TrapReturn(h)
  <2>0. PICK pc \in {"back", "guest"} : Goto(h, pc) /\ UNCHANGED threads
    BY <1>2 DEF TrapReturn
  <2>1. /\ hosts' \in Seq(HostRecord) /\ Len(hosts') = Len(hosts) /\ Host' = Host
        /\ \A g \in Host : hosts'[g].thread = hosts[g].thread /\ (g # h => hosts'[g] = hosts[g])
        /\ hosts'[h].pc = pc
    BY <1>0, <2>0, GotoMoves DEF HostPc
  <2>2. threads' \in Seq(ThreadRecord) /\ Len(threads') >= Len(threads) /\ Len(hosts') >= Len(hosts)
    BY <2>0, <2>1 DEF LifeInv
  <2>3. \A k \in Thread' : threads'[k].finished => k \in Thread /\ threads[k].finished
    BY <2>0 DEF Thread
  <2>4. pc \in HostPc /\ pc # "start"
    BY DEF HostPc
  <2> QED
    BY <1>0, <2>1, <2>2, <2>3, <2>4, HostMoves
<1>3. CASE Finish(h)
  <2>0. Goto(h, "gone") /\ threads' = [threads EXCEPT ![hosts[h].thread].finished = TRUE]
    BY <1>3 DEF Finish
  <2>1. /\ hosts' \in Seq(HostRecord) /\ Len(hosts') = Len(hosts) /\ Host' = Host
        /\ \A g \in Host : hosts'[g].thread = hosts[g].thread /\ (g # h => hosts'[g] = hosts[g])
        /\ hosts'[h].pc = "gone"
    BY <1>0, <2>0, GotoMoves DEF HostPc
  <2>2. /\ threads' \in Seq(ThreadRecord) /\ Len(threads') = Len(threads)
        /\ \A k \in Thread' : threads'[k].finished =>
             k \in Thread /\ (threads[k].finished \/ k = hosts[h].thread)
    BY <1>0, <2>0, MarkFinished
  <2>3. Len(threads') >= Len(threads) /\ Len(hosts') >= Len(hosts)
    BY <2>1, <2>2 DEF LifeInv
  <2> QED
    BY <1>0, <2>1, <2>2, <2>3, HostMoves DEF HostPc
<1> QED
  BY <1>1, <1>2, <1>3 DEF Emulated

(* EmulatorCore::Run adds a main thread with a host thread.                *)
LEMMA RunKeeps ==
  ASSUME LifeInv, Run
  PROVE  LifeInv'
<1> DEFINE n == Len(threads)
           t == [main |-> TRUE, started |-> TRUE, finished |-> FALSE]
           g == [thread |-> n + 1, pc |-> "guest", arg |-> 0]
<1>1. threads' = Append(threads, t) /\ hosts' = Append(hosts, g)
  BY DEF Run, Launch
<1>2. n \in Nat /\ t \in ThreadRecord /\ t.finished = FALSE
      /\ g \in HostRecord /\ g.thread = n + 1 /\ g.pc = "guest"
  BY DEF LifeInv, ThreadRecord, HostRecord, HostPc
<1> HIDE DEF t, g
<1>3. /\ threads' \in Seq(ThreadRecord) /\ Len(threads') = n + 1 /\ threads'[n + 1] = t
      /\ \A k \in 1..n : threads'[k] = threads[k]
  BY <1>1, <1>2 DEF LifeInv
<1>4. /\ hosts' \in Seq(HostRecord) /\ Len(hosts') = Len(hosts) + 1 /\ hosts'[Len(hosts) + 1] = g
      /\ \A h \in 1..Len(hosts) : hosts'[h] = hosts[h]
  BY <1>1, <1>2 DEF LifeInv
<1>5. Thread \subseteq Thread' /\ n + 1 \in Thread' /\ Len(hosts) \in Nat /\ Host' = Host \cup {Len(hosts) + 1}
  BY <1>2, <1>3, <1>4 DEF LifeInv, Thread, Host
<1>6. \A h \in Host' : hosts'[h].thread \in Thread'
  BY <1>2, <1>4, <1>5 DEF LifeInv, Host
<1>7. \A h \in Host' : hosts'[h].pc = "start" => hosts'[h].arg \in Thread'
  BY <1>2, <1>4, <1>5 DEF LifeInv, Host
<1>8. ASSUME NEW k \in Thread', threads'[k].finished
      PROVE  \E h \in HostsOf(k)' : hosts'[h].pc = "gone"
  <2>1. k \in Thread /\ threads[k].finished
    BY <1>2, <1>3, <1>8 DEF Thread
  <2>2. PICK h \in HostsOf(k) : hosts[h].pc = "gone"
    BY <2>1 DEF LifeInv
  <2> QED
    BY <1>4, <1>5, <2>2 DEF HostsOf, Host
<1> QED
  BY <1>3, <1>4, <1>6, <1>7, <1>8 DEF LifeInv

(* The invariant of a game's threads.                                      *)
LEMMA LifeInvariant == LifeSpec => []LifeInv
<1>1. LifeInit => LifeInv
  <2> SUFFICES ASSUME LifeInit PROVE LifeInv
    OBVIOUS
  <2>1. threads = <<>> /\ hosts = <<>>
    BY DEF LifeInit
  <2> QED
    BY <2>1 DEF LifeInv, Host, Thread
<1>2. LifeInv /\ [LifeNext]_lifeVars => LifeInv'
  <2> SUFFICES ASSUME LifeInv, [LifeNext]_lifeVars PROVE LifeInv'
    OBVIOUS
  <2>1. CASE UNCHANGED <<threads, hosts>>
    BY <2>1 DEF LifeInv, Host, Thread, HostsOf
  <2>2. CASE Stop \/ UNCHANGED lifeVars
    BY <2>1, <2>2 DEF Stop, lifeVars
  <2> QED
    BY <2>2, RunKeeps, GuestCallKeeps, EmulatedKeeps DEF LifeNext
<1> QED
  BY <1>1, <1>2, PTL DEF LifeSpec

(* KThread::finished, which waiters see, is not set while the thread's     *)
(* host thread still executes guest code.                                  *)
THEOREM FinishedThreadsAreOver == LifeSpec => []FinishedIsOver
<1>1. LifeInv => FinishedIsOver
  <2> SUFFICES ASSUME LifeInv, NEW k \in Thread, threads[k].finished,
                      Cardinality(HostsOf(k)) = 1, NEW h \in HostsOf(k)
               PROVE  ~InGuest(h)
    BY DEF FinishedIsOver
  <2>1. PICK g \in HostsOf(k) : hosts[g].pc = "gone"
    BY DEF LifeInv
  <2>2. IsFiniteSet(HostsOf(k))
    <3>1. IsFiniteSet(Host) /\ HostsOf(k) \subseteq Host
      BY FS_Interval DEF LifeInv, Host, HostsOf
    <3> QED
      BY <3>1, FS_Subset
  <2>3. PICK x : HostsOf(k) = {x}
    BY <2>2, FS_Singleton
  <2> QED
    BY <2>1, <2>3 DEF InGuest
<1> QED
  BY <1>1, LifeInvariant, PTL

\* Steps of the emulator that are left to a host thread at most.
Distance == [guest |-> 4, start |-> 3, wait |-> 3, call |-> 2, back |-> 1, gone |-> 0]

\* Once the process has exited, a host thread only moves towards its end: it
\* makes one more supervisor call at most, and no call or wait of it leads back
\* into guest code.
ExitDescends ==
    [][exited => /\ exited' /\ Len(hosts') >= Len(hosts)
                 /\ \A h \in Host : \/ hosts'[h] = hosts[h]
                                    \/ Distance[hosts'[h].pc] < Distance[hosts[h].pc]]_lifeVars

\* What ExitDescends says of a step.
Descends ==
    exited => /\ exited' /\ Len(hosts') >= Len(hosts)
              /\ \A h \in Host : \/ hosts'[h] = hosts[h]
                                 \/ Distance[hosts'[h].pc] < Distance[hosts[h].pc]

LEMMA GotoDescends ==
  ASSUME LifeInv, NEW h \in Host, NEW pc \in HostPc \ {"start"}, Goto(h, pc), exited => exited',
         exited => Distance[pc] < Distance[hosts[h].pc]
  PROVE  Descends
<1>1. /\ hosts' \in Seq(HostRecord) /\ Len(hosts') = Len(hosts)
      /\ \A g \in Host : g # h => hosts'[g] = hosts[g]
      /\ hosts'[h].pc = pc
  BY GotoMoves
<1>2. Len(hosts) \in Nat
  BY DEF LifeInv
<1> QED BY <1>1, <1>2 DEF Descends

LEMMA CallDescends ==
  ASSUME LifeInv, NEW h, GuestCall(h) \/ Signaled(h)
  PROVE  Descends
<1>1. h \in Host /\ hosts[h].pc \in {"guest", "wait"} /\ (hosts[h].pc = "wait" => Signaled(h))
  BY DEF GuestCall, Signaled, OtherCall, WaitForever, CreateThread, StartThread,
         ExitThread, ExitProcess, Fault, At
<1>2. exited => exited'
  BY DEF GuestCall, Signaled, OtherCall, WaitForever, CreateThread, StartThread,
         ExitThread, ExitProcess, Fault
<1>3. ASSUME NEW pc \in {"call", "wait", "back", "gone"}, Goto(h, pc), hosts[h].pc = "guest"
      PROVE  Descends
  <2>1. Distance[pc] < Distance[hosts[h].pc]
    BY <1>3 DEF Distance
  <2> QED BY <1>1, <1>2, <1>3, <2>1, GotoDescends DEF HostPc
<1>4. CASE Signaled(h)
  <2>1. Goto(h, "call") /\ Distance["call"] < Distance[hosts[h].pc]
    BY <1>4 DEF Signaled, At, Distance
  <2> QED BY <1>1, <1>2, <2>1, GotoDescends DEF HostPc
<1>5. ASSUME NEW k \in Thread, StartThread(h, k) PROVE Descends
  <2> DEFINE pc == IF threads[k].started THEN "call" ELSE "start"
             new == [hosts[h] EXCEPT !.pc = pc, !.arg = k]
  <2>1. hosts' = [hosts EXCEPT ![h] = new] /\ hosts[h].pc = "guest"
    BY <1>5 DEF StartThread, At
  <2>2. hosts \in Seq(HostRecord) /\ hosts[h] \in HostRecord /\ k \in Nat /\ pc \in HostPc
    BY <1>1 DEF LifeInv, Host, Thread, HostPc
  <2>3. Distance[pc] < Distance["guest"]
    BY DEF Distance
  <2> HIDE DEF pc
  <2>4. new \in HostRecord /\ new.pc = pc
    BY <2>2 DEF HostRecord
  <2> HIDE DEF new
  <2>5. /\ Len(hosts') = Len(hosts) /\ Len(hosts) \in Nat /\ hosts'[h] = new
        /\ \A g \in Host : g # h => hosts'[g] = hosts[g]
    BY <1>1, <2>1, <2>2, <2>4 DEF Host
  <2> QED BY <1>2, <2>1, <2>3, <2>4, <2>5 DEF Descends
<1>6. CASE GuestCall(h)
  <2>1. hosts[h].pc = "guest"
    BY <1>6 DEF GuestCall, OtherCall, WaitForever, CreateThread, StartThread,
                ExitThread, ExitProcess, Fault, At
  <2> QED BY <1>3, <1>5, <1>6, <2>1
          DEF GuestCall, OtherCall, WaitForever, CreateThread, ExitThread, ExitProcess, Fault
<1> QED BY <1>4, <1>6

LEMMA EmulatedDescends ==
  ASSUME LifeInv, NEW h, Emulated(h)
  PROVE  Descends
<1>1. h \in Host /\ UNCHANGED exited
  BY DEF Emulated, StartHost, TrapReturn, Finish, At
<1>2. CASE StartHost(h)
  <2> DEFINE old == [hosts[h] EXCEPT !.pc = "call", !.arg = 0]
             new == [thread |-> hosts[h].arg, pc |-> "guest", arg |-> 0]
             moved == [hosts EXCEPT ![h] = old]
  <2>1. hosts' = Append(moved, new) /\ hosts[h].pc = "start" /\ hosts[h].arg \in Thread
    BY <1>2 DEF StartHost, At, LifeInv
  <2>2. hosts \in Seq(HostRecord) /\ hosts[h] \in HostRecord /\ hosts[h].arg \in Nat
    BY <1>1, <2>1 DEF LifeInv, Host, Thread
  <2>3. old \in HostRecord /\ old.pc = "call" /\ new \in HostRecord
    BY <2>2 DEF HostRecord, HostPc
  <2> HIDE DEF old, new
  <2>4. /\ moved \in Seq(HostRecord) /\ Len(moved) = Len(hosts) /\ moved[h] = old
        /\ \A g \in Host : g # h => moved[g] = hosts[g]
    BY <1>1, <2>2, <2>3 DEF Host
  <2> HIDE DEF moved
  <2>5. /\ Len(hosts') = Len(hosts) + 1 /\ Len(hosts) \in Nat
        /\ \A g \in Host : hosts'[g] = moved[g]
    BY <2>1, <2>2, <2>3, <2>4 DEF Host
  <2>6. Distance["call"] < Distance["start"]
    BY DEF Distance
  <2>7. Distance[hosts'[h].pc] < Distance[hosts[h].pc]
    BY <1>1, <2>1, <2>3, <2>4, <2>5, <2>6, Zenon
  <2>8. \A g \in Host : g # h => hosts'[g] = hosts[g]
    BY <2>4, <2>5
  <2>9. Len(hosts') >= Len(hosts)
    BY <2>5
  <2> QED BY <1>1, <2>7, <2>8, <2>9 DEF Descends
<1>3. CASE TrapReturn(h)
  <2>1. PICK pc \in {"back", "guest"} : Goto(h, pc) /\ (exited => pc = "back") /\ hosts[h].pc = "call"
    BY <1>3 DEF TrapReturn, At
  <2>2. exited => Distance[pc] < Distance[hosts[h].pc]
    BY <2>1 DEF Distance
  <2> QED BY <1>1, <2>1, <2>2, GotoDescends DEF HostPc
<1>4. CASE Finish(h)
  <2>1. Goto(h, "gone") /\ Distance["gone"] < Distance[hosts[h].pc]
    BY <1>4 DEF Finish, At, Distance
  <2> QED BY <1>1, <2>1, GotoDescends DEF HostPc
<1> QED BY <1>2, <1>3, <1>4 DEF Emulated

(* The safety half of ExitEndsGuest: after SvcExitProcess, SvcBreak or a   *)
(* fault every host thread is on its way out, however many there are.      *)
THEOREM ExitLeadsOut == LifeSpec => ExitDescends
<1>1. LifeInv /\ [LifeNext]_lifeVars => [Descends]_lifeVars
  <2> SUFFICES ASSUME LifeInv, LifeNext PROVE Descends
    BY DEF Descends
  <2>1. Len(hosts) \in Nat
    BY DEF LifeInv
  <2>2. CASE Run
    <3>1. hosts' = Append(hosts, [thread |-> Len(threads) + 1, pc |-> "guest", arg |-> 0]) /\ UNCHANGED exited
      BY <2>2 DEF Run, Launch
    <3>2. hosts \in Seq(HostRecord) /\ [thread |-> Len(threads) + 1, pc |-> "guest", arg |-> 0] \in HostRecord
      BY DEF LifeInv, HostRecord, HostPc
    <3> QED BY <2>1, <3>1, <3>2 DEF Descends, Host
  <2>3. CASE Stop
    BY <2>1, <2>3 DEF Stop, Descends
  <2> QED BY <2>2, <2>3, CallDescends, EmulatedDescends DEF LifeNext
<1> QED BY <1>1, LifeInvariant, PTL DEF LifeSpec, ExitDescends, Descends

-----------------------------------------------------------------------------
(* The file system service.                                                *)

IsRomFs(fs) == fs \in [raw: {fs.raw}, loaded: {fs.loaded}, dirs: {fs.dirs}, files: {fs.files}]

\* Files are known only of the image that was parsed last, and then the RomFS
\* counts as loaded: OpenRomFS never replaces its bytes.
Consistent(fs) ==
    IsRomFs(fs) /\ (fs.files # <<>> => fs.loaded /\ fs.files = UpToNameless(fs.raw.files))

IsFile(e) == e \in [path: {e.path}, data: {e.data}, writable: {e.writable}, dir: {e.dir},
                    pos: {e.pos}, names: {e.names}]

\* Of the file table while no two commands met in it: the counter is above
\* every open handle, and at most one client is about to use its value.
TableOk ==
    /\ nextFd \in Nat \ {0}
    /\ \A fd \in DOMAIN fds : fd \in Nat /\ fd < nextFd /\ IsFile(fds[fd])
    /\ \A c \in Opening : opening[c].fd = nextFd /\ IsFile(opening[c].entry)
    /\ \A c \in Opening, d \in Opening : c = d

FsInv ==
    /\ Consistent(romfs)
    /\ DOMAIN opening = Clients
    /\ ~overlapped => TableOk

\* What a step may not do to an open file.
FilesKept == \A fd \in DOMAIN fds \cap DOMAIN fds' :
               fds'[fd].data = fds[fd].data /\ fds'[fd].path = fds[fd].path

(* FsService_SetRomFS: whatever RomFs::Parse makes of the image, the files *)
(* are its own or none.                                                    *)
LEMMA SetRomFSConsistent ==
  ASSUME NEW fs, Consistent(fs), NEW image
  PROVE  Consistent(SetRomFS(fs, image)) /\ SetRomFS(fs, image).raw = image
<1> DEFINE new == SetRomFS(fs, image)
<1>1. CASE ~image.header \/ ~image.dirTable
  <2>1. new = [fs EXCEPT !.raw = image, !.dirs = <<>>, !.files = <<>>]
    BY <1>1 DEF SetRomFS
  <2>2. IsRomFs(new) /\ new.raw = image /\ new.files = <<>>
    BY <2>1 DEF Consistent, IsRomFs
  <2> QED
    BY <2>2 DEF Consistent
<1>2. CASE image.header /\ image.dirTable /\ ~image.fileTable
  <2>1. new = [fs EXCEPT !.raw = image, !.dirs = UpToNameless(image.dirs), !.files = <<>>]
    BY <1>2 DEF SetRomFS
  <2>2. IsRomFs(new) /\ new.raw = image /\ new.files = <<>>
    BY <2>1 DEF Consistent, IsRomFs
  <2> QED
    BY <2>2 DEF Consistent
<1>3. CASE image.header /\ image.dirTable /\ image.fileTable
  <2>1. new = [raw |-> image, loaded |-> TRUE,
               dirs |-> UpToNameless(image.dirs), files |-> UpToNameless(image.files)]
    BY <1>3 DEF SetRomFS
  <2>2. IsRomFs(new) /\ new.raw = image /\ new.loaded /\ new.files = UpToNameless(image.files)
    BY <2>1 DEF IsRomFs
  <2> QED
    BY <2>2 DEF Consistent
<1> QED
  BY <1>1, <1>2, <1>3

(* Loader_LoadExecutable mounts any number of RomFSs one after the other.  *)
LEMMA MountAllConsistent ==
  ASSUME NEW fs, Consistent(fs), NEW pkg, NEW S
  PROVE  /\ Consistent(MountAll(pkg, S, fs))
         /\ S # {} => MountAll(pkg, S, fs).raw = pkg.entries[CHOOSE i \in S : \A j \in S : j <= i].nca.image
<1> DEFINE image == pkg.entries[CHOOSE i \in S : \A j \in S : j <= i].nca.image
           one == SetRomFS(fs, image)
           some == \E i \in S : Parses(pkg.entries[i].nca.image)
           all == [one EXCEPT !.loaded = one.loaded \/ some]
<1>1. CASE S = {}
  BY <1>1 DEF MountAll
<1>2. CASE S # {}
  <2>1. MountAll(pkg, S, fs) = all
    BY <1>2 DEF MountAll
  <2>2. Consistent(one) /\ one.raw = image
    BY SetRomFSConsistent
  <2> HIDE DEF one, some, image
  <2>3. IsRomFs(all) /\ all.raw = one.raw /\ all.files = one.files /\ all.loaded = (one.loaded \/ some)
    BY <2>2 DEF Consistent, IsRomFs
  <2>4. Consistent(all)
    BY <2>2, <2>3 DEF Consistent
  <2> QED
    BY <2>1, <2>2, <2>3, <2>4 DEF image
<1> QED
  BY <1>1, <1>2

(* A RomFS that stays, is mounted with others, or extracted by             *)
(* Loader_LoadPackage.                                                     *)
LEMMA LoadConsistent ==
  ASSUME NEW fs, Consistent(fs), NEW pkg, NEW n
  PROVE  Consistent(Mounted(pkg, n, fs)) /\ Consistent(Extracted(pkg, fs))
<1>1. Consistent(Mounted(pkg, n, fs))
  BY MountAllConsistent DEF Mounted
<1>2. Extracted(pkg, fs) = fs \/ \E image : Extracted(pkg, fs) = SetRomFS(fs, image)
  BY DEF Extracted
<1> QED
  BY <1>1, <1>2, SetRomFSConsistent

(* A step of another part of the program leaves the file table alone.      *)
LEMMA TableAlone ==
  ASSUME FsInv, UNCHANGED <<fds, nextFd, opening, overlapped>>, Consistent(romfs')
  PROVE  FsInv' /\ FilesKept
<1>1. Opening' = Opening
  BY DEF Opening
<1> QED
  BY <1>1 DEF FsInv, TableOk, FilesKept

(* FileTable::Open reads the counter: with no other command in the table   *)
(* the client is the only one inside an Open.                              *)
LEMMA OpenKeeps ==
  ASSUME FsInv, NEW c \in Clients, NEW entry, IsFile(entry), Open(c, entry), Consistent(romfs')
  PROVE  FsInv' /\ FilesKept
<1>1. /\ opening' = [opening EXCEPT ![c] = [fd |-> nextFd, entry |-> entry]]
      /\ UNCHANGED <<fds, nextFd>>
  BY DEF Open
<1>2. DOMAIN opening' = Clients /\ opening'[c] = [fd |-> nextFd, entry |-> entry]
  BY <1>1 DEF FsInv
<1>3. ASSUME ~overlapped' PROVE TableOk'
  <2>1. ~overlapped /\ Opening = {}
    BY <1>3 DEF Open, UseTable
  <2>2. TableOk
    BY <2>1 DEF FsInv
  <2>3. \A d \in Opening' : d = c
    BY <1>1, <2>1 DEF Opening, FsInv
  <2> QED
    BY <1>1, <1>2, <2>2, <2>3 DEF TableOk
<1> QED
  BY <1>1, <1>2, <1>3 DEF FsInv, FilesKept

(* ... and stores an entry under a number that no open file has.           *)
LEMMA StoreKeeps ==
  ASSUME FsInv, NEW c \in Clients, Store(c)
  PROVE  FsInv' /\ (~overlapped' => FilesKept)
<1> DEFINE fd == opening[c].fd
           entry == opening[c].entry
<1>1. /\ c \in Opening /\ nextFd' = fd + 1 /\ opening' = [opening EXCEPT ![c] = NotOpening]
      /\ fds' = [f \in DOMAIN fds \cup {fd} |-> IF f = fd THEN entry ELSE fds[f]]
      /\ UNCHANGED <<romfs, overlapped>>
  BY DEF Store
<1>2. DOMAIN opening' = Clients /\ opening'[c].fd = 0
  BY <1>1 DEF FsInv, NotOpening
<1>3. ASSUME ~overlapped' PROVE TableOk' /\ FilesKept
  <2>1. TableOk
    BY <1>1, <1>3 DEF FsInv
  <2>2. fd = nextFd /\ IsFile(entry) /\ \A d \in Opening : d = c
    BY <1>1, <2>1 DEF TableOk
  <2> HIDE DEF fd, entry
  <2>3. nextFd \notin DOMAIN fds /\ nextFd \in Nat \ {0}
    BY <2>1 DEF TableOk
  <2>4. /\ DOMAIN fds' = DOMAIN fds \cup {nextFd} /\ fds'[nextFd] = entry
        /\ \A f \in DOMAIN fds : fds'[f] = fds[f]
    BY <1>1, <2>2, <2>3
  <2>5. \A f \in DOMAIN fds' : f \in Nat /\ f < nextFd' /\ IsFile(fds'[f])
    BY <1>1, <2>1, <2>2, <2>3, <2>4 DEF TableOk
  <2>6. Opening' = {}
    BY <1>1, <1>2, <2>2 DEF Opening, FsInv
  <2>7. nextFd' \in Nat \ {0}
    BY <1>1, <2>2, <2>3
  <2>8. FilesKept
    BY <2>4 DEF FilesKept
  <2> QED
    BY <2>5, <2>6, <2>7, <2>8 DEF TableOk
<1> QED
  BY <1>1, <1>2, <1>3 DEF FsInv, Consistent, IsRomFs

(* An entry of the file table as OpenFile and OpenDir make it.             *)
LEMMA NewFile ==
  ASSUME NEW path, NEW data, NEW writable, NEW d, NEW names
  PROVE  /\ IsFile(File(path, data, writable))
         /\ IsFile([File(path, data, writable) EXCEPT !.dir = d, !.names = names])
BY DEF IsFile, File

(* One command of FsService or one LoadGame.                               *)
LEMMA FsStep ==
  ASSUME FsInv, [FsNext]_fsVars
  PROVE  FsInv' /\ (~overlapped' => FilesKept)
<1>2. ASSUME NEW pkg \in Packages, LoadProgram(pkg) \/ LoadNsoFile(pkg) \/ LoadOther(pkg)
      PROVE  FsInv' /\ FilesKept
  <2>1. UNCHANGED <<fds, nextFd, opening, overlapped>>
    BY <1>2 DEF LoadProgram, LoadNsoFile, LoadOther, Load
  <2>2. Consistent(romfs')
    <3>1. Consistent(romfs)
      BY DEF FsInv
    <3>2. CASE LoadProgram(pkg)
      BY <3>1, <3>2, LoadConsistent DEF LoadProgram
    <3>3. CASE LoadNsoFile(pkg)
      BY <3>1, <3>3 DEF LoadNsoFile
    <3>4. CASE LoadOther(pkg)
      <4> DEFINE fs == IF IsArchive(pkg) THEN Mounted(pkg, Len(pkg.entries), romfs) ELSE romfs
      <4>1. Consistent(fs)
        BY <3>1, LoadConsistent
      <4>2. romfs' = Extracted(pkg, fs)
        BY <3>4 DEF LoadOther
      <4> HIDE DEF fs
      <4> QED
        BY <4>1, <4>2, LoadConsistent
    <3> QED
      BY <1>2, <3>2, <3>3, <3>4
  <2> QED
    BY <2>1, <2>2, TableAlone
<1>4. ASSUME NEW c \in Clients, OpenRomFS(c) PROVE FsInv' /\ FilesKept
  <2>1. Consistent(romfs')
    <3>1. CASE romfs.loaded
      BY <1>4, <3>1 DEF OpenRomFS, FsInv
    <3>2. CASE ~romfs.loaded
      <4>1. romfs' = [romfs EXCEPT !.raw = Placeholder, !.loaded = TRUE] /\ romfs.files = <<>>
        BY <1>4, <3>2 DEF OpenRomFS, FsInv, Consistent
      <4>2. IsRomFs(romfs') /\ romfs'.files = <<>>
        BY <4>1 DEF FsInv, Consistent, IsRomFs
      <4> QED
        BY <4>2 DEF Consistent
    <3> QED
      BY <3>1, <3>2
  <2> QED
    BY <1>4, <2>1, NewFile, OpenKeeps DEF OpenRomFS
<1>5. ASSUME UNCHANGED romfs PROVE Consistent(romfs')
  BY <1>5 DEF FsInv
<1>6. ASSUME NEW c \in Clients, OpenDataFile(c) PROVE FsInv' /\ FilesKept
  <2>1. PICK path, data, writable : Open(c, File(path, data, writable)) /\ UNCHANGED romfs
    BY <1>6 DEF OpenDataFile
  <2> QED
    BY <1>5, <2>1, NewFile, OpenKeeps
<1>7. ASSUME NEW c \in Clients, NEW path \in Paths, OpenFile(c, path) \/ OpenSaveDataFile(c, path)
      PROVE  FsInv' /\ FilesKept
  <2>1. PICK data, writable : Open(c, File(path, data, writable)) /\ UNCHANGED romfs
    BY <1>7 DEF OpenFile, OpenSaveDataFile
  <2> QED
    BY <1>5, <2>1, NewFile, OpenKeeps
<1>8. ASSUME NEW c \in Clients, NEW path \in Paths, OpenDirectory(c, path)
      PROVE  FsInv' /\ FilesKept
  BY <1>5, <1>8, NewFile, OpenKeeps DEF OpenDirectory
<1>9. ASSUME UNCHANGED <<romfs, nextFd, opening>>, UseTable,
             ASSUME TableOk PROVE FilesKept /\ DOMAIN fds' \subseteq DOMAIN fds
                                  /\ \A f \in DOMAIN fds' : IsFile(fds'[f])
      PROVE  FsInv' /\ (~overlapped' => FilesKept)
  <2>1. ASSUME ~overlapped' PROVE TableOk' /\ FilesKept
    <3>1. TableOk
      BY <1>9, <2>1 DEF FsInv, UseTable
    <3>2. Opening' = Opening
      BY <1>9 DEF Opening
    <3>3. FilesKept /\ DOMAIN fds' \subseteq DOMAIN fds /\ \A f \in DOMAIN fds' : IsFile(fds'[f])
      BY <1>9, <3>1
    <3> QED
      BY <1>9, <3>1, <3>2, <3>3 DEF TableOk
  <2> QED
    BY <1>9, <2>1 DEF FsInv, Consistent, IsRomFs
<1>10. ASSUME NEW fd \in DOMAIN fds, ReadDirectory(fd)
      PROVE  FsInv' /\ (~overlapped' => FilesKept)
  <2>1. /\ fds' = [fds EXCEPT ![fd] = [fds[fd] EXCEPT !.pos = fds[fd].pos + 1]]
        /\ UNCHANGED <<romfs, nextFd, opening>> /\ UseTable
    BY <1>10 DEF ReadDirectory
  <2>2. ASSUME TableOk PROVE FilesKept /\ DOMAIN fds' \subseteq DOMAIN fds
                             /\ \A f \in DOMAIN fds' : IsFile(fds'[f])
    <3> DEFINE e == [fds[fd] EXCEPT !.pos = fds[fd].pos + 1]
    <3>1. IsFile(e) /\ e.data = fds[fd].data /\ e.path = fds[fd].path
      BY <2>2 DEF TableOk, IsFile
    <3> HIDE DEF e
    <3>2. DOMAIN fds' = DOMAIN fds /\ fds'[fd] = e /\ \A f \in DOMAIN fds \ {fd} : fds'[f] = fds[f]
      BY <2>1 DEF e
    <3>3. \A f \in DOMAIN fds' : IsFile(fds'[f])
      BY <2>2, <3>1, <3>2 DEF TableOk
    <3>4. FilesKept
      BY <3>1, <3>2 DEF FilesKept
    <3> QED
      BY <3>2, <3>3, <3>4
  <2> QED
    BY <1>9, <2>1, <2>2
<1>11. ASSUME NEW fd \in DOMAIN fds, Close(fd)
      PROVE  FsInv' /\ (~overlapped' => FilesKept)
  <2>1. /\ DOMAIN fds' = DOMAIN fds \ {fd} /\ \A f \in DOMAIN fds' : fds'[f] = fds[f]
        /\ UNCHANGED <<romfs, nextFd, opening>> /\ UseTable
    BY <1>11 DEF Close
  <2>2. ASSUME TableOk PROVE FilesKept /\ DOMAIN fds' \subseteq DOMAIN fds
                             /\ \A f \in DOMAIN fds' : IsFile(fds'[f])
    BY <2>1, <2>2 DEF TableOk, FilesKept
  <2> QED
    BY <1>9, <2>1, <2>2
<1>12. CASE UNCHANGED fsVars
  BY <1>5, <1>12, TableAlone DEF fsVars
<1> QED
  BY <1>2, <1>4, <1>6, <1>7, <1>8, <1>10, <1>11, <1>12, StoreKeeps DEF FsNext

(* The invariant of the file system service.                               *)
LEMMA FsInvariant == FsSpec => []FsInv
<1>1. FsInit => FsInv
  <2> SUFFICES ASSUME FsInit PROVE FsInv
    OBVIOUS
  <2>1. romfs = [raw |-> NoImage, loaded |-> FALSE, dirs |-> <<>>, files |-> <<>>]
        /\ DOMAIN fds = {} /\ nextFd = 1 /\ opening = [c \in Clients |-> NotOpening]
    BY DEF FsInit
  <2>2. IsRomFs(romfs) /\ romfs.files = <<>>
    BY <2>1 DEF IsRomFs
  <2>3. DOMAIN opening = Clients /\ Opening = {}
    BY <2>1 DEF Opening, NotOpening
  <2> QED
    BY <2>1, <2>2, <2>3 DEF FsInv, Consistent, TableOk
<1>2. FsInv /\ [FsNext]_fsVars => FsInv'
  BY FsStep
<1> QED
  BY <1>1, <1>2, PTL DEF FsSpec

(* FsService finds files of the image whose bytes it hands out, after any  *)
(* sequence of packages and opens.                                         *)
THEOREM FilesOfTheImage == FsSpec => []OneRomFs
<1>1. FsInv => OneRomFs
  BY DEF FsInv, Consistent, OneRomFs
<1> QED
  BY <1>1, FsInvariant, PTL

(* An open file keeps its data and its path, whatever is loaded, opened or *)
(* closed by any number of clients, while no two commands of the service   *)
(* have met in the unlocked file table.                                    *)
THEOREM OpenFilesKept == FsSpec => HandlesKept
<1>1. FsInv /\ [FsNext]_fsVars => [~overlapped' => FilesKept]_fsVars
  BY FsStep
<1> QED
  BY <1>1, FsInvariant, PTL DEF FsSpec, HandlesKept, FilesKept

\* What a step that takes a program from an NCA does to the RomFS.
RomFsOfProgram ==
    program' # program /\ program'[2] # 0 =>
      \E pkg \in Packages :
        /\ pkg.id = program'[1]
        /\ LET e == pkg.entries[program'[2]] IN
           HasRomFS(pkg, e, Examined(pkg, e)) => romfs'.raw = e.nca.image

(* Loader_LoadExecutable leaves the RomFS of the NCA it takes the program  *)
(* from, if that NCA has one: it is the last that was mounted.             *)
THEOREM ProgramsOwnRomFs == FsSpec => ProgramsRomFs
<1>1. ASSUME FsInv, [FsNext]_fsVars PROVE RomFsOfProgram
  <2>1. ASSUME UNCHANGED program PROVE RomFsOfProgram
    BY <2>1 DEF RomFsOfProgram
  <2>2. ASSUME NEW pkg \in Packages, LoadProgram(pkg) PROVE RomFsOfProgram
    <3>1. PICK n \in Candidates(pkg) : romfs' = Mounted(pkg, n, romfs) /\ program' = <<pkg.id, n>>
      BY <2>2 DEF LoadProgram
    <3> DEFINE e == pkg.entries[n]
               S == Mounting(pkg, n)
    <3>2. ASSUME HasRomFS(pkg, e, Examined(pkg, e)) PROVE romfs'.raw = e.nca.image
      <4>0. n \in Int /\ 1 <= n /\ IsNca(pkg, e)
        <5>1. n \in DOMAIN pkg.entries /\ IsNca(pkg, e)
          BY <3>1 DEF Candidates, Entries
        <5>2. DOMAIN pkg.entries = 1..Len(pkg.entries)
          BY PackagesAssumption
        <5> QED
          BY <5>1, <5>2
      <4>1. n \in S
        BY <4>0, <3>2 DEF Mounting
      <4>2. (CHOOSE i \in S : \A j \in S : j <= i) = n
        <5>1. \A i \in S : i \in Int /\ i <= n
          BY <4>0 DEF Mounting
        <5> QED
          BY <4>0, <4>1, <5>1
      <4> QED
        BY <1>1, <3>1, <4>1, <4>2, MountAllConsistent DEF Mounted, FsInv
    <3>3. program'[1] = pkg.id /\ program'[2] = n
      BY <3>1
    <3> QED
      BY <3>2, <3>3 DEF RomFsOfProgram
  <2>3. ASSUME NEW pkg \in Packages, LoadNsoFile(pkg) \/ LoadOther(pkg) PROVE RomFsOfProgram
    <3>1. program' = program \/ program' = <<pkg.id, 0>>
      BY <2>3 DEF LoadNsoFile, LoadOther
    <3> QED
      BY <3>1 DEF RomFsOfProgram
  <2> QED
    BY <1>1, <2>1, <2>2, <2>3
    DEF FsNext, fsVars, OpenRomFS, OpenDataFile, OpenFile, OpenDirectory,
        OpenSaveDataFile, Store, ReadDirectory, Close
<1>2. FsInv /\ [FsNext]_fsVars => [RomFsOfProgram]_fsVars
  BY <1>1
<1> QED
  BY <1>2, FsInvariant, PTL DEF FsSpec, ProgramsRomFs, RomFsOfProgram
=============================================================================
