------------------------------ MODULE Debugger ------------------------------
(***************************************************************************)
(* Breakpoints (cpu/Debugger.cpp) and the debug server that sets them      *)
(* (debug/DebugServer.cpp).  A breakpoint replaces the guest's instruction *)
(* by a BRK and keeps the instruction in breakpoints_; the debug panel and *)
(* the server's thread call the same functions, each of them under         *)
(* breakpoint_mutex_.                                                      *)
(*                                                                         *)
(* The instruction at an address is a name; "zero" is the word 0, which    *)
(* the code takes for "no instruction saved", "brk" the debugger's BRK.    *)
(* Breakpoints are never disabled or temporary.  TrapHandler calls         *)
(* OnBreakpoint for a BRK whose tag is the debugger's, but it takes tags   *)
(* from a cache that PatchSVCs fills with those of supervisor calls only:  *)
(* the debugger's own BRK is not in it, and the guest goes on behind it.   *)
(***************************************************************************)
CONSTANTS Code,   \* addresses of instructions
          Images  \* the games that may be loaded: functions from Code to words

ASSUME ImagesAssumption == \A i \in Images : i = [a \in Code |-> i[a]]

VARIABLES
    attached,    \* memory_ was set
    image,       \* the words of the game that was loaded last
    code,        \* the words in guest memory
    breakpoints, \* breakpoints_: address -> saved word and whether it is patched
    paused, stepping,
    orphans      \* addresses whose BRK, or saved word, belongs to no breakpoint
                 \* any more, or to that of an earlier game

debuggerVars == <<attached, image, code, breakpoints, paused, stepping, orphans>>

NoImage == [a \in Code |-> "zero"]
loaded == image # NoImage

Breakpoint == DOMAIN breakpoints
Patched == {a \in Breakpoint : breakpoints[a].patched}

DebuggerInit ==
    /\ attached = FALSE
    /\ image = NoImage /\ code = NoImage
    /\ breakpoints = <<>> /\ orphans = {}
    /\ paused = FALSE /\ stepping = FALSE

-----------------------------------------------------------------------------

\* EmulatorCore::LoadGame: the loader writes the code anew; the debugger is
\* not told.
Reload(i) ==
    /\ attached
    /\ image' = i /\ code' = i
    /\ orphans' = Patched
    /\ UNCHANGED <<attached, breakpoints, paused, stepping>>

\* EmulatorCore::WireSvcDispatch, after the server was started.
Attach ==
    /\ ~attached
    /\ attached' = TRUE
    /\ UNCHANGED <<image, code, breakpoints, paused, stepping, orphans>>

\* Write the BRK of every address in A and remember what was there.  Before
\* a game is loaded there is no memory to write to, and the access faults.
Patch(A) ==
    /\ A = {} \/ loaded
    /\ breakpoints' = [a \in Breakpoint \cup A |->
         IF a \in A THEN [original |-> code[a], patched |-> TRUE] ELSE breakpoints[a]]
    /\ code' = [a \in Code |-> IF a \in A THEN "brk" ELSE code[a]]

\* Mutant: a breakpoint that exists is set up again.
SetAgain(a) ==
    /\ attached
    /\ Patch({a})
    /\ UNCHANGED <<attached, image, paused, stepping, orphans>>

SetBreakpoint(a) ==
    /\ \/ a \in Breakpoint /\ UNCHANGED <<breakpoints, code>>
       \/ a \notin Breakpoint /\ attached /\ Patch({a})
       \/ /\ a \notin Breakpoint /\ ~attached
          /\ breakpoints' = [b \in Breakpoint \cup {a} |->
               IF b = a THEN [original |-> "zero", patched |-> FALSE] ELSE breakpoints[b]]
          /\ UNCHANGED code
    /\ UNCHANGED <<attached, image, paused, stepping, orphans>>

Forget(A) == breakpoints' = [a \in Breakpoint \ A |-> breakpoints[a]]

\* The saved word goes back, unless it is 0.
RemoveBreakpoint(a) ==
    LET word == breakpoints[a].original IN
    /\ a \in Breakpoint
    /\ IF a \in Patched /\ attached /\ word # "zero"
       THEN code' = [code EXCEPT ![a] = word] /\ UNCHANGED orphans
       ELSE orphans' = orphans \cup ({a} \cap Patched) /\ UNCHANGED code
    /\ Forget({a})
    /\ UNCHANGED <<attached, image, paused, stepping>>

\* Only the table is emptied.
ClearAllBreakpoints ==
    /\ Forget(Breakpoint)
    /\ orphans' = orphans \cup Patched
    /\ UNCHANGED <<attached, image, code, paused, stepping>>

ApplyBreakpoints == Patch(IF attached THEN Breakpoint \ Patched ELSE {})

Resume(step) ==
    /\ ApplyBreakpoints
    /\ paused' = FALSE /\ stepping' = step
    /\ UNCHANGED <<attached, image, orphans>>

Continue == Resume(FALSE)
StepOver == Resume(TRUE)

Pause ==
    /\ paused' = TRUE
    /\ UNCHANGED <<attached, image, code, breakpoints, stepping, orphans>>

\* The commands of the server that change the debugger; regs, read and
\* breakpoints look at it, write stores to guest memory other than code,
\* which is read-only.
Command ==
    \/ \E a \in Code : SetBreakpoint(a) \/ RemoveBreakpoint(a)
    \/ Continue
    \/ StepOver
    \/ Pause
    \/ UNCHANGED debuggerVars

\* The buttons of the debug panel.
Panel ==
    \/ \E a \in Code : SetBreakpoint(a) \/ RemoveBreakpoint(a)
    \/ ClearAllBreakpoints
    \/ Continue \/ StepOver \/ Pause

Game == Attach \/ \E i \in Images : Reload(i)

-----------------------------------------------------------------------------
(* Properties.                                                             *)

\* Whatever the panel and the server do in whatever order: where a breakpoint
\* is patched the guest's own instruction is saved, and everywhere else it is
\* in memory - except where ClearAllBreakpoints, a saved 0 or a second game
\* left a BRK behind.
CodeRestored ==
    \A a \in Code \ orphans :
        IF a \in Patched
        THEN code[a] = "brk" /\ breakpoints[a].original = image[a]
        ELSE code[a] = image[a]
=============================================================================
