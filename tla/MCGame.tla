------------------------------- MODULE MCGame -------------------------------
(***************************************************************************)
(* What goes on while a game runs and must come to an end, in two parts    *)
(* that share no state: a behaviour is one of push buffers and frames, or  *)
(* one of the game's threads.                                              *)
(***************************************************************************)
EXTENDS MCGpuChannel, Lifecycle

VARIABLE part
gameVars == <<part, vars, lifeVars>>

GameInit == part \in {"frames", "threads"} /\ Init /\ LifeInit

Frames(A) == part = "frames" /\ A /\ UNCHANGED <<part, lifeVars>>
Threads(A) == part = "threads" /\ A /\ UNCHANGED <<part, vars>>

GameNext == Frames(Next) \/ Threads(LifeNext)

\* The fairness of the two modules.
GameSpec ==
    /\ GameInit /\ [][GameNext]_gameVars
    /\ WF_gameVars(Frames(View))
    /\ \A h \in 1..MaxHosts : /\ WF_gameVars(Threads(Emulated(h)))
                              /\ WF_gameVars(Threads(GuestCall(h)))
=============================================================================
