---------------------------- MODULE MCGuestParts ----------------------------
(***************************************************************************)
(* Two parts behind the guest's calls that share no state, checked side by *)
(* side: a behaviour is one of the display's buffer queue or of the        *)
(* threads of a game.                                                      *)
(***************************************************************************)
EXTENDS BufferQueue, Lifecycle

VARIABLE part
guestVars == <<part, vars, lifeVars>>

PartsInit == part \in {"display", "threads"} /\ Init /\ LifeInit

PartsNext ==
    \/ part = "display" /\ Next /\ UNCHANGED <<part, lifeVars>>
    \/ part = "threads" /\ LifeNext /\ UNCHANGED <<part, vars>>

PartsSpec == PartsInit /\ [][PartsNext]_guestVars
=============================================================================
