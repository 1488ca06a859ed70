---------------------------- MODULE MCHostParts -----------------------------
(***************************************************************************)
(* Components of the host that share no state, checked side by side: a     *)
(* behaviour is one of kernel events, the handle table, the debugger with  *)
(* its server, the trace ring, or the translation of one shader.           *)
(***************************************************************************)
EXTENDS KEventWait, HandleTable, DebugServer, TraceRing, MCShader

VARIABLE part
hostVars == <<vars, handleVars, debugVars, traceVars>>
allVars == <<part, hostVars, shaderVars>>

AnyRegion == CHOOSE r \in Regions : TRUE

\* One behaviour per shader, one for each of the other parts.
PartsInit ==
    /\ part \in {"events", "handles", "debugger", "trace", "shader"}
    /\ Init /\ HandleInit /\ DebugInit /\ TraceInit
    /\ ShaderInit
    /\ part # "shader" => region = AnyRegion

Events(A) == /\ part = "events" /\ A
             /\ UNCHANGED <<part, handleVars, debugVars, traceVars, shaderVars>>
Handles(A) == /\ part = "handles" /\ A
              /\ UNCHANGED <<part, vars, debugVars, traceVars, shaderVars>>
Debugging(A) == /\ part = "debugger" /\ A
                /\ UNCHANGED <<part, vars, handleVars, traceVars, shaderVars>>
Tracing(A) == /\ part = "trace" /\ A
              /\ UNCHANGED <<part, vars, handleVars, debugVars, shaderVars>>
Shading(A) == part = "shader" /\ A /\ UNCHANGED <<part, hostVars>>

PartsNext ==
    \/ Events(Next) \/ Handles(HandleNext) \/ Debugging(DebugNext) \/ Tracing(TraceNext)
    \/ Shading(ShaderNext)

\* The fairness of KEventWait; the host schedules the server's thread and the
\* one that joins it.  Clients of the server owe nothing.
PartsSpec ==
    /\ PartsInit /\ [][PartsNext]_allVars
    /\ \A t \in Thread : /\ WF_allVars(Events(Inside(t)))
                         /\ SF_allVars(Events(Expire(t)))
    /\ WF_allVars(Debugging(ServerStep)) /\ WF_allVars(Debugging(Joined))

\* Two games; the second has a zero word where the first has none.
Two == {[a \in Code |-> IF a = "main" THEN "nop" ELSE "ret"],
        [a \in Code |-> IF a = "main" THEN "zero" ELSE "nop"]}
=============================================================================
