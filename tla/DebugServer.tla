---------------------------- MODULE DebugServer -----------------------------
(***************************************************************************)
(* The debug server (debug/DebugServer.cpp): one thread that accepts a     *)
(* client at a time on a Unix socket and executes its commands, started by *)
(* EmulatorCore::Initialize and stopped, and joined, by EmulatorCore::Stop.*)
(***************************************************************************)
EXTENDS Debugger

VARIABLES
    server,  \* running_, the listening socket, where the thread is
    client,  \* the other end of the connection
    stop     \* the caller of DebugServer::Stop

serverVars == <<server, client, stop>>

\* The thread's pc is "none" when there is no thread, "loop" before the test
\* of running_ in ServerLoop, "test" before that in HandleClient.
ServerInit ==
    /\ server = [running |-> FALSE, socket |-> FALSE, pc |-> "none"]
    /\ client = "away" /\ stop = "no"

-----------------------------------------------------------------------------

At(pc) == server.pc = pc
Goto_(pc) == server' = [server EXCEPT !.pc = pc]

\* Start: socket, bind and listen succeed, or the server stays down.
Start ==
    /\ ~server.running /\ stop = "no" /\ At("none")
    /\ server' = [running |-> TRUE, socket |-> TRUE, pc |-> "loop"]
    /\ UNCHANGED <<debuggerVars, client, stop>>

\* ServerLoop: the test, accept, and - when the socket is gone - the test
\* again.
Loop ==
    /\ At("loop")
    /\ Goto_(IF server.running THEN "accept" ELSE "none")
    /\ UNCHANGED <<debuggerVars, client, stop>>

Accept ==
    /\ At("accept")
    /\ \/ /\ server.socket /\ client = "calls"
          /\ client' = "connected" /\ Goto_("test")
       \/ /\ ~server.socket
          /\ Goto_("loop") /\ UNCHANGED client
    /\ UNCHANGED <<debuggerVars, stop>>

\* HandleClient: the test, and the end of the connection.
Test ==
    /\ At("test")
    /\ IF server.running THEN Goto_("read") /\ UNCHANGED client
       ELSE Goto_("loop") /\ client' = "away"
    /\ UNCHANGED <<debuggerVars, stop>>

\* read returns what the client sent, and the commands are executed, or 0
\* when the client has left.  Two ways on that end the whole process, and with
\* it everything modelled here, have no step: an argument that std::stoull
\* rejects (nobody catches the exception) and the answer to a client that has
\* left (SIGPIPE).
Read ==
    /\ At("read")
    /\ \/ /\ client = "sent" /\ client' = "connected"
          /\ Command
          /\ Goto_("test")
       \/ /\ client = "left" /\ client' = "away"
          /\ Goto_("loop")
          /\ UNCHANGED debuggerVars
    /\ UNCHANGED stop

ServerStep == Loop \/ Accept \/ Test \/ Read

\* Mutant: the listening socket is closed after the join.
StopJoinsFirst ==
    /\ stop = "no" /\ server.running
    /\ server' = [server EXCEPT !.running = FALSE]
    /\ stop' = "joining"
    /\ UNCHANGED <<debuggerVars, client>>

\* Stop: the flag, then the socket - not the client's, on which the thread
\* may be reading - and the join.
Stop ==
    /\ stop = "no" /\ server.running
    /\ server' = [server EXCEPT !.running = FALSE, !.socket = FALSE]
    /\ stop' = "joining"
    /\ UNCHANGED <<debuggerVars, client>>

Joined ==
    /\ stop = "joining" /\ At("none")
    /\ stop' = "done"
    /\ UNCHANGED <<debuggerVars, server, client>>

\* The client is external: it connects, sends lines and leaves as it likes.
Client ==
    /\ \/ client = "away" /\ server.socket /\ client' = "calls"
       \/ client = "connected" /\ client' \in {"sent", "left"}
    /\ UNCHANGED <<debuggerVars, server, stop>>

DebugInit == DebuggerInit /\ ServerInit

DebugNext ==
    \/ Start
    \/ ServerStep
    \/ Stop
    \/ Joined
    \/ Client
    \/ (Panel \/ Game) /\ UNCHANGED serverVars

debugVars == <<debuggerVars, serverVars>>

DebugSpec == DebugInit /\ [][DebugNext]_debugVars

-----------------------------------------------------------------------------
(* Properties.                                                             *)

\* Stop, on the application's main thread, waits for the server's thread no
\* longer than a connected client keeps silent: the thread cannot stay in
\* accept, and sees running_ go down wherever it is.
StopEnds == ~<>[](stop = "joining" /\ client # "connected")
=============================================================================
