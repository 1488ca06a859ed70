---------------------------- MODULE IpcSessions ----------------------------
(***************************************************************************)
(* The session table of the IPC manager (services/Ipc.cpp, Ipc.h): the     *)
(* vector sessions_ of named and anonymous sessions, the domain mode of a  *)
(* session with its numbered sub-objects, and who deletes which service.   *)
(*                                                                         *)
(* HandleRequest looks a session up under mutex_, but find_session returns *)
(* a pointer into the vector and every use of it happens after the lock    *)
(* is released, and the service's HandleCommand runs with no lock held.    *)
(* A pointer is modelled as the vector's allocation and an index into it:  *)
(* an erase shifts the elements behind it, a growing push_back frees the   *)
(* allocation.  One request is one call of SvcSendSyncRequest by a guest   *)
(* thread; requests of two threads interleave between the lock regions.    *)
(***************************************************************************)
EXTENDS Naturals, Sequences, FiniteSets, SequencesExt

CONSTANTS
    Client,      \* guest threads that send requests
    Sm,          \* the service manager, reached by ConnectToNamedPort
    Named,       \* services_ registered under a name; Sm is one of them
    Shared,      \* sub-objects that exist once (AmProxyService::s_proxy,
                 \* its members, g_apm_sub) and are handed out by pointer
    Fresh,       \* objects a command allocates with new (HidAppletResource)
    Subs,        \* Subs[s]: the shared sub-objects the commands of s open
    Parts,       \* Parts[s]: the objects embedded in s, destroyed with it
    Makers,      \* services with a command that opens a fresh object
    Counters,    \* services whose replies begin with numbers of their own:
                 \* fd numbers (Fs.cpp), NVGPU results (Nv.cpp)
    Null,        \* the null pointer
    MaxSessions, \* bound on the sessions ever opened
    MaxObjects   \* bound on the domain objects made from numbers of replies

Service == Named \cup Shared \cup Fresh

ASSUME IpcAssumption ==
    /\ Sm \in Named
    /\ Named \cap (Shared \cup Fresh) = {}
    /\ Shared \cap Fresh = {}
    /\ Null \notin Service
    /\ Subs \in [Service -> SUBSET Shared]
    /\ Parts \in [Service -> SUBSET Shared]
    /\ Makers \subseteq Service
    /\ Counters \subseteq Service
    /\ MaxSessions \in Nat
    /\ MaxObjects \in Nat

VARIABLES
    sessions,    \* sessions_: the vector
    nextSession, \* next_session_, counted from 1
    cap, buf,    \* the vector's capacity, and which allocation it is in
    dead,        \* services that were deleted
    used,        \* fresh objects allocated so far
    given,       \* session handles the guest was given
    call,        \* call[c]: the request that c has in progress
    misread,     \* history: a call used a Session* that was not its session's
    overlapped,  \* history: a request was sent while another was in progress
    mistaken     \* history: services that a domain took for an object because
                 \* a reply began with the number of their session

vars == <<sessions, nextSession, cap, buf, dead, used, given, call, misread,
          overlapped, mistaken>>

Handle == 1..MaxSessions

Session == [id: Handle, service: Service \cup {Null}, owns: BOOLEAN,
            domain: BOOLEAN, objects: Seq(Service)]

NullPtr == [buf |-> 0, i |-> 0]
Pointer == [buf: 0..MaxSessions, i: 0..MaxSessions]

Idle == [pc |-> "idle", h |-> 0, dom |-> FALSE, obj |-> 0,
         ptr |-> NullPtr, svc |-> Null, out |-> 0, made |-> FALSE]

Pcs == {"idle", "setDomain", "find", "route", "exec", "post", "bind"}

TypeOK ==
    /\ sessions \in Seq(Session)
    /\ Len(sessions) <= cap
    /\ nextSession \in 1..(MaxSessions + 1)
    /\ cap \in Nat /\ buf \in 0..MaxSessions
    /\ dead \subseteq Service
    /\ used \subseteq Fresh
    /\ given \subseteq 1..(nextSession - 1)
    /\ call \in [Client -> [pc: Pcs, h: 0..MaxSessions, dom: BOOLEAN,
                            obj: 0..MaxSessions, ptr: Pointer,
                            svc: Service \cup {Null}, out: 0..MaxSessions,
                            made: BOOLEAN]]
    /\ misread \in BOOLEAN
    /\ overlapped \in BOOLEAN
    /\ mistaken \subseteq Service

Init ==
    /\ sessions = <<>>
    /\ nextSession = 1
    /\ cap = 0 /\ buf = 0
    /\ dead = {}
    /\ used = {}
    /\ given = {}
    /\ call = [c \in Client |-> Idle]
    /\ misread = FALSE
    /\ overlapped = FALSE
    /\ mistaken = {}

-----------------------------------------------------------------------------
(* The vector and pointers into it.                                        *)

Index(h) == {i \in DOMAIN sessions : sessions[i].id = h}

Open(h) == Index(h) # {}

\* The session whose handle is h.
Entry(h) == sessions[CHOOSE i \in Index(h) : TRUE]

\* find_session: the address of the element, or nullptr.
FindSession(h) ==
    IF Open(h) THEN [buf |-> buf, i |-> CHOOSE i \in Index(h) : TRUE]
    ELSE NullPtr

\* The pointer still points at an element of the vector.
Valid(p) == p.buf = buf /\ p.i \in DOMAIN sessions

\* The element is the session it was when h was looked up.
Current(p, h) == Valid(p) /\ sessions[p.i].id = h

\* sessions_.push_back(s): past the capacity the vector moves.
PushBack(s) ==
    /\ nextSession <= MaxSessions
    /\ nextSession' = nextSession + 1
    /\ sessions' = Append(sessions, s)
    /\ IF Len(sessions) = cap
         THEN cap' = (IF cap = 0 THEN 1 ELSE 2 * cap) /\ buf' = buf + 1
         ELSE UNCHANGED <<cap, buf>>

\* Mutant: the handle is the session's place in the vector.
NewSessionBySize(svc, owned) ==
    [id |-> Len(sessions) + 1, service |-> svc, owns |-> owned,
     domain |-> FALSE, objects |-> <<>>]

\* A named session (Connect) does not own its service, an anonymous one
\* (CreateSession) does.
NewSession(svc, owned) ==
    [id |-> nextSession, service |-> svc, owns |-> owned, domain |-> FALSE,
     objects |-> <<>>]

-----------------------------------------------------------------------------
(* Operations.                                                             *)

\* SvcConnectToNamedPort("sm:").
ConnectToNamedPort(c) ==
    /\ call[c].pc = "idle"
    /\ PushBack(NewSession(Sm, FALSE))
    /\ given' = given \cup {nextSession}
    /\ UNCHANGED <<dead, used, call, misread>>

\* Mutant: the service is deleted and the session stays.
CloseKeeps(c, h) ==
    /\ call[c].pc = "idle"
    /\ h \in given
    /\ Open(h)
    /\ dead' = IF Entry(h).owns
                 THEN dead \cup {Entry(h).service} \cup Parts[Entry(h).service]
                 ELSE dead
    /\ UNCHANGED <<sessions, nextSession, cap, buf, used, given, call, misread>>

\* Close request (type 2): the session's service is deleted if the session
\* owns it, its domain objects are only forgotten.
CloseSession(c, h) ==
    /\ call[c].pc = "idle"
    /\ h \in given
    /\ Open(h)
    /\ dead' = IF Entry(h).owns
                 THEN dead \cup {Entry(h).service} \cup Parts[Entry(h).service]
                 ELSE dead
    /\ sessions' = RemoveAt(sessions, FindSession(h).i)
    /\ UNCHANGED <<nextSession, cap, buf, used, given, call, misread>>

\* ConvertCurrentObjectToDomain (control request, command 0): look up ...
ConvertToDomain(c, h) ==
    /\ call[c].pc = "idle"
    /\ h \in given
    /\ Open(h)
    /\ Entry(h).service # Null
    /\ call' = [call EXCEPT ![c] = [Idle EXCEPT !.pc = "setDomain", !.h = h,
                                                !.ptr = FindSession(h)]]
    /\ UNCHANGED <<sessions, nextSession, cap, buf, dead, used, given, misread>>

\* ... and set is_domain through the pointer.  A write to freed memory
\* changes no session.
SetDomain(c) ==
    /\ call[c].pc = "setDomain"
    /\ LET p == call[c].ptr IN
         /\ sessions' = IF Valid(p)
                          THEN [sessions EXCEPT ![p.i].domain = TRUE]
                          ELSE sessions
         /\ misread' = (misread \/ ~Current(p, call[c].h))
    /\ call' = [call EXCEPT ![c] = Idle]
    /\ UNCHANGED <<nextSession, cap, buf, dead, used, given>>

\* A request (type 4): the object id is parsed only in domain mode.  A handle
\* that is not open, or whose session has no service, is answered at once
\* and changes nothing.
HandleRequest(c, h, obj) ==
    /\ call[c].pc = "idle"
    /\ h \in given
    /\ Open(h)
    /\ Entry(h).service # Null
    /\ obj \in 0..Len(Entry(h).objects)
    /\ call' = [call EXCEPT ![c] =
                  [Idle EXCEPT !.pc = "find", !.h = h,
                               !.dom = Entry(h).domain,
                               !.obj = IF Entry(h).domain THEN obj ELSE 0]]
    /\ UNCHANGED <<sessions, nextSession, cap, buf, dead, used, given, misread>>

\* Routing looks the session up under the lock ...
Find(c) ==
    /\ call[c].pc = "find"
    /\ call' = IF Open(call[c].h)
                 THEN [call EXCEPT ![c].pc = "route",
                                   ![c].ptr = FindSession(call[c].h)]
                 ELSE [call EXCEPT ![c] = Idle]
    /\ UNCHANGED <<sessions, nextSession, cap, buf, dead, used, given, misread>>

\* The service a session routes an object id to: the sub-object registered
\* under it, else the session's own service.
Target(s, obj) ==
    IF s.domain /\ obj \in DOMAIN s.objects THEN s.objects[obj] ELSE s.service

\* ... and reads it after the unlock; freed memory may hold any service.
Route(c) ==
    /\ call[c].pc = "route"
    /\ LET p == call[c].ptr IN
         /\ \E svc \in IF Valid(p) THEN {Target(sessions[p.i], call[c].obj)}
                                   ELSE Service \cup {Null} :
              call' = [call EXCEPT ![c].pc = "exec", ![c].svc = svc, ![c].obj = 0]
         /\ misread' = (misread \/ ~Current(p, call[c].h))
    /\ UNCHANGED <<sessions, nextSession, cap, buf, dead, used, given>>

\* HandleCommand of the target.  A command that opens nothing; w is the first
\* word of its reply.  The numbers counted by other services start where
\* next_session_ does, at 0x1000, so w may be a session's: w = 0 stands for
\* all replies that begin with nothing of the kind.
ExecPlain(c, w) ==
    /\ call[c].pc = "exec"
    /\ w # 0 => /\ call[c].svc \in Counters
                /\ \A i \in Index(call[c].h) :
                     Len(sessions[i].objects) < MaxObjects
    /\ call' = [call EXCEPT ![c] =
                  IF w = 0 THEN Idle
                  ELSE [@ EXCEPT !.pc = "post", !.out = w, !.made = FALSE,
                                 !.svc = Null]]
    /\ UNCHANGED <<sessions, nextSession, cap, buf, dead, used, given, misread>>

\* Leaving HandleCommand with the new session's handle in raw_out.
Answer(c) == call' = [call EXCEPT ![c].pc = "post", ![c].out = nextSession,
                                  ![c].made = TRUE, ![c].svc = Null]

\* SmService::HandleGetService: a session to a registered service; a name
\* nobody registered gets a session without a service.
ExecGetService(c, n) ==
    /\ call[c].pc = "exec"
    /\ call[c].svc = Sm
    /\ n \in Named \cup {Null}
    /\ PushBack(NewSession(n, FALSE))
    /\ Answer(c)
    /\ UNCHANGED <<dead, used, given, misread>>

\* AmService, AmProxyService, ApmService: CreateSession on an object that
\* exists already.
ExecOpenShared(c, s) ==
    /\ call[c].pc = "exec"
    /\ call[c].svc \in Service
    /\ s \in Subs[call[c].svc]
    /\ PushBack(NewSession(s, TRUE))
    /\ Answer(c)
    /\ UNCHANGED <<dead, used, given, misread>>

\* HidService::HandleInitialize: CreateSession on a new object.
ExecOpenFresh(c, f) ==
    /\ call[c].pc = "exec"
    /\ call[c].svc \in Makers
    /\ f \in Fresh \ used
    /\ used' = used \cup {f}
    /\ PushBack(NewSession(f, TRUE))
    /\ Answer(c)
    /\ UNCHANGED <<dead, given, misread>>

\* Mutant: the Session* found before the command is used after it.
PostCached(c) ==
    /\ call[c].pc = "post"
    /\ LET h == call[c].h IN
       IF Open(h) /\ Entry(h).domain
         THEN call' = [call EXCEPT ![c].pc = "bind"] /\ UNCHANGED given
         ELSE /\ given' = IF call[c].dom \/ ~call[c].made THEN given
                          ELSE given \cup {call[c].out}
              /\ call' = [call EXCEPT ![c] = Idle]
    /\ UNCHANGED <<sessions, nextSession, cap, buf, dead, used, misread>>

\* After the command: outside domain mode the handle goes to the guest.
\* A reply prepared in domain mode has no place for a handle, and neither has
\* one of a command that is not known to open a session: its word is data.
Post(c) ==
    /\ call[c].pc = "post"
    /\ LET h == call[c].h IN
       IF Open(h) /\ Entry(h).domain
         THEN /\ call' = [call EXCEPT ![c].pc = "bind",
                                      ![c].ptr = FindSession(h)]
              /\ UNCHANGED given
         ELSE /\ given' = IF call[c].dom \/ ~call[c].made THEN given
                          ELSE given \cup {call[c].out}
              /\ call' = [call EXCEPT ![c] = Idle]
    /\ UNCHANGED <<sessions, nextSession, cap, buf, dead, used, misread>>

\* In domain mode the service of the session that the word names becomes
\* object next_object_id of this session and the guest gets that number, never
\* the handle: GetServiceBySession looks the word up whatever it was meant to
\* be.  A word that names no service's session stays in the reply.
Bind(c) ==
    /\ call[c].pc = "bind"
    /\ LET p == call[c].ptr
           o == call[c].out
           served == Open(o) /\ Entry(o).service # Null
       IN /\ sessions' = IF served /\ Valid(p)
                           THEN [sessions EXCEPT ![p.i].objects =
                                   Append(@, Entry(o).service)]
                           ELSE sessions
          /\ given' = IF served \/ ~call[c].made THEN given
                       ELSE given \cup {o}
          /\ mistaken' = IF served /\ ~call[c].made
                            THEN mistaken \cup {Entry(o).service}
                            ELSE mistaken
          /\ misread' = (misread \/ (served /\ ~Current(p, call[c].h)))
    /\ call' = [call EXCEPT ![c] = Idle]
    /\ UNCHANGED <<nextSession, cap, buf, dead, used>>

-----------------------------------------------------------------------------

Request(c) ==
    /\ \/ ConnectToNamedPort(c)
       \/ \E h \in given : \/ CloseSession(c, h)
                           \/ ConvertToDomain(c, h)
                           \/ \E obj \in 0..MaxSessions : HandleRequest(c, h, obj)
    /\ overlapped' = (overlapped \/ \E d \in Client \ {c} : call[d].pc # "idle")

Command(c) ==
    \/ \E w \in 0..MaxSessions : ExecPlain(c, w)
    \/ \E n \in Named \cup {Null} : ExecGetService(c, n)
    \/ \E s \in Shared : ExecOpenShared(c, s)
    \/ \E f \in Fresh : ExecOpenFresh(c, f)

Finish(c) ==
    \/ (SetDomain(c) \/ Find(c) \/ Route(c) \/ Post(c)) /\ UNCHANGED mistaken
    \/ Bind(c)

Next ==
    \E c \in Client : \/ Request(c) /\ UNCHANGED mistaken
                      \/ Command(c) /\ UNCHANGED <<overlapped, mistaken>>
                      \/ Finish(c) /\ UNCHANGED overlapped

Spec == Init /\ [][Next]_vars

-----------------------------------------------------------------------------
(* Properties.                                                             *)

\* next_session_ numbers sessions in the order they enter the vector, and an
\* erase keeps that order: ids are strictly increasing along sessions_, so
\* the linear search of find_session has at most one match, and no id that a
\* closed session had comes back.
IdsIncrease ==
    /\ \A i, j \in DOMAIN sessions : i < j => sessions[i].id < sessions[j].id
    /\ \A i \in DOMAIN sessions : sessions[i].id < nextSession

\* An object that was allocated for a session is deleted by that session
\* alone: it has one owner (owns_service), which has not deleted it yet, so no
\* close deletes it a second time, however requests interleave.
OneOwner ==
    \A i, j \in DOMAIN sessions :
        sessions[i].owns /\ sessions[i].service \in Fresh =>
            /\ sessions[i].service \notin dead
            /\ sessions[j].owns /\ sessions[j].service = sessions[i].service
                 => i = j

\* Requests sent one after the other never reach a deleted object: once the
\* session that owns it is closed, no handle and no domain object id of the
\* guest is routed to it.  Sub-objects that exist once are the exception, and
\* so are services that a domain registered because a reply began with the
\* number of their session.
SerialTargetAlive ==
    ~overlapped => \A c \in Client :
        call[c].pc = "exec" /\ call[c].svc \notin Shared \cup mistaken
          => call[c].svc \notin dead

\* Requests sent one after the other use a Session* only while it denotes the
\* session they name, although a command may move the vector in between ("do
\* not cache Session* pointers", Ipc.cpp line 250).
PointerCurrent == ~overlapped => ~misread

\* In domain mode "only real service sessions are registered as domain
\* objects" (Ipc.cpp line 568): no reply that is data adds an object.
OnlyRealSessions == mistaken = {}

=============================================================================
