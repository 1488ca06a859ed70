--------------------------- MODULE MCIpcSessions ---------------------------
(***************************************************************************)
(* Instances of IpcSessions: the services of the AM and HID chains, whose  *)
(* commands open sub-objects, and fs, whose replies begin with numbers.    *)
(* The run about requests explores two halves of the space: requests that  *)
(* overlap, without the AM chain and with one session less, and requests   *)
(* sent one after the other.                                               *)
(***************************************************************************)
EXTENDS IpcSessions, TLC

CONSTANTS sm, fs, hid, appletOE, proxy, selfCtl, r1, c1, c2

\* GetAppletProxy opens the one proxy, GetSelfController its member.
AmSubs == [s \in Service |-> IF s = appletOE THEN {proxy}
                             ELSE IF s = proxy THEN {selfCtl} ELSE {}]
AmParts == [s \in Service |-> IF s = proxy THEN {selfCtl} ELSE {}]

\* Services without shared sub-objects.
NoSubs == [s \in Service |-> {}]

\* Guest threads are interchangeable.
Threads == Permutations(Client)

VARIABLE part

\* A service's own number, where a reply begins with one, is that of the second
\* session.
Overlapping ==
    /\ part = "overlapping" /\ Next
    /\ nextSession' <= MaxSessions
    /\ \A c \in Client :
         /\ call'[c].out < MaxSessions
         /\ call'[c].pc = "post" /\ ~call'[c].made => call'[c].out = 2
         /\ call'[c].svc \notin {appletOE, proxy, selfCtl}
    /\ \A i \in DOMAIN sessions' : sessions'[i].service # appletOE

Serial == part = "serial" /\ Next /\ ~overlapped'

RequestsSpec ==
    /\ part \in {"overlapping", "serial"} /\ Init
    /\ [][(Overlapping \/ Serial) /\ UNCHANGED part]_<<part, vars>>
=============================================================================
