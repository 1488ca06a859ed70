------------------------- MODULE IpcSessionsProofs -------------------------
(***************************************************************************)
(* Proofs about the session table, for any number of guest threads and     *)
(* services: ids stay unique and in order, no object that a command        *)
(* allocated for its session is deleted twice, and requests that do not    *)
(* overlap use only current pointers and live services.                    *)
(***************************************************************************)
EXTENDS IpcSessions, SequenceTheorems, TLAPS

\* The sessions themselves: what the two results below need of the types.
Table ==
    /\ sessions \in Seq(Session)
    /\ nextSession \in Nat \ {0}

\* erase: the elements before the erased one stay, the others move up.
LEMMA RemoveAtEffect ==
    ASSUME NEW S, NEW s \in Seq(S), NEW k \in 1..Len(s)
    PROVE  /\ RemoveAt(s, k) \in Seq(S)
           /\ Len(RemoveAt(s, k)) = Len(s) - 1
           /\ \A i \in 1..(Len(s) - 1) :
                RemoveAt(s, k)[i] = IF i < k THEN s[i] ELSE s[i + 1]
<1> DEFINE a == SubSeq(s, 1, k - 1)
           b == SubSeq(s, k + 1, Len(s))
<1>1. a \in Seq(S) /\ Len(a) = k - 1 /\ \A i \in 1..(k - 1) : a[i] = s[i]
  BY SubSeqProperties
<1>2. b \in Seq(S) /\ Len(b) = Len(s) - k
      /\ \A i \in 1..(Len(s) - k) : b[i] = s[k + i]
  <2>1. CASE k = Len(s)
    BY <2>1, SubSeqProperties
  <2>2. CASE k < Len(s)
    BY <2>2, SubSeqProperties
  <2> QED BY <2>1, <2>2
<1>3. RemoveAt(s, k) = a \o b
  BY DEF RemoveAt
<1> HIDE DEF a, b
<1>4. /\ a \o b \in Seq(S)
      /\ Len(a \o b) = Len(a) + Len(b)
      /\ \A i \in 1..(Len(a) + Len(b)) :
           (a \o b)[i] = IF i <= Len(a) THEN a[i] ELSE b[i - Len(a)]
  BY <1>1, <1>2, ConcatProperties
<1>5. ASSUME NEW i \in 1..(Len(s) - 1)
      PROVE  (a \o b)[i] = IF i < k THEN s[i] ELSE s[i + 1]
  <2>1. CASE i < k
    BY <2>1, <1>1, <1>2, <1>4
  <2>2. CASE ~(i < k)
    <3>1. (a \o b)[i] = b[i - (k - 1)]
      BY <2>2, <1>1, <1>2, <1>4
    <3>2. i - (k - 1) \in 1..(Len(s) - k)
      BY <2>2
    <3>3. b[i - (k - 1)] = s[k + (i - (k - 1))]
      BY <3>2, <1>2
    <3>4. k + (i - (k - 1)) = i + 1
      OBVIOUS
    <3> QED BY <2>2, <3>1, <3>3, <3>4
  <2> QED BY <2>1, <2>2
<1> QED BY <1>1, <1>2, <1>3, <1>4, <1>5

\* What every action does to the vector: nothing, one element changed in its
\* mode or objects, one session appended, or one erased.
Untouched == UNCHANGED <<sessions, nextSession>>

Tweaked ==
    /\ nextSession' = nextSession
    /\ sessions' \in Seq(Session)
    /\ Len(sessions') = Len(sessions)
    /\ \A i \in DOMAIN sessions :
         /\ sessions'[i].id = sessions[i].id
         /\ sessions'[i].owns = sessions[i].owns
         /\ sessions'[i].service = sessions[i].service

Appended ==
    \E svc \in Service \cup {Null}, owned \in BOOLEAN :
        /\ nextSession <= MaxSessions
        /\ nextSession' = nextSession + 1
        /\ sessions' = Append(sessions, NewSession(svc, owned))

Erased ==
    /\ nextSession' = nextSession
    /\ \E k \in DOMAIN sessions : sessions' = RemoveAt(sessions, k)

\* An element changed in place keeps the vector a vector of sessions.
LEMMA TweakEffect ==
    ASSUME Table, NEW k \in DOMAIN sessions, NEW t \in Session,
           t.id = sessions[k].id, t.owns = sessions[k].owns,
           t.service = sessions[k].service,
           sessions' = [sessions EXCEPT ![k] = t],
           nextSession' = nextSession
    PROVE  Tweaked
<1>1. sessions' \in Seq(Session) /\ Len(sessions') = Len(sessions)
  BY ExceptSeq DEF Table
<1>2. \A i \in DOMAIN sessions : sessions'[i] = IF i = k THEN t ELSE sessions[i]
  OBVIOUS
<1> QED BY <1>1, <1>2 DEF Tweaked

\* A valid pointer denotes an element; find_session finds one with the id.
LEMMA EntryTyped ==
    ASSUME Table, NEW h, Open(h)
    PROVE  /\ FindSession(h).i \in DOMAIN sessions
           /\ Entry(h) = sessions[FindSession(h).i]
           /\ Entry(h) \in Session
<1>1. (CHOOSE i \in Index(h) : TRUE) \in Index(h)
  BY DEF Open
<1>2. FindSession(h).i = CHOOSE i \in Index(h) : TRUE
  BY DEF FindSession
<1>3. FindSession(h).i \in DOMAIN sessions
  BY <1>1, <1>2 DEF Index
<1>4. Entry(h) = sessions[FindSession(h).i]
  BY <1>2 DEF Entry
<1> QED BY <1>3, <1>4, ElementOfSeq DEF Table

\* Every step of every request is one of the four.
LEMMA StepEffect ==
    ASSUME Table, [Next]_vars
    PROVE  Untouched \/ Tweaked \/ Appended \/ Erased
<1>1. CASE UNCHANGED vars
  BY <1>1 DEF vars, Untouched
<1>2. ASSUME NEW c \in Client, Request(c)
      PROVE  Untouched \/ Tweaked \/ Appended \/ Erased
  <2>1. CASE ConnectToNamedPort(c)
    BY <2>1, IpcAssumption DEF ConnectToNamedPort, PushBack, Appended, Service
  <2>2. ASSUME NEW h \in given, CloseSession(c, h)
        PROVE  Erased
    BY <2>2, EntryTyped DEF CloseSession, Erased
  <2>3. ASSUME NEW h \in given, ConvertToDomain(c, h)
        PROVE  Untouched
    BY <2>3 DEF ConvertToDomain, Untouched
  <2>4. ASSUME NEW h \in given, NEW obj \in 0..MaxSessions,
               HandleRequest(c, h, obj)
        PROVE  Untouched
    BY <2>4 DEF HandleRequest, Untouched
  <2> QED BY <1>2, <2>1, <2>2, <2>3, <2>4 DEF Request
<1>3. ASSUME NEW c \in Client, Command(c)
      PROVE  Untouched \/ Tweaked \/ Appended \/ Erased
  <2>1. ASSUME NEW w \in 0..MaxSessions, ExecPlain(c, w)
        PROVE  Untouched
    BY <2>1 DEF ExecPlain, Untouched
  <2>2. ASSUME NEW n \in Named \cup {Null}, ExecGetService(c, n)
        PROVE  Appended
    BY <2>2 DEF ExecGetService, PushBack, Appended, Service
  <2>3. ASSUME NEW s \in Shared, ExecOpenShared(c, s)
        PROVE  Appended
    BY <2>3 DEF ExecOpenShared, PushBack, Appended, Service
  <2>4. ASSUME NEW f \in Fresh, ExecOpenFresh(c, f)
        PROVE  Appended
    BY <2>4 DEF ExecOpenFresh, PushBack, Appended, Service
  <2> QED BY <1>3, <2>1, <2>2, <2>3, <2>4 DEF Command
<1>4. ASSUME NEW c \in Client, Finish(c)
      PROVE  Untouched \/ Tweaked \/ Appended \/ Erased
  <2> DEFINE k == call[c].ptr.i
             o == call[c].out
  <2>1. CASE SetDomain(c)
    <3>1. CASE Valid(call[c].ptr)
      <4> DEFINE t == [sessions[k] EXCEPT !.domain = TRUE]
      <4>1. k \in DOMAIN sessions /\ sessions[k] \in Session
        BY <3>1, ElementOfSeq DEF Valid, Table
      <4>2. t \in Session /\ t.id = sessions[k].id
            /\ t.owns = sessions[k].owns /\ t.service = sessions[k].service
        BY <4>1 DEF Session
      <4>3. sessions' = [sessions EXCEPT ![k] = t] /\ nextSession' = nextSession
        BY <2>1, <3>1 DEF SetDomain
      <4> QED BY <4>1, <4>2, <4>3, TweakEffect
    <3>2. CASE ~Valid(call[c].ptr)
      BY <2>1, <3>2 DEF SetDomain, Untouched
    <3> QED BY <3>1, <3>2
  <2>2. CASE Find(c)
    BY <2>2 DEF Find, Untouched
  <2>3. CASE Route(c)
    BY <2>3 DEF Route, Untouched
  <2>4. CASE Post(c)
    BY <2>4 DEF Post, Untouched
  <2>5. CASE Bind(c)
    <3> DEFINE served == Open(o) /\ Entry(o).service # Null
    <3>1. CASE served /\ Valid(call[c].ptr)
      <4> DEFINE t == [sessions[k] EXCEPT !.objects = Append(@, Entry(o).service)]
      <4>1. k \in DOMAIN sessions /\ sessions[k] \in Session
        BY <3>1, ElementOfSeq DEF Valid, Table
      <4>2. Entry(o).service \in Service
        BY <3>1, EntryTyped DEF Session
      <4>3. Append(sessions[k].objects, Entry(o).service) \in Seq(Service)
        BY <4>1, <4>2, AppendProperties DEF Session
      <4>4. t \in Session /\ t.id = sessions[k].id
            /\ t.owns = sessions[k].owns /\ t.service = sessions[k].service
        BY <4>1, <4>3 DEF Session
      <4>5. sessions' = [sessions EXCEPT ![k] = t] /\ nextSession' = nextSession
        BY <2>5, <3>1 DEF Bind
      <4> QED BY <4>1, <4>4, <4>5, TweakEffect
    <3>2. CASE ~(served /\ Valid(call[c].ptr))
      BY <2>5, <3>2 DEF Bind, Untouched
    <3> QED BY <3>1, <3>2
  <2> QED BY <1>4, <2>1, <2>2, <2>3, <2>4, <2>5 DEF Finish
<1> QED BY <1>1, <1>2, <1>3, <1>4 DEF Next

\* The steps around a command neither open nor close a session.
LEMMA FinishEffect ==
    ASSUME Table, NEW c \in Client, Finish(c)
    PROVE  UNCHANGED <<dead, used, nextSession, cap, buf>> /\ Len(sessions') = Len(sessions)
<1>1. CASE SetDomain(c)
  BY <1>1 DEF SetDomain, Table
<1>2. CASE Find(c) \/ Route(c) \/ Post(c)
  BY <1>2 DEF Find, Route, Post
<1>3. CASE Bind(c)
  <2>1. sessions' = sessions
        \/ \E k \in DOMAIN sessions : \E t : sessions' = [sessions EXCEPT ![k] = t]
    BY <1>3 DEF Bind, Valid
  <2>2. Len(sessions') = Len(sessions)
    BY <2>1 DEF Table
  <2> QED BY <1>3, <2>2 DEF Bind
<1> QED BY <1>1, <1>2, <1>3 DEF Finish

\* The new session is a session, and joins at the end of the vector.
LEMMA AppendEffect ==
    ASSUME Table, NEW svc \in Service \cup {Null}, NEW owned \in BOOLEAN,
           nextSession <= MaxSessions,
           sessions' = Append(sessions, NewSession(svc, owned))
    PROVE  /\ sessions' \in Seq(Session)
           /\ Len(sessions') = Len(sessions) + 1
           /\ \A i \in 1..Len(sessions) : sessions'[i] = sessions[i]
           /\ sessions'[Len(sessions) + 1] = NewSession(svc, owned)
<1>1. NewSession(svc, owned) \in Session
  BY EmptySeq, IpcAssumption DEF NewSession, Session, Table, Handle
<1> QED BY <1>1, AppendProperties DEF Table

\* The vector stays a vector of sessions and its ids stay in order.
LEMMA IdsStep ==
    ASSUME Table, IdsIncrease, [Next]_vars
    PROVE  Table' /\ IdsIncrease'
<1>d. /\ DOMAIN sessions = 1..Len(sessions)
      /\ Len(sessions) \in Nat
      /\ nextSession \in Nat \ {0}
      /\ \A i \in DOMAIN sessions : sessions[i].id \in Nat
  <2>1. DOMAIN sessions = 1..Len(sessions) /\ Len(sessions) \in Nat
    BY LenProperties DEF Table
  <2>2. \A i \in DOMAIN sessions : sessions[i] \in Session
    BY <2>1, ElementOfSeq DEF Table
  <2>3. \A t \in Session : t.id \in Nat
    BY IpcAssumption DEF Session, Handle
  <2> QED BY <2>1, <2>2, <2>3 DEF Table
<1>1. CASE Untouched
  BY <1>1 DEF Untouched, Table, IdsIncrease
<1>2. CASE Tweaked
  <2>1. DOMAIN sessions' = DOMAIN sessions
    BY <1>2, <1>d, LenProperties DEF Tweaked
  <2> QED BY <1>2, <2>1 DEF Tweaked, Table, IdsIncrease
<1>3. CASE Appended
  <2>1. PICK svc \in Service \cup {Null}, owned \in BOOLEAN :
          /\ nextSession <= MaxSessions
          /\ nextSession' = nextSession + 1
          /\ sessions' = Append(sessions, NewSession(svc, owned))
    BY <1>3 DEF Appended
  <2>2. /\ sessions' \in Seq(Session)
        /\ Len(sessions') = Len(sessions) + 1
        /\ \A i \in 1..Len(sessions) : sessions'[i] = sessions[i]
        /\ sessions'[Len(sessions) + 1].id = nextSession
    <3>1. NewSession(svc, owned).id = nextSession
      BY DEF NewSession
    <3> QED BY <2>1, <3>1, AppendEffect
  <2>3. DOMAIN sessions' = 1..(Len(sessions) + 1)
    BY <2>2, LenProperties
  <2> QED BY <1>d, <2>1, <2>2, <2>3 DEF Table, IdsIncrease
<1>4. CASE Erased
  <2>1. PICK k \in 1..Len(sessions) : sessions' = RemoveAt(sessions, k)
    BY <1>4, <1>d DEF Erased
  <2>2. /\ sessions' \in Seq(Session)
        /\ Len(sessions') = Len(sessions) - 1
        /\ \A i \in 1..(Len(sessions) - 1) :
             sessions'[i] = IF i < k THEN sessions[i] ELSE sessions[i + 1]
    BY <2>1, RemoveAtEffect DEF Table
  <2>3. DOMAIN sessions' = 1..(Len(sessions) - 1)
    BY <2>2, LenProperties
  <2>4. nextSession' = nextSession
    BY <1>4 DEF Erased
  <2>5. ASSUME NEW i \in DOMAIN sessions', NEW j \in DOMAIN sessions', i < j
        PROVE  sessions'[i].id < sessions'[j].id
    <3> DEFINE m(x) == IF x < k THEN x ELSE x + 1
    <3>1. m(i) \in 1..Len(sessions) /\ m(j) \in 1..Len(sessions) /\ m(i) < m(j)
      BY <2>3, <2>5, <1>d
    <3>2. sessions'[i] = sessions[m(i)] /\ sessions'[j] = sessions[m(j)]
      BY <2>2, <2>3
    <3> QED BY <3>1, <3>2, <1>d DEF IdsIncrease
  <2>6. ASSUME NEW i \in DOMAIN sessions'
        PROVE  sessions'[i].id < nextSession'
    <3>1. \E x \in 1..Len(sessions) : sessions'[i] = sessions[x]
      BY <2>2, <2>3, <1>d
    <3> QED BY <3>1, <2>4, <1>d DEF IdsIncrease
  <2> QED BY <2>2, <2>4, <2>5, <2>6, <1>d DEF Table, IdsIncrease
<1> QED BY <1>1, <1>2, <1>3, <1>4, StepEffect

\* For any number of guest threads and services the ids in sessions_ are
\* strictly increasing and below next_session_, so a handle denotes at most
\* one session and is never given out twice.
THEOREM IdsUnique == Spec => []IdsIncrease
<1>1. Init => Table /\ IdsIncrease
  BY EmptySeq DEF Init, Table, IdsIncrease
<1>2. Table /\ IdsIncrease /\ [Next]_vars => Table' /\ IdsIncrease'
  BY IdsStep
<1> QED BY <1>1, <1>2, PTL DEF Spec

-----------------------------------------------------------------------------
(* Ownership of the objects that commands allocate.                        *)

\* A session that owns an allocated object.
Owner(s) == s.owns /\ s.service \in Fresh

\* The strengthening of OneOwner: an owned service was allocated for the
\* session that owns it, and is neither deleted nor owned elsewhere.  A fresh
\* object is taken from outside `used', so its owner is the first one.
OwnedFresh ==
    /\ \A i \in DOMAIN sessions : sessions[i].owns => sessions[i].service # Null
    /\ \A i \in DOMAIN sessions : Owner(sessions[i]) =>
         sessions[i].service \in used \ dead
    /\ \A i, j \in DOMAIN sessions :
         Owner(sessions[i]) /\ Owner(sessions[j])
           /\ sessions[i].service = sessions[j].service => i = j
    /\ dead \cap Fresh \subseteq used
    /\ used \subseteq Fresh

\* A session that is no owner can join without changing who owns what, and a
\* fresh object's session can join if the object was never used.
LEMMA JoinStep ==
    ASSUME Table, OwnedFresh,
           NEW svc \in Service \cup {Null}, NEW owned \in BOOLEAN,
           nextSession <= MaxSessions,
           sessions' = Append(sessions, NewSession(svc, owned)),
           dead' = dead, owned => svc # Null,
           \/ (owned = FALSE \/ svc \notin Fresh) /\ used' = used
           \/ svc \in Fresh \ used /\ used' = used \cup {svc}
    PROVE  OwnedFresh'
<1>1. /\ sessions' \in Seq(Session)
      /\ Len(sessions') = Len(sessions) + 1
      /\ \A i \in 1..Len(sessions) : sessions'[i] = sessions[i]
      /\ sessions'[Len(sessions) + 1] = NewSession(svc, owned)
  BY AppendEffect
<1>2. /\ DOMAIN sessions = 1..Len(sessions)
      /\ Len(sessions) \in Nat
      /\ DOMAIN sessions' = 1..(Len(sessions) + 1)
  BY <1>1, LenProperties DEF Table
<1>3. NewSession(svc, owned).owns = owned /\ NewSession(svc, owned).service = svc
  BY DEF NewSession
<1> HIDE DEF NewSession
<1>4. ASSUME NEW i \in DOMAIN sessions', Owner(sessions'[i])
      PROVE  sessions'[i].service \in used' \ dead'
  <2>1. CASE i \in DOMAIN sessions
    BY <1>1, <1>2, <1>4, <2>1 DEF OwnedFresh, Owner
  <2>2. CASE i = Len(sessions) + 1
    BY <1>1, <1>3, <1>4, <2>2 DEF OwnedFresh, Owner
  <2> QED BY <1>2, <2>1, <2>2
<1>5. ASSUME NEW i \in DOMAIN sessions', NEW j \in DOMAIN sessions',
             Owner(sessions'[i]), Owner(sessions'[j]),
             sessions'[i].service = sessions'[j].service
      PROVE  i = j
  <2>1. CASE i \in DOMAIN sessions /\ j \in DOMAIN sessions
    BY <1>1, <1>2, <1>5, <2>1 DEF OwnedFresh, Owner
  <2>2. CASE i = Len(sessions) + 1 /\ j \in DOMAIN sessions
    BY <1>1, <1>2, <1>3, <1>5, <2>2 DEF OwnedFresh, Owner
  <2>3. CASE i \in DOMAIN sessions /\ j = Len(sessions) + 1
    BY <1>1, <1>2, <1>3, <1>5, <2>3 DEF OwnedFresh, Owner
  <2> QED BY <1>2, <2>1, <2>2, <2>3
<1>6. dead' \cap Fresh \subseteq used' /\ used' \subseteq Fresh
  BY DEF OwnedFresh, Owner
<1>7. ASSUME NEW i \in DOMAIN sessions', sessions'[i].owns
      PROVE  sessions'[i].service # Null
  <2>1. CASE i \in DOMAIN sessions
    BY <1>1, <1>2, <1>7, <2>1 DEF OwnedFresh
  <2>2. CASE i = Len(sessions) + 1
    BY <1>1, <1>3, <1>7, <2>2
  <2> QED BY <1>2, <2>1, <2>2
<1> QED BY <1>4, <1>5, <1>6, <1>7 DEF OwnedFresh, Owner

\* Closing deletes at most the closed session's service, which no other
\* session owns.
LEMMA CloseStep ==
    ASSUME Table, OwnedFresh,
           NEW c \in Client, NEW h, CloseSession(c, h)
    PROVE  OwnedFresh'
<1> DEFINE k == FindSession(h).i
           n == Len(sessions)
<1>1. k \in DOMAIN sessions /\ Entry(h) = sessions[k] /\ Entry(h) \in Session
  BY EntryTyped DEF CloseSession
<1>2. DOMAIN sessions = 1..n /\ n \in Nat
  BY LenProperties DEF Table
<1>3. sessions' = RemoveAt(sessions, k) /\ used' = used
  BY DEF CloseSession
<1> HIDE DEF k
<1>4. /\ sessions' \in Seq(Session)
      /\ Len(sessions') = n - 1
      /\ \A i \in 1..(n - 1) :
           sessions'[i] = IF i < k THEN sessions[i] ELSE sessions[i + 1]
  BY <1>1, <1>2, <1>3, RemoveAtEffect DEF Table
<1>5. DOMAIN sessions' = 1..(n - 1)
  BY <1>4, LenProperties
<1> DEFINE m(x) == IF x < k THEN x ELSE x + 1
<1>6. ASSUME NEW x \in DOMAIN sessions'
      PROVE  /\ m(x) \in DOMAIN sessions
             /\ m(x) # k
             /\ sessions'[x] = sessions[m(x)]
  BY <1>1, <1>2, <1>4, <1>5
<1>7. /\ sessions[k].owns => dead' \cap Fresh \subseteq dead \cup {sessions[k].service}
      /\ ~sessions[k].owns => dead' = dead
  <2>1. CASE sessions[k].owns
    <3>1. dead' = dead \cup {sessions[k].service} \cup Parts[sessions[k].service]
      BY <1>1, <2>1 DEF CloseSession
    <3>2. sessions[k].service \in Service
      BY <1>1, <2>1 DEF OwnedFresh, Session
    <3> QED BY <2>1, <3>1, <3>2, IpcAssumption
  <2>2. CASE ~sessions[k].owns
    BY <1>1, <2>2 DEF CloseSession
  <2> QED BY <2>1, <2>2
<1>8. ASSUME NEW i \in DOMAIN sessions', Owner(sessions'[i])
      PROVE  sessions'[i].service \in used' \ dead'
  <2>1. Owner(sessions[m(i)]) /\ m(i) \in DOMAIN sessions /\ m(i) # k
    BY <1>6, <1>8
  <2>2. sessions[m(i)].service \in used \ dead /\ sessions[m(i)].service \in Fresh
    BY <2>1 DEF OwnedFresh, Owner
  <2>3. sessions[k].owns => sessions[m(i)].service # sessions[k].service
    BY <1>1, <2>1 DEF OwnedFresh, Owner
  <2> QED BY <1>3, <1>6, <1>7, <2>2, <2>3
<1>9. ASSUME NEW i \in DOMAIN sessions', NEW j \in DOMAIN sessions',
             Owner(sessions'[i]), Owner(sessions'[j]),
             sessions'[i].service = sessions'[j].service
      PROVE  i = j
  <2>1. m(i) = m(j)
    BY <1>6, <1>9 DEF OwnedFresh
  <2> QED BY <1>2, <1>5, <2>1, <1>1
<1>10. dead' \cap Fresh \subseteq used' /\ used' \subseteq Fresh
  <2>1. CASE sessions[k].owns
    <3>1. sessions[k].service \in Fresh => sessions[k].service \in used
      BY <1>1, <2>1 DEF OwnedFresh, Owner
    <3> QED BY <1>3, <1>7, <2>1, <3>1 DEF OwnedFresh
  <2>2. CASE ~sessions[k].owns
    BY <1>3, <1>7, <2>2 DEF OwnedFresh
  <2> QED BY <2>1, <2>2
<1>11. \A i \in DOMAIN sessions' : sessions'[i].owns => sessions'[i].service # Null
  BY <1>6 DEF OwnedFresh
<1> QED BY <1>8, <1>9, <1>10, <1>11 DEF OwnedFresh

\* Each action preserves who owns what.
LEMMA OwnerStep ==
    ASSUME Table, OwnedFresh, [Next]_vars
    PROVE  OwnedFresh'
<1> DEFINE Quiet == UNCHANGED <<dead, used>> /\ (Untouched \/ Tweaked)
<1>1. CASE Quiet
  <2>1. CASE Untouched
    BY <1>1, <2>1 DEF Untouched, OwnedFresh
  <2>2. CASE Tweaked
    <3>1. DOMAIN sessions' = DOMAIN sessions
      BY <2>2, LenProperties DEF Tweaked, Table
    <3> QED BY <1>1, <2>2, <3>1 DEF Tweaked, OwnedFresh, Owner
  <2> QED BY <1>1, <2>1, <2>2
<1> HIDE DEF Quiet
<1>2. CASE UNCHANGED vars
  BY <1>1, <1>2 DEF vars, Untouched, Quiet
<1>3. ASSUME NEW c \in Client, Request(c)
      PROVE  OwnedFresh'
  <2>1. CASE ConnectToNamedPort(c)
    BY <2>1, JoinStep, IpcAssumption DEF ConnectToNamedPort, PushBack, Service
  <2>2. ASSUME NEW h \in given, CloseSession(c, h)
        PROVE  OwnedFresh'
    BY <2>2, CloseStep
  <2>3. ASSUME NEW h \in given, ConvertToDomain(c, h)
        PROVE  OwnedFresh'
    BY <1>1, <2>3 DEF ConvertToDomain, Untouched, Quiet
  <2>4. ASSUME NEW h \in given, NEW obj \in 0..MaxSessions,
               HandleRequest(c, h, obj)
        PROVE  OwnedFresh'
    BY <1>1, <2>4 DEF HandleRequest, Untouched, Quiet
  <2> QED BY <1>3, <2>1, <2>2, <2>3, <2>4 DEF Request
<1>4. ASSUME NEW c \in Client, Command(c)
      PROVE  OwnedFresh'
  <2>1. ASSUME NEW w \in 0..MaxSessions, ExecPlain(c, w)
        PROVE  OwnedFresh'
    BY <1>1, <2>1 DEF ExecPlain, Untouched, Quiet
  <2>2. ASSUME NEW n \in Named \cup {Null}, ExecGetService(c, n)
        PROVE  OwnedFresh'
    BY <2>2, JoinStep DEF ExecGetService, PushBack, Service
  <2>3. ASSUME NEW f \in Fresh, ExecOpenFresh(c, f)
        PROVE  OwnedFresh'
    <3>1. f \in Service \cup {Null} /\ f # Null /\ f \in Fresh \ used
      BY <2>3, IpcAssumption DEF ExecOpenFresh, Service
    <3>2. /\ nextSession <= MaxSessions
          /\ sessions' = Append(sessions, NewSession(f, TRUE))
          /\ dead' = dead /\ used' = used \cup {f}
      BY <2>3 DEF ExecOpenFresh, PushBack
    <3> QED BY <3>1, <3>2, JoinStep
  <2>4. ASSUME NEW s \in Shared, ExecOpenShared(c, s)
        PROVE  OwnedFresh'
    BY <2>4, JoinStep, IpcAssumption DEF ExecOpenShared, PushBack, Service
  <2> QED BY <1>4, <2>1, <2>2, <2>3, <2>4 DEF Command
<1>5. ASSUME NEW c \in Client, Finish(c), UNCHANGED overlapped
      PROVE  OwnedFresh'
  <2>1. UNCHANGED <<dead, used, nextSession>>
    BY <1>5, FinishEffect
  <2>2. Untouched \/ Tweaked \/ Appended \/ Erased
    BY <1>5, StepEffect DEF Next
  <2>3. ~Appended
    BY <2>1 DEF Appended, Table
  <2>4. ~Erased
    <3>1. Len(sessions') = Len(sessions)
      BY <1>5, FinishEffect
    <3>2. ASSUME NEW k \in DOMAIN sessions, sessions' = RemoveAt(sessions, k)
          PROVE  FALSE
      BY <3>1, <3>2, RemoveAtEffect, LenProperties DEF Table
    <3> QED BY <3>2 DEF Erased
  <2> QED BY <1>1, <2>1, <2>2, <2>3, <2>4 DEF Quiet
<1> QED BY <1>2, <1>3, <1>4, <1>5 DEF Next

\* An object that a command allocated for its session, as HidService does, has
\* one owner and is not deleted twice, however the requests of any number of
\* guest threads interleave.
THEOREM OwnersExclusive == Spec => []OneOwner
<1>1. Init => Table /\ IdsIncrease /\ OwnedFresh
  BY EmptySeq DEF Init, Table, IdsIncrease, OwnedFresh
<1>2. Table /\ IdsIncrease /\ OwnedFresh /\ [Next]_vars
      => Table' /\ IdsIncrease' /\ OwnedFresh'
  BY IdsStep, OwnerStep
<1>3. OwnedFresh => OneOwner
  BY DEF OwnedFresh, OneOwner, Owner
<1> QED BY <1>1, <1>2, <1>3, PTL DEF Spec
-----------------------------------------------------------------------------
(* Types.                                                                  *)

\* A command that opened a session leaves its handle in call[c].out.
Answering(c) == call[c].pc \in {"post", "bind"} /\ call[c].made

\* The strengthening of TypeOK: an allocation and an element of the vector
\* were paid for with a number of next_session_, and the handle in an answer
\* was given a number, so that none of them leaves its range.
IpcType ==
    /\ TypeOK
    /\ buf < nextSession
    /\ Len(sessions) < nextSession
    /\ \A c \in Client : Answering(c) => call[c].out \in 1..(nextSession - 1)

RequestState == [pc: Pcs, h: 0..MaxSessions, dom: BOOLEAN,
                 obj: 0..MaxSessions, ptr: Pointer,
                 svc: Service \cup {Null}, out: 0..MaxSessions,
                 made: BOOLEAN]

\* The vector grows by a session, or keeps its place and does not grow.
Grown == \E svc \in Service \cup {Null}, owned \in BOOLEAN :
             PushBack(NewSession(svc, owned))

Steady == /\ UNCHANGED <<nextSession, cap, buf>>
          /\ Len(sessions') <= Len(sessions)

LEMMA PlaceEffect ==
    ASSUME Table, [Next]_vars
    PROVE  Grown \/ Steady
<1>1. DOMAIN sessions = 1..Len(sessions) /\ Len(sessions) \in Nat
  BY LenProperties DEF Table
<1>2. ASSUME UNCHANGED <<sessions, nextSession, cap, buf>>
      PROVE  Steady
  BY <1>1, <1>2 DEF Steady
<1>3. CASE UNCHANGED vars
  BY <1>2, <1>3 DEF vars
<1>4. ASSUME NEW c \in Client, Request(c)
      PROVE  Grown \/ Steady
  <2>1. CASE ConnectToNamedPort(c)
    BY <2>1, IpcAssumption DEF ConnectToNamedPort, Grown, Service
  <2>2. ASSUME NEW h \in given, CloseSession(c, h)
        PROVE  Steady
    <3>1. FindSession(h).i \in 1..Len(sessions)
          /\ sessions' = RemoveAt(sessions, FindSession(h).i)
          /\ UNCHANGED <<nextSession, cap, buf>>
      BY <1>1, <2>2, EntryTyped DEF CloseSession
    <3>2. Len(sessions') = Len(sessions) - 1
      BY <3>1, RemoveAtEffect DEF Table
    <3> QED BY <1>1, <3>1, <3>2 DEF Steady
  <2>3. ASSUME NEW h \in given, ConvertToDomain(c, h)
        PROVE  Steady
    BY <1>2, <2>3 DEF ConvertToDomain
  <2>4. ASSUME NEW h \in given, NEW obj \in 0..MaxSessions,
               HandleRequest(c, h, obj)
        PROVE  Steady
    BY <1>2, <2>4 DEF HandleRequest
  <2> QED BY <1>4, <2>1, <2>2, <2>3, <2>4 DEF Request
<1>5. ASSUME NEW c \in Client, Command(c)
      PROVE  Grown \/ Steady
  <2>1. ASSUME NEW w \in 0..MaxSessions, ExecPlain(c, w)
        PROVE  Steady
    BY <1>2, <2>1 DEF ExecPlain
  <2>2. ASSUME NEW n \in Named \cup {Null}, ExecGetService(c, n)
        PROVE  Grown
    BY <2>2 DEF ExecGetService, Grown, Service
  <2>3. ASSUME NEW s \in Shared, ExecOpenShared(c, s)
        PROVE  Grown
    BY <2>3 DEF ExecOpenShared, Grown, Service
  <2>4. ASSUME NEW f \in Fresh, ExecOpenFresh(c, f)
        PROVE  Grown
    BY <2>4 DEF ExecOpenFresh, Grown, Service
  <2> QED BY <1>5, <2>1, <2>2, <2>3, <2>4 DEF Command
<1>6. ASSUME NEW c \in Client, Finish(c)
      PROVE  Steady
  <2>1. UNCHANGED <<nextSession, cap, buf>> /\ Len(sessions') = Len(sessions)
    BY <1>6, FinishEffect
  <2> QED BY <1>1, <2>1 DEF Steady
<1> QED BY <1>3, <1>4, <1>5, <1>6 DEF Next

\* The vector's counters stay in their ranges.
LEMMA VectorTyped ==
    ASSUME IpcType, IdsIncrease, [Next]_vars
    PROVE  /\ sessions' \in Seq(Session)
           /\ Len(sessions') <= cap' /\ Len(sessions') < nextSession'
           /\ nextSession' \in 1..(MaxSessions + 1) /\ nextSession <= nextSession'
           /\ cap' \in Nat /\ buf' \in 0..MaxSessions /\ buf' < nextSession'
<1>1. Table
  BY IpcAssumption DEF IpcType, TypeOK, Table
<1>2. /\ Len(sessions) \in Nat /\ Len(sessions) <= cap /\ Len(sessions) < nextSession
      /\ nextSession \in 1..(MaxSessions + 1) /\ MaxSessions \in Nat
      /\ cap \in Nat /\ buf \in 0..MaxSessions /\ buf < nextSession
  BY LenProperties, IpcAssumption DEF IpcType, TypeOK
<1>3. sessions' \in Seq(Session) /\ Len(sessions') \in Nat
  BY <1>1, IdsStep, LenProperties DEF Table
<1>4. CASE Steady
  BY <1>2, <1>3, <1>4 DEF Steady
<1>5. CASE Grown
  <2>1. PICK svc \in Service \cup {Null}, owned \in BOOLEAN :
          PushBack(NewSession(svc, owned))
    BY <1>5 DEF Grown
  <2>2. Len(sessions') = Len(sessions) + 1
    BY <1>1, <2>1, AppendEffect DEF PushBack
  <2> QED BY <1>2, <1>3, <2>1, <2>2 DEF PushBack
<1> QED BY <1>1, <1>4, <1>5, PlaceEffect

\* A lookup gives a pointer, and a handle in use is a number.
LEMMA PointerTyped ==
    ASSUME IpcType, NEW h, Open(h)
    PROVE  FindSession(h) \in Pointer /\ FindSession(h) = [buf |-> buf, i |-> FindSession(h).i]
<1>1. Table
  BY IpcAssumption DEF IpcType, TypeOK, Table
<1>2. FindSession(h).i \in 1..Len(sessions)
  BY <1>1, EntryTyped, LenProperties DEF Table
<1>3. Len(sessions) \in Nat /\ Len(sessions) <= MaxSessions /\ MaxSessions \in Nat
      /\ buf \in 0..MaxSessions
  BY LenProperties, IpcAssumption DEF IpcType, TypeOK
<1>4. FindSession(h) = [buf |-> buf, i |-> FindSession(h).i]
  BY DEF FindSession
<1> QED BY <1>2, <1>3, <1>4 DEF Pointer

\* A step that changes the request of one thread.
CallSet(c, r) == call' = [call EXCEPT ![c] = r]

LEMMA CallTyped ==
    ASSUME IpcType, IdsIncrease, [Next]_vars, NEW c \in Client, NEW r \in RequestState,
           CallSet(c, r),
           r.pc \in {"post", "bind"} /\ r.made => r.out \in 1..(nextSession' - 1)
    PROVE  /\ call' \in [Client -> RequestState]
           /\ \A d \in Client : Answering(d)' => call'[d].out \in 1..(nextSession' - 1)
<1>1. call \in [Client -> RequestState]
  BY DEF IpcType, TypeOK, RequestState
<1>2. nextSession \in Nat /\ nextSession' \in Nat /\ nextSession <= nextSession'
  BY VectorTyped, IpcAssumption DEF IpcType, TypeOK
<1>3. \A d \in Client : call'[d] = IF d = c THEN r ELSE call[d]
  BY <1>1 DEF CallSet
<1>4. call' \in [Client -> RequestState]
  BY <1>1 DEF CallSet
<1>5. ASSUME NEW d \in Client, Answering(d)'
      PROVE  call'[d].out \in 1..(nextSession' - 1)
  <2>1. CASE d = c
    BY <1>3, <1>5, <2>1 DEF Answering
  <2>2. CASE d # c
    <3>1. call[d].out \in 1..(nextSession - 1)
      BY <1>3, <1>5, <2>2 DEF Answering, IpcType
    <3> QED BY <1>2, <1>3, <2>2, <3>1
  <2> QED BY <2>1, <2>2
<1> QED BY <1>4, <1>5

\* What each step of a request leaves in call[c].
LEMMA RequestEffect ==
    ASSUME IpcType, [Next]_vars, call' # call
    PROVE  \E c \in Client, r \in RequestState :
             /\ CallSet(c, r)
             /\ r.pc \in {"post", "bind"} /\ r.made => r.out \in 1..(nextSession' - 1)
<1> DEFINE Set(c, r) == /\ r \in RequestState
                        /\ CallSet(c, r)
                        /\ r.pc \in {"post", "bind"} /\ r.made => r.out \in 1..(nextSession' - 1)
<1>1. /\ MaxSessions \in Nat /\ nextSession \in 1..(MaxSessions + 1)
      /\ call \in [Client -> RequestState]
      /\ given \subseteq 1..(nextSession - 1)
      /\ \A c \in Client : Answering(c) => call[c].out \in 1..(nextSession - 1)
  BY IpcAssumption DEF IpcType, TypeOK, RequestState
<1>2. Table
  BY IpcAssumption DEF IpcType, TypeOK, Table
<1>3. Idle \in RequestState /\ Idle.pc = "idle"
  BY <1>1 DEF Idle, RequestState, Pcs, NullPtr, Pointer
<1>4. ASSUME NEW c \in Client, call' = [call EXCEPT ![c] = Idle]
      PROVE  Set(c, Idle)
  BY <1>3, <1>4 DEF CallSet
<1>5. ASSUME NEW c \in Client, Request(c)
      PROVE  \E r \in RequestState : Set(c, r)
  <2>1. ASSUME NEW h \in given, ConvertToDomain(c, h)
        PROVE  \E r \in RequestState : Set(c, r)
    <3> DEFINE r == [Idle EXCEPT !.pc = "setDomain", !.h = h, !.ptr = FindSession(h)]
    <3>1. FindSession(h) \in Pointer /\ h \in 0..MaxSessions
      BY <1>1, <2>1, PointerTyped DEF ConvertToDomain
    <3>2. r \in RequestState /\ r.pc = "setDomain"
      BY <1>3, <3>1 DEF RequestState, Pcs
    <3>3. CallSet(c, r)
      BY <2>1 DEF ConvertToDomain, CallSet
    <3> QED BY <3>2, <3>3
  <2>2. ASSUME NEW h \in given, NEW obj \in 0..MaxSessions, HandleRequest(c, h, obj)
        PROVE  \E r \in RequestState : Set(c, r)
    <3> DEFINE r == [Idle EXCEPT !.pc = "find", !.h = h, !.dom = Entry(h).domain,
                                 !.obj = IF Entry(h).domain THEN obj ELSE 0]
    <3>1. Entry(h).domain \in BOOLEAN /\ h \in 0..MaxSessions
      BY <1>1, <1>2, <2>2, EntryTyped DEF HandleRequest, Session
    <3>2. (IF Entry(h).domain THEN obj ELSE 0) \in 0..MaxSessions
      BY <1>1
    <3>3. r \in RequestState /\ r.pc = "find"
      BY <1>3, <3>1, <3>2 DEF RequestState, Pcs
    <3>4. CallSet(c, r)
      BY <2>2 DEF HandleRequest, CallSet
    <3> QED BY <3>3, <3>4
  <2> QED BY <1>5, <2>1, <2>2 DEF Request, ConnectToNamedPort, CloseSession
<1>6. ASSUME NEW c \in Client, Command(c)
      PROVE  \E r \in RequestState : Set(c, r)
  <2>1. ASSUME NEW w \in 0..MaxSessions, ExecPlain(c, w), w = 0
        PROVE  \E r \in RequestState : Set(c, r)
    BY <1>3, <1>4, <2>1 DEF ExecPlain
  <2>3. ASSUME NEW w \in 0..MaxSessions, ExecPlain(c, w), w # 0
        PROVE  \E r \in RequestState : Set(c, r)
    <3> DEFINE r == [call[c] EXCEPT !.pc = "post", !.out = w, !.made = FALSE, !.svc = Null]
    <3>1. call[c] \in RequestState
      BY <1>1
    <3>2. r \in RequestState /\ ~r.made
      BY <3>1 DEF RequestState, Pcs
    <3>3. CallSet(c, r)
      BY <1>1, <2>3 DEF ExecPlain, CallSet
    <3> QED BY <3>2, <3>3
  <2>2. CASE \A w \in 0..MaxSessions : ~ExecPlain(c, w)
    <3> DEFINE r == [call[c] EXCEPT !.pc = "post", !.out = nextSession, !.made = TRUE,
                                    !.svc = Null]
    <3>1. Answer(c) /\ nextSession <= MaxSessions /\ nextSession' = nextSession + 1
      BY <1>6, <2>2 DEF Command, ExecGetService, ExecOpenShared, ExecOpenFresh, PushBack
    <3>a. nextSession \in 0..MaxSessions /\ call[c] \in RequestState
      BY <1>1, <3>1
    <3>2. r \in RequestState /\ r.out = nextSession
      BY <3>a DEF RequestState, Pcs
    <3>3. CallSet(c, r)
      BY <1>1, <3>1 DEF Answer, CallSet
    <3>4. nextSession \in 1..(nextSession' - 1)
      BY <1>1, <3>1
    <3> QED BY <3>2, <3>3, <3>4
  <2> QED BY <2>1, <2>2, <2>3
<1>7. ASSUME NEW c \in Client, Finish(c)
      PROVE  \E r \in RequestState : Set(c, r)
  <2>1. ASSUME call' = [call EXCEPT ![c] = Idle]
        PROVE  \E r \in RequestState : Set(c, r)
    BY <1>3, <1>4, <2>1
  <2>2. CASE SetDomain(c) \/ Bind(c)
    BY <2>1, <2>2 DEF SetDomain, Bind
  <2>3. CASE Find(c) /\ Open(call[c].h)
    <3> DEFINE r == [call[c] EXCEPT !.pc = "route", !.ptr = FindSession(call[c].h)]
    <3>1. FindSession(call[c].h) \in Pointer
      BY <2>3, PointerTyped
    <3>2. r \in RequestState /\ r.pc = "route"
      BY <1>1, <3>1 DEF RequestState, Pcs
    <3>3. CallSet(c, r)
      BY <1>1, <2>3 DEF Find, CallSet
    <3> QED BY <3>2, <3>3
  <2>4. CASE Find(c) /\ ~Open(call[c].h)
    BY <2>1, <2>4 DEF Find
  <2>5. CASE Route(c)
    <3> DEFINE r(svc) == [call[c] EXCEPT !.pc = "exec", !.svc = svc, !.obj = 0]
               p == call[c].ptr
    <3>1. PICK svc \in IF Valid(p) THEN {Target(sessions[p.i], call[c].obj)}
                                   ELSE Service \cup {Null} :
            call' = [call EXCEPT ![c].pc = "exec", ![c].svc = svc, ![c].obj = 0]
      BY <2>5 DEF Route
    <3>2. svc \in Service \cup {Null}
      <4>1. CASE Valid(p)
        <5>1. sessions[p.i] \in Session
          BY <1>2, <4>1, ElementOfSeq DEF Valid, Table
        <5>2. \A k \in DOMAIN sessions[p.i].objects : sessions[p.i].objects[k] \in Service
          BY <5>1, ElementOfSeq DEF Session
        <5>3. sessions[p.i].service \in Service \cup {Null}
          BY <5>1 DEF Session
        <5> QED BY <3>1, <4>1, <5>2, <5>3 DEF Target
      <4>2. CASE ~Valid(p)
        BY <3>1, <4>2
      <4> QED BY <4>1, <4>2
    <3>3. r(svc) \in RequestState /\ r(svc).pc = "exec"
      <4>1. 0 \in 0..MaxSessions /\ call[c] \in RequestState
        BY <1>1
      <4> QED BY <3>2, <4>1 DEF RequestState, Pcs
    <3>4. CallSet(c, r(svc))
      BY <1>1, <3>1 DEF CallSet
    <3> QED BY <3>3, <3>4
  <2>6. CASE Post(c)
    <3> DEFINE h == call[c].h
               r == [call[c] EXCEPT !.pc = "bind", !.ptr = FindSession(h)]
    <3>1. CASE Open(h) /\ Entry(h).domain
      <4>1. FindSession(h) \in Pointer
        BY <3>1, PointerTyped
      <4>2. r \in RequestState /\ r.pc = "bind" /\ r.out = call[c].out
            /\ r.made = call[c].made
        BY <1>1, <4>1 DEF RequestState, Pcs
      <4>3. CallSet(c, r) /\ nextSession' = nextSession
        BY <1>1, <2>6, <3>1 DEF Post, CallSet
      <4>4. call[c].made => call[c].out \in 1..(nextSession - 1)
        BY <1>1, <2>6 DEF Post, Answering
      <4> QED BY <4>2, <4>3, <4>4
    <3>2. CASE ~(Open(h) /\ Entry(h).domain)
      BY <2>1, <2>6, <3>2 DEF Post
    <3> QED BY <3>1, <3>2
  <2> QED BY <1>7, <2>2, <2>3, <2>4, <2>5, <2>6 DEF Finish
<1>8. call' # call => ~UNCHANGED vars
  BY DEF vars
<1> QED BY <1>5, <1>6, <1>7, <1>8 DEF Next

\* Numbers that were given out stay given out.
LEMMA NumbersStay ==
    ASSUME NEW m \in Nat, NEW n \in Nat, m <= n
    PROVE  1..(m - 1) \subseteq 1..(n - 1)
OBVIOUS

\* The state keeps its types.
LEMMA TypeStep ==
    ASSUME IpcType, IdsIncrease, OwnedFresh, [Next]_vars
    PROVE  IpcType'
<1>1. /\ MaxSessions \in Nat /\ nextSession \in 1..(MaxSessions + 1)
      /\ call \in [Client -> RequestState]
      /\ given \subseteq 1..(nextSession - 1)
      /\ \A c \in Client : Answering(c) => call[c].out \in 1..(nextSession - 1)
      /\ dead \subseteq Service /\ used \subseteq Fresh
      /\ misread \in BOOLEAN /\ overlapped \in BOOLEAN /\ mistaken \subseteq Service
  BY IpcAssumption DEF IpcType, TypeOK, RequestState
<1>2. Table
  BY IpcAssumption DEF IpcType, TypeOK, Table
<1>3. /\ nextSession' \in 1..(MaxSessions + 1) /\ nextSession <= nextSession'
  BY VectorTyped
<1>4. /\ call' \in [Client -> RequestState]
      /\ \A d \in Client : Answering(d)' => call'[d].out \in 1..(nextSession' - 1)
  <2>1. CASE call' = call
    <3>1. \A d \in Client : Answering(d)' => call'[d].out \in 1..(nextSession - 1)
      BY <1>1, <2>1 DEF Answering
    <3> QED BY <1>1, <1>3, <2>1, <3>1
  <2>2. CASE call' # call
    BY <2>2, RequestEffect, CallTyped
  <2> QED BY <2>1, <2>2
<1>5. given' \subseteq 1..(nextSession' - 1)
  <2>0. \A x \in given : x \in 1..(nextSession' - 1)
    <3>1. nextSession \in Nat /\ nextSession' \in Nat /\ nextSession <= nextSession'
      BY <1>1, <1>3
    <3>2. 1..(nextSession - 1) \subseteq 1..(nextSession' - 1)
      BY <3>1, NumbersStay
    <3> QED BY <1>1, <3>2
  <2>1. ASSUME NEW x \in 1..(nextSession' - 1), given' \subseteq given \cup {x}
        PROVE  given' \subseteq 1..(nextSession' - 1)
    BY <2>0, <2>1
  <2>2. ASSUME UNCHANGED given
        PROVE  given' \subseteq 1..(nextSession' - 1)
    BY <2>0, <2>2
  <2>3. ASSUME NEW c \in Client, ConnectToNamedPort(c)
        PROVE  given' \subseteq 1..(nextSession' - 1)
    <3>1. nextSession \in 1..(nextSession' - 1) /\ given' = given \cup {nextSession}
      BY <1>1, <2>3 DEF ConnectToNamedPort, PushBack
    <3> QED BY <2>1, <3>1
  <2>4. ASSUME NEW c \in Client, Post(c) \/ Bind(c)
        PROVE  given' \subseteq 1..(nextSession' - 1)
    <3>1. CASE call[c].made
      <4>1. call[c].out \in 1..(nextSession' - 1)
        BY <1>1, <2>4, <3>1 DEF Post, Bind, Answering
      <4>2. given' \subseteq given \cup {call[c].out}
        BY <2>4 DEF Post, Bind
      <4> QED BY <2>1, <4>1, <4>2
    <3>2. CASE ~call[c].made
      BY <2>2, <2>4, <3>2 DEF Post, Bind
    <3> QED BY <3>1, <3>2
  <2> QED BY <2>2, <2>3, <2>4
    DEF Next, vars, Request, Command, Finish, CloseSession, ConvertToDomain,
        HandleRequest, ExecPlain, ExecGetService, ExecOpenShared, ExecOpenFresh,
        SetDomain, Find, Route
<1>6. dead' \subseteq Service
  <2>1. ASSUME NEW c \in Client, NEW h \in given, CloseSession(c, h)
        PROVE  dead' \subseteq Service
    <3>1. Entry(h) \in Session /\ Entry(h) = sessions[FindSession(h).i]
          /\ FindSession(h).i \in DOMAIN sessions
      BY <1>2, <2>1, EntryTyped DEF CloseSession
    <3>2. CASE Entry(h).owns
      <4>1. Entry(h).service \in Service
        BY <3>1, <3>2 DEF OwnedFresh, Session
      <4>2. Parts[Entry(h).service] \subseteq Service
        BY <4>1, IpcAssumption DEF Service
      <4> QED BY <1>1, <2>1, <3>2, <4>1, <4>2 DEF CloseSession
    <3>3. CASE ~Entry(h).owns
      BY <1>1, <2>1, <3>3 DEF CloseSession
    <3> QED BY <3>2, <3>3
  <2> QED BY ZenonT(60), <1>1, <2>1
    DEF Next, vars, Request, Command, Finish, ConnectToNamedPort, ConvertToDomain,
        HandleRequest, ExecPlain, ExecGetService, ExecOpenShared, ExecOpenFresh,
        SetDomain, Find, Route, Post, Bind
<1>7. used' \subseteq Fresh
  BY <1>2, OwnerStep DEF OwnedFresh
<1>8. misread' \in BOOLEAN
  <2>1. ASSUME NEW c \in Client, SetDomain(c) \/ Route(c) \/ Bind(c)
        PROVE  misread' \in BOOLEAN
    BY <2>1, Zenon DEF SetDomain, Route, Bind
  <2> QED BY ZenonT(60), <1>1, <2>1
    DEF Next, vars, Request, Command, Finish, ConnectToNamedPort, CloseSession,
        ConvertToDomain, HandleRequest, ExecPlain, ExecGetService,
        ExecOpenShared, ExecOpenFresh, Find, Post
<1>9. overlapped' \in BOOLEAN
  <2>1. ASSUME NEW c \in Client, Request(c)
        PROVE  overlapped' \in BOOLEAN
    BY <2>1, Zenon DEF Request
  <2> QED BY <1>1, <2>1 DEF Next, vars
<1>10. mistaken' \subseteq Service
  <2>1. ASSUME NEW c \in Client, Bind(c)
        PROVE  mistaken' \subseteq Service
    <3> DEFINE o == call[c].out
    <3>1. Open(o) /\ Entry(o).service # Null => Entry(o).service \in Service
      BY <1>2, EntryTyped DEF Session
    <3> QED BY <1>1, <2>1, <3>1 DEF Bind
  <2> QED BY <1>1, <2>1 DEF Next, vars, Finish
<1> QED BY <1>4, <1>5, <1>6, <1>7, <1>8, <1>9, <1>10, VectorTyped DEF IpcType, TypeOK, RequestState

\* The tables are empty at first.
LEMMA InitTyped ==
    ASSUME Init
    PROVE  IpcType /\ IdsIncrease /\ OwnedFresh
<1>1. IdsIncrease /\ OwnedFresh
  BY DEF Init, IdsIncrease, OwnedFresh
<1>2. Idle \in RequestState /\ Idle.pc = "idle"
  BY IpcAssumption DEF Idle, RequestState, Pcs, NullPtr, Pointer
<1>3. call \in [Client -> RequestState] /\ \A c \in Client : ~Answering(c)
  BY <1>2 DEF Init, Answering
<1>4. sessions \in Seq(Session) /\ Len(sessions) = 0
  BY EmptySeq DEF Init
<1>5. misread \in BOOLEAN /\ overlapped \in BOOLEAN
  BY Zenon DEF Init
<1>6. /\ nextSession = 1 /\ nextSession \in 1..(MaxSessions + 1)
      /\ cap = 0 /\ cap \in Nat /\ buf = 0 /\ buf \in 0..MaxSessions
      /\ dead \subseteq Service /\ used \subseteq Fresh /\ mistaken \subseteq Service
      /\ given \subseteq 1..(nextSession - 1)
  BY IpcAssumption DEF Init
<1>7. TypeOK
  BY <1>3, <1>4, <1>5, <1>6 DEF TypeOK, RequestState
<1> QED BY <1>1, <1>3, <1>4, <1>6, <1>7 DEF IpcType

\* Every variable of the IPC manager keeps its type: in particular the handles
\* given to the guest are numbers that next_session_ has passed, and the vector
\* never holds more than its capacity.
THEOREM IpcTypes == Spec => []TypeOK
<1>1. Init => IpcType /\ IdsIncrease /\ OwnedFresh
  BY InitTyped
<1>2. IpcType /\ IdsIncrease /\ OwnedFresh /\ [Next]_vars
      => IpcType' /\ IdsIncrease' /\ OwnedFresh'
  <2>1. IpcType => Table
    BY IpcAssumption DEF IpcType, TypeOK, Table
  <2> QED BY <2>1, IdsStep, OwnerStep, TypeStep
<1>3. IpcType => TypeOK
  BY DEF IpcType
<1> QED BY <1>1, <1>2, <1>3, PTL DEF Spec

-----------------------------------------------------------------------------
(* Requests sent one after the other.                                      *)

\* Connect makes sessions to registered services and CreateSession owning
\* ones to all others, so a registered service is never deleted.
Origins ==
    /\ \A i \in DOMAIN sessions :
         sessions[i].service \in IF sessions[i].owns THEN Shared \cup Fresh
                                                     ELSE Named \cup {Null}
    /\ dead \subseteq Shared \cup Fresh

\* At most one request is in progress.
OneCall ==
    \A c, d \in Client : call[c].pc # "idle" /\ call[d].pc # "idle" => c = d

\* A Session* that will be used denotes the session of the request.
PointersCurrent ==
    \A c \in Client : call[c].pc \in {"setDomain", "route", "bind"} =>
                        Current(call[c].ptr, call[c].h)

\* The handle in an answer is not known to the guest yet.
AnswersNew == \A c \in Client : Answering(c) => call[c].out \notin given

\* Handle n is not among those the guest knows, nor in the answer of a request.
Unknown(n, known, requests) ==
    /\ n \notin known
    /\ \A c \in Client : requests[c].pc \in {"post", "bind"} /\ requests[c].made =>
                           requests[c].out # n

\* A fresh object that is an object of a domain is owned by a session the
\* guest does not know and so cannot close: in domain mode the reply holds
\* the object's number in place of the handle.  Objects that a domain took
\* from the number in a reply have no such owner.
HiddenOwner(x, table, known, requests) ==
    \E o \in DOMAIN table : /\ Owner(table[o]) /\ table[o].service = x
                            /\ Unknown(table[o].id, known, requests)

OwnersHidden ==
    \A i \in DOMAIN sessions : \A k \in DOMAIN sessions[i].objects :
        sessions[i].objects[k] \in Fresh \ mistaken =>
            HiddenOwner(sessions[i].objects[k], sessions, given, call)

\* The service a command is about to run in is not deleted.
TargetAlive ==
    \A c \in Client : call[c].pc = "exec" /\ call[c].svc \notin Shared \cup mistaken =>
                        call[c].svc \notin dead

\* The inductive invariant behind PointerCurrent and SerialTargetAlive.
Serial ==
    ~overlapped => /\ ~misread
                   /\ OneCall
                   /\ PointersCurrent
                   /\ AnswersNew
                   /\ OwnersHidden
                   /\ TargetAlive

IpcInv == IpcType /\ IdsIncrease /\ OwnedFresh /\ Origins /\ Serial

\* A lookup finds the session asked for.
LEMMA LookupCurrent ==
    ASSUME NEW h, Open(h)
    PROVE  Current(FindSession(h), h)
<1>1. (CHOOSE i \in Index(h) : TRUE) \in Index(h)
  BY DEF Open
<1> QED BY <1>1 DEF FindSession, Current, Valid, Index

\* A session that joins with its rightful owner keeps the origins.
LEMMA OriginsJoin ==
    ASSUME Table, Origins, NEW svc \in Service \cup {Null}, NEW owned \in BOOLEAN,
           svc \in IF owned THEN Shared \cup Fresh ELSE Named \cup {Null},
           PushBack(NewSession(svc, owned)), dead' = dead
    PROVE  Origins'
<1> DEFINE n == Len(sessions)
<1>1. /\ sessions' \in Seq(Session)
      /\ Len(sessions') = n + 1
      /\ \A i \in 1..n : sessions'[i] = sessions[i]
      /\ sessions'[n + 1] = NewSession(svc, owned)
  BY AppendEffect DEF PushBack
<1>2. DOMAIN sessions = 1..n /\ n \in Nat /\ DOMAIN sessions' = 1..(n + 1)
  BY <1>1, LenProperties DEF Table
<1>3. NewSession(svc, owned).owns = owned /\ NewSession(svc, owned).service = svc
  BY DEF NewSession
<1> HIDE DEF NewSession
<1>4. ASSUME NEW i \in DOMAIN sessions'
      PROVE  sessions'[i].service \in IF sessions'[i].owns THEN Shared \cup Fresh
                                                           ELSE Named \cup {Null}
  <2>1. CASE i = n + 1
    BY <1>1, <1>3, <2>1
  <2>2. CASE i \in 1..n
    BY <1>1, <1>2, <2>2 DEF Origins
  <2> QED BY <1>2, <2>1, <2>2
<1> QED BY <1>4 DEF Origins

LEMMA OriginsStep ==
    ASSUME Table, OwnedFresh, Origins, [Next]_vars
    PROVE  Origins'
<1>1. DOMAIN sessions = 1..Len(sessions) /\ Len(sessions) \in Nat
  BY LenProperties DEF Table
<1>2. ASSUME Untouched \/ Tweaked, dead' = dead
      PROVE  Origins'
  <2>1. DOMAIN sessions' = DOMAIN sessions
    BY <1>1, <1>2, LenProperties DEF Untouched, Tweaked
  <2>2. \A i \in DOMAIN sessions : sessions'[i].owns = sessions[i].owns
                                   /\ sessions'[i].service = sessions[i].service
    BY <1>2 DEF Untouched, Tweaked
  <2> QED BY <1>2, <2>1, <2>2 DEF Origins
<1>3. CASE UNCHANGED vars
  BY <1>2, <1>3 DEF vars, Untouched
<1>4. ASSUME NEW c \in Client, Request(c)
      PROVE  Origins'
  <2>1. CASE ConnectToNamedPort(c)
    BY <2>1, OriginsJoin, IpcAssumption DEF ConnectToNamedPort, Service
  <2>2. ASSUME NEW h \in given, CloseSession(c, h)
        PROVE  Origins'
    <3> DEFINE k == FindSession(h).i
    <3>1. k \in 1..Len(sessions) /\ Entry(h) = sessions[k]
      BY <1>1, <2>2, EntryTyped DEF CloseSession
    <3>2. sessions' = RemoveAt(sessions, k)
      BY <2>2 DEF CloseSession
    <3> HIDE DEF k
    <3>3. /\ sessions' \in Seq(Session)
          /\ Len(sessions') = Len(sessions) - 1
          /\ \A i \in 1..(Len(sessions) - 1) :
               sessions'[i] = IF i < k THEN sessions[i] ELSE sessions[i + 1]
      BY <3>1, <3>2, RemoveAtEffect DEF Table
    <3>4. DOMAIN sessions' = 1..(Len(sessions) - 1)
      BY <3>3, LenProperties
    <3>5. \A i \in DOMAIN sessions' : \E j \in DOMAIN sessions : sessions'[i] = sessions[j]
      BY SMTT(20), <1>1, <3>1, <3>3, <3>4
    <3>6. dead' \subseteq Shared \cup Fresh
      <4>1. CASE sessions[k].owns
        <5>1. sessions[k].service \in Shared \cup Fresh
          BY <1>1, <3>1, <4>1 DEF Origins
        <5>2. Parts[sessions[k].service] \subseteq Shared
          BY <5>1, IpcAssumption DEF Service
        <5> QED BY <2>2, <3>1, <4>1, <5>1, <5>2 DEF CloseSession, Origins
      <4>2. CASE ~sessions[k].owns
        BY <2>2, <3>1, <4>2 DEF CloseSession, Origins
      <4> QED BY <4>1, <4>2
    <3> QED BY <3>5, <3>6 DEF Origins
  <2>3. ASSUME NEW h \in given, ConvertToDomain(c, h)
        PROVE  Origins'
    BY <1>2, <2>3 DEF ConvertToDomain, Untouched
  <2>4. ASSUME NEW h \in given, NEW obj \in 0..MaxSessions,
               HandleRequest(c, h, obj)
        PROVE  Origins'
    BY <1>2, <2>4 DEF HandleRequest, Untouched
  <2> QED BY <1>4, <2>1, <2>2, <2>3, <2>4 DEF Request
<1>5. ASSUME NEW c \in Client, Command(c)
      PROVE  Origins'
  <2>1. ASSUME NEW w \in 0..MaxSessions, ExecPlain(c, w)
        PROVE  Origins'
    BY <1>2, <2>1 DEF ExecPlain, Untouched
  <2>2. ASSUME NEW n \in Named \cup {Null}, ExecGetService(c, n)
        PROVE  Origins'
    BY <2>2, OriginsJoin DEF ExecGetService, Service
  <2>3. ASSUME NEW s \in Shared, ExecOpenShared(c, s)
        PROVE  Origins'
    BY <2>3, OriginsJoin DEF ExecOpenShared, Service
  <2>4. ASSUME NEW f \in Fresh, ExecOpenFresh(c, f)
        PROVE  Origins'
    BY <2>4, OriginsJoin DEF ExecOpenFresh, Service
  <2> QED BY <1>5, <2>1, <2>2, <2>3, <2>4 DEF Command
<1>6. ASSUME NEW c \in Client, Finish(c), UNCHANGED overlapped
      PROVE  Origins'
  <2>1. dead' = dead /\ nextSession' = nextSession /\ Len(sessions') = Len(sessions)
    BY <1>6, FinishEffect
  <2>2. ~Appended
    BY <2>1 DEF Appended, Table
  <2>3. ~Erased
    <3>1. ASSUME NEW k \in DOMAIN sessions, sessions' = RemoveAt(sessions, k)
          PROVE  FALSE
      BY <1>1, <2>1, <3>1, RemoveAtEffect DEF Table
    <3> QED BY <3>1 DEF Erased
  <2> QED BY <1>2, <1>6, <2>1, <2>2, <2>3, StepEffect DEF Next
<1> QED BY <1>3, <1>4, <1>5, <1>6 DEF Next

\* Whatever an open session routes a request to is alive.
LEMMA TargetsLive ==
    ASSUME Table, OwnedFresh, Origins, OwnersHidden,
           NEW i \in DOMAIN sessions, NEW obj,
           Target(sessions[i], obj) \notin Shared \cup mistaken
    PROVE  Target(sessions[i], obj) \notin dead
<1> DEFINE t == Target(sessions[i], obj)
<1>1. sessions[i] \in Session
  BY ElementOfSeq DEF Table
<1>2. ASSUME NEW j \in DOMAIN sessions, sessions[j].service \in Fresh
      PROVE  sessions[j].service \notin dead
  <2>1. Owner(sessions[j])
    BY <1>2, IpcAssumption DEF Owner, Origins, Service
  <2> QED BY <2>1 DEF OwnedFresh
<1>3. t \in Fresh => t \notin dead
  <2>1. CASE sessions[i].domain /\ obj \in DOMAIN sessions[i].objects
    <3>1. t = sessions[i].objects[obj]
      BY <2>1 DEF Target
    <3>2. t \in Fresh \ mistaken => HiddenOwner(t, sessions, given, call)
      BY <2>1, <3>1 DEF OwnersHidden
    <3> QED BY <1>2, <3>2 DEF HiddenOwner
  <2>2. CASE ~(sessions[i].domain /\ obj \in DOMAIN sessions[i].objects)
    <3>1. t = sessions[i].service
      BY <2>2 DEF Target
    <3> QED BY <1>2, <3>1
  <2> QED BY <2>1, <2>2
<1> QED BY <1>3 DEF Origins

\* When all other threads are idle, what is known of every request is what is
\* known of the one thread's.
LEMMA OneActor ==
    ASSUME IpcType, NEW c \in Client, NEW r, CallSet(c, r),
           \A d \in Client \ {c} : call[d].pc = "idle"
    PROVE  /\ call'[c] = r
           /\ \A d \in Client \ {c} : call'[d].pc = "idle"
           /\ OneCall'
           /\ (r.pc \in {"setDomain", "route", "bind"} => Current(r.ptr, r.h)')
                => PointersCurrent'
           /\ (r.pc \in {"post", "bind"} /\ r.made => r.out \notin given') => AnswersNew'
           /\ (r.pc = "exec" /\ r.svc \notin Shared \cup mistaken' => r.svc \notin dead')
                => TargetAlive'
           /\ \A n : n \notin given' /\ (r.pc \in {"post", "bind"} /\ r.made => r.out # n)
                => Unknown(n, given', call')
<1>1. \A d \in Client : call'[d] = IF d = c THEN r ELSE call[d]
  BY DEF IpcType, TypeOK, CallSet
<1>2. call'[c] = r
  BY <1>1
<1>3. \A d \in Client \ {c} : call'[d].pc = "idle"
  BY <1>1
<1>4. OneCall'
  BY <1>3 DEF OneCall
<1>5. ASSUME r.pc \in {"setDomain", "route", "bind"} => Current(r.ptr, r.h)'
      PROVE  PointersCurrent'
  <2> SUFFICES ASSUME NEW d \in Client, call'[d].pc \in {"setDomain", "route", "bind"}
               PROVE  Current(call[d].ptr, call[d].h)'
    BY DEF PointersCurrent
  <2>1. d = c
    BY <1>3
  <2> QED BY <1>2, <1>5, <2>1 DEF Current, Valid
<1>6. ASSUME r.pc \in {"post", "bind"} /\ r.made => r.out \notin given'
      PROVE  AnswersNew'
  BY <1>2, <1>3, <1>6 DEF AnswersNew, Answering
<1>7. ASSUME r.pc = "exec" /\ r.svc \notin Shared \cup mistaken' => r.svc \notin dead'
      PROVE  TargetAlive'
  BY <1>2, <1>3, <1>7 DEF TargetAlive
<1>8. ASSUME NEW n, n \notin given', r.pc \in {"post", "bind"} /\ r.made => r.out # n
      PROVE  Unknown(n, given', call')
  BY <1>2, <1>3, <1>8 DEF Unknown
<1> QED BY <1>2, <1>3, <1>4, <1>5, <1>6, <1>7, <1>8

\* Objects of domains keep their hidden owners if owners stay hidden, and if an
\* object that joins a domain has one.
LEMMA HiddenKept ==
    ASSUME OwnersHidden, mistaken \subseteq mistaken',
           \A o \in DOMAIN sessions :
             Owner(sessions[o]) /\ Unknown(sessions[o].id, given, call) =>
               HiddenOwner(sessions[o].service, sessions', given', call'),
           \A i \in DOMAIN sessions' : \A k \in DOMAIN sessions'[i].objects :
             sessions'[i].objects[k] \in Fresh \ mistaken' =>
               \/ HiddenOwner(sessions'[i].objects[k], sessions', given', call')
               \/ \E j \in DOMAIN sessions : \E l \in DOMAIN sessions[j].objects :
                    sessions'[i].objects[k] = sessions[j].objects[l]
    PROVE  OwnersHidden'
<1> SUFFICES ASSUME NEW i \in DOMAIN sessions', NEW k \in DOMAIN sessions'[i].objects,
                    sessions'[i].objects[k] \in Fresh \ mistaken'
             PROVE  HiddenOwner(sessions'[i].objects[k], sessions', given', call')
  BY DEF OwnersHidden
<1> DEFINE x == sessions'[i].objects[k]
<1>1. CASE \E j \in DOMAIN sessions : \E l \in DOMAIN sessions[j].objects :
             x = sessions[j].objects[l]
  <2>1. HiddenOwner(x, sessions, given, call)
    BY <1>1 DEF OwnersHidden
  <2>2. PICK o \in DOMAIN sessions : /\ Owner(sessions[o]) /\ sessions[o].service = x
                                     /\ Unknown(sessions[o].id, given, call)
    BY <2>1 DEF HiddenOwner
  <2> QED BY <2>2
<1> QED BY <1>1

\* A step that leaves the sessions alone.
LEMMA HiddenUntouched ==
    ASSUME OwnersHidden, sessions' = sessions, mistaken' = mistaken,
           \A o \in DOMAIN sessions :
             Unknown(sessions[o].id, given, call) => Unknown(sessions[o].id, given', call')
    PROVE  OwnersHidden'
<1>1. \A o \in DOMAIN sessions :
        Owner(sessions[o]) /\ Unknown(sessions[o].id, given, call) =>
          HiddenOwner(sessions[o].service, sessions', given', call')
  BY DEF HiddenOwner
<1> QED BY <1>1, HiddenKept

\* A new session has no objects.
LEMMA HiddenJoin ==
    ASSUME Table, OwnersHidden, NEW svc \in Service \cup {Null}, NEW owned \in BOOLEAN,
           PushBack(NewSession(svc, owned)), mistaken' = mistaken,
           \A o \in DOMAIN sessions :
             Unknown(sessions[o].id, given, call) => Unknown(sessions[o].id, given', call')
    PROVE  OwnersHidden'
<1> DEFINE n == Len(sessions)
<1>1. /\ sessions' \in Seq(Session)
      /\ Len(sessions') = n + 1
      /\ \A i \in 1..n : sessions'[i] = sessions[i]
      /\ sessions'[n + 1] = NewSession(svc, owned)
  BY AppendEffect DEF PushBack
<1>2. DOMAIN sessions = 1..n /\ n \in Nat /\ DOMAIN sessions' = 1..(n + 1)
  BY <1>1, LenProperties DEF Table
<1>3. DOMAIN sessions'[n + 1].objects = {}
  BY <1>1 DEF NewSession
<1>4. \A o \in DOMAIN sessions : o \in DOMAIN sessions' /\ sessions'[o] = sessions[o]
  BY <1>1, <1>2
<1>5. \A i \in DOMAIN sessions' : i = n + 1 \/ i \in DOMAIN sessions
  BY <1>2
<1> HIDE DEF n
<1>6. \A i \in DOMAIN sessions' : \A k \in DOMAIN sessions'[i].objects :
        \E j \in DOMAIN sessions : \E l \in DOMAIN sessions[j].objects :
          sessions'[i].objects[k] = sessions[j].objects[l]
  BY <1>3, <1>4, <1>5
<1>7. \A o \in DOMAIN sessions :
        Owner(sessions[o]) /\ Unknown(sessions[o].id, given, call) =>
          HiddenOwner(sessions[o].service, sessions', given', call')
  BY <1>4 DEF HiddenOwner
<1> QED BY <1>6, <1>7, HiddenKept

\* An element that changes its domain mode or gains an object.
LEMMA HiddenTweak ==
    ASSUME Table, OwnersHidden, NEW k \in DOMAIN sessions, NEW t \in Session,
           t.id = sessions[k].id, t.owns = sessions[k].owns,
           t.service = sessions[k].service,
           sessions' = [sessions EXCEPT ![k] = t], mistaken \subseteq mistaken',
           \A o \in DOMAIN sessions :
             Unknown(sessions[o].id, given, call) => Unknown(sessions[o].id, given', call'),
           \A l \in DOMAIN t.objects : t.objects[l] \in Fresh \ mistaken' =>
             \/ HiddenOwner(t.objects[l], sessions, given', call')
             \/ \E m \in DOMAIN sessions[k].objects : t.objects[l] = sessions[k].objects[m]
    PROVE  OwnersHidden'
<1>1. DOMAIN sessions' = DOMAIN sessions
      /\ \A i \in DOMAIN sessions : sessions'[i] = IF i = k THEN t ELSE sessions[i]
  OBVIOUS
<1>2. \A i \in DOMAIN sessions : /\ sessions'[i].id = sessions[i].id
                                 /\ sessions'[i].owns = sessions[i].owns
                                 /\ sessions'[i].service = sessions[i].service
  BY <1>1
<1>3. \A x : HiddenOwner(x, sessions, given', call') => HiddenOwner(x, sessions', given', call')
  BY <1>1, <1>2 DEF HiddenOwner, Owner
<1>4. \A o \in DOMAIN sessions :
        Owner(sessions[o]) /\ Unknown(sessions[o].id, given, call) =>
          HiddenOwner(sessions[o].service, sessions', given', call')
  BY <1>1, <1>2 DEF HiddenOwner, Owner
<1>5. \A i \in DOMAIN sessions' : \A l \in DOMAIN sessions'[i].objects :
        sessions'[i].objects[l] \in Fresh \ mistaken' =>
          \/ HiddenOwner(sessions'[i].objects[l], sessions', given', call')
          \/ \E j \in DOMAIN sessions : \E m \in DOMAIN sessions[j].objects :
               sessions'[i].objects[l] = sessions[j].objects[m]
  <2> SUFFICES ASSUME NEW i \in DOMAIN sessions', NEW l \in DOMAIN sessions'[i].objects,
                      sessions'[i].objects[l] \in Fresh \ mistaken'
               PROVE  \/ HiddenOwner(sessions'[i].objects[l], sessions', given', call')
                      \/ \E j \in DOMAIN sessions : \E m \in DOMAIN sessions[j].objects :
                           sessions'[i].objects[l] = sessions[j].objects[m]
    OBVIOUS
  <2>1. CASE i = k
    <3>1. sessions'[i] = t
      BY <1>1, <2>1
    <3> QED BY <1>3, <3>1
  <2>2. CASE i # k
    <3>1. i \in DOMAIN sessions /\ sessions'[i] = sessions[i]
      BY <1>1, <2>2
    <3> QED BY <3>1
  <2> QED BY <2>1, <2>2
<1> QED BY <1>4, <1>5, HiddenKept

\* A session the guest closes is one it knows.
LEMMA HiddenErase ==
    ASSUME IpcType, OwnersHidden, NEW c \in Client, NEW h \in given, CloseSession(c, h),
           mistaken' = mistaken
    PROVE  OwnersHidden'
<1> DEFINE k == FindSession(h).i
           n == Len(sessions)
<1>1. Table
  BY IpcAssumption DEF IpcType, TypeOK, Table
<1>2. DOMAIN sessions = 1..n /\ n \in Nat
  BY <1>1, LenProperties DEF Table
<1>3. k \in 1..n /\ sessions[k].id = h
  BY <1>2, LookupCurrent DEF CloseSession, Current, Valid
<1>4. sessions' = RemoveAt(sessions, k) /\ given' = given /\ call' = call
  BY DEF CloseSession
<1> HIDE DEF k
<1>5. /\ sessions' \in Seq(Session)
      /\ Len(sessions') = n - 1
      /\ \A i \in 1..(n - 1) :
           sessions'[i] = IF i < k THEN sessions[i] ELSE sessions[i + 1]
  BY <1>1, <1>3, <1>4, RemoveAtEffect DEF Table
<1>6. DOMAIN sessions' = 1..(n - 1)
  BY <1>5, LenProperties
<1>7. ASSUME NEW o \in DOMAIN sessions, Unknown(sessions[o].id, given, call)
      PROVE  \E q \in DOMAIN sessions' : sessions'[q] = sessions[o]
  <2>1. o # k
    BY <1>3, <1>7 DEF Unknown
  <2>2. CASE o < k
    <3>1. o \in 1..(n - 1) /\ sessions'[o] = sessions[o]
      BY <1>2, <1>3, <1>5, <2>2
    <3> QED BY <1>6, <3>1
  <2>3. CASE o > k
    <3>1. o - 1 \in 1..(n - 1) /\ ~(o - 1 < k) /\ (o - 1) + 1 = o
      BY <1>2, <1>3, <2>3
    <3>2. sessions'[o - 1] = sessions[o]
      BY <1>5, <3>1
    <3> QED BY <1>6, <3>1, <3>2
  <2> QED BY <1>2, <1>3, <2>1, <2>2, <2>3
<1>8. \A i \in DOMAIN sessions' : \E j \in DOMAIN sessions : sessions'[i] = sessions[j]
  BY <1>2, <1>3, <1>5, <1>6
<1> HIDE DEF n
<1>9. \A o \in DOMAIN sessions :
        Owner(sessions[o]) /\ Unknown(sessions[o].id, given, call) =>
          HiddenOwner(sessions[o].service, sessions', given', call')
  BY <1>4, <1>7 DEF HiddenOwner
<1>10. \A i \in DOMAIN sessions' : \A l \in DOMAIN sessions'[i].objects :
         \E j \in DOMAIN sessions : \E m \in DOMAIN sessions[j].objects :
           sessions'[i].objects[l] = sessions[j].objects[m]
  BY <1>8
<1> QED BY <1>9, <1>10, HiddenKept

\* A request is sent while no other is in progress.
LEMMA SerialRequest ==
    ASSUME IpcInv, NEW c \in Client, Request(c), UNCHANGED mistaken
    PROVE  Serial'
<1> SUFFICES ASSUME ~overlapped' PROVE ~misread' /\ OneCall' /\ PointersCurrent'
                                       /\ AnswersNew' /\ OwnersHidden' /\ TargetAlive'
  BY DEF Serial
<1>1. ~overlapped /\ \A d \in Client \ {c} : call[d].pc = "idle"
  BY DEF Request
<1>2. ~misread /\ OwnersHidden /\ call[c].pc = "idle"
  BY <1>1 DEF IpcInv, Serial, Request, ConnectToNamedPort, CloseSession,
              ConvertToDomain, HandleRequest
<1>3. Table
  BY IpcAssumption DEF IpcInv, IpcType, TypeOK, Table
<1>4. ~misread'
  BY <1>2 DEF Request, ConnectToNamedPort, CloseSession, ConvertToDomain, HandleRequest
<1>5. /\ \A d \in Client : call[d].pc = "idle"
      /\ call \in [Client -> RequestState] /\ given \subseteq 1..(nextSession - 1)
      /\ nextSession \in Nat
  BY <1>1, <1>2, IpcAssumption DEF IpcInv, IpcType, TypeOK, RequestState
<1>6. ASSUME call' = call
      PROVE  OneCall' /\ PointersCurrent' /\ AnswersNew' /\ TargetAlive'
  BY <1>5, <1>6 DEF OneCall, PointersCurrent, AnswersNew, TargetAlive, Answering
<1>7. CASE ConnectToNamedPort(c)
  <2>1. call' = call /\ given' = given \cup {nextSession} /\ PushBack(NewSession(Sm, FALSE))
    BY <1>7 DEF ConnectToNamedPort
  <2>2. ASSUME NEW o \in DOMAIN sessions, Unknown(sessions[o].id, given, call)
        PROVE  Unknown(sessions[o].id, given', call')
    <3>1. sessions[o].id # nextSession
      <4>1. sessions[o] \in Session
        BY <1>3, ElementOfSeq DEF Table
      <4>2. sessions[o].id \in Nat /\ sessions[o].id < nextSession
        BY <4>1, IpcAssumption DEF Session, Handle, IpcInv, IdsIncrease
      <4> QED BY <1>5, <4>2
    <3> QED BY <2>1, <2>2, <3>1 DEF Unknown
  <2>3. Sm \in Service \cup {Null}
    BY IpcAssumption DEF Service
  <2>4. OwnersHidden'
    BY <1>2, <1>3, <2>1, <2>2, <2>3, HiddenJoin
  <2> QED BY <1>4, <1>6, <2>1, <2>4
<1>8. ASSUME NEW h \in given, CloseSession(c, h)
      PROVE  OneCall' /\ PointersCurrent' /\ AnswersNew' /\ OwnersHidden' /\ TargetAlive'
  <2>1. call' = call
    BY <1>8 DEF CloseSession
  <2> QED BY <1>2, <1>6, <1>8, <2>1, HiddenErase DEF IpcInv
<1>9. ASSUME NEW h \in given, NEW r, CallSet(c, r), UNCHANGED <<sessions, buf, given, dead>>,
             r.pc = "find" \/ (r.pc = "setDomain" /\ Current(r.ptr, r.h))
      PROVE  OneCall' /\ PointersCurrent' /\ AnswersNew' /\ OwnersHidden' /\ TargetAlive'
  <2>1. r.pc = "setDomain" => Current(r.ptr, r.h)'
    BY <1>9 DEF Current, Valid
  <2>2. OneCall' /\ PointersCurrent' /\ AnswersNew' /\ TargetAlive'
        /\ \A n : n \notin given' => Unknown(n, given', call')
    BY <1>1, <1>9, <2>1, OneActor DEF IpcInv
  <2>3. OwnersHidden'
    BY <1>2, <1>9, <2>2, HiddenUntouched DEF Unknown
  <2> QED BY <2>2, <2>3
<1>10. ASSUME NEW h \in given, ConvertToDomain(c, h)
       PROVE  OneCall' /\ PointersCurrent' /\ AnswersNew' /\ OwnersHidden' /\ TargetAlive'
  <2> DEFINE r == [Idle EXCEPT !.pc = "setDomain", !.h = h, !.ptr = FindSession(h)]
  <2>1. r.pc = "setDomain" /\ r.h = h /\ r.ptr = FindSession(h)
    BY DEF Idle
  <2>2. CallSet(c, r) /\ UNCHANGED <<sessions, buf, given, dead>> /\ Open(h)
    BY <1>10 DEF ConvertToDomain, CallSet
  <2> HIDE DEF r
  <2> QED BY <1>9, <2>1, <2>2, LookupCurrent
<1>11. ASSUME NEW h \in given, NEW obj \in 0..MaxSessions, HandleRequest(c, h, obj)
       PROVE  OneCall' /\ PointersCurrent' /\ AnswersNew' /\ OwnersHidden' /\ TargetAlive'
  <2> DEFINE r == [Idle EXCEPT !.pc = "find", !.h = h, !.dom = Entry(h).domain,
                               !.obj = IF Entry(h).domain THEN obj ELSE 0]
  <2>1. r.pc = "find"
    BY DEF Idle
  <2>2. CallSet(c, r) /\ UNCHANGED <<sessions, buf, given, dead>>
    BY <1>11 DEF HandleRequest, CallSet
  <2> HIDE DEF r
  <2> QED BY <1>9, <2>1, <2>2
<1> QED BY <1>4, <1>7, <1>8, <1>10, <1>11 DEF Request

\* The command of the one request in progress.
LEMMA SerialCommand ==
    ASSUME IpcInv, NEW c \in Client, Command(c), UNCHANGED <<overlapped, mistaken>>
    PROVE  Serial'
<1> SUFFICES ASSUME ~overlapped' PROVE ~misread' /\ OneCall' /\ PointersCurrent'
                                       /\ AnswersNew' /\ OwnersHidden' /\ TargetAlive'
  BY DEF Serial
<1>1. ~overlapped /\ OneCall /\ OwnersHidden /\ ~misread
  BY DEF IpcInv, Serial
<1>2. \A d \in Client \ {c} : call[d].pc = "idle"
  <2>1. call[c].pc = "exec"
    BY DEF Command, ExecPlain, ExecGetService, ExecOpenShared, ExecOpenFresh
  <2> QED BY <1>1, <2>1 DEF OneCall
<1>3. Table
  BY IpcAssumption DEF IpcInv, IpcType, TypeOK, Table
<1>4. ~misread' /\ given' = given
  <2>1. UNCHANGED <<given, misread>>
    BY DEF Command, ExecPlain, ExecGetService, ExecOpenShared, ExecOpenFresh
  <2> QED BY <1>1, <2>1
<1>5. ASSUME NEW w \in 0..MaxSessions, ExecPlain(c, w)
      PROVE  ~misread' /\ OneCall' /\ PointersCurrent' /\ AnswersNew' /\ OwnersHidden'
             /\ TargetAlive'
  <2> DEFINE r == IF w = 0 THEN Idle
                  ELSE [call[c] EXCEPT !.pc = "post", !.out = w, !.made = FALSE, !.svc = Null]
  <2>0. call \in [Client -> RequestState] /\ call[c] \in RequestState
    BY DEF IpcInv, IpcType, TypeOK, RequestState
  <2>1. CallSet(c, r) /\ sessions' = sessions /\ r.pc \in {"idle", "post"} /\ ~r.made
    <3>1. CallSet(c, r) /\ sessions' = sessions
      BY <1>5, <2>0 DEF ExecPlain, CallSet
    <3>2. CASE w = 0
      BY <3>1, <3>2 DEF Idle
    <3>3. CASE w # 0
      BY <2>0, <3>1, <3>3 DEF RequestState
    <3> QED BY <3>2, <3>3
  <2> HIDE DEF r
  <2>2. OneCall' /\ PointersCurrent' /\ AnswersNew' /\ TargetAlive'
        /\ \A n : n \notin given' => Unknown(n, given', call')
    BY <1>2, <2>1, OneActor DEF IpcInv
  <2>3. OwnersHidden'
    BY <1>1, <1>4, <2>1, <2>2, HiddenUntouched DEF Unknown
  <2> QED BY <1>4, <2>2, <2>3
<1>6. CASE \A w \in 0..MaxSessions : ~ExecPlain(c, w)
  <2> DEFINE r == [call[c] EXCEPT !.pc = "post", !.out = nextSession, !.made = TRUE,
                                  !.svc = Null]
  <2>1. PICK svc \in Service \cup {Null}, owned \in BOOLEAN :
          PushBack(NewSession(svc, owned))
    BY <1>6 DEF Command, ExecGetService, ExecOpenShared, ExecOpenFresh, Service
  <2>2. call \in [Client -> RequestState] /\ given \subseteq 1..(nextSession - 1)
        /\ nextSession \in Nat
    BY IpcAssumption DEF IpcInv, IpcType, TypeOK, RequestState
  <2>3. CallSet(c, r)
    BY <1>6, <2>2 DEF Command, ExecGetService, ExecOpenShared, ExecOpenFresh, Answer, CallSet
  <2>4. r.pc = "post" /\ r.out = nextSession
    BY <2>2 DEF RequestState
  <2> HIDE DEF r
  <2>5. nextSession \notin given
    BY <2>2
  <2>6. OneCall' /\ PointersCurrent' /\ AnswersNew' /\ TargetAlive'
        /\ \A n : n \notin given' /\ n # nextSession => Unknown(n, given', call')
    BY <1>2, <1>4, <2>3, <2>4, <2>5, OneActor DEF IpcInv
  <2>7. ASSUME NEW o \in DOMAIN sessions, Unknown(sessions[o].id, given, call)
        PROVE  Unknown(sessions[o].id, given', call')
    <3>1. sessions[o] \in Session
      BY <1>3, ElementOfSeq DEF Table
    <3>2. sessions[o].id \in Nat /\ sessions[o].id < nextSession
      BY <3>1, IpcAssumption DEF Session, Handle, IpcInv, IdsIncrease
    <3>3. sessions[o].id # nextSession
      BY <2>2, <3>2
    <3> QED BY <1>4, <2>6, <2>7, <3>3 DEF Unknown
  <2>8. OwnersHidden'
    BY <1>1, <1>3, <2>1, <2>7, HiddenJoin
  <2> QED BY <1>4, <2>6, <2>8
<1> QED BY <1>5, <1>6

\* An element of a sequence that grew is the new one or was there.
LEMMA AppendElements ==
    ASSUME NEW S, NEW q \in Seq(S), NEW x \in S, NEW l \in DOMAIN Append(q, x)
    PROVE  Append(q, x)[l] = x \/ \E m \in DOMAIN q : Append(q, x)[l] = q[m]
<1>1. /\ Append(q, x) \in Seq(S) /\ Len(Append(q, x)) = Len(q) + 1
      /\ \A i \in 1..Len(q) : Append(q, x)[i] = q[i]
      /\ Append(q, x)[Len(q) + 1] = x
  BY AppendProperties
<1>2. DOMAIN q = 1..Len(q) /\ Len(q) \in Nat /\ DOMAIN Append(q, x) = 1..(Len(q) + 1)
  BY <1>1, LenProperties
<1>3. CASE l = Len(q) + 1
  BY <1>1, <1>3
<1>4. CASE l \in 1..Len(q)
  BY <1>1, <1>2, <1>4
<1> QED BY <1>2, <1>3, <1>4

\* The steps of the manager around the command.
LEMMA SerialFinish ==
    ASSUME IpcInv, NEW c \in Client, Finish(c), UNCHANGED overlapped
    PROVE  Serial'
<1> SUFFICES ASSUME ~overlapped' PROVE ~misread' /\ OneCall' /\ PointersCurrent'
                                       /\ AnswersNew' /\ OwnersHidden' /\ TargetAlive'
  BY DEF Serial
<1> DEFINE p == call[c].ptr
           h == call[c].h
           o == call[c].out
<1>1. ~overlapped /\ OneCall /\ PointersCurrent /\ AnswersNew /\ OwnersHidden /\ ~misread
  BY DEF IpcInv, Serial
<1>2. \A d \in Client \ {c} : call[d].pc = "idle"
  <2>1. call[c].pc # "idle"
    BY DEF Finish, SetDomain, Find, Route, Post, Bind
  <2> QED BY <1>1, <2>1 DEF OneCall
<1>3. Table
  BY IpcAssumption DEF IpcInv, IpcType, TypeOK, Table
<1>4. call \in [Client -> RequestState] /\ call[c] \in RequestState
  BY DEF IpcInv, IpcType, TypeOK, RequestState
<1>5. Idle.pc = "idle"
  BY DEF Idle
<1> HIDE DEF Idle
<1>6. ASSUME call' = [call EXCEPT ![c] = Idle]
      PROVE  OneCall' /\ PointersCurrent' /\ AnswersNew' /\ TargetAlive'
             /\ \A n : n \notin given' => Unknown(n, given', call')
  BY <1>2, <1>5, <1>6, OneActor DEF IpcInv, CallSet
<1>7. CASE SetDomain(c) /\ UNCHANGED mistaken
  <2> DEFINE t == [sessions[p.i] EXCEPT !.domain = TRUE]
  <2>1. Current(p, h)
    BY <1>1, <1>7 DEF SetDomain, PointersCurrent
  <2>2. p.i \in DOMAIN sessions /\ sessions[p.i] \in Session
    BY <1>3, <2>1, ElementOfSeq DEF Current, Valid, Table
  <2>3. /\ sessions' = [sessions EXCEPT ![p.i] = t] /\ ~misread' /\ given' = given
        /\ call' = [call EXCEPT ![c] = Idle]
    BY <1>1, <1>7, <2>1 DEF SetDomain, Current
  <2>4. t \in Session /\ t.id = sessions[p.i].id /\ t.owns = sessions[p.i].owns
        /\ t.service = sessions[p.i].service /\ t.objects = sessions[p.i].objects
    BY <2>2 DEF Session
  <2> HIDE DEF t
  <2>5. \A q \in DOMAIN sessions :
          Unknown(sessions[q].id, given, call) => Unknown(sessions[q].id, given', call')
    BY <1>6, <2>3 DEF Unknown
  <2>6. OwnersHidden'
    <3>1. mistaken \subseteq mistaken'
      BY <1>7
    <3> QED BY <1>1, <1>3, <2>2, <2>3, <2>4, <2>5, <3>1, HiddenTweak
  <2> QED BY <1>6, <2>3, <2>6
<1>8. CASE Find(c) /\ Open(h) /\ UNCHANGED mistaken
  <2>0. PICK r : r = [call[c] EXCEPT !.pc = "route", !.ptr = FindSession(h)]
    OBVIOUS
  <2>1. r.pc = "route" /\ r.ptr = FindSession(h) /\ r.h = h
    BY <1>4, <2>0 DEF RequestState
  <2>2. CallSet(c, r) /\ UNCHANGED <<sessions, buf, given, misread, mistaken>>
    BY <1>4, <1>8, <2>0 DEF Find, CallSet
  <2>3. Current(r.ptr, r.h)'
    BY <1>8, <2>1, <2>2, LookupCurrent DEF Current, Valid
  <2>4. OneCall' /\ PointersCurrent' /\ AnswersNew' /\ TargetAlive'
        /\ \A n : n \notin given' => Unknown(n, given', call')
    BY <1>2, <2>1, <2>2, <2>3, OneActor DEF IpcInv
  <2>5. OwnersHidden'
    BY <1>1, <2>2, <2>4, HiddenUntouched DEF Unknown
  <2> QED BY <1>1, <2>2, <2>4, <2>5
<1>9. CASE Find(c) /\ ~Open(h) /\ UNCHANGED mistaken
  <2>1. call' = [call EXCEPT ![c] = Idle] /\ UNCHANGED <<sessions, given, misread, mistaken>>
    BY <1>9 DEF Find
  <2>2. OwnersHidden'
    BY <1>1, <1>6, <2>1, HiddenUntouched DEF Unknown
  <2> QED BY <1>1, <1>6, <2>1, <2>2
<1>10. CASE Route(c) /\ UNCHANGED mistaken
  <2> DEFINE r(svc) == [call[c] EXCEPT !.pc = "exec", !.svc = svc, !.obj = 0]
  <2>1. Current(p, h)
    BY <1>1, <1>10 DEF Route, PointersCurrent
  <2>2. p.i \in DOMAIN sessions
    BY <2>1 DEF Current, Valid
  <2>3. PICK svc : /\ svc = Target(sessions[p.i], call[c].obj)
                   /\ call' = [call EXCEPT ![c].pc = "exec", ![c].svc = svc, ![c].obj = 0]
    BY <1>10, <2>1 DEF Route, Current
  <2>4. ~misread' /\ UNCHANGED <<sessions, given, dead, mistaken>>
    BY <1>1, <1>10, <2>1 DEF Route
  <2>5. r(svc).pc = "exec" /\ r(svc).svc = svc
    BY <1>4 DEF RequestState
  <2>6. CallSet(c, r(svc))
    BY <1>4, <2>3 DEF CallSet
  <2>7. svc \notin Shared \cup mistaken' => svc \notin dead'
    BY <1>1, <1>3, <2>2, <2>3, <2>4, TargetsLive DEF IpcInv
  <2> HIDE DEF r
  <2>8. OneCall' /\ PointersCurrent' /\ AnswersNew' /\ TargetAlive'
        /\ \A n : n \notin given' => Unknown(n, given', call')
    BY <1>2, <2>5, <2>6, <2>7, OneActor DEF IpcInv
  <2>9. OwnersHidden'
    BY <1>1, <2>4, <2>8, HiddenUntouched DEF Unknown
  <2> QED BY <2>4, <2>8, <2>9
<1>11. CASE Post(c) /\ Open(h) /\ Entry(h).domain /\ UNCHANGED mistaken
  <2>0. PICK r : r = [call[c] EXCEPT !.pc = "bind", !.ptr = FindSession(h)]
    OBVIOUS
  <2>1. r.pc = "bind" /\ r.ptr = FindSession(h) /\ r.h = h /\ r.out = o
        /\ r.made = call[c].made
    BY <1>4, <2>0 DEF RequestState
  <2>2. CallSet(c, r) /\ UNCHANGED <<sessions, buf, given, misread, mistaken>>
    BY <1>4, <1>11, <2>0 DEF Post, CallSet
  <2>3. Current(r.ptr, r.h)'
    BY <1>11, <2>1, <2>2, LookupCurrent DEF Current, Valid
  <2>4. call[c].made => o \notin given'
    BY <1>1, <1>11, <2>2 DEF AnswersNew, Answering, Post
  <2>5. OneCall' /\ PointersCurrent' /\ AnswersNew' /\ TargetAlive'
        /\ \A n : n \notin given' /\ (call[c].made => n # o) => Unknown(n, given', call')
    BY <1>2, <2>1, <2>2, <2>3, <2>4, OneActor DEF IpcInv
  <2>6. \A n : Unknown(n, given, call) => Unknown(n, given', call')
    BY <1>11, <2>2, <2>5 DEF Unknown, Post
  <2>7. OwnersHidden'
    BY <1>1, <2>2, <2>6, HiddenUntouched
  <2> QED BY <1>1, <2>2, <2>5, <2>7
<1> DEFINE Told == IF call[c].made THEN {o} ELSE {}
<1>12. ASSUME call[c].pc \in {"post", "bind"}, given' \subseteq given \cup Told,
              call' = [call EXCEPT ![c] = Idle]
       PROVE  \A n : Unknown(n, given, call) => Unknown(n, given', call')
  <2> SUFFICES ASSUME NEW n, Unknown(n, given, call)
               PROVE  Unknown(n, given', call')
    OBVIOUS
  <2>1. n \notin given /\ n \notin Told
    BY <1>12 DEF Unknown
  <2> QED BY <1>6, <1>12, <2>1
<1> HIDE DEF Told
<1>13. CASE Post(c) /\ ~(Open(h) /\ Entry(h).domain) /\ UNCHANGED mistaken
  <2>1. /\ call' = [call EXCEPT ![c] = Idle] /\ UNCHANGED <<sessions, misread, mistaken>>
        /\ given' \subseteq given \cup Told
        /\ call[c].pc \in {"post", "bind"}
    BY <1>13 DEF Post, Told
  <2>a. \A q \in DOMAIN sessions :
          Unknown(sessions[q].id, given, call) => Unknown(sessions[q].id, given', call')
    BY <1>12, <2>1
  <2>2. OwnersHidden'
    BY <1>1, <2>1, <2>a, HiddenUntouched
  <2> QED BY <1>1, <1>6, <2>1, <2>2
<1>14. CASE Bind(c)
  <2> DEFINE x == Entry(o).service
             t == [sessions[p.i] EXCEPT !.objects = Append(@, x)]
             served == Open(o) /\ x # Null
  <2>1. /\ Current(p, h) /\ call[c].pc \in {"post", "bind"}
        /\ call' = [call EXCEPT ![c] = Idle]
    BY <1>1, <1>14 DEF Bind, PointersCurrent
  <2>2. ~misread'
    BY <1>1, <1>14, <2>1 DEF Bind
  <2>3. CASE ~served
    <3>1. /\ sessions' = sessions /\ mistaken' = mistaken
          /\ given' \subseteq given \cup Told
      BY <1>14, <2>3 DEF Bind, Told
    <3>a. \A q \in DOMAIN sessions :
            Unknown(sessions[q].id, given, call) => Unknown(sessions[q].id, given', call')
      BY <1>12, <2>1, <3>1
    <3>2. OwnersHidden'
      BY <1>1, <3>1, <3>a, HiddenUntouched
    <3> QED BY <1>6, <2>1, <2>2, <3>2
  <2>4. CASE served
    <3> DEFINE k == FindSession(o).i
    <3>1. /\ given' = given /\ sessions' = [sessions EXCEPT ![p.i] = t]
          /\ mistaken' = IF call[c].made THEN mistaken ELSE mistaken \cup {x}
      BY <1>14, <2>1, <2>4 DEF Bind, Current
    <3>2. p.i \in DOMAIN sessions /\ sessions[p.i] \in Session
      BY <1>3, <2>1, ElementOfSeq DEF Current, Valid, Table
    <3>3. k \in DOMAIN sessions /\ sessions[k].id = o /\ x = sessions[k].service
          /\ x \in Service
      BY <1>3, <2>4, EntryTyped, LookupCurrent DEF Current, Valid, Session
    <3>4. t \in Session /\ t.id = sessions[p.i].id /\ t.owns = sessions[p.i].owns
          /\ t.service = sessions[p.i].service
          /\ t.objects = Append(sessions[p.i].objects, x)
      <4>1. Append(sessions[p.i].objects, x) \in Seq(Service)
        BY <3>2, <3>3, AppendProperties DEF Session
      <4> QED BY <3>2, <4>1 DEF Session
    <3> HIDE DEF t, k
    <3>5. x \in Fresh \ mistaken' => HiddenOwner(x, sessions, given', call')
      <4>1. x \in Fresh => Owner(sessions[k])
        BY <3>3, IpcAssumption DEF Owner, IpcInv, Origins, Service
      <4>2. CASE call[c].made
        <5>1. Unknown(o, given', call')
          BY <1>1, <1>6, <2>1, <3>1, <4>2 DEF AnswersNew, Answering
        <5> QED BY <3>3, <4>1, <5>1 DEF HiddenOwner
      <4>3. CASE ~call[c].made
        BY <3>1, <4>3
      <4> QED BY <4>2, <4>3
    <3> HIDE DEF x
    <3>6. \A l \in DOMAIN t.objects :
            t.objects[l] = x
            \/ \E m \in DOMAIN sessions[p.i].objects : t.objects[l] = sessions[p.i].objects[m]
      <4>1. sessions[p.i].objects \in Seq(Service)
        BY <3>2 DEF Session
      <4> DEFINE q == sessions[p.i].objects
      <4>2. \A l \in DOMAIN Append(q, x) :
              Append(q, x)[l] = x \/ \E m \in DOMAIN q : Append(q, x)[l] = q[m]
        BY <3>3, <4>1, AppendElements
      <4>3. t.objects = Append(q, x)
        BY <3>4
      <4> QED BY ONLY <4>2, <4>3
    <3>7. \A q \in DOMAIN sessions :
            Unknown(sessions[q].id, given, call) => Unknown(sessions[q].id, given', call')
      <4>1. given' \subseteq given \cup Told
        BY <3>1
      <4> QED BY <1>12, <2>1, <4>1
    <3>8. \A l \in DOMAIN t.objects : t.objects[l] \in Fresh \ mistaken' =>
            \/ HiddenOwner(t.objects[l], sessions, given', call')
            \/ \E m \in DOMAIN sessions[p.i].objects : t.objects[l] = sessions[p.i].objects[m]
      BY ONLY <3>5, <3>6, Zenon
    <3>9. mistaken \subseteq mistaken'
      BY <3>1
    <3>10. OwnersHidden'
      BY ZenonT(60), <1>1, <1>3, <3>1, <3>2, <3>4, <3>7, <3>8, <3>9, HiddenTweak
    <3> QED BY <1>6, <2>1, <2>2, <3>10
  <2> QED BY <2>3, <2>4
<1> QED BY <1>7, <1>8, <1>9, <1>10, <1>11, <1>13, <1>14 DEF Finish

\* The whole invariant of the session table.
LEMMA IpcInvariant == Spec => []IpcInv
<1>1. Init => IpcInv
  <2> SUFFICES ASSUME Init PROVE IpcInv
    OBVIOUS
  <2>1. IpcType /\ IdsIncrease /\ OwnedFresh
    BY InitTyped
  <2>2. Origins
    BY DEF Init, Origins
  <2>3. \A c \in Client : call[c].pc = "idle"
    BY DEF Init, Idle
  <2>4. OneCall /\ PointersCurrent /\ AnswersNew /\ TargetAlive
    BY <2>3 DEF OneCall, PointersCurrent, AnswersNew, TargetAlive, Answering
  <2>5. OwnersHidden /\ ~misread
    BY DEF Init, OwnersHidden
  <2> QED BY <2>1, <2>2, <2>4, <2>5 DEF IpcInv, Serial
<1>2. IpcInv /\ [Next]_vars => IpcInv'
  <2> SUFFICES ASSUME IpcInv, [Next]_vars PROVE IpcInv'
    OBVIOUS
  <2>1. Table
    BY IpcAssumption DEF IpcInv, IpcType, TypeOK, Table
  <2>2. IpcType' /\ IdsIncrease' /\ OwnedFresh' /\ Origins'
    BY <2>1, IdsStep, OwnerStep, TypeStep, OriginsStep DEF IpcInv
  <2>3. CASE UNCHANGED vars
    <3>1. Serial'
      BY <2>3 DEF vars, IpcInv, Serial, OneCall, PointersCurrent, AnswersNew, OwnersHidden,
                  TargetAlive, Current, Valid, Answering
    <3> QED BY <2>2, <3>1 DEF IpcInv
  <2>4. CASE Next
    BY <2>2, <2>4, SerialRequest, SerialCommand, SerialFinish DEF Next, IpcInv
  <2> QED BY <2>3, <2>4
<1> QED BY <1>1, <1>2, PTL DEF Spec

\* HandleRequest uses a Session* only while it denotes the session of the
\* request, for any services and any number of sessions, provided requests do
\* not overlap: the lock is released in between, but nobody else moves or
\* erases the element, and after the command the session is looked up again.
THEOREM PointersStayCurrent == Spec => []PointerCurrent
<1>1. IpcInv => PointerCurrent
  BY DEF IpcInv, Serial, PointerCurrent
<1> QED BY <1>1, IpcInvariant, PTL

\* A request that does not overlap another never runs in a deleted service
\* other than the shared sub-objects and those a domain took from a number in
\* a reply: a registered service is never deleted, a fresh one only with its
\* one session, and what a domain refers to otherwise belongs to a session
\* whose handle the guest never gets.
THEOREM TargetsStayAlive == Spec => []SerialTargetAlive
<1>1. IpcInv => SerialTargetAlive
  BY DEF IpcInv, Serial, SerialTargetAlive, TargetAlive
<1> QED BY <1>1, IpcInvariant, PTL
=============================================================================
