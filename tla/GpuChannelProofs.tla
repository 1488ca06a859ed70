-------------------------- MODULE GpuChannelProofs --------------------------
(***************************************************************************)
(* Safety of the path from push buffers to draws, for every buffer, limit  *)
(* and interleaving of the guest's thread with the view's.                 *)
(***************************************************************************)
EXTENDS GpuChannel, SequenceTheorems, TLAPS

----------------------------------------------------------------------------
(* The decoder.                                                            *)

\* Between submissions there is nothing to decode; within one, every callback
\* that is still to be made takes its value from the words.
DecoderInv ==
  /\ words \in Seq(Word) /\ Len(words) <= MaxWords
  /\ pos = Idle => calls = <<>>
  /\ pos # Idle => pos \in 0 .. Len(words)
  /\ calls \in Seq({calls[i] : i \in DOMAIN calls})
  /\ InBounds

(* A sequence over anything is one over its own elements.                  *)
LEMMA OwnElements ==
  ASSUME NEW S, NEW q \in Seq(S)
  PROVE  q \in Seq({q[i] : i \in DOMAIN q})
<1>1. q \in [1 .. Len(q) -> {q[i] : i \in DOMAIN q}] /\ Len(q) \in Nat
  OBVIOUS
<1> QED
  BY <1>1, SeqDef

(* A function on 1 .. n is a sequence.                                     *)
LEMMA FunctionIsSequence ==
  ASSUME NEW n \in Nat, NEW S, NEW q \in [1 .. n -> S]
  PROVE  q \in Seq(S) /\ Len(q) = n /\ DOMAIN q = 1 .. n
BY SeqDef

(* GPFifo: the number of operands of a header word.                        *)
LEMMA OperandsNat ==
  ASSUME NEW w \in Word
  PROVE  Operands(w) \in Nat
<1>1. GetArg(w) \in Nat
  <2>1. w[1] \in Nat
    <3>1. w[1] \in Half
      BY DEF Word
    <3>2. \A x \in Half : x \in Nat
      BY SMTT(60) DEF Half
    <3> QED
      BY <3>1, <3>2
  <2>2. 2^13 = 8192
    OBVIOUS
  <2> QED
    BY <2>1, <2>2 DEF GetArg
<1>2. \/ Operands(w) = 0 \/ Operands(w) = GetArg(w) \/ Operands(w) = 1
  BY DEF Operands
<1> QED
  BY <1>1, <1>2

(* GPFifo::Process: a command that fits makes callbacks with values from   *)
(* inside the span only.                                                   *)
LEMMA CallbacksInBounds ==
  ASSUME words \in Seq(Word), pos \in Nat, pos < Len(words), NEW w \in Word, Fits(w)
  PROVE  /\ Callbacks(w) \in Seq({Callbacks(w)[i] : i \in DOMAIN Callbacks(w)})
         /\ \A i \in DOMAIN Callbacks(w) : Callbacks(w)[i].at \in 1 .. Len(words)
<1> DEFINE n == Operands(w)
           q == Callbacks(w)
<1>1. n \in Nat /\ pos + 1 + n <= Len(words) /\ Len(words) \in Nat
  BY OperandsNat DEF Fits
<1>2. CASE ~IsHost(w) /\ GetMode(w) = Inline
  <2>1. PICK c : q = <<c>> /\ c.at = pos + 1
    BY <1>2 DEF Callbacks
  <2>2. <<c>> \in Seq({c}) /\ Len(<<c>>) = 1 /\ <<c>>[1] = c
    OBVIOUS
  <2> HIDE DEF q
  <2>3. q \in Seq({q[i] : i \in DOMAIN q})
    BY <2>1, <2>2, OwnElements
  <2> QED
    BY <1>1, <2>1, <2>2, <2>3 DEF q
<1>3. CASE ~(~IsHost(w) /\ GetMode(w) = Inline)
  <2>1. q = [i \in 1 .. n |-> q[i]] /\ \A i \in 1 .. n : q[i].at = pos + 1 + i
    BY <1>3 DEF Callbacks
  <2> HIDE DEF q, n
  <2>2. q \in [1 .. n -> {q[i] : i \in 1 .. n}]
    BY <2>1
  <2>3. q \in Seq({q[i] : i \in 1 .. n}) /\ DOMAIN q = 1 .. n
    BY <1>1, <2>2, FunctionIsSequence
  <2> QED
    BY <1>1, <2>1, <2>3 DEF q
<1> QED
  BY <1>2, <1>3

(* One step of the guest's thread on the words and the callbacks.          *)
LEMMA DecoderInductive == DecoderInv /\ [Next]_vars => DecoderInv'
<1> SUFFICES ASSUME DecoderInv, [Next]_vars PROVE DecoderInv'
  OBVIOUS
<1>1. ASSUME NEW b \in Buffers, NEW k \in 0 .. Len(b), SubmitGpfifo(b, k)
      PROVE  DecoderInv'
  <2>1. b \in Seq(Word)
    BY ChannelAssumption
  <2> DEFINE n == IF Len(b) > MaxWords THEN MaxWords ELSE Len(b)
  <2>2. n \in Nat /\ n <= MaxWords /\ n <= Len(b) /\ Idle # 0
    BY <2>1, ChannelAssumption DEF Idle
  <2>3. Zero \in Word
    <3>1. 0 \in Half
      BY DEF Half
    <3> QED
      BY <3>1 DEF Zero, Word
  <2>4. words' \in [1 .. n -> Word]
    BY <1>1, <2>1, <2>2, <2>3 DEF SubmitGpfifo
  <2> HIDE DEF n
  <2>5. words' \in Seq(Word) /\ Len(words') = n
    BY <2>2, <2>4, FunctionIsSequence
  <2>6. pos' = 0 /\ calls' = <<>> /\ calls = <<>>
    BY <1>1 DEF SubmitGpfifo, DecoderInv
  <2> QED
    BY <2>2, <2>5, <2>6 DEF DecoderInv, InBounds
<1>2. CASE Process
  <2>1. pos # Idle /\ pos \in Nat /\ pos < Len(words) /\ words[pos + 1] \in Word
    <3>1. pos < Len(words) /\ Len(words) \in Nat /\ Len(words) <= MaxWords
      BY <1>2 DEF Process, DecoderInv
    <3>2. pos # Idle
      BY <3>1, ChannelAssumption DEF Idle
    <3>3. pos \in Nat
      BY <3>1, <3>2 DEF DecoderInv
    <3> QED
      BY <3>1, <3>2, <3>3 DEF DecoderInv
  <2> DEFINE w == words[pos + 1]
  <2>2. Fits(w) /\ calls' = Callbacks(w) /\ pos' = pos + 1 + Operands(w) /\ words' = words
    BY <1>2 DEF Process
  <2> HIDE DEF w
  <2>3. w \in Word /\ Operands(w) \in Nat
    BY <2>1, OperandsNat DEF w
  <2>4. /\ calls' \in Seq({calls'[i] : i \in DOMAIN calls'})
        /\ \A i \in DOMAIN calls' : calls'[i].at \in 1 .. Len(words)
    BY <2>1, <2>2, <2>3, CallbacksInBounds DEF DecoderInv
  <2>5. pos' \in 0 .. Len(words) /\ pos' # Idle
    BY <2>1, <2>2, <2>3, ChannelAssumption DEF Fits, Idle, DecoderInv
  <2> QED
    BY <2>2, <2>4, <2>5 DEF DecoderInv, InBounds
<1>3. CASE OnMethod
  <2>1. calls # <<>> /\ calls' = Tail(calls) /\ UNCHANGED <<words, pos>>
    BY <1>3 DEF OnMethod
  <2>2. /\ calls' \in Seq({calls[i] : i \in DOMAIN calls})
        /\ \A i \in DOMAIN calls' : i + 1 \in DOMAIN calls /\ calls'[i] = calls[i + 1]
    BY <2>1 DEF DecoderInv
  <2>3. calls' \in Seq({calls'[i] : i \in DOMAIN calls'})
    BY <2>2, OwnElements
  <2> QED
    BY <2>1, <2>2, <2>3 DEF DecoderInv, InBounds
<1>4. CASE Submitted
  <2>1. calls = <<>> /\ calls' = <<>> /\ pos' = Idle /\ words' = <<>>
    BY <1>4 DEF Submitted
  <2> QED
    BY <2>1, ChannelAssumption DEF DecoderInv, InBounds
<1>5. CASE UNCHANGED <<words, pos, calls>>
  BY <1>5 DEF DecoderInv, InBounds
<1>6. CASE View \/ UNCHANGED vars
  BY <1>5, <1>6
  DEF View, vars, RenderFrame, ConsumeDraws, Consume, IssueDraw, ClearDirty, guestVars
<1> QED
  BY <1>1, <1>2, <1>3, <1>4, <1>6 DEF Next, Guest

(* GPFifo::Process hands no value to the engine that is not a word of the  *)
(* submitted buffer, whatever the buffer and wherever it was cut off.      *)
THEOREM ReadsInBounds == Spec => []InBounds
<1>1. Init => DecoderInv
  <2> SUFFICES ASSUME Init PROVE DecoderInv
    OBVIOUS
  <2>1. words = <<>> /\ pos = Idle /\ calls = <<>>
    BY DEF Init
  <2> QED
    BY <2>1, ChannelAssumption DEF DecoderInv, InBounds
<1>2. DecoderInv => InBounds
  BY DEF DecoderInv
<1> QED
  BY <1>1, <1>2, DecoderInductive, PTL DEF Spec

----------------------------------------------------------------------------
(* The draws.                                                              *)

\* A sequence of draws in the order in which they were triggered.
Ascending(q) ==
  /\ q \in Seq({q[i] : i \in DOMAIN q})
  /\ \A i \in DOMAIN q : q[i].no \in Nat
  /\ \A i, j \in DOMAIN q : i < j => q[i].no < q[j].no

Before(A, B) == \A a \in A, b \in B : a < b

\* What is done or dropped comes before the frame's draws, those before the
\* queue; and while a frame is drawn, the queue holds late draws only.
DrawsInv ==
  /\ triggered \in Nat
  /\ Ascending(queue) /\ Ascending(draws)
  /\ Before(NumbersOf(draws), NumbersOf(queue))
  /\ Before(issued \cup lost, NumbersOf(draws) \cup NumbersOf(queue))
  /\ view # "draw" => draws = <<>>
  /\ view = "draw" => NumbersOf(queue) \subseteq late
  /\ DrawsAccounted

(* The empty queue.                                                        *)
LEMMA EmptyQueue == Ascending(<<>>) /\ NumbersOf(<<>>) = {}
<1>1. <<>> \in Seq({}) /\ DOMAIN <<>> = {}
  OBVIOUS
<1>2. <<>> \in Seq({<<>>[i] : i \in DOMAIN <<>>})
  BY <1>1, OwnElements
<1> QED
  BY <1>1, <1>2 DEF Ascending, NumbersOf

(* push_back of a draw with a higher number.                               *)
LEMMA QueueDraw ==
  ASSUME NEW q, Ascending(q), NEW d, d.no \in Nat, Before(NumbersOf(q), {d.no})
  PROVE  Ascending(Append(q, d)) /\ NumbersOf(Append(q, d)) = NumbersOf(q) \cup {d.no}
<1> DEFINE S == {q[i] : i \in DOMAIN q}
           r == Append(q, d)
           n == Len(q)
<1>1. q \in Seq(S \cup {d})
  <2>1. q \in Seq(S)
    BY DEF Ascending
  <2> QED
    BY <2>1
<1>2. /\ r \in Seq(S \cup {d}) /\ n \in Nat /\ DOMAIN q = 1 .. n /\ DOMAIN r = 1 .. n + 1
      /\ r[n + 1] = d /\ \A i \in 1 .. n : r[i] = q[i]
  BY <1>1
<1> HIDE DEF r, n
<1>3. r \in Seq({r[i] : i \in DOMAIN r})
  BY <1>2, OwnElements
<1>4. \A i \in 1 .. n : q[i].no \in Nat /\ q[i].no < d.no
  BY <1>2 DEF Ascending, Before, NumbersOf
<1>5. \A i, j \in DOMAIN r : i < j => r[i].no < r[j].no
  <2> SUFFICES ASSUME NEW i \in DOMAIN r, NEW j \in DOMAIN r, i < j
               PROVE  r[i].no < r[j].no
    OBVIOUS
  <2>1. CASE j = n + 1
    BY <1>2, <1>4, <2>1
  <2>2. CASE j \in 1 .. n
    BY <1>2, <2>2 DEF Ascending
  <2> QED
    BY <1>2, <2>1, <2>2
<1>6. \A i \in DOMAIN r : r[i].no \in Nat
  BY <1>2, <1>4
<1>7. NumbersOf(r) = NumbersOf(q) \cup {d.no}
  <2>1. NumbersOf(r) \subseteq NumbersOf(q) \cup {d.no}
    BY <1>2 DEF NumbersOf
  <2>2. NumbersOf(q) \subseteq NumbersOf(r)
    BY <1>2 DEF NumbersOf
  <2>3. d.no \in NumbersOf(r)
    BY <1>2 DEF NumbersOf
  <2> QED
    BY <2>1, <2>2, <2>3
<1> QED
  BY <1>3, <1>5, <1>6, <1>7 DEF Ascending, r

(* The loop of RenderFrame goes on to the next draw.                       *)
LEMMA NextDraw ==
  ASSUME NEW q, Ascending(q), q # <<>>
  PROVE  /\ Ascending(Tail(q)) /\ Head(q).no \in Nat
         /\ NumbersOf(q) = {Head(q).no} \cup NumbersOf(Tail(q))
         /\ Before({Head(q).no}, NumbersOf(Tail(q)))
<1> DEFINE S == {q[i] : i \in DOMAIN q}
           r == Tail(q)
           n == Len(q)
<1>1. q \in Seq(S)
  BY DEF Ascending
<1>2. /\ r \in Seq(S) /\ n \in Nat /\ n >= 1 /\ DOMAIN q = 1 .. n /\ DOMAIN r = 1 .. n - 1
      /\ Head(q) = q[1] /\ \A i \in 1 .. n - 1 : r[i] = q[i + 1]
  BY <1>1
<1> HIDE DEF r, n, S
<1>3. r \in Seq({r[i] : i \in DOMAIN r})
  BY <1>2, OwnElements
<1>a. \A i \in 1 .. n : q[i].no \in Nat
  BY <1>2 DEF Ascending
<1>b. \A i, j \in 1 .. n : i < j => q[i].no < q[j].no
  BY <1>2 DEF Ascending
<1>c. \A i \in 1 .. n - 1 : i + 1 \in 1 .. n /\ 1 < i + 1
  BY <1>2
<1>4. Ascending(r)
  <2>1. \A i \in DOMAIN r : r[i].no \in Nat
    BY <1>2, <1>a, <1>c
  <2>2. ASSUME NEW i \in DOMAIN r, NEW j \in DOMAIN r, i < j PROVE r[i].no < r[j].no
    <3>1. i + 1 \in 1 .. n /\ j + 1 \in 1 .. n /\ i + 1 < j + 1
      BY <1>2, <2>2
    <3> QED
      BY <1>2, <1>b, <3>1
  <2> QED
    BY <1>3, <2>1, <2>2 DEF Ascending
<1>5. Head(q).no \in Nat /\ \A i \in DOMAIN r : Head(q).no < r[i].no
  <2>1. 1 \in 1 .. n
    BY <1>2
  <2> QED
    BY <1>2, <1>a, <1>b, <1>c, <2>1
<1>6. NumbersOf(q) = {Head(q).no} \cup NumbersOf(r)
  <2>1. NumbersOf(r) \subseteq NumbersOf(q) /\ Head(q).no \in NumbersOf(q)
    BY SMTT(20), <1>2 DEF NumbersOf
  <2>2. ASSUME NEW i \in 1 .. n PROVE q[i].no \in {Head(q).no} \cup NumbersOf(r)
    <3>1. CASE i = 1
      BY <1>2, <3>1
    <3>2. CASE i # 1
      <4>1. i - 1 \in DOMAIN r /\ r[i - 1] = q[i]
        BY <1>2, <3>2
      <4> QED
        BY <4>1 DEF NumbersOf
    <3> QED
      BY <3>1, <3>2
  <2> QED
    BY <1>2, <2>1, <2>2 DEF NumbersOf
<1> QED
  BY <1>4, <1>5, <1>6 DEF Before, NumbersOf, r

(* StateTracker::OnMethod queues a draw behind all others.                 *)
LEMMA OnMethodKeepsDraws ==
  ASSUME DrawsInv, OnMethod
  PROVE  DrawsInv'
<1>1. UNCHANGED <<draws, issued, lost, view>>
  BY DEF OnMethod, viewVars
<1>2. CASE UNCHANGED <<queue, triggered, late>>
  BY <1>1, <1>2 DEF DrawsInv, DrawsAccounted
<1>3. CASE ~UNCHANGED <<queue, triggered, late>>
  <2>1. PICK d : /\ queue' = Append(queue, d) /\ d.no = triggered + 1
                 /\ triggered' = triggered + 1
                 /\ late' = IF view = "draw" THEN late \cup {triggered + 1} ELSE late
    BY <1>3 DEF OnMethod, PendingDraw
  <2>2. triggered \in Nat /\ triggered' \in Nat /\ d.no \in Nat
    BY <2>1 DEF DrawsInv
  <2>3. \A k \in NumbersOf(queue) \cup NumbersOf(draws) \cup issued \cup lost : k \in Nat /\ k < d.no
    BY <2>1, <2>2 DEF DrawsInv, DrawsAccounted
  <2>4. Ascending(queue') /\ NumbersOf(queue') = NumbersOf(queue) \cup {d.no}
    BY <2>1, <2>2, <2>3, QueueDraw DEF DrawsInv, Before
  <2>5. Before(NumbersOf(draws'), NumbersOf(queue'))
    BY <1>1, <2>3, <2>4 DEF DrawsInv, Before
  <2>6. Before(issued' \cup lost', NumbersOf(draws') \cup NumbersOf(queue'))
    BY <1>1, <2>3, <2>4 DEF DrawsInv, Before
  <2>7. view' = "draw" => NumbersOf(queue') \subseteq late'
    BY <1>1, <2>1, <2>4 DEF DrawsInv
  <2>8. DrawsAccounted'
    <3>1. 1 .. triggered' = (1 .. triggered) \cup {triggered + 1}
      BY <2>1, <2>2
    <3>2. NumbersOf(queue)' = NumbersOf(queue') /\ NumbersOf(draws)' = NumbersOf(draws)
      BY <1>1 DEF NumbersOf
    <3>3. late \subseteq late'
      BY <2>1
    <3> QED
      BY <1>1, <2>1, <2>4, <3>1, <3>2, <3>3 DEF DrawsInv, DrawsAccounted
  <2> QED
    BY <1>1, <2>2, <2>4, <2>5, <2>6, <2>7, <2>8 DEF DrawsInv
<1> QED
  BY <1>2, <1>3

(* One stage of MetalRenderer::RenderFrame.                                *)
LEMMA ViewKeepsDraws ==
  ASSUME DrawsInv, View
  PROVE  DrawsInv'
<1>1. CASE RenderFrame
  BY <1>1 DEF RenderFrame, DrawsInv, DrawsAccounted
<1>2. CASE ConsumeDraws
  <2>1. /\ draws = <<>> /\ draws' = queue /\ queue' = <<>> /\ view' = "draw"
        /\ UNCHANGED <<issued, triggered, late, lost>>
    BY <1>2 DEF ConsumeDraws, Consume, DrawsInv
  <2>2. NumbersOf(draws) = {} /\ NumbersOf(queue') = {} /\ Ascending(queue')
    BY <2>1, EmptyQueue
  <2> QED
    BY <2>1, <2>2 DEF DrawsInv, DrawsAccounted, Before
<1>3. CASE IssueDraw
  <2> DEFINE k == Head(draws).no
  <2>1. /\ draws # <<>> /\ draws' = Tail(draws) /\ issued' = issued \cup {k}
        /\ view = "draw" /\ UNCHANGED <<view, queue, triggered, late, lost>>
    BY <1>3 DEF IssueDraw
  <2> HIDE DEF k
  <2>2. /\ Ascending(draws') /\ k \in Nat
        /\ NumbersOf(draws) = {k} \cup NumbersOf(draws')
        /\ Before({k}, NumbersOf(draws'))
    BY <2>1, NextDraw DEF DrawsInv, k
  <2>3. /\ Before(NumbersOf(draws'), NumbersOf(queue'))
        /\ Before(issued' \cup lost', NumbersOf(draws') \cup NumbersOf(queue'))
    BY <2>1, <2>2 DEF DrawsInv, Before
  <2>4. k \notin lost
    BY <2>2 DEF DrawsInv, Before
  <2>5. DrawsAccounted'
    <3>1. NumbersOf(queue)' = NumbersOf(queue) /\ NumbersOf(draws)' = NumbersOf(draws')
      BY <2>1 DEF NumbersOf
    <3> QED
      BY <2>1, <2>2, <2>4, <3>1 DEF DrawsInv, DrawsAccounted
  <2> QED
    BY <2>1, <2>2, <2>3, <2>5 DEF DrawsInv
<1>4. CASE ClearDirty
  <2>1. /\ draws = <<>> /\ draws' = <<>> /\ queue' = <<>> /\ view = "draw" /\ view' = "idle"
        /\ lost' = lost \cup NumbersOf(queue) /\ UNCHANGED <<issued, triggered, late>>
    BY <1>4 DEF ClearDirty, NumbersOf
  <2>2. NumbersOf(draws) = {} /\ NumbersOf(draws') = {} /\ NumbersOf(queue') = {} /\ Ascending(queue')
    BY <2>1, EmptyQueue
  <2>3. \A k \in NumbersOf(queue) : k \in Nat /\ k \notin issued
    BY DEF DrawsInv, Before, DrawsAccounted
  <2>4. DrawsAccounted'
    <3>1. NumbersOf(queue)' = {} /\ NumbersOf(draws)' = {}
      BY <2>2 DEF NumbersOf
    <3> QED
      BY <2>1, <2>2, <2>3, <3>1 DEF DrawsInv, DrawsAccounted
  <2> QED
    BY <2>1, <2>2, <2>4 DEF DrawsInv, Before
<1> QED
  BY <1>1, <1>2, <1>3, <1>4 DEF View

(* The order of the draws holds throughout.                                *)
LEMMA DrawsInvariant == Spec => []DrawsInv
<1>1. Init => DrawsInv
  <2> SUFFICES ASSUME Init PROVE DrawsInv
    OBVIOUS
  <2>1. /\ queue = <<>> /\ draws = <<>> /\ triggered = 0 /\ late = {} /\ issued = {} /\ lost = {}
        /\ view = "idle"
    BY DEF Init
  <2>2. NumbersOf(draws) = {} /\ NumbersOf(queue) = {} /\ Ascending(queue) /\ Ascending(draws)
    BY <2>1, EmptyQueue
  <2> QED
    BY <2>1, <2>2 DEF DrawsInv, DrawsAccounted, Before
<1>2. DrawsInv /\ [Next]_vars => DrawsInv'
  <2> SUFFICES ASSUME DrawsInv, [Next]_vars PROVE DrawsInv'
    OBVIOUS
  <2>1. CASE UNCHANGED <<queue, draws, triggered, late, issued, lost, view>>
    BY <2>1 DEF DrawsInv, DrawsAccounted
  <2>2. CASE UNCHANGED vars
    BY <2>1, <2>2 DEF vars, viewVars
  <2>3. ASSUME NEW b, NEW n, SubmitGpfifo(b, n) PROVE DrawsInv'
    BY <2>1, <2>3 DEF SubmitGpfifo, viewVars
  <2>4. CASE Process \/ Submitted
    BY <2>1, <2>4 DEF Process, Submitted, viewVars
  <2> QED
    BY <2>2, <2>3, <2>4, OnMethodKeepsDraws, ViewKeepsDraws DEF Next, Guest
<1> QED
  BY <1>1, <1>2, PTL DEF Spec

(* No draw disappears between StateTracker::OnMethod and RenderFrame but   *)
(* those that ClearDirty drops, and these came during a frame.             *)
THEOREM NoDrawVanishes == Spec => []DrawsAccounted
<1>1. DrawsInv => DrawsAccounted
  BY DEF DrawsInv
<1> QED
  BY <1>1, DrawsInvariant, PTL

(* RenderFrame issues draws in the order in which they were triggered, and *)
(* none twice.                                                             *)
THEOREM DrawsIssuedInOrder == Spec => DrawsInOrder
<1> DEFINE Ordered == draws # <<>> /\ draws' = Tail(draws) => \A k \in issued : k < Head(draws).no
<1>1. DrawsInv => Ordered
  <2> SUFFICES ASSUME DrawsInv, draws # <<>>, NEW k \in issued PROVE k < Head(draws).no
    OBVIOUS
  <2>1. Head(draws).no \in NumbersOf(draws)
    BY NextDraw DEF DrawsInv
  <2> QED
    BY <2>1 DEF DrawsInv, Before
<1>2. DrawsInv => [Ordered]_vars
  BY <1>1
<1> QED
  BY <1>2, DrawsInvariant, PTL DEF DrawsInOrder
============================================================================
