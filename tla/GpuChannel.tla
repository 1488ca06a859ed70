----------------------------- MODULE GpuChannel -----------------------------
(***************************************************************************)
(* From a submitted push buffer to the draws of a frame.                   *)
(*                                                                         *)
(* A guest thread submits push buffers: HandleSubmitGpfifo copies the      *)
(* words, GPFifo::Process decodes them, StateTracker::OnMethod applies     *)
(* each method to the 3D engine and queues a snapshot for each draw.  The  *)
(* view's draw callback runs MetalRenderer::RenderFrame on another thread, *)
(* with no lock between the two: each decoded method is a step of the      *)
(* guest, each stage of the frame a step of the view.  In the code even    *)
(* push_back, move and clear of the queue race; here each is atomic, so    *)
(* what the model shows happens without a torn vector.                     *)
(*                                                                         *)
(* One guest thread submits.  The dirty flag is left out: nothing but the  *)
(* tests reads it.  A frame without draws changes nothing modelled here.   *)
(***************************************************************************)
EXTENDS Engine3D, Sequences, FiniteSets

CONSTANTS
  Buffers,     \* push buffers the guest may submit, sequences of words
  MaxWords,    \* the largest submission, 65536 in the code
  MaxSubmits,  \* bound on the number of submissions
  None         \* no pipeline, no shaders, no previous draw

ASSUME ChannelAssumption ==
  /\ Buffers \subseteq Seq(Word)
  /\ MaxWords \in Nat \ {0}
  /\ MaxSubmits \in Nat

VARIABLES
  words,     \* HandleSubmitGpfifo's copy of the buffer being processed
  pos,       \* Process: words consumed, Idle between submissions
  calls,     \* Process: callbacks of the current command still to be made
  submits,   \* bound: submissions so far
  fence,     \* g_syncpt_counter
  regs,      \* GpuState3D
  queue,     \* StateTracker::draw_queue_
  view,      \* where RenderFrame is
  draws,     \* RenderFrame: draws consumed and not yet issued
  rtPath,    \* RenderFrame: is_rt_path
  last,      \* RenderFrame: last_pipeline_key, None before the first draw
  bound,     \* RenderFrame: the pipeline of the current encoder
  cache,     \* pipeline_cache_
  shaders,   \* the shaders vert_result_ and frag_result_ were compiled from
  triggered, \* history: draws triggered so far
  late,      \* history: draws triggered while a frame had taken the queue
  issued,    \* history: draws the view has processed
  lost       \* history: draws removed from the queue unseen

guestVars == <<words, pos, calls, submits, fence>>
viewVars == <<view, draws, rtPath, last, bound, cache, shaders, issued>>
vars == <<guestVars, viewVars, regs, queue, triggered, late, lost>>

Idle == MaxWords + 1

----------------------------------------------------------------------------
(* StateTracker::ComputePipelineKey: a 64-bit key is the set of its bits.  *)

Bits(w) ==
  {b \in 0 .. 15 : (w[2] \div 2^b) % 2 = 1}
    \cup {b \in 16 .. 31 : (w[1] \div 2^(b - 16)) % 2 = 1}

Shift(w, n) == {b + n : b \in Bits(w)} \cap 0 .. 63

When(cond, bits) == IF cond THEN bits ELSE {}

(* The terms that are combined with exclusive or.                          *)
KeyTerms(r) ==
  LET blend(f) == Get(r, <<"blend", 0, f>>)
      rt(i, f) == Get(r, <<"rt", i, f>>)
      on == blend("enabled") # Zero
      test == Get(r, Method(\h4B3)) # Zero
  IN  << Bits(Get(r, Method(\h582))), Shift(Get(r, Method(\h583)), 32),
         Shift(Get(r, <<"shader", 0, "offset">>), 12),
         Shift(Get(r, <<"shader", 5, "offset">>), 24),
         Shift(Get(r, Method(\h586)), 8),
         When(Get(r, Method(\h54E)) # Zero, Shift(Get(r, Method(\h3FA)), 56)),
         When(on, Shift(blend("color_op"), 16)),
         When(on, Shift(blend("src_color"), 20)),
         When(on, Shift(blend("dst_color"), 24)),
         When(on, Shift(blend("alpha_op"), 28)),
         When(on, Shift(blend("src_alpha"), 32)),
         When(on, Shift(blend("dst_alpha"), 36)),
         Shift(blend("color_mask"), 48),
         When(test, Shift(Get(r, Method(\h4C3)), 38)),
         When(test, Shift(Get(r, Method(\h4BA)), 42)) >>
      \o [i \in 1 .. 8 |->
            When(rt(i - 1, "address") # Zero /\ rt(i - 1, "width") # Zero,
                 Shift(rt(i - 1, "format"), (i - 1) * 4 + 40))]

ComputePipelineKey(r) ==
  LET terms == KeyTerms(r)
      odd(b) == Cardinality({i \in DOMAIN terms : b \in terms[i]}) % 2 = 1
  IN  {b \in UNION {terms[i] : i \in DOMAIN terms} : odd(b)}

(* What CreatePipelineWithBlend takes from the registers: blending of the  *)
(* first target, its write mask, and the vertex layout.                    *)
Look(r) ==
  [blend |-> IF Get(r, <<"blend", 0, "enabled">>) = Zero THEN None
             ELSE [f \in {"color_op", "src_color", "dst_color", "alpha_op",
                          "src_alpha", "dst_alpha"} |-> Get(r, <<"blend", 0, f>>)],
   mask  |-> Get(r, <<"blend", 0, "color_mask">>),
   vertices |-> [x \in {y \in DOMAIN r : y[1] \in {"vertex_attrib", "vertex_array"}
                                           /\ y[3] # "address"} |-> r[x]]]

----------------------------------------------------------------------------
Init ==
  /\ words = <<>> /\ pos = Idle /\ calls = <<>>
  /\ submits = 0 /\ fence = 0
  /\ regs = Reset
  /\ queue = <<>>
  /\ view = "idle" /\ draws = <<>> /\ rtPath = FALSE
  /\ last = None /\ bound = None
  /\ cache = <<>> /\ shaders = None
  /\ triggered = 0 /\ late = {} /\ issued = {} /\ lost = {}

----------------------------------------------------------------------------
(* The guest thread                                                        *)

(* HandleSubmitGpfifo: the number of words is capped, and the words from   *)
(* the first that cannot be read on stay zero.                             *)
SubmitGpfifo(buffer, readable) ==
  /\ pos = Idle /\ submits < MaxSubmits
  /\ submits' = submits + 1
  /\ words' = [i \in 1 .. (IF Len(buffer) > MaxWords THEN MaxWords ELSE Len(buffer)) |->
                 IF i <= readable THEN buffer[i] ELSE Zero]
  /\ pos' = 0
  /\ UNCHANGED <<calls, fence, regs, queue, triggered, late, lost, viewVars>>

(* A header word and its fields.                                           *)
MakeHeader(mode, method, arg, subch) ==
  <<mode * 2^13 + arg, subch * 2^13 + method>>

GetMethod(w) == w[2] % 2^13

GetSubchannel(w) == w[2] \div 2^13
GetArg(w) == w[1] % 2^13
GetMode(w) == w[1] \div 2^13

Increasing == 1
NonIncreasing == 3
Inline == 4
IncreaseOnce == 5

(* GpfifoHandler::Handle: host commands are swallowed.                     *)
HostMethods == {\h004, \h006, \h007, \h014, \h01C, \h01D}

IsHost(w) == GetSubchannel(w) = 0 /\ GetMethod(w) \in HostMethods

(* The words after the header that belong to its command.                  *)
Operands(w) ==
  CASE IsHost(w) -> 0
    [] ~IsHost(w) /\ GetMode(w) \in {Increasing, NonIncreasing} -> GetArg(w)
    [] ~IsHost(w) /\ GetMode(w) = IncreaseOnce -> 1
    [] OTHER -> 0

(* Mutant: the header is not counted.                                      *)
OperandsFit(w) == pos + Operands(w) <= Len(words)

(* Process returns when a command does not fit in what is left.            *)
Fits(w) == pos + 1 + Operands(w) <= Len(words)

(* What lies beyond the words is not known; zero stands for it.            *)
WordAt(i) == IF i \in DOMAIN words THEN words[i] ELSE Zero

(* The callbacks of a command; "at" is the word the value comes from.      *)
Callbacks(w) ==
  LET call(m, at, v) ==
        [subch |-> GetSubchannel(w), method |-> m, at |-> at, value |-> v]
      operand(m, i) == call(m, pos + 1 + i, WordAt(pos + 1 + i))
      step == IF GetMode(w) = Increasing THEN 1 ELSE 0
  IN  IF ~IsHost(w) /\ GetMode(w) = Inline
      THEN <<call(GetMethod(w), pos + 1, Num(GetArg(w)))>>
      ELSE [i \in 1 .. Operands(w) |-> operand(GetMethod(w) + step * (i - 1), i)]

(* GPFifo::Process: one command.  The words are the guest thread's own     *)
(* copy, so the command is decoded in one step.                            *)
Process ==
  /\ pos < Len(words) /\ calls = <<>>
  /\ LET w == words[pos + 1]
     IN  /\ Fits(w)
         /\ calls' = Callbacks(w)
         /\ pos' = pos + 1 + Operands(w)
  /\ UNCHANGED <<words, submits, fence, regs, queue, triggered, late, lost, viewVars>>

(* Process returns, at the end or at a command that is cut off, and the    *)
(* guest gets a fence.                                                     *)
Submitted ==
  /\ pos # Idle /\ calls = <<>>
  /\ pos < Len(words) => ~Fits(words[pos + 1])
  /\ pos' = Idle /\ words' = <<>>
  /\ fence' = fence + 1
  /\ UNCHANGED <<calls, submits, regs, queue, triggered, late, lost, viewVars>>

(* subch_engines_: the channels of the 3D engine.                          *)
Engine3DChannels == {0, 5, 6, 7}

(* The snapshot of a draw: its number, counts, whether it has an index     *)
(* buffer, and its key; look is history, what the draw's pipeline is to    *)
(* take from the registers.                                                *)
PendingDraw(r) ==
  [no |-> triggered + 1,
   arrays |-> Get(r, Method(DrawArraysCount)),
   elements |-> Get(r, Method(DrawElementsCount)),
   indexed |-> Get(r, Method(\h5F2)) # Zero \/ Get(r, Method(\h5F3)) # Zero,
   key |-> ComputePipelineKey(r), look |-> Look(r)]

(* The live counts are reset so that they are not drawn again.             *)
ResetCounts(r) ==
  Method(DrawArraysCount) :> Zero @@ Method(DrawElementsCount) :> Zero @@ r

(* StateTracker::OnMethod for the next callback.                           *)
OnMethod ==
  /\ calls # <<>>
  /\ calls' = Tail(calls)
  /\ LET c == Head(calls)
         r == HandleMethod(regs, c.method, c.value)
     IN  IF c.subch \notin Engine3DChannels
         THEN UNCHANGED <<regs, queue, triggered, late>>
         ELSE IF ~IsDraw(c.method)
         THEN regs' = r /\ UNCHANGED <<queue, triggered, late>>
         ELSE /\ queue' = Append(queue, PendingDraw(r))
              /\ regs' = ResetCounts(r)
              /\ triggered' = triggered + 1
              /\ late' = IF view = "draw" THEN late \cup {triggered + 1} ELSE late
  /\ UNCHANGED <<words, pos, submits, fence, lost, viewVars>>

----------------------------------------------------------------------------
(* The view's thread: MetalRenderer::RenderFrame                           *)

(* Mutant: a single draw does not count.                                   *)
SeveralDraws == Len(queue) > 1

HasPendingDraws == queue # <<>>

(* A frame begins.                                                         *)
RenderFrame ==
  /\ view = "idle" /\ HasPendingDraws
  /\ view' = "consume"
  /\ UNCHANGED <<guestVars, draws, rtPath, last, bound, cache, shaders, issued,
                 regs, queue, triggered, late, lost>>

(* ResolveRenderTargets: a frame goes to render targets when the first one *)
(* has an address and a size.                                              *)
IsRtPath ==
  \A f \in {"address", "width", "height"} : Get(regs, <<"rt", 0, f>>) # Zero

Consume(taken) ==
  /\ view = "consume"
  /\ view' = "draw"
  /\ draws' = taken /\ queue' = <<>>
  /\ rtPath' = IsRtPath
  /\ UNCHANGED <<guestVars, last, bound, cache, shaders, issued, regs,
                 triggered, late, lost>>

(* Mutant: only the first draw is taken.                                   *)
ConsumeFirst == Consume(SubSeq(queue, 1, 1))

(* Mutant: the latest draw comes first.                                    *)
ConsumeReversed == Consume([i \in DOMAIN queue |-> queue[Len(queue) + 1 - i]])

(* ConsumeDraws moves the queue out.                                       *)
ConsumeDraws == Consume(queue)

(* What CompilePipeline compares to see that the program has changed.      *)
Program == [region |-> <<Get(regs, Method(\h583)), Get(regs, Method(\h582))>>,
            vert |-> Get(regs, <<"shader", 0, "offset">>),
            frag |-> Get(regs, <<"shader", 5, "offset">>)]

Enabled(i) ==
  /\ Get(regs, <<"shader", i, "enabled">>) # Zero
  /\ Get(regs, <<"shader", i, "offset">>) # Zero

(* CompilePipeline: a changed program is compiled, the vertex shader from  *)
(* one of the two vertex stages.  When the compiler refuses it, or a stage *)
(* is missing, the shaders that compiled last stay.                        *)
CompilePipeline ==
  \/ /\ shaders # None => shaders.program # Program
     /\ Program.region # <<Zero, Zero>> /\ Enabled(5)
     /\ \E i \in {0, 1} :
          /\ Enabled(i)
          /\ shaders' = [program |-> Program,
                         vertex |-> Get(regs, <<"shader", i, "offset">>)]
  \/ shaders' = shaders

(* What a new pipeline is made from: the shaders compiled last and the     *)
(* registers as they are now.                                              *)
CreatePipeline(sh) == [shaders |-> sh, look |-> Look(regs)]

(* The pipeline of a batch that starts with draw d: the one cached for its *)
(* key, else a new one, which is cached, else - without shaders, or when   *)
(* Metal cannot build it - the game's or the fallback.                     *)
BindPipeline(d) ==
  \/ /\ d.key \in DOMAIN cache
     /\ bound' = cache[d.key] /\ cache' = cache
  \/ /\ d.key \notin DOMAIN cache /\ shaders' # None
     /\ bound' = CreatePipeline(shaders')
     /\ cache' = d.key :> bound' @@ cache
  \/ /\ d.key \notin DOMAIN cache
     /\ bound' = None /\ cache' = cache

(* A draw starts a new encoder when it is the first, or when the keys      *)
(* differ and the frame goes to render targets.                            *)
NewBatch(d) ==
  \/ last = None
  \/ rtPath /\ d.key # last

(* One round of the loop over the consumed draws.                          *)
IssueDraw ==
  /\ view = "draw" /\ draws # <<>>
  /\ LET d == Head(draws)
     IN  /\ IF NewBatch(d) THEN CompilePipeline /\ BindPipeline(d)
            ELSE UNCHANGED <<shaders, cache, bound>>
         /\ issued' = issued \cup {d.no}
         /\ last' = d.key
  /\ draws' = Tail(draws)
  /\ UNCHANGED <<guestVars, view, rtPath, regs, queue, triggered, late, lost>>

(* The end of the frame: clear.buffers = 0, then ClearDirty empties the    *)
(* queue again.                                                            *)
ClearDirty ==
  /\ view = "draw" /\ draws = <<>>
  /\ view' = "idle" /\ rtPath' = FALSE
  /\ regs' = Method(ClearBuffers) :> Zero @@ regs
  /\ queue' = <<>>
  /\ lost' = lost \cup {queue[i].no : i \in DOMAIN queue}
  /\ last' = None /\ bound' = None
  /\ UNCHANGED <<guestVars, draws, cache, shaders, issued, triggered, late>>

Guest ==
  \/ \E b \in Buffers : \E n \in 0 .. Len(b) : SubmitGpfifo(b, n)
  \/ Process \/ OnMethod \/ Submitted

View == RenderFrame \/ ConsumeDraws \/ IssueDraw \/ ClearDirty

Next == Guest \/ View

Spec == Init /\ [][Next]_vars

(* The display calls the view's draw callback again and again.             *)
FairSpec == Spec /\ WF_vars(View)

----------------------------------------------------------------------------
(* Properties                                                              *)

Call == [subch : 0 .. 7, method : Nat, at : Nat, value : Word]

(* Types of the variables that both threads use, and of the decoder.       *)
TypeOK ==
  /\ words \in Seq(Word) /\ pos \in 0 .. Idle /\ calls \in Seq(Call)
  /\ submits \in 0 .. MaxSubmits /\ fence \in Nat
  /\ \A r \in DOMAIN regs : regs[r] \in Word
  /\ view \in {"idle", "consume", "draw"} /\ rtPath \in BOOLEAN
  /\ triggered \in Nat /\ issued \cup lost \cup late \subseteq 1 .. triggered

(* Every value handed to the engine comes from a word of the submitted     *)
(* buffer: GPFifo::Process never reads past the span, however the buffer   *)
(* was cut off.                                                            *)
InBounds == \A i \in DOMAIN calls : calls[i].at \in 1 .. Len(words)

NumbersOf(q) == {q[i].no : i \in DOMAIN q}

(* No draw disappears without reason: a draw that was triggered waits, is  *)
(* in the frame, was issued, or was dropped by ClearDirty.  ClearDirty     *)
(* drops only what was triggered after ConsumeDraws of the same frame.     *)
DrawsAccounted ==
  /\ 1 .. triggered = NumbersOf(queue) \cup NumbersOf(draws) \cup issued \cup lost
  /\ issued \cap lost = {}
  /\ lost \subseteq late

(* Draws are issued once and in the order in which they were triggered.    *)
DrawsInOrder ==
  [][draws # <<>> /\ draws' = Tail(draws)
       => \A k \in issued : k < Head(draws).no]_vars

(* A draw is made with a pipeline for the state in which it was triggered: *)
(* StateTracker.cpp says of the key that it is a hash of the state that    *)
(* determines the Metal pipeline, and that draws with one key can share an *)
(* encoder.                                                                *)
PipelineFitsDraw ==
  [][draws # <<>> /\ draws' = Tail(draws) /\ bound' # None
       => bound'.look = Head(draws).look]_vars

(* The view gets to every draw: a queue with draws is taken or emptied.    *)
QueueDrains == queue # <<>> ~> queue = <<>>

=============================================================================
