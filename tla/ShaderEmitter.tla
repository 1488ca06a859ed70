--------------------------- MODULE ShaderEmitter ----------------------------
(***************************************************************************)
(* The shader pipeline (src/gpu/shader): ShaderExtract cuts a program out  *)
(* of the guest's program region, MaxwellDecoder decodes it into ShaderIR, *)
(* and SpirvEmitter walks the instructions once and emits a SPIR-V         *)
(* function.  Instructions keep what control and registers depend on: the  *)
(* opcode, the register fields, the guard and the branch target; what an   *)
(* instruction computes, types, constants and the stage's inputs and       *)
(* outputs are left out.  A pc counts words of eight bytes.                *)
(***************************************************************************)
EXTENDS Naturals, Sequences, FiniteSets, FiniteSetsExt, SequencesExt

CONSTANTS Regions,  \* program regions: sequences of instruction words
          MaxSize   \* ExtractShader's max_size in words (512)

Registers == 0..255
None == 256        \* OperandType::None

\* The fields of an instruction word that the model keeps.
InstructionWord == [op: STRING, dest: Registers, srcs: [1..3 -> Registers], to: Nat, pred: 0..7]

ASSUME WordsAssumption == Regions \subseteq Seq(InstructionWord) /\ MaxSize \in Nat

VARIABLES region,   \* the guest's program region, from the shader's offset on
          prog,     \* ShaderProgram::instructions
          at,       \* index of the next instruction to emit; 0: nothing decoded
          em        \* the SpirvEmitter: words_ and cfg_state_

shaderVars == <<region, prog, at, em>>

-----------------------------------------------------------------------------
(* Opcodes by instruction format, and the fields each format decodes.      *)

Alu3In == {"FMAD", "IADD3", "IMAD", "PRMT", "BFE", "BFI"}
Alu2In == {"FADD", "FMUL", "FMAX", "FMIN", "FSAT", "IADD", "ISUB", "IMUL", "IABS", "INEG",
           "I2F", "I2I", "IMNMX", "LEA", "F2F", "F2I", "F2F_C", "FSET"}
Alu1In == {"MUFU", "FRCP", "FRSQ", "FSQRT", "FEX2", "FLG2", "FSIN", "FCOS",
           "POPC", "FLO", "SHL", "SHR"}
Setp   == {"ISETP", "FSETP"}
Memory == {"LD", "LG", "LL", "LDS", "LDC", "ST", "STG", "STL", "STS"}
Texture == {"TEX", "TEXS", "TLDS", "TLD4", "TXQ"}
PredicateReg == {"R2P", "P2R"}
Branches == {"BRA", "CALL", "SSY", "SYNC"}
Exits == {"EXIT", "RET", "KIL", "CONT", "BREAK"}

\* Every other opcode is MaxwellFormat::Unknown.
Known == UNION {Alu3In, Alu2In, Alu1In, Setp, Memory, Texture, {"S2R"}, PredicateReg, Branches, Exits}

\* ShaderInstruction::src_count after ToIr.
SrcCount(op) ==
    CASE op \in Alu3In -> 3
      [] op \in Alu2In \cup Setp \cup (Texture \ {"TXQ"}) -> 2
      [] op \in Alu1In \cup Memory \cup Branches \cup {"TXQ", "S2R"} -> 1
      [] OTHER -> 0

\* The sources that are registers: a texture's second source is its handle,
\* a branch's is its label, S2R's a special register.
SrcRegs(w) ==
    CASE w.op \in Branches \cup {"S2R"} -> <<>>
      [] w.op \in Texture -> <<w.srcs[1]>>
      [] OTHER -> SubSeq(w.srcs, 1, SrcCount(w.op))

\* gpr_dest: the comparisons decode a predicate, which ToIr does not pass on.
DestField(w) == IF w.op \in Setp \cup Branches \cup Exits THEN 0 ELSE w.dest

\* The destination after ToIr.  pred_index of a predicate shares its byte with
\* reg_index, so a comparison writes predicate 0.
Dest(w) ==
    IF \/ w.op \in {"EXIT", "S2R"} \cup (Alu3In \cup Alu2In \cup Alu1In \cup Setp \cup Memory \cup Texture)
       \/ DestField(w) # 0
    THEN DestField(w)
    ELSE None

\* Only branches and comparisons decode pred_src; predicate 0 is no guard.
Guard(w) == IF w.op \in Setp \cup Branches THEN w.pred ELSE 0

ToIr(w, pc) ==
    [op |-> w.op, pc |-> pc, count |-> SrcCount(w.op), srcs |-> SrcRegs(w),
     dest |-> Dest(w), guard |-> Guard(w), to |-> w.to]

\* DecodedInst::size in words.
Size(op) == IF op \in Memory \cup Texture THEN 2 ELSE 1

\* MaxwellDecoder::Decode from word pc on: unknown words are skipped, a wide
\* instruction takes the next word too (zero when the binary ends), and EXIT
\* ends the program.
DecodeFrom(words) ==
    LET from[pc \in 0..Len(words) + 1] ==
            IF pc >= Len(words) THEN <<>>
            ELSE LET w == words[pc + 1]
                 IN IF w.op \notin Known THEN from[pc + 1]
                    ELSE <<ToIr(w, pc)>> \o
                         (IF w.op = "EXIT" THEN <<>> ELSE from[pc + Size(w.op)])
    IN from

Decode(words) == DecodeFrom(words)[0]

\* ExtractShader looks at no more than the region has and max_size allows.
Available(words) == IF Len(words) < MaxSize THEN Len(words) ELSE MaxSize
ExitWords(words) == {i \in 1..Available(words) : words[i].op = "EXIT"}

\* Mutant: the EXIT itself is cut off.
ExtractBefore(words) ==
    SubSeq(words, 1, IF ExitWords(words) = {} THEN Available(words) ELSE Min(ExitWords(words)) - 1)

\* ShaderExtract::ExtractShader: up to the first word with EXIT's opcode bits.
Extract(words) ==
    SubSeq(words, 1, IF ExitWords(words) = {} THEN Available(words) ELSE Min(ExitWords(words)))

-----------------------------------------------------------------------------
(* SpirvEmitter::EmitShaderInst: how many sources an arm of the switch     *)
(* asks for; an arm loads them, and stores a result when all have a        *)
(* variable.  The tables follow the order of the arms.                     *)

Arithmetic == [FMAD |-> 3, FADD |-> 2, FMUL |-> 2, IADD |-> 2, ISUB |-> 2, INEG |-> 1]
Conversions == [LD |-> 0, ST |-> 0, IMUL |-> 2, IMAD |-> 3, F2I |-> 1, I2F |-> 1, LDC |-> 1]
Functional == [MUFU |-> 1, TEX |-> 2, FMAX |-> 2, FMIN |-> 2, IABS |-> 1, IADD3 |-> 3]
Predicates == [ISETP |-> 2, FSETP |-> 2, I2I |-> 1, F2F |-> 1]
BitFields == [SHL |-> 2, SHR |-> 2, BFE |-> 3, BFI |-> 3, PRMT |-> 2]
Selections == [IMNMX |-> 2, FSET |-> 2, LEA |-> 2, POPC |-> 1, FLO |-> 1]
Reciprocals == [FSAT |-> 1, FRCP |-> 1, FRSQ |-> 1, FSQRT |-> 1, FEX2 |-> 1, FLG2 |-> 1]

Arms == UNION {DOMAIN Arithmetic, DOMAIN Conversions, DOMAIN Functional, DOMAIN Predicates,
               DOMAIN BitFields, DOMAIN Selections, DOMAIN Reciprocals}

\* The default arm asks for one.
Needs(op) ==
    CASE op \in DOMAIN Arithmetic -> Arithmetic[op]
      [] op \in DOMAIN Conversions -> Conversions[op]
      [] op \in DOMAIN Functional -> Functional[op]
      [] op \in DOMAIN Predicates -> Predicates[op]
      [] op \in DOMAIN BitFields -> BitFields[op]
      [] op \in DOMAIN Selections -> Selections[op]
      [] op \in DOMAIN Reciprocals -> Reciprocals[op]
      [] OTHER -> 1
Loads(op) == IF op \in {"LD", "ST", "TEX", "PRMT"} THEN 1 ELSE Needs(op)
Silent == {"NOP", "EXIT", "RET", "KIL", "BRA", "CALL", "SSY", "SYNC"}

\* Mutant: only destinations get a variable.
GprMapOfDests(p) == {p[i].dest : i \in DOMAIN p} \ {None}

\* BuildGprMap: the registers that have a variable.
BuildGprMap(p) ==
    ({p[i].dest : i \in DOMAIN p} \cup UNION {Range(p[i].srcs) : i \in DOMAIN p}) \ {None}

UsesTextures(p) == \E i \in DOMAIN p : p[i].op \in {"TEX", "TEXS", "TLDS"}

\* An arm that stores a result; the default arm asks for a destination.
Stores(i) ==
    /\ i.op \notin Silent
    /\ i.op = "S2R" \/ /\ i.count >= Needs(i.op)
                       /\ \A k \in 1..Loads(i.op) : i.srcs[k] \in BuildGprMap(prog)
    /\ i.op = "TEX" => UsesTextures(prog)
    /\ i.op \in Arms \/ i.dest # None

\* What an instruction adds to the function: [kind, pc, ...] records.
Instruction(e, i) ==
    CASE ~Stores(i) -> e
      [] Stores(i) /\ i.op \in Setp ->
            [e EXCEPT !.preds = @ \cup {i.dest},
                      !.out = Append(@, [kind |-> "predicate", pc |-> i.pc, var |-> i.dest])]
      [] Stores(i) /\ i.op \notin Setp ->
            IF i.dest \in BuildGprMap(prog)
            THEN [e EXCEPT !.out = Append(@, [kind |-> "store", pc |-> i.pc, var |-> i.dest])]
            ELSE e

-----------------------------------------------------------------------------
(* SpirvEmitter::BuildCfg.                                                 *)

\* The SSY at index i, its SYNC, and the first BRA before that SYNC.
Pair(p, i) ==
    LET ends == {j \in i + 1..Len(p) : \/ p[j].op = "BRA"
                                       \/ p[j].op = "SYNC" /\ p[j].pc = p[i].to}
        bra == ends # {} /\ p[Min(ends)].op = "BRA"
        target == IF bra THEN p[Min(ends)].to ELSE 0
    IN [ssy |-> p[i].pc, sync |-> p[i].to, target |-> target,
        type |-> IF ~bra THEN "Normal" ELSE IF target < p[i].pc + 1 THEN "Loop" ELSE "Selection"]

Pairs(p) == {Pair(p, i) : i \in {j \in DOMAIN p : p[j].op = "SSY"}}

\* A target of 0 counts as none.
BlockStarts(p) ==
    {p[1].pc} \cup UNION {{q.sync, q.ssy + 1} \cup ({q.target} \ {0}) : q \in Pairs(p)}

-----------------------------------------------------------------------------
(* SpirvEmitter::EmitStructuredCfg.  Labels are numbered by AllocId.       *)

\* labels_[pc] = id
SetLabel(labels, pc, id) ==
    [p \in DOMAIN labels \cup {pc} |-> IF p = pc THEN id ELSE labels[p]]

ReserveLabel(e, pc) ==
    IF pc \in DOMAIN e.labels THEN e
    ELSE [e EXCEPT !.labels = SetLabel(@, pc, e.next), !.next = @ + 1]

\* At a block start without a label yet: a new id, whatever was reserved.
AtBlockStart(e, i) ==
    IF i.pc \in BlockStarts(prog) /\ i.pc \notin e.emitted
    THEN [e EXCEPT !.out = Append(@, [kind |-> "label", pc |-> i.pc, id |-> e.next]),
                   !.labels = SetLabel(@, i.pc, e.next),
                   !.emitted = @ \cup {i.pc},
                   !.next = @ + 1]
    ELSE e

Top(e) == e.stack[Len(e.stack)]

\* Mutant: the merge is not marked as emitted.
MergeAgain(e, i) ==
    IF e.stack = <<>> THEN e
    ELSE [e EXCEPT !.out = IF Top(e).merge # 0 /\ Top(e).type # "Normal"
                           THEN Append(@, [kind |-> "merge", pc |-> i.pc, id |-> Top(e).merge])
                           ELSE @]

\* The merge that SSY deferred, before the first branch under it; a Normal
\* entry has none.
Merge(e, i) ==
    IF e.stack = <<>> THEN e
    ELSE [e EXCEPT !.out = IF Top(e).merge # 0 /\ Top(e).type # "Normal"
                           THEN Append(@, [kind |-> "merge", pc |-> i.pc, id |-> Top(e).merge])
                           ELSE @,
                   !.stack[Len(e.stack)].merge = 0]

Jump(i, ids, cond) == [kind |-> "branch", pc |-> i.pc, ids |-> ids, cond |-> cond]

BranchTo(e, i, pc) ==
    LET f == ReserveLabel(e, pc)
    IN [f EXCEPT !.out = Append(@, Jump(i, {f.labels[pc]}, {}))]

Sync(e, i) ==
    IF e.stack # <<>> /\ Top(e).sync = i.pc
    THEN [e EXCEPT !.stack = Front(@)] ELSE e

Ssy(e, i) ==
    LET q == CHOOSE r \in Pairs(prog) : r.ssy = i.pc
        f == ReserveLabel(e, q.sync)
        back == IF q.target # 0 THEN q.target ELSE i.pc + 1
        g == IF q.type = "Loop" THEN ReserveLabel(f, back) ELSE f
    IN [g EXCEPT !.stack = Append(@, [ssy |-> i.pc, sync |-> q.sync, type |-> q.type,
                                      merge |-> f.labels[q.sync]])]

Bra(e, i) == BranchTo(Merge(e, i), i, i.to)

\* A guarded BRA tests its predicate if a comparison has given it a variable,
\* else OpConstantTrue; the block after it starts at once.
FallThrough(n) == IF n < Len(prog) THEN prog[n + 1].pc ELSE prog[n].pc + 1

BraGuarded(e, i) ==
    LET next == FallThrough(at)
        f == ReserveLabel(ReserveLabel(Merge(e, i), i.to), next)
    IN [f EXCEPT !.out = @ \o <<Jump(i, {f.labels[i.to], f.labels[next]}, {i.guard} \cap f.preds),
                                [kind |-> "label", pc |-> next, id |-> f.labels[next]]>>,
                 !.emitted = @ \cup {next}]

Break(e, i) == IF e.stack = <<>> THEN e ELSE BranchTo(e, i, Top(e).sync)

Cont(e, i) ==
    IF e.stack = <<>> \/ Top(e).type # "Loop" THEN e
    ELSE BranchTo(e, i, (CHOOSE q \in Pairs(prog) : q.ssy = Top(e).ssy).target)

Kil(e, i) == [e EXCEPT !.out = Append(@, [kind |-> "kill", pc |-> i.pc])]

-----------------------------------------------------------------------------
(* The pipeline: one step per instruction.                                 *)

Empty == [out |-> <<>>, labels |-> <<>>, emitted |-> {}, stack |-> <<>>, preds |-> {}, next |-> 1]

ShaderInit ==
    /\ region \in Regions
    /\ prog = <<>> /\ at = 0 /\ em = Empty

DecodeShader ==
    /\ at = 0
    /\ prog' = Decode(Extract(region))
    /\ at' = 1
    /\ em' = IF prog' = <<>> THEN Empty ELSE [Empty EXCEPT !.emitted = {prog'[1].pc}]
    /\ UNCHANGED region

\* A step of the loop over the instructions with opcodes ops.
Emit(ops, F(_, _)) ==
    /\ at \in DOMAIN prog
    /\ prog[at].op \in ops
    /\ em' = F(AtBlockStart(em, prog[at]), prog[at])
    /\ at' = at + 1
    /\ UNCHANGED <<region, prog>>

Skip(e, i) == e
EmitBra(e, i) == IF i.guard = 0 THEN Bra(e, i) ELSE BraGuarded(e, i)

EmitControl ==
    \/ Emit({"SYNC"}, Sync)
    \/ Emit({"SSY"}, Ssy)
    \/ Emit({"BRA"}, EmitBra)
    \/ Emit({"EXIT", "RET"}, Skip)
    \/ Emit({"BREAK"}, Break)
    \/ Emit({"CONT"}, Cont)
    \/ Emit({"KIL"}, Kil)

EmitData == Emit(Known \ {"SYNC", "SSY", "BRA", "EXIT", "RET", "BREAK", "CONT", "KIL"}, Instruction)

\* OpReturn, unless the program has a KIL anywhere.
EmitEnd ==
    /\ at = Len(prog) + 1 /\ at > 0
    /\ em' = IF \E i \in DOMAIN prog : prog[i].op = "KIL" THEN em
             ELSE [em EXCEPT !.out = Append(@, [kind |-> "return", pc |-> None])]
    /\ at' = at + 1
    /\ UNCHANGED <<region, prog>>

ShaderNext == DecodeShader \/ EmitControl \/ EmitData \/ EmitEnd

ShaderSpec == ShaderInit /\ [][ShaderNext]_shaderVars

-----------------------------------------------------------------------------
(* Properties.                                                             *)

Emitted(kind) == SelectSeq(em.out, LAMBDA r : r.kind = kind)
Done == at = Len(prog) + 2

\* Every SSY before index n whose SYNC is still to come.
Enclosing(n) ==
    {i \in DOMAIN prog : /\ i < n /\ prog[i].op = "SSY"
                         /\ \A j \in i..n - 1 : prog[j].pc # prog[i].to}

\* Every SSY has a SYNC of its own behind it, and the ranges do not cross.
WellNested ==
    LET ssy == {i \in DOMAIN prog : prog[i].op = "SSY"}
        syncOf(i) == {j \in i + 1..Len(prog) : prog[j].op = "SYNC" /\ prog[j].pc = prog[i].to}
    IN /\ \A i \in ssy : syncOf(i) # {}
       /\ \A i, k \in ssy : i < k => prog[k].to < prog[i].to \/ prog[k].pc > prog[i].to

\* No instruction is lost between the decoder and the emitter: each decoded
\* instruction that has a register or a predicate to write has stored into its
\* variable once it is behind the emitter, in spite of the arms that give up
\* without a word when a source has no variable or the decoder counted too few
\* sources.  Shifts are (the decoder gives them one source, their arms ask for
\* two), and so are R2P and P2R, which have none.
Lost == {"SHL", "SHR"} \cup PredicateReg
ResultsStored ==
    \A k \in DOMAIN prog :
        k < at /\ prog[k].op \notin Lost \cup Branches \cup Exits
            => \E n \in DOMAIN em.out : /\ em.out[n].pc = prog[k].pc
                                        /\ em.out[n].kind \in {"store", "predicate"}

\* The stack of deferred merges follows the nesting of the guest's program: in
\* a program whose SSY and SYNC nest, the entries at each instruction are
\* exactly the ranges around it, outermost first, and no merge block is
\* announced twice.
MergesFollowNesting ==
    at \in DOMAIN prog /\ WellNested =>
        /\ {em.stack[k].ssy : k \in DOMAIN em.stack} = {prog[i].pc : i \in Enclosing(at)}
        /\ \A j, k \in DOMAIN em.stack : j < k => em.stack[j].ssy < em.stack[k].ssy
        /\ \A j, k \in DOMAIN em.out :
               em.out[j].kind = "merge" /\ em.out[k].kind = "merge" /\ em.out[j].id = em.out[k].id
                   => j = k

\* Cutting the binary at the first word that looks like EXIT loses nothing: the
\* program is the one the whole region decodes to, unless that word is the
\* second half of a wide instruction, or the first max_size bytes have no such
\* word and the region goes on after them (the program is then cut off there).
SecondHalf(words) ==
    \E i \in DOMAIN Decode(words) :
        LET d == Decode(words)[i]
        IN Size(d.op) = 2 /\ d.pc + 2 <= Len(words) /\ words[d.pc + 2].op = "EXIT"
CutOff(words) == Len(words) > MaxSize /\ ExitWords(words) = {}
ExtractKeepsProgram ==
    at > 0 /\ ~SecondHalf(region) /\ ~CutOff(region) => prog = Decode(region)

\* Every branch of the finished function ends at a label of the function: the
\* comments at ReserveLabel and at BRA say the linear pass will emit OpLabel
\* for a reserved id when it reaches the pc.
BranchesLand ==
    Done /\ WellNested /\ (\A i \in DOMAIN prog : prog[i].op = "BRA" => \E j \in DOMAIN prog : prog[j].pc = prog[i].to)
        => \A b \in Range(Emitted("branch")) : \A id \in b.ids :
               \E l \in Range(Emitted("label")) : l.id = id
=============================================================================
