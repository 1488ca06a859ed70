------------------------------ MODULE MCShader ------------------------------
(* Program regions for the shader pipeline.                                *)
EXTENDS ShaderEmitter

Word(op, d, to, p) == [op |-> op, dest |-> d, srcs |-> <<1, 2, 3>>, to |-> to, pred |-> p]

\* One opcode of every kind of arm, alone before and after each other.
Data == {Word(op, d, 0, 1) : op \in (Known \ (Branches \cup Exits)) \cup {"CALL", "data"}, d \in {0, 4}}
Straight == {<<w, Word("EXIT", 0, 0, 0)>> : w \in Data}
            \cup {<<w, x, Word("EXIT", 0, 0, 0), Word("FADD", 4, 0, 0)>> :
                    w \in {d \in Data : d.op \in {"LD", "TEX", "ISETP", "FADD", "data", "P2R"}},
                    x \in {Word("FMUL", 1, 0, 0), Word("EXIT", 0, 0, 0), Word("TEXS", 1, 0, 0)}}

\* Two ranges of SSY and SYNC, nested, one after the other or crossing, with a
\* branch under each and one more instruction.
Control == {Word("BRA", 0, t, p) : t \in {0, 1, 3, 5, 6}, p \in {0, 1}}
           \cup {Word(op, 0, 0, 0) : op \in {"BREAK", "CONT", "KIL", "ISETP", "RET"}}
Structured ==
    {<<Word("FADD", 1, 0, 0), Word("SSY", 0, t, 0), x, y, Word("SYNC", 0, 0, 0), z,
       Word("SYNC", 0, 0, 0), Word("EXIT", 0, 0, 0)>> :
        t \in {4, 6}, x \in Control \cup {Word("SSY", 0, s, 0) : s \in {4, 6}},
        y \in Control,
        z \in {Word("BRA", 0, 1, 1), Word("BRA", 0, 6, 0), Word("BREAK", 0, 0, 0), Word("KIL", 0, 0, 0)}}
\* Longer than MaxSize: with its EXIT before, at and after the limit, and a
\* wide instruction whose second half is beyond it.
Add == Word("FADD", 1, 0, 0)
Long == {<<Add, Add, Add, Add, Add, Add, x, y, z, Word("EXIT", 0, 0, 0)>> :
            x, y, z \in {Add, Word("LD", 1, 0, 0), Word("EXIT", 0, 0, 0), Word("BRA", 0, 8, 1)}}
Programs == Straight \cup Structured \cup Long

\* An if: SSY, a guarded branch over one instruction to the SYNC.
If == {<<Word("FADD", 1, 0, 0), Word("SSY", 0, 4, 0), Word("BRA", 0, 4, 1), Word("FADD", 1, 0, 0),
         Word("SYNC", 0, 0, 0), Word("EXIT", 0, 0, 0)>>}
=============================================================================
