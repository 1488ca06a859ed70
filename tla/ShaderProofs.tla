---------------------------- MODULE ShaderProofs ----------------------------
(***************************************************************************)
(* The shader pipeline for every program region: what the decoder returns, *)
(* that cutting the binary loses nothing, that every result is stored and  *)
(* that the stack of merges follows the nesting of the program.            *)
(***************************************************************************)
EXTENDS ShaderEmitter, Integers, SequenceTheorems, WellFoundedInduction, TLAPS

-----------------------------------------------------------------------------
(* Induction.  The library states it for an operator P(_); with a set in   *)
(* its place the provers can use it.                                       *)

(* A set of naturals has a least member.                                   *)
LEMMA LeastNat ==
  ASSUME NEW S, S \subseteq Nat, S # {}
  PROVE  \E n \in S : \A m \in S : n <= m
<1> DEFINE R == OpToRel(<, Nat)
<1>1. IsWellFoundedOn(R, Nat)
  BY NatLessThanWellFounded
<1>2. \A x, y \in Nat : y < x => <<y, x>> \in R
  BY DEF OpToRel
<1> HIDE DEF R
<1>3. PICK x \in S : \A y \in S : <<y, x>> \notin R
  BY <1>1, WFMin, Zenon
<1>4. \A y \in S : ~(y < x)
  BY <1>2, <1>3, Zenon
<1>5. \A y \in S : x <= y
  BY <1>4
<1> QED BY <1>5

(* What holds above top and, at each pc, if it holds for all later ones    *)
(* holds everywhere: the decoder recurses from the end of the binary.      *)
LEMMA Downward ==
  ASSUME NEW top \in Nat, NEW S,
         \A pc \in 0..top : (\A q \in pc + 1..top : q \in S) => pc \in S
  PROVE  0..top \subseteq S
<1>1. SUFFICES ASSUME ~(0..top \subseteq S) PROVE FALSE
  OBVIOUS
<1> DEFINE T == {n \in 0..top : top - n \notin S}
<1>2. T \subseteq Nat /\ T # {}
  <2>1. PICK pc \in 0..top : pc \notin S
    BY <1>1
  <2>2. top - pc \in 0..top /\ top - (top - pc) = pc
    OBVIOUS
  <2>3. top - pc \in T
    BY <2>1, <2>2
  <2>4. T \subseteq Nat
    OBVIOUS
  <2> HIDE DEF T
  <2> QED BY <2>3, <2>4
<1>3. PICK n \in T : \A m \in T : n <= m
  <2> HIDE DEF T
  <2> QED BY <1>2, LeastNat
<1> DEFINE pc == top - n
<1>4. pc \in 0..top /\ pc \notin S
  BY <1>3
<1>5. ASSUME NEW q \in pc + 1..top PROVE q \in S
  <2>1. top - q \in 0..top /\ top - q < n /\ top - (top - q) = q
    BY <1>3, <1>5
  <2>2. top - q \notin T
    BY <1>3, <2>1
  <2> QED BY <2>1, <2>2
<1> QED BY <1>4, <1>5

-----------------------------------------------------------------------------
(* The decoder.                                                            *)

\* One round of the decoder's loop, with f for the rounds after it.
Round(words, f, pc) ==
    IF pc >= Len(words) THEN <<>>
    ELSE IF words[pc + 1].op \notin Known THEN f[pc + 1]
         ELSE <<ToIr(words[pc + 1], pc)>> \o
              (IF words[pc + 1].op = "EXIT" THEN <<>> ELSE f[pc + Size(words[pc + 1].op)])

\* f is what the loop does from word m on.
Rounds(words, f, m) == f = [pc \in m..Len(words) + 1 |-> Round(words, f, pc)]

(* A round looks at no earlier one.                                        *)
LEMMA RoundForward ==
  ASSUME NEW words \in Seq(InstructionWord), NEW f, NEW g, NEW pc \in 0..Len(words) + 1,
         \A q \in pc + 1..Len(words) + 1 : f[q] = g[q]
  PROVE  Round(words, f, pc) = Round(words, g, pc)
<1>1. CASE pc >= Len(words)
  BY <1>1 DEF Round
<1>2. CASE pc < Len(words)
  <2> DEFINE k == Size(words[pc + 1].op)
  <2>1. k \in {1, 2}
    BY DEF Size
  <2> HIDE DEF k
  <2>2. Len(words) \in Nat
    OBVIOUS
  <2>3. pc + 1 \in pc + 1..Len(words) + 1 /\ pc + k \in pc + 1..Len(words) + 1
    BY <1>2, <2>1, <2>2
  <2>4. f[pc + 1] = g[pc + 1] /\ f[pc + k] = g[pc + k]
    BY <2>3
  <2> QED BY <2>4, Zenon DEF Round, k
<1> QED BY <1>1, <1>2

(* The recursive definition of the decoder has a solution: DecodeFrom is   *)
(* what its loop says.                                                     *)
LEMMA DecodeRounds ==
  ASSUME NEW words \in Seq(InstructionWord)
  PROVE  Rounds(words, DecodeFrom(words), 0)
<1> DEFINE top == Len(words) + 1
           S == {m \in 0..top : \E f : Rounds(words, f, m)}
<1>1. top \in Nat
  OBVIOUS
<1>2. ASSUME NEW m \in 0..top, \A q \in m + 1..top : q \in S
      PROVE  m \in S
  <2>1. PICK f : f = [pc \in m + 1..top |-> Round(words, f, pc)]
    <3>1. CASE m = top
      <4> DEFINE f == [pc \in m + 1..top |-> 0]
      <4>1. m + 1..top = {}
        BY <3>1
      <4>2. f = [pc \in m + 1..top |-> Round(words, f, pc)]
        BY <4>1
      <4> QED BY <4>2
    <3>2. CASE m < top
      <4>1. m + 1 \in S
        BY <1>2, <3>2
      <4> QED BY <4>1 DEF Rounds
    <3> QED BY <3>1, <3>2
  <2> DEFINE g == [pc \in m..top |-> Round(words, f, pc)]
  <2>2. \A q \in m + 1..top : f[q] = g[q]
    BY <2>1
  <2>3. ASSUME NEW pc \in m..top PROVE Round(words, f, pc) = Round(words, g, pc)
    <3>1. pc \in 0..Len(words) + 1 /\ \A q \in pc + 1..Len(words) + 1 : q \in m + 1..top
      OBVIOUS
    <3>2. \A q \in pc + 1..Len(words) + 1 : f[q] = g[q]
      BY <2>2, <3>1
    <3> HIDE DEF g
    <3> QED BY <3>1, <3>2, RoundForward
  <2>4. Rounds(words, g, m)
    BY <2>3 DEF Rounds
  <2> QED BY <2>4
<1>3. 0 \in S
  <2> HIDE DEF S
  <2>1. 0..top \subseteq S
    BY <1>1, <1>2, Downward
  <2> QED BY <1>1, <2>1
<1>4. PICK f : Rounds(words, f, 0)
  BY <1>3
<1> QED BY <1>4, Zenon DEF Rounds, Round, DecodeFrom

(* The round at pc.                                                        *)
LEMMA DecodeRound ==
  ASSUME NEW words \in Seq(InstructionWord), NEW pc \in 0..Len(words) + 1
  PROVE  DecodeFrom(words)[pc] = Round(words, DecodeFrom(words), pc)
<1> DEFINE D == DecodeFrom(words)
<1>1. D = [q \in 0..Len(words) + 1 |-> Round(words, D, q)]
  BY DecodeRounds DEF Rounds
<1> HIDE DEF D
<1>2. D[pc] = Round(words, D, pc)
  BY <1>1
<1> QED BY <1>2 DEF D

(* An instruction in front of others.                                      *)
LEMMA InFront ==
  ASSUME NEW T, NEW x \in T, NEW s \in Seq(T)
  PROVE  /\ <<x>> \o s \in Seq(T)
         /\ Len(<<x>> \o s) = Len(s) + 1
         /\ (<<x>> \o s)[1] = x
         /\ \A i \in 1..Len(s) : (<<x>> \o s)[i + 1] = s[i]
         /\ \A i \in 2..Len(s) + 1 : (<<x>> \o s)[i] = s[i - 1]
OBVIOUS

\* What the words of a binary can decode to.
Decoded(words) ==
    {ToIr(words[q + 1], q) : q \in {p \in 0..Len(words) - 1 : words[p + 1].op \in Known}}

\* Decoded instructions in the order of the binary, from word pc on.
Ascending(words, pc, s) ==
    /\ s \in Seq(Decoded(words))
    /\ \A i \in 1..Len(s) : s[i].pc >= pc
    /\ \A i, j \in 1..Len(s) : i < j => s[i].pc < s[j].pc

(* The decoder notes where an instruction was.                             *)
LEMMA DecodedAt ==
  ASSUME NEW words \in Seq(InstructionWord)
  PROVE  /\ \A x \in Decoded(words) : x.pc \in Nat
         /\ \A pc \in 0..Len(words) - 1 :
              words[pc + 1].op \in Known =>
                /\ ToIr(words[pc + 1], pc) \in Decoded(words)
                /\ ToIr(words[pc + 1], pc).pc = pc
<1>1. \A w, pc : ToIr(w, pc).pc = pc
  BY DEF ToIr
<1>2. Len(words) \in Nat /\ \A q \in 0..Len(words) - 1 : q \in Nat
  OBVIOUS
<1>3. \A x \in Decoded(words) : x.pc \in Nat
  <2> TAKE x \in Decoded(words)
  <2>1. PICK q \in 0..Len(words) - 1 : x = ToIr(words[q + 1], q)
    BY Zenon DEF Decoded
  <2> QED BY <1>1, <1>2, <2>1
<1>4. \A pc \in 0..Len(words) - 1 :
        words[pc + 1].op \in Known => ToIr(words[pc + 1], pc) \in Decoded(words)
  BY Zenon DEF Decoded
<1> QED BY <1>1, <1>3, <1>4, Zenon

LEMMA AscendingFrom ==
  ASSUME NEW words \in Seq(InstructionWord), NEW pc \in Nat, NEW q \in Nat, pc <= q,
         NEW s, Ascending(words, q, s)
  PROVE  Ascending(words, pc, s)
<1>1. s \in Seq(Decoded(words)) /\ \A i \in 1..Len(s) : s[i] \in Decoded(words) /\ s[i].pc >= q
  BY DEF Ascending
<1>2. \A i \in 1..Len(s) : s[i].pc \in Nat /\ s[i].pc >= q
  BY <1>1, DecodedAt
<1>3. \A i \in 1..Len(s) : s[i].pc >= pc
  BY <1>2
<1> QED BY <1>3 DEF Ascending

(* What is decoded comes from known words of the binary, in their order.   *)
LEMMA DecodeAscends ==
  ASSUME NEW words \in Seq(InstructionWord)
  PROVE  /\ \A pc \in 0..Len(words) + 1 : Ascending(words, pc, DecodeFrom(words)[pc])
         /\ Ascending(words, 0, Decode(words))
<1> DEFINE top == Len(words) + 1
           D == DecodeFrom(words)
           S == {pc \in 0..top : Ascending(words, pc, D[pc])}
<1>1. top \in Nat /\ Len(words) \in Nat
  OBVIOUS
<1>2. ASSUME NEW pc \in 0..top, \A q \in pc + 1..top : q \in S
      PROVE  pc \in S
  <2> SUFFICES Ascending(words, pc, D[pc])
    OBVIOUS
  <2>0. \A q \in pc + 1..top : Ascending(words, q, D[q])
    BY <1>2
  <2>1. D[pc] = Round(words, D, pc)
    BY DecodeRound
  <2> HIDE DEF D, S
  <2>2. CASE pc >= Len(words)
    <3>1. D[pc] = <<>>
      BY <2>1, <2>2 DEF Round
    <3> QED BY <3>1 DEF Ascending
  <2>3. CASE pc < Len(words) /\ words[pc + 1].op \notin Known
    <3>1. D[pc] = D[pc + 1]
      BY <2>1, <2>3 DEF Round
    <3>2. Ascending(words, pc + 1, D[pc + 1])
      BY <1>1, <2>0, <2>3
    <3> QED BY <3>1, <3>2, AscendingFrom
  <2>4. CASE pc < Len(words) /\ words[pc + 1].op \in Known
    <3> DEFINE x == ToIr(words[pc + 1], pc)
               k == Size(words[pc + 1].op)
               s == IF words[pc + 1].op = "EXIT" THEN <<>> ELSE D[pc + k]
    <3>1. D[pc] = <<x>> \o s
      BY <2>1, <2>4 DEF Round
    <3>2. x \in Decoded(words) /\ x.pc = pc
      BY <1>1, <2>4, DecodedAt
    <3>3. k \in {1, 2}
      BY DEF Size
    <3>4. Ascending(words, pc + 1, s)
      <4>1. CASE words[pc + 1].op = "EXIT"
        BY <4>1 DEF Ascending
      <4>2. CASE words[pc + 1].op # "EXIT"
        <5> HIDE DEF k
        <5>1. pc + k \in pc + 1..top
          BY <1>1, <2>4, <3>3
        <5>2. Ascending(words, pc + k, D[pc + k])
          BY <2>0, <5>1
        <5>3. Ascending(words, pc + 1, D[pc + k])
          BY <5>1, <5>2, AscendingFrom
        <5> QED BY <4>2, <5>3
      <4> QED BY <4>1, <4>2
    <3> HIDE DEF x, s
    <3>5. /\ D[pc] \in Seq(Decoded(words)) /\ Len(D[pc]) = Len(s) + 1 /\ D[pc][1] = x
          /\ \A i \in 2..Len(s) + 1 : D[pc][i] = s[i - 1]
      BY <3>1, <3>2, <3>4, InFront DEF Ascending
    <3>6. /\ Len(s) \in Nat
          /\ \A i \in 1..Len(s) : s[i].pc \in Nat /\ s[i].pc >= pc + 1
      BY <3>4, DecodedAt DEF Ascending
    <3>7. \A i \in 1..Len(D[pc]) : D[pc][i].pc >= pc
      <4> TAKE i \in 1..Len(D[pc])
      <4>1. CASE i = 1
        BY <3>2, <3>5, <4>1
      <4>2. CASE i > 1
        <5>1. i - 1 \in 1..Len(s) /\ D[pc][i] = s[i - 1]
          BY <3>5, <3>6, <4>2
        <5> QED BY <3>6, <5>1
      <4> QED BY <4>1, <4>2
    <3>8. ASSUME NEW i \in 1..Len(D[pc]), NEW j \in 1..Len(D[pc]), i < j
          PROVE  D[pc][i].pc < D[pc][j].pc
      <4>1. j - 1 \in 1..Len(s) /\ D[pc][j] = s[j - 1]
        BY <3>5, <3>6, <3>8
      <4>2. CASE i = 1
        <5>1. D[pc][i].pc = pc
          BY <3>2, <3>5, <4>2
        <5>2. D[pc][j].pc \in Nat /\ D[pc][j].pc >= pc + 1
          BY <3>6, <4>1
        <5> QED BY <5>1, <5>2
      <4>3. CASE i > 1
        <5>1. i - 1 \in 1..Len(s) /\ D[pc][i] = s[i - 1] /\ i - 1 < j - 1
          BY <3>5, <3>6, <3>8, <4>3
        <5> QED BY <3>4, <4>1, <5>1 DEF Ascending
      <4> QED BY <4>2, <4>3
    <3> QED BY <3>5, <3>7, <3>8 DEF Ascending
  <2> QED BY <1>1, <2>2, <2>3, <2>4
<1>3. 0..top \subseteq S
  <2> HIDE DEF S
  <2> QED BY <1>1, <1>2, Downward
<1>4. \A pc \in 0..top : Ascending(words, pc, D[pc])
  BY <1>3
<1>5. 0 \in 0..top
  BY <1>1
<1> QED BY <1>4, <1>5 DEF Decode

-----------------------------------------------------------------------------
(* ShaderExtract.                                                          *)

\* No instruction of s has the first EXIT word as its second half.
NoHalf(words, s) ==
    \A i \in DOMAIN s :
        ~(Size(s[i].op) = 2 /\ s[i].pc + 2 <= Len(words) /\ words[s[i].pc + 2].op = "EXIT")

LEMMA AvailableWords ==
  ASSUME NEW words \in Seq(InstructionWord)
  PROVE  /\ Available(words) \in 0..Len(words)
         /\ Available(words) = Len(words) \/ (Available(words) = MaxSize /\ Len(words) > MaxSize)
BY WordsAssumption DEF Available

(* The beginning of a binary is a binary.                                  *)
LEMMA Beginning ==
  ASSUME NEW words \in Seq(InstructionWord), NEW n \in 0..Len(words)
  PROVE  /\ SubSeq(words, 1, n) \in Seq(InstructionWord) /\ Len(SubSeq(words, 1, n)) = n
         /\ \A i \in 1..n : SubSeq(words, 1, n)[i] = words[i]
         /\ n = Len(words) => SubSeq(words, 1, n) = words
OBVIOUS

(* Where ExtractShader cuts a binary: not at all, at the first EXIT, or at *)
(* max_size.                                                               *)
LEMMA ExtractEnds ==
  ASSUME NEW words \in Seq(InstructionWord)
  PROVE  /\ Extract(words) \in Seq(InstructionWord)
         /\ \/ Extract(words) = words
            \/ CutOff(words)
            \/ \E n \in 1..Len(words) :
                 /\ words[n].op = "EXIT" /\ \A i \in 1..n - 1 : words[i].op # "EXIT"
                 /\ Len(Extract(words)) = n
                 /\ \A i \in 1..n : Extract(words)[i] = words[i]
<1> DEFINE exits == ExitWords(words)
<1>0. /\ Available(words) \in 0..Len(words) /\ Len(words) \in Nat
      /\ Available(words) = Len(words) \/ (Available(words) = MaxSize /\ Len(words) > MaxSize)
  BY AvailableWords
<1>1. CASE exits = {}
  <2>1. Extract(words) = SubSeq(words, 1, Available(words))
    BY <1>1 DEF Extract
  <2>2. Extract(words) \in Seq(InstructionWord)
        /\ (Available(words) = Len(words) => Extract(words) = words)
    BY <1>0, <2>1, Beginning
  <2> QED BY <1>0, <1>1, <2>2 DEF CutOff
<1>2. CASE exits # {}
  <2>1. exits \subseteq Nat
    BY <1>0 DEF ExitWords
  <2>2. PICK n \in exits : \A m \in exits : n <= m
    <3> HIDE DEF exits
    <3> QED BY <1>2, <2>1, LeastNat
  <2>3. n = Min(exits)
    <3>1. \A m \in exits : (\A k \in exits : m <= k) => m = n
      BY <2>1, <2>2
    <3> HIDE DEF exits
    <3> QED BY <2>2, <3>1, Zenon DEF Min
  <2>4. Extract(words) = SubSeq(words, 1, n)
    BY <1>2, <2>3, Zenon DEF Extract
  <2>5. n \in 1..Available(words) /\ words[n].op = "EXIT"
    BY DEF ExitWords
  <2>6. n \in 1..Len(words) /\ n \in 0..Len(words) /\ \A i \in 1..n - 1 : i \in 1..Available(words)
    BY <1>0, <2>5
  <2>7. ASSUME NEW i \in 1..n - 1 PROVE words[i].op # "EXIT"
    <3>1. i \notin exits
      BY <2>2, <2>5, <2>6
    <3> QED BY <2>6, <3>1 DEF ExitWords
  <2> HIDE DEF exits
  <2> QED BY <2>4, <2>5, <2>6, <2>7, Beginning
<1> QED BY <1>1, <1>2

(* Up to its first EXIT a binary decodes alike, if the decoder reads that  *)
(* word as an instruction.                                                 *)
LEMMA CutAlike ==
  ASSUME NEW words \in Seq(InstructionWord), NEW cut \in Seq(InstructionWord),
         NEW n \in 1..Len(words), words[n].op = "EXIT",
         \A i \in 1..n - 1 : words[i].op # "EXIT",
         Len(cut) = n, \A i \in 1..n : cut[i] = words[i],
         NoHalf(words, Decode(words))
  PROVE  Decode(cut) = Decode(words)
<1> DEFINE D == DecodeFrom(words)
           C == DecodeFrom(cut)
           S == {pc \in 0..n - 1 : NoHalf(words, D[pc]) => C[pc] = D[pc]}
<1>1. n - 1 \in Nat /\ Len(words) \in Nat /\ n <= Len(words)
  OBVIOUS
<1>2. ASSUME NEW pc \in 0..n - 1, \A q \in pc + 1..n - 1 : q \in S
      PROVE  pc \in S
  <2> SUFFICES ASSUME NoHalf(words, D[pc]) PROVE C[pc] = D[pc]
    OBVIOUS
  <2>1. pc \in 0..Len(words) + 1 /\ pc \in 0..Len(cut) + 1 /\ pc < Len(words) /\ pc < Len(cut)
        /\ pc + 1 \in 1..n
    BY <1>1
  <2>2. D[pc] = Round(words, D, pc) /\ C[pc] = Round(cut, C, pc)
    BY <2>1, DecodeRound
  <2>3. \A q \in pc + 1..n - 1 : NoHalf(words, D[q]) => C[q] = D[q]
    BY <1>2
  <2> HIDE DEF D, C, S
  <2> DEFINE w == words[pc + 1]
             k == Size(w.op)
  <2>4. cut[pc + 1] = w
    BY <2>1
  <2>5. CASE w.op \notin Known
    <3>1. D[pc] = D[pc + 1] /\ C[pc] = C[pc + 1]
      BY <2>1, <2>2, <2>4, <2>5 DEF Round
    <3>2. pc + 1 # n
      BY <2>5 DEF Known, Exits
    <3>3. pc + 1 \in pc + 1..n - 1
      BY <1>1, <3>2
    <3> QED BY <2>3, <3>1, <3>3
  <2>6. CASE w.op = "EXIT"
    <3>1. w.op \in Known
      BY <2>6 DEF Known, Exits
    <3> QED BY <2>1, <2>2, <2>4, <2>6, <3>1 DEF Round
  <2>7. CASE w.op \in Known /\ w.op # "EXIT"
    <3> DEFINE x == ToIr(w, pc)
    <3>1. D[pc] = <<x>> \o D[pc + k] /\ C[pc] = <<x>> \o C[pc + k]
      <4>1. ~(pc >= Len(words)) /\ ~(pc >= Len(cut))
        BY <2>1
      <4>2. D[pc] = <<x>> \o D[pc + k]
        BY <2>2, <2>7, <4>1, Zenon DEF Round
      <4>3. C[pc] = <<x>> \o C[pc + k]
        BY <2>2, <2>4, <2>7, <4>1, Zenon DEF Round
      <4> QED BY <4>2, <4>3
    <3>2. k \in {1, 2} /\ x.op = w.op /\ x.pc = pc
      BY DEF Size, ToIr
    <3>3. pc + 1 # n
      BY <2>7
    <3>4. x \in Decoded(words) /\ D[pc + k] \in Seq(Decoded(words))
      <4>1. pc \in 0..Len(words) - 1 /\ pc + k \in 0..Len(words) + 1
        BY <1>1, <2>1, <3>2
      <4> QED BY <2>7, <4>1, DecodedAt, DecodeAscends DEF Ascending, D
    <3> HIDE DEF x
    <3> DEFINE s == D[pc + k]
    <3>5. /\ D[pc] \in Seq(Decoded(words)) /\ Len(D[pc]) = Len(s) + 1 /\ D[pc][1] = x
          /\ \A i \in 1..Len(s) : D[pc][i + 1] = s[i]
      BY <3>1, <3>4, InFront
    <3>6. pc + k \in pc + 1..n - 1
      <4>1. CASE k = 1
        BY <1>1, <3>3, <4>1
      <4>2. CASE k = 2
        <5>1. pc + 2 # n
          <6>1. 1 \in DOMAIN D[pc]
            BY <3>4, <3>5
          <6>2. ~(Size(D[pc][1].op) = 2 /\ D[pc][1].pc + 2 <= Len(words)
                  /\ words[D[pc][1].pc + 2].op = "EXIT")
            BY <6>1 DEF NoHalf
          <6> QED BY <1>1, <3>2, <3>5, <4>2, <6>2
        <5> QED BY <1>1, <3>3, <4>2, <5>1
      <4> HIDE DEF k
      <4> QED BY <3>2, <4>1, <4>2
    <3>7. NoHalf(words, s)
      <4>1. s \in Seq(Decoded(words)) /\ DOMAIN s = 1..Len(s) /\ DOMAIN D[pc] = 1..Len(s) + 1
            /\ Len(s) \in Nat
        BY <3>4, <3>5
      <4> HIDE DEF s
      <4>2. \A i \in DOMAIN s : i + 1 \in DOMAIN D[pc] /\ D[pc][i + 1] = s[i]
        <5> TAKE i \in DOMAIN s
        <5>1. i \in 1..Len(s) /\ i + 1 \in 1..Len(s) + 1
          BY <4>1
        <5> QED BY <3>5, <4>1, <5>1
      <4>3. ASSUME NEW i \in DOMAIN s
            PROVE  ~(Size(s[i].op) = 2 /\ s[i].pc + 2 <= Len(words)
                     /\ words[s[i].pc + 2].op = "EXIT")
        <5> DEFINE j == i + 1
        <5>1. j \in DOMAIN D[pc] /\ D[pc][j] = s[i]
          BY <4>2
        <5> HIDE DEF j
        <5>2. ~(Size(D[pc][j].op) = 2 /\ D[pc][j].pc + 2 <= Len(words)
                /\ words[D[pc][j].pc + 2].op = "EXIT")
          BY <5>1, Zenon DEF NoHalf
        <5> QED BY <5>1, <5>2, Zenon
      <4> QED BY <4>3, Zenon DEF NoHalf
    <3>8. C[pc + k] = D[pc + k]
      BY <2>3, <3>6, <3>7
    <3> QED BY <3>1, <3>8
  <2> QED BY <2>5, <2>6, <2>7
<1>3. 0 \in S
  <2> HIDE DEF S
  <2>1. 0..n - 1 \subseteq S
    BY <1>1, <1>2, Downward
  <2>2. 0 \in 0..n - 1
    BY <1>1
  <2> QED BY <2>1, <2>2
<1> QED BY <1>3 DEF Decode

(* Cutting a binary at its first EXIT loses no instruction.                *)
LEMMA ExtractSame ==
  ASSUME NEW words \in Seq(InstructionWord), ~SecondHalf(words), ~CutOff(words)
  PROVE  Decode(Extract(words)) = Decode(words)
<1>1. NoHalf(words, Decode(words))
  BY DEF NoHalf, SecondHalf
<1> QED BY <1>1, ExtractEnds, CutAlike

-----------------------------------------------------------------------------
(* The program stays the one that was decoded.                             *)

ProgramInv ==
    /\ region \in Seq(InstructionWord)
    /\ at \in Nat
    /\ at = 0 => prog = <<>> /\ em = Empty
    /\ at > 0 => prog = Decode(Extract(region))

LEMMA ProgramInductive == ProgramInv /\ [ShaderNext]_shaderVars => ProgramInv'
<1> SUFFICES ASSUME ProgramInv, [ShaderNext]_shaderVars PROVE ProgramInv'
  OBVIOUS
<1>1. CASE UNCHANGED shaderVars
  BY <1>1 DEF ProgramInv, shaderVars
<1>2. CASE DecodeShader
  BY <1>2 DEF ProgramInv, DecodeShader
<1>3. ASSUME at > 0 \/ prog # <<>>, at' = at + 1, UNCHANGED <<region, prog>> PROVE ProgramInv'
  BY <1>3 DEF ProgramInv
<1>4. CASE EmitControl \/ EmitData
  <2>1. at \in DOMAIN prog /\ at' = at + 1 /\ UNCHANGED <<region, prog>>
    BY <1>4 DEF EmitControl, EmitData, Emit
  <2>2. prog # <<>>
    BY <2>1
  <2> QED BY <1>3, <2>1, <2>2
<1>5. CASE EmitEnd
  BY <1>3, <1>5 DEF EmitEnd
<1> QED BY <1>1, <1>2, <1>4, <1>5 DEF ShaderNext

LEMMA ProgramInvariant == ShaderSpec => []ProgramInv
<1>1. ShaderInit => ProgramInv
  BY WordsAssumption DEF ShaderInit, ProgramInv
<1> QED BY <1>1, ProgramInductive, PTL DEF ShaderSpec

(* ShaderExtract stops at the first word with EXIT's opcode bits without   *)
(* knowing where instructions begin.  The program is still the one the     *)
(* whole region decodes to, unless that word is half an instruction or no  *)
(* such word is within max_size.                                           *)
THEOREM ExtractionKeeps == ShaderSpec => []ExtractKeepsProgram
<1>1. ProgramInv => ExtractKeepsProgram
  BY ExtractSame DEF ProgramInv, ExtractKeepsProgram
<1> QED BY <1>1, ProgramInvariant, PTL

-----------------------------------------------------------------------------
(* The emitter's state, and what each arm of its loop does to it.          *)

Entry == [ssy: Nat, sync: Nat, type: {"Normal", "Loop", "Selection"}, merge: Nat]

\* The fields of the emitter; labels are numbered by AllocId and belong to one
\* pc each.
IsEmitter(e) ==
    /\ e = [out |-> e.out, labels |-> e.labels, emitted |-> e.emitted,
            stack |-> e.stack, preds |-> e.preds, next |-> e.next]
    /\ e.out \in Seq(Range(e.out))
    /\ e.stack \in Seq(Entry)
    /\ e.next \in Nat \ {0}
    /\ \A t \in DOMAIN e.labels : e.labels[t] \in 1..e.next - 1
    /\ \A t, u \in DOMAIN e.labels : e.labels[t] = e.labels[u] => t = u

\* What was emitted stays, and labels keep their ids or get new ones.
Grows(e, f) ==
    /\ Len(e.out) <= Len(f.out) /\ \A n \in 1..Len(e.out) : f.out[n] = e.out[n]
    /\ e.next <= f.next
    /\ \A t \in DOMAIN f.labels : \/ t \in DOMAIN e.labels /\ f.labels[t] = e.labels[t]
                                  \/ f.labels[t] >= e.next

\* The emitter announces no merge and leaves the stack alone.
Quiet(e, f) ==
    /\ IsEmitter(f) /\ Grows(e, f) /\ f.stack = e.stack
    /\ \A n \in Len(e.out) + 1..Len(f.out) : f.out[n].kind # "merge"

LEMMA AppendTo ==
  ASSUME NEW s, s \in Seq(Range(s)), NEW x
  PROVE  /\ Append(s, x) \in Seq(Range(Append(s, x)))
         /\ Len(s) \in Nat /\ Len(Append(s, x)) = Len(s) + 1
         /\ \A n \in 1..Len(s) : Append(s, x)[n] = s[n]
         /\ Append(s, x)[Len(s) + 1] = x
<1> DEFINE T == Range(s) \cup {x}
           u == Append(s, x)
<1>1. s \in Seq(T) /\ x \in T
  BY SeqMonotonic
<1> HIDE DEF T
<1>2. /\ u \in Seq(T) /\ Len(s) \in Nat /\ Len(u) = Len(s) + 1
      /\ \A n \in 1..Len(s) : u[n] = s[n]
      /\ u[Len(s) + 1] = x
  BY <1>1
<1> HIDE DEF u
<1>3. u \in Seq(Range(u))
  BY <1>2, SeqOfRange
<1> QED BY <1>2, <1>3 DEF u

LEMMA GrowsMore ==
  ASSUME NEW e, NEW f, NEW g, IsEmitter(e), IsEmitter(f), IsEmitter(g), Grows(e, f), Grows(f, g)
  PROVE  Grows(e, g)
<1>1. Len(e.out) \in Nat /\ Len(f.out) \in Nat /\ Len(g.out) \in Nat
      /\ e.next \in Nat /\ f.next \in Nat /\ g.next \in Nat
  BY DEF IsEmitter
<1>2. Len(e.out) <= Len(g.out) /\ e.next <= g.next
  BY <1>1 DEF Grows
<1>3. ASSUME NEW n \in 1..Len(e.out) PROVE g.out[n] = e.out[n]
  <2>1. n \in 1..Len(f.out)
    BY <1>1 DEF Grows
  <2> QED BY <2>1 DEF Grows
<1>4. ASSUME NEW t \in DOMAIN g.labels
      PROVE  \/ t \in DOMAIN e.labels /\ g.labels[t] = e.labels[t]
             \/ g.labels[t] >= e.next
  <2>1. g.labels[t] \in Nat
    BY <1>4, <1>1 DEF IsEmitter
  <2>2. CASE t \in DOMAIN f.labels /\ g.labels[t] = f.labels[t]
    BY <2>2 DEF Grows
  <2>3. CASE g.labels[t] >= f.next
    BY <1>1, <2>1, <2>3 DEF Grows
  <2> QED BY <1>4, <2>2, <2>3 DEF Grows
<1> QED BY <1>2, <1>3, <1>4 DEF Grows

LEMMA QuietMore ==
  ASSUME NEW e, NEW f, NEW g, IsEmitter(e), Quiet(e, f), Quiet(f, g)
  PROVE  Quiet(e, g)
<1>1. IsEmitter(f) /\ IsEmitter(g) /\ Grows(e, g) /\ g.stack = e.stack
  BY GrowsMore DEF Quiet
<1>2. Len(e.out) \in Nat /\ Len(f.out) \in Nat /\ Len(g.out) \in Nat
  BY <1>1 DEF IsEmitter
<1>3. ASSUME NEW n \in Len(e.out) + 1..Len(g.out) PROVE g.out[n].kind # "merge"
  <2>1. CASE n <= Len(f.out)
    <3>1. n \in 1..Len(f.out) /\ n \in Len(e.out) + 1..Len(f.out)
      BY <1>2, <2>1
    <3>2. g.out[n] = f.out[n]
      BY <3>1 DEF Quiet, Grows
    <3> QED BY <3>1, <3>2 DEF Quiet
  <2>2. CASE n > Len(f.out)
    <3>1. n \in Len(f.out) + 1..Len(g.out)
      BY <1>2, <2>2
    <3> QED BY <3>1 DEF Quiet
  <2> QED BY <1>2, <2>1, <2>2
<1> QED BY <1>1, <1>3 DEF Quiet

LEMMA QuietSelf ==
  ASSUME NEW e, IsEmitter(e)
  PROVE  Quiet(e, e)
BY DEF Quiet, Grows, IsEmitter

(* words_.push_back: one more instruction of the function.                 *)
LEMMA AppendOut ==
  ASSUME NEW e, IsEmitter(e), NEW x, NEW f,
         f = [e EXCEPT !.out = Append(@, x)]
  PROVE  /\ IsEmitter(f) /\ Grows(e, f) /\ f.stack = e.stack /\ f.labels = e.labels
         /\ f.next = e.next /\ Len(f.out) = Len(e.out) + 1 /\ f.out[Len(e.out) + 1] = x
         /\ x.kind # "merge" => Quiet(e, f)
<1>1. /\ f.out = Append(e.out, x) /\ f.labels = e.labels /\ f.emitted = e.emitted
      /\ f.stack = e.stack /\ f.preds = e.preds /\ f.next = e.next
      /\ f = [out |-> f.out, labels |-> f.labels, emitted |-> f.emitted,
              stack |-> f.stack, preds |-> f.preds, next |-> f.next]
  BY DEF IsEmitter
<1>2. /\ f.out \in Seq(Range(f.out)) /\ Len(e.out) \in Nat /\ Len(f.out) = Len(e.out) + 1
      /\ \A n \in 1..Len(e.out) : f.out[n] = e.out[n]
      /\ f.out[Len(e.out) + 1] = x
  BY <1>1, AppendTo DEF IsEmitter
<1>3. IsEmitter(f)
  BY <1>1, <1>2 DEF IsEmitter
<1>4. Grows(e, f)
  BY <1>1, <1>2 DEF Grows, IsEmitter
<1>5. ASSUME x.kind # "merge" PROVE Quiet(e, f)
  <2>1. \A n \in Len(e.out) + 1..Len(f.out) : n = Len(e.out) + 1
    BY <1>2
  <2> QED BY <1>1, <1>2, <1>3, <1>4, <1>5, <2>1 DEF Quiet
<1> QED BY <1>1, <1>2, <1>3, <1>4, <1>5

(* AllocId for the label of pc.                                            *)
LEMMA AllocLabel ==
  ASSUME NEW e, IsEmitter(e), NEW pc, NEW f,
         f = [e EXCEPT !.labels = SetLabel(@, pc, e.next), !.next = @ + 1]
  PROVE  /\ Quiet(e, f) /\ f.out = e.out /\ pc \in DOMAIN f.labels /\ f.labels[pc] = e.next
<1>1. /\ f.out = e.out /\ f.labels = SetLabel(e.labels, pc, e.next) /\ f.emitted = e.emitted
      /\ f.stack = e.stack /\ f.preds = e.preds /\ f.next = e.next + 1
      /\ f = [out |-> f.out, labels |-> f.labels, emitted |-> f.emitted,
              stack |-> f.stack, preds |-> f.preds, next |-> f.next]
  BY DEF IsEmitter
<1>2. /\ DOMAIN f.labels = DOMAIN e.labels \cup {pc} /\ f.labels[pc] = e.next
      /\ \A t \in DOMAIN e.labels : t # pc => f.labels[t] = e.labels[t]
  BY <1>1 DEF SetLabel
<1>3. e.next \in Nat \ {0} /\ \A t \in DOMAIN e.labels : e.labels[t] \in 1..e.next - 1
  BY DEF IsEmitter
<1>4. \A t \in DOMAIN f.labels : f.labels[t] \in 1..f.next - 1
  BY <1>1, <1>2, <1>3
<1>5. ASSUME NEW t \in DOMAIN f.labels, NEW u \in DOMAIN f.labels, f.labels[t] = f.labels[u]
      PROVE  t = u
  <2>1. CASE t # pc /\ u # pc
    BY <1>2, <1>5, <2>1 DEF IsEmitter
  <2>2. CASE t = pc \/ u = pc
    <3>1. \A v \in DOMAIN f.labels : v # pc => f.labels[v] # e.next
      BY <1>2, <1>3
    <3> QED BY <1>2, <1>5, <2>2, <3>1
  <2> QED BY <2>1, <2>2
<1>6. IsEmitter(f)
  BY <1>1, <1>3, <1>4, <1>5 DEF IsEmitter
<1>7. Len(e.out) \in Nat /\ Grows(e, f)
  BY <1>1, <1>2, <1>3 DEF Grows, IsEmitter
<1>8. \A n \in Len(e.out) + 1..Len(f.out) : f.out[n].kind # "merge"
  BY <1>1, <1>7
<1> QED BY <1>1, <1>2, <1>6, <1>7, <1>8 DEF Quiet

LEMMA ReserveQuiet ==
  ASSUME NEW e, IsEmitter(e), NEW pc
  PROVE  /\ Quiet(e, ReserveLabel(e, pc)) /\ pc \in DOMAIN ReserveLabel(e, pc).labels
         /\ ReserveLabel(e, pc).out = e.out
<1>1. CASE pc \in DOMAIN e.labels
  BY <1>1, QuietSelf DEF ReserveLabel
<1>2. CASE pc \notin DOMAIN e.labels
  <2> DEFINE f == [e EXCEPT !.labels = SetLabel(@, pc, e.next), !.next = @ + 1]
  <2>1. ReserveLabel(e, pc) = f
    BY <1>2 DEF ReserveLabel
  <2>2. Quiet(e, f)
    BY AllocLabel
  <2>3. f.out = e.out /\ pc \in DOMAIN f.labels
    BY DEF IsEmitter, SetLabel
  <2> HIDE DEF f
  <2> QED BY <2>1, <2>2, <2>3
<1> QED BY <1>1, <1>2

(* The sets of emitted blocks and of predicate variables announce nothing. *)
LEMMA SetsQuiet ==
  ASSUME NEW e, IsEmitter(e), NEW blocks, NEW vs, NEW f,
         f = [out |-> e.out, labels |-> e.labels, emitted |-> blocks,
              stack |-> e.stack, preds |-> vs, next |-> e.next]
  PROVE  Quiet(e, f)
<1>1. /\ f.out = e.out /\ f.labels = e.labels /\ f.emitted = blocks
      /\ f.stack = e.stack /\ f.preds = vs /\ f.next = e.next
  OBVIOUS
<1>2. f = [out |-> f.out, labels |-> f.labels, emitted |-> f.emitted,
           stack |-> f.stack, preds |-> f.preds, next |-> f.next]
  BY <1>1
<1>3. IsEmitter(f)
  BY <1>1, <1>2 DEF IsEmitter
<1>4. Quiet(e, e)
  BY QuietSelf
<1> QED BY <1>1, <1>3, <1>4 DEF Quiet, Grows

LEMMA BlockQuiet ==
  ASSUME NEW e, IsEmitter(e), NEW i
  PROVE  Quiet(e, AtBlockStart(e, i))
<1>1. CASE AtBlockStart(e, i) = e
  BY <1>1, QuietSelf
<1>2. CASE i.pc \in BlockStarts(prog) /\ i.pc \notin e.emitted
  <2> DEFINE x == [kind |-> "label", pc |-> i.pc, id |-> e.next]
             f == [e EXCEPT !.labels = SetLabel(@, i.pc, e.next), !.next = @ + 1]
             g == [f EXCEPT !.out = Append(@, x)]
             h == [out |-> g.out, labels |-> g.labels, emitted |-> e.emitted \cup {i.pc},
                   stack |-> g.stack, preds |-> g.preds, next |-> g.next]
  <2>1. AtBlockStart(e, i) = h
    <3>1. /\ g.out = Append(e.out, x) /\ g.labels = SetLabel(e.labels, i.pc, e.next)
          /\ g.stack = e.stack /\ g.preds = e.preds /\ g.next = e.next + 1
      BY DEF IsEmitter
    <3>2. AtBlockStart(e, i) =
            [e EXCEPT !.out = Append(@, x), !.labels = SetLabel(@, i.pc, e.next),
                      !.emitted = @ \cup {i.pc}, !.next = @ + 1]
      BY <1>2 DEF AtBlockStart
    <3> HIDE DEF g, x
    <3> QED BY <3>1, <3>2 DEF IsEmitter
  <2>2. Quiet(e, f)
    BY AllocLabel
  <2>3. IsEmitter(f) /\ x.kind # "merge"
    BY <2>2 DEF Quiet
  <2> HIDE DEF f, x
  <2>4. Quiet(f, g)
    BY <2>3, AppendOut, Zenon
  <2> HIDE DEF g
  <2>5. IsEmitter(g)
    BY <2>4 DEF Quiet
  <2>6. Quiet(g, h)
    BY <2>5, SetsQuiet
  <2> HIDE DEF h
  <2>7. Quiet(e, g)
    BY <2>2, <2>4, QuietMore
  <2> QED BY <2>1, <2>6, <2>7, QuietMore
<1> QED BY <1>1, <1>2 DEF AtBlockStart

LEMMA BranchQuiet ==
  ASSUME NEW e, IsEmitter(e), NEW i, NEW pc
  PROVE  Quiet(e, BranchTo(e, i, pc))
<1> DEFINE f == ReserveLabel(e, pc)
           x == Jump(i, {f.labels[pc]}, {})
           g == [f EXCEPT !.out = Append(@, x)]
<1>1. BranchTo(e, i, pc) = g
  BY DEF BranchTo
<1>2. Quiet(e, f) /\ IsEmitter(f)
  BY ReserveQuiet DEF Quiet
<1>3. x.kind # "merge"
  BY DEF Jump
<1> HIDE DEF f, x
<1>4. Quiet(f, g)
  BY <1>2, <1>3, AppendOut, Zenon
<1> HIDE DEF g
<1> QED BY <1>1, <1>2, <1>4, QuietMore

LEMMA KilQuiet ==
  ASSUME NEW e, IsEmitter(e), NEW i
  PROVE  Quiet(e, Kil(e, i))
<1> DEFINE x == [kind |-> "kill", pc |-> i.pc]
<1>1. Kil(e, i) = [e EXCEPT !.out = Append(@, x)] /\ x.kind # "merge"
  BY DEF Kil
<1> HIDE DEF x
<1> QED BY <1>1, AppendOut, Zenon

LEMMA LeaveQuiet ==
  ASSUME NEW e, IsEmitter(e), NEW i
  PROVE  Quiet(e, Break(e, i)) /\ Quiet(e, Cont(e, i))
BY QuietSelf, BranchQuiet, Zenon DEF Break, Cont

LEMMA JumpQuiet ==
  ASSUME NEW e, NEW i, IsEmitter(Merge(e, i))
  PROVE  Quiet(Merge(e, i), EmitBra(e, i))
<1>1. CASE i.guard = 0
  <2>1. EmitBra(e, i) = BranchTo(Merge(e, i), i, i.to)
    BY <1>1 DEF EmitBra, Bra
  <2> QED BY <2>1, BranchQuiet
<1>2. CASE i.guard # 0
  <2> DEFINE m == Merge(e, i)
             next == FallThrough(at)
             d == ReserveLabel(m, i.to)
             f == ReserveLabel(d, next)
             x == Jump(i, {f.labels[i.to], f.labels[next]}, {i.guard} \cap f.preds)
             y == [kind |-> "label", pc |-> next, id |-> f.labels[next]]
             g == [f EXCEPT !.out = Append(@, x)]
             h == [g EXCEPT !.out = Append(@, y)]
             r == [out |-> h.out, labels |-> h.labels, emitted |-> f.emitted \cup {next},
                   stack |-> h.stack, preds |-> h.preds, next |-> h.next]
  <2>1. EmitBra(e, i) = [f EXCEPT !.out = @ \o <<x, y>>, !.emitted = @ \cup {next}]
    BY <1>2 DEF EmitBra, BraGuarded
  <2>2. x.kind # "merge" /\ y.kind # "merge"
    BY DEF Jump
  <2>3. Quiet(m, d) /\ Quiet(d, f) /\ IsEmitter(f)
    BY ReserveQuiet DEF Quiet
  <2> HIDE DEF m, next, d, f, x, y
  <2>4. Quiet(f, g) /\ IsEmitter(g)
    BY <2>2, <2>3, AppendOut, Zenon
  <2>5. Quiet(g, h) /\ IsEmitter(h)
    <3> HIDE DEF g
    <3> QED BY <2>2, <2>4, AppendOut, Zenon
  <2>6. Quiet(h, r)
    <3> HIDE DEF h
    <3> QED BY <2>5, SetsQuiet
  <2>7. EmitBra(e, i) = r
    <3>1. h.out = Append(Append(f.out, x), y)
      BY <2>3 DEF IsEmitter
    <3>2. f.out \o <<x, y>> = Append(Append(f.out, x), y)
      BY <2>3 DEF IsEmitter
    <3>3. h.labels = f.labels /\ h.stack = f.stack /\ h.preds = f.preds /\ h.next = f.next
      BY <2>3 DEF IsEmitter
    <3> HIDE DEF h
    <3> QED BY <2>1, <2>3, <3>1, <3>2, <3>3 DEF IsEmitter
  <2> HIDE DEF g, h, r
  <2>8. Quiet(m, f) /\ IsEmitter(m)
    BY <2>3, QuietMore DEF m
  <2>9. Quiet(m, g)
    BY <2>4, <2>8, QuietMore
  <2>10. Quiet(m, h)
    BY <2>5, <2>8, <2>9, QuietMore
  <2>11. Quiet(m, r)
    BY <2>6, <2>8, <2>10, QuietMore
  <2> QED BY <2>7, <2>11 DEF m
<1> QED BY <1>1, <1>2

LEMMA InstructionQuiet ==
  ASSUME NEW e, IsEmitter(e), NEW i
  PROVE  Quiet(e, Instruction(e, i))
<1> DEFINE x == [kind |-> "predicate", pc |-> i.pc, var |-> i.dest]
           y == [kind |-> "store", pc |-> i.pc, var |-> i.dest]
           f == [e EXCEPT !.out = Append(@, x)]
           g == [out |-> f.out, labels |-> f.labels, emitted |-> f.emitted,
                 stack |-> f.stack, preds |-> e.preds \cup {i.dest}, next |-> f.next]
<1>1. CASE Instruction(e, i) = e
  BY <1>1, QuietSelf
<1>2. CASE Instruction(e, i) = [e EXCEPT !.preds = @ \cup {i.dest}, !.out = Append(@, x)]
  <2>1. Instruction(e, i) = g
    BY <1>2 DEF IsEmitter
  <2>2. x.kind # "merge"
    OBVIOUS
  <2> HIDE DEF x
  <2>3. Quiet(e, f) /\ IsEmitter(f)
    BY <2>2, AppendOut, Zenon
  <2> HIDE DEF f
  <2>4. Quiet(f, g)
    BY <2>3, SetsQuiet
  <2> HIDE DEF g
  <2> QED BY <2>1, <2>3, <2>4, QuietMore
<1>3. CASE Instruction(e, i) = [e EXCEPT !.out = Append(@, y)]
  <2>1. y.kind # "merge"
    OBVIOUS
  <2> HIDE DEF y
  <2> QED BY <1>3, <2>1, AppendOut, Zenon
<1>4. Stores(i) \in BOOLEAN
  BY DEF Stores
<1> QED BY <1>1, <1>2, <1>3, <1>4 DEF Instruction

(* The deferred merge is announced once and taken off its entry.           *)
LEMMA MergeEffect ==
  ASSUME NEW e, IsEmitter(e), NEW i, e.stack # <<>>
  PROVE  /\ IsEmitter(Merge(e, i)) /\ Grows(e, Merge(e, i))
         /\ Merge(e, i).labels = e.labels /\ Merge(e, i).next = e.next
         /\ Len(e.stack) \in Nat \ {0} /\ Len(Merge(e, i).stack) = Len(e.stack)
         /\ \A k \in 1..Len(e.stack) - 1 : Merge(e, i).stack[k] = e.stack[k]
         /\ Merge(e, i).stack[Len(e.stack)] = [Top(e) EXCEPT !.merge = 0]
         /\ \/ Merge(e, i).out = e.out
            \/ /\ Top(e).merge # 0
               /\ Len(Merge(e, i).out) = Len(e.out) + 1
               /\ Merge(e, i).out[Len(e.out) + 1].kind = "merge"
               /\ Merge(e, i).out[Len(e.out) + 1].id = Top(e).merge
<1> DEFINE L == Len(e.stack)
           x == [kind |-> "merge", pc |-> i.pc, id |-> Top(e).merge]
           f == [e EXCEPT !.out = Append(@, x)]
           st == [e.stack EXCEPT ![L].merge = 0]
<1>1. L \in Nat \ {0} /\ L \in 1..L /\ Top(e) = e.stack[L] /\ Top(e) \in Entry /\ e.stack \in Seq(Entry)
  BY DEF IsEmitter, Top
<1>2. /\ st \in Seq(Entry) /\ Len(st) = L /\ st[L] = [Top(e) EXCEPT !.merge = 0]
      /\ \A k \in 1..L - 1 : st[k] = e.stack[k]
  <2>1. [Top(e) EXCEPT !.merge = 0] \in Entry
    BY <1>1 DEF Entry
  <2>2. st = [e.stack EXCEPT ![L] = [Top(e) EXCEPT !.merge = 0]]
    BY <1>1
  <2> HIDE DEF st
  <2> DEFINE y == [Top(e) EXCEPT !.merge = 0]
  <2>3. y \in Entry /\ st = [e.stack EXCEPT ![L] = y]
    BY <2>1, <2>2
  <2> HIDE DEF y
  <2>4. /\ st \in Seq(Entry) /\ Len(st) = L /\ st[L] = y
        /\ \A k \in 1..L - 1 : st[k] = e.stack[k]
    BY <1>1, <2>3
  <2> QED BY <2>4 DEF y
<1> HIDE DEF st
<1>3. ASSUME NEW d, IsEmitter(d), Grows(e, d), d.stack = e.stack, d.labels = e.labels, d.next = e.next,
             NEW m, m = [out |-> d.out, labels |-> e.labels, emitted |-> e.emitted,
                         stack |-> st, preds |-> e.preds, next |-> e.next]
      PROVE  /\ IsEmitter(m) /\ Grows(e, m) /\ m.labels = e.labels /\ m.next = e.next
             /\ m.stack = st /\ m.out = d.out
  <2>1. /\ m.out = d.out /\ m.labels = e.labels /\ m.emitted = e.emitted
        /\ m.stack = st /\ m.preds = e.preds /\ m.next = e.next
    BY <1>3
  <2>2. m = [out |-> m.out, labels |-> m.labels, emitted |-> m.emitted,
             stack |-> m.stack, preds |-> m.preds, next |-> m.next]
    BY <1>3, <2>1
  <2>3. IsEmitter(m)
    BY <1>2, <1>3, <2>1, <2>2 DEF IsEmitter
  <2>4. Grows(e, m)
    BY <1>3, <2>1 DEF Grows
  <2> QED BY <2>1, <2>3, <2>4
<1>4. CASE Top(e).merge # 0 /\ Top(e).type # "Normal"
  <2>1. /\ IsEmitter(f) /\ Grows(e, f) /\ f.stack = e.stack /\ f.labels = e.labels
        /\ f.next = e.next /\ Len(f.out) = Len(e.out) + 1 /\ f.out[Len(e.out) + 1] = x
    <3> HIDE DEF x
    <3> QED BY AppendOut
  <2> DEFINE m == [out |-> f.out, labels |-> e.labels, emitted |-> e.emitted,
                   stack |-> st, preds |-> e.preds, next |-> e.next]
  <2>2. Merge(e, i) = m
    <3>1. f.out = Append(e.out, x)
      BY DEF IsEmitter
    <3>2. Merge(e, i) = [e EXCEPT !.out = Append(@, x), !.stack = st]
      BY <1>4, <1>1 DEF Merge, st
    <3> HIDE DEF f, x
    <3> QED BY <3>1, <3>2 DEF IsEmitter
  <2>3. x.kind = "merge" /\ x.id = Top(e).merge
    OBVIOUS
  <2> HIDE DEF f, x
  <2>4. /\ IsEmitter(m) /\ Grows(e, m) /\ m.labels = e.labels /\ m.next = e.next
        /\ m.stack = st /\ m.out = f.out
    BY <1>3, <2>1
  <2> HIDE DEF m
  <2> QED BY <1>1, <1>2, <1>4, <2>1, <2>2, <2>3, <2>4
<1>5. CASE ~(Top(e).merge # 0 /\ Top(e).type # "Normal")
  <2> DEFINE m == [out |-> e.out, labels |-> e.labels, emitted |-> e.emitted,
                   stack |-> st, preds |-> e.preds, next |-> e.next]
  <2>1. Merge(e, i) = m
    BY <1>5, <1>1 DEF Merge, st, IsEmitter
  <2>2. Quiet(e, e)
    BY QuietSelf
  <2>3. /\ IsEmitter(m) /\ Grows(e, m) /\ m.labels = e.labels /\ m.next = e.next
        /\ m.stack = st /\ m.out = e.out
    BY <1>3, <2>2 DEF Quiet
  <2> HIDE DEF m
  <2> QED BY <1>1, <1>2, <2>1, <2>3
<1> QED BY <1>4, <1>5

(* At a SYNC the entry that waits for it is taken off.                     *)
LEMMA SyncEffect ==
  ASSUME NEW e, IsEmitter(e), NEW i
  PROVE  \/ Sync(e, i) = e /\ (e.stack = <<>> \/ Top(e).sync # i.pc)
         \/ /\ e.stack # <<>> /\ Top(e).sync = i.pc
            /\ IsEmitter(Sync(e, i)) /\ Grows(e, Sync(e, i))
            /\ Sync(e, i).labels = e.labels /\ Sync(e, i).next = e.next /\ Sync(e, i).out = e.out
            /\ Len(e.stack) \in Nat \ {0} /\ Len(Sync(e, i).stack) = Len(e.stack) - 1
            /\ \A k \in 1..Len(e.stack) - 1 : Sync(e, i).stack[k] = e.stack[k]
<1>1. CASE ~(e.stack # <<>> /\ Top(e).sync = i.pc)
  BY <1>1 DEF Sync
<1>2. CASE e.stack # <<>> /\ Top(e).sync = i.pc
  <2> DEFINE L == Len(e.stack)
             st == Front(e.stack)
             m == [out |-> e.out, labels |-> e.labels, emitted |-> e.emitted,
                   stack |-> st, preds |-> e.preds, next |-> e.next]
  <2>1. e.stack \in Seq(Entry) /\ L \in Nat \ {0}
    BY <1>2 DEF IsEmitter
  <2>2. /\ st \in Seq(Entry) /\ Len(st) = L - 1
        /\ \A k \in 1..L - 1 : st[k] = e.stack[k]
    BY <2>1 DEF Front
  <2>3. Sync(e, i) = m
    BY <1>2 DEF Sync, IsEmitter
  <2> HIDE DEF st
  <2>4. /\ m.out = e.out /\ m.labels = e.labels /\ m.emitted = e.emitted
        /\ m.stack = st /\ m.preds = e.preds /\ m.next = e.next
        /\ m = [out |-> m.out, labels |-> m.labels, emitted |-> m.emitted,
                stack |-> m.stack, preds |-> m.preds, next |-> m.next]
    OBVIOUS
  <2> HIDE DEF m
  <2>5. IsEmitter(m)
    BY <2>2, <2>4 DEF IsEmitter
  <2>6. Quiet(e, e)
    BY QuietSelf
  <2>7. Grows(e, m)
    BY <2>4, <2>6 DEF Grows, Quiet
  <2> QED BY <1>2, <2>1, <2>2, <2>3, <2>4, <2>5, <2>7
<1> QED BY <1>1, <1>2

\* The program as the decoder leaves it.
ProgramOK ==
    /\ Len(prog) \in Nat /\ DOMAIN prog = 1..Len(prog)
    /\ \A i \in 1..Len(prog) : prog[i].pc \in Nat /\ prog[i].to \in Nat
    /\ \A i, j \in 1..Len(prog) : i < j => prog[i].pc < prog[j].pc

(* No two instructions share a pc.                                         *)
LEMMA PcsDiffer ==
  ASSUME ProgramOK, NEW i \in 1..Len(prog), NEW j \in 1..Len(prog), prog[i].pc = prog[j].pc
  PROVE  i = j
<1>1. CASE i < j
  BY <1>1 DEF ProgramOK
<1>2. CASE j < i
  BY <1>2 DEF ProgramOK
<1> QED BY <1>1, <1>2 DEF ProgramOK

(* BuildCfg's pair of an SSY is found again by its pc.                     *)
LEMMA PairFound ==
  ASSUME ProgramOK, NEW n \in 1..Len(prog), prog[n].op = "SSY"
  PROVE  LET q == CHOOSE r \in Pairs(prog) : r.ssy = prog[n].pc
         IN q.sync = prog[n].to /\ q.type \in {"Normal", "Loop", "Selection"}
<1> DEFINE q == CHOOSE r \in Pairs(prog) : r.ssy = prog[n].pc
<1>1. \A i : Pair(prog, i).ssy = prog[i].pc /\ Pair(prog, i).sync = prog[i].to
             /\ Pair(prog, i).type \in {"Normal", "Loop", "Selection"}
  BY DEF Pair
<1>2. Pair(prog, n) \in Pairs(prog)
  BY Zenon DEF Pairs, ProgramOK
<1>3. q \in Pairs(prog) /\ q.ssy = prog[n].pc
  BY <1>1, <1>2, Zenon
<1> HIDE DEF q
<1>4. PICK i \in 1..Len(prog) : q = Pair(prog, i)
  BY <1>3, Zenon DEF Pairs, ProgramOK
<1>5. i = n
  BY <1>1, <1>3, <1>4, PcsDiffer
<1>6. q.sync = prog[n].to /\ q.type \in {"Normal", "Loop", "Selection"}
  BY <1>1, <1>4, <1>5
<1> QED BY <1>6 DEF q

LEMMA ReserveKeeps ==
  ASSUME NEW e, IsEmitter(e), NEW pc, NEW t \in DOMAIN e.labels
  PROVE  /\ t \in DOMAIN ReserveLabel(e, pc).labels
         /\ ReserveLabel(e, pc).labels[t] = e.labels[t]
<1>1. CASE pc \in DOMAIN e.labels
  BY <1>1 DEF ReserveLabel
<1>2. CASE pc \notin DOMAIN e.labels
  <2>1. ReserveLabel(e, pc).labels = SetLabel(e.labels, pc, e.next)
    BY <1>2 DEF ReserveLabel, IsEmitter
  <2> QED BY <1>2, <2>1 DEF SetLabel
<1> QED BY <1>1, <1>2

(* An SSY reserves the label of its SYNC, and perhaps of the loop's head,  *)
(* and pushes an entry with the merge that is still to be announced.       *)
LEMMA SsyEffect ==
  ASSUME ProgramOK, NEW e, IsEmitter(e), NEW n \in 1..Len(prog), prog[n].op = "SSY",
         NEW r, r = Ssy(e, prog[n])
  PROVE  /\ IsEmitter(r) /\ Grows(e, r)
         /\ r.out = e.out /\ prog[n].to \in DOMAIN r.labels
         /\ Len(e.stack) \in Nat /\ Len(r.stack) = Len(e.stack) + 1
         /\ \A k \in 1..Len(e.stack) : r.stack[k] = e.stack[k]
         /\ r.stack[Len(e.stack) + 1].ssy = prog[n].pc
         /\ r.stack[Len(e.stack) + 1].sync = prog[n].to
         /\ r.stack[Len(e.stack) + 1].merge = r.labels[prog[n].to]
<1> DEFINE i == prog[n]
           q == CHOOSE u \in Pairs(prog) : u.ssy = i.pc
           d == ReserveLabel(e, q.sync)
           back == IF q.target # 0 THEN q.target ELSE i.pc + 1
           f == IF q.type = "Loop" THEN ReserveLabel(d, back) ELSE d
           x == [ssy |-> i.pc, sync |-> q.sync, type |-> q.type, merge |-> d.labels[q.sync]]
           st == Append(e.stack, x)
           g == [out |-> f.out, labels |-> f.labels, emitted |-> f.emitted,
                 stack |-> st, preds |-> f.preds, next |-> f.next]
<1>1. q.sync = prog[n].to /\ q.type \in {"Normal", "Loop", "Selection"} /\ i.pc \in Nat /\ i.to \in Nat
  BY PairFound DEF ProgramOK
<1>2. r = [f EXCEPT !.stack = Append(@, x)]
  BY DEF Ssy
<1> HIDE DEF q
<1>3. Quiet(e, d) /\ IsEmitter(d) /\ q.sync \in DOMAIN d.labels /\ d.out = e.out
  BY ReserveQuiet DEF Quiet
<1> HIDE DEF d, back
<1>4. /\ Quiet(e, f) /\ IsEmitter(f) /\ q.sync \in DOMAIN f.labels /\ f.out = e.out
      /\ f.labels[q.sync] = d.labels[q.sync]
  <2>1. CASE q.type = "Loop"
    <3>1. Quiet(d, ReserveLabel(d, back)) /\ ReserveLabel(d, back).out = d.out
      BY <1>3, ReserveQuiet
    <3>2. /\ q.sync \in DOMAIN ReserveLabel(d, back).labels
          /\ ReserveLabel(d, back).labels[q.sync] = d.labels[q.sync]
      BY <1>3, ReserveKeeps
    <3>3. Quiet(e, ReserveLabel(d, back)) /\ IsEmitter(ReserveLabel(d, back))
      BY <1>3, <3>1, QuietMore DEF Quiet
    <3> QED BY <2>1, <1>3, <3>1, <3>2, <3>3
  <2>2. CASE q.type # "Loop"
    BY <2>2, <1>3
  <2> QED BY <2>1, <2>2
<1> HIDE DEF f
<1>5. x \in Entry
  <2>1. d.labels[q.sync] \in Nat
    BY <1>3 DEF IsEmitter
  <2> QED BY <1>1, <2>1 DEF Entry
<1>6. x.ssy = i.pc /\ x.sync = q.sync /\ x.merge = d.labels[q.sync]
  OBVIOUS
<1> HIDE DEF x
<1>7. f.stack = e.stack /\ e.stack \in Seq(Entry)
  BY <1>4 DEF Quiet, IsEmitter
<1>8. r = g
  BY <1>2, <1>4, <1>7 DEF IsEmitter
<1>9. /\ st \in Seq(Entry) /\ Len(e.stack) \in Nat /\ Len(st) = Len(e.stack) + 1
      /\ \A k \in 1..Len(e.stack) : st[k] = e.stack[k]
      /\ st[Len(e.stack) + 1] = x
  BY <1>5, <1>7
<1> HIDE DEF st
<1>10. /\ g.out = f.out /\ g.labels = f.labels /\ g.emitted = f.emitted
       /\ g.stack = st /\ g.preds = f.preds /\ g.next = f.next
       /\ g = [out |-> g.out, labels |-> g.labels, emitted |-> g.emitted,
               stack |-> g.stack, preds |-> g.preds, next |-> g.next]
  OBVIOUS
<1> HIDE DEF g
<1>11. IsEmitter(g)
  BY <1>4, <1>9, <1>10 DEF IsEmitter
<1>12. Grows(e, g)
  BY <1>4, <1>10 DEF Grows, Quiet
<1> QED BY <1>1, <1>4, <1>6, <1>8, <1>9, <1>10, <1>11, <1>12

-----------------------------------------------------------------------------
(* Merges are announced once.                                              *)

\* The pcs of the SYNCs that the SSYs before index n wait for.
Targets(n) == {prog[i].to : i \in {j \in 1..Len(prog) : j < n /\ prog[j].op = "SSY"}}

\* An id that was given to a merge: no other block has or will have it.
Taken(e, n, id) ==
    /\ id \in 1..e.next - 1
    /\ \A t \in DOMAIN e.labels : e.labels[t] = id => t \in Targets(n)

MergeInv(e, n) ==
    /\ \A k \in 1..Len(e.out) : e.out[k].kind = "merge" => Taken(e, n, e.out[k].id)
    /\ \A k \in 1..Len(e.stack) : e.stack[k].merge # 0 => Taken(e, n, e.stack[k].merge)
    /\ \A j, k \in 1..Len(e.out) :
         e.out[j].kind = "merge" /\ e.out[k].kind = "merge" /\ e.out[j].id = e.out[k].id => j = k
    /\ \A j, k \in 1..Len(e.stack) :
         e.stack[j].merge # 0 /\ e.stack[j].merge = e.stack[k].merge => j = k
    /\ \A j \in 1..Len(e.out), k \in 1..Len(e.stack) :
         e.out[j].kind = "merge" => e.out[j].id # e.stack[k].merge

LEMMA TakenStays ==
  ASSUME NEW e, NEW f, IsEmitter(e), IsEmitter(f), Grows(e, f), NEW n \in Nat, NEW m \in Nat, n <= m,
         NEW id, Taken(e, n, id)
  PROVE  Taken(f, m, id)
<1>1. e.next \in Nat /\ f.next \in Nat /\ e.next <= f.next
  BY DEF IsEmitter, Grows
<1>2. id \in 1..f.next - 1
  BY <1>1 DEF Taken
<1>3. Targets(n) \subseteq Targets(m)
  BY DEF Targets
<1>4. ASSUME NEW t \in DOMAIN f.labels, f.labels[t] = id PROVE t \in Targets(m)
  <2>1. ~(f.labels[t] >= e.next)
    BY <1>1, <1>4 DEF Taken
  <2>2. t \in DOMAIN e.labels /\ f.labels[t] = e.labels[t]
    BY <2>1 DEF Grows
  <2> QED BY <1>3, <1>4, <2>2 DEF Taken
<1> QED BY <1>2, <1>4 DEF Taken

LEMMA QuietMerges ==
  ASSUME NEW e, NEW f, IsEmitter(e), Quiet(e, f), NEW n \in Nat, NEW m \in Nat, n <= m, MergeInv(e, n)
  PROVE  MergeInv(f, m)
<1>1. IsEmitter(f) /\ Grows(e, f) /\ f.stack = e.stack /\ Len(e.out) \in Nat /\ Len(f.out) \in Nat
  BY DEF Quiet, IsEmitter
<1>2. \A k \in 1..Len(f.out) : f.out[k].kind = "merge" => k \in 1..Len(e.out) /\ f.out[k] = e.out[k]
  BY <1>1 DEF Quiet, Grows
<1>3. \A id : Taken(e, n, id) => Taken(f, m, id)
  BY <1>1, TakenStays
<1>4. \A k \in 1..Len(f.out) : f.out[k].kind = "merge" => Taken(f, m, f.out[k].id)
  BY <1>2, <1>3 DEF MergeInv
<1>5. \A k \in 1..Len(f.stack) : f.stack[k].merge # 0 => Taken(f, m, f.stack[k].merge)
  BY <1>1, <1>3 DEF MergeInv
<1>6. \A j, k \in 1..Len(f.out) :
        f.out[j].kind = "merge" /\ f.out[k].kind = "merge" /\ f.out[j].id = f.out[k].id => j = k
  BY <1>2 DEF MergeInv
<1>7. \A j \in 1..Len(f.out), k \in 1..Len(f.stack) :
        f.out[j].kind = "merge" => f.out[j].id # f.stack[k].merge
  <2> SUFFICES ASSUME NEW j \in 1..Len(f.out), NEW k \in 1..Len(f.stack), f.out[j].kind = "merge"
               PROVE  f.out[j].id # f.stack[k].merge
    OBVIOUS
  <2>1. j \in 1..Len(e.out) /\ f.out[j] = e.out[j]
    BY <1>2
  <2>2. k \in 1..Len(e.stack) /\ f.stack[k] = e.stack[k]
    BY <1>1
  <2> QED BY <2>1, <2>2 DEF MergeInv
<1>8. \A j, k \in 1..Len(f.stack) :
        f.stack[j].merge # 0 /\ f.stack[j].merge = f.stack[k].merge => j = k
  BY <1>1 DEF MergeInv
<1> QED BY <1>4, <1>5, <1>6, <1>7, <1>8 DEF MergeInv

(* An announced merge is no longer on the stack.                           *)
LEMMA MergeMerges ==
  ASSUME NEW e, IsEmitter(e), NEW i, NEW n \in Nat, MergeInv(e, n)
  PROVE  IsEmitter(Merge(e, i)) /\ MergeInv(Merge(e, i), n)
<1>1. CASE e.stack = <<>>
  BY <1>1 DEF Merge
<1>2. CASE e.stack # <<>>
  <2> DEFINE f == Merge(e, i)
             L == Len(e.stack)
             o == Len(e.out)
  <2>1. /\ IsEmitter(f) /\ Grows(e, f) /\ f.labels = e.labels /\ f.next = e.next
        /\ L \in Nat \ {0} /\ Len(f.stack) = L
        /\ \A k \in 1..L - 1 : f.stack[k] = e.stack[k]
        /\ f.stack[L] = [Top(e) EXCEPT !.merge = 0]
        /\ \/ f.out = e.out
           \/ /\ Top(e).merge # 0 /\ Len(f.out) = o + 1
              /\ f.out[o + 1].kind = "merge" /\ f.out[o + 1].id = Top(e).merge
    BY <1>2, MergeEffect
  <2> HIDE DEF f
  <2>2. o \in Nat /\ Top(e) = e.stack[L] /\ Top(e) \in Entry /\ L \in 1..L
    BY <2>1 DEF IsEmitter, Top
  <2>3. f.stack[L].merge = 0
    BY <2>1, <2>2 DEF Entry
  <2>4. \A k \in 1..L : f.stack[k].merge # 0 => k \in 1..L - 1 /\ f.stack[k] = e.stack[k]
    <3>1. \A k \in 1..L : k = L \/ k \in 1..L - 1
      BY <2>1
    <3> QED BY <2>1, <2>3, <3>1, Zenon
  <2>5. \A id : Taken(e, n, id) => Taken(f, n, id)
    BY <2>1, TakenStays
  <2>6. \A k \in 1..o : f.out[k] = e.out[k]
    BY <2>1 DEF Grows
  <2>7. \A k \in 1..Len(f.out) :
          \/ k \in 1..o /\ f.out[k] = e.out[k]
          \/ k = o + 1 /\ Top(e).merge # 0 /\ f.out[k].kind = "merge" /\ f.out[k].id = Top(e).merge
    BY <2>1, <2>2, <2>6
  <2>8. \A k \in 1..Len(f.out) : f.out[k].kind = "merge" => Taken(f, n, f.out[k].id)
    BY <2>2, <2>5, <2>7 DEF MergeInv
  <2>9. \A k \in 1..L : f.stack[k].merge # 0 => Taken(f, n, f.stack[k].merge)
    BY <2>4, <2>5 DEF MergeInv
  <2>10. ASSUME NEW j \in 1..Len(f.out), NEW k \in 1..Len(f.out), f.out[j].kind = "merge",
                f.out[k].kind = "merge", f.out[j].id = f.out[k].id
         PROVE  j = k
    <3>1. CASE j \in 1..o /\ k \in 1..o
      BY <2>6, <2>10, <3>1 DEF MergeInv
    <3>2. ASSUME NEW u \in 1..o, f.out[u].kind = "merge" PROVE f.out[u].id # Top(e).merge
      BY <2>2, <2>6, <3>2 DEF MergeInv
    <3> QED BY <2>7, <2>10, <3>1, <3>2
  <2>11. \A j, k \in 1..L : f.stack[j].merge # 0 /\ f.stack[j].merge = f.stack[k].merge => j = k
    BY <2>4 DEF MergeInv
  <2>12. ASSUME NEW j \in 1..Len(f.out), NEW k \in 1..L, f.out[j].kind = "merge"
         PROVE  f.out[j].id # f.stack[k].merge
    <3>1. f.out[j].id # 0
      BY <2>8, <2>12 DEF Taken
    <3>2. CASE f.stack[k].merge = 0
      BY <3>1, <3>2
    <3>3. CASE f.stack[k].merge # 0
      <4>1. k \in 1..L - 1 /\ k # L /\ k \in 1..L /\ f.stack[k] = e.stack[k]
        BY <2>1, <2>4, <3>3
      <4>2. CASE j \in 1..o
        BY <2>6, <2>12, <4>1, <4>2 DEF MergeInv
      <4>3. CASE f.out[j].id = Top(e).merge
        BY <2>2, <3>3, <4>1, <4>3 DEF MergeInv
      <4> QED BY <2>7, <4>2, <4>3
    <3> QED BY <3>2, <3>3
  <2> QED BY <2>1, <2>8, <2>9, <2>10, <2>11, <2>12 DEF MergeInv, f
<1> QED BY <1>1, <1>2

LEMMA SyncMerges ==
  ASSUME NEW e, IsEmitter(e), NEW i, NEW n \in Nat, MergeInv(e, n)
  PROVE  IsEmitter(Sync(e, i)) /\ MergeInv(Sync(e, i), n + 1)
<1>1. CASE Sync(e, i) = e
  <2>1. Quiet(e, e) /\ n + 1 \in Nat /\ n <= n + 1
    BY QuietSelf
  <2> QED BY <1>1, <2>1, QuietMerges
<1>2. CASE Sync(e, i) # e
  <2> DEFINE f == Sync(e, i)
             L == Len(e.stack)
  <2>1. /\ IsEmitter(f) /\ Grows(e, f) /\ f.out = e.out
        /\ L \in Nat \ {0} /\ Len(f.stack) = L - 1
        /\ \A k \in 1..L - 1 : f.stack[k] = e.stack[k]
    BY <1>2, SyncEffect
  <2> HIDE DEF f
  <2>2. \A k \in 1..Len(f.stack) : k \in 1..L /\ f.stack[k] = e.stack[k]
    BY <2>1
  <2>3. \A id : Taken(e, n, id) => Taken(f, n + 1, id)
    BY <2>1, TakenStays
  <2>4. \A k \in 1..Len(f.out) : f.out[k].kind = "merge" => Taken(f, n + 1, f.out[k].id)
    BY <2>1, <2>3 DEF MergeInv
  <2>5. \A k \in 1..Len(f.stack) : f.stack[k].merge # 0 => Taken(f, n + 1, f.stack[k].merge)
    BY <2>2, <2>3 DEF MergeInv
  <2>6. \A j, k \in 1..Len(f.stack) :
          f.stack[j].merge # 0 /\ f.stack[j].merge = f.stack[k].merge => j = k
    BY <2>2 DEF MergeInv
  <2>7. \A j \in 1..Len(f.out), k \in 1..Len(f.stack) :
          f.out[j].kind = "merge" => f.out[j].id # f.stack[k].merge
    BY <2>1, <2>2 DEF MergeInv
  <2>8. \A j, k \in 1..Len(f.out) :
          f.out[j].kind = "merge" /\ f.out[k].kind = "merge" /\ f.out[j].id = f.out[k].id => j = k
    BY <2>1 DEF MergeInv
  <2> QED BY <2>1, <2>4, <2>5, <2>6, <2>7, <2>8 DEF MergeInv, f
<1> QED BY <1>1, <1>2

(* The merge of a new range has an id of its own, as no other range waits  *)
(* for the same SYNC.                                                      *)
LEMMA SsyMerges ==
  ASSUME ProgramOK, NEW e, IsEmitter(e), NEW n \in 1..Len(prog), prog[n].op = "SSY",
         prog[n].to \notin Targets(n), MergeInv(e, n), NEW g, g = Ssy(e, prog[n])
  PROVE  IsEmitter(g) /\ MergeInv(g, n + 1)
<1> DEFINE L == Len(e.stack)
           t == prog[n].to
           m == g.labels[t]
<1>1. /\ IsEmitter(g) /\ Grows(e, g) /\ g.out = e.out /\ t \in DOMAIN g.labels
      /\ L \in Nat /\ Len(g.stack) = L + 1
      /\ \A k \in 1..L : g.stack[k] = e.stack[k]
      /\ g.stack[L + 1].merge = m
  BY SsyEffect
<1>2. n \in Nat /\ n + 1 \in Nat /\ n <= n + 1 /\ Len(prog) \in Nat
  BY DEF ProgramOK
<1>3. \A id : Taken(e, n, id) => Taken(g, n + 1, id)
  BY <1>1, <1>2, TakenStays
<1>4. m \in 1..g.next - 1 /\ t \in DOMAIN g.labels /\ g.stack[L + 1].merge = m
  BY <1>1 DEF IsEmitter
<1>5. t \in Targets(n + 1)
  BY <1>2 DEF Targets
<1>6. Taken(g, n + 1, m)
  <2>1. \A u \in DOMAIN g.labels : g.labels[u] = m => u = t
    BY <1>1, <1>4 DEF IsEmitter
  <2> QED BY <1>4, <1>5, <2>1 DEF Taken
<1>7. ASSUME NEW id, Taken(e, n, id) PROVE id # m
  <2>1. CASE t \in DOMAIN e.labels /\ g.labels[t] = e.labels[t]
    BY <1>7, <2>1 DEF Taken
  <2>2. CASE m >= e.next
    BY <1>1, <1>4, <1>7, <2>2 DEF Taken, IsEmitter
  <2> QED BY <1>1, <1>4, <2>1, <2>2 DEF Grows
<1> HIDE DEF m
<1>8. \A k \in 1..Len(g.stack) : \/ k \in 1..L /\ g.stack[k] = e.stack[k]
                                 \/ k = L + 1 /\ g.stack[k].merge = m
  <2>1. \A k \in 1..Len(g.stack) : k \in 1..L \/ k = L + 1
    BY <1>1
  <2> HIDE DEF L
  <2> QED BY <1>1, <1>4, <2>1
<1>9. \A k \in 1..Len(g.out) : g.out[k].kind = "merge" => Taken(g, n + 1, g.out[k].id)
  BY <1>1, <1>3 DEF MergeInv
<1>10. \A k \in 1..Len(g.stack) : g.stack[k].merge # 0 => Taken(g, n + 1, g.stack[k].merge)
  BY <1>3, <1>6, <1>8 DEF MergeInv
<1>11. \A j, k \in 1..Len(g.out) :
         g.out[j].kind = "merge" /\ g.out[k].kind = "merge" /\ g.out[j].id = g.out[k].id => j = k
  BY <1>1 DEF MergeInv
<1>12. ASSUME NEW j \in 1..Len(g.stack), NEW k \in 1..Len(g.stack),
              g.stack[j].merge # 0, g.stack[j].merge = g.stack[k].merge
       PROVE  j = k
  <2>1. CASE j \in 1..L /\ k \in 1..L
    BY <1>1, <1>12, <2>1 DEF MergeInv
  <2>2. ASSUME NEW u \in 1..L, g.stack[u].merge # 0 PROVE g.stack[u].merge # m
    BY <1>1, <1>7, <2>2 DEF MergeInv
  <2> QED BY <1>8, <1>12, <2>1, <2>2
<1>13. ASSUME NEW j \in 1..Len(g.out), NEW k \in 1..Len(g.stack), g.out[j].kind = "merge"
       PROVE  g.out[j].id # g.stack[k].merge
  <2>1. CASE k \in 1..L
    <3>1. e.out[j].kind = "merge" => e.out[j].id # e.stack[k].merge
      BY <1>1, <2>1, Zenon DEF MergeInv
    <3> QED BY <1>1, <1>13, <2>1, <3>1
  <2>2. Taken(e, n, g.out[j].id)
    BY <1>1, <1>13 DEF MergeInv
  <2> QED BY <1>7, <1>8, <2>1, <2>2
<1> QED BY <1>1, <1>9, <1>10, <1>11, <1>12, <1>13 DEF MergeInv

-----------------------------------------------------------------------------
(* The stack of merges follows the nesting.                                *)

\* The entries are the ranges around instruction n, outermost first.
StackInv(e, n) ==
    /\ \A k \in 1..Len(e.stack) :
         \E i \in Enclosing(n) : e.stack[k].ssy = prog[i].pc /\ e.stack[k].sync = prog[i].to
    /\ \A i \in Enclosing(n) : \E k \in 1..Len(e.stack) : e.stack[k].ssy = prog[i].pc
    /\ \A j, k \in 1..Len(e.stack) : j < k => e.stack[j].ssy < e.stack[k].ssy

LEMMA Nested ==
  ASSUME ProgramOK, WellNested
  PROVE  /\ \A i \in 1..Len(prog) : prog[i].op = "SSY" =>
              \E j \in i + 1..Len(prog) : prog[j].op = "SYNC" /\ prog[j].pc = prog[i].to
         /\ \A i, k \in 1..Len(prog) :
              prog[i].op = "SSY" /\ prog[k].op = "SSY" /\ i < k =>
                prog[k].to < prog[i].to \/ prog[k].pc > prog[i].to
BY DEF ProgramOK, WellNested

(* A range that is open at n ends at n or later.                           *)
LEMMA EndsLater ==
  ASSUME ProgramOK, WellNested, NEW n \in 1..Len(prog) + 1, NEW i \in Enclosing(n)
  PROVE  /\ i \in 1..Len(prog) /\ i < n /\ prog[i].op = "SSY"
         /\ \E j \in n..Len(prog) : prog[j].op = "SYNC" /\ prog[j].pc = prog[i].to
<1>1. /\ i \in 1..Len(prog) /\ i < n /\ prog[i].op = "SSY"
      /\ \A j \in i..n - 1 : prog[j].pc # prog[i].to
  BY DEF Enclosing, ProgramOK
<1>2. PICK j \in i + 1..Len(prog) : prog[j].op = "SYNC" /\ prog[j].pc = prog[i].to
  BY <1>1, Nested
<1>3. j \notin i..n - 1
  BY <1>1, <1>2
<1>4. j \in n..Len(prog)
  BY <1>1, <1>3 DEF ProgramOK
<1> QED BY <1>1, <1>2, <1>4

LEMMA EndsBehind ==
  ASSUME ProgramOK, WellNested, NEW n \in 1..Len(prog), NEW i \in Enclosing(n)
  PROVE  prog[i].to >= prog[n].pc
<1>1. PICK j \in n..Len(prog) : prog[j].pc = prog[i].to
  <2>1. n \in 1..Len(prog) + 1
    BY DEF ProgramOK
  <2> QED BY <2>1, EndsLater
<1>2. j \in 1..Len(prog) /\ (j = n \/ n < j) /\ prog[j].pc \in Nat /\ prog[n].pc \in Nat
  BY DEF ProgramOK
<1> QED BY <1>1, <1>2 DEF ProgramOK

(* Of two ranges around n the inner one ends first.                        *)
LEMMA InnerFirst ==
  ASSUME ProgramOK, WellNested, NEW n \in 1..Len(prog),
         NEW i \in Enclosing(n), NEW k \in Enclosing(n), i < k
  PROVE  prog[k].to < prog[i].to
<1>1. n \in 1..Len(prog) + 1
  BY DEF ProgramOK
<1>2. i \in 1..Len(prog) /\ k \in 1..Len(prog) /\ k < n /\ prog[i].op = "SSY" /\ prog[k].op = "SSY"
  BY <1>1, EndsLater
<1>3. prog[i].to >= prog[n].pc /\ prog[k].pc < prog[n].pc
  BY <1>2, EndsBehind DEF ProgramOK
<1>4. prog[i].to \in Nat /\ prog[n].pc \in Nat /\ prog[k].pc \in Nat
  BY <1>2 DEF ProgramOK
<1>5. prog[k].to < prog[i].to \/ prog[k].pc > prog[i].to
  BY <1>2, Nested
<1> QED BY <1>3, <1>4, <1>5

(* The ranges around the next instruction.                                 *)
LEMMA EnclosingNext ==
  ASSUME ProgramOK, WellNested, NEW n \in 1..Len(prog)
  PROVE  /\ prog[n].op \notin {"SSY", "SYNC"} => Enclosing(n + 1) = Enclosing(n)
         /\ prog[n].op = "SSY" => Enclosing(n + 1) = Enclosing(n) \cup {n}
         /\ prog[n].op = "SYNC" => Enclosing(n + 1) = {i \in Enclosing(n) : prog[i].to # prog[n].pc}
<1>1. Len(prog) \in Nat /\ DOMAIN prog = 1..Len(prog) /\ n \in Nat /\ n \in 1..Len(prog) + 1
  BY DEF ProgramOK
<1>2. \A i \in Enclosing(n + 1) :
        \/ i \in Enclosing(n) /\ prog[i].to # prog[n].pc
        \/ i = n /\ prog[n].op = "SSY"
  BY <1>1 DEF Enclosing
<1>3. \A i \in Enclosing(n) : prog[i].to # prog[n].pc => i \in Enclosing(n + 1)
  <2> SUFFICES ASSUME NEW i \in Enclosing(n), prog[i].to # prog[n].pc PROVE i \in Enclosing(n + 1)
    OBVIOUS
  <2>1. i \in 1..Len(prog) /\ i < n /\ prog[i].op = "SSY" /\ \A j \in i..n - 1 : prog[j].pc # prog[i].to
    BY <1>1 DEF Enclosing
  <2>2. \A j \in i..(n + 1) - 1 : j = n \/ j \in i..n - 1
    BY <1>1, <2>1
  <2>3. \A j \in i..(n + 1) - 1 : prog[j].pc # prog[i].to
    BY <2>1, <2>2
  <2>4. i < n + 1
    BY <1>1, <2>1
  <2> QED BY <1>1, <2>1, <2>3, <2>4 DEF Enclosing
<1>4. ASSUME NEW i \in Enclosing(n), prog[i].to = prog[n].pc PROVE prog[n].op = "SYNC"
  <2>1. PICK j \in n..Len(prog) : prog[j].op = "SYNC" /\ prog[j].pc = prog[i].to
    BY <1>1, EndsLater
  <2>2. j = n
    BY <1>1, <1>4, <2>1, PcsDiffer
  <2> QED BY <2>1, <2>2
<1>5. ASSUME prog[n].op = "SSY" PROVE n \in Enclosing(n + 1)
  <2>1. PICK j \in n + 1..Len(prog) : prog[j].pc = prog[n].to
    BY <1>5, Nested
  <2>2. prog[n].pc # prog[n].to
    BY <1>1, <2>1, PcsDiffer
  <2>3. \A m \in n..(n + 1) - 1 : m = n
    BY <1>1
  <2>4. n < n + 1
    BY <1>1
  <2> QED BY <1>1, <1>5, <2>2, <2>3, <2>4 DEF Enclosing
<1>6. CASE prog[n].op \notin {"SSY", "SYNC"}
  BY <1>2, <1>3, <1>4, <1>6
<1>7. CASE prog[n].op = "SSY"
  BY <1>2, <1>3, <1>4, <1>5, <1>7
<1>8. CASE prog[n].op = "SYNC"
  BY <1>2, <1>3, <1>8
<1> QED BY <1>6, <1>7, <1>8

(* No other range before n waits for the SYNC of the one that opens there. *)
LEMMA OwnSync ==
  ASSUME ProgramOK, WellNested, NEW n \in 1..Len(prog), prog[n].op = "SSY"
  PROVE  prog[n].to \notin Targets(n)
<1> SUFFICES ASSUME NEW i \in 1..Len(prog), i < n, prog[i].op = "SSY" PROVE prog[i].to # prog[n].to
  BY DEF Targets
<1>1. PICK j \in n + 1..Len(prog) : prog[j].pc = prog[n].to
  BY Nested
<1>2. prog[n].pc < prog[n].to /\ prog[n].pc \in Nat /\ prog[n].to \in Nat /\ prog[i].to \in Nat
  <2>1. j \in 1..Len(prog) /\ n < j
    BY DEF ProgramOK
  <2> QED BY <1>1, <2>1 DEF ProgramOK
<1>3. prog[n].to < prog[i].to \/ prog[n].pc > prog[i].to
  BY Nested
<1> QED BY <1>2, <1>3

LEMMA SyncOfEntry ==
  ASSUME ProgramOK, WellNested, NEW n \in 1..Len(prog), NEW e, StackInv(e, n),
         NEW k \in 1..Len(e.stack), NEW i \in Enclosing(n), e.stack[k].ssy = prog[i].pc
  PROVE  e.stack[k].sync = prog[i].to
<1>1. PICK j \in Enclosing(n) : e.stack[k].ssy = prog[j].pc /\ e.stack[k].sync = prog[j].to
  BY DEF StackInv
<1>2. i \in 1..Len(prog) /\ j \in 1..Len(prog)
  BY DEF Enclosing, ProgramOK
<1>3. i = j
  BY <1>1, <1>2, PcsDiffer
<1> QED BY <1>1, <1>3

(* The ends of the ranges go down from entry to entry.                     *)
LEMMA TopEndsFirst ==
  ASSUME ProgramOK, WellNested, NEW n \in 1..Len(prog), NEW e, StackInv(e, n),
         NEW j \in 1..Len(e.stack), NEW k \in 1..Len(e.stack), j < k
  PROVE  e.stack[k].sync < e.stack[j].sync
<1>1. PICK a \in Enclosing(n) : e.stack[j].ssy = prog[a].pc /\ e.stack[j].sync = prog[a].to
  BY DEF StackInv
<1>2. PICK b \in Enclosing(n) : e.stack[k].ssy = prog[b].pc /\ e.stack[k].sync = prog[b].to
  BY DEF StackInv
<1>3. prog[a].pc < prog[b].pc
  BY <1>1, <1>2 DEF StackInv
<1>4. a \in 1..Len(prog) /\ b \in 1..Len(prog) /\ Len(prog) \in Nat
  BY DEF Enclosing, ProgramOK
<1>5. a < b
  <2>1. CASE b < a
    BY <1>3, <1>4, <2>1 DEF ProgramOK
  <2>2. CASE a = b
    BY <1>3, <1>4, <2>2 DEF ProgramOK
  <2> QED BY <1>4, <2>1, <2>2
<1> QED BY <1>1, <1>2, <1>5, InnerFirst

(* What leaves ssy and sync of the entries alone leaves the stack as the   *)
(* nesting wants it.                                                       *)
LEMMA SameRanges ==
  ASSUME NEW e, NEW f, NEW n, NEW m, Enclosing(m) = Enclosing(n), StackInv(e, n),
         Len(f.stack) = Len(e.stack),
         \A k \in 1..Len(e.stack) : f.stack[k].ssy = e.stack[k].ssy /\ f.stack[k].sync = e.stack[k].sync
  PROVE  StackInv(f, m)
<1>1. \A k \in 1..Len(f.stack) :
        \E i \in Enclosing(m) : f.stack[k].ssy = prog[i].pc /\ f.stack[k].sync = prog[i].to
  BY DEF StackInv
<1>2. \A i \in Enclosing(m) : \E k \in 1..Len(f.stack) : f.stack[k].ssy = prog[i].pc
  BY DEF StackInv
<1>3. \A j, k \in 1..Len(f.stack) : j < k => f.stack[j].ssy < f.stack[k].ssy
  BY DEF StackInv
<1> QED BY <1>1, <1>2, <1>3 DEF StackInv

LEMMA MergeRanges ==
  ASSUME NEW e, IsEmitter(e), NEW i, NEW n, StackInv(e, n)
  PROVE  StackInv(Merge(e, i), n)
<1>1. CASE e.stack = <<>>
  BY <1>1 DEF Merge
<1>2. CASE e.stack # <<>>
  <2> DEFINE f == Merge(e, i)
             L == Len(e.stack)
  <2>1. /\ L \in Nat \ {0} /\ Len(f.stack) = L
        /\ \A k \in 1..L - 1 : f.stack[k] = e.stack[k]
        /\ f.stack[L] = [Top(e) EXCEPT !.merge = 0]
    BY <1>2, MergeEffect
  <2> HIDE DEF f
  <2>2. Top(e) = e.stack[L] /\ Top(e) \in Entry
    BY <2>1 DEF IsEmitter, Top
  <2>3. f.stack[L].ssy = e.stack[L].ssy /\ f.stack[L].sync = e.stack[L].sync
    BY <2>1, <2>2 DEF Entry
  <2>4. \A k \in 1..L : k = L \/ k \in 1..L - 1
    BY <2>1
  <2>5. \A k \in 1..L : f.stack[k].ssy = e.stack[k].ssy /\ f.stack[k].sync = e.stack[k].sync
    BY <2>1, <2>3, <2>4, Zenon
  <2>6. Len(f.stack) = Len(e.stack)
    BY <2>1
  <2> QED BY <2>5, <2>6, SameRanges DEF f
<1> QED BY <1>1, <1>2

LEMMA SyncRanges ==
  ASSUME ProgramOK, WellNested, NEW e, IsEmitter(e), NEW n \in 1..Len(prog), prog[n].op = "SYNC",
         StackInv(e, n), NEW f, f = Sync(e, prog[n])
  PROVE  StackInv(f, n + 1)
<1> DEFINE L == Len(e.stack)
<1>1. /\ Enclosing(n + 1) = {i \in Enclosing(n) : prog[i].to # prog[n].pc}
      /\ L \in Nat /\ Top(e) = e.stack[L]
  BY EnclosingNext DEF IsEmitter, Top
<1>2. \A k \in 1..L : \E i \in Enclosing(n) : e.stack[k].ssy = prog[i].pc /\ e.stack[k].sync = prog[i].to
  BY DEF StackInv
<1>3. \A k \in 1..L : e.stack[k].sync \in Nat /\ e.stack[k].sync >= prog[n].pc
  <2> TAKE k \in 1..L
  <2>1. PICK i \in Enclosing(n) : e.stack[k].sync = prog[i].to
    BY <1>2
  <2>2. i \in 1..Len(prog)
    BY DEF Enclosing, ProgramOK
  <2> QED BY <2>1, <2>2, EndsBehind DEF ProgramOK
<1>4. \A k \in 1..L : k # L => e.stack[L].sync < e.stack[k].sync
  <2> TAKE k \in 1..L
  <2>1. k # L => L \in 1..L /\ k < L
    BY <1>1
  <2> QED BY <2>1, TopEndsFirst
<1>5. prog[n].pc \in Nat
  BY DEF ProgramOK
<1>6. CASE f = e /\ (e.stack = <<>> \/ Top(e).sync # prog[n].pc)
  <2>1. ASSUME NEW i \in Enclosing(n) PROVE prog[i].to # prog[n].pc
    <3>1. PICK k \in 1..L : e.stack[k].ssy = prog[i].pc
      BY DEF StackInv
    <3>2. e.stack[k].sync = prog[i].to
      BY <3>1, SyncOfEntry
    <3>3. e.stack # <<>> /\ L \in 1..L
      BY <1>1
    <3>4. e.stack[L].sync # prog[n].pc
      BY <1>1, <1>6, <3>3
    <3>5. CASE k = L
      BY <3>2, <3>4, <3>5
    <3>6. CASE k # L
      <4>1. e.stack[L].sync < e.stack[k].sync /\ e.stack[L].sync \in Nat /\ e.stack[k].sync \in Nat
            /\ e.stack[L].sync >= prog[n].pc
        BY <1>3, <1>4, <3>3, <3>6
      <4> QED BY <1>5, <3>2, <4>1
    <3> QED BY <3>5, <3>6
  <2>2. Enclosing(n + 1) = Enclosing(n)
    BY <1>1, <2>1
  <2> QED BY <1>6, <2>2 DEF StackInv
<1>7. CASE /\ e.stack # <<>> /\ Top(e).sync = prog[n].pc
           /\ L \in Nat \ {0} /\ Len(f.stack) = L - 1
           /\ \A k \in 1..L - 1 : f.stack[k] = e.stack[k]
  <2>1. \A k \in 1..Len(f.stack) : k \in 1..L /\ k < L /\ k # L /\ f.stack[k] = e.stack[k]
    BY <1>7
  <2>2. ASSUME NEW k \in 1..Len(f.stack)
        PROVE  \E i \in Enclosing(n + 1) : f.stack[k].ssy = prog[i].pc /\ f.stack[k].sync = prog[i].to
    <3>1. PICK i \in Enclosing(n) : e.stack[k].ssy = prog[i].pc /\ e.stack[k].sync = prog[i].to
      BY <1>2, <2>1
    <3>2. e.stack[L].sync < e.stack[k].sync /\ e.stack[L].sync = prog[n].pc
      BY <1>1, <1>4, <1>7, <2>1
    <3>3. prog[i].to # prog[n].pc
      BY <1>5, <3>1, <3>2
    <3> QED BY <1>1, <2>1, <3>1, <3>3
  <2>3. ASSUME NEW i \in Enclosing(n + 1) PROVE \E k \in 1..Len(f.stack) : f.stack[k].ssy = prog[i].pc
    <3>1. i \in Enclosing(n) /\ prog[i].to # prog[n].pc
      BY <1>1
    <3>2. PICK k \in 1..L : e.stack[k].ssy = prog[i].pc
      BY <3>1 DEF StackInv
    <3>3. e.stack[k].sync = prog[i].to
      BY <3>1, <3>2, SyncOfEntry
    <3>4. k # L
      BY <1>1, <1>7, <3>1, <3>3
    <3>5. k \in 1..L - 1 /\ k \in 1..Len(f.stack)
      BY <1>7, <3>4
    <3> QED BY <1>7, <3>2, <3>5
  <2>4. \A j, k \in 1..Len(f.stack) : j < k => f.stack[j].ssy < f.stack[k].ssy
    BY <2>1 DEF StackInv
  <2> QED BY <2>2, <2>3, <2>4 DEF StackInv
<1> QED BY <1>6, <1>7, SyncEffect

LEMMA SsyRanges ==
  ASSUME ProgramOK, WellNested, NEW e, IsEmitter(e), NEW n \in 1..Len(prog), prog[n].op = "SSY",
         StackInv(e, n), NEW f, f = Ssy(e, prog[n])
  PROVE  StackInv(f, n + 1)
<1> DEFINE L == Len(e.stack)
<1>1. /\ Enclosing(n + 1) = Enclosing(n) \cup {n}
      /\ L \in Nat /\ Len(f.stack) = L + 1
      /\ \A k \in 1..L : f.stack[k] = e.stack[k]
      /\ f.stack[L + 1].ssy = prog[n].pc /\ f.stack[L + 1].sync = prog[n].to
  <2>1. Enclosing(n + 1) = Enclosing(n) \cup {n}
    BY EnclosingNext
  <2>2. /\ L \in Nat /\ Len(f.stack) = L + 1
        /\ \A k \in 1..L : f.stack[k] = e.stack[k]
        /\ f.stack[L + 1].ssy = prog[n].pc /\ f.stack[L + 1].sync = prog[n].to
    BY SsyEffect, SMTT(30)
  <2> QED BY <2>1, <2>2
<1>2. \A k \in 1..Len(f.stack) : k \in 1..L \/ k = L + 1
  BY <1>1
<1>3. \A k \in 1..Len(f.stack) :
        \E i \in Enclosing(n + 1) : f.stack[k].ssy = prog[i].pc /\ f.stack[k].sync = prog[i].to
  <2> TAKE k \in 1..Len(f.stack)
  <2>1. CASE k = L + 1
    <3>1. n \in Enclosing(n + 1)
      BY <1>1
    <3> QED BY <1>1, <2>1, <3>1
  <2>2. CASE k \in 1..L
    <3>1. PICK i \in Enclosing(n) : e.stack[k].ssy = prog[i].pc /\ e.stack[k].sync = prog[i].to
      BY <2>2 DEF StackInv
    <3>2. i \in Enclosing(n + 1) /\ f.stack[k] = e.stack[k]
      BY <1>1, <2>2
    <3> QED BY <3>1, <3>2
  <2> QED BY <1>2, <2>1, <2>2
<1>4. ASSUME NEW i \in Enclosing(n + 1) PROVE \E k \in 1..Len(f.stack) : f.stack[k].ssy = prog[i].pc
  <2>1. CASE i = n
    <3>1. L + 1 \in 1..Len(f.stack)
      BY <1>1
    <3> QED BY <1>1, <2>1, <3>1
  <2>2. CASE i \in Enclosing(n)
    <3>1. PICK k \in 1..L : e.stack[k].ssy = prog[i].pc
      BY <2>2 DEF StackInv
    <3>2. k \in 1..Len(f.stack)
      BY <1>1
    <3> QED BY <1>1, <3>1, <3>2
  <2> QED BY <1>1, <2>1, <2>2
<1>5. ASSUME NEW j \in 1..Len(f.stack), NEW k \in 1..Len(f.stack), j < k
      PROVE  f.stack[j].ssy < f.stack[k].ssy
  <2>1. j \in 1..L
    BY <1>1, <1>5
  <2>2. CASE k \in 1..L
    BY <1>1, <1>5, <2>1, <2>2 DEF StackInv
  <2>3. CASE k = L + 1
    <3>1. PICK i \in Enclosing(n) : e.stack[j].ssy = prog[i].pc
      BY <2>1 DEF StackInv
    <3>2. i \in 1..Len(prog) /\ i < n
      BY DEF Enclosing, ProgramOK
    <3>3. prog[i].pc < prog[n].pc
      BY <3>2 DEF ProgramOK
    <3> QED BY <1>1, <2>1, <2>3, <3>1, <3>3
  <2> QED BY <1>2, <2>2, <2>3
<1> QED BY <1>3, <1>4, <1>5 DEF StackInv

-----------------------------------------------------------------------------
(* The loop over the instructions.                                         *)

Nesting(e, n) == WellNested => StackInv(e, n) /\ MergeInv(e, n)

LEMMA DecodedForm ==
  ASSUME ProgramInv, at > 0
  PROVE  /\ ProgramOK
         /\ \A k \in 1..Len(prog) :
              \E w \in InstructionWord : w.op \in Known /\ prog[k] = ToIr(w, prog[k].pc)
<1> DEFINE cut == Extract(region)
<1>1. cut \in Seq(InstructionWord)
  BY ExtractEnds DEF ProgramInv
<1>2. Ascending(cut, 0, prog)
  BY <1>1, DecodeAscends DEF ProgramInv
<1>3. /\ Len(prog) \in Nat /\ DOMAIN prog = 1..Len(prog)
      /\ \A k \in 1..Len(prog) : prog[k] \in Decoded(cut)
  BY <1>2 DEF Ascending
<1>4. ASSUME NEW k \in 1..Len(prog)
      PROVE  /\ prog[k].pc \in Nat /\ prog[k].to \in Nat
             /\ \E w \in InstructionWord : w.op \in Known /\ prog[k] = ToIr(w, prog[k].pc)
  <2>1. PICK q \in 0..Len(cut) - 1 : cut[q + 1].op \in Known /\ prog[k] = ToIr(cut[q + 1], q)
    BY <1>3 DEF Decoded
  <2>2. q \in Nat /\ cut[q + 1] \in InstructionWord
    BY <1>1
  <2>3. prog[k].pc = q /\ prog[k].to = cut[q + 1].to
    BY <2>1 DEF ToIr
  <2>4. cut[q + 1].to \in Nat
    BY <2>2 DEF InstructionWord
  <2> QED BY <2>1, <2>2, <2>3, <2>4
<1> QED BY <1>2, <1>3, <1>4 DEF ProgramOK, Ascending

\* An arm that leaves the stack alone and announces no merge.
LEMMA QuietArm ==
  ASSUME ProgramOK, NEW e, IsEmitter(e), NEW n \in 1..Len(prog), prog[n].op \notin {"SSY", "SYNC"},
         Nesting(e, n), NEW f, Quiet(e, f)
  PROVE  Nesting(f, n + 1)
<1> SUFFICES ASSUME WellNested PROVE StackInv(f, n + 1) /\ MergeInv(f, n + 1)
  BY DEF Nesting
<1>1. Enclosing(n + 1) = Enclosing(n)
  BY EnclosingNext
<1>2. f.stack = e.stack
  BY DEF Quiet
<1>3. StackInv(f, n + 1)
  <2>1. StackInv(e, n)
    BY DEF Nesting
  <2> QED BY <1>1, <1>2, <2>1, SameRanges
<1>4. n \in Nat /\ n + 1 \in Nat /\ n <= n + 1
  BY DEF ProgramOK
<1>5. MergeInv(f, n + 1)
  BY <1>4, QuietMerges DEF Nesting
<1> QED BY <1>3, <1>5

LEMMA BlockArm ==
  ASSUME NEW e, IsEmitter(e), NEW n \in Nat, NEW i, Nesting(e, n), NEW b, b = AtBlockStart(e, i)
  PROVE  IsEmitter(b) /\ Grows(e, b) /\ Nesting(b, n)
<1>1. Quiet(e, b)
  BY BlockQuiet
<1>2. IsEmitter(b) /\ Grows(e, b) /\ b.stack = e.stack
  BY <1>1 DEF Quiet
<1>3. ASSUME WellNested PROVE StackInv(b, n) /\ MergeInv(b, n)
  <2>1. StackInv(b, n)
    <3>1. StackInv(e, n)
      BY <1>3 DEF Nesting
    <3> QED BY <1>2, <3>1, SameRanges
  <2>2. n <= n
    OBVIOUS
  <2>3. MergeInv(b, n)
    BY <1>1, <1>3, <2>2, QuietMerges DEF Nesting
  <2> QED BY <2>1, <2>3
<1> QED BY <1>2, <1>3 DEF Nesting

LEMMA BraArm ==
  ASSUME ProgramOK, NEW e, IsEmitter(e), NEW n \in 1..Len(prog), prog[n].op = "BRA", Nesting(e, n),
         NEW f, f = EmitBra(e, prog[n])
  PROVE  IsEmitter(f) /\ Grows(e, f) /\ Nesting(f, n + 1)
<1> DEFINE m == Merge(e, prog[n])
<1>1. IsEmitter(m) /\ Grows(e, m)
  <2>1. CASE e.stack = <<>>
    BY <2>1, QuietSelf DEF Merge, Quiet
  <2>2. CASE e.stack # <<>>
    BY <2>2, MergeEffect
  <2> QED BY <2>1, <2>2
<1>2. Quiet(m, f)
  BY <1>1, JumpQuiet
<1>3. n \in Nat
  BY DEF ProgramOK
<1>4. Nesting(m, n)
  BY <1>3, MergeMerges, MergeRanges DEF Nesting
<1>5. Nesting(f, n + 1)
  BY <1>1, <1>2, <1>4, QuietArm
<1>6. IsEmitter(f) /\ Grows(m, f)
  BY <1>2 DEF Quiet
<1> HIDE DEF m
<1> QED BY <1>1, <1>5, <1>6, GrowsMore

LEMMA SyncArm ==
  ASSUME ProgramOK, NEW e, IsEmitter(e), NEW n \in 1..Len(prog), prog[n].op = "SYNC", Nesting(e, n),
         NEW f, f = Sync(e, prog[n])
  PROVE  IsEmitter(f) /\ Grows(e, f) /\ Nesting(f, n + 1)
<1>1. IsEmitter(f) /\ Grows(e, f)
  BY SyncEffect, QuietSelf DEF Quiet
<1>2. n \in Nat
  BY DEF ProgramOK
<1>3. ASSUME WellNested PROVE StackInv(f, n + 1) /\ MergeInv(f, n + 1)
  <2>1. StackInv(e, n) /\ MergeInv(e, n)
    BY <1>3 DEF Nesting
  <2>2. StackInv(f, n + 1)
    BY <1>3, <2>1, SyncRanges
  <2>3. MergeInv(f, n + 1)
    BY <1>2, <2>1, SyncMerges
  <2> QED BY <2>2, <2>3
<1> QED BY <1>1, <1>3 DEF Nesting

LEMMA SsyArm ==
  ASSUME ProgramOK, NEW e, IsEmitter(e), NEW n \in 1..Len(prog), prog[n].op = "SSY", Nesting(e, n),
         NEW f, f = Ssy(e, prog[n])
  PROVE  IsEmitter(f) /\ Grows(e, f) /\ Nesting(f, n + 1)
<1>1. IsEmitter(f) /\ Grows(e, f)
  BY SsyEffect
<1>2. ASSUME WellNested PROVE StackInv(f, n + 1) /\ MergeInv(f, n + 1)
  <2>1. StackInv(e, n) /\ MergeInv(e, n)
    BY <1>2 DEF Nesting
  <2>2. StackInv(f, n + 1)
    BY <1>2, <2>1, SsyRanges
  <2>3. prog[n].to \notin Targets(n)
    BY <1>2, OwnSync
  <2>4. MergeInv(f, n + 1)
    BY <2>1, <2>3, SsyMerges
  <2> QED BY <2>2, <2>4
<1> QED BY <1>1, <1>2 DEF Nesting

LEMMA LoopStep ==
  ASSUME ProgramOK, IsEmitter(em), at \in 1..Len(prog), Nesting(em, at), EmitControl \/ EmitData
  PROVE  IsEmitter(em') /\ Grows(em, em') /\ Nesting(em', at + 1)
<1> DEFINE b == AtBlockStart(em, prog[at])
<1>1. at \in Nat
  BY DEF ProgramOK
<1>2. IsEmitter(b) /\ Grows(em, b) /\ Nesting(b, at)
  BY <1>1, BlockArm
<1> HIDE DEF b
<1>3. ASSUME NEW f, IsEmitter(f), Grows(b, f), Nesting(f, at + 1), em' = f
      PROVE  IsEmitter(em') /\ Grows(em, em') /\ Nesting(em', at + 1)
  BY <1>2, <1>3, GrowsMore
<1>4. ASSUME NEW f, Quiet(b, f), prog[at].op \notin {"SSY", "SYNC"}, em' = f
      PROVE  IsEmitter(em') /\ Grows(em, em') /\ Nesting(em', at + 1)
  <2>1. Nesting(f, at + 1)
    BY <1>2, <1>4, QuietArm
  <2> QED BY <1>3, <1>4, <2>1 DEF Quiet
<1>5. CASE Emit({"SYNC"}, Sync)
  <2>1. prog[at].op = "SYNC" /\ em' = Sync(b, prog[at])
    BY <1>5 DEF Emit, b
  <2> QED BY <1>2, <1>3, <2>1, SyncArm
<1>6. CASE Emit({"SSY"}, Ssy)
  <2>1. prog[at].op = "SSY" /\ em' = Ssy(b, prog[at])
    BY <1>6 DEF Emit, b
  <2> QED BY <1>2, <1>3, <2>1, SsyArm
<1>7. CASE Emit({"BRA"}, EmitBra)
  <2>1. prog[at].op = "BRA" /\ em' = EmitBra(b, prog[at])
    BY <1>7 DEF Emit, b
  <2> QED BY <1>2, <1>3, <2>1, BraArm
<1>8. CASE Emit({"EXIT", "RET"}, Skip)
  <2>1. prog[at].op \notin {"SSY", "SYNC"} /\ em' = b
    BY <1>8 DEF Emit, b, Skip
  <2> QED BY <1>2, <1>4, <2>1, QuietSelf
<1>9. CASE Emit({"BREAK"}, Break)
  <2>1. prog[at].op \notin {"SSY", "SYNC"} /\ em' = Break(b, prog[at])
    BY <1>9 DEF Emit, b
  <2> QED BY <1>2, <1>4, <2>1, LeaveQuiet
<1>10. CASE Emit({"CONT"}, Cont)
  <2>1. prog[at].op \notin {"SSY", "SYNC"} /\ em' = Cont(b, prog[at])
    BY <1>10 DEF Emit, b
  <2> QED BY <1>2, <1>4, <2>1, LeaveQuiet
<1>11. CASE Emit({"KIL"}, Kil)
  <2>1. prog[at].op \notin {"SSY", "SYNC"} /\ em' = Kil(b, prog[at])
    BY <1>11 DEF Emit, b
  <2> QED BY <1>2, <1>4, <2>1, KilQuiet
<1>12. CASE EmitData
  <2>1. prog[at].op \notin {"SSY", "SYNC"} /\ em' = Instruction(b, prog[at])
    BY <1>12 DEF EmitData, Emit, b
  <2> QED BY <1>2, <1>4, <2>1, InstructionQuiet
<1> QED BY <1>5, <1>6, <1>7, <1>8, <1>9, <1>10, <1>11, <1>12 DEF EmitControl

-----------------------------------------------------------------------------
(* Every result reaches its variable: the decoder's count of sources is    *)
(* enough for each arm that writes one, and BuildGprMap has a variable for *)
(* each register the arm touches.                                          *)

\* The instructions that have a register or a predicate to write.
Results == Known \ UNION {Lost, Branches, Exits}

LEMMA ArmNeeds ==
  ASSUME NEW op \in Results
  PROVE  /\ op \notin Silent /\ op \notin Branches
         /\ op \in UNION {Alu3In, Alu2In, Alu1In, Setp, Memory, Texture, {"S2R"}}
         /\ op # "S2R" => SrcCount(op) >= Needs(op)
         /\ op # "S2R" /\ op \notin Texture =>
              Loads(op) \in Nat /\ Loads(op) <= SrcCount(op) /\ SrcCount(op) \in 1..3
         /\ op \in Texture => Loads(op) = 1
<1>1. op \notin Silent /\ op \notin Branches
  BY DEF Results, Known, Silent, Lost, Branches, Exits,
         Alu3In, Alu2In, Alu1In, Setp, Memory, Texture, PredicateReg
<1>2. op \in UNION {Alu3In, Alu2In, Alu1In, Setp, Memory, Texture, {"S2R"}}
  BY DEF Results, Known, Lost
<1>3. CASE op \in Alu3In
  <2>1. Needs(op) \in {2, 3}
    BY <1>3 DEF Alu3In, Needs, Arithmetic, Conversions, Functional, Predicates,
                   BitFields, Selections, Reciprocals
  <2>2. SrcCount(op) = 3
    BY <1>3 DEF SrcCount, Alu3In, Alu2In, Alu1In, Setp, Memory, Texture, Branches
  <2>3. op \notin Texture /\ Loads(op) \in {1, 2, 3}
    BY <1>3, <2>1 DEF Alu3In, Texture, Loads
  <2> QED BY <1>1, <1>2, <2>1, <2>2, <2>3
<1>4. CASE op \in Alu2In
  <2>1. Needs(op) \in {1, 2}
    BY <1>4 DEF Alu2In, Needs, Arithmetic, Conversions, Functional, Predicates,
                   BitFields, Selections, Reciprocals
  <2>2. SrcCount(op) = 2
    BY <1>4 DEF SrcCount, Alu3In, Alu2In, Alu1In, Setp, Memory, Texture, Branches
  <2>3. op \notin Texture /\ Loads(op) \in {1, 2}
    BY <1>4, <2>1 DEF Alu2In, Texture, Loads
  <2> QED BY <1>1, <1>2, <2>1, <2>2, <2>3
<1>5. CASE op \in Alu1In \ {"SHL", "SHR"}
  <2>1. Needs(op) = 1
    BY <1>5 DEF Alu1In, Needs, Arithmetic, Conversions, Functional, Predicates,
                   BitFields, Selections, Reciprocals
  <2>2. SrcCount(op) = 1
    BY <1>5 DEF SrcCount, Alu3In, Alu2In, Alu1In, Setp, Memory, Texture, Branches
  <2>3. op \notin Texture /\ Loads(op) = 1
    BY <1>5, <2>1 DEF Alu1In, Texture, Loads
  <2> QED BY <1>1, <1>2, <2>1, <2>2, <2>3
<1>6. CASE op \in Setp
  <2>1. Needs(op) = 2
    BY <1>6 DEF Setp, Needs, Arithmetic, Conversions, Functional, Predicates,
                   BitFields, Selections, Reciprocals
  <2>2. SrcCount(op) = 2
    BY <1>6 DEF SrcCount, Alu3In, Alu2In, Alu1In, Setp, Memory, Texture, Branches
  <2>3. op \notin Texture /\ Loads(op) = 2
    BY <1>6, <2>1 DEF Setp, Texture, Loads
  <2> QED BY <1>1, <1>2, <2>1, <2>2, <2>3
<1>7. CASE op \in Memory
  <2>1. Needs(op) \in {0, 1}
    BY <1>7 DEF Memory, Needs, Arithmetic, Conversions, Functional, Predicates,
                   BitFields, Selections, Reciprocals
  <2>2. SrcCount(op) = 1
    BY <1>7 DEF SrcCount, Alu3In, Alu2In, Alu1In, Setp, Memory, Texture, Branches
  <2>3. op \notin Texture /\ Loads(op) \in {0, 1}
    BY <1>7, <2>1 DEF Memory, Texture, Loads
  <2> QED BY <1>1, <1>2, <2>1, <2>2, <2>3
<1>8. CASE op \in Texture
  <2>1. Needs(op) = IF op = "TEX" THEN 2 ELSE 1
    BY <1>8 DEF Texture, Needs, Arithmetic, Conversions, Functional, Predicates,
                   BitFields, Selections, Reciprocals
  <2>2. SrcCount(op) \in {1, 2} /\ (op = "TEX" => SrcCount(op) = 2)
    BY <1>8 DEF SrcCount, Alu3In, Alu2In, Alu1In, Setp, Memory, Texture, Branches
  <2>3. Loads(op) = 1
    BY <1>8, <2>1 DEF Texture, Loads
  <2> QED BY <1>1, <1>2, <1>8, <2>1, <2>2, <2>3
<1>9. CASE op = "S2R"
  <2>1. op \notin Texture
    BY <1>9 DEF Texture
  <2> QED BY <1>1, <1>2, <1>9, <2>1
<1>10. op \notin {"SHL", "SHR"}
  BY DEF Results, Lost
<1> QED BY <1>2, <1>3, <1>4, <1>5, <1>6, <1>7, <1>8, <1>9, <1>10

LEMMA WordRegisters ==
  ASSUME NEW w \in InstructionWord, w.op \in Results, NEW pc, NEW i, i = ToIr(w, pc)
  PROVE  /\ i.op = w.op /\ i.pc = pc /\ i.count = SrcCount(w.op)
         /\ w.op \notin Setp => i.dest \in Registers
         /\ w.op # "S2R" => \A k \in 1..Loads(w.op) : k \in DOMAIN i.srcs /\ i.srcs[k] \in Registers
<1>1. w.dest \in Registers /\ w.srcs \in [1..3 -> Registers]
  BY DEF InstructionWord
<1>2. /\ i.op = w.op /\ i.pc = pc /\ i.count = SrcCount(w.op)
      /\ i.dest = Dest(w) /\ i.srcs = SrcRegs(w)
  BY DEF ToIr
<1>3. ASSUME w.op \notin Setp PROVE Dest(w) \in Registers
  <2>1. /\ w.op \in {"EXIT", "S2R"} \cup (Alu3In \cup Alu2In \cup Alu1In \cup Setp \cup Memory \cup Texture)
        /\ w.op \notin Setp \cup Branches \cup Exits
    BY <1>3, ArmNeeds DEF Results
  <2> QED BY <1>1, <2>1 DEF Dest, DestField
<1>4. ASSUME w.op # "S2R", NEW k \in 1..Loads(w.op)
      PROVE  k \in DOMAIN SrcRegs(w) /\ SrcRegs(w)[k] \in Registers
  <2>1. w.op \notin Branches \cup {"S2R"}
    BY <1>4, ArmNeeds
  <2>2. CASE w.op \in Texture
    <3>1. SrcRegs(w) = <<w.srcs[1]>> /\ k = 1
      BY <2>1, <2>2, <1>4, ArmNeeds DEF SrcRegs
    <3> QED BY <1>1, <3>1
  <2>3. CASE w.op \notin Texture
    <3>1. SrcRegs(w) = SubSeq(w.srcs, 1, SrcCount(w.op))
      BY <2>1, <2>3 DEF SrcRegs
    <3>2. /\ Loads(w.op) \in Nat /\ Loads(w.op) <= SrcCount(w.op)
          /\ SrcCount(w.op) \in 1..3
      BY <1>4, <2>3, ArmNeeds
    <3>3. k \in 1..SrcCount(w.op) /\ k \in 1..3
      BY <1>4, <3>2
    <3>4. w.srcs \in Seq(Registers) /\ Len(w.srcs) = 3
      <4>1. w.srcs \in Seq(Registers)
        BY <1>1, SeqDef
      <4> QED BY <1>1, <4>1, LenProperties
    <3>5. DOMAIN SrcRegs(w) = 1..SrcCount(w.op) /\ SrcRegs(w)[k] = w.srcs[k]
      BY <3>1, <3>2, <3>3, <3>4
    <3> QED BY <1>1, <3>3, <3>5
  <2> QED BY <2>2, <2>3
<1> QED BY <1>2, <1>3, <1>4

LEMMA ArmStores ==
  ASSUME ProgramOK, NEW k \in 1..Len(prog), NEW w \in InstructionWord, w.op \in Results,
         prog[k] = ToIr(w, prog[k].pc)
  PROVE  /\ Stores(prog[k]) /\ prog[k].op = w.op
         /\ w.op \notin Setp => prog[k].dest \in BuildGprMap(prog)
<1>1. \A r \in Registers : r # None
  BY DEF Registers, None
<1>2. k \in DOMAIN prog
  BY DEF ProgramOK
<1>3. /\ prog[k].op = w.op /\ prog[k].count = SrcCount(w.op)
      /\ w.op \notin Setp => prog[k].dest \in Registers
      /\ w.op # "S2R" => \A j \in 1..Loads(w.op) : j \in DOMAIN prog[k].srcs /\ prog[k].srcs[j] \in Registers
  BY WordRegisters
<1>4. w.op \notin Setp => prog[k].dest \in BuildGprMap(prog)
  BY <1>1, <1>2, <1>3 DEF BuildGprMap
<1>5. ASSUME w.op # "S2R", NEW j \in 1..Loads(w.op) PROVE prog[k].srcs[j] \in BuildGprMap(prog)
  <2>1. prog[k].srcs[j] \in Range(prog[k].srcs) /\ prog[k].srcs[j] # None
    BY <1>1, <1>3, <1>5 DEF Range
  <2>2. Range(prog[k].srcs) \in {Range(prog[i].srcs) : i \in DOMAIN prog}
    BY <1>2
  <2> QED BY <2>1, <2>2 DEF BuildGprMap
<1>6. w.op \notin Silent /\ (w.op # "S2R" => SrcCount(w.op) >= Needs(w.op))
  BY ArmNeeds
<1>7. w.op = "TEX" => UsesTextures(prog)
  BY <1>2, <1>3 DEF UsesTextures
<1>8. w.op \in Arms \/ prog[k].dest # None
  <2>1. CASE w.op \in Setp
    BY <2>1 DEF Setp, Arms, Predicates
  <2>2. CASE w.op \notin Setp
    BY <1>1, <1>3, <2>2
  <2> QED BY <2>1, <2>2
<1> QED BY <1>3, <1>4, <1>5, <1>6, <1>7, <1>8 DEF Stores

Stored(e, pc) == \E n \in 1..Len(e.out) : e.out[n].pc = pc /\ e.out[n].kind \in {"store", "predicate"}

LEMMA InstructionStores ==
  ASSUME NEW e, IsEmitter(e), NEW i, Stores(i), i.op \in Setp \/ i.dest \in BuildGprMap(prog)
  PROVE  Stored(Instruction(e, i), i.pc)
<1>1. ASSUME NEW f, NEW x, f.out = Append(e.out, x), x.pc = i.pc, x.kind \in {"store", "predicate"}
      PROVE  Stored(f, i.pc)
  <2>1. Len(f.out) = Len(e.out) + 1 /\ Len(e.out) \in Nat /\ f.out[Len(e.out) + 1] = x
    BY <1>1, AppendTo DEF IsEmitter
  <2>2. Len(e.out) + 1 \in 1..Len(f.out)
    BY <2>1
  <2> QED BY <1>1, <2>1, <2>2 DEF Stored
<1>2. CASE i.op \in Setp
  <2> DEFINE x == [kind |-> "predicate", pc |-> i.pc, var |-> i.dest]
  <2>1. Instruction(e, i).out = Append(e.out, x)
    <3>1. Instruction(e, i) = [e EXCEPT !.preds = @ \cup {i.dest}, !.out = Append(@, x)]
      BY <1>2 DEF Instruction
    <3> QED BY <3>1 DEF IsEmitter
  <2>2. x.pc = i.pc /\ x.kind \in {"store", "predicate"}
    OBVIOUS
  <2> QED BY <1>1, <2>1, <2>2
<1>3. CASE i.op \notin Setp
  <2> DEFINE x == [kind |-> "store", pc |-> i.pc, var |-> i.dest]
  <2>1. Instruction(e, i).out = Append(e.out, x)
    <3>1. Instruction(e, i) = [e EXCEPT !.out = Append(@, x)]
      BY <1>3 DEF Instruction
    <3> QED BY <3>1 DEF IsEmitter
  <2>2. x.pc = i.pc /\ x.kind \in {"store", "predicate"}
    OBVIOUS
  <2> QED BY <1>1, <2>1, <2>2
<1> QED BY <1>2, <1>3

StoredUpTo(e, n) ==
    \A k \in 1..Len(prog) : k < n /\ prog[k].op \in Results => Stored(e, prog[k].pc)

LEMMA StoredStays ==
  ASSUME NEW e, NEW f, IsEmitter(e), IsEmitter(f), Grows(e, f), NEW pc, Stored(e, pc)
  PROVE  Stored(f, pc)
<1>1. PICK n \in 1..Len(e.out) : e.out[n].pc = pc /\ e.out[n].kind \in {"store", "predicate"}
  BY DEF Stored
<1>2. n \in 1..Len(f.out) /\ f.out[n] = e.out[n]
  BY DEF IsEmitter, Grows
<1> QED BY <1>1, <1>2 DEF Stored

LEMMA StoreStep ==
  ASSUME ProgramInv, IsEmitter(em), at \in 1..Len(prog), StoredUpTo(em, at),
         IsEmitter(em'), Grows(em, em'), EmitControl \/ EmitData
  PROVE  StoredUpTo(em', at + 1)
<1>1. at \in Nat /\ at > 0
  BY DEF ProgramInv
<1> SUFFICES ASSUME NEW k \in 1..Len(prog), k < at + 1, prog[k].op \in Results
             PROVE  Stored(em', prog[k].pc)
  BY DEF StoredUpTo
<1>2. CASE k < at
  BY <1>2, StoredStays DEF StoredUpTo
<1>3. CASE k = at
  <2> DEFINE b == AtBlockStart(em, prog[at])
  <2>1. EmitData
    BY <1>3 DEF Results, EmitControl, Emit, Branches, Exits
  <2>2. em' = Instruction(b, prog[k])
    BY <1>3, <2>1 DEF EmitData, Emit
  <2>3. IsEmitter(b)
    BY BlockQuiet DEF Quiet
  <2>4. PICK w \in InstructionWord : w.op \in Known /\ prog[k] = ToIr(w, prog[k].pc)
    BY <1>1, DecodedForm
  <2>5. ProgramOK /\ w.op = prog[k].op
    BY <1>1, <2>4, DecodedForm DEF ToIr
  <2>6. /\ Stores(prog[k])
        /\ prog[k].op \in Setp \/ prog[k].dest \in BuildGprMap(prog)
    BY <2>4, <2>5, ArmStores
  <2> HIDE DEF b
  <2> QED BY <2>2, <2>3, <2>6, InstructionStores
<1>4. k < at \/ k = at
  BY <1>1 DEF ProgramInv
<1> QED BY <1>2, <1>3, <1>4

-----------------------------------------------------------------------------
(* The inductive invariant of the pipeline.  Behind the decoder the        *)
(* program has ascending pcs; up to index at, results are stored and the   *)
(* stack and the announced merges follow the nesting.                      *)

PipelineInv ==
    /\ ProgramInv
    /\ IsEmitter(em)
    /\ StoredUpTo(em, at)
    /\ at \in 1..Len(prog) + 1 => Nesting(em, at)

LEMMA EmptyEmitter ==
  ASSUME NEW blocks, NEW e,
         e = [out |-> <<>>, labels |-> <<>>, emitted |-> blocks, stack |-> <<>>, preds |-> {}, next |-> 1]
  PROVE  IsEmitter(e) /\ e.out = <<>> /\ e.stack = <<>>
<1>2. /\ e.out = <<>> /\ e.labels = <<>> /\ e.emitted = blocks
      /\ e.stack = <<>> /\ e.preds = {} /\ e.next = 1
  OBVIOUS
<1>3. e = [out |-> e.out, labels |-> e.labels, emitted |-> e.emitted,
           stack |-> e.stack, preds |-> e.preds, next |-> e.next]
  BY <1>2
<1>4. e.out \in Seq(Range(e.out)) /\ e.stack \in Seq(Entry) /\ e.labels \in Seq(Nat) /\ Len(e.labels) = 0
  BY <1>2, EmptySeq
<1>5. DOMAIN e.labels = {}
  BY <1>4
<1> QED BY <1>2, <1>3, <1>4, <1>5 DEF IsEmitter

\* Priming: the properties depend on the program, which the loop keeps.
LEMMA SameProgram ==
  ASSUME prog' = prog
  PROVE  /\ Nesting(em, at)' <=> Nesting(em', at')
         /\ StoredUpTo(em, at)' <=> StoredUpTo(em', at')
         /\ IsEmitter(em)' <=> IsEmitter(em')
<1>1. WellNested' <=> WellNested
  BY DEF WellNested
<1>2. StackInv(em, at)' <=> StackInv(em', at')
  BY DEF StackInv, Enclosing
<1>3. MergeInv(em, at)' <=> MergeInv(em', at')
  BY DEF MergeInv, Taken, Targets
<1>4. StoredUpTo(em, at)' <=> StoredUpTo(em', at')
  BY DEF StoredUpTo, Stored
<1>5. IsEmitter(em)' <=> IsEmitter(em')
  BY DEF IsEmitter
<1> QED BY <1>1, <1>2, <1>3, <1>4, <1>5 DEF Nesting

LEMMA PipelineInductive == PipelineInv /\ [ShaderNext]_shaderVars => PipelineInv'
<1> SUFFICES ASSUME PipelineInv, [ShaderNext]_shaderVars PROVE PipelineInv'
  OBVIOUS
<1>1. ProgramInv'
  BY ProgramInductive DEF PipelineInv
<1>2. CASE UNCHANGED shaderVars
  <2>1. prog' = prog /\ em' = em /\ at' = at
    BY <1>2 DEF shaderVars
  <2> QED BY <1>1, <2>1, SameProgram DEF PipelineInv
<1>3. CASE DecodeShader
  <2>1. at' = 1 /\ ProgramInv /\ at = 0
    BY <1>3 DEF DecodeShader, PipelineInv
  <2>2. PICK blocks : em' = [out |-> <<>>, labels |-> <<>>, emitted |-> blocks,
                             stack |-> <<>>, preds |-> {}, next |-> 1]
    BY <1>3 DEF DecodeShader, Empty
  <2>3. IsEmitter(em') /\ em'.out = <<>> /\ em'.stack = <<>>
    BY <2>2, EmptyEmitter
  <2>4. IsEmitter(em)'
    BY <2>3 DEF IsEmitter
  <2>5. StoredUpTo(em, at)'
    <3>1. ~ \E k \in 1..Len(prog') : k < at'
      BY <2>1
    <3> QED BY <3>1 DEF StoredUpTo
  <2>6. Nesting(em, at)'
    <3>1. Enclosing(at)' \subseteq {i \in DOMAIN prog' : i < 1}
      BY <2>1 DEF Enclosing
    <3>2. Extract(region) \in Seq(InstructionWord)
      BY <2>1, ExtractEnds DEF ProgramInv
    <3>3. Ascending(Extract(region), 0, prog')
      BY <1>3, <3>2, DecodeAscends DEF DecodeShader
    <3>4. DOMAIN prog' = 1..Len(prog') /\ Len(prog') \in Nat
      BY <3>3 DEF Ascending
    <3>5. Enclosing(at)' = {}
      BY <3>1, <3>4
    <3> QED BY <2>1, <2>3, <3>5 DEF Nesting, StackInv, MergeInv
  <2> QED BY <1>1, <2>4, <2>5, <2>6 DEF PipelineInv
<1>4. CASE EmitControl \/ EmitData
  <2>1. at \in DOMAIN prog /\ at' = at + 1 /\ prog' = prog
    BY <1>4 DEF EmitControl, EmitData, Emit
  <2>2. at \in Nat /\ at > 0
    BY <2>1 DEF PipelineInv, ProgramInv
  <2>3. ProgramOK
    BY <2>2, DecodedForm DEF PipelineInv
  <2>4. at \in 1..Len(prog) /\ Nesting(em, at)
    BY <2>1, <2>3 DEF PipelineInv, ProgramOK
  <2>5. IsEmitter(em') /\ Grows(em, em') /\ Nesting(em', at + 1)
    BY <1>4, <2>3, <2>4, LoopStep DEF PipelineInv
  <2>6. StoredUpTo(em', at + 1)
    BY <1>4, <2>4, <2>5, StoreStep DEF PipelineInv
  <2> QED BY <1>1, <2>1, <2>5, <2>6, SameProgram DEF PipelineInv
<1>5. CASE EmitEnd
  <2>1. at = Len(prog) + 1 /\ at > 0 /\ at' = at + 1 /\ prog' = prog
    BY <1>5 DEF EmitEnd
  <2>2. IsEmitter(em') /\ Grows(em, em')
    <3>1. CASE em' = em
      BY <3>1, QuietSelf DEF PipelineInv, Quiet
    <3>2. CASE em' = [em EXCEPT !.out = Append(@, [kind |-> "return", pc |-> None])]
      BY <3>2, AppendOut DEF PipelineInv
    <3> QED BY <1>5, <3>1, <3>2 DEF EmitEnd
  <2>3. ProgramOK /\ at \in Nat
    BY <2>1, DecodedForm DEF PipelineInv, ProgramInv
  <2>4. StoredUpTo(em', at')
    <3> SUFFICES ASSUME NEW k \in 1..Len(prog), prog[k].op \in Results PROVE Stored(em', prog[k].pc)
      BY DEF StoredUpTo
    <3>1. Stored(em, prog[k].pc)
      BY <2>1, <2>3 DEF PipelineInv, StoredUpTo, ProgramOK
    <3> QED BY <2>2, <3>1, StoredStays DEF PipelineInv
  <2>5. ~(at' \in 1..Len(prog') + 1)
    BY <2>1, <2>3 DEF ProgramOK
  <2> QED BY <1>1, <2>1, <2>2, <2>4, <2>5, SameProgram DEF PipelineInv
<1> QED BY <1>2, <1>3, <1>4, <1>5 DEF ShaderNext

LEMMA PipelineInvariant == ShaderSpec => []PipelineInv
<1>1. ShaderInit => PipelineInv
  <2> SUFFICES ASSUME ShaderInit PROVE PipelineInv
    OBVIOUS
  <2>1. ProgramInv
    BY WordsAssumption DEF ShaderInit, ProgramInv
  <2>2. em = [out |-> <<>>, labels |-> <<>>, emitted |-> {}, stack |-> <<>>, preds |-> {}, next |-> 1]
    BY DEF ShaderInit, Empty
  <2>3. IsEmitter(em)
    BY <2>2, EmptyEmitter
  <2>4. at = 0 /\ prog = <<>>
    BY DEF ShaderInit
  <2>5. StoredUpTo(em, at)
    BY <2>4 DEF StoredUpTo
  <2> QED BY <2>1, <2>3, <2>4, <2>5 DEF PipelineInv
<1> QED BY <1>1, PipelineInductive, PTL DEF ShaderSpec

(* No instruction with a result is dropped between the decoder and the     *)
(* function, in spite of the arms that give up silently.                   *)
THEOREM ResultsReachVariables == ShaderSpec => []ResultsStored
<1>1. PipelineInv => ResultsStored
  <2> SUFFICES ASSUME PipelineInv, NEW k \in DOMAIN prog, k < at,
                      prog[k].op \notin Lost \cup Branches \cup Exits
               PROVE  \E n \in DOMAIN em.out : /\ em.out[n].pc = prog[k].pc
                                               /\ em.out[n].kind \in {"store", "predicate"}
    BY DEF ResultsStored
  <2>1. at \in Nat /\ at > 0
    BY DEF PipelineInv, ProgramInv
  <2>2. k \in 1..Len(prog)
    BY <2>1, DecodedForm DEF PipelineInv, ProgramOK
  <2>3. PICK w \in InstructionWord : w.op \in Known /\ prog[k] = ToIr(w, prog[k].pc)
    BY <2>1, <2>2, DecodedForm DEF PipelineInv
  <2>4. prog[k].op \in Results
    BY <2>3 DEF ToIr, Results
  <2>5. Stored(em, prog[k].pc)
    BY <2>2, <2>4 DEF PipelineInv, StoredUpTo
  <2>6. DOMAIN em.out = 1..Len(em.out)
    BY LenProperties DEF PipelineInv, IsEmitter
  <2> QED BY <2>5, <2>6 DEF Stored
<1> QED BY <1>1, PipelineInvariant, PTL

(* The stack of deferred merges is the nesting of the guest's SSY and SYNC *)
(* at every instruction, and no merge block is announced twice.            *)
THEOREM MergesNest == ShaderSpec => []MergesFollowNesting
<1>1. PipelineInv => MergesFollowNesting
  <2> SUFFICES ASSUME PipelineInv, at \in DOMAIN prog, WellNested
               PROVE  /\ {em.stack[k].ssy : k \in DOMAIN em.stack} = {prog[i].pc : i \in Enclosing(at)}
                      /\ \A j, k \in DOMAIN em.stack : j < k => em.stack[j].ssy < em.stack[k].ssy
                      /\ \A j, k \in DOMAIN em.out :
                           em.out[j].kind = "merge" /\ em.out[k].kind = "merge" /\ em.out[j].id = em.out[k].id
                             => j = k
    BY DEF MergesFollowNesting
  <2>1. at > 0
    BY DEF PipelineInv, ProgramInv
  <2>2. at \in 1..Len(prog) + 1
    BY <2>1, DecodedForm DEF PipelineInv, ProgramOK
  <2>3. StackInv(em, at) /\ MergeInv(em, at)
    BY <2>2 DEF PipelineInv, Nesting
  <2>4. DOMAIN em.out = 1..Len(em.out) /\ DOMAIN em.stack = 1..Len(em.stack)
    BY LenProperties DEF PipelineInv, IsEmitter
  <2>5. {em.stack[k].ssy : k \in DOMAIN em.stack} = {prog[i].pc : i \in Enclosing(at)}
    <3> DEFINE S == {em.stack[k].ssy : k \in DOMAIN em.stack}
               T == {prog[i].pc : i \in Enclosing(at)}
    <3>1. ASSUME NEW k \in DOMAIN em.stack PROVE \E i \in Enclosing(at) : em.stack[k].ssy = prog[i].pc
      BY <2>3, <2>4 DEF StackInv
    <3>2. ASSUME NEW i \in Enclosing(at) PROVE \E k \in DOMAIN em.stack : em.stack[k].ssy = prog[i].pc
      BY <2>3, <2>4 DEF StackInv
    <3>3. S \subseteq T
      BY <3>1
    <3>4. T \subseteq S
      BY <3>2
    <3> QED BY <3>3, <3>4
  <2> QED BY <2>3, <2>4, <2>5 DEF StackInv, MergeInv
<1> QED BY <1>1, PipelineInvariant, PTL
=============================================================================
