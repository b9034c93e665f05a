---------------------------- MODULE PathsProofs ----------------------------
(***************************************************************************)
(* Proofs about Paths, for strings of any length over any symbols and any  *)
(* root prefixes.  What the library's theorems say of induction and of     *)
(* recursive functions is stated here with sets in the place of formulas,  *)
(* in which form a proof can use it.                                       *)
(***************************************************************************)
EXTENDS Paths, SequenceTheorems, WellFoundedInduction, TLAPS

-----------------------------------------------------------------------------
(* Induction and recursion.                                                 *)

LEMMA LeastNumber ==
  ASSUME NEW T \in SUBSET Nat, T # {}
  PROVE  \E x \in T : \A y \in T : x <= y
<1>1. \E x \in T : \A y \in T : ~(<<y, x>> \in OpToRel(<, Nat))
  BY WFMin, NatLessThanWellFounded
<1>2. PICK x \in T : \A y \in T : ~(<<y, x>> \in OpToRel(<, Nat))
  BY <1>1
<1>3. ASSUME NEW y \in T PROVE x <= y
  <2>1. ~(<<y, x>> \in {ss \in Nat \X Nat : ss[1] < ss[2]})
    BY <1>2 DEF OpToRel
  <2>2. <<y, x>> \in Nat \X Nat
    OBVIOUS
  <2> QED
    BY <2>1, <2>2
<1> QED
  BY <1>2, <1>3

LEMMA Induction ==
  ASSUME NEW n \in Nat, NEW P, 0 \in P, \A i \in 1 .. n : i - 1 \in P => i \in P
  PROVE  0 .. n \subseteq P
<1> DEFINE T == (0 .. n) \ P
<1> SUFFICES ASSUME T # {} PROVE FALSE
  OBVIOUS
<1>1. PICK x \in T : \A y \in T : x <= y
  <2>1. T \in SUBSET Nat
    OBVIOUS
  <2> QED
    BY <2>1, LeastNumber
<1>2. x \in 1 .. n /\ x - 1 \in 0 .. n /\ ~(x <= x - 1)
  OBVIOUS
<1>3. x - 1 \in P
  BY <1>1, <1>2
<1> QED
  BY <1>2, <1>3

LEMMA SeqInduction ==
  ASSUME NEW A, NEW P, <<>> \in P, \A s \in Seq(A), c \in A : s \in P => Append(s, c) \in P
  PROVE  Seq(A) \subseteq P
<1> SUFFICES ASSUME NEW t \in Seq(A) PROVE t \in P
  OBVIOUS
<1> DEFINE Q == {k \in Nat : \A s \in Seq(A) : Len(s) = k => s \in P}
<1>1. 0 \in Q
  BY EmptySeq
<1>2. ASSUME NEW k \in 1 .. Len(t), k - 1 \in Q PROVE k \in Q
  <2> SUFFICES ASSUME NEW s \in Seq(A), Len(s) = k PROVE s \in P
    OBVIOUS
  <2>1. s # <<>>
    BY EmptySeq
  <2>2. PICK r \in Seq(A), c \in A : s = Append(r, c)
    BY <2>1, SequenceEmptyOrAppend
  <2>3. Len(r) = k - 1
    BY <2>2, AppendProperties, LenProperties
  <2> QED
    BY <1>2, <2>2, <2>3
<1>3. Len(t) \in Nat
  BY LenProperties
<1> HIDE DEF Q
<1>4. 0 .. Len(t) \subseteq Q
  BY <1>1, <1>2, <1>3, Induction
<1> QED
  BY <1>3, <1>4 DEF Q

\* The values of a function, each computed from the one before.
Computed(g, n, B, base, step) ==
  /\ g \in [0 .. n -> B] /\ g[0] = base
  /\ \A i \in 1 .. n : g[i] = step[<<g[i - 1], i>>]

LEMMA Recursion ==
  ASSUME NEW n \in Nat, NEW B, NEW base \in B, NEW step \in [B \X (1 .. n) -> B]
  PROVE  \E g : Computed(g, n, B, base, step)
<1> DEFINE P == {k \in 0 .. n : \E g : Computed(g, k, B, base, step)}
<1>1. 0 \in P
  <2> DEFINE h == [i \in 0 .. 0 |-> base]
  <2>1. h \in [0 .. 0 -> B] /\ h[0] = base
    OBVIOUS
  <2> HIDE DEF h
  <2>2. Computed(h, 0, B, base, step)
    BY <2>1 DEF Computed
  <2>3. 0 \in 0 .. n
    OBVIOUS
  <2> QED
    BY <2>2, <2>3
<1>2. ASSUME NEW k \in 1 .. n, k - 1 \in P PROVE k \in P
  <2>1. PICK g : Computed(g, k - 1, B, base, step)
    BY <1>2
  <2> DEFINE h == [i \in 0 .. k |-> IF i = k THEN step[<<g[k - 1], k>>] ELSE g[i]]
  <2>2. h \in [0 .. k -> B] /\ h[k] = step[<<g[k - 1], k>>] /\ \A i \in 0 .. k - 1 : h[i] = g[i]
    BY <2>1 DEF Computed
  <2> HIDE DEF h
  <2>3. h[0] = base
    BY <2>1, <2>2 DEF Computed
  <2>4. ASSUME NEW i \in 1 .. k PROVE h[i] = step[<<h[i - 1], i>>]
    <3>1. i - 1 \in 0 .. k - 1 /\ h[i - 1] = g[i - 1]
      BY <2>2
    <3>2. CASE i = k
      BY <2>2, <3>1, <3>2
    <3>3. CASE i # k
      <4>1. i \in 1 .. k - 1
        BY <3>3
      <4> QED
        BY <2>1, <2>2, <3>1, <4>1 DEF Computed
    <3> QED
      BY <3>2, <3>3
  <2>5. Computed(h, k, B, base, step)
    BY <2>2, <2>3, <2>4 DEF Computed
  <2> QED
    BY <2>5
<1> HIDE DEF P
<1>3. n \in P
  BY <1>1, <1>2, Induction
<1> QED
  BY <1>3 DEF P

LEMMA Agreement ==
  ASSUME NEW n \in Nat, NEW g, NEW h, g[0] = h[0],
         \A i \in 1 .. n : g[i - 1] = h[i - 1] => g[i] = h[i]
  PROVE  \A i \in 0 .. n : g[i] = h[i]
<1> DEFINE P == {i \in 0 .. n : g[i] = h[i]}
<1>1. 0 \in P /\ \A i \in 1 .. n : i - 1 \in P => i \in P
  OBVIOUS
<1> HIDE DEF P
<1>2. 0 .. n \subseteq P
  BY <1>1, Induction
<1> QED
  BY <1>2 DEF P

\* Left folds: F[s] is the last of the values computed along the sequence s.
Along(g, s, B, base, step) ==
  /\ g \in [0 .. Len(s) -> B] /\ g[0] = base
  /\ \A i \in 1 .. Len(s) : g[i] = step[<<g[i - 1], s[i]>>]

IsFold(F, A, B, base, step) ==
  /\ F \in [Seq(A) -> B]
  /\ F[<<>>] = base
  /\ \A s \in Seq(A), c \in A : F[Append(s, c)] = step[<<F[s], c>>]
  /\ \A s \in Seq(A) : \E g : Along(g, s, B, base, step) /\ g[Len(s)] = F[s]

LEMMA Fold ==
  ASSUME NEW A, NEW B, NEW base \in B, NEW step \in [B \X A -> B]
  PROVE  \E F : IsFold(F, A, B, base, step)
<1> DEFINE G(s) == CHOOSE g : Along(g, s, B, base, step)
           F == [s \in Seq(A) |-> G(s)[Len(s)]]
<1>1. ASSUME NEW s \in Seq(A) PROVE \E g : Along(g, s, B, base, step)
  <2>1. Len(s) \in Nat /\ \A i \in 1 .. Len(s) : s[i] \in A
    BY LenProperties, ElementOfSeq
  <2> DEFINE h == [q \in B \X (1 .. Len(s)) |-> step[<<q[1], s[q[2]]>>]]
  <2>2. h \in [B \X (1 .. Len(s)) -> B]
    BY <2>1
  <2>3. \A b \in B, i \in 1 .. Len(s) : h[<<b, i>>] = step[<<b, s[i]>>]
    OBVIOUS
  <2> HIDE DEF h
  <2>4. PICK g : Computed(g, Len(s), B, base, h)
    BY <2>1, <2>2, Recursion
  <2>5. \A i \in 1 .. Len(s) : g[i - 1] \in B
    BY <2>1, <2>4 DEF Computed
  <2>6. Along(g, s, B, base, step)
    BY <2>3, <2>4, <2>5 DEF Along, Computed
  <2> QED
    BY <2>6
<1>2. ASSUME NEW s \in Seq(A) PROVE Along(G(s), s, B, base, step)
  BY <1>1
<1> HIDE DEF G
<1>3. ASSUME NEW s \in Seq(A) PROVE F[s] = G(s)[Len(s)] /\ F[s] \in B /\ Len(s) \in Nat
  BY <1>2, LenProperties DEF Along
<1>4. F \in [Seq(A) -> B]
  BY <1>3
<1> HIDE DEF F
<1>5. F[<<>>] = base
  BY <1>2, <1>3, EmptySeq DEF Along
<1>6. ASSUME NEW s \in Seq(A), NEW c \in A PROVE F[Append(s, c)] = step[<<F[s], c>>]
  <2> DEFINE t == Append(s, c)
  <2>1. t \in Seq(A) /\ Len(t) = Len(s) + 1 /\ t[Len(s) + 1] = c /\ \A i \in 1 .. Len(s) : t[i] = s[i]
    BY AppendProperties
  <2> HIDE DEF t
  <2>2. Along(G(s), s, B, base, step) /\ Along(G(t), t, B, base, step) /\ Len(s) \in Nat
    BY <1>2, <1>3, <2>1
  <2>3. \A i \in 0 .. Len(s) : G(s)[i] = G(t)[i]
    <3>1. ASSUME NEW i \in 1 .. Len(s), G(s)[i - 1] = G(t)[i - 1] PROVE G(s)[i] = G(t)[i]
      <4>1. G(s)[i] = step[<<G(s)[i - 1], s[i]>>]
        BY <2>2 DEF Along
      <4>2. i \in 1 .. Len(t) /\ G(t)[i] = step[<<G(t)[i - 1], t[i]>>]
        BY <2>1, <2>2 DEF Along
      <4> QED
        BY <2>1, <3>1, <4>1, <4>2
    <3>2. G(s)[0] = G(t)[0]
      BY <2>2 DEF Along
    <3> DEFINE P == {i \in 0 .. Len(s) : G(s)[i] = G(t)[i]}
    <3>3. 0 \in P /\ \A i \in 1 .. Len(s) : i - 1 \in P => i \in P
      BY <2>2, <3>1, <3>2
    <3> HIDE DEF P
    <3>4. 0 .. Len(s) \subseteq P
      BY <2>2, <3>3, Induction
    <3> QED
      BY <3>4 DEF P
  <2>4. G(t)[Len(s) + 1] = step[<<G(t)[Len(s)], c>>]
    BY <2>1, <2>2 DEF Along
  <2>5. F[s] = G(s)[Len(s)] /\ F[t] = G(t)[Len(s) + 1] /\ Len(s) \in 0 .. Len(s)
    BY <1>3, <2>1, <2>2
  <2>6. F[t] = step[<<F[s], c>>]
    BY <2>3, <2>4, <2>5
  <2> QED
    BY <2>6 DEF t
<1>7. IsFold(F, A, B, base, step)
  BY <1>2, <1>3, <1>4, <1>5, <1>6 DEF IsFold
<1> QED
  BY <1>7

-----------------------------------------------------------------------------
(* Split.                                                                   *)

\* The parts of a path or a pattern, before the empty ones are dropped.
PartsOf(A) == {p \in Seq(Seq(A)) : p # <<>>}

LEMMA SplitIs ==
  ASSUME NEW A
  PROVE  /\ Split(<<>>) = <<<<>>>>
         /\ \A s \in Seq(A) : Split(s) \in PartsOf(A)
         /\ \A s \in Seq(A), c \in A :
              Split(Append(s, c)) =
                IF c = "/" THEN Append(Split(s), <<>>)
                ELSE Append(Front(Split(s)), Append(Last(Split(s)), c))
<1> DEFINE B == PartsOf(A)
           Step(before, c) == IF c = "/" THEN Append(before, <<>>)
                              ELSE Append(Front(before), Append(Last(before), c))
           step == [q \in B \X A |-> Step(q[1], q[2])]
           base == <<<<>>>>
<1>1. ASSUME NEW p \in B, NEW c \in A PROVE Step(p, c) \in B
  <2>0. p \in Seq(Seq(A)) /\ p # <<>>
    BY DEF PartsOf
  <2>1. Len(p) \in Nat \ {0} /\ Last(p) \in Seq(A)
    BY <2>0, EmptySeq, ElementOfSeq DEF Last
  <2>2. Front(p) \in Seq(Seq(A))
    BY <2>0, <2>1, ElementOfSeq, SubSeqProperties DEF Front
  <2>3. Append(p, <<>>) \in B
    <3>1. <<>> \in Seq(A)
      BY EmptySeq
    <3> HIDE DEF Step, step, base
    <3> QED
      BY <2>0, <3>1, AppendProperties DEF PartsOf
  <2>4. Append(Last(p), c) \in Seq(A)
    BY <2>1, AppendProperties
  <2>5. Append(Front(p), Append(Last(p), c)) \in B
    <3> DEFINE w == Append(Last(p), c)
    <3>1. w \in Seq(A)
      BY <2>4
    <3> HIDE DEF w, Step, step, base
    <3>2. Append(Front(p), w) \in B
      BY <2>2, <3>1, AppendProperties DEF PartsOf
    <3> QED
      BY <3>2 DEF w
  <2> QED
    BY <2>3, <2>5
<1>2. base \in B
  BY DEF PartsOf
<1> HIDE DEF base, B, Step
<1>3. step \in [B \X A -> B] /\ \A p \in B, c \in A : step[<<p, c>>] = Step(p, c)
  BY <1>1
<1> HIDE DEF step
<1>4. PICK F : IsFold(F, A, B, base, step)
  BY <1>2, <1>3, Fold
<1>5. ASSUME NEW s \in Seq(A) PROVE Split(s) = F[s]
  <2> DEFINE Is(g) == g = [i \in 0 .. Len(s) |-> IF i = 0 THEN base ELSE Step(g[i - 1], s[i])]
             G == CHOOSE g : Is(g)
  <2>1. PICK g : Along(g, s, B, base, step) /\ g[Len(s)] = F[s]
    BY <1>4 DEF IsFold
  <2>2. Len(s) \in Nat /\ \A i \in 1 .. Len(s) : s[i] \in A
    BY LenProperties, ElementOfSeq
  <2>3. ASSUME NEW i \in 1 .. Len(s) PROVE g[i] = Step(g[i - 1], s[i])
    <3>1. g[i - 1] \in B /\ s[i] \in A
      BY <2>1, <2>2 DEF Along
    <3>2. g[i] = step[<<g[i - 1], s[i]>>]
      BY <2>1 DEF Along
    <3> QED
      BY <1>3, <3>1, <3>2
  <2>4. Is(g)
    BY <2>1, <2>2, <2>3 DEF Along
  <2>5. Is(G)
    <3> HIDE DEF Is
    <3> QED
      BY <2>4
  <2>6. Split(s) = G[Len(s)]
    BY DEF Split, Step, base
  <2> HIDE DEF G
  <2>7. G[0] = base /\ \A i \in 1 .. Len(s) : G[i] = Step(G[i - 1], s[i])
    BY <2>2, <2>5
  <2>8. g[0] = G[0] /\ \A i \in 1 .. Len(s) : g[i - 1] = G[i - 1] => g[i] = G[i]
    BY <2>1, <2>3, <2>7 DEF Along
  <2>9. \A i \in 0 .. Len(s) : g[i] = G[i]
    BY <2>2, <2>8, Agreement, ZenonT(40)
  <2> QED
    BY <2>1, <2>2, <2>6, <2>9
<1>6. Split(<<>>) = base
  BY <1>4, <1>5, EmptySeq DEF IsFold
<1>7. \A s \in Seq(A) : Split(s) \in B
  BY <1>4, <1>5 DEF IsFold
<1>8. ASSUME NEW s \in Seq(A), NEW c \in A PROVE Split(Append(s, c)) = Step(Split(s), c)
  <2>1. Append(s, c) \in Seq(A) /\ F[Append(s, c)] = step[<<F[s], c>>] /\ F[s] \in B
    BY <1>4, AppendProperties DEF IsFold
  <2> QED
    BY <1>3, <1>5, <2>1
<1> QED
  BY <1>6, <1>7, <1>8 DEF base, B, Step

\* Dropping goes through the parts one by one.
LEMMA DroppingIs ==
  ASSUME NEW A, NEW D
  PROVE  /\ Dropping(<<>>, D) = <<>>
         /\ \A s \in Seq(A) : Dropping(s, D) \in Seq(A \ D)
         /\ \A s \in Seq(A), c \in A :
              Dropping(Append(s, c), D) = IF c \in D THEN Dropping(s, D) ELSE Append(Dropping(s, D), c)
<1> DEFINE Part == A
           B == Seq(A \ D)
           Step(before, c) == IF c \in D THEN before ELSE Append(before, c)
           step == [q \in B \X Part |-> Step(q[1], q[2])]
           base == <<>>
<1>1. ASSUME NEW p \in B, NEW c \in Part PROVE Step(p, c) \in B
  BY AppendProperties
<1>2. base \in B
  BY EmptySeq
<1> HIDE DEF base, B, Step, Part
<1>3. step \in [B \X Part -> B] /\ \A p \in B, c \in Part : step[<<p, c>>] = Step(p, c)
  BY <1>1
<1> HIDE DEF step
<1>4. PICK F : IsFold(F, Part, B, base, step)
  BY <1>2, <1>3, Fold
<1>5. ASSUME NEW s \in Seq(Part) PROVE Dropping(s, D) = F[s]
  <2> DEFINE Is(g) == g = [i \in 0 .. Len(s) |-> IF i = 0 THEN base ELSE Step(g[i - 1], s[i])]
             G == CHOOSE g : Is(g)
  <2>1. PICK g : Along(g, s, B, base, step) /\ g[Len(s)] = F[s]
    BY <1>4 DEF IsFold
  <2>2. Len(s) \in Nat /\ \A i \in 1 .. Len(s) : s[i] \in Part
    BY LenProperties, ElementOfSeq
  <2>3. ASSUME NEW i \in 1 .. Len(s) PROVE g[i] = Step(g[i - 1], s[i])
    <3>1. g[i - 1] \in B /\ s[i] \in Part
      BY <2>1, <2>2 DEF Along
    <3>2. g[i] = step[<<g[i - 1], s[i]>>]
      BY <2>1 DEF Along
    <3> QED
      BY <1>3, <3>1, <3>2
  <2>4. Is(g)
    BY <2>1, <2>2, <2>3 DEF Along
  <2>5. Is(G)
    <3> HIDE DEF Is
    <3> QED
      BY <2>4
  <2>6. Dropping(s, D) = G[Len(s)]
    BY DEF Dropping, Step, base
  <2> HIDE DEF G
  <2>7. G[0] = base /\ \A i \in 1 .. Len(s) : G[i] = Step(G[i - 1], s[i])
    BY <2>2, <2>5
  <2>8. g[0] = G[0] /\ \A i \in 1 .. Len(s) : g[i - 1] = G[i - 1] => g[i] = G[i]
    BY <2>1, <2>3, <2>7 DEF Along
  <2>9. \A i \in 0 .. Len(s) : g[i] = G[i]
    BY <2>2, <2>8, Agreement, ZenonT(40)
  <2> QED
    BY <2>1, <2>2, <2>6, <2>9
<1>6. Dropping(<<>>, D) = base
  BY <1>4, <1>5, EmptySeq DEF IsFold
<1>7. \A s \in Seq(Part) : Dropping(s, D) \in B
  BY <1>4, <1>5 DEF IsFold
<1>8. ASSUME NEW s \in Seq(Part), NEW c \in Part PROVE Dropping(Append(s, c), D) = Step(Dropping(s, D), c)
  <2>1. Append(s, c) \in Seq(Part) /\ F[Append(s, c)] = step[<<F[s], c>>] /\ F[s] \in B
    BY <1>4, AppendProperties DEF IsFold
  <2> QED
    BY <1>3, <1>5, <2>1
<1> QED
  BY <1>6, <1>7, <1>8 DEF base, B, Step, Part

\* So does Joined.
LEMMA JoinedIs ==
  ASSUME NEW A, "/" \in A
  PROVE  /\ Joined(<<>>) = <<>>
         /\ \A s \in Seq(Seq(A)) : Joined(s) \in Seq(A)
         /\ \A s \in Seq(Seq(A)), c \in Seq(A) :
              Joined(Append(s, c)) = Joined(s) \o Slash \o c
<1> DEFINE Part == Seq(A)
           B == Seq(A)
           Step(before, c) == before \o Slash \o c
           step == [q \in B \X Part |-> Step(q[1], q[2])]
           base == <<>>
<1>1. ASSUME NEW p \in B, NEW c \in Part PROVE Step(p, c) \in B
  <2>1. Slash \in Seq(A)
    BY DEF Slash
  <2> QED
    BY <2>1, ConcatProperties
<1>2. base \in B
  BY EmptySeq
<1> HIDE DEF base, B, Step, Part
<1>3. step \in [B \X Part -> B] /\ \A p \in B, c \in Part : step[<<p, c>>] = Step(p, c)
  BY <1>1
<1> HIDE DEF step
<1>4. PICK F : IsFold(F, Part, B, base, step)
  BY <1>2, <1>3, Fold
<1>5. ASSUME NEW s \in Seq(Part) PROVE Joined(s) = F[s]
  <2> DEFINE Is(g) == g = [i \in 0 .. Len(s) |-> IF i = 0 THEN base ELSE Step(g[i - 1], s[i])]
             G == CHOOSE g : Is(g)
  <2>1. PICK g : Along(g, s, B, base, step) /\ g[Len(s)] = F[s]
    BY <1>4 DEF IsFold
  <2>2. Len(s) \in Nat /\ \A i \in 1 .. Len(s) : s[i] \in Part
    BY LenProperties, ElementOfSeq
  <2>3. ASSUME NEW i \in 1 .. Len(s) PROVE g[i] = Step(g[i - 1], s[i])
    <3>1. g[i - 1] \in B /\ s[i] \in Part
      BY <2>1, <2>2 DEF Along
    <3>2. g[i] = step[<<g[i - 1], s[i]>>]
      BY <2>1 DEF Along
    <3> QED
      BY <1>3, <3>1, <3>2
  <2>4. Is(g)
    BY <2>1, <2>2, <2>3 DEF Along
  <2>5. Is(G)
    <3> HIDE DEF Is
    <3> QED
      BY <2>4
  <2>6. Joined(s) = G[Len(s)]
    BY DEF Joined, Step, base
  <2> HIDE DEF G
  <2>7. G[0] = base /\ \A i \in 1 .. Len(s) : G[i] = Step(G[i - 1], s[i])
    BY <2>2, <2>5
  <2>8. g[0] = G[0] /\ \A i \in 1 .. Len(s) : g[i - 1] = G[i - 1] => g[i] = G[i]
    BY <2>1, <2>3, <2>7 DEF Along
  <2>9. \A i \in 0 .. Len(s) : g[i] = G[i]
    BY <2>2, <2>8, Agreement, ZenonT(40)
  <2> QED
    BY <2>1, <2>2, <2>6, <2>9
<1>6. Joined(<<>>) = base
  BY <1>4, <1>5, EmptySeq DEF IsFold
<1>7. \A s \in Seq(Part) : Joined(s) \in B
  BY <1>4, <1>5 DEF IsFold
<1>8. ASSUME NEW s \in Seq(Part), NEW c \in Part PROVE Joined(Append(s, c)) = Step(Joined(s), c)
  <2>1. Append(s, c) \in Seq(Part) /\ F[Append(s, c)] = step[<<F[s], c>>] /\ F[s] \in B
    BY <1>4, AppendProperties DEF IsFold
  <2> QED
    BY <1>3, <1>5, <2>1
<1> QED
  BY <1>6, <1>7, <1>8 DEF base, B, Step, Part

\* Escaping goes through the symbols of a path one by one.
LEMMA EscapeIs ==
  ASSUME NEW A, "\\" \in A
  PROVE  /\ escapeCachePattern(<<>>) = <<>>
         /\ \A s \in Seq(A) : escapeCachePattern(s) \in Seq(A)
         /\ \A s \in Seq(A), c \in A :
              escapeCachePattern(Append(s, c)) = escapeCachePattern(s) \o (IF c \in Escaped THEN <<"\\", c>> ELSE <<c>>)
<1> DEFINE Part == A
           B == Seq(A)
           Step(before, c) == before \o (IF c \in Escaped THEN <<"\\", c>> ELSE <<c>>)
           step == [q \in B \X Part |-> Step(q[1], q[2])]
           base == <<>>
<1>1. ASSUME NEW p \in B, NEW c \in Part PROVE Step(p, c) \in B
  <2>1. <<"\\", c>> \in Seq(A) /\ <<c>> \in Seq(A)
    OBVIOUS
  <2> QED
    BY <2>1, ConcatProperties
<1>2. base \in B
  BY EmptySeq
<1> HIDE DEF base, B, Step, Part
<1>3. step \in [B \X Part -> B] /\ \A p \in B, c \in Part : step[<<p, c>>] = Step(p, c)
  BY <1>1
<1> HIDE DEF step
<1>4. PICK F : IsFold(F, Part, B, base, step)
  BY <1>2, <1>3, Fold
<1>5. ASSUME NEW s \in Seq(Part) PROVE escapeCachePattern(s) = F[s]
  <2> DEFINE Is(g) == g = [i \in 0 .. Len(s) |-> IF i = 0 THEN base ELSE Step(g[i - 1], s[i])]
             G == CHOOSE g : Is(g)
  <2>1. PICK g : Along(g, s, B, base, step) /\ g[Len(s)] = F[s]
    BY <1>4 DEF IsFold
  <2>2. Len(s) \in Nat /\ \A i \in 1 .. Len(s) : s[i] \in Part
    BY LenProperties, ElementOfSeq
  <2>3. ASSUME NEW i \in 1 .. Len(s) PROVE g[i] = Step(g[i - 1], s[i])
    <3>1. g[i - 1] \in B /\ s[i] \in Part
      BY <2>1, <2>2 DEF Along
    <3>2. g[i] = step[<<g[i - 1], s[i]>>]
      BY <2>1 DEF Along
    <3> QED
      BY <1>3, <3>1, <3>2
  <2>4. Is(g)
    BY <2>1, <2>2, <2>3 DEF Along
  <2>5. Is(G)
    <3> HIDE DEF Is
    <3> QED
      BY <2>4
  <2>6. escapeCachePattern(s) = G[Len(s)]
    BY DEF escapeCachePattern, Step, base
  <2> HIDE DEF G
  <2>7. G[0] = base /\ \A i \in 1 .. Len(s) : G[i] = Step(G[i - 1], s[i])
    BY <2>2, <2>5
  <2>8. g[0] = G[0] /\ \A i \in 1 .. Len(s) : g[i - 1] = G[i - 1] => g[i] = G[i]
    BY <2>1, <2>3, <2>7 DEF Along
  <2>9. \A i \in 0 .. Len(s) : g[i] = G[i]
    BY <2>2, <2>8, Agreement, ZenonT(40)
  <2> QED
    BY <2>1, <2>2, <2>6, <2>9
<1>6. escapeCachePattern(<<>>) = base
  BY <1>4, <1>5, EmptySeq DEF IsFold
<1>7. \A s \in Seq(Part) : escapeCachePattern(s) \in B
  BY <1>4, <1>5 DEF IsFold
<1>8. ASSUME NEW s \in Seq(Part), NEW c \in Part PROVE escapeCachePattern(Append(s, c)) = Step(escapeCachePattern(s), c)
  <2>1. Append(s, c) \in Seq(Part) /\ F[Append(s, c)] = step[<<F[s], c>>] /\ F[s] \in B
    BY <1>4, AppendProperties DEF IsFold
  <2> QED
    BY <1>3, <1>5, <2>1
<1> QED
  BY <1>6, <1>7, <1>8 DEF base, B, Step, Part

\* And so does what reads a pattern.
LEMMA ReadIs ==
  ASSUME NEW A
  PROVE  /\ Read(<<>>) = [escaped |-> FALSE, tokens |-> <<>>]
         /\ \A s \in Seq(A) : Read(s) \in [escaped : BOOLEAN, tokens : Seq(A \cup {"ANY", "ONE"})]
         /\ \A s \in Seq(A), c \in A :
              Read(Append(s, c)) = (IF Read(s).escaped THEN [escaped |-> FALSE, tokens |-> Append(Read(s).tokens, c)]
                 ELSE IF c = "\\" THEN [escaped |-> TRUE, tokens |-> Read(s).tokens]
                 ELSE [escaped |-> FALSE, tokens |-> Append(Read(s).tokens, Token(c))])
<1> DEFINE Part == A
           B == [escaped : BOOLEAN, tokens : Seq(A \cup {"ANY", "ONE"})]
           Step(before, c) == (IF before.escaped THEN [escaped |-> FALSE, tokens |-> Append(before.tokens, c)]
                 ELSE IF c = "\\" THEN [escaped |-> TRUE, tokens |-> before.tokens]
                 ELSE [escaped |-> FALSE, tokens |-> Append(before.tokens, Token(c))])
           step == [q \in B \X Part |-> Step(q[1], q[2])]
           base == [escaped |-> FALSE, tokens |-> <<>>]
<1>1. ASSUME NEW p \in B, NEW c \in Part PROVE Step(p, c) \in B
  <2>1. Token(c) \in A \cup {"ANY", "ONE"}
    BY DEF Token
  <2> HIDE DEF step, base
  <2> QED
    BY <2>1, AppendProperties
<1>2. base \in B
  BY EmptySeq
<1> HIDE DEF base, B, Step, Part
<1>3. step \in [B \X Part -> B] /\ \A p \in B, c \in Part : step[<<p, c>>] = Step(p, c)
  BY <1>1
<1> HIDE DEF step
<1>4. PICK F : IsFold(F, Part, B, base, step)
  BY <1>2, <1>3, Fold
<1>5. ASSUME NEW s \in Seq(Part) PROVE Read(s) = F[s]
  <2> DEFINE Is(g) == g = [i \in 0 .. Len(s) |-> IF i = 0 THEN base ELSE Step(g[i - 1], s[i])]
             G == CHOOSE g : Is(g)
  <2>1. PICK g : Along(g, s, B, base, step) /\ g[Len(s)] = F[s]
    BY <1>4 DEF IsFold
  <2>2. Len(s) \in Nat /\ \A i \in 1 .. Len(s) : s[i] \in Part
    BY LenProperties, ElementOfSeq
  <2>3. ASSUME NEW i \in 1 .. Len(s) PROVE g[i] = Step(g[i - 1], s[i])
    <3>1. g[i - 1] \in B /\ s[i] \in Part
      BY <2>1, <2>2 DEF Along
    <3>2. g[i] = step[<<g[i - 1], s[i]>>]
      BY <2>1 DEF Along
    <3> QED
      BY <1>3, <3>1, <3>2
  <2>4. Is(g)
    BY <2>1, <2>2, <2>3 DEF Along
  <2>5. Is(G)
    <3> HIDE DEF Is
    <3> QED
      BY <2>4
  <2>6. Read(s) = G[Len(s)]
    BY DEF Read, Step, base
  <2> HIDE DEF G
  <2>7. G[0] = base /\ \A i \in 1 .. Len(s) : G[i] = Step(G[i - 1], s[i])
    BY <2>2, <2>5
  <2>8. g[0] = G[0] /\ \A i \in 1 .. Len(s) : g[i - 1] = G[i - 1] => g[i] = G[i]
    BY <2>1, <2>3, <2>7 DEF Along
  <2>9. \A i \in 0 .. Len(s) : g[i] = G[i]
    BY <2>2, <2>8, Agreement, ZenonT(40)
  <2> QED
    BY <2>1, <2>2, <2>6, <2>9
<1>6. Read(<<>>) = base
  BY <1>4, <1>5, EmptySeq DEF IsFold
<1>7. \A s \in Seq(Part) : Read(s) \in B
  BY <1>4, <1>5 DEF IsFold
<1>8. ASSUME NEW s \in Seq(Part), NEW c \in Part PROVE Read(Append(s, c)) = Step(Read(s), c)
  <2>1. Append(s, c) \in Seq(Part) /\ F[Append(s, c)] = step[<<F[s], c>>] /\ F[s] \in B
    BY <1>4, AppendProperties DEF IsFold
  <2> QED
    BY <1>3, <1>5, <2>1
<1> QED
  BY <1>6, <1>7, <1>8 DEF base, B, Step, Part

-----------------------------------------------------------------------------
(* Texts, and their parts between slashes.                                   *)

Text == Seq(Char)
Part == Seq(Char \ {"/"})

LEMMA Slashes == Slash \in Text /\ Len(Slash) = 1 /\ Slash[1] = "/" /\ "/" \in Char /\ <<>> \in Text /\ <<>> \in Part
<1>1. <<>> \in Text /\ <<>> \in Part
  BY EmptySeq DEF Text, Part
<1>2. "/" \in Char
  BY DEF Char
<1>3. Slash \in Seq(Char) /\ Len(Slash) = 1 /\ Slash[1] = "/"
  BY <1>2 DEF Slash
<1> QED
  BY <1>1, <1>2, <1>3 DEF Text

LEMMA Cat ==
  \A s, t \in Text : /\ s \o t \in Text /\ Len(s) \in Nat /\ Len(t) \in Nat
                     /\ Len(s \o t) = Len(s) + Len(t)
  BY ConcatProperties, LenProperties DEF Text

LEMMA CatAssoc == \A s, t, u \in Text : (s \o t) \o u = s \o (t \o u)
  BY ConcatAssociative DEF Text

LEMMA CatAssoc4 == \A s, t, u, w \in Text : s \o (t \o u \o w) = (s \o t) \o u \o w
<1> SUFFICES ASSUME NEW s \in Text, NEW t \in Text, NEW u \in Text, NEW w \in Text
             PROVE  s \o (t \o u \o w) = (s \o t) \o u \o w
  OBVIOUS
<1>1. t \o u \in Text
  BY Cat
<1>2. s \o ((t \o u) \o w) = (s \o (t \o u)) \o w
  BY <1>1, CatAssoc, ZenonT(40)
<1>3. s \o (t \o u) = (s \o t) \o u
  BY CatAssoc
<1> QED
  BY <1>2, <1>3

LEMMA CatSlash == \A s, t, w \in Text : s \o (t \o Slash \o w) = (s \o t) \o Slash \o w
<1>1. PICK y \in Text : y = Slash
  BY Slashes
<1>2. \A s, t, w \in Text : s \o (t \o y \o w) = (s \o t) \o y \o w
  BY CatAssoc4, ZenonT(40)
<1> QED
  BY <1>1, <1>2

LEMMA CatElements ==
  \A s, t \in Text : \A i \in 1 .. Len(s) + Len(t) :
    (s \o t)[i] = IF i <= Len(s) THEN s[i] ELSE t[i - Len(s)]
  BY ConcatProperties DEF Text

LEMMA CatEmpty == \A s \in Text : s \o <<>> = s /\ <<>> \o s = s
  BY ConcatEmptySeq DEF Text

LEMMA PartsAreTexts == Part \subseteq Text
<1>1. Char \ {"/"} \subseteq Char
  OBVIOUS
<1> QED
  BY <1>1, SeqMonotonic DEF Part, Text

LEMMA AppendConcat ==
  ASSUME NEW A, NEW s \in Seq(A), NEW t \in Seq(A), NEW c \in A
  PROVE  s \o Append(t, c) = Append(s \o t, c)
<1>1. <<c>> \in Seq(A) /\ s \o t \in Seq(A)
  BY ConcatProperties
<1>2. s \o (t \o <<c>>) = (s \o t) \o <<c>>
  BY <1>1, ConcatAssociative
<1>3. Append(t, c) = t \o <<c>> /\ Append(s \o t, c) = (s \o t) \o <<c>>
  BY <1>1, AppendIsConcat
<1> QED
  BY <1>2, <1>3

LEMMA AppendFrontLast ==
  ASSUME NEW A, NEW s \in Seq(A), NEW c \in A
  PROVE  Front(Append(s, c)) = s /\ Last(Append(s, c)) = c
<1>1. Append(s, c) \in Seq(A) /\ Len(Append(s, c)) = Len(s) + 1 /\ Append(s, c)[Len(s) + 1] = c
      /\ Len(s) \in Nat /\ \A i \in 1 .. Len(s) : Append(s, c)[i] = s[i] /\ s[i] \in A
  BY AppendProperties, LenProperties, ElementOfSeq
<1>2. Last(Append(s, c)) = c
  BY <1>1 DEF Last
<1>3. Front(Append(s, c)) = SubSeq(Append(s, c), 1, Len(s))
  BY <1>1 DEF Front
<1> DEFINE u == SubSeq(Append(s, c), 1, Len(s))
           x == Append(s, c)
<1>4. u = SubSeq(x, 1, Len(s)) /\ \A i \in 1 .. Len(s) : x[i] = s[i]
  BY <1>1
<1>5. u \in Seq(A) /\ Len(u) = Len(s) /\ \A i \in 1 .. Len(s) : u[i] = x[i]
  <2> HIDE DEF x, u
  <2>1. \A i \in 1 .. Len(s) : x[i] \in A
    BY <1>1, <1>4
  <2> QED
    BY <1>1, <1>4, <2>1, SubSeqProperties
<1>6. u = s
  <2> HIDE DEF x, u
  <2> QED
    BY <1>4, <1>5, SeqEqual
<1> QED
  BY <1>2, <1>3, <1>6

\* What comes after the last slash is a part.
LEMMA LastPart ==
  ASSUME NEW s \in Text
  PROVE  s \in Part \/ \E t \in Text, w \in Part : s = t \o Slash \o w
<1> DEFINE P == {x \in Text : x \in Part \/ \E t \in Text, w \in Part : x = t \o Slash \o w}
<1>1. <<>> \in P
  BY Slashes
<1>2. ASSUME NEW x \in Text, NEW c \in Char, x \in P PROVE Append(x, c) \in P
  <2>1. Append(x, c) \in Text
    BY AppendProperties DEF Text
  <2>2. CASE c = "/"
    <3>1. Append(x, c) = x \o Slash
      BY <2>2, AppendIsConcat DEF Text, Slash
    <3>2. x \o Slash \in Text
      BY <2>1, <3>1
    <3>3. (x \o Slash) \o <<>> = x \o Slash
      BY <3>2, ConcatEmptySeq DEF Text
    <3> QED
      BY <2>1, <3>1, <3>3, Slashes
  <2>3. CASE c # "/"
    <3>1. CASE x \in Part
      <4>1. Append(x, c) \in Part
        BY <2>3, <3>1, AppendProperties DEF Part
      <4> QED
        BY <2>1, <4>1
    <3>2. CASE \E t \in Text, w \in Part : x = t \o Slash \o w
      <4>1. PICK t \in Text, w \in Part : x = t \o Slash \o w
        BY <3>2
      <4>2. Append(w, c) \in Part /\ w \in Text /\ t \o Slash \in Text
        BY <2>3, AppendProperties, PartsAreTexts, Slashes, ConcatProperties DEF Part, Text
      <4>3. (t \o Slash) \o Append(w, c) = Append(x, c)
        BY <4>1, <4>2, AppendConcat DEF Text
      <4> QED
        BY <2>1, <4>2, <4>3
    <3> QED
      BY <1>2, <3>1, <3>2
  <2> QED
    BY <2>2, <2>3
<1> HIDE DEF P
<1>3. Text \subseteq P
  BY <1>1, <1>2, SeqInduction DEF Text
<1> QED
  BY <1>3 DEF P

\* So that every text is reached from a part by adding a slash and a part.
LEMMA TextInduction ==
  ASSUME NEW P, Part \subseteq P,
         \A s \in Text, w \in Part : s \in P => s \o Slash \o w \in P
  PROVE  Text \subseteq P
<1> SUFFICES ASSUME NEW t \in Text PROVE t \in P
  OBVIOUS
<1> DEFINE Q == {k \in Nat : \A s \in Text : Len(s) <= k => s \in P}
<1>1. 0 \in Q
  <2> SUFFICES ASSUME NEW s \in Text, Len(s) <= 0 PROVE s \in P
    OBVIOUS
  <2>1. s = <<>>
    BY EmptySeq, LenProperties DEF Text
  <2> QED
    BY <2>1, Slashes
<1>2. ASSUME NEW k \in 1 .. Len(t), k - 1 \in Q PROVE k \in Q
  <2> SUFFICES ASSUME NEW s \in Text, Len(s) <= k PROVE s \in P
    OBVIOUS
  <2>1. CASE s \in Part
    BY <2>1
  <2>2. CASE \E u \in Text, w \in Part : s = u \o Slash \o w
    <3>1. PICK u \in Text, w \in Part : s = u \o Slash \o w
      BY <2>2
    <3>2. w \in Text /\ u \o Slash \in Text /\ Len(u \o Slash) = Len(u) + 1
      BY PartsAreTexts, Slashes, Cat
    <3>3. Len(s) = Len(u) + 1 + Len(w) /\ Len(u) \in Nat /\ Len(w) \in Nat
      <4>1. Len((u \o Slash) \o w) = Len(u \o Slash) + Len(w)
        BY <3>2, Cat
      <4>2. Len(u) \in Nat /\ Len(w) \in Nat
        BY <3>2, Cat
      <4> QED
        BY <3>1, <3>2, <4>1, <4>2
    <3>4. Len(u) <= k - 1
      BY <3>3
    <3>5. u \in P
      BY <1>2, <3>4
    <3> QED
      BY <3>1, <3>5
  <2> QED
    BY <2>1, <2>2, LastPart
<1>3. Len(t) \in Nat
  BY LenProperties DEF Text
<1> HIDE DEF Q
<1>4. 0 .. Len(t) \subseteq Q
  BY <1>1, <1>2, <1>3, Induction
<1>5. Len(t) \in Q
  BY <1>3, <1>4
<1> QED
  BY <1>3, <1>5 DEF Q

LEMMA SplitPart ==
  ASSUME NEW w \in Part
  PROVE  Split(w) = <<w>>
<1> DEFINE P == {x \in Part : Split(x) = <<x>>}
<1>1. <<>> \in P
  BY SplitIs, Slashes
<1>2. ASSUME NEW x \in Part, NEW c \in Char \ {"/"}, x \in P PROVE Append(x, c) \in P
  <2>1. Append(x, c) \in Part /\ x \in Text
    BY AppendProperties, PartsAreTexts DEF Part
  <2>2. Split(Append(x, c)) = Append(Front(<<x>>), Append(Last(<<x>>), c))
    BY <1>2, <2>1, SplitIs DEF Text
  <2>3. <<x>> = Append(<<>>, x)
    OBVIOUS
  <2>4. Front(<<x>>) = <<>> /\ Last(<<x>>) = x
    BY <2>3, EmptySeq, AppendFrontLast
  <2> QED
    BY <2>1, <2>2, <2>4
<1> HIDE DEF P
<1>3. Part \subseteq P
  BY <1>1, <1>2, SeqInduction DEF Part
<1> QED
  BY <1>3 DEF P

LEMMA SplitSlash ==
  ASSUME NEW s \in Text, NEW w \in Part
  PROVE  Split(s \o Slash \o w) = Append(Split(s), w)
<1> DEFINE P == {x \in Part : Split(s \o Slash \o x) = Append(Split(s), x)}
<1>0. s \o Slash \in Text /\ Split(s) \in Seq(Text) /\ "/" \in Char
  <2>1. Split(s) \in PartsOf(Char)
    BY SplitIs DEF Text
  <2> QED
    BY <2>1, Slashes, Cat DEF PartsOf, Text
<1>1. <<>> \in P
  <2>1. (s \o Slash) \o <<>> = s \o Slash
    BY <1>0, ConcatEmptySeq DEF Text
  <2>2. s \o Slash = Append(s, "/")
    BY <1>0, AppendIsConcat DEF Text, Slash
  <2>3. Split(Append(s, "/")) = Append(Split(s), <<>>)
    BY <1>0, SplitIs DEF Text
  <2> QED
    BY <2>1, <2>2, <2>3, Slashes
<1>2. ASSUME NEW x \in Part, NEW c \in Char \ {"/"}, x \in P PROVE Append(x, c) \in P
  <2>1. Append(x, c) \in Part /\ x \in Text
    BY AppendProperties, PartsAreTexts DEF Part
  <2> DEFINE y == s \o Slash \o x
  <2>2. y \in Text /\ s \o Slash \o Append(x, c) = Append(y, c)
    BY <1>0, <2>1, ConcatProperties, AppendConcat DEF Text
  <2>3. Split(y) = Append(Split(s), x)
    BY <1>2
  <2> HIDE DEF y
  <2>4. Split(Append(y, c)) = Append(Front(Split(y)), Append(Last(Split(y)), c))
    BY <2>2, SplitIs DEF Text
  <2>5. Front(Split(y)) = Split(s) /\ Last(Split(y)) = x
    BY <1>0, <2>1, <2>3, AppendFrontLast
  <2> QED
    BY <2>1, <2>2, <2>4, <2>5
<1> HIDE DEF P
<1>3. Part \subseteq P
  BY <1>1, <1>2, SeqInduction DEF Part
<1> QED
  BY <1>3 DEF P

LEMMA SplitInParts == \A s \in Text : Split(s) \in Seq(Part)
<1> DEFINE P == {s \in Text : Split(s) \in Seq(Part)}
<1>1. ASSUME NEW w \in Part PROVE w \in P
  BY SplitPart, PartsAreTexts
<1>2. ASSUME NEW s \in Text, NEW w \in Part, s \in P PROVE s \o Slash \o w \in P
  <2>1. s \o Slash \o w \in Text
    BY Slashes, Cat, PartsAreTexts
  <2>2. Split(s \o Slash \o w) = Append(Split(s), w)
    BY SplitSlash
  <2> QED
    BY <1>2, <2>1, <2>2, AppendProperties
<1> HIDE DEF P
<1>3. Text \subseteq P
  BY <1>1, <1>2, TextInduction
<1> QED
  BY <1>3 DEF P

LEMMA SplitCat ==
  ASSUME NEW s \in Text, NEW t \in Text
  PROVE  Split(s \o Slash \o t) = Split(s) \o Split(t)
<1> DEFINE P == {u \in Text : Split(s \o Slash \o u) = Split(s) \o Split(u)}
<1>0. s \o Slash \in Text /\ Split(s) \in Seq(Part)
  BY Slashes, Cat, SplitInParts
<1>1. ASSUME NEW w \in Part PROVE w \in P
  <2>1. Split(s) \o <<w>> = Append(Split(s), w)
    BY <1>0, AppendIsConcat
  <2> QED
    BY <2>1, SplitSlash, SplitPart, PartsAreTexts
<1>2. ASSUME NEW u \in Text, NEW w \in Part, u \in P PROVE u \o Slash \o w \in P
  <2>1. w \in Text /\ Slash \in Text /\ u \o Slash \o w \in Text /\ (s \o Slash) \o u \in Text /\ u \o Slash \in Text
    BY <1>0, Slashes, Cat, PartsAreTexts
  <2>2. (s \o Slash) \o (u \o Slash \o w) = ((s \o Slash) \o u) \o Slash \o w
    <3> DEFINE x == s \o Slash
    <3>1. x \in Text /\ w \in Text /\ Slash \in Text
      BY <1>0, <2>1
    <3> HIDE DEF x
    <3>2. x \o (u \o Slash \o w) = (x \o u) \o Slash \o w
      BY <3>1, CatSlash, SMTT(40)
    <3> QED
      BY <3>2 DEF x
  <2>3. Split(((s \o Slash) \o u) \o Slash \o w) = Append(Split((s \o Slash) \o u), w)
    BY <2>1, SplitSlash
  <2>4. Split(u \o Slash \o w) = Append(Split(u), w) /\ Split(u) \in Seq(Part)
    BY SplitSlash, SplitInParts
  <2>5. Split(s) \o Append(Split(u), w) = Append(Split(s) \o Split(u), w)
    BY <1>0, <2>4, AppendConcat
  <2> QED
    BY <1>2, <2>1, <2>2, <2>3, <2>4, <2>5
<1> HIDE DEF P
<1>3. Text \subseteq P
  BY <1>1, <1>2, TextInduction
<1> QED
  BY <1>3 DEF P

LEMMA DroppingEmpty ==
  ASSUME NEW D
  PROVE  Dropping(<<>>, D) = <<>>
  BY DroppingIs

LEMMA DroppingAppend ==
  ASSUME NEW A, NEW D, NEW p \in Seq(A), NEW w \in A
  PROVE  Dropping(Append(p, w), D) = IF w \in D THEN Dropping(p, D) ELSE Append(Dropping(p, D), w)
<1>1. \A s \in Seq(A), c \in A :
        Dropping(Append(s, c), D) = IF c \in D THEN Dropping(s, D) ELSE Append(Dropping(s, D), c)
  BY DroppingIs, ZenonT(40)
<1> QED
  BY <1>1

LEMMA DroppingCat ==
  ASSUME NEW A, NEW D, NEW p \in Seq(A), NEW q \in Seq(A)
  PROVE  Dropping(p \o q, D) = Dropping(p, D) \o Dropping(q, D)
<1> DEFINE P == {r \in Seq(A) : Dropping(p \o r, D) = Dropping(p, D) \o Dropping(r, D)}
<1>0. \A r \in Seq(A) : Dropping(r, D) \in Seq(A \ D)
  BY DroppingIs
<1>1. <<>> \in P
  <2>1. p \o <<>> = p /\ Dropping(p, D) \o <<>> = Dropping(p, D)
    BY <1>0, ConcatEmptySeq
  <2> QED
    BY <2>1, DroppingIs, EmptySeq
<1>2. ASSUME NEW r \in Seq(A), NEW c \in A, r \in P PROVE Append(r, c) \in P
  <2>1. p \o r \in Seq(A) /\ Append(r, c) \in Seq(A) /\ p \o Append(r, c) = Append(p \o r, c)
    BY ConcatProperties, AppendProperties, AppendConcat
  <2>2. Dropping(Append(p \o r, c), D) = IF c \in D THEN Dropping(p \o r, D) ELSE Append(Dropping(p \o r, D), c)
    <3> DEFINE x == p \o r
    <3>1. x \in Seq(A)
      BY <2>1
    <3> HIDE DEF x
    <3>2. Dropping(Append(x, c), D) = IF c \in D THEN Dropping(x, D) ELSE Append(Dropping(x, D), c)
      BY <3>1, DroppingAppend
    <3> QED
      BY <3>2 DEF x
  <2>3. Dropping(Append(r, c), D) = IF c \in D THEN Dropping(r, D) ELSE Append(Dropping(r, D), c)
    BY DroppingAppend
  <2>4. c \notin D => Dropping(p, D) \o Append(Dropping(r, D), c) = Append(Dropping(p, D) \o Dropping(r, D), c)
    BY <1>0, AppendConcat
  <2> QED
    BY <1>2, <2>1, <2>2, <2>3, <2>4
<1> HIDE DEF P
<1>3. Seq(A) \subseteq P
  BY <1>1, <1>2, SeqInduction
<1> QED
  BY <1>3 DEF P

LEMMA DroppingNone ==
  ASSUME NEW A, NEW D, NEW p \in Seq(A \ D)
  PROVE  Dropping(p, D) = p
<1> DEFINE P == {r \in Seq(A \ D) : Dropping(r, D) = r}
<1>1. <<>> \in P
  BY DroppingIs, EmptySeq
<1>2. ASSUME NEW r \in Seq(A \ D), NEW c \in A \ D, r \in P PROVE Append(r, c) \in P
  <2>1. r \in Seq(A) /\ Append(r, c) \in Seq(A \ D)
    BY SeqMonotonic, AppendProperties
  <2>2. Dropping(Append(r, c), D) = Append(Dropping(r, D), c)
    BY <2>1, DroppingAppend
  <2> QED
    BY <1>2, <2>1, <2>2
<1> HIDE DEF P
<1>3. Seq(A \ D) \subseteq P
  BY <1>1, <1>2, SeqInduction
<1> QED
  BY <1>3 DEF P

LEMMA JoinedTexts ==
  /\ Joined(<<>>) = <<>>
  /\ \A ps \in Seq(Text) : Joined(ps) \in Text
  /\ \A ps \in Seq(Text), w \in Text : Joined(Append(ps, w)) = Joined(ps) \o Slash \o w
  BY JoinedIs, Slashes DEF Text

LEMMA JoinedCat ==
  ASSUME NEW p \in Seq(Text), NEW q \in Seq(Text)
  PROVE  Joined(p \o q) = Joined(p) \o Joined(q)
<1> DEFINE P == {r \in Seq(Text) : Joined(p \o r) = Joined(p) \o Joined(r)}
<1>1. <<>> \in P
  BY JoinedTexts, CatEmpty, ConcatEmptySeq, EmptySeq
<1>2. ASSUME NEW r \in Seq(Text), NEW w \in Text, r \in P PROVE Append(r, w) \in P
  <2>1. p \o r \in Seq(Text) /\ Append(r, w) \in Seq(Text) /\ p \o Append(r, w) = Append(p \o r, w)
    BY ConcatProperties, AppendProperties, AppendConcat
  <2>2. Joined(Append(p \o r, w)) = Joined(p \o r) \o Slash \o w
    BY <2>1, JoinedTexts
  <2>3. Joined(Append(r, w)) = Joined(r) \o Slash \o w
    BY JoinedTexts
  <2>4. (Joined(p) \o Joined(r)) \o Slash \o w = Joined(p) \o (Joined(r) \o Slash \o w)
    <3> DEFINE x == Joined(p)
               y == Joined(r)
    <3>1. x \in Text /\ y \in Text /\ Slash \in Text
      BY JoinedTexts, Slashes
    <3> HIDE DEF x, y
    <3>2. x \o (y \o Slash \o w) = (x \o y) \o Slash \o w
      BY <3>1, CatSlash
    <3> QED
      BY <3>2 DEF x, y
  <2> QED
    BY <1>2, <2>1, <2>2, <2>3, <2>4
<1> HIDE DEF P
<1>3. Seq(Text) \subseteq P
  BY <1>1, <1>2, SeqInduction
<1> QED
  BY <1>3 DEF P

\* What a normal form is split into.
LEMMA DroppingSplitJoined ==
  ASSUME NEW D, <<>> \in D, NEW ps \in Seq(Part)
  PROVE  Dropping(Split(Joined(ps)), D) = Dropping(ps, D)
<1> DEFINE P == {r \in Seq(Part) : Dropping(Split(Joined(r)), D) = Dropping(r, D)}
<1>1. <<>> \in P
  <2>1. Split(Joined(<<>>)) = Append(<<>>, <<>>)
    BY JoinedTexts, SplitPart, Slashes
  <2>2. Dropping(Append(<<>>, <<>>), D) = Dropping(<<>>, D)
    <3>1. <<>> \in Seq(Part) /\ <<>> \in Part
      BY EmptySeq, Slashes
    <3> QED
      BY <3>1, DroppingAppend, ZenonT(40)
  <2> QED
    BY <2>1, <2>2, EmptySeq
<1>2. ASSUME NEW r \in Seq(Part), NEW w \in Part, r \in P PROVE Append(r, w) \in P
  <2>1. r \in Seq(Text) /\ w \in Text /\ Append(r, w) \in Seq(Part)
    BY PartsAreTexts, SeqMonotonic, AppendProperties
  <2>2. Joined(Append(r, w)) = Joined(r) \o Slash \o w /\ Joined(r) \in Text
    BY <2>1, JoinedTexts
  <2>3. Split(Joined(Append(r, w))) = Append(Split(Joined(r)), w) /\ Split(Joined(r)) \in Seq(Part)
    BY <2>2, SplitSlash, SplitInParts
  <2>4. Dropping(Append(Split(Joined(r)), w), D) =
          IF w \in D THEN Dropping(Split(Joined(r)), D) ELSE Append(Dropping(Split(Joined(r)), D), w)
    BY <2>3, DroppingAppend
  <2>5. Dropping(Append(r, w), D) = IF w \in D THEN Dropping(r, D) ELSE Append(Dropping(r, D), w)
    BY DroppingAppend
  <2> QED
    BY <1>2, <2>1, <2>3, <2>4, <2>5
<1> HIDE DEF P
<1>3. Seq(Part) \subseteq P
  BY <1>1, <1>2, SeqInduction
<1> QED
  BY <1>3 DEF P

LEMMA DroppingSplitJoin ==
  ASSUME NEW D, <<>> \in D, NEW ps \in Seq(Part)
  PROVE  Dropping(Split(Join(ps)), D) = Dropping(ps, D)
<1>1. CASE ps # <<>>
  BY <1>1, DroppingSplitJoined DEF Join
<1>2. CASE ps = <<>>
  <2>1. Slash = (<<>> \o Slash) \o <<>>
    BY Slashes, CatEmpty
  <2>2. Split((<<>> \o Slash) \o <<>>) = Append(Split(<<>>), <<>>)
    BY Slashes, SplitSlash
  <2>3. Split(<<>>) = Append(<<>>, <<>>)
    BY Slashes, SplitPart
  <2>4. Append(<<>>, <<>>) \in Seq(Part) /\ <<>> \in Seq(Part)
    BY Slashes, EmptySeq, AppendProperties
  <2>5. Dropping(Append(Append(<<>>, <<>>), <<>>), D) = Dropping(Append(<<>>, <<>>), D)
        /\ Dropping(Append(<<>>, <<>>), D) = Dropping(<<>>, D)
    <3> DEFINE x == Append(<<>>, <<>>)
    <3>1. x \in Seq(Part) /\ <<>> \in Seq(Part) /\ <<>> \in Part
      BY <2>4, Slashes
    <3>2. Dropping(x, D) = Dropping(<<>>, D)
      BY <3>1, DroppingAppend, ZenonT(40)
    <3> HIDE DEF x
    <3>3. Dropping(Append(x, <<>>), D) = Dropping(x, D)
      BY <3>1, DroppingAppend
    <3> QED
      BY <3>2, <3>3 DEF x
  <2> QED
    BY <1>2, <2>1, <2>2, <2>3, <2>5 DEF Join
<1> QED
  BY <1>1, <1>2

-----------------------------------------------------------------------------
(* Prefixes.                                                                 *)

LEMMA PrefixOfCat ==
  ASSUME NEW A, NEW s \in Seq(A), NEW u \in Seq(A)
  PROVE  IsPrefix(s, s \o u) /\ SubSeq(s \o u, Len(s) + 1, Len(s \o u)) = u
         /\ SubSeq(s \o u, 1, Len(s)) = s
<1> DEFINE t == s \o u
<1>1. t \in Seq(A) /\ Len(t) = Len(s) + Len(u) /\ Len(s) \in Nat /\ Len(u) \in Nat
      /\ \A i \in 1 .. Len(s) + Len(u) : t[i] = IF i <= Len(s) THEN s[i] ELSE u[i - Len(s)]
  BY ConcatProperties, LenProperties
<1>2. \A i \in 1 .. Len(t) : t[i] \in A
  BY <1>1, ElementOfSeq
<1> HIDE DEF t
<1> DEFINE head == SubSeq(t, 1, Len(s))
           tail == SubSeq(t, Len(s) + 1, Len(t))
<1>3. head \in Seq(A) /\ Len(head) = Len(s) /\ \A i \in 1 .. Len(s) : head[i] = t[i]
  <2>1. \A i \in 1 .. Len(s) : t[i] \in A
    BY <1>1, <1>2
  <2> QED
    BY <1>1, <2>1, SubSeqProperties
<1>4. tail \in Seq(A) /\ Len(tail) = Len(u) /\ \A i \in 1 .. Len(u) : tail[i] = t[Len(s) + i]
  <2>1. \A i \in Len(s) + 1 .. Len(t) : t[i] \in A
    BY <1>1, <1>2
  <2>2. tail \in Seq(A) /\ Len(tail) = (IF Len(s) + 1 <= Len(t) THEN Len(t) - (Len(s) + 1) + 1 ELSE 0)
        /\ \A i \in 1 .. Len(t) - (Len(s) + 1) + 1 : tail[i] = t[Len(s) + 1 + i - 1]
    BY <1>1, <2>1, SubSeqProperties
  <2> HIDE DEF tail
  <2>3. ASSUME NEW i \in 1 .. Len(u) PROVE tail[i] = t[Len(s) + i]
    <3>1. i \in 1 .. Len(t) - (Len(s) + 1) + 1 /\ Len(s) + 1 + i - 1 = Len(s) + i
      BY <1>1
    <3> QED
      BY <2>2, <3>1
  <2> QED
    BY <1>1, <2>2, <2>3
<1> HIDE DEF head, tail
<1>5. head = s
  BY <1>1, <1>3, SeqEqual
<1>6. tail = u
  <2>1. ASSUME NEW i \in 1 .. Len(u) PROVE tail[i] = u[i]
    <3>1. Len(s) + i \in 1 .. Len(s) + Len(u) /\ ~(Len(s) + i <= Len(s)) /\ Len(s) + i - Len(s) = i
      BY <1>1
    <3>2. t[Len(s) + i] = u[i]
      BY <1>1, <3>1
    <3> QED
      BY <1>4, <3>2
  <2> QED
    BY <1>4, <2>1, SeqEqual
<1>7. SubSeq(s, 1, Len(s)) = s
  BY SubSeqFull
<1>8. Len(s) <= Len(t)
  BY <1>1
<1> QED
  BY <1>5, <1>6, <1>7, <1>8 DEF IsPrefix, t, head, tail

LEMMA PrefixHasRest ==
  ASSUME NEW A, NEW s \in Seq(A), NEW t \in Seq(A), IsPrefix(s, t)
  PROVE  \E u \in Seq(A) : t = s \o u
<1>1. Len(s) \in Nat /\ Len(t) \in Nat /\ Len(s) <= Len(t) /\ SubSeq(s, 1, Len(s)) = SubSeq(t, 1, Len(s))
  BY LenProperties DEF IsPrefix
<1>2. SubSeq(t, 1, Len(s)) = s /\ SubSeq(t, 1, Len(t)) = t
  BY <1>1, SubSeqFull
<1>3. SubSeq(t, 1, Len(s)) \o SubSeq(t, Len(s) + 1, Len(t)) = SubSeq(t, 1, Len(t))
  <2>1. 1 \in 1 .. Len(t) + 1 /\ Len(s) \in 1 - 1 .. Len(t) /\ Len(t) \in Len(s) .. Len(t)
    BY <1>1
  <2> QED
    BY <2>1, ConcatAdjacentSubSeq
<1>4. SubSeq(t, Len(s) + 1, Len(t)) \in Seq(A)
  <2>1. \A i \in Len(s) + 1 .. Len(t) : t[i] \in A
    BY <1>1, ElementOfSeq
  <2> QED
    BY <1>1, <2>1, SubSeqProperties
<1> QED
  BY <1>2, <1>3, <1>4

LEMMA PrefixInitial ==
  ASSUME NEW A, NEW s \in Seq(A), NEW t \in Seq(A)
  PROVE  (\E n \in 0 .. Len(t) : s = SubSeq(t, 1, n)) <=> IsPrefix(s, t)
<1>1. ASSUME NEW n \in 0 .. Len(t), s = SubSeq(t, 1, n) PROVE IsPrefix(s, t)
  <2>1. \A i \in 1 .. n : t[i] \in A
    BY ElementOfSeq, LenProperties
  <2>2. Len(s) = n /\ n \in Nat
    BY <1>1, <2>1, SubSeqProperties, LenProperties
  <2>3. SubSeq(s, 1, Len(s)) = s
    BY SubSeqFull
  <2> QED
    BY <1>1, <2>2, <2>3, LenProperties DEF IsPrefix
<1>2. ASSUME IsPrefix(s, t) PROVE \E n \in 0 .. Len(t) : s = SubSeq(t, 1, n)
  <2>1. Len(s) <= Len(t) /\ SubSeq(t, 1, Len(s)) = s
    BY <1>2, SubSeqFull DEF IsPrefix
  <2>2. Len(s) \in 0 .. Len(t)
    BY <2>1, LenProperties
  <2> QED
    BY <2>1, <2>2
<1> QED
  BY <1>1, <1>2

-----------------------------------------------------------------------------
(* Normal forms.                                                             *)

Name == Part \ {<<>>}
CleanName == Part \ {<<>>, <<".">>}

cleanParts(s) == Dropping(Split(s), {<<>>, <<".">>})

\* What is left of a text when parts are dropped, for both sets of parts.
LEMMA PartsLeft ==
  ASSUME NEW D, <<>> \in D
  PROVE  /\ \A s \in Text : Dropping(Split(s), D) \in Seq(Part \ D)
         /\ \A w \in Part : Dropping(Split(w), D) = IF w \in D THEN <<>> ELSE <<w>>
         /\ \A s, t \in Text : Dropping(Split(s \o Slash \o t), D) = Dropping(Split(s), D) \o Dropping(Split(t), D)
<1>1. ASSUME NEW s \in Text PROVE Dropping(Split(s), D) \in Seq(Part \ D)
  BY SplitInParts, DroppingIs
<1>2. ASSUME NEW w \in Part PROVE Dropping(Split(w), D) = IF w \in D THEN <<>> ELSE <<w>>
  <2>1. Split(w) = Append(<<>>, w) /\ <<>> \in Seq(Part)
    BY SplitPart, EmptySeq
  <2>2. Dropping(Append(<<>>, w), D) = IF w \in D THEN Dropping(<<>>, D) ELSE Append(Dropping(<<>>, D), w)
    <3>1. \A p \in Seq(Part) : Dropping(Append(p, w), D) = IF w \in D THEN Dropping(p, D) ELSE Append(Dropping(p, D), w)
      BY DroppingAppend
    <3> QED
      BY <2>1, <3>1
  <2> QED
    BY <2>1, <2>2, DroppingEmpty
<1>3. ASSUME NEW s \in Text, NEW t \in Text
      PROVE  Dropping(Split(s \o Slash \o t), D) = Dropping(Split(s), D) \o Dropping(Split(t), D)
  <2> DEFINE p == Split(s)
             q == Split(t)
  <2>1. p \in Seq(Part) /\ q \in Seq(Part) /\ Split(s \o Slash \o t) = p \o q
    BY SplitInParts, SplitCat
  <2> HIDE DEF p, q
  <2>2. Dropping(p \o q, D) = Dropping(p, D) \o Dropping(q, D)
    BY <2>1, DroppingCat
  <2> QED
    BY <2>1, <2>2 DEF p, q
<1> QED
  BY <1>1, <1>2, <1>3

LEMMA PathPartsAre ==
  /\ \A s \in Text : pathParts(s) \in Seq(Name)
  /\ \A w \in Part : pathParts(w) = IF w = <<>> THEN <<>> ELSE <<w>>
  /\ \A s, t \in Text : pathParts(s \o Slash \o t) = pathParts(s) \o pathParts(t)
  BY PartsLeft DEF pathParts, Name

LEMMA CleanPartsAre ==
  /\ \A s \in Text : cleanParts(s) \in Seq(CleanName)
  /\ \A w \in Part : cleanParts(w) = IF w \in {<<>>, <<".">>} THEN <<>> ELSE <<w>>
  /\ \A s, t \in Text : cleanParts(s \o Slash \o t) = cleanParts(s) \o cleanParts(t)
  BY PartsLeft DEF cleanParts, CleanName

LEMMA CleanIsJoin == \A s : Clean(s) = Join(cleanParts(s))
  BY DEF Clean, cleanParts

LEMMA NamesAre ==
  /\ CleanName \subseteq Name /\ Name \subseteq Part
  /\ Seq(CleanName) \subseteq Seq(Name) /\ Seq(Name) \subseteq Seq(Part) /\ Seq(Part) \subseteq Seq(Text)
<1>1. CleanName \subseteq Name /\ Name \subseteq Part
  BY DEF CleanName, Name
<1> QED
  BY <1>1, PartsAreTexts, SeqMonotonic

LEMMA JoinIs ==
  /\ \A ps \in Seq(Text) : Join(ps) \in Text
  /\ \A ps \in Seq(Name) : pathParts(Join(ps)) = ps
  /\ \A ps \in Seq(CleanName) : cleanParts(Join(ps)) = ps /\ Clean(Join(ps)) = Join(ps)
<1>1. \A ps \in Seq(Text) : Join(ps) \in Text
  BY JoinedTexts, Slashes DEF Join
<1>2. ASSUME NEW ps \in Seq(Name) PROVE pathParts(Join(ps)) = ps
  <2>1. Dropping(Split(Join(ps)), {<<>>}) = Dropping(ps, {<<>>})
    BY NamesAre, DroppingSplitJoin
  <2>2. Dropping(ps, {<<>>}) = ps
    BY DroppingNone DEF Name
  <2> QED
    BY <2>1, <2>2 DEF pathParts
<1>3. ASSUME NEW ps \in Seq(CleanName) PROVE cleanParts(Join(ps)) = ps /\ Clean(Join(ps)) = Join(ps)
  <2>1. Dropping(Split(Join(ps)), {<<>>, <<".">>}) = Dropping(ps, {<<>>, <<".">>})
    BY NamesAre, DroppingSplitJoin
  <2>2. Dropping(ps, {<<>>, <<".">>}) = ps
    BY DroppingNone DEF CleanName
  <2> QED
    BY <2>1, <2>2, CleanIsJoin DEF cleanParts
<1> QED
  BY <1>1, <1>2, <1>3

\* A normal form, of which the parts are the clean parts of the text.
LEMMA CleanIs ==
  ASSUME NEW s \in Text
  PROVE  /\ Clean(s) \in Text /\ Clean(Clean(s)) = Clean(s)
         /\ cleanParts(s) \in Seq(CleanName) /\ cleanParts(s) \in Seq(Name) /\ cleanParts(s) \in Seq(Text)
         /\ Clean(s) = Join(cleanParts(s))
         /\ pathParts(Clean(s)) = cleanParts(s) /\ cleanParts(Clean(s)) = cleanParts(s)
<1>1. cleanParts(s) \in Seq(CleanName) /\ cleanParts(s) \in Seq(Name) /\ cleanParts(s) \in Seq(Text)
  BY CleanPartsAre, NamesAre
<1> QED
  BY <1>1, CleanIsJoin, JoinIs

\* A directory is an ancestor of the paths that go on from its own parts.
LEMMA AncestorsArePrefixes ==
  ASSUME NEW ps \in Seq(Name), NEW qs \in Seq(Name)
  PROVE  Join(qs) \in DirectoryAncestors(Join(ps)) <=> IsPrefix(qs, ps)
<1>1. DirectoryAncestors(Join(ps)) = {Join(SubSeq(ps, 1, n)) : n \in 0 .. Len(ps)}
  BY JoinIs DEF DirectoryAncestors
<1>2. ASSUME NEW n \in 0 .. Len(ps) PROVE Join(qs) = Join(SubSeq(ps, 1, n)) <=> qs = SubSeq(ps, 1, n)
  <2>1. SubSeq(ps, 1, n) \in Seq(Name)
    <3>1. \A i \in 1 .. n : ps[i] \in Name
      BY ElementOfSeq, LenProperties
    <3> QED
      BY <3>1, SubSeqProperties
  <2>2. pathParts(Join(SubSeq(ps, 1, n))) = SubSeq(ps, 1, n) /\ pathParts(Join(qs)) = qs
    BY <2>1, JoinIs
  <2> QED
    BY <2>2
<1>3. Join(qs) \in DirectoryAncestors(Join(ps)) <=> \E n \in 0 .. Len(ps) : qs = SubSeq(ps, 1, n)
  BY <1>1, <1>2
<1> QED
  BY <1>3, PrefixInitial

-----------------------------------------------------------------------------
(* Strings that are not refused.                                             *)

LEMMA PrefixElements ==
  ASSUME NEW A, NEW s \in Seq(A), NEW t \in Seq(A)
  PROVE  IsPrefix(s, t) <=> Len(s) <= Len(t) /\ \A i \in 1 .. Len(s) : s[i] = t[i]
<1>1. Len(s) \in Nat /\ Len(t) \in Nat /\ SubSeq(s, 1, Len(s)) = s
  BY LenProperties, SubSeqFull
<1>2. CASE ~(Len(s) <= Len(t))
  BY <1>2 DEF IsPrefix
<1>3. CASE Len(s) <= Len(t)
  <2> DEFINE u == SubSeq(t, 1, Len(s))
  <2>1. u \in Seq(A) /\ Len(u) = Len(s) /\ \A i \in 1 .. Len(s) : u[i] = t[i]
    <3>1. \A i \in 1 .. Len(s) : t[i] \in A
      BY <1>1, <1>3, ElementOfSeq
    <3> QED
      BY <1>1, <3>1, SubSeqProperties
  <2> HIDE DEF u
  <2>2. s = u <=> \A i \in 1 .. Len(s) : s[i] = t[i]
    BY <2>1, SeqEqual
  <2> QED
    BY <1>1, <1>3, <2>2 DEF IsPrefix, u
<1> QED
  BY <1>2, <1>3

LEMMA SubSeqFrom ==
  ASSUME NEW A, NEW s \in Seq(A), NEW m \in 1 .. Len(s), NEW n \in m .. Len(s)
  PROVE  /\ SubSeq(s, m, n) \in Seq(A) /\ Len(SubSeq(s, m, n)) = n - m + 1
         /\ \A i \in 1 .. n - m + 1 : SubSeq(s, m, n)[i] = s[m + i - 1]
<1>1. Len(s) \in Nat
  BY LenProperties
<1>2. \A i \in m .. n : s[i] \in A
  BY <1>1, ElementOfSeq
<1>3. m \in Int /\ n \in Int /\ m <= n
  BY <1>1
<1> QED
  BY <1>2, <1>3, SubSeqProperties

LEMMA HasSymbol ==
  ASSUME NEW s \in Text, NEW c
  PROVE  Has(s, <<c>>) <=> \E i \in 1 .. Len(s) : s[i] = c
<1> DEFINE A == Char \cup {c}
<1>1. s \in Seq(A) /\ <<c>> \in Seq(A) /\ DOMAIN s = 1 .. Len(s) /\ Len(s) \in Nat
  BY SeqMonotonic, LenProperties DEF Text
<1> HIDE DEF A
<1>2. ASSUME NEW i \in 1 .. Len(s) PROVE IsPrefix(<<c>>, SubSeq(s, i, Len(s))) <=> s[i] = c
  <2> DEFINE u == SubSeq(s, i, Len(s))
             v == <<c>>
  <2>1. u \in Seq(A) /\ Len(u) = Len(s) - i + 1 /\ u[1] = s[i]
    <3>1. Len(s) \in i .. Len(s)
      BY <1>1
    <3>2. u \in Seq(A) /\ Len(u) = Len(s) - i + 1 /\ \A k \in 1 .. Len(s) - i + 1 : u[k] = s[i + k - 1]
      BY <1>1, <3>1, SubSeqFrom
    <3>3. 1 \in 1 .. Len(s) - i + 1 /\ i + 1 - 1 = i
      BY <1>1
    <3> HIDE DEF u
    <3>4. u[1] = s[i]
      BY <3>2, <3>3
    <3> QED
      BY <3>2, <3>4
  <2>2. v \in Seq(A) /\ Len(v) = 1 /\ v[1] = c
    BY <1>1
  <2> HIDE DEF u, v
  <2>3. IsPrefix(v, u) <=> Len(v) <= Len(u) /\ \A k \in 1 .. Len(v) : v[k] = u[k]
    BY <2>1, <2>2, PrefixElements, ZenonT(40)
  <2>4. Len(v) <= Len(u) /\ 1 .. Len(v) = {1}
    BY <1>1, <2>1, <2>2
  <2>5. IsPrefix(v, u) <=> s[i] = c
    BY <2>1, <2>2, <2>3, <2>4
  <2> QED
    BY <2>5 DEF u, v
<1> QED
  BY <1>1, <1>2 DEF Has

LEMMA HasDots ==
  ASSUME NEW s \in Text
  PROVE  Has(s, <<".", ".">>) <=> \E i \in 1 .. Len(s) - 1 : s[i] = "." /\ s[i + 1] = "."
<1> DEFINE A == Char \cup {"."}
<1>1. s \in Seq(A) /\ <<".", ".">> \in Seq(A) /\ DOMAIN s = 1 .. Len(s) /\ Len(s) \in Nat
  BY SeqMonotonic, LenProperties DEF Text
<1> HIDE DEF A
<1>2. ASSUME NEW i \in 1 .. Len(s)
      PROVE  IsPrefix(<<".", ".">>, SubSeq(s, i, Len(s))) <=> i \in 1 .. Len(s) - 1 /\ s[i] = "." /\ s[i + 1] = "."
  <2> DEFINE u == SubSeq(s, i, Len(s))
             v == <<".", ".">>
  <2>1. u \in Seq(A) /\ Len(u) = Len(s) - i + 1 /\ \A k \in 1 .. Len(s) - i + 1 : u[k] = s[i + k - 1]
    <3>1. Len(s) \in i .. Len(s)
      BY <1>1
    <3> QED
      BY <1>1, <3>1, SubSeqFrom
  <2>2. v \in Seq(A) /\ Len(v) = 2 /\ v[1] = "." /\ v[2] = "."
    BY <1>1
  <2> HIDE DEF u, v
  <2>3. IsPrefix(v, u) <=> Len(v) <= Len(u) /\ \A k \in 1 .. Len(v) : v[k] = u[k]
    <3>1. \A a, b \in Seq(A) : IsPrefix(a, b) <=> Len(a) <= Len(b) /\ \A k \in 1 .. Len(a) : a[k] = b[k]
      BY PrefixElements
    <3> QED
      BY <2>1, <2>2, <3>1
  <2>4. CASE i = Len(s)
    <3>1. ~(Len(v) <= Len(u)) /\ i \notin 1 .. Len(s) - 1
      BY <1>1, <2>1, <2>2, <2>4
    <3> QED
      BY <2>3, <3>1 DEF u, v
  <2>5. CASE i # Len(s)
    <3>1. Len(v) <= Len(u) /\ 1 .. Len(v) = {1, 2} /\ i \in 1 .. Len(s) - 1
          /\ 1 \in 1 .. Len(s) - i + 1 /\ 2 \in 1 .. Len(s) - i + 1 /\ i + 1 - 1 = i /\ i + 2 - 1 = i + 1
      <4>1. Len(v) = 2 /\ Len(u) = Len(s) - i + 1 /\ i \in 1 .. Len(s) - 1 /\ Len(s) \in Nat
        <5>1. Len(s) \in Nat /\ i \in 1 .. Len(s) /\ i # Len(s)
          BY <1>1, <2>5
        <5>2. i \in 1 .. Len(s) - 1
          BY <5>1
        <5> QED
          BY <2>1, <2>2, <5>1, <5>2
      <4> QED
        BY <4>1
    <3>2. u[1] = s[i] /\ u[2] = s[i + 1]
      BY <2>1, <3>1
    <3>3. IsPrefix(v, u) <=> s[i] = "." /\ s[i + 1] = "."
      BY <2>2, <2>3, <3>1, <3>2
    <3> QED
      BY <3>1, <3>3 DEF u, v
  <2> QED
    BY <2>4, <2>5
<1>3. \A i \in 1 .. Len(s) - 1 : i \in 1 .. Len(s)
  BY <1>1
<1> QED
  BY <1>1, <1>2, <1>3 DEF Has

Calm(s) == /\ \A i \in 1 .. Len(s) : s[i] \notin {"\\", "%2e"}
           /\ \A i \in 1 .. Len(s) - 1 : ~(s[i] = "." /\ s[i + 1] = ".")

LEMMA NotRefused == \A s \in Text : ~Refused(s) <=> Calm(s)
  BY HasSymbol, HasDots DEF Refused, Calm

\* A slash between two strings makes nothing that is refused.
LEMMA CalmCat ==
  ASSUME NEW s \in Text, NEW t \in Text
  PROVE  Calm(s \o Slash \o t) <=> Calm(s) /\ Calm(t)
<1> DEFINE u == s \o Slash
           x == u \o t
<1>1. u \in Text /\ Len(u) = Len(s) + 1 /\ Len(s) \in Nat /\ Len(t) \in Nat
      /\ \A i \in 1 .. Len(s) + 1 : u[i] = IF i <= Len(s) THEN s[i] ELSE "/"
  <2>1. Slash \in Text /\ Len(Slash) = 1 /\ Slash[1] = "/"
    BY Slashes
  <2>2. u \in Text /\ Len(u) = Len(s) + 1 /\ Len(s) \in Nat /\ Len(t) \in Nat
        /\ \A i \in 1 .. Len(s) + 1 : u[i] = IF i <= Len(s) THEN s[i] ELSE Slash[i - Len(s)]
    <3>1. u \in Text /\ Len(u) = Len(s) + Len(Slash) /\ Len(s) \in Nat /\ Len(t) \in Nat
          /\ \A i \in 1 .. Len(s) + Len(Slash) : u[i] = IF i <= Len(s) THEN s[i] ELSE Slash[i - Len(s)]
      BY <2>1, Cat, CatElements
    <3> HIDE DEF u
    <3> QED
      BY <2>1, <3>1
  <2> HIDE DEF u
  <2>3. ASSUME NEW i \in 1 .. Len(s) + 1, ~(i <= Len(s)) PROVE i - Len(s) = 1
    BY <2>2, <2>3
  <2> QED
    BY <2>1, <2>2, <2>3
<1> HIDE DEF u
<1>2. x \in Text /\ Len(x) = Len(s) + 1 + Len(t)
      /\ \A i \in 1 .. Len(s) + 1 + Len(t) : x[i] = IF i <= Len(s) + 1 THEN u[i] ELSE t[i - (Len(s) + 1)]
  <2>1. x \in Text /\ Len(x) = Len(u) + Len(t)
        /\ \A i \in 1 .. Len(u) + Len(t) : x[i] = IF i <= Len(u) THEN u[i] ELSE t[i - Len(u)]
    BY <1>1, Cat, CatElements
  <2> HIDE DEF x
  <2> QED
    BY <1>1, <2>1
<1> HIDE DEF x
<1>3. /\ \A i \in 1 .. Len(s) : x[i] = s[i]
      /\ x[Len(s) + 1] = "/"
      /\ \A i \in 1 .. Len(t) : x[Len(s) + 1 + i] = t[i]
  <2>1. ASSUME NEW i \in 1 .. Len(s) PROVE x[i] = s[i]
    <3>1. i \in 1 .. Len(s) + 1 + Len(t) /\ i \in 1 .. Len(s) + 1 /\ i <= Len(s) + 1 /\ i <= Len(s)
      BY <1>1
    <3> QED
      BY <1>1, <1>2, <3>1
  <2>2. x[Len(s) + 1] = "/"
    <3>1. Len(s) + 1 \in 1 .. Len(s) + 1 + Len(t) /\ Len(s) + 1 \in 1 .. Len(s) + 1 /\ ~(Len(s) + 1 <= Len(s))
      BY <1>1
    <3> QED
      BY <1>1, <1>2, <3>1
  <2>3. ASSUME NEW i \in 1 .. Len(t) PROVE x[Len(s) + 1 + i] = t[i]
    <3>1. Len(s) + 1 + i \in 1 .. Len(s) + 1 + Len(t) /\ ~(Len(s) + 1 + i <= Len(s) + 1)
          /\ Len(s) + 1 + i - (Len(s) + 1) = i
      BY <1>1
    <3> QED
      BY <1>2, <3>1
  <2> QED
    BY <2>1, <2>2, <2>3
<1>4. ASSUME Calm(x) PROVE Calm(s) /\ Calm(t)
  <2>1. Calm(s)
    <3>1. ASSUME NEW i \in 1 .. Len(s) PROVE s[i] \notin {"\\", "%2e"}
      BY <1>1, <1>2, <1>3, <1>4 DEF Calm
    <3>2. ASSUME NEW i \in 1 .. Len(s) - 1, s[i] = ".", s[i + 1] = "." PROVE FALSE
      <4>1. i \in 1 .. Len(x) - 1 /\ i \in 1 .. Len(s) /\ i + 1 \in 1 .. Len(s)
        BY <1>1, <1>2
      <4> QED
        BY <1>3, <1>4, <3>2, <4>1 DEF Calm
    <3> QED
      BY <3>1, <3>2 DEF Calm
  <2>2. Calm(t)
    <3>1. ASSUME NEW i \in 1 .. Len(t) PROVE t[i] \notin {"\\", "%2e"}
      <4>1. Len(s) + 1 + i \in 1 .. Len(x)
        BY <1>1, <1>2
      <4> QED
        BY <1>3, <1>4, <4>1 DEF Calm
    <3>2. ASSUME NEW i \in 1 .. Len(t) - 1, t[i] = ".", t[i + 1] = "." PROVE FALSE
      <4>1. Len(s) + 1 + i \in 1 .. Len(x) - 1 /\ i \in 1 .. Len(t) /\ i + 1 \in 1 .. Len(t)
            /\ Len(s) + 1 + (i + 1) = (Len(s) + 1 + i) + 1
        BY <1>1, <1>2
      <4>2. x[Len(s) + 1 + i] = "." /\ x[(Len(s) + 1 + i) + 1] = "."
        BY <1>3, <3>2, <4>1
      <4> QED
        BY <1>4, <4>1, <4>2 DEF Calm
    <3> QED
      BY <3>1, <3>2 DEF Calm
  <2> QED
    BY <2>1, <2>2
<1>5. ASSUME Calm(s), Calm(t) PROVE Calm(x)
  <2>1. ASSUME NEW i \in 1 .. Len(x)
        PROVE  \/ i \in 1 .. Len(s) /\ x[i] = s[i]
               \/ i = Len(s) + 1 /\ x[i] = "/"
               \/ \E k \in 1 .. Len(t) : i = Len(s) + 1 + k /\ x[i] = t[k]
    <3>1. CASE i <= Len(s)
      BY <1>1, <1>3, <3>1
    <3>2. CASE i = Len(s) + 1
      BY <1>3, <3>2
    <3>3. CASE i > Len(s) + 1
      <4>1. i - (Len(s) + 1) \in 1 .. Len(t) /\ i = Len(s) + 1 + (i - (Len(s) + 1))
        BY <1>1, <1>2, <3>3
      <4> QED
        BY <1>3, <4>1
    <3> QED
      BY <1>1, <1>2, <3>1, <3>2, <3>3
  <2>2. ASSUME NEW i \in 1 .. Len(x) PROVE x[i] \notin {"\\", "%2e"}
    BY <1>5, <2>1 DEF Calm
  <2>3. ASSUME NEW i \in 1 .. Len(x) - 1, x[i] = ".", x[i + 1] = "." PROVE FALSE
    <3>1. i \in 1 .. Len(x) /\ i + 1 \in 1 .. Len(x)
      BY <1>1, <1>2
    <3>2. CASE i \in 1 .. Len(s)
      <4>1. i + 1 # Len(s) + 1
        BY <1>3, <2>3
      <4>2. i \in 1 .. Len(s) - 1 /\ i \in 1 .. Len(s) /\ i + 1 \in 1 .. Len(s)
        BY <1>1, <3>2, <4>1
      <4> QED
        BY <1>3, <1>5, <2>3, <4>2 DEF Calm
    <3>3. CASE \E k \in 1 .. Len(t) : i = Len(s) + 1 + k /\ x[i] = t[k]
      <4>1. PICK k \in 1 .. Len(t) : i = Len(s) + 1 + k /\ x[i] = t[k]
        BY <3>3
      <4>2. k \in 1 .. Len(t) - 1 /\ k + 1 \in 1 .. Len(t) /\ Len(s) + 1 + (k + 1) = i + 1
        BY <1>1, <1>2, <4>1
      <4>3. t[k] = "." /\ t[k + 1] = "."
        BY <1>3, <2>3, <4>1, <4>2
      <4> QED
        BY <1>5, <4>2, <4>3 DEF Calm
    <3>4. i # Len(s) + 1
      BY <1>3, <2>3
    <3> QED
      BY <2>1, <3>1, <3>2, <3>3, <3>4
  <2> QED
    BY <2>2, <2>3 DEF Calm
<1> QED
  BY <1>4, <1>5 DEF u, x

LEMMA CalmParts ==
  ASSUME NEW s \in Text, Calm(s)
  PROVE  cleanParts(s) \in Seq({w \in CleanName : Calm(w)})
<1> DEFINE C == {w \in CleanName : Calm(w)}
           P == {x \in Text : Calm(x) => cleanParts(x) \in Seq(C)}
<1>1. ASSUME NEW w \in Part PROVE w \in P
  <2>1. CASE w \in {<<>>, <<".">>}
    BY <2>1, CleanPartsAre, PartsAreTexts, EmptySeq
  <2>2. CASE w \notin {<<>>, <<".">>}
    <3>1. cleanParts(w) = <<w>> /\ w \in Text /\ w \in CleanName
      BY <2>2, CleanPartsAre, PartsAreTexts DEF CleanName
    <3>2. Calm(w) => <<w>> \in Seq(C)
      BY <3>1
    <3> QED
      BY <3>1, <3>2
  <2> QED
    BY <2>1, <2>2
<1>2. ASSUME NEW x \in Text, NEW w \in Part, x \in P PROVE x \o Slash \o w \in P
  <2>1. w \in Text /\ x \o Slash \o w \in Text
    BY Slashes, Cat, PartsAreTexts
  <2>2. Calm(x \o Slash \o w) => Calm(x) /\ Calm(w)
    BY <2>1, CalmCat
  <2>3. cleanParts(x \o Slash \o w) = cleanParts(x) \o cleanParts(w)
    BY <2>1, CleanPartsAre
  <2>4. w \in P
    BY <1>1
  <2>5. cleanParts(x) \in Seq(C) /\ cleanParts(w) \in Seq(C) => cleanParts(x) \o cleanParts(w) \in Seq(C)
    BY ConcatProperties
  <2> HIDE DEF C
  <2> QED
    BY <1>2, <2>1, <2>2, <2>3, <2>4, <2>5
<1> HIDE DEF P
<1>3. Text \subseteq P
  BY <1>1, <1>2, TextInduction
<1> QED
  BY <1>3 DEF P

LEMMA CalmEmpty == Calm(<<>>) /\ Calm(Slash)
<1>1. Calm(<<>>)
  BY DEF Calm
<1>2. Slash = (<<>> \o Slash) \o <<>>
  BY Slashes, CatEmpty
<1> QED
  BY <1>1, <1>2, Slashes, CalmCat

\* So a normal form is not refused.
LEMMA CalmClean ==
  ASSUME NEW s \in Text, Calm(s)
  PROVE  Calm(Clean(s))
<1> DEFINE C == {w \in CleanName : Calm(w)}
           P == {ps \in Seq(C) : ps \in Seq(Text) /\ Calm(Joined(ps))}
<1>1. <<>> \in P
  BY JoinedTexts, CalmEmpty, EmptySeq
<1>2. ASSUME NEW ps \in Seq(C), NEW w \in C, ps \in P PROVE Append(ps, w) \in P
  <2>1. w \in Text /\ Calm(w)
    BY NamesAre, PartsAreTexts
  <2>2. Joined(Append(ps, w)) = Joined(ps) \o Slash \o w /\ Joined(ps) \in Text /\ Calm(Joined(ps))
    BY <1>2, <2>1, JoinedTexts
  <2>3. Calm(Joined(ps) \o Slash \o w)
    BY <2>1, <2>2, CalmCat
  <2>4. Append(ps, w) \in Seq(C) /\ Append(ps, w) \in Seq(Text)
    BY <1>2, <2>1, AppendProperties
  <2> QED
    BY <2>2, <2>3, <2>4
<1> HIDE DEF P
<1>3. Seq(C) \subseteq P
  <2> HIDE DEF C
  <2> QED
    BY <1>1, <1>2, SeqInduction
<1>4. cleanParts(s) \in P
  BY <1>3, CalmParts
<1> QED
  BY <1>4, CleanIsJoin, CalmEmpty DEF P, Join

LEMMA CalmSub ==
  ASSUME NEW s \in Text, Calm(s), NEW m \in 1 .. Len(s), NEW n \in m .. Len(s)
  PROVE  SubSeq(s, m, n) \in Text /\ Calm(SubSeq(s, m, n))
<1> DEFINE u == SubSeq(s, m, n)
<1>1. u \in Text /\ Len(u) = n - m + 1 /\ \A i \in 1 .. n - m + 1 : u[i] = s[m + i - 1]
  BY SubSeqFrom DEF Text
<1>2. Len(s) \in Nat
  BY LenProperties DEF Text
<1> HIDE DEF u
<1>3. ASSUME NEW i \in 1 .. Len(u) PROVE u[i] \notin {"\\", "%2e"}
  <2>1. m + i - 1 \in 1 .. Len(s)
    BY <1>1, <1>2
  <2> QED
    BY <1>1, <2>1 DEF Calm
<1>4. ASSUME NEW i \in 1 .. Len(u) - 1, u[i] = ".", u[i + 1] = "." PROVE FALSE
  <2>1. m + i - 1 \in 1 .. Len(s) - 1 /\ i \in 1 .. n - m + 1 /\ i + 1 \in 1 .. n - m + 1
        /\ m + (i + 1) - 1 = (m + i - 1) + 1
    BY <1>1, <1>2
  <2>2. s[m + i - 1] = "." /\ s[(m + i - 1) + 1] = "."
    BY <1>1, <1>4, <2>1
  <2> QED
    BY <2>1, <2>2 DEF Calm
<1> QED
  BY <1>1, <1>3, <1>4 DEF Calm, u

LEMMA GreatestNumber ==
  ASSUME NEW n \in Nat, NEW T \in SUBSET (1 .. n), T # {}
  PROVE  \E x \in T : \A y \in T : y <= x
<1> DEFINE U == {k \in Nat : n - k \in T}
<1>1. PICK t \in T : TRUE
  OBVIOUS
<1>2. n - t \in U
  BY <1>1
<1>3. PICK k \in U : \A y \in U : k <= y
  <2>1. U \in SUBSET Nat /\ U # {}
    BY <1>2
  <2> HIDE DEF U
  <2> QED
    BY <2>1, LeastNumber
<1>4. k \in Nat /\ n - k \in T
  BY <1>3
<1>5. ASSUME NEW y \in T PROVE y <= n - k
  <2>1. y \in 1 .. n /\ n - (n - y) = y /\ n - y \in Nat
    OBVIOUS
  <2>2. n - y \in U
    BY <2>1
  <2>3. k <= n - y
    BY <1>3, <2>2
  <2> QED
    BY <1>4, <2>1, <2>3
<1> QED
  BY <1>4, <1>5

LEMMA TrimIs ==
  ASSUME NEW s \in Text, NEW c
  PROVE  Trim(s, c) \in Text /\ (Calm(s) => Calm(Trim(s, c)))
<1> DEFINE kept == {i \in DOMAIN s : s[i] # c}
           a == CHOOSE i \in kept : \A j \in kept : i <= j
           b == CHOOSE i \in kept : \A j \in kept : j <= i
<1>1. Trim(s, c) = IF kept = {} THEN <<>> ELSE SubSeq(s, a, b)
  BY DEF Trim
<1>2. DOMAIN s = 1 .. Len(s) /\ Len(s) \in Nat
  BY LenProperties DEF Text
<1>3. kept \in SUBSET (1 .. Len(s)) /\ kept \in SUBSET Nat
  BY <1>2
<1> HIDE DEF kept
<1>4. CASE kept = {}
  BY <1>1, <1>4, Slashes, CalmEmpty
<1>5. CASE kept # {}
  <2>1. a \in kept /\ \A j \in kept : a <= j
    <3>1. \E i \in kept : \A j \in kept : i <= j
      BY <1>3, <1>5, LeastNumber
    <3> QED
      BY <3>1
  <2>2. b \in kept
    <3>1. \E i \in kept : \A j \in kept : j <= i
      BY <1>2, <1>3, <1>5, GreatestNumber
    <3> QED
      BY <3>1
  <2> HIDE DEF a, b
  <2>3. a \in 1 .. Len(s) /\ b \in a .. Len(s)
    BY <1>2, <1>3, <2>1, <2>2
  <2>4. SubSeq(s, a, b) \in Text
    BY <2>3, SubSeqFrom DEF Text
  <2> QED
    BY <1>1, <1>5, <2>3, <2>4, CalmSub
<1> QED
  BY <1>4, <1>5

LEMMA TrimNothing ==
  ASSUME NEW s \in Text, NEW c, s # <<>>, s[1] # c, s[Len(s)] # c
  PROVE  Trim(s, c) = s
<1> DEFINE kept == {i \in DOMAIN s : s[i] # c}
           a == CHOOSE i \in kept : \A j \in kept : i <= j
           b == CHOOSE i \in kept : \A j \in kept : j <= i
<1>1. Trim(s, c) = IF kept = {} THEN <<>> ELSE SubSeq(s, a, b)
  BY DEF Trim
<1>2. DOMAIN s = 1 .. Len(s) /\ Len(s) \in Nat /\ Len(s) # 0
  BY LenProperties, EmptySeq DEF Text
<1>3. kept \in SUBSET (1 .. Len(s)) /\ 1 \in kept /\ Len(s) \in kept
  BY <1>2
<1> HIDE DEF kept
<1>4. a = 1
  <2>1. 1 \in kept /\ \A j \in kept : 1 <= j
    BY <1>2, <1>3
  <2>2. a \in kept /\ \A j \in kept : a <= j
    BY <2>1
  <2> HIDE DEF a
  <2> QED
    BY <1>2, <1>3, <2>1, <2>2
<1>5. b = Len(s)
  <2>1. Len(s) \in kept /\ \A j \in kept : j <= Len(s)
    BY <1>2, <1>3
  <2>2. b \in kept /\ \A j \in kept : j <= b
    BY <2>1
  <2> HIDE DEF b
  <2> QED
    <3>1. b \in 1 .. Len(s) /\ Len(s) <= b /\ b <= Len(s)
      BY <1>3, <2>1, <2>2
    <3>2. b \in Nat /\ Len(s) \in Nat
      BY <1>2, <3>1
    <3> DEFINE n == Len(s)
    <3>3. b <= n /\ n <= b /\ n \in Nat
      BY <3>1, <3>2
    <3> HIDE DEF n
    <3>4. b = n
      BY <3>2, <3>3
    <3> QED
      BY <3>4 DEF n
<1> HIDE DEF a, b
<1>6. SubSeq(s, 1, Len(s)) = s
  BY SubSeqFull DEF Text
<1> QED
  BY <1>1, <1>3, <1>4, <1>5, <1>6

LEMMA SymbolsOfCat ==
  ASSUME NEW X, NEW s \in Text, NEW t \in Text, \A i \in 1 .. Len(s \o Slash \o t) : (s \o Slash \o t)[i] \in X
  PROVE  /\ \A i \in 1 .. Len(s) : s[i] \in X
         /\ \A i \in 1 .. Len(t) : t[i] \in X
<1> DEFINE u == s \o Slash
           x == u \o t
<1>1. u \in Text /\ Len(u) = Len(s) + 1 /\ Len(s) \in Nat /\ Len(t) \in Nat
  BY Slashes, Cat, ZenonT(40)
<1>2. \A i \in 1 .. Len(s) : u[i] = s[i]
  <2>1. ASSUME NEW i \in 1 .. Len(s) PROVE u[i] = s[i]
    <3>1. i \in 1 .. Len(s) + Len(Slash) /\ i <= Len(s)
      BY <1>1, Slashes
    <3> QED
      BY <3>1, Slashes, CatElements
  <2> QED
    BY <2>1
<1> HIDE DEF u
<1>3. Len(x) = Len(u) + Len(t) /\ \A i \in 1 .. Len(u) + Len(t) : x[i] = IF i <= Len(u) THEN u[i] ELSE t[i - Len(u)]
  BY <1>1, Cat, CatElements
<1>4. \A i \in 1 .. Len(x) : x[i] \in X
  BY DEF u
<1> HIDE DEF x
<1>5. ASSUME NEW i \in 1 .. Len(s) PROVE s[i] \in X
  <2>1. i \in 1 .. Len(u) + Len(t) /\ i <= Len(u)
    BY <1>1
  <2> QED
    BY <1>2, <1>3, <1>4, <2>1
<1>6. ASSUME NEW i \in 1 .. Len(t) PROVE t[i] \in X
  <2>1. Len(u) + i \in 1 .. Len(u) + Len(t) /\ ~(Len(u) + i <= Len(u)) /\ Len(u) + i - Len(u) = i
    BY <1>1
  <2> QED
    BY <1>3, <1>4, <2>1
<1> QED
  BY <1>5, <1>6

\* The names of a normal form have the symbols of the text.
LEMMA SymbolsOfParts ==
  ASSUME NEW X, NEW s \in Text, \A i \in 1 .. Len(s) : s[i] \in X
  PROVE  cleanParts(s) \in Seq({w \in CleanName : \A i \in 1 .. Len(w) : w[i] \in X})
<1> DEFINE In(x) == \A i \in 1 .. Len(x) : x[i] \in X
           C == {w \in CleanName : In(w)}
           P == {x \in Text : In(x) => cleanParts(x) \in Seq(C)}
<1>1. ASSUME NEW w \in Part PROVE w \in P
  <2> HIDE DEF In
  <2>1. CASE w \in {<<>>, <<".">>}
    BY <2>1, CleanPartsAre, PartsAreTexts, EmptySeq
  <2>2. CASE w \notin {<<>>, <<".">>}
    <3>1. cleanParts(w) = <<w>> /\ w \in Text /\ w \in CleanName
      BY <2>2, CleanPartsAre, PartsAreTexts DEF CleanName
    <3>2. In(w) => <<w>> \in Seq(C)
      BY <3>1
    <3> QED
      BY <3>1, <3>2
  <2> QED
    BY <2>1, <2>2
<1>2. ASSUME NEW x \in Text, NEW w \in Part, x \in P PROVE x \o Slash \o w \in P
  <2>1. w \in Text /\ x \o Slash \o w \in Text
    BY Slashes, Cat, PartsAreTexts
  <2>2. In(x \o Slash \o w) => In(x) /\ In(w)
    BY <2>1, SymbolsOfCat
  <2>3. cleanParts(x \o Slash \o w) = cleanParts(x) \o cleanParts(w)
    BY <2>1, CleanPartsAre
  <2>4. w \in P
    BY <1>1
  <2>5. cleanParts(x) \in Seq(C) /\ cleanParts(w) \in Seq(C) => cleanParts(x) \o cleanParts(w) \in Seq(C)
    BY ConcatProperties
  <2> HIDE DEF C, In
  <2> QED
    BY <1>2, <2>1, <2>2, <2>3, <2>4, <2>5
<1> HIDE DEF P
<1>3. Text \subseteq P
  BY <1>1, <1>2, TextInduction
<1> QED
  BY <1>3 DEF P

-----------------------------------------------------------------------------
(* The recursion over the parts of a pattern finds a layout.                 *)

\* From where on names match the last n parts, given from where on they match the
\* n - 1 last.
RestStep(parts, names, n, before) ==
  IF parts[Len(parts) + 1 - n] = Deep
  THEN {j \in 1 .. Len(names) + 1 : n = 1 \/ \E k \in before : j <= k}
  ELSE {j \in 1 .. Len(names) : PartMatches(parts[Len(parts) + 1 - n], names[j]) /\ j + 1 \in before}

LEMMA MatchRest ==
  ASSUME NEW parts, NEW names, Len(parts) \in Nat, Len(names) \in Nat
  PROVE  \E rest : /\ rest[0] = {Len(names) + 1}
                   /\ \A n \in 1 .. Len(parts) : rest[n] = RestStep(parts, names, n, rest[n - 1])
                   /\ matchPathParts(parts, names) <=> 1 \in rest[Len(parts)]
<1> DEFINE L == Len(parts)
           B == SUBSET (1 .. Len(names) + 1)
           base == {Len(names) + 1}
           step == [q \in B \X (1 .. L) |-> RestStep(parts, names, q[2], q[1])]
           Is(g) == g = [n \in 0 .. L |-> IF n = 0 THEN base ELSE RestStep(parts, names, n, g[n - 1])]
           G == CHOOSE g : Is(g)
<1>1. base \in B
  OBVIOUS
<1>2. \A b \in B, n \in 1 .. L : RestStep(parts, names, n, b) \in B
  BY DEF RestStep
<1>3. step \in [B \X (1 .. L) -> B] /\ \A b \in B, n \in 1 .. L : step[<<b, n>>] = RestStep(parts, names, n, b)
  BY <1>2
<1> HIDE DEF B, base, step
<1>4. PICK g : Computed(g, L, B, base, step)
  BY <1>1, <1>3, Recursion
<1>5. ASSUME NEW n \in 1 .. L PROVE g[n] = RestStep(parts, names, n, g[n - 1])
  <2>1. g[n - 1] \in B /\ g[n] = step[<<g[n - 1], n>>]
    BY <1>4 DEF Computed
  <2> QED
    BY <1>3, <2>1
<1>6. Is(g)
  BY <1>4, <1>5 DEF Computed
<1>7. Is(G)
  <2> HIDE DEF Is
  <2> QED
    BY <1>6
<1>8. matchPathParts(parts, names) <=> 1 \in G[L]
  BY DEF matchPathParts, RestStep, base
<1> HIDE DEF G
<1>9. G[0] = base /\ \A n \in 1 .. L : G[n] = RestStep(parts, names, n, G[n - 1])
  BY <1>7
<1> QED
  BY <1>8, <1>9 DEF base

\* One part of a layout.
Laid(parts, names, end, i) ==
  IF parts[i] = Deep THEN end[i - 1] <= end[i]
  ELSE end[i] = end[i - 1] + 1 /\ PartMatches(parts[i], names[end[i]])

LEMMA LaidOutIs ==
  ASSUME NEW A, NEW parts \in Seq(A), NEW names
  PROVE  LaidOut(parts, names) <=>
           \E end \in [0 .. Len(parts) -> 0 .. Len(names)] :
             /\ end[0] = 0 /\ end[Len(parts)] = Len(names)
             /\ \A i \in 1 .. Len(parts) : Laid(parts, names, end, i)
  BY LenProperties DEF LaidOut, Laid

\* A pattern matches the names along which its parts can be laid out
\* (matchPathParts, path.go:125-149).
THEOREM MatchesAsLaidOut ==
  ASSUME NEW A, NEW parts \in Seq(A), NEW B, NEW names \in Seq(B)
  PROVE  matchPathParts(parts, names) <=> LaidOut(parts, names)
<1> DEFINE L == Len(parts)
           N == Len(names)
<1>1. L \in Nat /\ N \in Nat
  BY LenProperties
<1>2. PICK rest : /\ rest[0] = {N + 1}
                  /\ \A n \in 1 .. L : rest[n] = RestStep(parts, names, n, rest[n - 1])
                  /\ matchPathParts(parts, names) <=> 1 \in rest[L]
  BY <1>1, MatchRest
<1>3. LaidOut(parts, names) <=> \E end \in [0 .. L -> 0 .. N] : end[0] = 0 /\ end[L] = N
                                                       /\ \A i \in 1 .. L : Laid(parts, names, end, i)
  BY LaidOutIs
<1> HIDE DEF L, N
<1>4. ASSUME NEW end \in [0 .. L -> 0 .. N], end[0] = 0, end[L] = N,
             \A i \in 1 .. L : Laid(parts, names, end, i)
      PROVE  1 \in rest[L]
  <2> DEFINE P == {n \in 0 .. L : end[L - n] + 1 \in rest[n]}
  <2>1. 0 \in P
    BY <1>1, <1>2, <1>4
  <2>2. ASSUME NEW n \in 1 .. L, n - 1 \in P PROVE n \in P
    <3> DEFINE i == L + 1 - n
    <3>1. i \in 1 .. L /\ i - 1 = L - n /\ L - (n - 1) = i /\ i \in 0 .. L /\ i - 1 \in 0 .. L /\ n \in 0 .. L
      BY <1>1
    <3>2. end[i] + 1 \in rest[n - 1]
      BY <2>2, <3>1
    <3>3. Laid(parts, names, end, i) /\ end[i] \in 0 .. N /\ end[i - 1] \in 0 .. N
      BY <1>4, <3>1
    <3>4. rest[n] = RestStep(parts, names, n, rest[n - 1])
      BY <1>2
    <3>5. end[i - 1] + 1 \in rest[n]
      <4> HIDE DEF i
      <4>1. RestStep(parts, names, n, rest[n - 1]) =
              IF parts[i] = Deep THEN {j \in 1 .. N + 1 : n = 1 \/ \E k \in rest[n - 1] : j <= k}
              ELSE {j \in 1 .. N : PartMatches(parts[i], names[j]) /\ j + 1 \in rest[n - 1]}
        BY DEF RestStep, i, N, L
      <4>2. CASE parts[i] = Deep
        <5>1. end[i - 1] <= end[i]
          BY <3>3, <4>2 DEF Laid
        <5>2. end[i - 1] + 1 \in 1 .. N + 1 /\ end[i - 1] + 1 <= end[i] + 1
          BY <1>1, <3>3, <5>1
        <5> QED
          BY <3>2, <3>4, <4>1, <4>2, <5>2
      <4>3. CASE parts[i] # Deep
        <5>1. end[i] = end[i - 1] + 1 /\ PartMatches(parts[i], names[end[i]])
          BY <3>3, <4>3 DEF Laid
        <5>2. end[i] \in 1 .. N
          BY <1>1, <3>3, <5>1
        <5> QED
          BY <3>2, <3>4, <4>1, <4>3, <5>1, <5>2
      <4> QED
        BY <4>2, <4>3
    <3> QED
      BY <3>1, <3>5
  <2> HIDE DEF P
  <2>3. L \in P
    <3>1. 0 .. L \subseteq P
      BY <1>1, <2>1, <2>2, Induction
    <3> QED
      BY <1>1, <3>1
  <2> QED
    BY <1>1, <1>4, <2>3 DEF P
<1>5. ASSUME 1 \in rest[L]
      PROVE  \E end \in [0 .. L -> 0 .. N] : end[0] = 0 /\ end[L] = N /\ \A i \in 1 .. L : Laid(parts, names, end, i)
  <2> DEFINE Good(e, n, j) == /\ e[L - n] = j - 1 /\ e[L] = N
                              /\ \A i \in L - n + 1 .. L : Laid(parts, names, e, i)
             P == {n \in 0 .. L : \A j \in rest[n] : \E e \in [0 .. L -> 0 .. N] : Good(e, n, j)}
  <2>1. 0 \in P
    <3> SUFFICES ASSUME NEW j \in rest[0] PROVE \E e \in [0 .. L -> 0 .. N] : Good(e, 0, j)
      <4> HIDE DEF Good
      <4> QED
        BY <1>1
    <3> DEFINE e == [i \in 0 .. L |-> N]
    <3>1. e \in [0 .. L -> 0 .. N] /\ e[L] = N /\ e[L - 0] = N
      BY <1>1
    <3> HIDE DEF e
    <3>2. j - 1 = N /\ L - 0 + 1 .. L = {}
      BY <1>1, <1>2
    <3>3. Good(e, 0, j)
      BY <3>1, <3>2
    <3> QED
      BY <3>1, <3>3
  <2>2. ASSUME NEW n \in 1 .. L, n - 1 \in P PROVE n \in P
    <3> SUFFICES ASSUME NEW j \in rest[n] PROVE \E e \in [0 .. L -> 0 .. N] : Good(e, n, j)
      <4>1. n \in 0 .. L
        BY <1>1
      <4> HIDE DEF Good
      <4> QED
        BY <4>1
    <3> DEFINE i == L + 1 - n
    <3>1. i \in 1 .. L /\ i - 1 = L - n /\ L - (n - 1) = i /\ i \in 0 .. L /\ i - 1 \in 0 .. L
          /\ L - (n - 1) + 1 = i + 1 /\ L - n + 1 = i
      BY <1>1
    <3>2. rest[n] = RestStep(parts, names, n, rest[n - 1])
      BY <1>2
    <3> HIDE DEF i
    <3>3. RestStep(parts, names, n, rest[n - 1]) =
            IF parts[i] = Deep THEN {l \in 1 .. N + 1 : n = 1 \/ \E k \in rest[n - 1] : l <= k}
            ELSE {l \in 1 .. N : PartMatches(parts[i], names[l]) /\ l + 1 \in rest[n - 1]}
      BY DEF RestStep, i, N, L
    <3>4. j \in 1 .. N + 1
      BY <1>1, <3>2, <3>3
    <3>5. \E k \in rest[n - 1] : IF parts[i] = Deep THEN j <= k ELSE k = j + 1 /\ PartMatches(parts[i], names[j])
      <4>1. CASE parts[i] = Deep
        <5>1. n = 1 \/ \E k \in rest[n - 1] : j <= k
          BY <3>2, <3>3, <4>1
        <5>2. CASE n = 1
          <6>1. N + 1 \in rest[n - 1] /\ j <= N + 1
            BY <1>1, <1>2, <3>4, <5>2
          <6> QED
            BY <4>1, <6>1
        <5> QED
          BY <4>1, <5>1, <5>2
      <4>2. CASE parts[i] # Deep
        BY <3>2, <3>3, <4>2
      <4> QED
        BY <4>1, <4>2
    <3>6. PICK k \in rest[n - 1] : IF parts[i] = Deep THEN j <= k ELSE k = j + 1 /\ PartMatches(parts[i], names[j])
      BY <3>5
    <3>7. PICK d \in [0 .. L -> 0 .. N] : Good(d, n - 1, k)
      BY <2>2
    <3> DEFINE e == [d EXCEPT ![i - 1] = j - 1]
    <3>8. e \in [0 .. L -> 0 .. N] /\ e[i - 1] = j - 1 /\ \A l \in i .. L : e[l] = d[l]
      <4>1. j - 1 \in 0 .. N
        BY <1>1, <3>4
      <4>2. \A l \in i .. L : l \in 0 .. L /\ l # i - 1
        BY <1>1, <3>1
      <4> QED
        BY <3>1, <4>1, <4>2
    <3> HIDE DEF e
    <3>9. e[L] = N
      <4>1. L \in i .. L
        BY <1>1, <3>1
      <4> QED
        BY <3>7, <3>8, <4>1
    <3>10. d[i] = k - 1
      BY <3>1, <3>7
    <3>11. Laid(parts, names, e, i)
      <4>1. e[i] = k - 1 /\ e[i - 1] = j - 1
        <5>1. i \in i .. L
          BY <1>1, <3>1
        <5> QED
          BY <3>8, <3>10, <5>1
      <4>2. k - 1 \in 0 .. N /\ e[i] \in 0 .. N
        BY <3>1, <3>10, <4>1
      <4>3. CASE parts[i] = Deep
        <5>1. j <= k
          BY <3>6, <4>3
        <5>2. k \in Int
          <6>1. \A x \in rest[n - 1] : x \in Int
            <7>1. CASE n = 1
              BY <1>1, <1>2, <7>1
            <7>2. CASE n # 1
              <8>1. n - 1 \in 1 .. L
                BY <1>1, <7>2
              <8> QED
                <9>1. rest[n - 1] = RestStep(parts, names, n - 1, rest[n - 1 - 1])
                  BY <1>2, <8>1
                <9>2. \A m, b : RestStep(parts, names, m, b) \subseteq Int
                  BY <1>1 DEF RestStep, N
                <9>3. RestStep(parts, names, n - 1, rest[n - 1 - 1]) \subseteq Int
                  BY <9>2, Zenon
                <9>4. rest[n - 1] \subseteq Int
                  BY <9>1, <9>3, Zenon
                <9> QED
                  BY <9>4
            <7> QED
              BY <1>1, <7>1, <7>2
          <6> QED
            BY <6>1
        <5>3. j - 1 <= k - 1
          BY <3>4, <5>1, <5>2
        <5> QED
          BY <4>1, <4>3, <5>3 DEF Laid
      <4>4. CASE parts[i] # Deep
        <5>1. k = j + 1 /\ PartMatches(parts[i], names[j])
          BY <3>6, <4>4
        <5>2. k - 1 = j /\ j = (j - 1) + 1
          BY <3>4, <5>1
        <5> QED
          BY <4>1, <4>4, <5>1, <5>2 DEF Laid
      <4> QED
        BY <4>3, <4>4
    <3>12. ASSUME NEW l \in i + 1 .. L PROVE Laid(parts, names, e, l)
      <4>1. l \in i .. L /\ l - 1 \in i .. L
        BY <1>1, <3>1
      <4>2. e[l] = d[l] /\ e[l - 1] = d[l - 1]
        BY <3>8, <4>1
      <4>3. Laid(parts, names, d, l)
        BY <3>1, <3>7
      <4> QED
        BY <4>2, <4>3 DEF Laid
    <3>13. \A l \in i .. L : l = i \/ l \in i + 1 .. L
      BY <1>1, <3>1
    <3>14. Good(e, n, j)
      BY <3>1, <3>8, <3>9, <3>11, <3>12, <3>13
    <3> QED
      BY <3>8, <3>14
  <2> HIDE DEF P
  <2>3. L \in P
    <3>1. 0 .. L \subseteq P
      BY <1>1, <2>1, <2>2, Induction
    <3> QED
      BY <1>1, <3>1
  <2>4. PICK e \in [0 .. L -> 0 .. N] : Good(e, L, 1)
    BY <1>5, <2>3 DEF P
  <2>5. L - L = 0 /\ L - L + 1 = 1 /\ 1 - 1 = 0
    BY <1>1
  <2>6. e[0] = 0 /\ e[L] = N /\ \A i \in 1 .. L : Laid(parts, names, e, i)
    BY <2>4, <2>5
  <2> QED
    BY <2>6
<1> QED
  BY <1>2, <1>3, <1>4, <1>5

-----------------------------------------------------------------------------
(* Globs without wildcards, or with one at the end.                          *)

LEMMA NoTokens == "ANY" \notin Char /\ "ONE" \notin Char
  BY SymbolsAssumption DEF Char

GlobStep(tokens, s, i, before) ==
  IF tokens[i] = "ANY" THEN {j \in 0 .. Len(s) : \E k \in before : k <= j}
  ELSE {j \in 1 .. Len(s) : j - 1 \in before /\ tokens[i] \in {s[j], "ONE"}}

LEMMA GlobEnds ==
  ASSUME NEW tokens, NEW s, Len(tokens) \in Nat, Len(s) \in Nat
  PROVE  \E ends : /\ ends[0] = {0}
                   /\ \A i \in 1 .. Len(tokens) : ends[i] = GlobStep(tokens, s, i, ends[i - 1])
                   /\ GlobMatches(tokens, s) <=> Len(s) \in ends[Len(tokens)]
<1> DEFINE L == Len(tokens)
           B == SUBSET (0 .. Len(s))
           base == {0}
           step == [q \in B \X (1 .. L) |-> GlobStep(tokens, s, q[2], q[1])]
           Is(g) == g = [i \in 0 .. L |-> IF i = 0 THEN base ELSE GlobStep(tokens, s, i, g[i - 1])]
           G == CHOOSE g : Is(g)
<1>1. base \in B
  OBVIOUS
<1>2. \A b \in B, i \in 1 .. L : GlobStep(tokens, s, i, b) \in B
  BY DEF GlobStep
<1>3. step \in [B \X (1 .. L) -> B] /\ \A b \in B, i \in 1 .. L : step[<<b, i>>] = GlobStep(tokens, s, i, b)
  BY <1>2
<1> HIDE DEF B, base, step
<1>4. PICK g : Computed(g, L, B, base, step)
  BY <1>1, <1>3, Recursion
<1>5. ASSUME NEW i \in 1 .. L PROVE g[i] = GlobStep(tokens, s, i, g[i - 1])
  <2>1. g[i - 1] \in B /\ g[i] = step[<<g[i - 1], i>>]
    BY <1>4 DEF Computed
  <2> QED
    BY <1>3, <2>1
<1>6. Is(g)
  BY <1>4, <1>5 DEF Computed
<1>7. Is(G)
  <2> HIDE DEF Is
  <2> QED
    BY <1>6
<1>8. GlobMatches(tokens, s) <=> Len(s) \in G[L]
  BY DEF GlobMatches, GlobStep, base
<1> HIDE DEF G
<1>9. G[0] = base /\ \A i \in 1 .. L : G[i] = GlobStep(tokens, s, i, G[i - 1])
  BY <1>7
<1> QED
  BY <1>8, <1>9 DEF base

\* Symbols can end only where the string goes on as they do.
PlainEnd(tokens, s, m) == {j \in {m} : m <= Len(s) /\ \A k \in 1 .. m : tokens[k] = s[k]}

LEMMA PlainEnds ==
  ASSUME NEW tokens, NEW s, Len(s) \in Nat, NEW m \in Nat, NEW ends, ends[0] = {0},
         \A i \in 1 .. m : tokens[i] \in Char /\ ends[i] = GlobStep(tokens, s, i, ends[i - 1])
  PROVE  ends[m] = PlainEnd(tokens, s, m)
<1> DEFINE Here(i) == {j \in {i} : i <= Len(s) /\ \A k \in 1 .. i : tokens[k] = s[k]}
           P == {i \in 0 .. m : ends[i] = Here(i)}
<1>1. 0 \in P
  OBVIOUS
<1>2. ASSUME NEW i \in 1 .. m, i - 1 \in P PROVE i \in P
  <2>1. ends[i] = {j \in 1 .. Len(s) : j - 1 \in ends[i - 1] /\ tokens[i] = s[j]}
    <3>1. tokens[i] # "ANY" /\ tokens[i] # "ONE"
      BY NoTokens
    <3> QED
      BY <3>1 DEF GlobStep
  <2>2. ends[i - 1] = Here(i - 1)
    BY <1>2
  <2>3. ASSUME NEW j PROVE j \in ends[i] <=> j \in Here(i)
    <3>1. j \in ends[i] => j = i
      BY <2>1, <2>2
    <3>2. i \in ends[i] <=> i <= Len(s) /\ i - 1 \in Here(i - 1) /\ tokens[i] = s[i]
      BY <2>1, <2>2
    <3>3. i <= Len(s) => i - 1 <= Len(s)
      OBVIOUS
    <3>4. (\A k \in 1 .. i : tokens[k] = s[k]) <=> (\A k \in 1 .. i - 1 : tokens[k] = s[k]) /\ tokens[i] = s[i]
      <4>1. \A k \in 1 .. i : k \in 1 .. i - 1 \/ k = i
        OBVIOUS
      <4>2. i \in 1 .. i /\ \A k \in 1 .. i - 1 : k \in 1 .. i
        OBVIOUS
      <4> QED
        BY <4>1, <4>2
    <3>5. i \in ends[i] <=> i \in Here(i)
      BY <3>2, <3>3, <3>4
    <3> QED
      BY <3>1, <3>5
  <2>4. ends[i] = Here(i)
    <3> HIDE DEF Here
    <3> QED
      BY <2>3
  <2> HIDE DEF Here
  <2> QED
    BY <2>4
<1> HIDE DEF P
<1>3. 0 .. m \subseteq P
  BY <1>1, <1>2, Induction
<1>4. m \in P
  BY <1>3
<1> QED
  BY <1>4 DEF P, PlainEnd

LEMMA GlobLiteral ==
  ASSUME NEW x \in Text, NEW s \in Text
  PROVE  GlobMatches(x, s) <=> x = s
<1>1. Len(x) \in Nat /\ Len(s) \in Nat /\ \A i \in 1 .. Len(x) : x[i] \in Char
  BY LenProperties, ElementOfSeq DEF Text
<1>2. PICK ends : /\ ends[0] = {0}
                  /\ \A i \in 1 .. Len(x) : ends[i] = GlobStep(x, s, i, ends[i - 1])
                  /\ GlobMatches(x, s) <=> Len(s) \in ends[Len(x)]
  BY <1>1, GlobEnds
<1>3. ends[Len(x)] = PlainEnd(x, s, Len(x))
  BY <1>1, <1>2, PlainEnds
<1>4. GlobMatches(x, s) <=> Len(x) = Len(s) /\ \A k \in 1 .. Len(x) : x[k] = s[k]
  BY <1>1, <1>2, <1>3 DEF PlainEnd
<1>5. (Len(x) = Len(s) /\ \A k \in 1 .. Len(x) : x[k] = s[k]) => x = s
  BY SeqEqual DEF Text
<1> QED
  BY <1>4, <1>5

LEMMA GlobPrefix ==
  ASSUME NEW x \in Text, NEW s \in Text
  PROVE  GlobMatches(Append(x, "ANY"), s) <=> IsPrefix(x, s)
<1> DEFINE t == Append(x, "ANY")
<1>1. Len(x) \in Nat /\ Len(s) \in Nat /\ \A i \in 1 .. Len(x) : x[i] \in Char
  BY LenProperties, ElementOfSeq DEF Text
<1>2. Len(t) = Len(x) + 1 /\ t[Len(x) + 1] = "ANY" /\ \A i \in 1 .. Len(x) : t[i] = x[i]
  <2>1. x \in Seq(Char \cup {"ANY"})
    BY SeqMonotonic DEF Text
  <2> QED
    BY <2>1, AppendProperties
<1> HIDE DEF t
<1>3. PICK ends : /\ ends[0] = {0}
                  /\ \A i \in 1 .. Len(t) : ends[i] = GlobStep(t, s, i, ends[i - 1])
                  /\ GlobMatches(t, s) <=> Len(s) \in ends[Len(t)]
  <2>1. Len(t) \in Nat /\ Len(s) \in Nat
    BY <1>1, <1>2
  <2> QED
    BY <2>1, GlobEnds
<1>4. ends[Len(x)] = PlainEnd(t, s, Len(x))
  <2>1. \A i \in 1 .. Len(x) : t[i] \in Char /\ ends[i] = GlobStep(t, s, i, ends[i - 1])
    BY <1>1, <1>2, <1>3
  <2> QED
    BY <1>1, <1>3, <2>1, PlainEnds, ZenonT(40)
<1>5. ends[Len(x) + 1] = {j \in 0 .. Len(s) : \E k \in ends[Len(x)] : k <= j}
  <2>1. Len(x) + 1 \in 1 .. Len(t) /\ Len(x) + 1 - 1 = Len(x)
    BY <1>1, <1>2
  <2>2. ends[Len(x) + 1] = GlobStep(t, s, Len(x) + 1, ends[Len(x)])
    BY <1>3, <2>1
  <2> QED
    BY <1>2, <2>2 DEF GlobStep
<1>6. GlobMatches(t, s) <=> Len(x) <= Len(s) /\ \A k \in 1 .. Len(x) : x[k] = s[k]
  <2>1. GlobMatches(t, s) <=> Len(s) \in ends[Len(x) + 1]
    BY <1>2, <1>3
  <2>2. Len(s) \in ends[Len(x) + 1] <=> Len(x) \in ends[Len(x)] /\ Len(x) <= Len(s)
    BY <1>1, <1>4, <1>5 DEF PlainEnd
  <2>3. Len(x) \in ends[Len(x)] <=> Len(x) <= Len(s) /\ \A k \in 1 .. Len(x) : t[k] = s[k]
    BY <1>4 DEF PlainEnd
  <2> QED
    BY <1>2, <2>1, <2>2, <2>3
<1>7. IsPrefix(x, s) <=> Len(x) <= Len(s) /\ \A k \in 1 .. Len(x) : x[k] = s[k]
  BY PrefixElements DEF Text
<1> QED
  BY <1>6, <1>7 DEF t

-----------------------------------------------------------------------------
(* Patterns match as they should.                                            *)

LEMMA FirstElement ==
  ASSUME NEW A, NEW s \in Seq(A), s # <<>>
  PROVE  \E c \in A, t \in Seq(A) : s = <<c>> \o t
<1>1. Len(s) \in Nat \ {0} /\ SubSeq(s, 1, Len(s)) = s
  BY EmptySeq, SubSeqFull
<1>2. 1 \in 1 .. Len(s) /\ Len(s) \in 1 .. Len(s)
  BY <1>1
<1>3. SubSeq(s, 1, Len(s)) = <<s[1]>> \o SubSeq(s, 1 + 1, Len(s))
  BY <1>2, SubSeqRecursiveFirst
<1>4. SubSeq(s, 1 + 1, Len(s)) \in Seq(A) /\ s[1] \in A
  <2>1. \A i \in 1 + 1 .. Len(s) : s[i] \in A
    BY <1>1, ElementOfSeq
  <2> QED
    BY <1>1, <1>2, <2>1, SubSeqProperties, ElementOfSeq
<1> QED
  BY <1>1, <1>3, <1>4

\* A normal form begins with a slash and its first name.
LEMMA JoinedFirst ==
  ASSUME NEW w \in Text, NEW ps \in Seq(Text)
  PROVE  /\ <<w>> \o ps \in Seq(Text) /\ <<w>> \o ps # <<>>
         /\ Joined(<<w>> \o ps) = Slash \o (w \o Joined(ps))
<1>1. <<w>> \in Seq(Text) /\ <<w>> = Append(<<>>, w) /\ <<>> \in Seq(Text)
  BY EmptySeq
<1>2. Joined(<<w>>) = (<<>> \o Slash) \o w
  <2>1. Joined(Append(<<>>, w)) = Joined(<<>>) \o Slash \o w /\ Joined(<<>>) = <<>>
    BY <1>1, JoinedTexts
  <2> QED
    BY <1>1, <2>1
<1>3. Joined(<<w>>) = Slash \o w
  BY <1>2, Slashes, CatEmpty
<1>4. Joined(<<w>> \o ps) = Joined(<<w>>) \o Joined(ps)
  BY <1>1, JoinedCat
<1>5. Joined(ps) \in Text /\ Slash \in Text
  BY JoinedTexts, Slashes
<1>6. (Slash \o w) \o Joined(ps) = Slash \o (w \o Joined(ps))
  BY <1>5, CatAssoc
<1>7. <<w>> \o ps \in Seq(Text) /\ <<w>> \o ps # <<>>
  BY <1>1, ConcatProperties, ConcatEqualIffEmpty
<1> QED
  BY <1>3, <1>4, <1>6, <1>7

LEMMA JoinFirst ==
  ASSUME NEW ps \in Seq(Text)
  PROVE  \E x \in Text : Join(ps) = Slash \o x
<1>1. CASE ps = <<>>
  BY <1>1, Slashes, CatEmpty DEF Join
<1>2. CASE ps # <<>>
  <2>1. PICK w \in Text, rest \in Seq(Text) : ps = <<w>> \o rest
    BY <1>2, FirstElement
  <2>2. Joined(ps) = Slash \o (w \o Joined(rest))
    BY <2>1, JoinedFirst
  <2>3. w \o Joined(rest) \in Text
    BY JoinedTexts, Cat
  <2> QED
    BY <1>2, <2>2, <2>3 DEF Join
<1> QED
  BY <1>1, <1>2

LEMMA SlashFirst ==
  ASSUME NEW x \in Text
  PROVE  Slash \o x \in Text /\ Slash \o x # <<>> /\ (Slash \o x)[1] = "/"
<1>1. Slash \o x \in Text /\ Len(Slash \o x) = 1 + Len(x) /\ Len(x) \in Nat
  BY Slashes, Cat
<1>2. (Slash \o x)[1] = Slash[1]
  <2>1. 1 \in 1 .. Len(Slash) + Len(x) /\ 1 <= Len(Slash)
    BY <1>1, Slashes
  <2> QED
    BY <2>1, Slashes, CatElements
<1> QED
  BY <1>1, <1>2, Slashes, EmptySeq

LEMMA JoinBegins ==
  ASSUME NEW ps \in Seq(Text)
  PROVE  Join(ps) \in Text /\ Join(ps) # <<>> /\ Join(ps)[1] = "/"
  BY JoinFirst, SlashFirst

LEMMA LastOfCat ==
  ASSUME NEW s \in Text, NEW t \in Text, t # <<>>
  PROVE  (s \o t)[Len(s \o t)] = t[Len(t)]
<1>1. Len(s) \in Nat /\ Len(t) \in Nat \ {0} /\ Len(s \o t) = Len(s) + Len(t)
  BY Cat, EmptySeq DEF Text
<1>2. Len(s) + Len(t) \in 1 .. Len(s) + Len(t) /\ ~(Len(s) + Len(t) <= Len(s)) /\ Len(s) + Len(t) - Len(s) = Len(t)
  BY <1>1
<1> QED
  BY <1>1, <1>2, CatElements

PlainName == {w \in CleanName : \A i \in 1 .. Len(w) : w[i] \in Char \ {"*", "?"}}

LEMMA PlainPart ==
  ASSUME NEW w \in PlainName, NEW name \in Text
  PROVE  w # Deep /\ (PartMatches(w, name) <=> w = name)
<1>1. w \in Text /\ DOMAIN w = 1 .. Len(w) /\ Len(w) \in Nat /\ w \in [1 .. Len(w) -> Char]
  BY NamesAre, PartsAreTexts, LenProperties DEF PlainName, Text
<1>2. \A i \in 1 .. Len(w) : w[i] # "*" /\ w[i] # "?"
  BY DEF PlainName
<1>3. w # Deep
  <2>1. Len(Deep) = 2 /\ Deep[1] = "*"
    BY DEF Deep
  <2>2. ~(Len(w) = 2 /\ w[1] = "*")
    BY <1>2
  <2> QED
    BY <2>1, <2>2
<1>4. [i \in DOMAIN w |-> Token(w[i])] = w
  <2>1. \A i \in 1 .. Len(w) : Token(w[i]) = w[i]
    BY <1>2 DEF Token
  <2>2. [i \in 1 .. Len(w) |-> Token(w[i])] = [i \in 1 .. Len(w) |-> w[i]]
    BY <2>1
  <2> QED
    BY <1>1, <2>2
<1> QED
  BY <1>1, <1>3, <1>4, GlobLiteral DEF PartMatches

\* "/**" after names without wildcards.
LEMMA DeepMatches ==
  ASSUME NEW dir \in Seq(PlainName), NEW names \in Seq(Text)
  PROVE  LaidOut(Append(dir, Deep), names) <=> IsPrefix(dir, names)
<1> DEFINE parts == Append(dir, Deep)
           D == Len(dir)
           N == Len(names)
           A == PlainName \cup {Deep}
<1>1. dir \in Seq(A) /\ D \in Nat /\ N \in Nat
  BY SeqMonotonic, LenProperties
<1>2. parts \in Seq(A) /\ Len(parts) = D + 1 /\ parts[D + 1] = Deep /\ \A i \in 1 .. D : parts[i] = dir[i]
  BY <1>1, AppendProperties
<1>3. (\A i \in 1 .. D : dir[i] \in PlainName) /\ (\A i \in 1 .. N : names[i] \in Text)
  BY ElementOfSeq
<1> HIDE DEF parts, A
<1>4. LaidOut(parts, names) <=> \E end \in [0 .. D + 1 -> 0 .. N] : end[0] = 0 /\ end[D + 1] = N
                                            /\ \A i \in 1 .. D + 1 : Laid(parts, names, end, i)
  <2>1. LaidOut(parts, names) <=> \E end \in [0 .. Len(parts) -> 0 .. N] : end[0] = 0 /\ end[Len(parts)] = N
                                            /\ \A i \in 1 .. Len(parts) : Laid(parts, names, end, i)
    BY <1>2, LaidOutIs
  <2> QED
    BY <1>2, <2>1
<1>5. IsPrefix(dir, names) <=> D <= N /\ \A i \in 1 .. D : dir[i] = names[i]
  <2>1. dir \in Seq(Text)
    <3>1. PlainName \subseteq Text
      BY NamesAre, PartsAreTexts DEF PlainName
    <3> QED
      BY <3>1, SeqMonotonic
  <2> QED
    BY <2>1, PrefixElements
<1> HIDE DEF D, N
<1>6. ASSUME NEW end \in [0 .. D + 1 -> 0 .. N], end[0] = 0, end[D + 1] = N,
             \A i \in 1 .. D + 1 : Laid(parts, names, end, i)
      PROVE  D <= N /\ \A i \in 1 .. D : dir[i] = names[i]
  <2> DEFINE P == {i \in 0 .. D : end[i] = i}
  <2>1. ASSUME NEW i \in 1 .. D PROVE end[i] = end[i - 1] + 1 /\ (end[i] \in 1 .. N => dir[i] = names[end[i]])
    <3>1. Laid(parts, names, end, i) /\ parts[i] = dir[i] /\ dir[i] # Deep
      <4>1. i \in 1 .. D + 1
        BY <1>1
      <4> QED
        BY <1>2, <1>3, <1>6, <4>1, PlainPart, Slashes
    <3>2. end[i] = end[i - 1] + 1 /\ PartMatches(dir[i], names[end[i]])
      BY <3>1 DEF Laid
    <3> QED
      BY <1>3, <3>2, PlainPart
  <2>2. 0 \in P
    BY <1>1, <1>6
  <2>3. ASSUME NEW i \in 1 .. D, i - 1 \in P PROVE i \in P
    BY <2>1, <2>3
  <2> HIDE DEF P
  <2>4. 0 .. D \subseteq P
    BY <1>1, <2>2, <2>3, Induction
  <2>5. \A i \in 0 .. D : end[i] = i /\ i \in 0 .. N
    <3>1. \A i \in 0 .. D : i \in 0 .. D + 1
      BY <1>1
    <3> QED
      BY <1>6, <2>4, <3>1 DEF P
  <2>6. D <= N
    BY <1>1, <2>5
  <2>7. ASSUME NEW i \in 1 .. D PROVE dir[i] = names[i]
    <3>1. i \in 0 .. D /\ i \in 1 .. N
      BY <1>1, <2>6
    <3> QED
      BY <2>1, <2>5, <3>1
  <2> QED
    BY <2>6, <2>7
<1>7. ASSUME D <= N, \A i \in 1 .. D : dir[i] = names[i]
      PROVE  \E end \in [0 .. D + 1 -> 0 .. N] : end[0] = 0 /\ end[D + 1] = N
                  /\ \A i \in 1 .. D + 1 : Laid(parts, names, end, i)
  <2> DEFINE end == [i \in 0 .. D + 1 |-> IF i = D + 1 THEN N ELSE i]
  <2>1. end \in [0 .. D + 1 -> 0 .. N]
    BY <1>1, <1>7
  <2>2. end[0] = 0 /\ end[D + 1] = N /\ \A i \in 0 .. D : end[i] = i
    BY <1>1
  <2> HIDE DEF end
  <2>3. ASSUME NEW i \in 1 .. D PROVE Laid(parts, names, end, i)
    <3>1. parts[i] = dir[i] /\ dir[i] # Deep /\ names[i] \in Text /\ PartMatches(dir[i], names[i])
      <4>1. i \in 1 .. N
        BY <1>1, <1>7
      <4> QED
        BY <1>2, <1>3, <1>7, <4>1, PlainPart
    <3>2. end[i] = i /\ end[i - 1] = i - 1
      BY <1>1, <2>2
    <3> QED
      BY <3>1, <3>2 DEF Laid
  <2>4. Laid(parts, names, end, D + 1)
    <3>1. end[D + 1 - 1] = D
      BY <1>1, <2>2
    <3> QED
      <4> DEFINE i == D + 1
      <4>1. i - 1 = D /\ parts[i] = Deep /\ end[i] = N
        BY <1>1, <1>2, <2>2
      <4>2. end[D] = D
        BY <1>1, <2>2
      <4> HIDE DEF i
      <4>3. end[i - 1] <= end[i] /\ parts[i] = Deep
        BY <1>7, <4>1, <4>2
      <4>4. Laid(parts, names, end, i)
        BY <4>3 DEF Laid
      <4> QED
        BY <4>4 DEF i
  <2>5. \A i \in 1 .. D + 1 : i \in 1 .. D \/ i = D + 1
    BY <1>1
  <2> QED
    BY <2>1, <2>2, <2>3, <2>4, <2>5
<1> QED
  BY <1>4, <1>5, <1>6, <1>7 DEF parts

LEMMA NormalizedIs ==
  ASSUME NEW s \in Text
  PROVE  NormalizePath(s) = Clean(s) /\ NormalizePathPattern(s) = Clean(Trim(s, " ")) /\ Trim(s, " ") \in Text
  BY TrimIs DEF NormalizePath, NormalizePathPattern

\* A pattern is matched as its normal form, and that as what it is laid out.
LEMMA MatchedAsLaidOut ==
  ASSUME NEW s \in Text, NEW t \in Text, ~RefusedPattern(s), ~Refused(t)
  PROVE  MatchPathPattern(s, t) <=>
           \/ NormalizePathPattern(s) = NormalizePath(t)
           \/ LaidOut(pathParts(NormalizePathPattern(s)), pathParts(NormalizePath(t)))
<1> DEFINE p == pathParts(NormalizePathPattern(s))
           q == pathParts(NormalizePath(t))
<1>1. p \in Seq(Name) /\ q \in Seq(Name)
  BY NormalizedIs, CleanIs, PathPartsAre
<1>2. MatchPathPattern(s, t) <=> NormalizePathPattern(s) = NormalizePath(t) \/ matchPathParts(p, q)
  BY DEF MatchPathPattern
<1> HIDE DEF p, q
<1>3. matchPathParts(p, q) <=> LaidOut(p, q)
  BY <1>1, MatchesAsLaidOut
<1> QED
  BY <1>2, <1>3 DEF p, q

LEMMA NormalizedAgain ==
  ASSUME NEW s \in Text, NEW t \in Text, ~RefusedPattern(s), ~Refused(s), ~Refused(t),
         Last(NormalizePathPattern(s)) # " "
  PROVE  MatchPathPattern(NormalizePathPattern(s), NormalizePath(t)) = MatchPathPattern(s, t)
<1> DEFINE r == Trim(s, " ")
           p == NormalizePathPattern(s)
           q == NormalizePath(t)
<1>1. r \in Text /\ p = Clean(r) /\ q = Clean(t) /\ Calm(r) /\ Calm(t)
  BY TrimIs, NormalizedIs, NotRefused
<1> HIDE DEF r, p, q
<1>2. p \in Text /\ q \in Text /\ Clean(p) = p /\ Clean(q) = q /\ p = Join(cleanParts(r)) /\ cleanParts(r) \in Seq(Text)
  BY <1>1, CleanIs
<1>3. p # <<>> /\ p[1] = "/"
  BY <1>2, JoinBegins
<1>4. Trim(p, " ") = p
  <2>1. p[Len(p)] # " "
    BY DEF p, Last
  <2> QED
    BY <1>2, <1>3, <2>1, TrimNothing
<1>5. ~Refused(p) /\ ~Refused(q)
  BY <1>1, <1>2, CalmClean, NotRefused
<1>6. ~RefusedPattern(p)
  BY <1>3, <1>4, <1>5 DEF RefusedPattern
<1>7. NormalizePathPattern(p) = p /\ NormalizePath(q) = q
  BY <1>2, <1>4 DEF NormalizePathPattern, NormalizePath
<1> QED
  BY <1>5, <1>6, <1>7 DEF MatchPathPattern, p, q

LEMMA DeepIs ==
  Deep \in CleanName /\ Deep \in Part /\ Deep \in Text /\ Deep # <<>> /\ Calm(Deep) /\ Deep[Len(Deep)] = "*"
<1>1. "*" \in Char \ {"/"}
  BY DEF Char
<1>2. Deep \in Seq(Char \ {"/"}) /\ Len(Deep) = 2 /\ Deep[1] = "*" /\ Deep[2] = "*"
  BY <1>1 DEF Deep
<1>3. Deep # <<>> /\ Deep # <<".">>
  <2>1. Len(<<".">>) = 1 /\ Len(<<>>) = 0
    OBVIOUS
  <2> QED
    BY <1>2, <2>1
<1>4. Calm(Deep)
  BY <1>2 DEF Calm
<1> QED
  BY <1>2, <1>3, <1>4, PartsAreTexts DEF CleanName, Part

\* A directory's path with /** matches the directory and all below it.
LEMMA DeepMatchesBelow ==
  ASSUME NEW s \in Text, NEW t \in Text, ~Refused(s), ~Refused(t),
         \A i \in 1 .. Len(s) : s[i] \notin {"*", "?"}
  PROVE  MatchPathPattern(NormalizePath(s) \o Slash \o Deep, t) <=>
           NormalizePath(s) \in DirectoryAncestors(NormalizePath(t))
<1> DEFINE dir == NormalizePath(s)
           raw == dir \o Slash \o Deep
           cd == cleanParts(s)
           ct == cleanParts(t)
           q == Append(cd, Deep)
<1>1. dir = Join(cd) /\ NormalizePath(t) = Join(ct) /\ dir \in Text /\ cd \in Seq(CleanName) /\ ct \in Seq(CleanName)
      /\ cd \in Seq(Text) /\ cd \in Seq(Name) /\ ct \in Seq(Name) /\ ct \in Seq(Text) /\ cleanParts(dir) = cd
  BY NormalizedIs, CleanIs
<1>2. cd \in Seq(PlainName)
  <2>1. \A i \in 1 .. Len(s) : s[i] \in Char \ {"*", "?"}
    BY ElementOfSeq DEF Text
  <2> QED
    BY <2>1, SymbolsOfParts DEF PlainName
<1>3. Calm(dir)
  BY <1>1, CalmClean, NotRefused, NormalizedIs
<1>4. q \in Seq(CleanName) /\ q \in Seq(Name) /\ q \in Seq(Text)
  <2>1. q \in Seq(CleanName)
    BY <1>1, DeepIs, AppendProperties
  <2> QED
    BY <2>1, NamesAre
<1> HIDE DEF dir, cd, ct, q
<1>5. raw \in Text /\ Calm(raw) /\ raw # <<>> /\ raw[1] = "/" /\ raw[Len(raw)] = "*"
  <2>1. PICK x \in Text : dir = Slash \o x
    BY <1>1, JoinFirst
  <2>2. x \o Slash \o Deep \in Text /\ dir \o Slash \in Text
    BY <1>1, Slashes, DeepIs, Cat
  <2>3. raw = Slash \o (x \o Slash \o Deep)
    <3>1. PICK y \in Text : y = Slash
      BY Slashes
    <3>2. PICK w \in Text : w = Deep
      BY DeepIs
    <3>3. y \o (x \o Slash \o w) = (y \o x) \o Slash \o w
      BY CatSlash, ZenonT(40)
    <3> QED
      BY <2>1, <3>1, <3>2, <3>3
  <2>4. raw \in Text /\ raw # <<>> /\ raw[1] = "/"
    BY <2>2, <2>3, SlashFirst
  <2>5. raw[Len(raw)] = "*"
    BY <2>2, DeepIs, LastOfCat
  <2>6. Calm(raw)
    BY <1>1, <1>3, DeepIs, CalmCat
  <2> QED
    BY <2>4, <2>5, <2>6
<1>6. Trim(raw, " ") = raw
  BY <1>5, TrimNothing
<1>7. cleanParts(raw) = q
  <2>1. cleanParts(raw) = cd \o cleanParts(Deep)
    BY <1>1, DeepIs, CleanPartsAre
  <2>2. cleanParts(Deep) = <<Deep>>
    BY DeepIs, CleanPartsAre DEF CleanName
  <2>3. q = cd \o <<Deep>>
    BY <1>1, DeepIs, AppendIsConcat DEF q
  <2> QED
    BY <2>1, <2>2, <2>3
<1>8. NormalizePathPattern(raw) = Join(q) /\ ~RefusedPattern(raw)
  <2>1. ~Refused(raw)
    BY <1>5, NotRefused
  <2> HIDE DEF raw
  <2> QED
    BY <1>5, <1>6, <1>7, <2>1, CleanIs DEF NormalizePathPattern, RefusedPattern
<1>9. MatchPathPattern(raw, t) <=> Join(q) = Join(ct) \/ LaidOut(q, ct)
  <2>1. pathParts(Join(q)) = q /\ pathParts(Join(ct)) = ct
    BY <1>1, <1>4, JoinIs
  <2> HIDE DEF raw
  <2> QED
    BY <1>1, <1>5, <1>8, <2>1, MatchedAsLaidOut
<1>10. LaidOut(q, ct) <=> IsPrefix(cd, ct)
  BY <1>1, <1>2, DeepMatches DEF q
<1>11. Join(q) = Join(ct) => IsPrefix(cd, ct)
  <2>1. Join(q) = Join(ct) => q = ct
    <3>1. pathParts(Join(q)) = q /\ pathParts(Join(ct)) = ct
      BY <1>1, <1>4, JoinIs
    <3> QED
      BY <3>1
  <2>2. IsPrefix(cd, q)
    <3>1. q = cd \o <<Deep>> /\ <<Deep>> \in Seq(Text)
      BY <1>1, DeepIs, AppendIsConcat DEF q
    <3> QED
      BY <1>1, <3>1, PrefixOfCat
  <2> QED
    BY <2>1, <2>2
<1>12. dir \in DirectoryAncestors(NormalizePath(t)) <=> IsPrefix(cd, ct)
  BY <1>1, AncestorsArePrefixes
<1> QED
  BY <1>9, <1>10, <1>11, <1>12 DEF dir

LEMMA PatternsMatchTexts == text \in Text /\ other \in Text => PatternsMatch
<1> SUFFICES ASSUME text \in Text, other \in Text PROVE PatternsMatch
  OBVIOUS
<1> DEFINE pattern == NormalizePathPattern(text)
           target == NormalizePath(other)
           dir == NormalizePath(text)
<1> SUFFICES ASSUME ~RefusedPattern(text), ~Refused(other)
             PROVE  /\ Last(pattern) # " " =>
                         /\ MatchPathPattern(text, other) <=>
                              pattern = target \/ LaidOut(pathParts(pattern), pathParts(target))
                         /\ MatchPathPattern(pattern, target) = MatchPathPattern(text, other)
                    /\ (\A i \in DOMAIN text : text[i] \notin {"*", "?"}) =>
                         (MatchPathPattern(dir \o Slash \o Deep, other) <=> dir \in DirectoryAncestors(target))
  BY DEF PatternsMatch
<1>1. ~Refused(text) /\ DOMAIN text = 1 .. Len(text)
  BY LenProperties DEF RefusedPattern, Text
<1>2. MatchPathPattern(text, other) <=> pattern = target \/ LaidOut(pathParts(pattern), pathParts(target))
  BY MatchedAsLaidOut
<1>3. Last(pattern) # " " => MatchPathPattern(pattern, target) = MatchPathPattern(text, other)
  BY <1>1, NormalizedAgain
<1>4. (\A i \in DOMAIN text : text[i] \notin {"*", "?"}) =>
        (MatchPathPattern(dir \o Slash \o Deep, other) <=> dir \in DirectoryAncestors(target))
  BY <1>1, DeepMatchesBelow
<1> QED
  BY <1>2, <1>3, <1>4

-----------------------------------------------------------------------------
(* The specification, of which every state has two texts.                    *)

PathTypeOK == text \in Text /\ other \in Text

\* The inputs are texts (Paths has no other state).
THEOREM TextsAlways == PathSpec => []PathTypeOK
<1>1. PathInit => PathTypeOK
  BY Slashes DEF PathInit, PathTypeOK
<1>2. PathTypeOK /\ [PathNext]_pathVars => PathTypeOK'
  <2> SUFFICES ASSUME PathTypeOK, [PathNext]_pathVars PROVE PathTypeOK'
    OBVIOUS
  <2>1. \A s \in Text, c \in Symbols : Append(s, c) \in Text
    <3>1. Symbols \subseteq Char
      BY DEF Char
    <3> QED
      BY <3>1, AppendProperties DEF Text
  <2>2. CASE PathNext
    BY <2>1, <2>2 DEF PathNext, PathTypeOK
  <2>3. CASE UNCHANGED pathVars
    BY <2>3 DEF pathVars, PathTypeOK
  <2> QED
    BY <2>2, <2>3
<1> QED
  BY <1>1, <1>2, PTL DEF PathSpec

\* Patterns match the paths along which they can be laid out, the same when they
\* are normalised again, and with /** a directory and what is below it
\* (NormalizePathPattern, MatchPathPattern, DirectoryAncestors, path.go:34-149).
THEOREM PatternsAgree == PathSpec => []PatternsMatch
<1>1. PathTypeOK => PatternsMatch
  BY PatternsMatchTexts DEF PathTypeOK
<1> QED
  BY <1>1, TextsAlways, PTL

-----------------------------------------------------------------------------
(* What a refresh deletes from the caches.                                   *)

LEMMA ReadAppend ==
  /\ Read(<<>>) = [escaped |-> FALSE, tokens |-> <<>>]
  /\ \A s \in Text, c \in Char :
       Read(Append(s, c)) = (IF Read(s).escaped THEN [escaped |-> FALSE, tokens |-> Append(Read(s).tokens, c)]
                             ELSE IF c = "\\" THEN [escaped |-> TRUE, tokens |-> Read(s).tokens]
                             ELSE [escaped |-> FALSE, tokens |-> Append(Read(s).tokens, Token(c))])
  BY ReadIs DEF Text

LEMMA EscapeAppend ==
  /\ escapeCachePattern(<<>>) = <<>>
  /\ \A s \in Text : escapeCachePattern(s) \in Text
  /\ \A s \in Text, c \in Char :
       escapeCachePattern(Append(s, c)) =
         escapeCachePattern(s) \o (IF c \in Escaped THEN <<"\\", c>> ELSE <<c>>)
<1>1. "\\" \in Char
  BY DEF Char
<1> QED
  BY <1>1, EscapeIs DEF Text

\* What is escaped is read as it was, also before the star of a pattern.
LEMMA ReadEscaped ==
  ASSUME NEW x \in Text
  PROVE  Read(escapeCachePattern(x)) = [escaped |-> FALSE, tokens |-> x]
<1> DEFINE P == {s \in Text : Read(escapeCachePattern(s)) = [escaped |-> FALSE, tokens |-> s]}
<1>1. <<>> \in P
  BY ReadAppend, EscapeAppend, Slashes
<1>2. ASSUME NEW s \in Text, NEW c \in Char, s \in P PROVE Append(s, c) \in P
  <2> DEFINE e == escapeCachePattern(s)
  <2>1. e \in Text /\ Append(s, c) \in Text /\ "\\" \in Char
    BY EscapeAppend, AppendProperties DEF Text, Char
  <2>2. Read(e) = [escaped |-> FALSE, tokens |-> s]
    BY <1>2
  <2>3. escapeCachePattern(Append(s, c)) = e \o (IF c \in Escaped THEN <<"\\", c>> ELSE <<c>>)
    BY EscapeAppend
  <2> HIDE DEF e
  <2>4. CASE c \in Escaped
    <3> DEFINE d == Append(e, "\\")
    <3>1. d \in Text
      BY <2>1, AppendProperties DEF Text
    <3>2. Read(d) = [escaped |-> TRUE, tokens |-> s]
      BY <2>1, <2>2, ReadAppend
    <3>3. e \o <<"\\", c>> = Append(d, c)
      <4>1. <<"\\">> \in Text /\ <<c>> \in Text /\ <<"\\", c>> = <<"\\">> \o <<c>>
        BY <2>1 DEF Text
      <4>2. e \o (<<"\\">> \o <<c>>) = (e \o <<"\\">>) \o <<c>>
        BY <2>1, <4>1, CatAssoc
      <4>3. d = e \o <<"\\">> /\ Append(d, c) = d \o <<c>>
        BY <2>1, <3>1, AppendIsConcat DEF Text
      <4> QED
        BY <4>1, <4>2, <4>3
    <3> HIDE DEF d
    <3>4. Read(Append(d, c)) = [escaped |-> FALSE, tokens |-> Append(s, c)]
      BY <3>1, <3>2, ReadAppend
    <3> QED
      BY <2>1, <2>3, <2>4, <3>3, <3>4
  <2>5. CASE c \notin Escaped
    <3>1. e \o <<c>> = Append(e, c)
      BY <2>1, AppendIsConcat DEF Text
    <3>2. c # "\\" /\ Token(c) = c
      BY <2>5 DEF Escaped, Token
    <3>3. Read(Append(e, c)) = [escaped |-> FALSE, tokens |-> Append(s, c)]
      BY <2>1, <2>2, <3>2, ReadAppend
    <3> QED
      BY <2>1, <2>3, <2>5, <3>1, <3>3
  <2> QED
    BY <2>4, <2>5
<1> HIDE DEF P
<1>3. Text \subseteq P
  BY <1>1, <1>2, SeqInduction DEF Text
<1> QED
  BY <1>3 DEF P

LEMMA TokensEscaped ==
  ASSUME NEW x \in Text
  PROVE  /\ Tokens(escapeCachePattern(x)) = x
         /\ Tokens(escapeCachePattern(x) \o <<"*">>) = Append(x, "ANY")
<1> DEFINE e == escapeCachePattern(x)
<1>1. e \in Text /\ "*" \in Char
  BY EscapeAppend DEF Char
<1>2. Read(e) = [escaped |-> FALSE, tokens |-> x]
  BY ReadEscaped
<1> HIDE DEF e
<1>3. e \o <<"*">> = Append(e, "*")
  BY <1>1, AppendIsConcat DEF Text
<1>4. Read(Append(e, "*")) = [escaped |-> FALSE, tokens |-> Append(x, Token("*"))]
  BY <1>1, <1>2, ReadAppend
<1>5. Token("*") = "ANY"
  BY DEF Token
<1>6. Tokens(e) = x
  BY <1>2 DEF Tokens
<1>7. Tokens(e \o <<"*">>) = Append(x, "ANY")
  <2>1. Tokens(Append(e, "*")) = Append(x, Token("*"))
    BY <1>4 DEF Tokens
  <2> QED
    BY <1>3, <1>5, <2>1
<1> QED
  BY <1>6, <1>7 DEF e

LEMMA RedisMatchesEscaped ==
  ASSUME NEW x \in Text, NEW key \in Text
  PROVE  /\ RedisMatches(escapeCachePattern(x), key) <=> x = key
         /\ RedisMatches(escapeCachePattern(x) \o <<"*">>, key) <=> IsPrefix(x, key)
<1>1. RedisMatches(escapeCachePattern(x), key) <=> GlobMatches(x, key)
  BY TokensEscaped DEF RedisMatches
<1>2. RedisMatches(escapeCachePattern(x) \o <<"*">>, key) <=> GlobMatches(Append(x, "ANY"), key)
  BY TokensEscaped DEF RedisMatches
<1> QED
  BY <1>1, <1>2, GlobLiteral, GlobPrefix

LEMMA UnescapeEscaped ==
  ASSUME NEW x \in Text
  PROVE  /\ unescapeCachePattern(escapeCachePattern(x)) = x
         /\ unescapeCachePattern(escapeCachePattern(x) \o <<"*">>) = Append(x, "*")
<1> DEFINE Un(c) == CASE c = "ANY" -> "*" [] c = "ONE" -> "?" [] OTHER -> c
           t == Append(x, "ANY")
           u == Append(x, "*")
<1>1. x \in [1 .. Len(x) -> Char] /\ DOMAIN x = 1 .. Len(x) /\ Len(x) \in Nat
  BY LenProperties DEF Text
<1>2. \A c \in Char : Un(c) = c
  BY NoTokens
<1>3. Un("ANY") = "*"
  OBVIOUS
<1>4. unescapeCachePattern(escapeCachePattern(x)) = [i \in DOMAIN x |-> Un(x[i])]
  BY TokensEscaped DEF unescapeCachePattern
<1>5. unescapeCachePattern(escapeCachePattern(x) \o <<"*">>) = [i \in DOMAIN t |-> Un(t[i])]
  BY TokensEscaped DEF unescapeCachePattern
<1> HIDE DEF Un
<1>6. [i \in DOMAIN x |-> Un(x[i])] = x
  <2>1. [i \in 1 .. Len(x) |-> Un(x[i])] = [i \in 1 .. Len(x) |-> x[i]]
    BY <1>1, <1>2
  <2> QED
    BY <1>1, <2>1
<1>7. [i \in DOMAIN t |-> Un(t[i])] = u
  <2>1. DOMAIN t = 1 .. Len(x) + 1 /\ t[Len(x) + 1] = "ANY" /\ \A i \in 1 .. Len(x) : t[i] = x[i]
    <3>1. x \in Seq(Char \cup {"ANY"})
      BY SeqMonotonic DEF Text
    <3>2. t \in Seq(Char \cup {"ANY"}) /\ Len(t) = Len(x) + 1 /\ t[Len(x) + 1] = "ANY" /\ \A i \in 1 .. Len(x) : t[i] = x[i]
      BY <3>1, AppendProperties
    <3> QED
      BY <3>2, LenProperties
  <2>2. u \in [1 .. Len(x) + 1 -> Char] /\ u[Len(x) + 1] = "*" /\ \A i \in 1 .. Len(x) : u[i] = x[i]
    <3>1. "*" \in Char
      BY DEF Char
    <3>2. u \in Seq(Char) /\ Len(u) = Len(x) + 1 /\ u[Len(x) + 1] = "*" /\ \A i \in 1 .. Len(x) : u[i] = x[i]
      BY <3>1, AppendProperties DEF Text
    <3> QED
      BY <3>2, LenProperties
  <2> HIDE DEF t, u
  <2>3. \A i \in 1 .. Len(x) + 1 : Un(t[i]) = u[i]
    <3>1. ASSUME NEW i \in 1 .. Len(x) + 1 PROVE Un(t[i]) = u[i]
      <4>1. CASE i = Len(x) + 1
        BY <1>3, <2>1, <2>2, <4>1
      <4>2. CASE i # Len(x) + 1
        <5>1. i \in 1 .. Len(x)
          BY <1>1, <4>2
        <5> QED
          BY <1>1, <1>2, <2>1, <2>2, <5>1
      <4> QED
        BY <4>1, <4>2
    <3> QED
      BY <3>1
  <2>4. [i \in 1 .. Len(x) + 1 |-> Un(t[i])] = [i \in 1 .. Len(x) + 1 |-> u[i]]
    BY <2>3
  <2> QED
    BY <2>1, <2>2, <2>4
<1> QED
  BY <1>4, <1>5, <1>6, <1>7

LEMMA CacheMatchesEscaped ==
  ASSUME NEW x \in Text, NEW key \in Text
  PROVE  /\ x = key => cachePatternMatches(escapeCachePattern(x), key)
         /\ cachePatternMatches(escapeCachePattern(x), key) => x = key \/ Last(x) = "*"
         /\ cachePatternMatches(escapeCachePattern(x) \o <<"*">>, key) <=> IsPrefix(x, key)
<1>1. cachePatternMatches(escapeCachePattern(x), key) <=>
        IF x # <<>> /\ Last(x) = "*" THEN IsPrefix(Front(x), key) ELSE x = key
  BY UnescapeEscaped DEF cachePatternMatches
<1>2. x # <<>> => IsPrefix(Front(x), x)
  <2> SUFFICES ASSUME x # <<>> PROVE IsPrefix(Front(x), x)
    OBVIOUS
  <2>1. PICK s \in Text, c \in Char : x = Append(s, c)
    BY SequenceEmptyOrAppend DEF Text
  <2>2. Front(x) = s
    BY <2>1, AppendFrontLast DEF Text
  <2>3. x = s \o <<c>> /\ <<c>> \in Text
    BY <2>1, AppendIsConcat DEF Text
  <2> QED
    <3>1. \A u, v \in Text : IsPrefix(u, u \o v)
      BY PrefixOfCat DEF Text
    <3> QED
      BY <2>2, <2>3, <3>1
<1>3. cachePatternMatches(escapeCachePattern(x) \o <<"*">>, key) <=> IsPrefix(x, key)
  <2>1. "*" \in Char
    BY DEF Char
  <2>2. Append(x, "*") # <<>> /\ Last(Append(x, "*")) = "*" /\ Front(Append(x, "*")) = x
    BY <2>1, AppendProperties, AppendFrontLast DEF Text
  <2> QED
    BY <2>2, UnescapeEscaped DEF cachePatternMatches
<1> QED
  BY <1>1, <1>2, <1>3

LEMMA NotSlash ==
  ASSUME NEW ps \in Seq(Name)
  PROVE  Join(ps) = Slash <=> ps = <<>>
<1>1. Join(<<>>) = Slash
  BY DEF Join
<1>2. pathParts(Join(ps)) = ps /\ pathParts(Join(<<>>)) = <<>>
  BY JoinIs, EmptySeq
<1> QED
  BY <1>1, <1>2

LEMMA DirPathIs ==
  ASSUME NEW ps \in Seq(Name)
  PROVE  /\ cacheDirPath(Join(ps)) = Joined(ps) \o Slash
         /\ cacheDirPath(Join(ps)) \in Text /\ pathParts(cacheDirPath(Join(ps))) = ps
         /\ Joined(ps) \in Text /\ pathParts(Joined(ps)) = ps
<1>1. ps \in Seq(Text) /\ Joined(ps) \in Text /\ Joined(<<>>) = <<>>
  BY NamesAre, JoinedTexts
<1>2. cacheDirPath(Join(ps)) = Joined(ps) \o Slash
  <2>1. CASE ps = <<>>
    BY <1>1, <2>1, NotSlash, Slashes, CatEmpty DEF cacheDirPath
  <2>2. CASE ps # <<>>
    BY <2>2, NotSlash DEF cacheDirPath, Join
  <2> QED
    BY <2>1, <2>2
<1>3. pathParts(Joined(ps)) = ps
  <2>1. CASE ps = <<>>
    BY <1>1, <2>1, PathPartsAre, Slashes
  <2>2. CASE ps # <<>>
    BY <2>2, JoinIs DEF Join
  <2> QED
    BY <2>1, <2>2
<1>4. pathParts(Joined(ps) \o Slash) = ps
  <2>1. Joined(ps) \o Slash \in Text /\ (Joined(ps) \o Slash) \o <<>> = Joined(ps) \o Slash
    BY <1>1, Slashes, Cat, CatEmpty
  <2>2. pathParts(Joined(ps) \o Slash \o <<>>) = pathParts(Joined(ps)) \o pathParts(<<>>)
    BY <1>1, Slashes, PathPartsAre
  <2>3. pathParts(<<>>) = <<>>
    BY Slashes, PathPartsAre
  <2>4. ps \o <<>> = ps
    BY ConcatEmptySeq
  <2> QED
    BY <1>3, <2>1, <2>2, <2>3, <2>4
<1>5. Joined(ps) \o Slash \in Text
  BY <1>1, Slashes, Cat
<1> QED
  BY <1>1, <1>2, <1>3, <1>4, <1>5

LEMMA CacheKeyIs ==
  ASSUME NEW kind, NEW ps \in Seq(Name)
  PROVE  CacheKey(kind, Join(ps)) \in Text /\ pathParts(CacheKey(kind, Join(ps))) = ps
<1>1. Join(ps) \in Text /\ pathParts(Join(ps)) = ps
  BY NamesAre, JoinIs
<1> QED
  BY <1>1, DirPathIs DEF CacheKey

\* The keys below a directory are those with its prefix, besides its own.
LEMMA KeysBelow ==
  ASSUME NEW kind, NEW ct \in Seq(Name), NEW cp \in Seq(Name)
  PROVE  /\ IsPrefix(cacheDirPath(Join(ct)), CacheKey(kind, Join(cp))) => IsPrefix(ct, cp)
         /\ IsPrefix(ct, cp) => \/ CacheKey(kind, Join(ct)) = CacheKey(kind, Join(cp))
                                \/ IsPrefix(cacheDirPath(Join(ct)), CacheKey(kind, Join(cp)))
<1> DEFINE T == cacheDirPath(Join(ct))
           key == CacheKey(kind, Join(cp))
<1>1. T \in Text /\ T = Joined(ct) \o Slash /\ Joined(ct) \in Text /\ pathParts(Joined(ct)) = ct
  BY DirPathIs
<1>2. key \in Text /\ pathParts(key) = cp
  BY CacheKeyIs
<1>3. ct \in Seq(Text) /\ cp \in Seq(Text)
  BY NamesAre
<1>4. ASSUME IsPrefix(T, key) PROVE IsPrefix(ct, cp)
  <2> HIDE DEF T, key
  <2>1. PICK u \in Text : key = T \o u
    <3>1. \A s, t \in Text : IsPrefix(s, t) => \E u \in Text : t = s \o u
      BY PrefixHasRest DEF Text
    <3> QED
      BY <1>1, <1>2, <1>4, <3>1
  <2>2. pathParts(Joined(ct) \o Slash \o u) = pathParts(Joined(ct)) \o pathParts(u) /\ pathParts(u) \in Seq(Name)
    BY <1>1, PathPartsAre
  <2>3. cp = ct \o pathParts(u)
    BY <1>1, <1>2, <2>1, <2>2
  <2> QED
    BY <2>2, <2>3, PrefixOfCat
<1>5. ASSUME IsPrefix(ct, cp), ct # cp PROVE IsPrefix(T, key)
  <2>1. PICK q \in Seq(Name) : cp = ct \o q
    BY <1>5, PrefixHasRest
  <2>2. q # <<>>
    BY <1>5, <2>1, ConcatEmptySeq
  <2>3. PICK w \in Text, rest \in Seq(Text) : q = <<w>> \o rest
    <3>1. q \in Seq(Text)
      BY NamesAre
    <3> QED
      BY <2>2, <3>1, FirstElement
  <2> DEFINE r == w \o Joined(rest)
  <2>4. Joined(q) = Slash \o r /\ r \in Text
    BY <2>3, JoinedFirst, JoinedTexts, Cat
  <2>5. Joined(cp) = Joined(ct) \o Joined(q)
    <3>1. q \in Seq(Text)
      BY NamesAre
    <3> QED
      BY <1>3, <2>1, <3>1, JoinedCat
  <2> HIDE DEF r
  <2>6. Joined(cp) = T \o r
    <3>1. PICK y \in Text : y = Slash
      BY Slashes
    <3> DEFINE j == Joined(ct)
    <3>2. j \in Text /\ r \in Text
      BY <1>1, <2>4
    <3> HIDE DEF j
    <3>3. j \o (y \o r) = (j \o y) \o r
      BY <3>2, CatAssoc
    <3> QED
      BY <1>1, <2>4, <2>5, <3>1, <3>3 DEF j
  <2>7. cp # <<>>
    BY <2>1, <2>2, ConcatEqualIffEmpty
  <2>8. Join(cp) = T \o r
    BY <2>6, <2>7 DEF Join
  <2>9. key = T \o r \/ key = T \o (r \o Slash)
    <3>1. CASE kind = "list"
      <4>1. key = Joined(cp) \o Slash
        BY <3>1, DirPathIs DEF CacheKey
      <4>2. (T \o r) \o Slash = T \o (r \o Slash)
        <5>1. T \in Text
          BY <1>1
        <5> HIDE DEF T
        <5> QED
          BY <2>4, <5>1, Slashes, CatAssoc
      <4> QED
        BY <2>6, <4>1, <4>2
    <3>2. CASE kind # "list"
      BY <2>8, <3>2 DEF CacheKey
    <3> QED
      BY <3>1, <3>2
  <2>10. r \in Text /\ r \o Slash \in Text
    BY <2>4, Slashes, Cat
  <2>11. \A u, v \in Text : IsPrefix(u, u \o v)
    BY PrefixOfCat DEF Text
  <2> HIDE DEF T, key
  <2> QED
    BY <1>1, <2>9, <2>10, <2>11
<1> QED
  BY <1>4, <1>5

LEMMA StarPattern ==
  ASSUME NEW key \in Text
  PROVE  RedisMatches(<<"*">>, key) /\ cachePatternMatches(<<"*">>, key)
<1>1. <<"*">> = escapeCachePattern(<<>>) \o <<"*">>
  <2>1. <<"*">> \in Text
    BY DEF Text, Char
  <2> QED
    BY <2>1, EscapeAppend, CatEmpty
<1>2. IsPrefix(<<>>, key)
  <2>1. IsPrefix(<<>>, <<>> \o key)
    BY Slashes, PrefixOfCat DEF Text
  <2> QED
    BY <2>1, CatEmpty
<1>3. \A x \in Text : /\ RedisMatches(escapeCachePattern(x) \o <<"*">>, key) <=> IsPrefix(x, key)
                      /\ cachePatternMatches(escapeCachePattern(x) \o <<"*">>, key) <=> IsPrefix(x, key)
  BY RedisMatchesEscaped, CacheMatchesEscaped
<1>4. /\ RedisMatches(escapeCachePattern(<<>>) \o <<"*">>, key)
      /\ cachePatternMatches(escapeCachePattern(<<>>) \o <<"*">>, key)
  BY <1>2, <1>3, Slashes
<1> QED
  BY <1>1, <1>4

\* The two patterns of a path, for each of the caches.
LEMMA DeletedKeys ==
  ASSUME NEW kind \in {"list", "stat"}, NEW ct \in Seq(Name), NEW cp \in Seq(Name)
  PROVE  LET key == CacheKey(kind, Join(cp))
             patterns == cacheDeletePatterns(kind, Join(ct))
         IN  /\ (\E pattern \in patterns : RedisMatches(pattern, key)) <=> IsPrefix(ct, cp)
             /\ IsPrefix(ct, cp) => \E pattern \in patterns : cachePatternMatches(pattern, key)
             /\ (\E pattern \in patterns : cachePatternMatches(pattern, key)) =>
                  IsPrefix(ct, cp) \/ Last(Join(ct)) = "*"
<1> DEFINE key == CacheKey(kind, Join(cp))
           own == CacheKey(kind, Join(ct))
           below == cacheDirPath(Join(ct))
           one == escapeCachePattern(own)
           two == escapeCachePattern(below) \o <<"*">>
           patterns == cacheDeletePatterns(kind, Join(ct))
<1>1. key \in Text /\ own \in Text /\ below \in Text /\ pathParts(key) = cp /\ pathParts(own) = ct
  BY CacheKeyIs, DirPathIs
<1>2. CASE ct = <<>>
  <2>1. patterns = {<<"*">>}
    BY <1>2, NotSlash DEF cacheDeletePatterns
  <2>2. IsPrefix(ct, cp)
    <3>1. IsPrefix(<<>>, <<>> \o cp) /\ <<>> \o cp = cp
      BY PrefixOfCat, ConcatEmptySeq, EmptySeq
    <3> QED
      BY <1>2, <3>1
  <2> HIDE DEF patterns, key
  <2>3. RedisMatches(<<"*">>, key) /\ cachePatternMatches(<<"*">>, key)
    BY <1>1, StarPattern
  <2> QED
    BY <2>1, <2>2, <2>3 DEF patterns, key
<1>3. CASE ct # <<>>
  <2>1. patterns = {one, two}
    BY <1>3, NotSlash DEF cacheDeletePatterns
  <2>2. /\ IsPrefix(below, key) => IsPrefix(ct, cp)
        /\ IsPrefix(ct, cp) => own = key \/ IsPrefix(below, key)
    BY KeysBelow
  <2>3. own = key => IsPrefix(ct, cp)
    <3>1. own = key => ct = cp
      BY <1>1
    <3>2. IsPrefix(cp, cp \o <<>>) /\ cp \o <<>> = cp
      BY PrefixOfCat, ConcatEmptySeq, EmptySeq
    <3> QED
      BY <3>1, <3>2
  <2>4. Last(own) = "*" => Last(Join(ct)) = "*"
    <3>1. kind = "stat" => own = Join(ct)
      BY DEF CacheKey
    <3>2. kind = "list" => Last(own) = "/"
      <4>1. Joined(ct) \in Text
        BY DirPathIs
      <4>2. kind = "list" => own = Joined(ct) \o Slash
        BY DirPathIs DEF CacheKey
      <4>3. (Joined(ct) \o Slash)[Len(Joined(ct) \o Slash)] = "/"
        <5>1. Slash \in Text /\ Slash # <<>> /\ Slash[Len(Slash)] = "/"
          <6>1. Slash # <<>>
            BY Slashes, SlashFirst, CatEmpty
          <6>2. Slash[Len(Slash)] = Slash[1]
            BY Slashes
          <6> QED
            BY <6>1, <6>2, Slashes
        <5> QED
          BY <4>1, <5>1, LastOfCat
      <4> QED
        BY <4>2, <4>3 DEF Last
    <3> QED
      BY <3>1, <3>2
  <2> HIDE DEF patterns, key, own, below
  <2>5. (RedisMatches(one, key) <=> own = key) /\ (RedisMatches(two, key) <=> IsPrefix(below, key))
    BY <1>1, RedisMatchesEscaped
  <2>6. /\ own = key => cachePatternMatches(one, key)
        /\ cachePatternMatches(one, key) => own = key \/ Last(own) = "*"
        /\ cachePatternMatches(two, key) <=> IsPrefix(below, key)
    BY <1>1, CacheMatchesEscaped
  <2> HIDE DEF one, two
  <2>7. (\E pattern \in patterns : RedisMatches(pattern, key)) <=> RedisMatches(one, key) \/ RedisMatches(two, key)
    BY <2>1
  <2>8. (\E pattern \in patterns : cachePatternMatches(pattern, key)) <=>
          cachePatternMatches(one, key) \/ cachePatternMatches(two, key)
    BY <2>1
  <2> QED
    BY <2>2, <2>3, <2>4, <2>5, <2>6, <2>7, <2>8 DEF patterns, key
<1> QED
  BY <1>2, <1>3

LEMMA RefreshForgetsTexts == text \in Text /\ other \in Text => RefreshForgetsBelow
<1> SUFFICES ASSUME text \in Text, other \in Text, NEW kind \in {"list", "stat"}
             PROVE  LET target == NormalizePath(text)
                        p == NormalizePath(other)
                        below == target \in DirectoryAncestors(p)
                        patterns == cacheDeletePatterns(kind, target)
                        key == CacheKey(kind, p)
                    IN  /\ (\E pattern \in patterns : RedisMatches(pattern, key)) <=> below
                        /\ below => \E pattern \in patterns : cachePatternMatches(pattern, key)
                        /\ (\E pattern \in patterns : cachePatternMatches(pattern, key)) => below \/ Last(target) = "*"
  BY DEF RefreshForgetsBelow
<1>1. /\ NormalizePath(text) = Join(cleanParts(text)) /\ cleanParts(text) \in Seq(Name)
      /\ NormalizePath(other) = Join(cleanParts(other)) /\ cleanParts(other) \in Seq(Name)
  BY NormalizedIs, CleanIs
<1> DEFINE ct == cleanParts(text)
           cp == cleanParts(other)
<1>2. Join(ct) \in DirectoryAncestors(Join(cp)) <=> IsPrefix(ct, cp)
  BY <1>1, AncestorsArePrefixes
<1> HIDE DEF ct, cp
<1>3. LET key == CacheKey(kind, Join(cp))
          patterns == cacheDeletePatterns(kind, Join(ct))
      IN  /\ (\E pattern \in patterns : RedisMatches(pattern, key)) <=> IsPrefix(ct, cp)
          /\ IsPrefix(ct, cp) => \E pattern \in patterns : cachePatternMatches(pattern, key)
          /\ (\E pattern \in patterns : cachePatternMatches(pattern, key)) =>
               IsPrefix(ct, cp) \/ Last(Join(ct)) = "*"
  <2>1. ct \in Seq(Name) /\ cp \in Seq(Name)
    BY <1>1 DEF ct, cp
  <2> QED
    BY <2>1, DeletedKeys
<1> QED
  BY <1>1, <1>2, <1>3 DEF ct, cp

\* A refresh deletes the cached answers of a path and of all below it, and Redis
\* keeps the others (cacheDeletePatterns, router.go:1346-1383; r2_cache.go:126-143).
THEOREM RefreshForgets == PathSpec => []RefreshForgetsBelow
<1>1. PathTypeOK => RefreshForgetsBelow
  BY RefreshForgetsTexts DEF PathTypeOK
<1> QED
  BY <1>1, TextsAlways, PTL

-----------------------------------------------------------------------------
(* Listings lead to what they list.                                          *)

LEMMA TrimPrefixOfCat ==
  \A s, u \in Text : IsPrefix(s, s \o u) /\ TrimPrefix(s \o u, s) = u
  BY PrefixOfCat DEF TrimPrefix, Text

LEMMA NoSlashFirst ==
  ASSUME NEW x \in Text, x = <<>> \/ x[1] # "/"
  PROVE  TrimPrefix(x, Slash) = x
<1> SUFFICES ASSUME IsPrefix(Slash, x) PROVE FALSE
  BY DEF TrimPrefix
<1>1. \E u \in Text : x = Slash \o u
  BY Slashes, PrefixHasRest DEF Text
<1> QED
  BY <1>1, SlashFirst

LEMMA NameFirst ==
  ASSUME NEW w \in Name, NEW t \in Text
  PROVE  w \in Text /\ w \o t \in Text /\ w \o t # <<>> /\ (w \o t)[1] # "/"
<1>1. w \in Text /\ w \in Seq(Char \ {"/"}) /\ w # <<>>
  BY PartsAreTexts DEF Name, Part
<1>2. Len(w) \in Nat \ {0} /\ Len(t) \in Nat /\ w \o t \in Text /\ Len(w \o t) = Len(w) + Len(t)
  BY <1>1, Cat, EmptySeq DEF Text
<1>3. w[1] # "/"
  <2>1. 1 \in 1 .. Len(w)
    BY <1>2
  <2> QED
    BY <1>1, <2>1, ElementOfSeq
<1>4. (w \o t)[1] = w[1]
  <2>1. 1 \in 1 .. Len(w) + Len(t) /\ 1 <= Len(w)
    BY <1>2
  <2> QED
    BY <1>1, <2>1, CatElements
<1>5. w \o t # <<>>
  BY <1>1, ConcatSimplifications DEF Text
<1> QED
  BY <1>1, <1>2, <1>3, <1>4, <1>5

\* The key of what follows the root.
Key(root, x) == IF root = <<>> THEN x ELSE root \o Slash \o x

LEMMA KeyCat ==
  ASSUME NEW root \in Text, NEW x \in Text, NEW y \in Text
  PROVE  Key(root, x) \in Text /\ Key(root, x) \o y = Key(root, x \o y)
<1>1. root \o Slash \in Text /\ (root \o Slash) \o x \in Text
  BY Slashes, Cat
<1>2. ((root \o Slash) \o x) \o y = (root \o Slash) \o (x \o y)
  <2> DEFINE r == root \o Slash
  <2>1. r \in Text
    BY <1>1
  <2> HIDE DEF r
  <2>2. (r \o x) \o y = r \o (x \o y)
    BY <2>1, CatAssoc
  <2> QED
    BY <2>2 DEF r
<1> QED
  BY <1>1, <1>2 DEF Key

LEMMA PathFromKey ==
  ASSUME NEW root \in Text, NEW x \in Text, x = <<>> \/ x[1] # "/"
  PROVE  sitePathFromKey(root, Key(root, x)) = Slash \o x
<1>1. CASE root = <<>>
  <2>1. TrimPrefix(x, <<>>) = x
    <3>1. TrimPrefix(<<>> \o x, <<>>) = x
      BY Slashes, TrimPrefixOfCat
    <3> QED
      BY <3>1, CatEmpty
  <2> QED
    BY <1>1, <2>1, NoSlashFirst DEF sitePathFromKey, Key
<1>2. CASE root # <<>>
  <2>1. Key(root, x) = root \o (Slash \o x)
    BY <1>2, Slashes, CatAssoc DEF Key
  <2>2. TrimPrefix(root \o (Slash \o x), root) = Slash \o x
    BY SlashFirst, TrimPrefixOfCat
  <2>3. TrimPrefix(Slash \o x, Slash) = x
    BY Slashes, TrimPrefixOfCat
  <2> QED
    BY <2>1, <2>2, <2>3 DEF sitePathFromKey
<1> QED
  BY <1>1, <1>2

LEMMA FileKey ==
  ASSUME NEW root \in Text, NEW x \in Text
  PROVE  keyForFile(root, Slash \o x) = IF x = <<>> THEN root ELSE Key(root, x)
<1>1. TrimPrefix(Slash \o x, Slash) = x
  BY Slashes, TrimPrefixOfCat
<1> QED
  BY <1>1 DEF keyForFile, Key

\* The prefix of a directory is the key of its path and a slash.
LEMMA DirKey ==
  ASSUME NEW root \in Text, NEW ps \in Seq(Name)
  PROVE  \E d \in Text : /\ cacheDirPath(Join(ps)) = Slash \o d
                         /\ keyForDir(root, Join(ps)) = Key(root, d)
                         /\ d = <<>> \/ d[1] # "/"
<1>1. CASE ps = <<>>
  <2>1. Join(ps) = Slash /\ cacheDirPath(Slash) = Slash
    BY <1>1 DEF Join, cacheDirPath
  <2>2. Slash = Slash \o <<>>
    BY Slashes, CatEmpty
  <2>3. keyForFile(root, Slash) = root
    BY <2>2, Slashes, FileKey
  <2>4. keyForDir(root, Slash) = IF root = <<>> THEN <<>> ELSE root \o Slash
    BY <2>3 DEF keyForDir
  <2>5. (root \o Slash) \o <<>> = root \o Slash
    BY Slashes, Cat, CatEmpty
  <2>6. keyForDir(root, Slash) = Key(root, <<>>)
    BY <2>4, <2>5 DEF Key
  <2> QED
    BY <2>1, <2>2, <2>6, Slashes
<1>2. CASE ps # <<>>
  <2>1. PICK w \in Name, rest \in Seq(Name) : ps = <<w>> \o rest
    BY <1>2, FirstElement
  <2>2. w \in Text /\ rest \in Seq(Text) /\ Joined(rest) \in Text
    BY NamesAre, PartsAreTexts, JoinedTexts
  <2> DEFINE y == w \o Joined(rest)
             d == y \o Slash
  <2>3. y \in Text /\ y # <<>> /\ Joined(ps) = Slash \o y
    BY <2>1, <2>2, NameFirst, JoinedFirst
  <2>4. d \in Text /\ d[1] # "/"
    <3>1. Joined(rest) \o Slash \in Text
      BY <2>2, Slashes, Cat
    <3>2. w \o (Joined(rest) \o Slash) \in Text /\ (w \o (Joined(rest) \o Slash))[1] # "/"
      BY <3>1, NameFirst
    <3>3. d = w \o (Joined(rest) \o Slash)
      BY <2>2, Slashes, CatAssoc
    <3> QED
      BY <3>2, <3>3
  <2> HIDE DEF y
  <2>5. Join(ps) = Slash \o y /\ Join(ps) # Slash
    BY <1>2, <2>3, NotSlash DEF Join
  <2>6. cacheDirPath(Join(ps)) = Slash \o d
    <3>1. cacheDirPath(Join(ps)) = (Slash \o y) \o Slash
      BY <2>5 DEF cacheDirPath
    <3>2. PICK z \in Text : z = Slash
      BY Slashes
    <3>3. (z \o y) \o z = z \o (y \o z)
      BY <2>3, CatAssoc
    <3> QED
      BY <3>1, <3>2, <3>3
  <2>7. keyForDir(root, Join(ps)) = Key(root, y) \o Slash
    BY <2>3, <2>5, FileKey DEF keyForDir
  <2>8. Key(root, y) \o Slash = Key(root, d)
    BY <2>3, Slashes, KeyCat
  <2> HIDE DEF d
  <2> QED
    BY <2>4, <2>6, <2>7, <2>8
<1> QED
  BY <1>1, <1>2

\* What comes after the first of the names.
LEMMA SplitFirst ==
  ASSUME NEW s \in Text
  PROVE  /\ Split(s) \in Seq(Part) /\ Len(Split(s)) \in Nat \ {0} /\ Split(s)[1] \in Part
         /\ Len(Split(s)) = 1 => s = Split(s)[1]
         /\ Len(Split(s)) # 1 => \E r \in Text : s = Split(s)[1] \o Slash \o r
<1> DEFINE Good(x) == /\ Len(Split(x)) \in Nat \ {0}
                      /\ Len(Split(x)) = 1 => x = Split(x)[1]
                      /\ Len(Split(x)) # 1 => \E r \in Text : x = Split(x)[1] \o Slash \o r
           P == {x \in Text : Good(x)}
<1>1. ASSUME NEW w \in Part PROVE w \in P
  BY SplitPart, PartsAreTexts
<1>2. ASSUME NEW x \in Text, NEW w \in Part, x \in P PROVE x \o Slash \o w \in P
  <2> DEFINE y == x \o Slash \o w
             q == Split(x)
  <2>1. y \in Text /\ w \in Text
    BY Slashes, Cat, PartsAreTexts
  <2>2. Split(y) = Append(q, w) /\ q \in Seq(Part)
    BY SplitSlash, SplitInParts
  <2>3. Len(q) \in Nat \ {0} /\ 1 \in 1 .. Len(q)
    BY <1>2
  <2>4. Len(Split(y)) = Len(q) + 1 /\ Split(y)[1] = q[1] /\ q[1] \in Part
    BY <2>2, <2>3, AppendProperties, ElementOfSeq
  <2>5. \E r \in Text : y = q[1] \o Slash \o r
    <3>1. CASE Len(q) = 1
      BY <1>2, <2>1, <3>1
    <3>2. CASE Len(q) # 1
      <4>1. PICK r \in Text : x = q[1] \o Slash \o r
        BY <1>2, <3>2
      <4> DEFINE z == q[1] \o Slash
      <4>2. z \in Text /\ r \o Slash \o w \in Text
        BY <2>1, <2>4, Slashes, Cat, PartsAreTexts
      <4> HIDE DEF z
      <4>3. z \o (r \o Slash \o w) = (z \o r) \o Slash \o w
        BY <2>1, <4>2, CatSlash, SMTT(40)
      <4> QED
        BY <4>1, <4>2, <4>3 DEF z
    <3> QED
      BY <3>1, <3>2
  <2> HIDE DEF y, q
  <2>6. Good(y)
    BY <2>3, <2>4, <2>5, SMTT(40)
  <2> QED
    BY <2>1, <2>6 DEF y
<1> HIDE DEF P
<1>3. Text \subseteq P
  BY <1>1, <1>2, TextInduction
<1>4. Good(s)
  BY <1>3 DEF P
<1>5. Split(s) \in Seq(Part)
  BY SplitInParts
<1>6. Split(s)[1] \in Part
  <2>1. 1 \in 1 .. Len(Split(s))
    BY <1>4
  <2> QED
    BY <1>5, <2>1, ElementOfSeq
<1> QED
  BY <1>4, <1>5, <1>6

LEMMA SplitNameJoined ==
  ASSUME NEW w \in Part, NEW ps \in Seq(Part)
  PROVE  Split(w \o Joined(ps)) = <<w>> \o ps
<1> DEFINE P == {r \in Seq(Part) : Split(w \o Joined(r)) = <<w>> \o r}
<1>0. w \in Text /\ <<w>> \in Seq(Part) /\ \A r \in Seq(Part) : r \in Seq(Text) /\ Joined(r) \in Text
  BY NamesAre, PartsAreTexts, JoinedTexts
<1>1. <<>> \in P
  <2>1. w \o <<>> = w /\ <<w>> \o <<>> = <<w>>
    BY <1>0, CatEmpty, ConcatEmptySeq
  <2> QED
    BY <2>1, JoinedTexts, SplitPart, EmptySeq
<1>2. ASSUME NEW r \in Seq(Part), NEW v \in Part, r \in P PROVE Append(r, v) \in P
  <2>1. v \in Text /\ Joined(r) \in Text /\ r \in Seq(Text) /\ Append(r, v) \in Seq(Part)
    BY <1>0, PartsAreTexts, AppendProperties
  <2>2. Joined(Append(r, v)) = Joined(r) \o Slash \o v
    BY <2>1, JoinedTexts
  <2>3. w \o (Joined(r) \o Slash \o v) = (w \o Joined(r)) \o Slash \o v
    BY <1>0, <2>1, CatSlash
  <2>4. w \o Joined(r) \in Text
    BY <1>0, <2>1, Cat
  <2>5. Split((w \o Joined(r)) \o Slash \o v) = Append(Split(w \o Joined(r)), v)
    BY <2>4, SplitSlash
  <2>6. <<w>> \o Append(r, v) = Append(<<w>> \o r, v)
    BY <1>0, AppendConcat
  <2> QED
    BY <1>2, <2>1, <2>2, <2>3, <2>5, <2>6
<1> HIDE DEF P
<1>3. Seq(Part) \subseteq P
  BY <1>1, <1>2, SeqInduction
<1> QED
  BY <1>3 DEF P

\* The rest of a key below a directory begins with the name of the entry.
LEMMA RestOfKey ==
  ASSUME NEW o \in Text, Split(o)[1] \in Name
  PROVE  \E t \in Text : /\ o = Split(o)[1] \o t
                         /\ IF Len(Split(o)) = 1 THEN t = <<>> ELSE \E r \in Text : t = Slash \o r
<1> DEFINE n == Split(o)[1]
<1>1. n \in Text
  BY NamesAre, PartsAreTexts
<1>2. CASE Len(Split(o)) = 1
  <2>1. o = n /\ n \o <<>> = n
    BY <1>1, <1>2, SplitFirst, CatEmpty
  <2> QED
    BY <1>2, <2>1, Slashes
<1>3. CASE Len(Split(o)) # 1
  <2>1. PICK r \in Text : o = n \o Slash \o r
    BY <1>3, SplitFirst
  <2>2. PICK y \in Text : y = Slash
    BY Slashes
  <2>3. (n \o y) \o r = n \o (y \o r) /\ y \o r \in Text
    BY <1>1, <2>2, CatAssoc, Cat, ZenonT(40)
  <2> QED
    BY <1>3, <2>1, <2>2, <2>3
<1> QED
  BY <1>2, <1>3

LEMMA BelowFirst ==
  ASSUME NEW d \in Text, d = <<>> \/ d[1] # "/", NEW w \in Name, NEW t \in Text
  PROVE  d \o (w \o t) \in Text /\ d \o (w \o t) # <<>> /\ (d \o (w \o t))[1] # "/"
<1> DEFINE u == w \o t
<1>1. u \in Text /\ u # <<>> /\ u[1] # "/"
  BY NameFirst
<1> HIDE DEF u
<1>2. d \o u \in Text /\ d \o u # <<>>
  BY <1>1, Cat, ConcatEqualIffEmpty DEF Text
<1>3. (d \o u)[1] # "/"
  <2>1. CASE d = <<>>
    BY <1>1, <2>1, CatEmpty
  <2>2. CASE d # <<>>
    <3>1. Len(d) \in Nat \ {0} /\ Len(u) \in Nat
      BY <1>1, <2>2, Cat, EmptySeq DEF Text
    <3>2. 1 \in 1 .. Len(d) + Len(u) /\ 1 <= Len(d)
      BY <3>1
    <3>3. (d \o u)[1] = d[1]
      BY <1>1, <3>2, CatElements
    <3> QED
      BY <2>2, <3>3
  <2> QED
    BY <2>1, <2>2
<1> QED
  BY <1>2, <1>3 DEF u

\* The path of an entry: the directory's, a slash and the name.
LEMMA EntryIs ==
  ASSUME NEW ps \in Seq(CleanName), NEW w \in CleanName
  PROVE  LET p == Join(Append(ps, w))
         IN  /\ Append(ps, w) \in Seq(CleanName) /\ p \in Text
             /\ p = cacheDirPath(Join(ps)) \o w
             /\ NormalizePath(p) = p /\ ParentDir(p) = Join(ps) /\ pathParts(p) = Append(ps, w)
<1> DEFINE qs == Append(ps, w)
<1>1. qs \in Seq(CleanName) /\ qs # <<>> /\ Front(qs) = ps
  BY AppendProperties, AppendFrontLast
<1>2. /\ ps \in Seq(Name) /\ ps \in Seq(Text) /\ qs \in Seq(Name) /\ qs \in Seq(Text)
      /\ w \in Text
  BY <1>1, NamesAre, PartsAreTexts
<1>3. Joined(qs) = Joined(ps) \o Slash \o w
  BY <1>2, JoinedTexts
<1>4. cacheDirPath(Join(ps)) = Joined(ps) \o Slash
  BY <1>2, DirPathIs
<1> HIDE DEF qs
<1>5. Join(qs) \in Text /\ pathParts(Join(qs)) = qs /\ Clean(Join(qs)) = Join(qs)
  BY <1>1, <1>2, JoinIs
<1>6. Join(qs) = Joined(qs)
  BY <1>1 DEF Join
<1>7. ParentDir(Join(qs)) = Join(ps)
  BY <1>1, <1>5 DEF ParentDir
<1> QED
  BY <1>1, <1>3, <1>4, <1>5, <1>6, <1>7 DEF qs, NormalizePath

LEMMA SlashAround ==
  /\ \A s \in Text : (Slash \o s) \o Slash = Slash \o (s \o Slash)
  /\ \A s, t, w \in Text : s \o (t \o (Slash \o w)) = ((s \o t) \o Slash) \o w
<1>1. PICK y \in Text : y = Slash
  BY Slashes
<1>2. \A s \in Text : (y \o s) \o y = y \o (s \o y)
  BY CatAssoc
<1>3. \A s, t, w \in Text : s \o (t \o (y \o w)) = ((s \o t) \o y) \o w
  <2> SUFFICES ASSUME NEW s \in Text, NEW t \in Text, NEW w \in Text
               PROVE  s \o (t \o (y \o w)) = ((s \o t) \o y) \o w
    OBVIOUS
  <2>1. t \o (y \o w) = (t \o y) \o w
    BY CatAssoc
  <2>2. s \o ((t \o y) \o w) = (s \o t) \o y \o w
    BY CatAssoc4, SMTT(40)
  <2> QED
    BY <2>1, <2>2
<1> QED
  BY <1>1, <1>2, <1>3, ZenonT(40)

\* What is listed for a key below a directory.
LEMMA ListedIs ==
  ASSUME NEW root \in Text, NEW ps \in Seq(CleanName), NEW o \in Text, Split(o)[1] \in CleanName
  PROVE  LET dir == Join(ps)
             key == keyForDir(root, dir) \o o
             p == Join(Append(ps, Split(o)[1]))
         IN  /\ ListEntries(root, dir, key) = {p}
             /\ IF Len(Split(o)) = 1 THEN keyForFile(root, p) = key ELSE IsPrefix(keyForDir(root, p), key)
             /\ sitePathFromKey(root, key) = cacheDirPath(dir) \o o
<1> DEFINE n == Split(o)[1]
           dir == Join(ps)
           p == Join(Append(ps, n))
           prefix == keyForDir(root, dir)
<1>1. n \in CleanName /\ n \in Name /\ n \in Text /\ n # <<>> /\ ps \in Seq(Name)
  BY NamesAre, PartsAreTexts DEF CleanName
<1>2. PICK t \in Text : o = n \o t /\ IF Len(Split(o)) = 1 THEN t = <<>> ELSE \E r \in Text : t = Slash \o r
  BY <1>1, RestOfKey
<1>3. PICK d \in Text : /\ cacheDirPath(dir) = Slash \o d /\ prefix = Key(root, d)
                        /\ d = <<>> \/ d[1] # "/"
  BY <1>1, DirKey
<1>4. Append(ps, n) \in Seq(CleanName) /\ Append(ps, n) \in Seq(Name) /\ p \in Text /\ p = cacheDirPath(dir) \o n
  BY <1>1, EntryIs, NamesAre
<1>5. Split(o)[1] = n
  OBVIOUS
<1> HIDE DEF n, p, prefix, dir
<1>6. d \o n \in Text /\ d \o n # <<>> /\ (d \o n)[1] # "/"
  <2>1. n \o <<>> = n
    BY <1>1, CatEmpty
  <2>2. d \o (n \o <<>>) \in Text /\ d \o (n \o <<>>) # <<>> /\ (d \o (n \o <<>>))[1] # "/"
    BY <1>1, <1>3, Slashes, BelowFirst
  <2> QED
    BY <2>1, <2>2
<1>7. d \o o \in Text /\ d \o o # <<>> /\ (d \o o)[1] # "/"
  BY <1>1, <1>2, <1>3, BelowFirst
<1>8. prefix \in Text /\ prefix \o o = Key(root, d \o o) /\ prefix \o n = Key(root, d \o n)
  <2>1. \A x, y \in Text : Key(root, x) \in Text /\ Key(root, x) \o y = Key(root, x \o y)
    BY KeyCat
  <2> QED
    BY <1>1, <1>3, <2>1
<1>9. Slash \o (d \o n) = p /\ Slash \o (d \o o) = cacheDirPath(dir) \o o
  <2>1. PICK y \in Text : y = Slash
    BY Slashes
  <2>2. y \o (d \o n) = (y \o d) \o n /\ y \o (d \o o) = (y \o d) \o o
    BY <1>1, <2>1, CatAssoc, ZenonT(40)
  <2> QED
    BY <1>3, <1>4, <2>1, <2>2
<1>10. sitePathFromKey(root, prefix \o o) = cacheDirPath(dir) \o o
  BY <1>7, <1>8, <1>9, PathFromKey
<1>11. ListEntries(root, dir, prefix \o o) = {p}
  <2>1. o # <<>>
    BY <1>1, <1>2, ConcatEqualIffEmpty DEF Text
  <2>2. prefix \o o # prefix
    BY <1>8, <2>1, ConcatSimplifications DEF Text
  <2>3. TrimPrefix(prefix \o o, prefix) = o
    BY <1>8, TrimPrefixOfCat
  <2>4. sitePathFromKey(root, prefix \o n) = p
    BY <1>6, <1>8, <1>9, PathFromKey
  <2> QED
    BY <1>5, <2>2, <2>3, <2>4 DEF ListEntries, prefix
<1>12. CASE Len(Split(o)) = 1
  <2>1. o = n
    BY <1>1, <1>2, <1>12, CatEmpty
  <2>2. keyForFile(root, Slash \o (d \o n)) = Key(root, d \o n)
    BY <1>6, FileKey
  <2>3. keyForFile(root, p) = prefix \o o
    BY <1>8, <1>9, <2>1, <2>2
  <2> QED
    BY <1>10, <1>11, <1>12, <2>3 DEF prefix, p, dir, n
<1>13. CASE Len(Split(o)) # 1
  <2>1. PICK r \in Text : t = Slash \o r
    BY <1>2, <1>13
  <2>2. PICK e \in Text : cacheDirPath(p) = Slash \o e /\ keyForDir(root, p) = Key(root, e)
    <3>1. \E e \in Text : /\ cacheDirPath(Join(Append(ps, n))) = Slash \o e
                          /\ keyForDir(root, Join(Append(ps, n))) = Key(root, e)
      BY <1>4, DirKey
    <3> QED
      BY <3>1 DEF p
  <2>3. cacheDirPath(p) = p \o Slash
    <3>1. Append(ps, n) # <<>>
      BY <1>1, AppendProperties, EmptySeq
    <3>2. p # Slash
      BY <1>4, <3>1, NotSlash DEF p
    <3> QED
      BY <3>2 DEF cacheDirPath
  <2>4. e = (d \o n) \o Slash
    <3>1. PICK y \in Text : y = Slash
      BY Slashes
    <3>2. PICK u \in Text : u = d \o n
      BY <1>6
    <3>3. (y \o u) \o y = y \o (u \o y) /\ u \o y \in Text
      <4>1. (Slash \o u) \o Slash = Slash \o (u \o Slash)
        BY SlashAround
      <4>2. u \o y \in Text
        BY Cat
      <4> QED
        BY <3>1, <4>1, <4>2
    <3>4. y \o e = y \o (u \o y)
      BY <1>9, <2>2, <2>3, <3>1, <3>2, <3>3
    <3>5. TrimPrefix(y \o e, y) = e /\ TrimPrefix(y \o (u \o y), y) = u \o y
      BY <3>1, <3>3, TrimPrefixOfCat
    <3> QED
      BY <3>1, <3>2, <3>4, <3>5
  <2>5. d \o o = e \o r
    <3>1. d \o (n \o (Slash \o r)) = ((d \o n) \o Slash) \o r
      BY <1>1, SlashAround, ZenonT(40)
    <3> QED
      BY <1>2, <2>1, <2>4, <3>1
  <2>6. prefix \o o = keyForDir(root, p) \o r /\ keyForDir(root, p) \in Text
    <3>1. Key(root, e) \in Text /\ Key(root, e) \o r = Key(root, e \o r)
      BY KeyCat
    <3> QED
      BY <1>8, <2>2, <2>5, <3>1
  <2>7. IsPrefix(keyForDir(root, p), prefix \o o)
    BY <2>6, TrimPrefixOfCat
  <2> QED
    BY <1>10, <1>11, <1>13, <2>7 DEF prefix, p, dir, n
<1> QED
  BY <1>12, <1>13

LEMMA FirstOf ==
  ASSUME NEW A, NEW w \in A, NEW p \in Seq(A), NEW q \in Seq(A)
  PROVE  /\ <<>> \in Seq(A) /\ <<w>> \o <<>> = <<w>>
         /\ <<w>> \o q \in Seq(A) /\ (<<w>> \o q)[1] = w
         /\ p \o (<<w>> \o q) \in Seq(A) /\ p \o (<<w>> \o q) # p /\ p \o (<<w>> \o q) # <<>>
<1>0. <<w>> \in Seq(A) /\ Len(<<w>>) = 1 /\ <<w>>[1] = w
  OBVIOUS
<1>1. PICK v \in Seq(A) : v = <<w>>
  BY <1>0
<1>2. Len(v) = 1 /\ v[1] = w
  BY <1>0, <1>1
<1>3. v # <<>> /\ <<>> \in Seq(A)
  <2>1. v = <<>> <=> Len(v) = 0
    BY EmptySeq
  <2>2. <<>> \in Seq(A)
    BY EmptySeq
  <2> QED
    BY <1>2, <2>1, <2>2
<1>4. v \o <<>> = v
  BY ConcatEmptySeq
<1> DEFINE b == v \o q
<1>5. b \in Seq(A) /\ Len(q) \in Nat
  BY ConcatProperties, LenProperties
<1>6. b[1] = w
  <2>1. \A i \in 1 .. Len(v) + Len(q) : b[i] = IF i <= Len(v) THEN v[i] ELSE q[i - Len(v)]
    BY ConcatProperties
  <2>2. 1 \in 1 .. Len(v) + Len(q) /\ 1 <= Len(v)
    BY <1>2, <1>5
  <2> QED
    BY <1>2, <2>1, <2>2
<1>7. b # <<>>
  BY <1>3, ConcatEqualIffEmpty
<1> HIDE DEF b
<1>8. p \o b \in Seq(A) /\ p \o b # p /\ p \o b # <<>>
  <2>1. PICK c \in Seq(A) : c = b
    BY <1>5
  <2>2. p \o c \in Seq(A)
    BY ConcatProperties
  <2>3. (p \o c = p <=> c = <<>>) /\ (p \o c = <<>> <=> p = <<>> /\ c = <<>>)
    BY ConcatEqualIffEmpty
  <2> QED
    BY <1>7, <2>1, <2>2, <2>3
<1> QED
  BY <1>1, <1>3, <1>4, <1>5, <1>6, <1>8 DEF b

LEMMA NamesFirst ==
  \A w \in CleanName, p, q \in Seq(CleanName) :
    /\ (<<w>> \o q)[1] = w
    /\ p \o (<<w>> \o q) \in Seq(CleanName) /\ p \o (<<w>> \o q) # p /\ p \o (<<w>> \o q) # <<>>
<1> SUFFICES ASSUME NEW w \in CleanName, NEW p \in Seq(CleanName), NEW q \in Seq(CleanName)
             PROVE  /\ (<<w>> \o q)[1] = w
                    /\ p \o (<<w>> \o q) \in Seq(CleanName) /\ p \o (<<w>> \o q) # p /\ p \o (<<w>> \o q) # <<>>
  OBVIOUS
<1> QED
  BY FirstOf

\* What is made up for an indexed directory below a directory.
LEMMA SyntheticIs ==
  ASSUME NEW ps \in Seq(CleanName), NEW o \in Text, Split(o)[1] \in CleanName,
         Trim(Split(o)[1], " ") = Split(o)[1]
  PROVE  SyntheticEntries(Join(ps), NormalizePath(cacheDirPath(Join(ps)) \o o)) = {Join(Append(ps, Split(o)[1]))}
<1>0. PICK n \in CleanName : n = Split(o)[1]
  OBVIOUS
<1> DEFINE dir == Join(ps)
           prefix == cacheDirPath(dir)
           indexed == NormalizePath(prefix \o o)
<1>1. n \in CleanName /\ n \in Name /\ n \in Part /\ n \in Text /\ n # <<>> /\ Trim(n, " ") = n
  BY <1>0, NamesAre, PartsAreTexts DEF CleanName
<1>2. ps \in Seq(Name) /\ ps \in Seq(Part) /\ ps \in Seq(Text)
  BY NamesAre
<1>3. prefix = Joined(ps) \o Slash /\ prefix \in Text /\ Joined(ps) \in Text /\ pathParts(dir) = ps
  BY <1>2, DirPathIs, JoinIs
<1>4. \E rest \in Seq(CleanName) : cleanParts(o) = <<n>> \o rest
  <2>1. PICK t \in Text : o = n \o t /\ (Len(Split(o)) = 1 => t = <<>>) /\ (Len(Split(o)) # 1 => \E r \in Text : t = Slash \o r)
    BY <1>0, <1>1, RestOfKey
  <2>2. cleanParts(n) = <<n>>
    BY <1>1, CleanPartsAre DEF CleanName
  <2>3. CASE t = <<>>
    <3>1. cleanParts(o) = <<n>>
      BY <1>1, <2>1, <2>2, <2>3, CatEmpty
    <3>2. <<n>> \o <<>> = <<n>> /\ <<>> \in Seq(CleanName)
      BY <1>1, EmptySeq, FirstOf
    <3> QED
      BY <3>1, <3>2
  <2>4. CASE \E r \in Text : t = Slash \o r
    <3>1. PICK r \in Text : t = Slash \o r
      BY <2>4
    <3>2. o = n \o Slash \o r
      <4>1. PICK y \in Text : y = Slash
        BY Slashes
      <4>2. n \o (y \o r) = (n \o y) \o r
        BY <1>1, CatAssoc, ZenonT(40)
      <4> QED
        BY <2>1, <3>1, <4>1, <4>2
    <3>3. cleanParts(n \o Slash \o r) = cleanParts(n) \o cleanParts(r) /\ cleanParts(r) \in Seq(CleanName)
      BY <1>1, CleanPartsAre
    <3> QED
      BY <2>2, <3>2, <3>3
  <2> QED
    BY <2>1, <2>3, <2>4
<1>5. PICK rest \in Seq(CleanName) : cleanParts(o) = <<n>> \o rest
  BY <1>4
<1> HIDE DEF dir, prefix
<1>7. rest \in Seq(Name) /\ rest \in Seq(Part) /\ rest \in Seq(Text) /\ Joined(rest) \in Text
  BY NamesAre, JoinedTexts
<1> DEFINE below == <<n>> \o rest
           tail == n \o Joined(rest)
<1>8. below \in Seq(Text) /\ below \in Seq(CleanName) /\ below # <<>> /\ Joined(below) = Slash \o tail /\ tail \in Text
  <2>1. below \in Seq(CleanName)
    BY <1>1, FirstOf
  <2>3. tail \in Text
    BY <1>1, <1>7, Cat
  <2> QED
    BY <1>1, <1>7, <2>1, <2>3, JoinedFirst
<1>9. Split(tail) = below
  BY <1>1, <1>7, SplitNameJoined
<1>10. below[1] = n /\ ps \o below \in Seq(CleanName) /\ ps \o below # ps /\ ps \o below # <<>>
  BY <1>1, NamesFirst
<1> HIDE DEF below, tail
<1>11. cleanParts(Joined(ps)) = ps
  <2>1. Dropping(Split(Joined(ps)), {<<>>, <<".">>}) = Dropping(ps, {<<>>, <<".">>})
    BY <1>2, DroppingSplitJoined
  <2>2. Dropping(ps, {<<>>, <<".">>}) = ps
    BY DroppingNone DEF CleanName
  <2> QED
    BY <2>1, <2>2 DEF cleanParts
<1>12. indexed = Join(ps \o below)
  <2>1. cleanParts(Joined(ps) \o Slash \o o) = cleanParts(Joined(ps)) \o cleanParts(o)
    BY <1>3, CleanPartsAre
  <2> QED
    BY <1>3, <1>5, <1>11, <2>1, CleanIsJoin DEF NormalizePath, below
<1>13. ps \o below \in Seq(Name)
  BY <1>10, NamesAre
<1>14. indexed = prefix \o tail
  <2>1. Joined(ps \o below) = Joined(ps) \o Joined(below)
    BY <1>2, <1>8, JoinedCat
  <2>2. PICK y \in Text, x \in Text, z \in Text : y = Slash /\ x = Joined(ps) /\ z = tail
    BY <1>3, <1>8, Slashes
  <2>3. x \o (y \o z) = (x \o y) \o z
    BY CatAssoc
  <2>4. Joined(ps) \o (Slash \o tail) = (Joined(ps) \o Slash) \o tail
    BY <2>2, <2>3
  <2> QED
    BY <1>3, <1>8, <1>10, <1>12, <2>1, <2>4 DEF Join
<1>15. indexed # dir
  <2>1. pathParts(indexed) = ps \o below
    BY <1>12, <1>13, JoinIs
  <2> QED
    BY <1>3, <1>10, <2>1
<1> HIDE DEF indexed
<1>16. IsPrefix(prefix, indexed) /\ TrimPrefix(indexed, prefix) = tail
  BY <1>3, <1>8, <1>14, TrimPrefixOfCat
<1>17. SyntheticEntries(dir, indexed) = {Join(Append(ps, n))}
  <2>1. Split(TrimPrefix(indexed, prefix))[1] = n
    BY <1>9, <1>10, <1>16
  <2>2. prefix = IF dir = Slash THEN Slash ELSE dir \o Slash
    BY DEF prefix, cacheDirPath
  <2> QED
    BY <1>1, <1>3, <1>15, <1>16, <2>1, <2>2 DEF SyntheticEntries
<1> QED
  BY <1>0, <1>17 DEF dir, indexed, prefix

LEMMA RootsAreTexts == \A prefix \in RootPrefixes : cleanPrefix(prefix) \in Text
<1> SUFFICES ASSUME NEW prefix \in RootPrefixes PROVE cleanPrefix(prefix) \in Text
  OBVIOUS
<1>1. prefix \in Seq(Char) /\ Len(prefix) \in Nat /\ DOMAIN prefix = 1 .. Len(prefix) /\ "/" \in Char
  BY SymbolsAssumption, LenProperties, Slashes
<1>2. \A i \in 1 .. Len(prefix) : prefix[i] \in Char
  BY <1>1, ElementOfSeq
<1> DEFINE s == [i \in 1 .. Len(prefix) |-> IF prefix[i] = "\\" THEN "/" ELSE prefix[i]]
<1>3. s \in Seq(Char)
  <2>1. s \in [1 .. Len(prefix) -> Char]
    BY <1>1, <1>2
  <2> QED
    BY <1>1, <2>1, SeqDef
<1>4. cleanPrefix(prefix) = Trim(s, "/")
  BY <1>1 DEF cleanPrefix
<1> HIDE DEF s
<1> QED
  BY <1>3, <1>4, TrimIs DEF Text

LEMMA ProperIsClean == \A w \in Part : Proper(w) => w \in CleanName
  BY DEF Proper, CleanName

LEMMA ListingsLeadTexts == text \in Text /\ other \in Text => ListingsLead
<1> SUFFICES ASSUME text \in Text, other \in Text, NEW prefix \in RootPrefixes, Proper(Split(other)[1])
             PROVE  LET root == cleanPrefix(prefix)
                        dir == NormalizePath(text)
                        key == keyForDir(root, dir) \o other
                        names == Split(other)
                    IN  /\ \E p \in ListEntries(root, dir, key) :
                             /\ ListEntries(root, dir, key) = {p} /\ NormalizePath(p) = p
                             /\ ParentDir(p) = dir
                             /\ IF Len(names) = 1 THEN keyForFile(root, p) = key
                                ELSE IsPrefix(keyForDir(root, p), key)
                        /\ Trim(names[1], " ") = names[1] =>
                             SyntheticEntries(dir, NormalizePath(sitePathFromKey(root, key))) = ListEntries(root, dir, key)
  BY DEF ListingsLead
<1>1. PICK root \in Text : root = cleanPrefix(prefix)
  BY RootsAreTexts
<1>2. PICK ps \in Seq(CleanName) : NormalizePath(text) = Join(ps)
  BY NormalizedIs, CleanIs, ZenonT(40)
<1>3. Split(other)[1] \in CleanName
  BY SplitFirst, ProperIsClean
<1> DEFINE dir == Join(ps)
           key == keyForDir(root, dir) \o other
           p == Join(Append(ps, Split(other)[1]))
<1>4. /\ ListEntries(root, dir, key) = {p}
      /\ IF Len(Split(other)) = 1 THEN keyForFile(root, p) = key ELSE IsPrefix(keyForDir(root, p), key)
      /\ sitePathFromKey(root, key) = cacheDirPath(dir) \o other
  BY <1>3, ListedIs
<1>5. NormalizePath(p) = p /\ ParentDir(p) = dir
  BY <1>3, EntryIs
<1>6. Trim(Split(other)[1], " ") = Split(other)[1] =>
        SyntheticEntries(dir, NormalizePath(cacheDirPath(dir) \o other)) = {p}
  BY <1>3, SyntheticIs
<1> HIDE DEF p, key, dir
<1>7. /\ \E q \in ListEntries(root, dir, key) :
           /\ ListEntries(root, dir, key) = {q} /\ NormalizePath(q) = q
           /\ ParentDir(q) = dir
           /\ IF Len(Split(other)) = 1 THEN keyForFile(root, q) = key ELSE IsPrefix(keyForDir(root, q), key)
      /\ Trim(Split(other)[1], " ") = Split(other)[1] =>
           SyntheticEntries(dir, NormalizePath(sitePathFromKey(root, key))) = ListEntries(root, dir, key)
  <2>1. p \in ListEntries(root, dir, key)
    BY <1>4
  <2> QED
    BY <1>4, <1>5, <1>6, <2>1
<1> QED
  BY <1>1, <1>2, <1>7 DEF dir, key

\* A listing leads to what it lists: for a key below a directory, the entry's path is
\* in normal form, its parent is the directory and it gives the key back; and the entry
\* made up for an indexed directory is the one the bucket would list (sitePathFromKey,
\* keyForFile, keyForDir, r2.go:77-112, 214-246; syntheticDirectoryEntries,
\* file_index.go:209-243).
THEOREM ListingsLeadOn == PathSpec => []ListingsLead
<1>1. PathTypeOK => ListingsLead
  BY ListingsLeadTexts DEF PathTypeOK
<1> QED
  BY <1>1, TextsAlways, PTL
=============================================================================
