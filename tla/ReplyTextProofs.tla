---------------------------- MODULE ReplyTextProofs ----------------------------
(***************************************************************************)
(* What the folds and the text operators of ReplyText compute, for every   *)
(* text.  The first part is about any fold: one is the CHOOSE of a function *)
(* that satisfies its recursion, so that such a function exists has to be   *)
(* shown first, and what it computes follows by induction.  The inductions  *)
(* are over sets, the elements that have the property, and come down to the *)
(* least element of a set of naturals.                                      *)
(***************************************************************************)
EXTENDS ReplyText, FiniteSetTheorems, SequenceTheorems, WellFoundedInduction, TLAPS

\* A set of naturals has a least one.
LEMMA LeastNat ==
    ASSUME NEW S, S \subseteq Nat, S # {}
    PROVE  \E m \in S : \A n \in S : m <= n
<1> DEFINE R == {ss \in Nat \X Nat : ss[1] < ss[2]}
<1>1. R = OpToRel(<, Nat)
    BY Zenon DEF OpToRel
<1>2. IsWellFoundedOn(R, Nat)
    BY NatLessThanWellFounded, <1>1, Zenon
<1>3. \A a, b \in Nat : <<a, b>> \in R <=> a < b
    OBVIOUS
<1> HIDE DEF R
<1>4. PICK m \in S : \A n \in S : <<n, m>> \notin R
    BY <1>2, WFMin
<1>5. \A n \in S : n \in Nat /\ m \in Nat /\ ~(n < m)
    BY <1>3, <1>4
<1> QED
    BY <1>5

\* A set of finite sets has one that includes none of the others.
LEMMA SmallestSet ==
    ASSUME NEW S, IsFiniteSet(S), NEW Z, Z \subseteq SUBSET S, Z # {}
    PROVE  \E m \in Z : \A n \in SUBSET m : n # m => n \notin Z
<1>1. \A x \in Z : IsFiniteSet(x) /\ Cardinality(x) \in Nat
    BY FS_Subset, FS_CardinalityType
<1> DEFINE C == {Cardinality(x) : x \in Z}
<1>2. C \subseteq Nat /\ C # {}
    BY <1>1
<1> HIDE DEF C
<1>3. PICK k \in C : \A n \in C : k <= n
    BY <1>2, LeastNat
<1>4. PICK m \in Z : Cardinality(m) = k
    BY <1>3 DEF C
<1>5. ASSUME NEW n \in SUBSET m, n # m, n \in Z PROVE FALSE
    <2>1. Cardinality(n) \in C
        BY <1>5 DEF C
    <2>2. /\ Cardinality(n) <= Cardinality(m)
          /\ Cardinality(m) = Cardinality(n) => m = n
        BY <1>1, <1>5, FS_Subset
    <2>3. k <= Cardinality(n) /\ Cardinality(n) \in Nat /\ k \in Nat
        BY <2>1, <1>3, <1>2
    <2> QED
        BY <1>5, <2>2, <2>3, <1>4
<1> QED
    BY <1>4, <1>5

\* pick takes an element of every subset of S but the empty one.
Picks(pick, S) == \A s \in SUBSET S : s # {} => pick[s] \in s

\* Every F[x] maps D to itself.
Steps(F, S, D) == \A x \in S, d \in D : F[x][d] \in D

\* g[s] is the fold of F over s, which starts with b and applies the element that
\* pick takes last.
Folds(g, S, b, pick, F) ==
    \A s \in SUBSET S : g[s] = IF s = {} THEN b ELSE F[pick[s]][g[s \ {pick[s]}]]

\* P has the empty set, and s when it has s without its picked element.
Grows(P, S, pick) ==
    {} \in P /\ \A s \in SUBSET S : s # {} /\ s \ {pick[s]} \in P => s \in P

\* There is a function that folds F over the subsets of S.
LEMMA FoldExists ==
    ASSUME NEW S, IsFiniteSet(S), NEW D, NEW b \in D,
           NEW pick, Picks(pick, S), NEW F, Steps(F, S, D)
    PROVE  \E g \in [SUBSET S -> D] : Folds(g, S, b, pick, F)
<1> USE DEF Picks, Steps
<1> DEFINE Upto(n) == {s \in SUBSET S : Cardinality(s) <= n}
           Fits(g, n) == \A s \in Upto(n) :
                             g[s] = IF s = {} THEN b ELSE F[pick[s]][g[s \ {pick[s]}]]
           Bad == {n \in Nat : ~ \E g \in [SUBSET S -> D] : Fits(g, n)}
<1>1. \A s \in SUBSET S : IsFiniteSet(s) /\ Cardinality(s) \in Nat
    BY FS_Subset, FS_CardinalityType
<1>2. 0 \notin Bad
    <2> DEFINE g == [s \in SUBSET S |-> b]
    <2>1. \A s \in Upto(0) : s = {}
        BY <1>1, FS_EmptySet
    <2>2. g \in [SUBSET S -> D] /\ Fits(g, 0)
        BY <2>1
    <2> QED
        BY <2>2
<1>3. ASSUME NEW n \in Nat, n \notin Bad PROVE n + 1 \notin Bad
    <2>1. PICK g \in [SUBSET S -> D] : Fits(g, n)
        BY <1>3
    <2> DEFINE h == [s \in SUBSET S |-> IF s \in Upto(n) THEN g[s]
                                        ELSE F[pick[s]][g[s \ {pick[s]}]]]
    <2>2. {} \in Upto(n)
        BY FS_EmptySet
    <2>3. h \in [SUBSET S -> D]
        BY <2>2
    <2>4. ASSUME NEW s \in Upto(n + 1), s # {}
          PROVE  s \ {pick[s]} \in Upto(n) 
        <3>1. Cardinality(s \ {pick[s]}) = Cardinality(s) - 1
            BY <1>1, <2>4, FS_RemoveElement
        <3> QED
            BY <1>1, <3>1
    <2>5. Fits(h, n + 1)
        <3> SUFFICES ASSUME NEW s \in Upto(n + 1)
                     PROVE  h[s] = IF s = {} THEN b ELSE F[pick[s]][h[s \ {pick[s]}]]
            OBVIOUS
        <3>1. CASE s = {}
            BY <3>1, <2>1, <2>2
        <3>2. CASE s # {}
            <4>1. h[s \ {pick[s]}] = g[s \ {pick[s]}]
                BY <2>4, <3>2
            <4>2. h[s] = F[pick[s]][g[s \ {pick[s]}]]
                BY <2>1, <3>2
            <4> QED
                BY <4>1, <4>2, <3>2
        <3> QED
            BY <3>1, <3>2
    <2> QED
        BY <2>3, <2>5
<1>4. Bad = {}
    <2> SUFFICES ASSUME Bad # {} PROVE FALSE
        OBVIOUS
    <2>0. Bad \subseteq Nat 
        OBVIOUS
    <2> HIDE DEF Bad
    <2>1. PICK n \in Bad : \A m \in Bad : n <= m
        BY <2>0, LeastNat
    <2>2. n # 0 /\ n - 1 \in Nat /\ n - 1 \notin Bad
        BY <1>2, <2>0, <2>1
    <2>3. (n - 1) + 1 \notin Bad
        BY <2>2, <1>3
    <2> QED
        BY <2>0, <2>3, <2>1
<1>5. PICK g \in [SUBSET S -> D] : Fits(g, Cardinality(S))
    BY <1>1, <1>4
<1>6. \A s \in SUBSET S : s \in Upto(Cardinality(S))
    BY FS_Subset
<1> QED
    BY <1>5, <1>6 DEF Folds

\* Induction over the naturals, for the set of the numbers that have a property.
LEMMA Induction ==
    ASSUME NEW P, 0 \in P, \A n \in Nat : n \in P => n + 1 \in P
    PROVE  Nat \subseteq P
<1> SUFFICES ASSUME Nat \ P # {} PROVE FALSE
    OBVIOUS
<1>1. PICK n \in Nat \ P : \A m \in Nat \ P : n <= m
    BY LeastNat
<1>2. n - 1 \in Nat /\ n - 1 \in P
    BY <1>1
<1>3. (n - 1) + 1 \in P
    BY <1>2
<1> QED
    BY <1>1, <1>3

\* Induction over the subsets of a finite set, one element at a time.
LEMMA SetInduction ==
    ASSUME NEW S, IsFiniteSet(S), NEW pick, Picks(pick, S), NEW P, Grows(P, S, pick)
    PROVE  SUBSET S \subseteq P
<1> USE DEF Picks, Grows
<1> DEFINE Z == (SUBSET S) \ P
<1> SUFFICES ASSUME Z # {} PROVE FALSE
    OBVIOUS
<1>1. PICK m \in Z : \A n \in SUBSET m : n # m => n \notin Z
    BY SmallestSet, Z \subseteq SUBSET S
<1>2. m # {} /\ m \in SUBSET S
    OBVIOUS
<1>3. m \ {pick[m]} \in P
    BY <1>1, <1>2
<1> QED
    BY <1>2, <1>3

\* The largest of finitely many positions.
LEMMA MaxOfPositions ==
    ASSUME NEW n \in Nat, NEW s \in SUBSET (1 .. n), s # {}
    PROVE  Max(s) \in s /\ \A i \in s : i <= Max(s)
<1> DEFINE Z == {n - i : i \in s}
<1>1. s # {} /\ \A i \in s : i \in Int /\ n - i \in Nat
    OBVIOUS
<1>2. Z \subseteq Nat /\ Z # {}
    BY <1>1
<1> HIDE DEF Z
<1>3. PICK k \in Z : \A j \in Z : k <= j
    BY <1>2, LeastNat
<1>4. PICK m \in s : k = n - m
    BY <1>3 DEF Z
<1>5. \A i \in s : m >= i
    <2> SUFFICES ASSUME NEW i \in s PROVE m >= i
        OBVIOUS
    <2>1. n - i \in Z
        BY DEF Z
    <2> QED
        BY <1>1, <1>3, <1>4, <2>1
<1>6. Max(s) \in s /\ \A i \in s : Max(s) >= i
    BY <1>5 DEF Max
<1> QED
    BY <1>1, <1>6

\* The smallest of some positions.
LEMMA MinOfPositions ==
    ASSUME NEW n \in Nat, NEW s \in SUBSET (1 .. n), s # {}
    PROVE  Min(s) \in s /\ \A i \in s : Min(s) <= i
<1>1. PICK m \in s : \A i \in s : m <= i
    BY LeastNat, s \subseteq Nat
<1>2. Min(s) \in s /\ \A i \in s : Min(s) <= i
    BY <1>1 DEF Min
<1> QED
    BY <1>2

\* The positions of a sequence, its last one, and the sequence without its last element.
LEMMA PositionsOf ==
    ASSUME NEW E, NEW t \in Seq(E)
    PROVE  /\ IsFiniteSet(DOMAIN t)
           /\ \A s \in SUBSET DOMAIN t : s # {} => Max(s) \in s
           /\ t # <<>> => /\ Front(t) \in Seq(E) /\ Len(Front(t)) = Len(t) - 1
                          /\ \A i \in DOMAIN Front(t) : Front(t)[i] = t[i]
                          /\ Last(t) = t[Len(t)] /\ Last(t) \in E
                          /\ DOMAIN t # {} /\ Max(DOMAIN t) = Len(t)
                          /\ DOMAIN t \ {Max(DOMAIN t)} = DOMAIN Front(t)
<1>1. DOMAIN t = 1 .. Len(t) /\ Len(t) \in Nat
    OBVIOUS
<1>2. IsFiniteSet(DOMAIN t)
    BY <1>1, FS_Interval
<1>3. \A s \in SUBSET DOMAIN t : s # {} => Max(s) \in s /\ \A i \in s : i <= Max(s)
    BY <1>1, MaxOfPositions
<1>4. ASSUME t # <<>>
      PROVE  /\ Front(t) \in Seq(E) /\ Len(Front(t)) = Len(t) - 1
             /\ DOMAIN Front(t) = 1 .. Len(t) - 1
             /\ Last(t) = t[Len(t)] /\ Last(t) \in E
             /\ Len(t) \in DOMAIN t
    <2>1. Len(t) \in 1 .. Len(t) /\ Len(t) - 1 \in Nat
        BY <1>1, <1>4
    <2>2. \A i \in 1 .. Len(t) - 1 : t[i] \in E
        BY <1>1
    <2>3. Front(t) \in Seq(E) /\ Len(Front(t)) = Len(t) - 1
        <3> DEFINE n == Len(t) - 1
        <3>1. n \in Nat /\ \A i \in 1 .. n : t[i] \in E
            BY <2>1, <2>2
        <3> HIDE DEF n
        <3>2. SubSeq(t, 1, n) \in Seq(E) /\ Len(SubSeq(t, 1, n)) = n
            BY <3>1
        <3> QED
            BY <3>2 DEF Front, n
    <2>4. DOMAIN Front(t) = 1 .. Len(t) - 1
        BY <2>3
    <2> QED
        BY <1>1, <2>1, <2>3, <2>4 DEF Last
<1>5. ASSUME t # <<>>, NEW i \in DOMAIN Front(t) PROVE Front(t)[i] = t[i]
    BY <1>4, <1>5, <1>1 DEF Front
<1>6. ASSUME t # <<>> PROVE Max(DOMAIN t) = Len(t)
    BY <1>1, <1>3, <1>4, <1>6
<1>7. ASSUME t # <<>> PROVE DOMAIN t \ {Max(DOMAIN t)} = DOMAIN Front(t)
    BY <1>1, <1>4, <1>6, <1>7
<1> QED
    BY <1>2, <1>3, <1>4, <1>5, <1>6, <1>7

\* g is the fold of F from the left, on every subset of the positions of t; and h
\* is it as far as its values are in D.
LeftFold(g, t, b, F) ==
    \A s \in SUBSET DOMAIN t : g[s] = IF s = {} THEN b ELSE F[t[Max(s)]][g[s \ {Max(s)}]]

FoldsLeft(h, t, b, F, D) ==
    /\ h[{}] = b
    /\ \A s \in SUBSET DOMAIN t :
           s # {} /\ h[s \ {Max(s)}] \in D => h[s] = F[t[Max(s)]][h[s \ {Max(s)}]]

\* There is a left fold of every sequence.
LEMMA LeftFoldExists ==
    ASSUME NEW E, NEW D, NEW b \in D, NEW F, Steps(F, E, D), NEW t \in Seq(E)
    PROVE  \E g \in [SUBSET DOMAIN t -> D] : LeftFold(g, t, b, F)
<1> DEFINE pos  == DOMAIN t
           pick == [s \in SUBSET pos |-> Max(s)]
           G    == [i \in pos |-> F[t[i]]]
<1>1. \A s \in SUBSET pos : pick[s] = Max(s) /\ (s # {} => Max(s) \in s)
    BY PositionsOf
<1>2. IsFiniteSet(pos) /\ Picks(pick, pos)
    BY <1>1, PositionsOf DEF Picks
<1>3. Steps(G, pos, D) /\ \A i \in pos : G[i] = F[t[i]]
    <2>1. \A i \in pos : t[i] \in E
        OBVIOUS
    <2> QED
        BY <2>1 DEF Steps
<1> HIDE DEF pick, pos, G
<1>4. PICK g \in [SUBSET pos -> D] : Folds(g, pos, b, pick, G)
    BY <1>2, <1>3, FoldExists
<1>5. ASSUME NEW s \in SUBSET pos
      PROVE  g[s] = IF s = {} THEN b ELSE F[t[Max(s)]][g[s \ {Max(s)}]]
    <2>1. pick[s] = Max(s) /\ (s # {} => G[Max(s)] = F[t[Max(s)]])
        BY <1>1, <1>3
    <2> QED
        BY <1>4, <2>1 DEF Folds
<1> QED
    BY <1>5 DEF pos, LeftFold

\* Its values are of the type of its steps.
LEMMA LeftFoldType ==
    ASSUME NEW E, NEW D, NEW b \in D, NEW F, Steps(F, E, D), NEW t \in Seq(E),
           NEW h, FoldsLeft(h, t, b, F, D)
    PROVE  /\ \A s \in SUBSET DOMAIN t : h[s] \in D
           /\ h[DOMAIN t] \in D
           /\ t = <<>> => h[DOMAIN t] = b
<1> DEFINE pos  == DOMAIN t
           pick == [s \in SUBSET pos |-> Max(s)]
           P    == {s \in SUBSET pos : h[s] \in D}
<1>1. \A s \in SUBSET pos : pick[s] = Max(s) /\ (s # {} => Max(s) \in s)
    BY PositionsOf
<1>2. IsFiniteSet(pos) /\ Picks(pick, pos)
    BY <1>1, PositionsOf DEF Picks
<1>3. \A i \in pos : t[i] \in E
    OBVIOUS
<1> HIDE DEF pick, pos
<1>4. Grows(P, pos, pick)
    BY <1>1, <1>3 DEF FoldsLeft, pos, Grows, Steps
<1> HIDE DEF P
<1>5. SUBSET pos \subseteq P
    BY <1>2, <1>4, SetInduction
<1>6. \A s \in SUBSET DOMAIN t : h[s] \in D
    BY <1>5 DEF P, pos
<1>7. t = <<>> => h[DOMAIN t] = b
    BY DEF FoldsLeft
<1> QED
    BY <1>6, <1>7

\* The fold of a sequence is one step from the fold of all but its last element.
LEMMA LeftFoldStep ==
    ASSUME NEW E, NEW D, NEW b \in D, NEW F, Steps(F, E, D), NEW t \in Seq(E), t # <<>>,
           NEW h, NEW k, FoldsLeft(h, t, b, F, D), FoldsLeft(k, Front(t), b, F, D)
    PROVE  h[DOMAIN t] = F[Last(t)][k[DOMAIN Front(t)]]
<1> DEFINE w    == Front(t)
           pos  == DOMAIN w
           pick == [s \in SUBSET pos |-> Max(s)]
           P    == {s \in SUBSET pos : h[s] = k[s]}
<1>1. w \in Seq(E) /\ pos \subseteq DOMAIN t /\ \A i \in pos : w[i] = t[i]
    BY PositionsOf
<1>2. \A s \in SUBSET pos : pick[s] = Max(s) /\ (s # {} => Max(s) \in s)
    BY <1>1, PositionsOf
<1>3. IsFiniteSet(pos) /\ Picks(pick, pos)
    BY <1>1, <1>2, PositionsOf DEF Picks
<1> HIDE DEF pick
<1>4. \A s \in SUBSET DOMAIN t : h[s] \in D
    BY LeftFoldType
<1>5. ASSUME NEW s \in SUBSET pos, s # {}, s \ {pick[s]} \in P
      PROVE  h[s] = k[s]
    <2>1. Max(s) \in s /\ s \in SUBSET DOMAIN t /\ pick[s] = Max(s)
        BY <1>1, <1>2, <1>5
    <2>2. h[s \ {Max(s)}] = k[s \ {Max(s)}] /\ h[s \ {Max(s)}] \in D
        BY <1>4, <1>5, <2>1
    <2>3. h[s] = F[t[Max(s)]][h[s \ {Max(s)}]] /\ k[s] = F[w[Max(s)]][k[s \ {Max(s)}]]
        BY <1>5, <2>1, <2>2 DEF FoldsLeft
    <2> QED
        BY <1>1, <2>1, <2>2, <2>3
<1>6. Grows(P, pos, pick)
    BY <1>5 DEF Grows, FoldsLeft
<1> HIDE DEF P, pos
<1>7. SUBSET pos \subseteq P
    BY <1>3, <1>6, SetInduction
<1>8. h[pos] = k[pos]
    BY <1>7 DEF P
<1>9. /\ Last(t) = t[Max(DOMAIN t)] /\ DOMAIN t # {}
      /\ DOMAIN t \ {Max(DOMAIN t)} = pos
    BY PositionsOf DEF pos
<1>10. pos \in SUBSET DOMAIN t
    BY <1>1
<1>11. h[DOMAIN t] = F[Last(t)][h[pos]]
    BY <1>4, <1>9, <1>10 DEF FoldsLeft
<1> QED
    BY <1>8, <1>11 DEF pos

\* fold[u] satisfies the recursion of a left fold of u, provided that some function
\* on the subsets of its positions does.
Unfolds(fold, E, D, b, F) ==
    \A u \in Seq(E) :
        (\E g \in [SUBSET DOMAIN u -> D] : LeftFold(g, u, b, F)) => FoldsLeft(fold[u], u, b, F, D)

\* What such a fold is of the empty sequence, and of one with a last element.
LEMMA LeftFoldValue ==
    ASSUME NEW E, NEW D, NEW b \in D, NEW F, Steps(F, E, D),
           NEW fold, Unfolds(fold, E, D, b, F), NEW t \in Seq(E)
    PROVE  /\ fold[t][DOMAIN t] \in D
           /\ t = <<>> => fold[t][DOMAIN t] = b
           /\ t # <<>> => fold[t][DOMAIN t] = F[Last(t)][fold[Front(t)][DOMAIN Front(t)]]
<1>1. ASSUME NEW u \in Seq(E) PROVE FoldsLeft(fold[u], u, b, F, D)
    <2>1. \E g \in [SUBSET DOMAIN u -> D] : LeftFold(g, u, b, F)
        BY LeftFoldExists
    <2> QED
        BY <2>1 DEF Unfolds
<1>2. FoldsLeft(fold[t], t, b, F, D)
    BY <1>1
<1>3. fold[t][DOMAIN t] \in D /\ (t = <<>> => fold[t][DOMAIN t] = b)
    BY <1>2, LeftFoldType
<1>4. ASSUME t # <<>>
      PROVE  fold[t][DOMAIN t] = F[Last(t)][fold[Front(t)][DOMAIN Front(t)]]
    <2>1. Front(t) \in Seq(E)
        BY <1>4, PositionsOf
    <2>2. FoldsLeft(fold[Front(t)], Front(t), b, F, D)
        BY <1>1, <2>1
    <2> QED
        BY <1>2, <1>4, <2>2, LeftFoldStep
<1> QED
    BY <1>3, <1>4

\* The prefixes of a sequence.
LEMMA PrefixFacts ==
    ASSUME NEW E, NEW t \in Seq(E), NEW n \in 1 .. Len(t)
    PROVE  /\ SubSeq(t, 1, n) \in Seq(E) /\ SubSeq(t, 1, n) # <<>>
           /\ Len(SubSeq(t, 1, n)) = n
           /\ Front(SubSeq(t, 1, n)) = SubSeq(t, 1, n - 1)
           /\ Last(SubSeq(t, 1, n)) = t[n]
<1> DEFINE u == SubSeq(t, 1, n)
           w == SubSeq(t, 1, n - 1)
<1> SUFFICES u \in Seq(E) /\ u # <<>> /\ Len(u) = n /\ Front(u) = w /\ Last(u) = t[n]
    OBVIOUS
<1>1. u \in Seq(E) /\ Len(u) = n /\ \A i \in 1 .. n : u[i] = t[i]
    OBVIOUS
<1>2. w \in Seq(E) /\ Len(w) = n - 1 /\ \A i \in 1 .. n - 1 : w[i] = t[i]
    OBVIOUS
<1> HIDE DEF u, w
<1>3. Front(u) \in Seq(E) /\ Len(Front(u)) = n - 1 /\ \A i \in 1 .. n - 1 : Front(u)[i] = u[i]
    BY <1>1 DEF Front
<1>4. Front(u) = w
    BY <1>1, <1>2, <1>3, SeqEqual
<1>5. Last(u) = t[n] /\ u # <<>>
    BY <1>1 DEF Last
<1> QED
    BY <1>1, <1>4, <1>5

----------------------------------------------------------------------------
\* The folds of ReplyText.

\* One token after the open brackets s.
Accept(s, c) == IF s # <<>> /\ Closes(Last(s), c) THEN Front(s) ELSE Append(s, c)

\* The brackets that are open after a text, token by token.
LEMMA OpenSteps ==
    ASSUME NEW t \in Seq(Tokens)
    PROVE  /\ Open(t) \in Seq(Tokens)
           /\ t = <<>> => Open(t) = <<>>
           /\ t # <<>> => Open(t) = Accept(Open(Front(t)), Last(t))
<1> DEFINE D == Seq(Tokens)
           b == <<>>
           F == [c \in Tokens |-> [s \in D |-> Accept(s, c)]]
           Made(u) == CHOOSE g : g = [s \in SUBSET DOMAIN u |->
                          IF s = {} THEN <<>> ELSE Accept(g[s \ {Max(s)}], u[Max(s)])]
           fold == [u \in Seq(Tokens) |-> Made(u)]
<1>1. \A c \in Tokens, s \in D : F[c][s] = Accept(s, c)
    OBVIOUS
<1>2. Steps(F, Tokens, D) /\ b \in D
    <2> SUFFICES ASSUME NEW c \in Tokens, NEW s \in D PROVE Accept(s, c) \in D
        BY <1>1 DEF Steps
    <2>1. s # <<>> => Front(s) \in D
        BY PositionsOf
    <2> QED
        BY <2>1 DEF Accept
<1> HIDE DEF F
<1>3. \A u \in Seq(Tokens) : Open(u) = fold[u][DOMAIN u]
    BY DEF Open, FoldLeft, MapThenFoldSet, Accept
<1>4. ASSUME NEW u \in Seq(Tokens), NEW g \in [SUBSET DOMAIN u -> D], LeftFold(g, u, b, F)
      PROVE  FoldsLeft(fold[u], u, b, F, D)
    <2>1. \A s \in SUBSET DOMAIN u : s # {} => u[Max(s)] \in Tokens
        <3>1. \A s \in SUBSET DOMAIN u : s # {} => Max(s) \in DOMAIN u
            BY PositionsOf
        <3> QED
            BY <3>1
    <2>2. \A s \in SUBSET DOMAIN u :
              g[s] = IF s = {} THEN <<>> ELSE Accept(g[s \ {Max(s)}], u[Max(s)])
        BY <1>1, <1>4, <2>1 DEF LeftFold
    <2>3. g = [s \in SUBSET DOMAIN u |->
                  IF s = {} THEN <<>> ELSE Accept(g[s \ {Max(s)}], u[Max(s)])]
        BY <2>2
    <2>4. Made(u) = [s \in SUBSET DOMAIN u |->
                  IF s = {} THEN <<>> ELSE Accept(Made(u)[s \ {Max(s)}], u[Max(s)])]
        BY <2>3
    <2> HIDE DEF Made
    <2> QED
        BY <1>1, <2>1, <2>4 DEF FoldsLeft
<1> HIDE DEF fold, D, b
<1>5. Unfolds(fold, Tokens, D, b, F)
    BY <1>4 DEF Unfolds
<1>6. /\ fold[t][DOMAIN t] \in D
      /\ t = <<>> => fold[t][DOMAIN t] = b
      /\ t # <<>> => fold[t][DOMAIN t] = F[Last(t)][fold[Front(t)][DOMAIN Front(t)]]
    BY <1>2, <1>5, LeftFoldValue
<1>7. ASSUME t # <<>> PROVE Open(t) = Accept(Open(Front(t)), Last(t))
    <2>1. Front(t) \in Seq(Tokens) /\ Last(t) \in Tokens
        BY <1>7, PositionsOf
    <2>2. fold[Front(t)][DOMAIN Front(t)] \in D
        BY <1>2, <1>5, <2>1, LeftFoldValue
    <2> QED
        BY <1>1, <1>3, <1>6, <1>7, <2>1, <2>2
<1> QED
    BY <1>3, <1>6, <1>7 DEF b, D

\* No bracket is open after no text.
LEMMA OpenOfNothing == Open(<<>>) = <<>>
<1>1. <<>> \in Seq(Tokens)
    OBVIOUS
<1> QED
    BY <1>1, OpenSteps

\* One token of a reply, when the fences are taken out.
Unfenced(s, c) == IF c = "fence" THEN s ELSE Append(s, c)

\* Without its fences a reply is a reply.
LEMMA StripFencesType ==
    ASSUME NEW t \in Seq(Tokens)
    PROVE  StripFences(t) \in Seq(Tokens)
<1> DEFINE D == Seq(Tokens)
           b == <<>>
           F == [c \in Tokens |-> [s \in D |-> Unfenced(s, c)]]
           Made(u) == CHOOSE g : g = [s \in SUBSET DOMAIN u |->
                          IF s = {} THEN <<>> ELSE Unfenced(g[s \ {Max(s)}], u[Max(s)])]
           fold == [u \in Seq(Tokens) |-> Made(u)]
<1>1. \A c \in Tokens, s \in D : F[c][s] = Unfenced(s, c)
    OBVIOUS
<1>2. Steps(F, Tokens, D) /\ b \in D
    <2> SUFFICES ASSUME NEW c \in Tokens, NEW s \in D PROVE Unfenced(s, c) \in D
        BY <1>1 DEF Steps
    <2> QED
        BY DEF Unfenced
<1> HIDE DEF F
<1>3. StripFences(t) = fold[t][DOMAIN t]
    BY DEF StripFences, FoldLeft, MapThenFoldSet, Unfenced
<1>4. ASSUME NEW u \in Seq(Tokens), NEW g \in [SUBSET DOMAIN u -> D], LeftFold(g, u, b, F)
      PROVE  FoldsLeft(fold[u], u, b, F, D)
    <2>1. \A s \in SUBSET DOMAIN u : s # {} => u[Max(s)] \in Tokens
        <3>1. \A s \in SUBSET DOMAIN u : s # {} => Max(s) \in DOMAIN u
            BY PositionsOf
        <3> QED
            BY <3>1
    <2>2. \A s \in SUBSET DOMAIN u :
              g[s] = IF s = {} THEN <<>> ELSE Unfenced(g[s \ {Max(s)}], u[Max(s)])
        BY <1>1, <1>4, <2>1 DEF LeftFold
    <2>3. g = [s \in SUBSET DOMAIN u |->
                  IF s = {} THEN <<>> ELSE Unfenced(g[s \ {Max(s)}], u[Max(s)])]
        BY <2>2
    <2>4. Made(u) = [s \in SUBSET DOMAIN u |->
                  IF s = {} THEN <<>> ELSE Unfenced(Made(u)[s \ {Max(s)}], u[Max(s)])]
        BY <2>3
    <2> HIDE DEF Made
    <2> QED
        BY <1>1, <2>1, <2>4 DEF FoldsLeft
<1> HIDE DEF fold, D, b
<1>5. Unfolds(fold, Tokens, D, b, F)
    BY <1>4 DEF Unfolds
<1>6. fold[t][DOMAIN t] \in D
    BY <1>2, <1>5, LeftFoldValue
<1> QED
    BY <1>3, <1>6 DEF D

\* One character of a text, when white space is collapsed.
Collapsed(s, c) ==
    IF c \notin White THEN Append(s, Lower[c])
    ELSE IF s = <<>> \/ Last(s) = Space THEN s
    ELSE Append(s, Space)

\* A collapsed text has characters and spaces.
LEMMA CollapseType ==
    ASSUME NEW t \in Seq(Chars)
    PROVE  Collapse(t) \in Seq(Chars \cup {Space})
<1> DEFINE D == Seq(Chars \cup {Space})
           b == <<>>
           F == [c \in Chars |-> [s \in D |-> Collapsed(s, c)]]
           Made(u) == CHOOSE g : g = [s \in SUBSET DOMAIN u |->
                          IF s = {} THEN <<>> ELSE Collapsed(g[s \ {Max(s)}], u[Max(s)])]
           fold == [u \in Seq(Chars) |-> Made(u)]
<1>1. \A c \in Chars, s \in D : F[c][s] = Collapsed(s, c)
    OBVIOUS
<1>2. Steps(F, Chars, D) /\ b \in D
    <2> SUFFICES ASSUME NEW c \in Chars, NEW s \in D PROVE Collapsed(s, c) \in D
        BY <1>1 DEF Steps
    <2> QED
        BY CharsAssumption DEF Collapsed
<1> HIDE DEF F
<1>3. Collapse(t) = fold[t][DOMAIN t]
    BY DEF Collapse, FoldLeft, MapThenFoldSet, Collapsed
<1>4. ASSUME NEW u \in Seq(Chars), NEW g \in [SUBSET DOMAIN u -> D], LeftFold(g, u, b, F)
      PROVE  FoldsLeft(fold[u], u, b, F, D)
    <2>1. \A s \in SUBSET DOMAIN u : s # {} => u[Max(s)] \in Chars
        <3>1. \A s \in SUBSET DOMAIN u : s # {} => Max(s) \in DOMAIN u
            BY PositionsOf
        <3> QED
            BY <3>1
    <2>2. \A s \in SUBSET DOMAIN u :
              g[s] = IF s = {} THEN <<>> ELSE Collapsed(g[s \ {Max(s)}], u[Max(s)])
        BY <1>1, <1>4, <2>1 DEF LeftFold
    <2>3. g = [s \in SUBSET DOMAIN u |->
                  IF s = {} THEN <<>> ELSE Collapsed(g[s \ {Max(s)}], u[Max(s)])]
        BY <2>2
    <2>4. Made(u) = [s \in SUBSET DOMAIN u |->
                  IF s = {} THEN <<>> ELSE Collapsed(Made(u)[s \ {Max(s)}], u[Max(s)])]
        BY <2>3
    <2> HIDE DEF Made
    <2> QED
        BY <1>1, <2>1, <2>4 DEF FoldsLeft
<1> HIDE DEF fold, D, b
<1>5. Unfolds(fold, Chars, D, b, F)
    BY <1>4 DEF Unfolds
<1>6. fold[t][DOMAIN t] \in D
    BY <1>2, <1>5, LeftFoldValue
<1> QED
    BY <1>3, <1>6 DEF D

\* A normalised text has a length: it is a sequence.
LEMMA NormalizeType ==
    ASSUME NEW t \in Seq(Chars)
    PROVE  Normalize(t) \in Seq(Chars \cup {Space})
<1> DEFINE s == Collapse(t)
<1>1. s \in Seq(Chars \cup {Space})
    BY CollapseType
<1> HIDE DEF s
<1>2. s # <<>> => Front(s) \in Seq(Chars \cup {Space})
    BY <1>1, PositionsOf
<1> QED
    BY <1>1, <1>2 DEF Normalize, s

\* Occurring in a text is transitive.
LEMMA InTextTransitive ==
    ASSUME NEW E, NEW r \in Seq(E), NEW s \in Seq(E), NEW t \in Seq(E),
           InText(r, s), InText(s, t)
    PROVE  InText(r, t)
<1>1. Len(r) \in Nat /\ Len(s) \in Nat /\ Len(t) \in Nat
    OBVIOUS
<1>2. PICK k \in 0 .. Len(s) - Len(r) : \A i \in 1 .. Len(r) : r[i] = s[k + i]
    BY DEF InText
<1>3. PICK j \in 0 .. Len(t) - Len(s) : \A i \in 1 .. Len(s) : s[i] = t[j + i]
    BY DEF InText
<1>4. j + k \in 0 .. Len(t) - Len(r)
    BY <1>1, <1>2, <1>3
<1>5. ASSUME NEW i \in 1 .. Len(r) PROVE r[i] = t[(j + k) + i]
    <2>1. k + i \in 1 .. Len(s)
        BY <1>1, <1>2
    <2>2. s[k + i] = t[j + (k + i)] /\ j + (k + i) = (j + k) + i
        BY <1>1, <1>3, <2>1
    <2> QED
        BY <1>2, <2>2
<1> QED
    BY <1>4, <1>5 DEF InText

----------------------------------------------------------------------------
\* JSON in a reply.

\* As long as a bracket of a JSON text is open, its first one is.
LEMMA FirstStaysOpen ==
    ASSUME NEW t \in Seq(Tokens), IsJson(t)
    PROVE  \A n \in 1 .. Len(t) - 1 :
               LET s == Open(SubSeq(t, 1, n)) IN s \in Seq(Tokens) /\ s # <<>> /\ s[1] = t[1]
<1> DEFINE s(n) == Open(SubSeq(t, 1, n))
           P == {n \in Nat : n + 1 < Len(t) => s(n + 1)[1] = t[1]}
<1>1. Len(t) \in Nat /\ Len(t) >= 1
    BY DEF IsJson
<1>2. ASSUME NEW n \in 1 .. Len(t)
      PROVE  s(n) \in Seq(Tokens) /\ s(n) = Accept(s(n - 1), t[n])
    <2> DEFINE u == SubSeq(t, 1, n)
    <2>1. /\ u \in Seq(Tokens) /\ u # <<>>
          /\ Front(u) = SubSeq(t, 1, n - 1) /\ Last(u) = t[n]
        BY PrefixFacts
    <2> HIDE DEF u
    <2>2. Open(u) \in Seq(Tokens) /\ Open(u) = Accept(Open(Front(u)), Last(u))
        BY <2>1, OpenSteps
    <2> QED
        BY <2>1, <2>2 DEF u
<1>3. \A n \in 1 .. Len(t) - 1 : s(n) # <<>>
    BY DEF IsJson
<1>4. s(0) = <<>>
    <2>1. SubSeq(t, 1, 0) = <<>>
        OBVIOUS
    <2> QED
        BY <2>1, OpenOfNothing
<1> HIDE DEF s
<1>5. 0 \in P
    <2>1. s(1) = Accept(s(0), t[1]) /\ t[1] \in Tokens
        BY <1>1, <1>2
    <2>2. s(1) = Append(<<>>, t[1])
        BY <2>1, <1>4 DEF Accept
    <2> QED
        BY <2>1, <2>2
<1>6. ASSUME NEW n \in Nat, n \in P PROVE n + 1 \in P
    <2> SUFFICES ASSUME n + 2 < Len(t) PROVE s(n + 2)[1] = t[1]
        OBVIOUS
    <2>1. n + 1 \in 1 .. Len(t) - 1 /\ n + 2 \in 1 .. Len(t) - 1
        BY <1>1
    <2>2. s(n + 1) \in Seq(Tokens) /\ s(n + 1) # <<>> /\ s(n + 1)[1] = t[1]
        BY <1>2, <1>3, <1>6, <2>1
    <2>3. s(n + 2) = Accept(s(n + 1), t[n + 2]) /\ s(n + 2) # <<>>
        BY <1>2, <1>3, <2>1
    <2> DEFINE open == s(n + 1)
    <2> HIDE DEF open
    <2>4. CASE s(n + 2) = Front(open)
        <3>1. Len(Front(open)) = Len(open) - 1 /\ Front(open) \in Seq(Tokens)
              /\ \A i \in DOMAIN Front(open) : Front(open)[i] = open[i]
            BY <2>2, PositionsOf DEF open
        <3>2. 1 \in DOMAIN Front(open)
            BY <2>3, <2>4, <3>1
        <3> QED
            BY <2>2, <2>4, <3>1, <3>2 DEF open
    <2>5. CASE s(n + 2) = Append(open, t[n + 2])
        BY <2>2, <2>5 DEF open
    <2> QED
        BY <2>3, <2>4, <2>5 DEF Accept, open
<1>7. Nat \subseteq P
    BY <1>5, <1>6, Induction
<1>8. ASSUME NEW n \in 1 .. Len(t) - 1 PROVE s(n)[1] = t[1]
    <2>1. n - 1 \in P
        BY <1>7
    <2> QED
        BY <1>1, <2>1
<1> QED
    BY <1>1, <1>2, <1>3, <1>8 DEF s

\* A JSON text ends with the bracket that closes its first one.
LEMMA JsonBorders ==
    ASSUME NEW t \in Seq(Tokens), IsJson(t)
    PROVE  /\ Len(t) >= 2
           /\ \/ t[1] = "{" /\ t[Len(t)] = "}"
              \/ t[1] = "[" /\ t[Len(t)] = "]"
<1> DEFINE w == Front(t)
           s == Open(w)
           c == t[Len(t)]
<1>1. t # <<>> /\ Len(t) \in Nat /\ Len(t) >= 1
    BY DEF IsJson
<1>2. /\ w = SubSeq(t, 1, Len(t) - 1) /\ w \in Seq(Tokens)
      /\ Last(t) = c /\ c \in Tokens
    BY <1>1, PositionsOf DEF Front
<1>3. <<>> = Accept(s, c) /\ s \in Seq(Tokens)
    BY <1>1, <1>2, OpenSteps DEF IsJson
<1>4. s # <<>> /\ Closes(Last(s), c) /\ Front(s) = <<>>
    BY <1>2, <1>3 DEF Accept
<1> HIDE DEF s, w, c
<1>5. Len(s) = 1 /\ Last(s) = s[1]
    <2>1. Len(Front(s)) = Len(s) - 1 /\ Last(s) = s[Len(s)] /\ Len(Front(s)) = 0
        BY <1>3, <1>4, PositionsOf
    <2>2. Len(s) \in Nat
        BY <1>3
    <2>3. Len(s) = 1
        BY <2>1, <2>2
    <2> QED
        BY <2>1, <2>3
<1>6. Len(t) # 1
    <2> SUFFICES ASSUME Len(t) = 1 PROVE FALSE
        OBVIOUS
    <2>1. w = <<>>
        BY <1>2
    <2> QED
        BY <1>4, <2>1, OpenOfNothing DEF s
<1>7. Len(t) \in Nat /\ Len(t) >= 2
    <2> DEFINE n == Len(t)
    <2>1. n \in Nat /\ n >= 1 /\ n # 1
        BY <1>1, <1>6
    <2> HIDE DEF n
    <2>2. n \in Nat /\ n >= 2
        BY <2>1
    <2> QED
        BY <2>2 DEF n
<1>8. s[1] = t[1]
    <2>1. Len(t) - 1 \in 1 .. Len(t) - 1
        BY <1>7
    <2>2. Open(SubSeq(t, 1, Len(t) - 1))[1] = t[1]
        BY <2>1, FirstStaysOpen
    <2> QED
        BY <1>2, <2>2 DEF s
<1>9. Closes(t[1], t[Len(t)])
    BY <1>4, <1>5, <1>8 DEF c
<1> QED
    BY <1>7, <1>9 DEF Closes

\* An object in a text starts with an opening and ends with a closing brace.
LEMMA ObjectBorders ==
    ASSUME NEW t \in Seq(Tokens), NEW i \in DOMAIN t, NEW j \in DOMAIN t, i < j,
           IsObject(SubSeq(t, i, j))
    PROVE  t[i] = "{" /\ t[j] = "}"
<1> DEFINE u == SubSeq(t, i, j)
<1>1. /\ u \in Seq(Tokens) /\ Len(u) = j - i + 1
      /\ u[1] = t[i] /\ u[Len(u)] = t[j]
    OBVIOUS
<1>2. IsJson(u) /\ u[1] = "{"
    BY DEF IsObject
<1> HIDE DEF u
<1>3. u[Len(u)] = "}"
    BY <1>1, <1>2, JsonBorders
<1> QED
    BY <1>1, <1>2, <1>3

\* The first and the last position of a token.
LEMMA BracesOf ==
    ASSUME NEW t \in Seq(Tokens), NEW c, NEW i \in 1 .. Len(t), t[i] = c
    PROVE  /\ \E a \in 1 .. Len(t) : /\ a = Min(Braces(t, c)) /\ t[a] = c /\ a <= i
                                     /\ \A k \in 1 .. a - 1 : t[k] # c
           /\ \E z \in 1 .. Len(t) : /\ z = Max(Braces(t, c)) /\ t[z] = c /\ i <= z
                                     /\ \A k \in z + 1 .. Len(t) : t[k] # c
<1> DEFINE s == Braces(t, c)
<1>1. DOMAIN t = 1 .. Len(t)
    OBVIOUS
<1>2. /\ s \in SUBSET (1 .. Len(t)) /\ s # {}
      /\ \A k \in 1 .. Len(t) : t[k] = c <=> k \in s
    BY <1>1 DEF Braces
<1>3. Len(t) \in Nat
    OBVIOUS
<1> HIDE DEF s
<1>4. PICK a \in s : a = Min(s) /\ \A k \in s : a <= k
    BY <1>2, <1>3, MinOfPositions
<1>5. PICK z \in s : z = Max(s) /\ \A k \in s : k <= z
    BY <1>2, <1>3, MaxOfPositions
<1>6. /\ a \in 1 .. Len(t) /\ t[a] = c
      /\ z \in 1 .. Len(t) /\ t[z] = c
      /\ \A k \in 1 .. Len(t) : t[k] = c => a <= k /\ k <= z
    BY <1>2, <1>4, <1>5
<1>7. /\ a <= i /\ \A k \in 1 .. a - 1 : t[k] # c
      /\ i <= z /\ \A k \in z + 1 .. Len(t) : t[k] # c
    BY <1>6
<1> QED
    BY <1>4, <1>5, <1>6, <1>7 DEF s

\* An object that no opening brace precedes and no closing brace follows.
Whole(t, i, j) ==
    /\ i < j /\ IsObject(SubSeq(t, i, j))
    /\ \A k \in 1 .. i - 1 : t[k] # "{"
    /\ \A k \in j + 1 .. Len(t) : t[k] # "}"

\* Such an object is what the regular expression finds ...
LEMMA WholeIsBlock ==
    ASSUME NEW t \in Seq(Tokens), NEW i \in 1 .. Len(t), NEW j \in 1 .. Len(t), Whole(t, i, j)
    PROVE  Block(t) = SubSeq(t, i, j)
<1>1. DOMAIN t = 1 .. Len(t)
    OBVIOUS
<1>2. i < j /\ t[i] = "{" /\ t[j] = "}"
    BY <1>1, ObjectBorders DEF Whole
<1>3. PICK a \in 1 .. Len(t) : a = Min(Braces(t, "{")) /\ t[a] = "{" /\ a <= i
    BY <1>2, BracesOf
<1>4. PICK z \in 1 .. Len(t) : z = Max(Braces(t, "}")) /\ t[z] = "}" /\ j <= z
    BY <1>2, BracesOf
<1>5. i \in Braces(t, "{") /\ j \in Braces(t, "}")
    BY <1>1, <1>2 DEF Braces
<1>6. a <= i /\ j <= z /\ ~(a \in 1 .. i - 1) /\ ~(z \in j + 1 .. Len(t))
    BY <1>3, <1>4 DEF Whole
<1>7. a = i /\ z = j
    BY <1>6
<1> QED
    BY <1>2, <1>3, <1>4, <1>5, <1>7 DEF Block

\* ... and what it finds, when it is an object, is such a one.
LEMMA BlockIsWhole ==
    ASSUME NEW t \in Seq(Tokens), IsObject(Block(t))
    PROVE  \E i, j \in 1 .. Len(t) : Whole(t, i, j) /\ Block(t) = SubSeq(t, i, j)
<1>1. DOMAIN t = 1 .. Len(t)
    OBVIOUS
<1>2. Block(t) # NoObject
    BY DEF IsObject, IsJson, NoObject
<1>3. \E i \in Braces(t, "{"), j \in Braces(t, "}") : i < j
    BY <1>2 DEF Block
<1>4. PICK i \in 1 .. Len(t), j \in 1 .. Len(t) : i < j /\ t[i] = "{" /\ t[j] = "}"
    BY <1>1, <1>3 DEF Braces
<1>5. PICK a \in 1 .. Len(t) : /\ a = Min(Braces(t, "{")) /\ t[a] = "{" /\ a <= i
                               /\ \A k \in 1 .. a - 1 : t[k] # "{"
    <2>1. t[i] = "{"
        BY <1>4
    <2> QED
        BY <2>1, BracesOf, Zenon
<1>6. PICK z \in 1 .. Len(t) : /\ z = Max(Braces(t, "}")) /\ t[z] = "}" /\ j <= z
                               /\ \A k \in z + 1 .. Len(t) : t[k] # "}"
    <2>1. t[j] = "}"
        BY <1>4
    <2> QED
        BY <2>1, BracesOf, Zenon
<1>7. Block(t) = SubSeq(t, a, z)
    BY <1>3, <1>5, <1>6 DEF Block
<1>8. i < j /\ a <= i /\ j <= z
    BY <1>4, <1>5, <1>6
<1>9. a < z
    BY <1>8
<1>10. Whole(t, a, z)
    BY <1>5, <1>6, <1>7, <1>9 DEF Whole
<1> QED
    BY <1>7, <1>10
================================================================================
