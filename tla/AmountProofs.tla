---------------------------- MODULE AmountProofs ------------------------------
(***************************************************************************)
(* Lemmas about Amount: what a sum over a finite set is, when one member,  *)
(* or what one member counts, is added or taken away.                      *)
(***************************************************************************)
EXTENDS Amounts, FiniteSetTheorems, WellFoundedInduction, TLAPS

\* Finitely many members count finitely much.
LEMMA PiecesFinite ==
    ASSUME NEW f, NEW S, IsFiniteSet(S), \A i \in S : f[i] \in Nat
    PROVE  IsFiniteSet(Pieces(f, S)) /\ Amount(f, S) \in Nat
<1> DEFINE each == [i \in S |-> {i} \X (1 .. f[i])]
           all == {{i} \X (1 .. f[i]) : i \in S}
<1>1. each \in Surjection(S, all)
    BY DEF Surjection
<1>2. IsFiniteSet(all)
    BY <1>1, FS_Surjection
<1>3. ASSUME NEW T \in all PROVE IsFiniteSet(T)
    <2>1. PICK i \in S : T = {i} \X (1 .. f[i])
        OBVIOUS
    <2>2. IsFiniteSet({i}) /\ IsFiniteSet(1 .. f[i])
        <3>1. f[i] \in Int /\ 1 \in Int
            OBVIOUS
        <3>2. QED
            BY <3>1, FS_Singleton, FS_Interval
    <2>3. QED
        BY <2>1, <2>2, FS_Product
<1>4. IsFiniteSet(UNION all)
    <2> HIDE DEF all
    <2>1. QED
        BY <1>2, <1>3, FS_UNION
<1>5. QED
    BY <1>4, FS_CardinalityType DEF Pieces, Amount

\* The sum depends on the members alone.
LEMMA AmountSame ==
    ASSUME NEW f, NEW g, NEW S, \A i \in S : f[i] = g[i]
    PROVE  Amount(f, S) = Amount(g, S)
<1>1. Pieces(f, S) = Pieces(g, S)
    BY DEF Pieces
<1>2. QED
    BY <1>1 DEF Amount

\* One member more.
LEMMA AmountAdds ==
    ASSUME NEW f, NEW S, NEW x, IsFiniteSet(S), x \notin S, \A i \in S \cup {x} : f[i] \in Nat
    PROVE  Amount(f, S \cup {x}) = Amount(f, S) + f[x]
<1>0. f[x] \in Nat /\ f[x] \in Int /\ 1 \in Int
    OBVIOUS
<1>1. IsFiniteSet(Pieces(f, S)) /\ IsFiniteSet({x} \X (1 .. f[x]))
    <2>1. IsFiniteSet({x}) /\ IsFiniteSet(1 .. f[x])
        BY <1>0, FS_Singleton, FS_Interval
    <2>2. QED
        BY <2>1, PiecesFinite, FS_Product
<1>2. Cardinality({x} \X (1 .. f[x])) = f[x]
    <2>1. /\ IsFiniteSet({x}) /\ Cardinality({x}) = 1
          /\ IsFiniteSet(1 .. f[x]) /\ Cardinality(1 .. f[x]) = f[x]
        <3>1. IsFiniteSet(1 .. f[x]) /\ Cardinality(1 .. f[x]) = IF 1 > f[x] THEN 0 ELSE f[x] - 1 + 1
            BY <1>0, FS_Interval
        <3>2. Cardinality(1 .. f[x]) = f[x]
            BY <1>0, <3>1
        <3>3. QED
            BY <3>1, <3>2, FS_Singleton
    <2>2. Cardinality({x} \X (1 .. f[x])) = Cardinality({x}) * Cardinality(1 .. f[x])
        BY <2>1, FS_Product
    <2>3. QED
        BY <2>1, <2>2
<1>3. Pieces(f, S \cup {x}) = Pieces(f, S) \cup ({x} \X (1 .. f[x]))
    BY DEF Pieces
<1>4. Pieces(f, S) \cap ({x} \X (1 .. f[x])) = {}
    BY DEF Pieces
<1>5. Cardinality(Pieces(f, S) \cup ({x} \X (1 .. f[x]))) =
        Cardinality(Pieces(f, S)) + Cardinality({x} \X (1 .. f[x]))
            - Cardinality(Pieces(f, S) \cap ({x} \X (1 .. f[x])))
    BY <1>1, FS_Union
<1>6. Cardinality(Pieces(f, S) \cap ({x} \X (1 .. f[x]))) = 0
    BY <1>4, FS_EmptySet
<1>7. Cardinality(Pieces(f, S)) \in Nat /\ f[x] \in Nat
    BY PiecesFinite DEF Amount
<1>8. Amount(f, S \cup {x}) = Cardinality(Pieces(f, S)) + f[x] - 0
    BY <1>2, <1>3, <1>5, <1>6 DEF Amount
<1>9. QED
    BY <1>7, <1>8 DEF Amount

\* No member.
LEMMA AmountOfNone == ASSUME NEW f PROVE Amount(f, {}) = 0
<1>1. Pieces(f, {}) = {}
    BY DEF Pieces
<1>2. QED
    BY <1>1, FS_EmptySet DEF Amount

\* The same quantity n times over.
LEMMA AmountOfAlike ==
    ASSUME NEW f, NEW n \in Nat, NEW q \in Nat, \A i \in 1 .. n : f[i] = q
    PROVE  Amount(f, 1 .. n) = n * q
<1>1. Pieces(f, 1 .. n) = (1 .. n) \X (1 .. q)
    BY DEF Pieces
<1>2. /\ IsFiniteSet(1 .. n) /\ Cardinality(1 .. n) = n
      /\ IsFiniteSet(1 .. q) /\ Cardinality(1 .. q) = q
    BY FS_Interval
<1>3. QED
    BY <1>1, <1>2, FS_Product, ZenonT(40) DEF Amount

\* What one member counts.
LEMMA AmountOne == ASSUME NEW f, NEW x, f[x] \in Nat PROVE Amount(f, {x}) = f[x]
<1>1. IsFiniteSet({}) /\ {} \cup {x} = {x} /\ x \notin {} /\ \A i \in {} \cup {x} : f[i] \in Nat
    BY FS_EmptySet
<1>2. Amount(f, {} \cup {x}) = Amount(f, {}) + f[x]
    BY <1>1, AmountAdds
<1>3. QED
    BY <1>1, <1>2, AmountOfNone

\* n times the same quantity, wherever the n are.
LEMMA AmountOfSame ==
    ASSUME NEW f, NEW S, NEW q \in Nat, IsFiniteSet(S), \A i \in S : f[i] = q
    PROVE  Amount(f, S) = Cardinality(S) * q
<1>1. Pieces(f, S) = S \X (1 .. q)
    BY DEF Pieces
<1>2. IsFiniteSet(1 .. q) /\ Cardinality(1 .. q) = q
    BY FS_Interval
<1>3. QED
    BY <1>1, <1>2, FS_Product DEF Amount

\* No member counts more than all together.
LEMMA AmountAtLeast ==
    ASSUME NEW f, NEW S, NEW x \in S, IsFiniteSet(S), \A i \in S : f[i] \in Nat
    PROVE  f[x] <= Amount(f, S)
<1>1. IsFiniteSet(S \ {x}) /\ x \notin S \ {x} /\ (S \ {x}) \cup {x} = S
    BY FS_RemoveElement
<1>2. Amount(f, S) = Amount(f, S \ {x}) + f[x]
    <2> HIDE DEF Amount
    <2>1. Amount(f, (S \ {x}) \cup {x}) = Amount(f, S \ {x}) + f[x]
        BY <1>1, AmountAdds
    <2>2. QED
        BY <1>1, <2>1
<1>3. Amount(f, S \ {x}) \in Nat /\ f[x] \in Nat
    BY <1>1, PiecesFinite
<1>4. QED
    BY <1>2, <1>3

\* What two sets without a common member count together.
LEMMA AmountUnion ==
    ASSUME NEW f, NEW S, NEW T, IsFiniteSet(S), IsFiniteSet(T), S \cap T = {}, \A i \in S \cup T : f[i] \in Nat
    PROVE  Amount(f, S \cup T) = Amount(f, S) + Amount(f, T)
<1>1. /\ IsFiniteSet(Pieces(f, S)) /\ Cardinality(Pieces(f, S)) \in Nat
      /\ IsFiniteSet(Pieces(f, T)) /\ Cardinality(Pieces(f, T)) \in Nat
    BY PiecesFinite DEF Amount
<1>2. Pieces(f, S \cup T) = Pieces(f, S) \cup Pieces(f, T) /\ Pieces(f, S) \cap Pieces(f, T) = {}
    BY DEF Pieces
<1>3. Cardinality(Pieces(f, S) \cap Pieces(f, T)) = 0
    BY <1>2, FS_EmptySet
<1>4. Cardinality(Pieces(f, S) \cup Pieces(f, T)) =
        Cardinality(Pieces(f, S)) + Cardinality(Pieces(f, T)) - Cardinality(Pieces(f, S) \cap Pieces(f, T))
    BY <1>1, FS_Union
<1>5. QED
    BY <1>1, <1>2, <1>3, <1>4 DEF Amount

\* What is left when some members are taken away.
LEMMA AmountLess ==
    ASSUME NEW f, NEW S, NEW T, IsFiniteSet(S), T \subseteq S, \A i \in S : f[i] \in Nat
    PROVE  /\ Amount(f, S) = Amount(f, S \ T) + Amount(f, T)
           /\ Amount(f, S) \in Nat /\ Amount(f, T) \in Nat /\ Amount(f, S \ T) \in Nat
<1>1. T \in SUBSET S /\ S \ T \in SUBSET S
    OBVIOUS
<1>2. IsFiniteSet(T) /\ IsFiniteSet(S \ T) /\ (S \ T) \cap T = {} /\ (S \ T) \cup T = S
    BY <1>1, FS_Subset
<1>3. Amount(f, (S \ T) \cup T) = Amount(f, S \ T) + Amount(f, T)
    <2>1. \A i \in (S \ T) \cup T : f[i] \in Nat
        OBVIOUS
    <2>2. QED
        BY <1>2, <2>1, AmountUnion
<1>4. QED
    BY <1>2, <1>3, PiecesFinite

\* Whatever counts here counts at least as much there.
LEMMA AmountGrows ==
    ASSUME NEW f, NEW g, NEW S, NEW T, IsFiniteSet(S), IsFiniteSet(T), \A i \in T : g[i] \in Nat,
           \A i \in S : f[i] \in Nat /\ (f[i] > 0 => i \in T /\ f[i] <= g[i])
    PROVE  Amount(f, S) <= Amount(g, T) /\ Amount(f, S) \in Nat /\ Amount(g, T) \in Nat
<1>1. IsFiniteSet(Pieces(g, T)) /\ Amount(f, S) \in Nat /\ Amount(g, T) \in Nat
    BY PiecesFinite
<1>2. Pieces(f, S) \in SUBSET Pieces(g, T)
    <2>1. ASSUME NEW i \in S, NEW n \in 1 .. f[i] PROVE i \in T /\ n \in 1 .. g[i]
        OBVIOUS
    <2>2. QED
        BY <2>1 DEF Pieces
<1>3. QED
    BY <1>1, <1>2, FS_Subset DEF Amount

\* One member counts otherwise.
LEMMA AmountChanged ==
    ASSUME NEW f, NEW g, NEW S, NEW x \in S, IsFiniteSet(S), \A i \in S : f[i] \in Nat, g[x] \in Nat,
           \A i \in S \ {x} : g[i] = f[i]
    PROVE  Amount(g, S) + f[x] = Amount(f, S) + g[x] /\ Amount(g, S) \in Nat
<1>1. /\ Amount(f, S) = Amount(f, S \ {x}) + Amount(f, {x})
      /\ Amount(f, S) \in Nat /\ Amount(f, {x}) \in Nat /\ Amount(f, S \ {x}) \in Nat
    BY AmountLess
<1>2. \A i \in S : g[i] \in Nat
    OBVIOUS
<1>3. /\ Amount(g, S) = Amount(g, S \ {x}) + Amount(g, {x})
      /\ Amount(g, S) \in Nat /\ Amount(g, {x}) \in Nat /\ Amount(g, S \ {x}) \in Nat
    BY <1>2, AmountLess
<1>4. Amount(g, S \ {x}) = Amount(f, S \ {x})
    BY AmountSame
<1>5. Amount(f, {x}) = f[x] /\ Amount(g, {x}) = g[x]
    BY <1>2, AmountOne
<1>6. QED
    BY <1>1, <1>3, <1>4, <1>5

\* What fails for some number fails for a first one.
LEMMA FirstOf ==
    ASSUME NEW S, S \subseteq Nat, S # {}
    PROVE  \E x \in S : \A y \in S : x <= y
<1>1. PICK x \in S : \A y \in S : ~(<<y, x>> \in OpToRel(<, Nat))
    BY NatLessThanWellFounded, WFMin
<1>2. ASSUME NEW y \in S, y < x PROVE FALSE
    <2>1. <<y, x>> \in OpToRel(<, Nat)
        BY <1>2 DEF OpToRel
    <2>2. QED
        BY <1>1, <2>1
<1>3. QED
    BY <1>2

\* The first n of a sequence of quantities.
LEMMA AmountNext ==
    ASSUME NEW f, NEW n \in Nat \ {0}, \A k \in 1 .. n : f[k] \in Nat
    PROVE  /\ Amount(f, 1 .. n) = Amount(f, 1 .. n - 1) + f[n]
           /\ Amount(f, 1 .. n - 1) \in Nat /\ Amount(f, 1 .. n) \in Nat
<1>1. IsFiniteSet(1 .. n - 1) /\ IsFiniteSet(1 .. n)
    BY FS_Interval
<1>2. n \notin 1 .. n - 1 /\ (1 .. n - 1) \cup {n} = 1 .. n
    OBVIOUS
<1>3. Amount(f, (1 .. n - 1) \cup {n}) = Amount(f, 1 .. n - 1) + f[n]
    BY <1>1, <1>2, AmountAdds
<1>4. QED
    BY <1>1, <1>2, <1>3, PiecesFinite

\* Those that come first get what they ask for, as long as there is something left: together they
\* get all of it, or all they ask for.
LEMMA AmountShared ==
    ASSUME NEW f, NEW g, NEW n \in Nat, NEW q \in Nat, \A k \in 1 .. n : f[k] \in Nat,
           \A k \in 1 .. n :
             LET rest == q - Amount(f, 1 .. k - 1)
             IN  g[k] = IF rest <= 0 THEN 0 ELSE IF f[k] <= rest THEN f[k] ELSE rest
    PROVE  /\ \A k \in 1 .. n : g[k] \in Nat /\ g[k] <= f[k]
           /\ Amount(f, 1 .. n) \in Nat
           /\ Amount(g, 1 .. n) = IF q <= Amount(f, 1 .. n) THEN q ELSE Amount(f, 1 .. n)
<1> DEFINE All(k) == Amount(f, 1 .. k)
           Given(k) == Amount(g, 1 .. k)
           bad == {k \in 0 .. n : Given(k) # IF q <= All(k) THEN q ELSE All(k)}
<1>1. \A k \in 0 .. n : All(k) \in Nat
    <2>1. ASSUME NEW k \in 0 .. n PROVE All(k) \in Nat
        <3>1. IsFiniteSet(1 .. k) /\ \A i \in 1 .. k : f[i] \in Nat
            BY FS_Interval
        <3>2. QED
            BY <3>1, PiecesFinite
    <2>2. QED
        BY <2>1
<1>2. All(0) = 0 /\ Given(0) = 0
    <2>1. 1 .. 0 = {}
        OBVIOUS
    <2>2. QED
        BY <2>1, AmountOfNone
<1>3. \A k \in 1 .. n : All(k) = All(k - 1) + f[k]
    <2>1. ASSUME NEW k \in 1 .. n PROVE All(k) = All(k - 1) + f[k]
        <3>1. k \in Nat \ {0} /\ \A i \in 1 .. k : f[i] \in Nat
            OBVIOUS
        <3>2. QED
            BY <3>1, AmountNext
    <2>2. QED
        BY <2>1
<1>4. \A k \in 1 .. n :
        LET rest == q - All(k - 1)
        IN  g[k] = IF rest <= 0 THEN 0 ELSE IF f[k] <= rest THEN f[k] ELSE rest
    OBVIOUS
<1> HIDE DEF All
<1>5. \A k \in 1 .. n : g[k] \in Nat /\ g[k] <= f[k]
    <2>1. ASSUME NEW k \in 1 .. n PROVE g[k] \in Nat /\ g[k] <= f[k]
        <3>1. All(k - 1) \in Nat /\ f[k] \in Nat
            BY <1>1
        <3>2. QED
            BY <3>1, <1>4
    <2>2. QED
        BY <2>1
<1>6. \A k \in 1 .. n : Given(k) = Given(k - 1) + g[k]
    <2>1. ASSUME NEW k \in 1 .. n PROVE Given(k) = Given(k - 1) + g[k]
        <3>1. k \in Nat \ {0} /\ \A i \in 1 .. k : g[i] \in Nat
            BY <1>5
        <3>2. QED
            BY <3>1, AmountNext
    <2>2. QED
        BY <2>1
<1> HIDE DEF Given
<1>7. bad = {}
    <2> SUFFICES ASSUME bad # {} PROVE FALSE
        OBVIOUS
    <2>1. PICK k \in bad : \A m \in bad : k <= m
        <3>1. bad \subseteq Nat
            OBVIOUS
        <3> HIDE DEF bad
        <3>2. QED
            BY <3>1, FirstOf
    <2>2. k \in 1 .. n
        BY <1>2
    <2>3. k - 1 \in 0 .. n /\ k - 1 \notin bad
        BY <2>1, <2>2
    <2>4. Given(k - 1) = IF q <= All(k - 1) THEN q ELSE All(k - 1)
        BY <2>3
    <2>5. Given(k) = Given(k - 1) + g[k] /\ All(k) = All(k - 1) + f[k]
        BY <1>3, <1>6, <2>2
    <2>6. LET rest == q - All(k - 1)
          IN  g[k] = IF rest <= 0 THEN 0 ELSE IF f[k] <= rest THEN f[k] ELSE rest
        BY <1>4, <2>2
    <2>7. All(k - 1) \in Nat /\ f[k] \in Nat
        BY <1>1, <2>2, <2>3
    <2>8. Given(k) = IF q <= All(k) THEN q ELSE All(k)
        <3>1. CASE q <= All(k - 1)
            BY <3>1, <2>4, <2>5, <2>6, <2>7
        <3>2. CASE q > All(k - 1)
            BY <3>2, <2>4, <2>5, <2>6, <2>7
        <3>3. QED
            BY <2>7, <3>1, <3>2
    <2>9. QED
        BY <2>8
<1>8. n \in 0 .. n /\ n \notin bad
    BY <1>7
<1>9. QED
    BY <1>1, <1>5, <1>8 DEF All, Given

\* What is taken in turn is together what is missing at the end.
LEMMA AmountTaken ==
    ASSUME NEW left, NEW t, NEW n \in Nat, \A k \in 0 .. n : left[k] \in Nat,
           \A k \in 1 .. n : left[k] <= left[k - 1] /\ t[k] = left[k - 1] - left[k]
    PROVE  Amount(t, 1 .. n) = left[0] - left[n]
<1> DEFINE Given(k) == Amount(t, 1 .. k)
           bad == {k \in 0 .. n : Given(k) # left[0] - left[k]}
<1>1. Given(0) = 0
    <2>1. 1 .. 0 = {}
        OBVIOUS
    <2>2. QED
        BY <2>1, AmountOfNone
<1>2. \A k \in 1 .. n : left[k - 1] \in Nat /\ left[k] \in Nat /\ t[k] \in Nat
    OBVIOUS
<1>3. \A k \in 1 .. n : Given(k) = Given(k - 1) + t[k]
    <2>1. ASSUME NEW k \in 1 .. n PROVE Given(k) = Given(k - 1) + t[k]
        <3>1. k \in Nat \ {0} /\ \A i \in 1 .. k : t[i] \in Nat
            BY <1>2
        <3>2. QED
            BY <3>1, AmountNext
    <2>2. QED
        BY <2>1
<1> HIDE DEF Given
<1>4. bad = {}
    <2> SUFFICES ASSUME bad # {} PROVE FALSE
        OBVIOUS
    <2>1. PICK k \in bad : \A m \in bad : k <= m
        <3>1. bad \subseteq Nat
            OBVIOUS
        <3> HIDE DEF bad
        <3>2. QED
            BY <3>1, FirstOf
    <2>2. k \in 1 .. n
        <3>1. 0 \notin bad
            <4>1. left[0] \in Nat
                OBVIOUS
            <4>2. QED
                BY <1>1, <4>1
        <3>2. QED
            BY <2>1, <3>1
    <2>3. k - 1 \in 0 .. n /\ k - 1 \notin bad
        BY <2>1, <2>2
    <2>4. Given(k - 1) = left[0] - left[k - 1]
        BY <2>3
    <2>5. left[0] \in Nat /\ left[k - 1] \in Nat /\ left[k] \in Nat /\ t[k] = left[k - 1] - left[k]
        BY <2>2
    <2>6. Given(k) = left[0] - left[k]
        BY <1>3, <2>2, <2>4, <2>5
    <2>7. QED
        BY <2>6
<1>5. n \in 0 .. n /\ n \notin bad
    BY <1>4
<1>6. QED
    BY <1>5 DEF Given

\* h gives each member of S, which f counts, the name that g counts it under.
Renames(h, f, S, g, T) == h \in Bijection(S, T) /\ \A i \in S : f[i] = g[h[i]]

\* The sum is the same under other names.
LEMMA AmountRenamed ==
    ASSUME NEW S, NEW T, NEW f, NEW g, NEW h, Renames(h, f, S, g, T), IsFiniteSet(S), \A i \in S : f[i] \in Nat
    PROVE  Amount(f, S) = Amount(g, T)
<1>1. /\ h \in [S -> T]
      /\ \A i, j \in S : h[i] = h[j] => i = j
      /\ \A t \in T : \E i \in S : h[i] = t
      /\ \A i \in S : f[i] = g[h[i]]
    BY DEF Renames, Bijection, Injection, IsInjective, Surjection
<1> DEFINE F == Pieces(f, S)
           G == Pieces(g, T)
           b == [x \in F |-> <<h[x[1]], x[2]>>]
<1>2. \A x \in F : x = <<x[1], x[2]>> /\ x[1] \in S /\ x[2] \in 1 .. f[x[1]]
    BY DEF Pieces
<1>3. \A i \in S : \A n \in 1 .. f[i] : <<i, n>> \in F
    BY DEF Pieces
<1>4. \A y \in G : y = <<y[1], y[2]>> /\ y[1] \in T /\ y[2] \in 1 .. g[y[1]]
    BY DEF Pieces
<1>5. \A t \in T : \A n \in 1 .. g[t] : <<t, n>> \in G
    BY DEF Pieces
<1> HIDE DEF F, G
<1>6. b \in [F -> G]
    <2>1. ASSUME NEW x \in F PROVE <<h[x[1]], x[2]>> \in G
        <3>1. h[x[1]] \in T /\ x[2] \in 1 .. g[h[x[1]]]
            BY <1>1, <1>2
        <3>2. QED
            BY <1>5, <3>1
    <2>2. QED
        BY <2>1
<1>7. \A x, y \in F : b[x] = b[y] => x = y
    <2>1. ASSUME NEW x \in F, NEW y \in F, b[x] = b[y] PROVE x = y
        <3>1. h[x[1]] = h[y[1]] /\ x[2] = y[2]
            BY <2>1
        <3>2. x[1] = y[1]
            BY <1>1, <1>2, <3>1
        <3>3. QED
            BY <1>2, <3>1, <3>2
    <2>2. QED
        BY <2>1
<1>8. \A y \in G : \E x \in F : b[x] = y
    <2>1. ASSUME NEW y \in G PROVE \E x \in F : b[x] = y
        <3>1. y = <<y[1], y[2]>> /\ y[1] \in T /\ y[2] \in 1 .. g[y[1]]
            BY <1>4
        <3>2. PICK i \in S : h[i] = y[1]
            BY <1>1, <3>1
        <3>3. y[2] \in 1 .. f[i]
            BY <1>1, <3>1, <3>2
        <3>4. <<i, y[2]>> \in F
            BY <1>3, <3>2, <3>3
        <3>5. b[<<i, y[2]>>] = y
            BY <3>1, <3>2, <3>4
        <3>6. QED
            BY <3>4, <3>5
    <2>2. QED
        BY <2>1
<1>9. b \in Bijection(F, G)
    <2> HIDE DEF b
    <2>1. QED
        BY <1>6, <1>7, <1>8 DEF Bijection, Injection, IsInjective, Surjection
<1>10. ExistsBijection(F, G)
    <2> HIDE DEF b
    <2>1. QED
        BY <1>9 DEF ExistsBijection
<1>11. IsFiniteSet(F)
    BY PiecesFinite DEF F
<1>12. Cardinality(F) = Cardinality(G)
    BY <1>10, <1>11, FS_Bijection
<1>13. QED
    BY <1>12 DEF F, G, Amount

\* Numbers in increasing order, as many as there are, are all of them, each once.
LEMMA OrderIsBijection ==
    ASSUME NEW S, S \subseteq Int, IsFiniteSet(S), NEW of \in [1 .. Cardinality(S) -> S],
           \A k, m \in DOMAIN of : k < m => of[k] < of[m]
    PROVE  of \in Bijection(1 .. Cardinality(S), S)
<1>1. Cardinality(S) \in Nat
    BY FS_CardinalityType
<1>2. IsFiniteSet(1 .. Cardinality(S)) /\ Cardinality(1 .. Cardinality(S)) = Cardinality(S)
    BY <1>1, FS_Interval
<1>3. \A k, m \in 1 .. Cardinality(S) : of[k] = of[m] => k = m
    <2>1. ASSUME NEW k \in 1 .. Cardinality(S), NEW m \in 1 .. Cardinality(S), of[k] = of[m] PROVE k = m
        <3>1. k \in Int /\ m \in Int
            BY <1>1
        <3>2. of[k] \in Int /\ of[m] \in Int
            OBVIOUS
        <3>3. ~(k < m) /\ ~(m < k)
            BY <2>1, <3>1, <3>2
        <3>4. QED
            BY <3>1, <3>2, <3>3
    <2>2. QED
        BY <2>1
<1>4. of \in Injection(1 .. Cardinality(S), S)
    BY <1>3 DEF Injection, IsInjective
<1>5. of \in Surjection(1 .. Cardinality(S), S)
    BY <1>2, <1>4, FS_Injection
<1>6. QED
    BY <1>4, <1>5 DEF Bijection

\* Each is made up of two parts: so is the sum.
LEMMA AmountOfBoth ==
    ASSUME NEW S, NEW f, NEW g, NEW h, IsFiniteSet(S), \A i \in S : g[i] \in Nat /\ h[i] \in Nat /\ f[i] = g[i] + h[i]
    PROVE  Amount(f, S) = Amount(g, S) + Amount(h, S) /\ Amount(g, S) \in Nat /\ Amount(h, S) \in Nat
<1> DEFINE G == Pieces(g, S)
           H == Pieces(h, S)
           R == UNION {{i} \X (g[i] + 1 .. f[i]) : i \in S}
           b == [x \in R |-> <<x[1], x[2] - g[x[1]]>>]
<1>1. Pieces(f, S) = G \cup R /\ G \cap R = {}
    <2>1. \A i \in S : 1 .. f[i] = (1 .. g[i]) \cup (g[i] + 1 .. f[i])
        OBVIOUS
    <2>2. Pieces(f, S) = UNION {{i} \X ((1 .. g[i]) \cup (g[i] + 1 .. f[i])) : i \in S}
        BY <2>1 DEF Pieces
    <2>3. UNION {{i} \X ((1 .. g[i]) \cup (g[i] + 1 .. f[i])) : i \in S} = G \cup R
        BY DEF Pieces
    <2>4. \A i \in S : (1 .. g[i]) \cap (g[i] + 1 .. f[i]) = {}
        OBVIOUS
    <2>5. G \cap R = {}
        BY <2>4 DEF Pieces
    <2>6. QED
        BY <2>2, <2>3, <2>5
<1>2. /\ IsFiniteSet(G) /\ IsFiniteSet(H) /\ IsFiniteSet(Pieces(f, S))
      /\ Amount(g, S) \in Nat /\ Amount(h, S) \in Nat
    <2>1. \A i \in S : f[i] \in Nat
        OBVIOUS
    <2>2. QED
        BY <2>1, PiecesFinite
<1>3. IsFiniteSet(R)
    <2>1. R \subseteq Pieces(f, S)
        BY <1>1
    <2>2. QED
        BY <1>2, <2>1, FS_Subset
<1>4. \A x \in R : x = <<x[1], x[2]>> /\ x[1] \in S /\ x[2] \in g[x[1]] + 1 .. f[x[1]]
    OBVIOUS
<1>5. \A i \in S : \A n \in g[i] + 1 .. f[i] : <<i, n>> \in R
    OBVIOUS
<1>6. \A y \in H : y = <<y[1], y[2]>> /\ y[1] \in S /\ y[2] \in 1 .. h[y[1]]
    BY DEF Pieces
<1>7. \A i \in S : \A n \in 1 .. h[i] : <<i, n>> \in H
    BY DEF Pieces
<1> HIDE DEF G, H, R
<1>8. b \in [R -> H]
    <2>1. ASSUME NEW x \in R PROVE <<x[1], x[2] - g[x[1]]>> \in H
        <3>1. x[1] \in S /\ x[2] - g[x[1]] \in 1 .. h[x[1]]
            BY <1>4
        <3>2. QED
            BY <1>7, <3>1
    <2>2. QED
        BY <2>1
<1>9. \A x, y \in R : b[x] = b[y] => x = y
    <2>1. ASSUME NEW x \in R, NEW y \in R, b[x] = b[y] PROVE x = y
        <3>1. x[1] = y[1] /\ x[2] - g[x[1]] = y[2] - g[y[1]]
            BY <2>1
        <3>2. x[2] \in Int /\ y[2] \in Int /\ g[x[1]] \in Int
            BY <1>4
        <3>3. x[2] = y[2]
            BY <3>1, <3>2
        <3>4. QED
            BY <1>4, <3>1, <3>3
    <2>2. QED
        BY <2>1
<1>10. \A y \in H : \E x \in R : b[x] = y
    <2>1. ASSUME NEW y \in H PROVE \E x \in R : b[x] = y
        <3>1. PICK i, n : y = <<i, n>> /\ i \in S /\ n \in 1 .. h[i]
            BY <1>6
        <3>2. n + g[i] \in g[i] + 1 .. f[i] /\ (n + g[i]) - g[i] = n
            BY <3>1
        <3>3. <<i, n + g[i]>> \in R
            BY <1>5, <3>1, <3>2
        <3>4. b[<<i, n + g[i]>>] = y
            BY <3>1, <3>2, <3>3
        <3>5. QED
            BY <3>3, <3>4
    <2>2. QED
        BY <2>1
<1>11. ExistsBijection(R, H)
    <2> HIDE DEF b
    <2>1. b \in Bijection(R, H)
        BY <1>8, <1>9, <1>10 DEF Bijection, Injection, IsInjective, Surjection
    <2>2. QED
        BY <2>1 DEF ExistsBijection
<1>12. Cardinality(R) = Cardinality(H)
    BY <1>3, <1>11, FS_Bijection
<1>13. Cardinality(G \cup R) = Cardinality(G) + Cardinality(R)
    <2>1. Cardinality(G \cup R) = Cardinality(G) + Cardinality(R) - Cardinality(G \cap R)
        BY <1>2, <1>3, FS_Union
    <2>2. G \cap R = {} /\ Cardinality({}) = 0 /\ Cardinality(G) \in Nat /\ Cardinality(R) \in Nat
        BY <1>1, <1>2, <1>3, FS_EmptySet, FS_CardinalityType
    <2>3. Cardinality(G \cap R) = 0
        BY <2>2, Zenon
    <2>4. QED
        BY <2>1, <2>2, <2>3
<1>14. QED
    BY <1>1, <1>2, <1>12, <1>13 DEF Amount, G, H

===============================================================================
