------------------------------- MODULE GlobProofs -------------------------------
(***************************************************************************)
(* Proofs about Glob.  The definitions recurse over the places of a text;  *)
(* what they compute is proved by induction over sets of numbers.          *)
(***************************************************************************)
EXTENDS Glob, Integers, SequenceTheorems, WellFoundedInduction, TLAPS

(* A nonempty set of numbers has a least one.                              *)
LEMMA LeastNumber ==
  ASSUME NEW T \in SUBSET Nat, T # {}
  PROVE  \E m \in T : \A n \in T : m <= n
<1>1. PICK m \in T : \A n \in T : ~(<<n, m>> \in OpToRel(<, Nat))
  BY WFMin, NatLessThanWellFounded
<1>2. \A n \in T : ~(n < m) /\ n \in Nat /\ m \in Nat
  BY <1>1 DEF OpToRel
<1>3. \A n \in T : m <= n
  BY <1>2
<1>4. QED
  BY <1>1, <1>3

(* A set of numbers that holds 0 and with each number the next one.        *)
LEMMA Induction ==
  ASSUME NEW T \in SUBSET Nat, 0 \in T, \A k \in T : k + 1 \in T
  PROVE  \A k \in Nat : k \in T
<1>1. SUFFICES ASSUME Nat \ T # {} PROVE FALSE
  OBVIOUS
<1>2. PICK m \in Nat \ T : \A n \in Nat \ T : m <= n
  BY <1>1, LeastNumber
<1>3. m # 0 /\ m - 1 \in Nat
  BY <1>2
<1>4. m - 1 \in T
  BY <1>2, <1>3
<1>5. QED
  BY <1>2, <1>3, <1>4

-----------------------------------------------------------------------------
(* The function Match defines recursively: for each place of the pattern   *)
(* the places of the name from which the rest is matched.                  *)
Texts == Seq(Nat)
Places(p, n, pathname) ==
  CHOOSE m : m = [i \in 1..Len(p) + 1 |-> MatchesAt(p, n, pathname, m, i)]

(* A place of the pattern looks at later places only.                      *)
LEMMA LaterPlaces ==
  ASSUME NEW p \in Texts, NEW n \in Texts, NEW pathname \in BOOLEAN,
         NEW i \in 1..Len(p) + 1, NEW m1, NEW m2,
         \A l \in i + 1..Len(p) + 1 : m1[l] = m2[l]
  PROVE  MatchesAt(p, n, pathname, m1, i) = MatchesAt(p, n, pathname, m2, i)
<1>1. CASE i > Len(p)
  BY <1>1 DEF MatchesAt
<1>2. CASE i <= Len(p)
  <2>1. m1[i + 1] = m2[i + 1]
    BY <1>2 DEF Texts
  <2>2. \A k \in i + 1..Len(p) : m1[k + 1] = m2[k + 1]
    BY <1>2 DEF Texts
  <2>3. \A j \in 1..Len(n) :
          Takes(p, n, pathname, m1, i, j) <=> Takes(p, n, pathname, m2, i, j)
    BY <2>1, <2>2 DEF Takes
  <2>4. QED
    BY <1>2, <2>1, <2>3 DEF MatchesAt, Texts
<1>3. QED
  BY <1>1, <1>2 DEF Texts

LEMMA PlacesExist ==
  ASSUME NEW p \in Texts, NEW n \in Texts, NEW pathname \in BOOLEAN
  PROVE  \E m : m = [i \in 1..Len(p) + 1 |-> MatchesAt(p, n, pathname, m, i)]
<1> DEFINE D == 1..Len(p) + 1
           At(m, i) == MatchesAt(p, n, pathname, m, i)
           Good(m, k) == \A i \in D : i + k > Len(p) + 1 => m[i] = At(m, i)
           J == SUBSET (1..Len(n) + 1)
           T == {k \in Nat : \E m \in [D -> J] : Good(m, k)}
<1>1. Len(p) \in Nat /\ Len(n) \in Nat
  BY DEF Texts
<1>2. ASSUME NEW m, NEW i \in D PROVE At(m, i) \in J
  BY <1>1 DEF MatchesAt
<1>3. ASSUME NEW i \in D, NEW m1, NEW m2, \A l \in i + 1..Len(p) + 1 : m1[l] = m2[l]
      PROVE  At(m1, i) = At(m2, i)
  <2>1. i \in 1..Len(p) + 1
    OBVIOUS
  <2>2. MatchesAt(p, n, pathname, m1, i) = MatchesAt(p, n, pathname, m2, i)
    BY <1>1, <1>3, <2>1, LaterPlaces
  <2>3. QED
    BY <2>2
<1> HIDE DEF At
<1>4. 0 \in T
  <2>1. [i \in D |-> {}] \in [D -> J]
    OBVIOUS
  <2>2. Good([i \in D |-> {}], 0)
    BY <1>1
  <2>3. QED
    BY <2>1, <2>2
<1>5. ASSUME NEW k \in T PROVE k + 1 \in T
  <2>1. PICK m \in [D -> J] : Good(m, k)
    BY <1>5
  <2> DEFINE new == Len(p) + 1 - k
  <2>2. CASE new < 1
    <3>1. Good(m, k + 1)
      BY <2>1, <2>2, <1>1
    <3>2. QED
      BY <2>1, <3>1
  <2>3. CASE new >= 1
    <3> DEFINE g == [m EXCEPT ![new] = At(m, new)]
    <3>1. new \in D /\ k \in Nat
      BY <1>1, <2>3
    <3>2. g \in [D -> J]
      BY <1>2, <2>1, <3>1
    <3>3. \A i \in D : g[i] = IF i = new THEN At(m, new) ELSE m[i]
      BY <2>1, <3>1
    <3> HIDE DEF g
    <3>4. \A i \in D : i >= new => At(g, i) = At(m, i)
      <4> SUFFICES ASSUME NEW i \in D, i >= new PROVE At(g, i) = At(m, i)
        OBVIOUS
      <4>1. \A l \in i + 1..Len(p) + 1 : g[l] = m[l]
        BY <1>1, <3>1, <3>3
      <4>2. QED
        BY <1>3, <4>1
    <3>5. Good(g, k + 1)
      <4> SUFFICES ASSUME NEW i \in D, i + (k + 1) > Len(p) + 1 PROVE g[i] = At(g, i)
        OBVIOUS
      <4>1. i >= new
        BY <1>1, <3>1
      <4>2. CASE i = new
        BY <3>1, <3>3, <3>4, <4>2
      <4>3. CASE i # new
        <5>1. i \in Nat /\ i > Len(p) + 1 - k
          BY <1>1, <3>1, <4>1, <4>3
        <5>2. i + k > Len(p) + 1
          BY <1>1, <3>1, <5>1
        <5>3. m[i] = At(m, i) /\ g[i] = m[i] /\ At(g, i) = At(m, i)
          BY <2>1, <3>3, <3>4, <4>1, <4>3, <5>2
        <5>4. QED
          BY <5>3
      <4>4. QED
        BY <4>2, <4>3
    <3>6. QED
      BY <3>1, <3>2, <3>5
  <2>4. new < 1 \/ new >= 1
    <3>1. k \in Nat
      OBVIOUS
    <3>2. QED
      BY <1>1, <3>1
  <2>5. QED
    BY <2>2, <2>3, <2>4
<1>6. Len(p) + 1 \in T
  <2> HIDE DEF T
  <2>1. T \in SUBSET Nat
    BY DEF T
  <2>2. QED
    BY <1>1, <1>4, <1>5, <2>1, Induction
<1>7. PICK m \in [D -> J] : Good(m, Len(p) + 1)
  BY <1>6
<1>8. \A i \in D : m[i] = At(m, i)
  BY <1>1, <1>7
<1>9. m = [i \in D |-> At(m, i)]
  BY <1>7, <1>8
<1>10. QED
  BY <1>9 DEF At

LEMMA PlacesFacts ==
  ASSUME NEW p \in Texts, NEW n \in Texts, NEW pathname \in BOOLEAN,
         NEW i \in 1..Len(p) + 1
  PROVE  /\ Places(p, n, pathname)[i] = MatchesAt(p, n, pathname, Places(p, n, pathname), i)
         /\ Places(p, n, pathname)[i] \subseteq 1..Len(n) + 1
<1> DEFINE m == Places(p, n, pathname)
<1>1. m = [l \in 1..Len(p) + 1 |-> MatchesAt(p, n, pathname, m, l)]
  BY PlacesExist DEF Places
<1> HIDE DEF m
<1>2. m[i] = MatchesAt(p, n, pathname, m, i)
  BY <1>1
<1>3. MatchesAt(p, n, pathname, m, i) \subseteq 1..Len(n) + 1
  BY DEF MatchesAt, Texts
<1>4. QED
  BY <1>2, <1>3 DEF m

LEMMA MatchIsFirstPlace ==
  ASSUME NEW pattern, NEW name, NEW pathname
  PROVE  Match(pattern, name, pathname)
           <=> 1 \in Places(SlashForm(pattern), SlashForm(name), pathname)[1]
BY DEF Match, Places

-----------------------------------------------------------------------------
(* The function Spelling defines: what the first tokens are spelled like.  *)
Spelled(tokens) ==
  CHOOSE s : s = [i \in 0..Len(tokens) |->
                    IF i = 0 THEN <<>> ELSE s[i - 1] \o tokens[i].spelling]

(* What is true of every token, whatever its kind.                         *)
IsToken(t) == /\ t.spelling \in Texts /\ t.spelling # <<>>
              /\ IsStar(t) \/ IsAny(t) \/ IsCharacter(t) \/ IsClass(t)

LEMMA Joined ==
  ASSUME NEW x \in Texts, NEW y \in Texts
  PROVE  /\ x \o y \in Texts
         /\ Len(x \o y) = Len(x) + Len(y)
         /\ Len(x) \in Nat /\ Len(y) \in Nat
         /\ \A l \in 1..Len(x) : (x \o y)[l] = x[l]
         /\ \A l \in 1..Len(y) : (x \o y)[Len(x) + l] = y[l]
BY DEF Texts

LEMMA SpelledFacts ==
  ASSUME NEW tokens, NEW T \in Nat, Len(tokens) = T,
         \A i \in 1..T : tokens[i].spelling \in Texts
  PROVE  /\ Spelled(tokens) \in [0..T -> Texts]
         /\ Spelled(tokens)[0] = <<>>
         /\ \A i \in 1..T : Spelled(tokens)[i] = Spelled(tokens)[i - 1] \o tokens[i].spelling
         /\ Spelling(tokens) = Spelled(tokens)[T]
<1> DEFINE Next(s, i) == IF i = 0 THEN <<>> ELSE s[i - 1] \o tokens[i].spelling
           Good(s, k) == \A i \in 0..T : i < k => s[i] = Next(s, i)
           K == {k \in Nat : \E s \in [0..T -> Texts] : Good(s, k)}
<1>1. 0 \in K
  <2>1. [i \in 0..T |-> <<>>] \in [0..T -> Texts]
    BY DEF Texts
  <2>2. Good([i \in 0..T |-> <<>>], 0)
    OBVIOUS
  <2>3. QED
    BY <2>1, <2>2
<1>2. ASSUME NEW k \in K PROVE k + 1 \in K
  <2>1. PICK s \in [0..T -> Texts] : Good(s, k)
    BY <1>2
  <2>2. k \in Nat
    OBVIOUS
  <2>3. CASE k > T
    BY <2>1, <2>2, <2>3
  <2>4. CASE k <= T
    <3> DEFINE g == [s EXCEPT ![k] = Next(s, k)]
    <3>1. Next(s, k) \in Texts
      BY <2>1, <2>2, <2>4 DEF Texts
    <3>2. g \in [0..T -> Texts]
      BY <2>1, <3>1
    <3>3. \A i \in 0..T : g[i] = IF i = k THEN Next(s, k) ELSE s[i]
      BY <2>1
    <3> HIDE DEF g
    <3>4. \A i \in 0..T : i <= k => Next(g, i) = Next(s, i)
      <4> SUFFICES ASSUME NEW i \in 0..T, i <= k PROVE Next(g, i) = Next(s, i)
        OBVIOUS
      <4>1. i = 0 \/ (i - 1 \in 0..T /\ i - 1 # k)
        BY <2>2
      <4>2. i = 0 \/ g[i - 1] = s[i - 1]
        BY <3>3, <4>1
      <4>3. QED
        BY <4>2
    <3> HIDE DEF Next
    <3>5. Good(g, k + 1)
      <4> SUFFICES ASSUME NEW i \in 0..T, i < k + 1 PROVE g[i] = Next(g, i)
        OBVIOUS
      <4>1. i <= k
        BY <2>2
      <4>2. CASE i = k
        BY <3>3, <3>4, <4>1, <4>2
      <4>3. CASE i # k
        <5>1. i < k
          BY <2>2, <4>1, <4>3
        <5>2. g[i] = s[i] /\ s[i] = Next(s, i) /\ Next(g, i) = Next(s, i)
          BY <2>1, <3>3, <3>4, <4>1, <4>3, <5>1
        <5>3. QED
          BY <5>2
      <4>4. QED
        BY <4>2, <4>3
    <3>6. QED
      BY <2>2, <3>2, <3>5
  <2>5. k > T \/ k <= T
    BY <2>2
  <2> HIDE DEF K, Good, Next
  <2>6. QED
    BY <2>3, <2>4, <2>5
<1>3. T + 1 \in K
  <2> HIDE DEF K
  <2>1. K \in SUBSET Nat
    BY DEF K
  <2>2. QED
    BY <1>1, <1>2, <2>1, Induction
<1>4. PICK s \in [0..T -> Texts] : Good(s, T + 1)
  BY <1>3
<1>5. s = [i \in 0..Len(tokens) |-> IF i = 0 THEN <<>> ELSE s[i - 1] \o tokens[i].spelling]
  BY <1>4
<1> DEFINE f == Spelled(tokens)
<1>6. f = [i \in 0..T |-> IF i = 0 THEN <<>> ELSE f[i - 1] \o tokens[i].spelling]
  BY <1>5 DEF Spelled
<1> HIDE DEF f
<1>7. f \in [0..T -> Texts]
  <2> DEFINE R == {i \in Nat : i <= T => f[i] \in Texts}
  <2>1. 0 \in R
    BY <1>6 DEF Texts
  <2>2. ASSUME NEW i \in R PROVE i + 1 \in R
    <3>1. CASE i + 1 <= T
      <4>1. f[i] \in Texts /\ tokens[i + 1].spelling \in Texts
        BY <2>2, <3>1
      <4>2. f[i + 1] = f[i] \o tokens[i + 1].spelling
        <5>1. i + 1 \in 0..T /\ i + 1 # 0 /\ (i + 1) - 1 = i
          BY <3>1
        <5>2. QED
          BY <1>6, <5>1
      <4>3. f[i] \o tokens[i + 1].spelling \in Texts
        BY ONLY <4>1, Joined
      <4>4. f[i + 1] \in Texts /\ i + 1 \in Nat
        BY <4>2, <4>3
      <4>5. QED
        BY <4>4
    <3>2. QED
      BY <3>1
  <2>3. \A i \in 0..T : f[i] \in Texts
    <3> HIDE DEF R
    <3>1. R \in SUBSET Nat
      BY DEF R
    <3>2. \A i \in Nat : i \in R
      BY <2>1, <2>2, <3>1, Induction
    <3>3. QED
      BY <3>2 DEF R
  <2>4. QED
    BY <1>6, <2>3
<1>8. Spelling(tokens) = f[T]
  BY DEF Spelling, Spelled, f
<1>9. f[0] = <<>> /\ \A i \in 1..T : f[i] = f[i - 1] \o tokens[i].spelling
  BY <1>6
<1>10. QED
  BY <1>7, <1>8, <1>9 DEF f

(* What a token is spelled like stands in the pattern from the end of the  *)
(* tokens before it.                                                       *)
LEMMA SpelledInPlace ==
  ASSUME NEW tokens, NEW T \in Nat, Len(tokens) = T,
         \A i \in 1..T : tokens[i].spelling \in Texts,
         NEW i \in 0..T
  PROVE  /\ Len(Spelled(tokens)[i]) <= Len(Spelling(tokens))
         /\ \A l \in 1..Len(Spelled(tokens)[i]) : Spelling(tokens)[l] = Spelled(tokens)[i][l]
<1> DEFINE s == Spelled(tokens)
           Starts(k) == /\ Len(s[i]) <= Len(s[k])
                        /\ \A l \in 1..Len(s[i]) : s[k][l] = s[i][l]
           K == {d \in Nat : i + d <= T => Starts(i + d)}
<1>1. /\ s \in [0..T -> Texts]
      /\ \A k \in 1..T : s[k] = s[k - 1] \o tokens[k].spelling
      /\ Spelling(tokens) = s[T]
  BY SpelledFacts
<1> HIDE DEF s
<1>2. 0 \in K
  BY <1>1 DEF Texts
<1>3. ASSUME NEW d \in K PROVE d + 1 \in K
  <2>1. d \in Nat
    OBVIOUS
  <2>2. CASE i + d + 1 <= T
    <3>1. Starts(i + d)
      BY <2>1, <2>2
    <3>2. s[i + d] \in Texts /\ s[i] \in Texts /\ tokens[i + d + 1].spelling \in Texts
      BY <1>1, <2>1, <2>2
    <3>3. s[i + d + 1] = s[i + d] \o tokens[i + d + 1].spelling
      <4>1. i + d + 1 \in 1..T /\ (i + d + 1) - 1 = i + d
        BY <2>1, <2>2
      <4>2. QED
        BY <1>1, <4>1
    <3>4. /\ Len(s[i + d + 1]) >= Len(s[i + d])
          /\ \A l \in 1..Len(s[i + d]) : s[i + d + 1][l] = s[i + d][l]
      <4> DEFINE x == s[i + d]
                 y == tokens[i + d + 1].spelling
      <4>1. x \in Texts /\ y \in Texts /\ s[i + d + 1] = x \o y
        BY <3>2, <3>3
      <4> HIDE DEF x, y
      <4>2. Len(x \o y) >= Len(x) /\ \A l \in 1..Len(x) : (x \o y)[l] = x[l]
        BY <4>1, Joined
      <4>3. QED
        BY <4>1, <4>2 DEF x
    <3>5. Len(s[i]) \in Nat /\ Len(s[i + d]) \in Nat /\ Len(s[i + d + 1]) \in Nat
      BY <3>2, <3>3, Joined DEF Texts
    <3>6. Starts(i + d + 1)
      BY <3>1, <3>4, <3>5
    <3>7. QED
      BY <2>1, <3>6
  <2>3. CASE i + d + 1 > T
    BY <2>1, <2>3
  <2>4. QED
    BY <2>1, <2>2, <2>3
<1>4. T - i \in K
  <2> HIDE DEF K
  <2>1. K \in SUBSET Nat
    BY DEF K
  <2>2. \A d \in Nat : d \in K
    BY <1>2, <1>3, <2>1, Induction
  <2>3. QED
    BY <2>2
<1>5. Starts(T)
  BY <1>4
<1>6. QED
  BY <1>1, <1>5 DEF s

(* Where the tokens stand: the i-th begins after the place Len(s[i - 1])   *)
(* and ends at the place Len(s[i]), where the next one begins.             *)
Standing(tokens, T, text, s) ==
  /\ text \in Texts /\ Len(s[0]) = 0 /\ Len(s[T]) = Len(text)
  /\ \A i \in 1..T :
       /\ Len(s[i - 1]) \in Nat
       /\ Len(s[i]) = Len(s[i - 1]) + Len(tokens[i].spelling)
       /\ Len(s[i]) <= Len(text)
       /\ \A l \in 1..Len(tokens[i].spelling) :
            text[Len(s[i - 1]) + l] = tokens[i].spelling[l]

LEMMA TokensInPlace ==
  ASSUME NEW tokens, NEW T \in Nat, Len(tokens) = T,
         \A i \in 1..T : tokens[i].spelling \in Texts /\ tokens[i].spelling # <<>>
  PROVE  Standing(tokens, T, Spelling(tokens), Spelled(tokens))
<1> DEFINE text == Spelling(tokens)
           s == Spelled(tokens)
<1>1. /\ s \in [0..T -> Texts] /\ s[0] = <<>> /\ text = s[T]
      /\ \A i \in 1..T : s[i] = s[i - 1] \o tokens[i].spelling
  BY SpelledFacts
<1>2. ASSUME NEW i \in 0..T
      PROVE  Len(s[i]) <= Len(text) /\ \A l \in 1..Len(s[i]) : text[l] = s[i][l]
  BY SpelledInPlace
<1> HIDE DEF text, s
<1>3. text \in Texts /\ Len(s[0]) = 0 /\ Len(s[T]) = Len(text)
  BY <1>1 DEF Texts
<1>4. ASSUME NEW i \in 1..T
      PROVE  /\ Len(s[i - 1]) \in Nat
             /\ Len(s[i]) = Len(s[i - 1]) + Len(tokens[i].spelling)
             /\ Len(s[i]) > Len(s[i - 1])
             /\ \A l \in 1..Len(tokens[i].spelling) :
                  s[i][Len(s[i - 1]) + l] = tokens[i].spelling[l]
  <2> DEFINE x == s[i - 1]
             y == tokens[i].spelling
  <2>1. i - 1 \in 0..T
    OBVIOUS
  <2>2. x \in Texts /\ y \in Texts /\ y # <<>> /\ s[i] = x \o y
    BY <1>1, <2>1
  <2> HIDE DEF x, y
  <2>3. Len(y) > 0
    BY <2>2 DEF Texts
  <2>4. /\ Len(x) \in Nat /\ Len(y) \in Nat /\ Len(x \o y) = Len(x) + Len(y)
        /\ \A l \in 1..Len(y) : (x \o y)[Len(x) + l] = y[l]
    BY <2>2, Joined
  <2>5. Len(s[i]) = Len(x) + Len(y) /\ \A l \in 1..Len(y) : s[i][Len(x) + l] = y[l]
    BY <2>2, <2>4
  <2>6. Len(s[i]) > Len(x)
    BY <2>3, <2>4, <2>5
  <2>7. QED
    BY <2>4, <2>5, <2>6 DEF x, y
<1>5. ASSUME NEW i \in 1..T, NEW l \in 1..Len(tokens[i].spelling)
      PROVE  text[Len(s[i - 1]) + l] = tokens[i].spelling[l]
  <2>1. Len(tokens[i].spelling) \in Nat
    BY DEF Texts
  <2>2. /\ Len(s[i - 1]) \in Nat
        /\ Len(s[i]) = Len(s[i - 1]) + Len(tokens[i].spelling)
        /\ s[i][Len(s[i - 1]) + l] = tokens[i].spelling[l]
    BY <1>4
  <2>3. Len(s[i - 1]) + l \in 1..Len(s[i])
    <3> DEFINE before == Len(s[i - 1])
               own == Len(tokens[i].spelling)
    <3>1. before \in Nat /\ own \in Nat /\ l \in 1..own /\ Len(s[i]) = before + own
      BY <2>1, <2>2
    <3> HIDE DEF before, own
    <3>2. before + l \in 1..before + own
      BY <3>1
    <3>3. QED
      BY <3>1, <3>2 DEF before
  <2>4. \A k \in 1..Len(s[i]) : text[k] = s[i][k]
    BY <1>2
  <2>5. QED
    BY <2>2, <2>3, <2>4
<1>7. \A i \in 1..T : Len(s[i]) <= Len(text)
  BY <1>2
<1>8. Standing(tokens, T, text, s)
  BY <1>3, <1>4, <1>5, <1>7 DEF Standing
<1>9. QED
  BY <1>8 DEF text, s

-----------------------------------------------------------------------------
(* Whether a token takes the part of the name between two places.          *)
PieceOK(t, name, pathname, from, to) ==
  LET piece == SubSeq(name, from + 1, to)
  IN /\ from <= to
     /\ pathname /\ t.wild => ~Occurs(Slash, piece)
     /\ ~t.star => Len(piece) = 1 /\ piece[1] \in t.chars

(* The tokens from the i-th on denote the name from place j on.            *)
RestDenotes(tokens, name, pathname, i, j) ==
  \E cut \in [i - 1..Len(tokens) -> 0..Len(name)] :
     /\ cut[i - 1] = j - 1 /\ cut[Len(tokens)] = Len(name)
     /\ \A l \in i..Len(tokens) : PieceOK(tokens[l], name, pathname, cut[l - 1], cut[l])

LEMMA WholeDenotes ==
  ASSUME NEW tokens, NEW T \in Nat, Len(tokens) = T, DOMAIN tokens = 1..T,
         NEW name \in Texts, NEW pathname
  PROVE  Denotes(tokens, name, pathname) <=> RestDenotes(tokens, name, pathname, 1, 1)
BY DEF Denotes, RestDenotes, PieceOK

LEMMA NothingLeft ==
  ASSUME NEW tokens, NEW T \in Nat, Len(tokens) = T, NEW name \in Texts, NEW pathname,
         NEW j \in 1..Len(name) + 1
  PROVE  RestDenotes(tokens, name, pathname, T + 1, j) <=> j = Len(name) + 1
<1>1. Len(name) \in Nat
  BY DEF Texts
<1>2. ASSUME j = Len(name) + 1 PROVE RestDenotes(tokens, name, pathname, T + 1, j)
  <2> DEFINE cut == [l \in T..T |-> Len(name)]
  <2>1. cut \in [(T + 1) - 1..T -> 0..Len(name)] /\ cut[(T + 1) - 1] = j - 1 /\ cut[T] = Len(name)
    BY <1>1, <1>2
  <2>2. \A l \in T + 1..T : PieceOK(tokens[l], name, pathname, cut[l - 1], cut[l])
    OBVIOUS
  <2> HIDE DEF cut
  <2>3. QED
    BY <2>1, <2>2 DEF RestDenotes
<1>3. ASSUME RestDenotes(tokens, name, pathname, T + 1, j) PROVE j = Len(name) + 1
  BY <1>1, <1>3 DEF RestDenotes
<1>4. QED
  BY <1>2, <1>3

(* The first token takes a piece, and the others what is left.             *)
LEMMA OneTokenOff ==
  ASSUME NEW tokens, NEW T \in Nat, Len(tokens) = T, NEW name \in Texts, NEW pathname,
         NEW i \in 1..T, NEW j \in 1..Len(name) + 1
  PROVE  RestDenotes(tokens, name, pathname, i, j)
           <=> \E k \in 1..Len(name) + 1 :
                 /\ PieceOK(tokens[i], name, pathname, j - 1, k - 1)
                 /\ RestDenotes(tokens, name, pathname, i + 1, k)
<1>1. Len(name) \in Nat
  BY DEF Texts
<1>2. ASSUME RestDenotes(tokens, name, pathname, i, j)
      PROVE  \E k \in 1..Len(name) + 1 :
                /\ PieceOK(tokens[i], name, pathname, j - 1, k - 1)
                /\ RestDenotes(tokens, name, pathname, i + 1, k)
  <2>1. PICK cut \in [i - 1..T -> 0..Len(name)] :
          /\ cut[i - 1] = j - 1 /\ cut[T] = Len(name)
          /\ \A l \in i..T : PieceOK(tokens[l], name, pathname, cut[l - 1], cut[l])
    BY <1>2 DEF RestDenotes
  <2> DEFINE k == cut[i] + 1
             rest == [l \in (i + 1) - 1..T |-> cut[l]]
  <2>2. cut[i] \in 0..Len(name) /\ k \in 1..Len(name) + 1 /\ k - 1 = cut[i]
    BY <1>1, <2>1
  <2>3. PieceOK(tokens[i], name, pathname, j - 1, k - 1)
    BY <2>1, <2>2
  <2>4. rest \in [(i + 1) - 1..T -> 0..Len(name)] /\ \A l \in i..T : rest[l] = cut[l]
    BY <2>1
  <2>5. \A l \in i + 1..T : PieceOK(tokens[l], name, pathname, rest[l - 1], rest[l])
    <3> SUFFICES ASSUME NEW l \in i + 1..T
                 PROVE  PieceOK(tokens[l], name, pathname, rest[l - 1], rest[l])
      OBVIOUS
    <3>1. rest[l - 1] = cut[l - 1] /\ rest[l] = cut[l] /\ l \in i..T
      BY <2>4
    <3> HIDE DEF rest
    <3>2. QED
      BY <2>1, <3>1
  <2>6. rest[(i + 1) - 1] = k - 1 /\ rest[T] = Len(name)
    BY <2>1, <2>2, <2>4
  <2> HIDE DEF rest, k
  <2>7. RestDenotes(tokens, name, pathname, i + 1, k)
    BY <2>4, <2>5, <2>6 DEF RestDenotes
  <2>8. QED
    BY <2>2, <2>3, <2>7
<1>3. ASSUME NEW k \in 1..Len(name) + 1,
             PieceOK(tokens[i], name, pathname, j - 1, k - 1),
             RestDenotes(tokens, name, pathname, i + 1, k)
      PROVE  RestDenotes(tokens, name, pathname, i, j)
  <2>1. PICK rest \in [(i + 1) - 1..T -> 0..Len(name)] :
          /\ rest[(i + 1) - 1] = k - 1 /\ rest[T] = Len(name)
          /\ \A l \in i + 1..T : PieceOK(tokens[l], name, pathname, rest[l - 1], rest[l])
    BY <1>3 DEF RestDenotes
  <2> DEFINE cut == [l \in i - 1..T |-> IF l = i - 1 THEN j - 1 ELSE rest[l]]
  <2>2. cut \in [i - 1..T -> 0..Len(name)]
    BY <1>1, <2>1
  <2>3. cut[i - 1] = j - 1 /\ \A l \in i..T : cut[l] = rest[l]
    OBVIOUS
  <2>4. rest[i] = k - 1
    BY <2>1
  <2> HIDE DEF cut
  <2>5. ASSUME NEW l \in i..T PROVE PieceOK(tokens[l], name, pathname, cut[l - 1], cut[l])
    <3>1. CASE l = i
      BY <1>3, <2>3, <2>4, <3>1
    <3>2. CASE l # i
      <4>1. l \in i + 1..T /\ l - 1 \in i..T
        BY <3>2
      <4>2. QED
        BY <2>1, <2>3, <4>1
    <3>3. QED
      BY <3>1, <3>2
  <2>6. cut[T] = Len(name)
    BY <2>1, <2>3
  <2>7. QED
    BY <2>2, <2>3, <2>5, <2>6 DEF RestDenotes
<1>4. QED
  BY <1>2, <1>3

-----------------------------------------------------------------------------
(* What a piece of the name has to be for each kind of token.              *)
LEMMA PieceFacts ==
  ASSUME NEW t, NEW name \in Texts, NEW pathname \in BOOLEAN,
         NEW from \in 0..Len(name), NEW to \in 0..Len(name)
  PROVE  PieceOK(t, name, pathname, from, to)
           <=> /\ from <= to
               /\ t.wild => Free(name, pathname, from + 1, to)
               /\ ~t.star => to = from + 1 /\ name[to] \in t.chars
<1> DEFINE piece == SubSeq(name, from + 1, to)
<1>1. Len(name) \in Nat /\ from \in Nat /\ to \in Nat
  BY DEF Texts
<1>2. from <= to => /\ piece \in Texts /\ Len(piece) = to - from
                    /\ \A l \in 1..to - from : piece[l] = name[from + l]
  <2> SUFFICES ASSUME from <= to
               PROVE  /\ piece \in Texts /\ Len(piece) = to - from
                      /\ \A l \in 1..to - from : piece[l] = name[from + l]
    OBVIOUS
  <2>1. from + 1 \in Int /\ to \in Int /\ from + 1 <= to + 1
        /\ \A l \in from + 1..to : name[l] \in Nat
    BY <1>1 DEF Texts
  <2>2. /\ piece \in Seq(Nat)
        /\ Len(piece) = IF from + 1 <= to THEN (to - (from + 1)) + 1 ELSE 0
        /\ \A l \in 1..(to - (from + 1)) + 1 : piece[l] = name[((from + 1) + l) - 1]
    BY <2>1, SubSeqProperties
  <2> HIDE DEF piece
  <2>3. (to - (from + 1)) + 1 = to - from /\ (from + 1 <= to \/ to - from = 0)
    BY <1>1
  <2>4. ASSUME NEW l \in 1..to - from PROVE piece[l] = name[from + l]
    <3>1. ((from + 1) + l) - 1 = from + l
      BY <1>1
    <3>2. QED
      BY <2>2, <2>3, <3>1
  <2>5. QED
    BY <2>2, <2>3, <2>4 DEF Texts
<1> HIDE DEF piece
<1>3. ASSUME from <= to
      PROVE  (pathname => ~Occurs(Slash, piece)) <=> Free(name, pathname, from + 1, to)
  <2>1. DOMAIN piece = 1..to - from
    BY <1>1, <1>2, <1>3 DEF Texts
  <2>2. (\A l \in 1..to - from : piece[l] # Slash) <=> (\A l \in from + 1..to : name[l] # Slash)
    <3>1. ASSUME NEW l \in from + 1..to
          PROVE  l - from \in 1..to - from /\ piece[l - from] = name[l]
      <4>1. l - from \in 1..to - from /\ from + (l - from) = l
        BY <1>1
      <4>2. piece[l - from] = name[from + (l - from)]
        BY <1>2, <1>3, <4>1
      <4>3. QED
        BY <4>1, <4>2
    <3>2. ASSUME NEW l \in 1..to - from PROVE from + l \in from + 1..to /\ piece[l] = name[from + l]
      BY <1>1, <1>2, <1>3
    <3>3. QED
      BY <3>1, <3>2
  <2>3. QED
    BY <2>1, <2>2 DEF Occurs, Free
<1>4. ASSUME from <= to
      PROVE  Len(piece) = 1 /\ piece[1] \in t.chars <=> to = from + 1 /\ name[to] \in t.chars
  <2>1. Len(piece) = 1 <=> to = from + 1
    <3>1. Len(piece) = to - from
      BY <1>2, <1>4
    <3>2. QED
      BY <1>1, <3>1
  <2>2. to = from + 1 => piece[1] = name[to]
    BY <1>1, <1>2
  <2>3. QED
    BY <2>1, <2>2
<1>5. QED
  BY <1>3, <1>4 DEF PieceOK, piece

(* The same between places of the name.                                    *)
LEMMA PieceBetween ==
  ASSUME NEW t, NEW n \in Texts, NEW pathname \in BOOLEAN,
         NEW j \in 1..Len(n) + 1, NEW k \in 1..Len(n) + 1
  PROVE  PieceOK(t, n, pathname, j - 1, k - 1)
           <=> /\ j <= k
               /\ t.wild => Free(n, pathname, j, k - 1)
               /\ ~t.star => k = j + 1 /\ n[j] \in t.chars
<1>1. Len(n) \in Nat
  BY DEF Texts
<1>2. PICK from \in 0..Len(n), to \in 0..Len(n) : from = j - 1 /\ to = k - 1
  BY <1>1
<1>3. PieceOK(t, n, pathname, from, to)
        <=> /\ from <= to
            /\ t.wild => Free(n, pathname, from + 1, to)
            /\ ~t.star => to = from + 1 /\ n[to] \in t.chars
  BY PieceFacts
<1>4. from + 1 = j /\ (from <= to <=> j <= k) /\ (to = from + 1 <=> k = j + 1)
  BY <1>1, <1>2
<1>5. to = from + 1 => to = j
  BY <1>4
<1>6. PieceOK(t, n, pathname, from, to)
        <=> /\ j <= k
            /\ t.wild => Free(n, pathname, j, to)
            /\ ~t.star => k = j + 1 /\ n[j] \in t.chars
  BY <1>3, <1>4, <1>5
<1>7. QED
  BY <1>2, <1>6

(* A star in the matcher and in what a pattern means.                      *)
LEMMA StarTakes ==
  ASSUME NEW p \in Texts, NEW n \in Texts, NEW pathname \in BOOLEAN,
         NEW place \in 1..Len(p), p[place] = Star,
         NEW t, IsStar(t), NEW j \in 1..Len(n) + 1
  PROVE  j \in Places(p, n, pathname)[place]
           <=> \E k \in Places(p, n, pathname)[place + 1] :
                 PieceOK(t, n, pathname, j - 1, k - 1)
<1> DEFINE m == Places(p, n, pathname)
<1>1. Len(p) \in Nat /\ Len(n) \in Nat
  BY DEF Texts
<1>2. m[place] = MatchesAt(p, n, pathname, m, place) /\ m[place + 1] \subseteq 1..Len(n) + 1
  BY <1>1, PlacesFacts
<1>3. m[Len(p) + 1] = {Len(n) + 1}
  <2>1. m[Len(p) + 1] = MatchesAt(p, n, pathname, m, Len(p) + 1)
    BY <1>1, PlacesFacts
  <2>2. QED
    BY <1>1, <2>1 DEF MatchesAt
<1> HIDE DEF m
<1>4. ASSUME NEW k \in 1..Len(n) + 1
      PROVE  PieceOK(t, n, pathname, j - 1, k - 1) <=> j <= k /\ Free(n, pathname, j, k - 1)
  BY PieceBetween DEF IsStar
<1>5. j \in m[place] <=> \E k \in m[place + 1] : j <= k /\ Free(n, pathname, j, k - 1)
  <2>1. CASE place = Len(p)
    <3>1. j \in m[place] <=> Free(n, pathname, j, Len(n))
      BY <1>1, <1>2, <2>1 DEF MatchesAt
    <3>2. (Len(n) + 1) - 1 = Len(n) /\ j <= Len(n) + 1
      BY <1>1
    <3>3. QED
      BY <1>3, <2>1, <3>1, <3>2
  <2>2. CASE place # Len(p)
    BY <1>1, <1>2, <2>2 DEF MatchesAt
  <2>3. QED
    BY <2>1, <2>2
<1>6. QED
  BY <1>2, <1>4, <1>5 DEF m

(* What is common to the other tokens: they take one character, and the    *)
(* matcher goes on after the token.                                        *)
LEMMA OneTakes ==
  ASSUME NEW p \in Texts, NEW n \in Texts, NEW pathname \in BOOLEAN,
         NEW place \in 1..Len(p), p[place] # Star, NEW next \in place + 1..Len(p) + 1,
         NEW t, ~t.star, NEW j \in 1..Len(n) + 1,
         LET m == Places(p, n, pathname)
         IN j <= Len(n) =>
              (Takes(p, n, pathname, m, place, j)
                 <=> /\ t.wild => Free(n, pathname, j, j)
                     /\ n[j] \in t.chars /\ j + 1 \in m[next])
  PROVE  j \in Places(p, n, pathname)[place]
           <=> \E k \in Places(p, n, pathname)[next] : PieceOK(t, n, pathname, j - 1, k - 1)
<1> DEFINE m == Places(p, n, pathname)
<1>1. Len(p) \in Nat /\ Len(n) \in Nat
  BY DEF Texts
<1>2. m[place] = MatchesAt(p, n, pathname, m, place) /\ m[next] \subseteq 1..Len(n) + 1
  BY <1>1, PlacesFacts
<1>3. j <= Len(n) => (Takes(p, n, pathname, m, place, j)
                       <=> /\ t.wild => Free(n, pathname, j, j)
                           /\ n[j] \in t.chars /\ j + 1 \in m[next])
  OBVIOUS
<1> HIDE DEF m
<1>4. ASSUME NEW k \in 1..Len(n) + 1
      PROVE  PieceOK(t, n, pathname, j - 1, k - 1)
               <=> /\ k = j + 1
                   /\ t.wild => Free(n, pathname, j, j)
                   /\ n[j] \in t.chars
  <2>1. k = j + 1 => j <= k /\ k - 1 = j
    BY <1>1
  <2>2. PieceOK(t, n, pathname, j - 1, k - 1)
          <=> /\ j <= k
              /\ t.wild => Free(n, pathname, j, k - 1)
              /\ k = j + 1 /\ n[j] \in t.chars
    <3>1. PieceOK(t, n, pathname, j - 1, k - 1)
            <=> /\ j <= k
                /\ t.wild => Free(n, pathname, j, k - 1)
                /\ ~t.star => k = j + 1 /\ n[j] \in t.chars
      BY PieceBetween
    <3>2. QED
      BY <3>1
  <2>3. CASE k = j + 1
    <3>1. Free(n, pathname, j, k - 1) <=> Free(n, pathname, j, j)
      BY <2>1, <2>3
    <3>2. QED
      BY <2>1, <2>2, <2>3, <3>1
  <2>4. CASE k # j + 1
    BY <2>2, <2>4
  <2>5. QED
    BY <2>3, <2>4
<1>5. j \in m[place] <=> j <= Len(n) /\ Takes(p, n, pathname, m, place, j)
  BY <1>1, <1>2 DEF MatchesAt
<1>6. j + 1 \in m[next] => j <= Len(n)
  BY <1>1, <1>2
<1>7. (\E k \in m[next] : PieceOK(t, n, pathname, j - 1, k - 1))
        <=> /\ t.wild => Free(n, pathname, j, j)
            /\ n[j] \in t.chars /\ j + 1 \in m[next]
  <2>1. ASSUME NEW k \in m[next], PieceOK(t, n, pathname, j - 1, k - 1)
        PROVE  /\ t.wild => Free(n, pathname, j, j)
               /\ n[j] \in t.chars /\ j + 1 \in m[next]
    BY <1>2, <1>4, <2>1
  <2>2. ASSUME t.wild => Free(n, pathname, j, j), n[j] \in t.chars, j + 1 \in m[next]
        PROVE  PieceOK(t, n, pathname, j - 1, (j + 1) - 1)
    <3>1. j + 1 \in 1..Len(n) + 1
      BY <1>2, <2>2
    <3>2. QED
      BY <1>4, <2>2, <3>1
  <2>3. QED
    BY <2>1, <2>2
<1>8. QED
  BY <1>3, <1>5, <1>6, <1>7 DEF m

-----------------------------------------------------------------------------
(* A class is closed at one place.                                         *)
LEMMA ClosesOnce ==
  ASSUME NEW p \in Texts, NEW i \in Nat, NEW k, NEW l, Closes(p, i, k), Closes(p, i, l)
  PROVE  k = l
<1>1. /\ k \in i + 1..Len(p) /\ p[k] = Close /\ \A x \in i + 1..k - 1 : p[x] # Close
      /\ l \in i + 1..Len(p) /\ p[l] = Close /\ \A x \in i + 1..l - 1 : p[x] # Close
  BY DEF Closes
<1>2. Len(p) \in Nat
  BY DEF Texts
<1>3. ~(k < l) /\ ~(l < k)
  BY <1>1, <1>2
<1>4. QED
  BY <1>1, <1>2, <1>3

(* Stretch l of the text stands in the pattern after place before.         *)
StandsAt(text, p, before) ==
  /\ before + Len(text) <= Len(p)
  /\ \A l \in 1..Len(text) : p[before + l] = text[l]

LEMMA ClassInPlace ==
  ASSUME NEW p \in Texts, NEW text \in Texts, NEW before \in Nat, StandsAt(text, p, before),
         Len(text) > 1, Closes(text, 1, Len(text))
  PROVE  /\ Closes(p, before + 1, before + Len(text))
         /\ SubSeq(p, before + 2, before + Len(text) - 1) = SubSeq(text, 2, Len(text) - 1)
<1> DEFINE L == Len(text)
<1>1. L \in Nat /\ Len(p) \in Nat /\ before + L <= Len(p) /\ L > 1
  BY DEF Texts, StandsAt
<1>2. \A l \in 1..L : p[before + l] = text[l]
  BY DEF StandsAt
<1>3. text[L] = Close /\ \A l \in 2..L - 1 : text[l] # Close
  BY DEF Closes
<1> HIDE DEF L
<1>4. ASSUME NEW x \in before + 2..before + L - 1 PROVE p[x] # Close
  <2>1. PICK l \in 2..L - 1 : x = before + l
    <3>1. x - before \in 2..L - 1 /\ x = before + (x - before)
      BY <1>1
    <3>2. QED
      BY <3>1
  <2>2. l \in 1..L
    BY <1>1
  <2>3. QED
    BY <1>2, <1>3, <2>1, <2>2
<1>5. /\ before + L \in (before + 1) + 1..Len(p) /\ L \in 1..L
      /\ (before + 1) + 1 = before + 2
  BY <1>1
<1>6. Closes(p, before + 1, before + L)
  BY <1>2, <1>3, <1>4, <1>5 DEF Closes
<1> DEFINE x == SubSeq(p, before + 2, before + L - 1)
           y == SubSeq(text, 2, L - 1)
<1>7. x \in Texts /\ Len(x) = L - 2 /\ \A l \in 1..L - 2 : x[l] = p[before + 1 + l]
  BY <1>1 DEF Texts
<1>8. y \in Texts /\ Len(y) = L - 2 /\ \A l \in 1..L - 2 : y[l] = text[1 + l]
  <2>1. PICK k \in Nat : k = Len(text) /\ k > 1
    BY <1>1 DEF L
  <2> DEFINE z == SubSeq(text, 2, k - 1)
  <2>2. 2 \in Int /\ k - 1 \in Int /\ \A l \in 2..k - 1 : text[l] \in Nat
    BY <2>1 DEF Texts
  <2>3. /\ z \in Seq(Nat) /\ Len(z) = IF 2 <= k - 1 THEN (k - 1) - 2 + 1 ELSE 0
        /\ \A l \in 1..(k - 1) - 2 + 1 : z[l] = text[2 + l - 1]
    BY <2>2, SubSeqProperties
  <2> HIDE DEF z
  <2>4. Len(z) = k - 2
    BY <2>1, <2>3
  <2>5. ASSUME NEW l \in 1..k - 2 PROVE z[l] = text[1 + l]
    <3>1. l \in 1..(k - 1) - 2 + 1 /\ 2 + l - 1 = 1 + l
      BY <2>1
    <3>2. QED
      BY <2>3, <3>1
  <2>6. k = L /\ z = y
    BY <2>1 DEF L, z
  <2>7. QED
    BY <2>3, <2>4, <2>5, <2>6 DEF Texts
<1>9. ASSUME NEW l \in 1..L - 2 PROVE p[before + 1 + l] = text[1 + l]
  <2>1. 1 + l \in 1..L /\ before + (1 + l) = before + 1 + l
    BY <1>1
  <2>2. QED
    BY <1>2, <2>1
<1> HIDE DEF x, y
<1>10. x = y
  <2>1. \A l \in 1..L - 2 : x[l] = y[l]
    BY <1>7, <1>8, <1>9
  <2>2. QED
    BY <1>7, <1>8, <2>1, SeqEqual DEF Texts
<1>11. QED
  BY <1>6, <1>10 DEF x, y, L

-----------------------------------------------------------------------------
(* The function MatchClass defines recursively: what a class lists from    *)
(* each of its places on.                                                  *)
ListedChars(text) ==
  CHOOSE c : c = [i \in 1..Len(text) + 1 |-> ListedAt(text, c, i)]

LEMMA ListedCharsExist ==
  ASSUME NEW text \in Texts
  PROVE  \E c : c = [i \in 1..Len(text) + 1 |-> ListedAt(text, c, i)]
<1> DEFINE D == 1..Len(text) + 1
           At(c, i) == ListedAt(text, c, i)
           Good(c, k) == \A i \in D : i + k > Len(text) + 1 => c[i] = At(c, i)
           J == SUBSET Int
           T == {k \in Nat : \E c \in [D -> J] : Good(c, k)}
<1>1. Len(text) \in Nat /\ \A i \in 1..Len(text) : text[i] \in Nat
  BY DEF Texts
<1>2. ASSUME NEW c \in [D -> J], NEW i \in D PROVE At(c, i) \in J
  <2>1. CASE i > Len(text)
    BY <2>1 DEF ListedAt
  <2>2. CASE i <= Len(text) /\ i + 2 <= Len(text)
    <3>1. i \in 1..Len(text) /\ i + 1 \in D /\ i + 2 \in 1..Len(text) /\ i + 3 \in D
      BY <1>1, <2>2
    <3>2. c[i + 1] \subseteq Int /\ c[i + 3] \subseteq Int /\ text[i] \in Nat
          /\ text[i + 2] \in Nat
      BY <1>1, <3>1
    <3>3. text[i]..text[i + 2] \subseteq Int
      BY <3>2
    <3>4. QED
      BY <2>2, <3>2, <3>3 DEF ListedAt
  <2>3. CASE i <= Len(text) /\ ~(i + 2 <= Len(text))
    <3>1. i \in 1..Len(text) /\ i + 1 \in D
      BY <1>1, <2>3
    <3>2. c[i + 1] \subseteq Int /\ text[i] \in Nat
      BY <1>1, <3>1
    <3>3. QED
      BY <2>3, <3>2 DEF ListedAt
  <2>4. QED
    BY <1>1, <2>1, <2>2, <2>3
<1>3. ASSUME NEW i \in D, NEW c1, NEW c2, \A l \in i + 1..Len(text) + 1 : c1[l] = c2[l]
      PROVE  At(c1, i) = At(c2, i)
  <2>1. CASE i > Len(text)
    BY <2>1 DEF ListedAt
  <2>2. CASE i <= Len(text)
    <3>1. i + 1 \in i + 1..Len(text) + 1
      BY <1>1, <2>2
    <3>2. i + 2 <= Len(text) => i + 3 \in i + 1..Len(text) + 1
      BY <1>1, <2>2
    <3>3. c1[i + 1] = c2[i + 1] /\ (i + 2 <= Len(text) => c1[i + 3] = c2[i + 3])
      BY <1>3, <3>1, <3>2
    <3>4. QED
      BY <2>2, <3>3 DEF ListedAt
  <2>3. QED
    BY <1>1, <2>1, <2>2
<1> HIDE DEF At
<1>4. 0 \in T
  <2>1. [i \in D |-> {}] \in [D -> J]
    OBVIOUS
  <2>2. Good([i \in D |-> {}], 0)
    BY <1>1
  <2>3. QED
    BY <2>1, <2>2
<1>5. ASSUME NEW k \in T PROVE k + 1 \in T
  <2>1. PICK c \in [D -> J] : Good(c, k)
    BY <1>5
  <2> DEFINE new == Len(text) + 1 - k
  <2>2. CASE new < 1
    <3>1. Good(c, k + 1)
      BY <2>1, <2>2, <1>1
    <3>2. QED
      BY <2>1, <3>1
  <2>3. CASE new >= 1
    <3> DEFINE g == [c EXCEPT ![new] = At(c, new)]
    <3>1. new \in D /\ k \in Nat
      BY <1>1, <2>3
    <3>2. g \in [D -> J]
      BY <1>2, <2>1, <3>1
    <3>3. \A i \in D : g[i] = IF i = new THEN At(c, new) ELSE c[i]
      BY <2>1, <3>1
    <3> HIDE DEF g
    <3>4. \A i \in D : i >= new => At(g, i) = At(c, i)
      <4> SUFFICES ASSUME NEW i \in D, i >= new PROVE At(g, i) = At(c, i)
        OBVIOUS
      <4>1. \A l \in i + 1..Len(text) + 1 : g[l] = c[l]
        BY <1>1, <3>1, <3>3
      <4>2. QED
        BY <1>3, <4>1
    <3>5. Good(g, k + 1)
      <4> SUFFICES ASSUME NEW i \in D, i + (k + 1) > Len(text) + 1 PROVE g[i] = At(g, i)
        OBVIOUS
      <4>1. i >= new
        BY <1>1, <3>1
      <4>2. CASE i = new
        BY <3>1, <3>3, <3>4, <4>2
      <4>3. CASE i # new
        <5>1. i \in Nat /\ i > Len(text) + 1 - k
          BY <1>1, <3>1, <4>1, <4>3
        <5>2. i + k > Len(text) + 1
          BY <1>1, <3>1, <5>1
        <5>3. c[i] = At(c, i) /\ g[i] = c[i] /\ At(g, i) = At(c, i)
          BY <2>1, <3>3, <3>4, <4>1, <4>3, <5>2
        <5>4. QED
          BY <5>3
      <4>4. QED
        BY <4>2, <4>3
    <3>6. QED
      BY <3>1, <3>2, <3>5
  <2>4. new < 1 \/ new >= 1
    <3>1. k \in Nat
      OBVIOUS
    <3>2. QED
      BY <1>1, <3>1
  <2>5. QED
    BY <2>2, <2>3, <2>4
<1>6. Len(text) + 1 \in T
  <2> HIDE DEF T
  <2>1. T \in SUBSET Nat
    BY DEF T
  <2>2. QED
    BY <1>1, <1>4, <1>5, <2>1, Induction
<1>7. PICK c \in [D -> J] : Good(c, Len(text) + 1)
  BY <1>6
<1>8. \A i \in D : c[i] = At(c, i)
  BY <1>1, <1>7
<1>9. c = [i \in D |-> At(c, i)]
  BY <1>7, <1>8
<1>10. QED
  BY <1>9 DEF At

LEMMA ItemIsSpelled ==
  ASSUME NEW x, IsAlone(x) \/ IsSpan(x)
  PROVE  Len(x.spelling) \in Nat \ {0} /\ x.spelling # <<>>
<1>1. Len(x.spelling) \in {1, 3}
  BY DEF IsAlone, IsSpan
<1>2. Len(<<>>) = 0
  OBVIOUS
<1>3. QED
  BY <1>1, <1>2

(* What a class lists from an item on is what the item lists and what is   *)
(* listed from the next item on.                                           *)
LEMMA OneItemOff ==
  ASSUME NEW text \in Texts, NEW x, IsAlone(x) \/ IsSpan(x), x.spelling \in Texts,
         NEW before \in Nat, StandsAt(x.spelling, text, before),
         IsAlone(x) => before + 3 > Len(text) \/ text[before + 2] # Dash
  PROVE  ListedChars(text)[before + 1]
           = x.chars \cup ListedChars(text)[before + Len(x.spelling) + 1]
<1> DEFINE c == ListedChars(text)
           i == before + 1
<1>1. c = [l \in 1..Len(text) + 1 |-> ListedAt(text, c, l)]
  BY ListedCharsExist DEF ListedChars
<1> HIDE DEF c
<1>2. /\ Len(text) \in Nat /\ Len(x.spelling) \in 1..3
      /\ before + Len(x.spelling) <= Len(text)
      /\ \A l \in 1..Len(x.spelling) : text[before + l] = x.spelling[l]
  BY DEF Texts, StandsAt, IsAlone, IsSpan
<1>3. i \in 1..Len(text) /\ ~(i > Len(text))
  <2>1. PICK L \in 1..3 : before + L <= Len(text)
    BY <1>2
  <2>2. QED
    BY <1>2, <2>1
<1>4. c[i] = ListedAt(text, c, i)
  BY <1>1, <1>3
<1>5. CASE IsSpan(x)
  <2>1. Len(x.spelling) = 3 /\ x.spelling[2] = Dash /\ x.chars = x.spelling[1]..x.spelling[3]
    BY <1>5 DEF IsSpan
  <2>2. text[i] = x.spelling[1] /\ text[i + 1] = Dash /\ text[i + 2] = x.spelling[3]
    <3>1. i + 1 = before + 2 /\ i + 2 = before + 3
      OBVIOUS
    <3>2. QED
      BY <1>2, <2>1, <3>1
  <2>3. i + 2 <= Len(text) /\ i + 3 = before + 3 + 1
    BY <1>2, <2>1
  <2>4. QED
    BY <1>3, <1>4, <2>1, <2>2, <2>3 DEF ListedAt, c
<1>6. CASE IsAlone(x)
  <2>1. Len(x.spelling) = 1 /\ x.chars = {x.spelling[1]}
    BY <1>6 DEF IsAlone
  <2>2. text[i] = x.spelling[1]
    BY <1>2, <2>1
  <2>3. ~(i + 2 <= Len(text) /\ text[i + 1] = Dash)
    <3>1. i + 1 = before + 2 /\ i + 2 = before + 3
      OBVIOUS
    <3>2. QED
      BY <1>2, <1>6, <3>1
  <2>4. QED
    BY <1>3, <1>4, <2>1, <2>2, <2>3 DEF ListedAt, c
<1>7. QED
  BY <1>5, <1>6

(* MatchClass reads a listing as it is meant, and no dash as part of a     *)
(* range that is none.                                                     *)
LEMMA ListingRead ==
  ASSUME NEW items, IsListing(items)
  PROVE  /\ Spelling(items) \in Texts
         /\ ListedChars(Spelling(items))[1] = UNION {items[k].chars : k \in 1..Len(items)}
<1> DEFINE N == Len(items)
           text == Spelling(items)
           s == Spelled(items)
           c == ListedChars(text)
           From(i) == UNION {items[k].chars : k \in i + 1..N}
           K == {d \in Nat : d <= N => c[Len(s[N - d]) + 1] = From(N - d)}
<1>1. /\ N \in Nat
      /\ \A k \in 1..N : /\ items[k].spelling \in Texts
                         /\ IsAlone(items[k]) \/ IsSpan(items[k])
  BY DEF IsListing, Texts
<1>2. \A k \in 1..N : Len(items[k].spelling) \in Nat \ {0}
  BY <1>1, ItemIsSpelled
<1>3. \A k \in 1..N : items[k].spelling # <<>>
  BY <1>1, ItemIsSpelled
<1>4. /\ text \in Texts /\ Len(s[0]) = 0 /\ Len(s[N]) = Len(text)
      /\ \A i \in 1..N :
           /\ Len(s[i - 1]) \in Nat
           /\ Len(s[i]) = Len(s[i - 1]) + Len(items[i].spelling)
           /\ Len(s[i]) <= Len(text)
           /\ \A l \in 1..Len(items[i].spelling) :
                text[Len(s[i - 1]) + l] = items[i].spelling[l]
  <2> HIDE DEF N
  <2>1. Len(items) = N
    BY DEF N
  <2>2. Standing(items, N, text, s)
    BY <1>1, <1>3, <2>1, TokensInPlace
  <2> HIDE DEF text, s
  <2>3. QED
    BY <2>2 DEF Standing
<1> HIDE DEF text, s
<1>5. ASSUME NEW i \in 1..N
      PROVE  c[Len(s[i - 1]) + 1] = items[i].chars \cup c[Len(s[i]) + 1]
  <2> DEFINE x == items[i]
             before == Len(s[i - 1])
  <2>1. before \in Nat /\ x.spelling \in Texts /\ (IsAlone(x) \/ IsSpan(x))
        /\ Len(s[i]) = before + Len(x.spelling)
    BY <1>1, <1>4
  <2>2. StandsAt(x.spelling, text, before)
    BY <1>4 DEF StandsAt
  <2>3. ASSUME IsAlone(x), before + 3 <= Len(text) PROVE text[before + 2] # Dash
    <3>1. Len(x.spelling) = 1 /\ Len(s[i]) = before + 1
      BY <2>1, <2>3 DEF IsAlone
    <3>2. i + 1 \in 1..N /\ (i + 1) - 1 = i
      <4>1. i # N
        BY <1>1, <1>4, <2>1, <2>3, <3>1
      <4>2. QED
        BY <1>1, <4>1
    <3>3. /\ Len(s[i + 1]) = before + 1 + Len(items[i + 1].spelling)
          /\ text[before + 1 + 1] = items[i + 1].spelling[1]
      <4> DEFINE l == i + 1
      <4>1. l \in 1..N /\ s[l - 1] = s[i] /\ 1 \in 1..Len(items[l].spelling)
        BY <1>2, <3>2
      <4> HIDE DEF l
      <4>2. /\ Len(s[l]) = Len(s[l - 1]) + Len(items[l].spelling)
            /\ text[Len(s[l - 1]) + 1] = items[l].spelling[1]
        BY <1>4, <4>1
      <4>3. QED
        BY <3>1, <4>1, <4>2 DEF l
    <3>4. ~(i + 1 = N /\ IsAlone(items[i + 1]))
      <4>1. SUFFICES ASSUME i + 1 = N, IsAlone(items[i + 1]) PROVE FALSE
        OBVIOUS
      <4>2. Len(text) = before + 1 + 1
        BY <1>4, <3>3, <4>1 DEF IsAlone
      <4>3. QED
        BY <2>1, <2>3, <4>2
    <3>5. items[i + 1].spelling[1] # Dash
      <4>1. i \in 1..N - 1
        BY <1>1, <3>2
      <4>2. QED
        BY <2>3, <3>4, <4>1 DEF IsListing, Legible
    <3>6. before + 1 + 1 = before + 2
      BY <2>1
    <3>7. QED
      BY <3>3, <3>5, <3>6
  <2>4. Len(text) \in Nat
    BY <1>4 DEF Texts
  <2> HIDE DEF x, before
  <2>5. before + 3 > Len(text) \/ before + 3 <= Len(text)
    BY <2>1, <2>4
  <2>6. c[before + 1] = x.chars \cup c[before + Len(x.spelling) + 1]
    <3>1. IsAlone(x) => before + 3 > Len(text) \/ text[before + 2] # Dash
      BY <2>3, <2>5
    <3>2. text \in Texts
      BY <1>4
    <3>3. /\ IsAlone(x) \/ IsSpan(x)
          /\ x.spelling \in Texts /\ before \in Nat
          /\ StandsAt(x.spelling, text, before)
      BY <2>1, <2>2
    <3> HIDE DEF c, K, From, N
    <3>4. ListedChars(text)[before + 1]
            = x.chars \cup ListedChars(text)[before + Len(x.spelling) + 1]
      BY <3>1, <3>2, <3>3, OneItemOff
    <3>5. QED
      BY <3>4 DEF c
  <2>7. QED
    BY <2>1, <2>6 DEF x, before
<1>6. c[Len(text) + 1] = {}
  <2>1. c = [l \in 1..Len(text) + 1 |-> ListedAt(text, c, l)]
    BY <1>4, ListedCharsExist DEF ListedChars
  <2> HIDE DEF c
  <2>2. Len(text) + 1 \in 1..Len(text) + 1 /\ Len(text) + 1 > Len(text)
    BY <1>4 DEF Texts
  <2>3. QED
    BY <2>1, <2>2 DEF ListedAt
<1> HIDE DEF c
<1>7. 0 \in K
  <2>1. N - 0 = N /\ From(N) = {}
    BY <1>1
  <2>2. QED
    BY <1>4, <1>6, <2>1
<1>8. ASSUME NEW d \in K PROVE d + 1 \in K
  <2>1. d \in Nat
    OBVIOUS
  <2>2. CASE d + 1 <= N
    <3> DEFINE i == N - d
    <3>1. i \in 1..N /\ N - (d + 1) = i - 1 /\ i - 1 \in Nat
      BY <1>1, <2>1, <2>2
    <3>2. c[Len(s[i]) + 1] = From(i)
      BY <1>1, <2>1, <2>2
    <3> HIDE DEF i
    <3>3. c[Len(s[i - 1]) + 1] = items[i].chars \cup From(i)
      BY <1>5, <3>1, <3>2
    <3>4. (i - 1) + 1..N = {i} \cup (i + 1..N)
      BY <1>1, <3>1
    <3>5. From(i - 1) = items[i].chars \cup From(i)
      BY <3>4
    <3>6. c[Len(s[N - (d + 1)]) + 1] = From(N - (d + 1))
      BY <3>1, <3>3, <3>5
    <3>7. d + 1 \in Nat
      BY <2>1
    <3> HIDE DEF From
    <3>8. QED
      BY <3>6, <3>7
  <2>3. CASE d + 1 > N
    BY <2>1, <2>3
  <2>4. QED
    BY <1>1, <2>1, <2>2, <2>3
<1>9. N \in K
  <2> HIDE DEF K
  <2>1. K \in SUBSET Nat
    BY DEF K
  <2>2. \A d \in Nat : d \in K
    BY <1>7, <1>8, <2>1, Induction
  <2>3. QED
    BY <1>1, <2>2
<1>10. c[Len(s[N - N]) + 1] = From(N - N)
  BY <1>1, <1>9
<1>11. N - N = 0 /\ Len(s[0]) + 1 = 1 /\ 0 + 1..N = 1..N
  BY <1>1, <1>4
<1>12. c[1] = UNION {items[k].chars : k \in 1..N}
  BY <1>10, <1>11
<1>13. QED
  BY <1>4, <1>12 DEF c, text

LEMMA ClassReads ==
  ASSUME NEW class, NEW ch
  PROVE  LET inverted == Len(class) > 0 /\ class[1] \in {Not, Caret}
             listed == IF inverted THEN Tail(class) ELSE class
         IN MatchClass(class, ch)
              <=> class # <<>> /\ (ch \in ListedChars(listed)[1] <=> ~inverted)
BY DEF MatchClass, ListedChars

(* A class means what it lists, or with a mark what it does not list.      *)
THEOREM ClassMeans ==
  ASSUME NEW mark, NEW items, IsListing(items), IsMarked(mark, items), NEW ch
  PROVE  /\ mark \o Spelling(items) \in Texts
         /\ MatchClass(mark \o Spelling(items), ch)
              <=> (Lists(items, ch) <=> mark = <<>>)
<1> DEFINE text == Spelling(items)
           c == ListedChars(text)
<1>1. text \in Texts /\ Len(text) \in Nat
      /\ c[1] = UNION {items[k].chars : k \in 1..Len(items)}
  BY ListingRead DEF Texts
<1>2. ch \in c[1] <=> Lists(items, ch)
  BY <1>1 DEF Lists
<1>3. ASSUME Len(items) > 0
      PROVE  Len(text) > 0 /\ text[1] = items[1].spelling[1]
  <2> DEFINE N == Len(items)
             s == Spelled(items)
  <2>1. /\ N \in Nat /\ 1 \in 1..N
        /\ \A k \in 1..N : /\ items[k].spelling \in Texts
                           /\ IsAlone(items[k]) \/ IsSpan(items[k])
    BY <1>3 DEF IsListing, Texts
  <2>2. \A k \in 1..N : Len(items[k].spelling) \in Nat \ {0}
    BY <2>1, ItemIsSpelled
  <2>3. \A k \in 1..N : items[k].spelling # <<>>
    BY <2>1, ItemIsSpelled
  <2>4. /\ Len(s[0]) = 0
        /\ \A i \in 1..N :
             /\ Len(s[i - 1]) \in Nat
             /\ Len(s[i]) = Len(s[i - 1]) + Len(items[i].spelling)
             /\ Len(s[i]) <= Len(text)
             /\ \A l \in 1..Len(items[i].spelling) :
                  text[Len(s[i - 1]) + l] = items[i].spelling[l]
    <3> HIDE DEF N
    <3>1. Len(items) = N
      BY DEF N
    <3>2. Standing(items, N, text, s)
      BY <2>1, <2>3, <3>1, TokensInPlace
    <3> HIDE DEF text, s
    <3>3. QED
      BY <3>2 DEF Standing
  <2> HIDE DEF s, text, N
  <2>5. 1 - 1 = 0 /\ 1 \in 1..Len(items[1].spelling) /\ Len(items[1].spelling) \in Nat \ {0}
    BY <2>1, <2>2
  <2>6. /\ Len(s[1]) = Len(s[0]) + Len(items[1].spelling) /\ Len(s[1]) <= Len(text)
        /\ text[Len(s[0]) + 1] = items[1].spelling[1]
    BY <2>1, <2>4, <2>5
  <2>7. QED
    BY <1>1, <2>4, <2>5, <2>6
<1> HIDE DEF text
<1>4. CASE mark = <<>>
  <2>1. mark \o text = text
    BY <1>1, <1>4 DEF Texts
  <2>2. Len(text) > 0 /\ text[1] \notin {Not, Caret}
    BY <1>3, <1>4 DEF IsMarked
  <2>3. text # <<>>
    <3>1. Len(<<>>) = 0
      OBVIOUS
    <3>2. QED
      BY <1>1, <2>2, <3>1
  <2>4. MatchClass(text, ch) <=> ch \in c[1]
    BY <2>2, <2>3, ClassReads
  <2>5. QED
    BY <1>1, <1>2, <1>4, <2>1, <2>4 DEF text
<1>5. CASE mark # <<>>
  <2>1. PICK x \in Nat : mark = <<x>> /\ x \in {Not, Caret}
    BY <1>5 DEF IsMarked, Not, Caret
  <2> DEFINE class == <<x>> \o text
  <2>2. <<x>> \in Texts /\ Len(<<x>>) = 1 /\ <<x>>[1] = x
    BY DEF Texts
  <2>3. /\ class \in Texts /\ Len(class) = 1 + Len(text) /\ class[1] = x
        /\ \A l \in 1..Len(text) : class[1 + l] = text[l]
    <3>1. 1 \in 1..Len(<<x>>)
      BY <2>2
    <3>2. QED
      BY <1>1, <2>2, <3>1, Joined
  <2> HIDE DEF class
  <2>4. Tail(class) = text
    <3>1. class # <<>> /\ class \in Seq(Nat)
      <4>1. Len(<<>>) = 0
        OBVIOUS
      <4>2. QED
        BY <1>1, <2>3, <4>1 DEF Texts
    <3>2. /\ Tail(class) \in Seq(Nat) /\ Len(Tail(class)) = Len(class) - 1
          /\ \A l \in 1..Len(Tail(class)) : Tail(class)[l] = class[l + 1]
      BY <3>1, HeadTailProperties
    <3>3. Len(Tail(class)) = Len(text)
      BY <1>1, <2>3, <3>2
    <3>4. \A l \in 1..Len(text) : Tail(class)[l] = text[l]
      <4> SUFFICES ASSUME NEW l \in 1..Len(text) PROVE Tail(class)[l] = text[l]
        OBVIOUS
      <4>1. l + 1 = 1 + l
        BY <1>1
      <4>2. QED
        BY <2>3, <3>2, <3>3, <4>1
    <3>5. QED
      BY <1>1, <3>2, <3>3, <3>4, SeqEqual DEF Texts
  <2>5. Len(class) > 0 /\ class # <<>>
    <3>1. Len(<<>>) = 0
      OBVIOUS
    <3>2. QED
      BY <1>1, <2>3, <3>1
  <2>6. MatchClass(class, ch) <=> ~(ch \in c[1])
    BY <2>1, <2>3, <2>4, <2>5, ClassReads
  <2>7. QED
    BY <1>2, <1>5, <2>1, <2>3, <2>6 DEF class, text
<1>6. QED
  BY <1>4, <1>5

(* What stands between the brackets of a class.                            *)
LEMMA InBrackets ==
  ASSUME NEW inside \in Texts, NEW text, text = <<Open>> \o inside \o <<Close>>
  PROVE  /\ Len(text) > 1 /\ text[1] = Open
         /\ SubSeq(text, 2, Len(text) - 1) = inside
<1> DEFINE left == <<Open>> \o inside
           L == Len(inside)
<1>1. /\ <<Open>> \in Texts /\ Len(<<Open>>) = 1 /\ <<Open>>[1] = Open
      /\ <<Close>> \in Texts /\ Len(<<Close>>) = 1
  BY DEF Texts, Open, Close
<1>2. /\ left \in Texts /\ Len(left) = 1 + L /\ L \in Nat /\ left[1] = Open
      /\ \A l \in 1..L : left[1 + l] = inside[l]
  <2> DEFINE first == <<Open>>
  <2>1. first \in Texts /\ Len(first) = 1 /\ first[1] = Open /\ 1 \in 1..Len(first)
    BY <1>1
  <2>2. left = first \o inside
    BY DEF left
  <2> HIDE DEF first
  <2>3. /\ first \o inside \in Texts /\ L \in Nat
        /\ Len(first \o inside) = Len(first) + L
        /\ \A l \in 1..Len(first) : (first \o inside)[l] = first[l]
        /\ \A l \in 1..L : (first \o inside)[Len(first) + l] = inside[l]
    BY <2>1, Joined
  <2>4. QED
    BY <2>1, <2>2, <2>3
<1> HIDE DEF left
<1>3. /\ text \in Texts /\ Len(text) = (1 + L) + 1
      /\ \A l \in 1..1 + L : text[l] = left[l]
  <2> DEFINE last == <<Close>>
  <2>1. last \in Texts /\ Len(last) = 1
    BY <1>1
  <2>2. text = left \o last
    BY DEF left
  <2> HIDE DEF last
  <2>3. /\ left \o last \in Texts /\ Len(left \o last) = Len(left) + Len(last)
        /\ \A l \in 1..Len(left) : (left \o last)[l] = left[l]
    BY <1>2, <2>1, Joined
  <2>4. QED
    BY <1>2, <2>1, <2>2, <2>3
<1>4. Len(text) > 1 /\ Len(text) - 1 = 1 + L /\ text[1] = Open
  BY <1>2, <1>3
<1> DEFINE y == SubSeq(text, 2, 1 + L)
<1>5. 2 \in Int /\ 1 + L \in Int /\ \A l \in 2..1 + L : text[l] \in Nat
  <2>1. \A l \in 1..Len(text) : text[l] \in Nat
    BY <1>3 DEF Texts
  <2> HIDE DEF L
  <2>2. 2..1 + L \subseteq 1..Len(text)
    BY <1>2, <1>3
  <2>3. QED
    BY <1>2, <2>1, <2>2
<1>6. /\ y \in Seq(Nat) /\ Len(y) = IF 2 <= 1 + L THEN ((1 + L) - 2) + 1 ELSE 0
      /\ \A l \in 1..((1 + L) - 2) + 1 : y[l] = text[(2 + l) - 1]
  BY <1>5, SubSeqProperties
<1> HIDE DEF y
<1>7. Len(y) = L /\ ((1 + L) - 2) + 1 = L
  BY <1>2, <1>6
<1>8. ASSUME NEW l \in 1..L PROVE y[l] = inside[l]
  <2>1. (2 + l) - 1 = 1 + l /\ 1 + l \in 1..1 + L
    BY <1>2
  <2>2. QED
    BY <1>2, <1>3, <1>6, <1>7, <2>1
<1> HIDE DEF L
<1>9. y = inside
  BY <1>6, <1>7, <1>8, SeqEqual DEF Texts, L
<1>10. QED
  BY <1>4, <1>9 DEF y

-----------------------------------------------------------------------------
(* The spelling of a token as Match sees it.                               *)
LEMMA SlashFacts ==
  ASSUME NEW text \in Texts
  PROVE  /\ SlashForm(text) \in Texts /\ Len(SlashForm(text)) = Len(text)
         /\ \A l \in 1..Len(text) : SlashForm(text)[l] = SlashOf(text[l])
<1>1. \A ch \in Nat : SlashOf(ch) \in Nat
  BY DEF SlashOf, Slash
<1>2. text \in [1..Len(text) -> Nat] /\ Len(text) \in Nat
  BY DEF Texts
<1>3. SlashForm(text) = [l \in 1..Len(text) |-> SlashOf(text[l])]
  BY <1>2 DEF SlashForm
<1> DEFINE form == SlashForm(text)
<1> HIDE DEF form
<1>4. form \in [1..Len(text) -> Nat] /\ \A l \in 1..Len(text) : form[l] = SlashOf(text[l])
  BY <1>1, <1>2, <1>3 DEF form
<1>5. form \in Texts /\ Len(form) = Len(text)
  <2> DEFINE L == Len(text)
  <2>1. L \in Nat /\ form \in [1..L -> Nat]
    BY <1>2, <1>4
  <2> HIDE DEF L
  <2>2. form \in Seq(Nat) /\ Len(form) = L
    BY <2>1
  <2>3. QED
    BY <2>2 DEF Texts, L
<1>6. QED
  BY <1>4, <1>5 DEF form

(* At the place where a token stands, the matcher does what the token      *)
(* means, given that it does so from the next token on.                    *)
LEMMA TokenTakes ==
  ASSUME NEW p \in Texts, NEW n \in Seq(NameChars), n \in Texts, NEW pathname \in BOOLEAN,
         NEW t, IsToken(t), NEW before \in Nat, StandsAt(SlashForm(t.spelling), p, before),
         NEW j \in 1..Len(n) + 1
  PROVE  j \in Places(p, n, pathname)[before + 1]
           <=> \E k \in Places(p, n, pathname)[before + Len(t.spelling) + 1] :
                 PieceOK(t, n, pathname, j - 1, k - 1)
<1> DEFINE text == SlashForm(t.spelling)
           L == Len(t.spelling)
           m == Places(p, n, pathname)
<1>1. /\ t.spelling \in Texts /\ L \in Nat /\ L > 0 /\ text \in Texts /\ Len(text) = L
      /\ Len(p) \in Nat /\ Len(n) \in Nat
      /\ \A l \in 1..L : text[l] = SlashOf(t.spelling[l])
  <2>1. t.spelling \in Texts /\ t.spelling # <<>>
    BY DEF IsToken
  <2>2. L \in Nat /\ L > 0 /\ Len(p) \in Nat /\ Len(n) \in Nat
    BY <2>1 DEF Texts
  <2>3. QED
    BY <2>1, <2>2, SlashFacts
<1>2. before + L <= Len(p) /\ \A l \in 1..L : p[before + l] = text[l]
  BY <1>1 DEF StandsAt
<1>3. ASSUME NEW l \in 1..Len(n) PROVE n[l] \in NameChars
  OBVIOUS
<1> HIDE DEF text, L, m
<1>4. /\ before + 1 \in 1..Len(p) /\ 1 \in 1..L /\ (before + 1) + 1 = before + 2
      /\ before + L + 1 \in (before + 1) + 1..Len(p) + 1
  BY <1>1, <1>2
<1>5. p[before + 1] = text[1] /\ text[1] = SlashOf(t.spelling[1])
  BY <1>1, <1>2, <1>4
<1>6. CASE IsStar(t)
  <2>1. t.spelling = <<Star>> /\ L = 1 /\ t.spelling[1] = Star
    BY <1>6 DEF IsStar, L
  <2>2. p[before + 1] = Star
    BY <1>5, <2>1 DEF SlashOf, Star, Backslash
  <2>3. j \in m[before + 1] <=> \E k \in m[(before + 1) + 1] : PieceOK(t, n, pathname, j - 1, k - 1)
    BY <1>4, <1>6, <2>2, StarTakes DEF m
  <2>4. QED
    BY <1>4, <2>1, <2>3 DEF m, L
<1>7. ASSUME p[before + 1] # Star, ~t.star,
             j <= Len(n) =>
               (Takes(p, n, pathname, m, before + 1, j)
                  <=> /\ t.wild => Free(n, pathname, j, j)
                      /\ n[j] \in t.chars /\ j + 1 \in m[before + L + 1])
      PROVE  j \in m[before + 1]
               <=> \E k \in m[before + L + 1] : PieceOK(t, n, pathname, j - 1, k - 1)
  BY <1>4, <1>7, OneTakes DEF m
<1>8. CASE IsAny(t)
  <2>1. t.spelling = <<Question>> /\ L = 1 /\ t.spelling[1] = Question
    BY <1>8 DEF IsAny, L
  <2>2. p[before + 1] = Question
    BY <1>5, <2>1 DEF SlashOf, Question, Backslash
  <2>3. ASSUME j <= Len(n)
        PROVE  /\ Takes(p, n, pathname, m, before + 1, j)
                    <=> Free(n, pathname, j, j) /\ j + 1 \in m[(before + 1) + 1]
               /\ n[j] \in t.chars
    <3>1. n[j] \in NameChars
      BY <1>1, <1>3, <2>3
    <3>2. n[j] \in t.chars
      BY <1>8, <3>1 DEF IsAny
    <3>3. Takes(p, n, pathname, m, before + 1, j)
            <=> Free(n, pathname, j, j) /\ j + 1 \in m[(before + 1) + 1]
      BY <2>2 DEF Takes, Question, Open
    <3>4. QED
      BY <3>2, <3>3
  <2>4. p[before + 1] # Star /\ ~t.star /\ t.wild
    BY <1>8, <2>2 DEF IsAny, Question, Star
  <2>5. (before + 1) + 1 = before + L + 1
    BY <2>1
  <2>6. QED
    BY <1>7, <2>3, <2>4, <2>5 DEF m, L
<1>9. CASE IsCharacter(t)
  <2> DEFINE ch == t.spelling[1]
  <2>1. /\ L = 1 /\ ch \notin {Star, Question, Open} /\ t.chars = {SlashOf(ch)}
        /\ ~t.star /\ ~t.wild
    BY <1>9 DEF IsCharacter, L
  <2>2. p[before + 1] = SlashOf(ch)
    BY <1>5
  <2>3. SlashOf(ch) \notin {Star, Question, Open}
    BY <2>1 DEF SlashOf, Slash, Star, Question, Open
  <2> HIDE DEF ch
  <2>4. Takes(p, n, pathname, m, before + 1, j)
          <=> n[j] \in t.chars /\ j + 1 \in m[(before + 1) + 1]
    BY <2>1, <2>2, <2>3 DEF Takes
  <2>5. (before + 1) + 1 = before + L + 1
    BY <2>1
  <2>6. QED
    BY <1>7, <2>1, <2>2, <2>3, <2>4, <2>5 DEF m, L
<1>10. CASE IsClass(t)
  <2> DEFINE class == SubSeq(text, 2, L - 1)
  <2>1. /\ ~t.star /\ t.wild /\ L > 1 /\ text[1] = Open /\ Closes(text, 1, L)
        /\ \A ch \in NameChars : ch \in t.chars <=> MatchClass(class, ch)
    <3> DEFINE inside == t.mark \o Spelling(t.items)
    <3>1. /\ ~t.star /\ t.wild /\ IsListing(t.items) /\ IsMarked(t.mark, t.items)
          /\ text = <<Open>> \o inside \o <<Close>> /\ Closes(text, 1, Len(text))
          /\ \A ch \in NameChars :
               ch \in t.chars <=> (Lists(t.items, ch) <=> t.mark = <<>>)
      BY <1>10 DEF IsClass, text
    <3>2. \A ch \in NameChars :
            MatchClass(inside, ch) <=> (Lists(t.items, ch) <=> t.mark = <<>>)
      BY <3>1, ClassMeans
    <3>3. inside \in Texts
      BY <3>1, ClassMeans
    <3> HIDE DEF inside, text
    <3>4. Len(text) > 1 /\ text[1] = Open /\ SubSeq(text, 2, Len(text) - 1) = inside
      BY <3>1, <3>3, InBrackets
    <3>5. Len(text) = L
      BY <1>1
    <3>6. QED
      BY <3>1, <3>2, <3>4, <3>5
  <2>2. p[before + 1] = Open
    BY <1>5, <2>1
  <2>3. /\ Closes(p, before + 1, before + L)
        /\ SubSeq(p, before + 2, before + L - 1) = class
    BY <1>1, <2>1, ClassInPlace DEF text
  <2> HIDE DEF class
  <2>4. ASSUME NEW k, Closes(p, before + 1, k) PROVE k = before + L
    BY <2>3, <2>4, ClosesOnce
  <2>5. ASSUME j <= Len(n)
        PROVE  Takes(p, n, pathname, m, before + 1, j)
                 <=> /\ Free(n, pathname, j, j) /\ n[j] \in t.chars
                     /\ j + 1 \in m[before + L + 1]
    <3>1. n[j] \in NameChars
      BY <1>1, <1>3, <2>5
    <3>2. Takes(p, n, pathname, m, before + 1, j)
            <=> \E k \in (before + 1) + 1..Len(p) :
                  /\ Closes(p, before + 1, k) /\ Free(n, pathname, j, j)
                  /\ MatchClass(SubSeq(p, (before + 1) + 1, k - 1), n[j])
                  /\ j + 1 \in m[k + 1]
      BY <2>2 DEF Takes, Open, Question
    <3>3. before + L \in (before + 1) + 1..Len(p)
      BY <1>1, <1>2, <2>1
    <3>4. Takes(p, n, pathname, m, before + 1, j)
            <=> /\ Free(n, pathname, j, j) /\ MatchClass(class, n[j])
                /\ j + 1 \in m[before + L + 1]
      <4>1. \A k \in (before + 1) + 1..Len(p) : Closes(p, before + 1, k) => k = before + L
        BY <2>4
      <4>2. Takes(p, n, pathname, m, before + 1, j)
              <=> /\ Free(n, pathname, j, j)
                  /\ MatchClass(SubSeq(p, (before + 1) + 1, before + L - 1), n[j])
                  /\ j + 1 \in m[before + L + 1]
        <5> DEFINE After(k) == /\ Free(n, pathname, j, j)
                               /\ MatchClass(SubSeq(p, (before + 1) + 1, k - 1), n[j])
                               /\ j + 1 \in m[k + 1]
        <5>1. Takes(p, n, pathname, m, before + 1, j)
                <=> \E k \in (before + 1) + 1..Len(p) : Closes(p, before + 1, k) /\ After(k)
          BY <3>2
        <5> HIDE DEF After
        <5>2. Takes(p, n, pathname, m, before + 1, j) <=> After(before + L)
          BY <2>3, <3>3, <4>1, <5>1
        <5>3. QED
          <6>1. (before + L) - 1 = before + L - 1
            BY <1>1
          <6>2. QED
            BY <5>2, <6>1 DEF After
      <4>3. SubSeq(p, (before + 1) + 1, before + L - 1) = class
        BY <1>4, <2>3
      <4>4. QED
        BY <4>2, <4>3
    <3>5. QED
      BY <2>1, <3>1, <3>4
  <2>6. p[before + 1] # Star
    BY <2>2 DEF Open, Star
  <2>7. QED
    BY <1>7, <2>1, <2>5, <2>6 DEF m, L
<1>11. QED
  BY <1>6, <1>8, <1>9, <1>10 DEF IsToken

-----------------------------------------------------------------------------
(* The matcher accepts what the tokens from the i-th on denote.            *)
LEMMA PatternMeans ==
  ASSUME NEW tokens, NEW T \in Nat, Len(tokens) = T, DOMAIN tokens = 1..T,
         \A i \in 1..T : IsToken(tokens[i]),
         NEW n \in Seq(NameChars), n \in Texts, NEW pathname \in BOOLEAN
  PROVE  1 \in Places(SlashForm(Spelling(tokens)), n, pathname)[1]
           <=> Denotes(tokens, n, pathname)
<1> DEFINE text == Spelling(tokens)
           p == SlashForm(text)
           s == Spelled(tokens)
           m == Places(p, n, pathname)
           Right(i) == \A j \in 1..Len(n) + 1 :
             j \in m[Len(s[i]) + 1] <=> RestDenotes(tokens, n, pathname, i + 1, j)
           K == {d \in Nat : d <= T => Right(T - d)}
<1>1. \A i \in 1..T : tokens[i].spelling \in Texts /\ tokens[i].spelling # <<>>
  BY DEF IsToken
<1>2. /\ text \in Texts /\ Len(s[0]) = 0 /\ Len(s[T]) = Len(text)
      /\ \A i \in 1..T :
           /\ Len(s[i - 1]) \in Nat
           /\ Len(s[i]) = Len(s[i - 1]) + Len(tokens[i].spelling)
           /\ Len(s[i]) <= Len(text)
           /\ \A l \in 1..Len(tokens[i].spelling) :
                text[Len(s[i - 1]) + l] = tokens[i].spelling[l]
  <2>1. Standing(tokens, T, text, s)
    BY <1>1, TokensInPlace
  <2> HIDE DEF text, s, p, m
  <2>2. QED
    BY <2>1 DEF Standing
<1> HIDE DEF text, s
<1>3. /\ p \in Texts /\ Len(p) = Len(text) /\ Len(p) \in Nat /\ Len(n) \in Nat
      /\ \A l \in 1..Len(text) : p[l] = SlashOf(text[l])
  BY <1>2, SlashFacts DEF Texts
<1> HIDE DEF p
<1>4. ASSUME NEW i \in 1..T
      PROVE  StandsAt(SlashForm(tokens[i].spelling), p, Len(s[i - 1]))
  <2> DEFINE spelling == tokens[i].spelling
             before == Len(s[i - 1])
  <2>1. /\ spelling \in Texts /\ before \in Nat /\ Len(s[i]) = before + Len(spelling)
        /\ Len(s[i]) <= Len(text)
        /\ \A l \in 1..Len(spelling) : text[before + l] = spelling[l]
    BY <1>1, <1>2
  <2> HIDE DEF spelling, before
  <2>2. /\ Len(spelling) \in Nat /\ Len(SlashForm(spelling)) = Len(spelling)
        /\ \A l \in 1..Len(spelling) : SlashForm(spelling)[l] = SlashOf(spelling[l])
    BY <2>1, SlashFacts DEF Texts
  <2>3. ASSUME NEW l \in 1..Len(spelling) PROVE p[before + l] = SlashForm(spelling)[l]
    <3>1. before + l \in 1..Len(text)
      BY <1>3, <2>1, <2>2
    <3>2. QED
      BY <1>3, <2>1, <2>2, <3>1
  <2>4. QED
    BY <1>3, <2>1, <2>2, <2>3 DEF StandsAt, spelling, before
<1>5. 0 \in K
  <2>1. m[Len(p) + 1] = {Len(n) + 1}
    <3>1. m[Len(p) + 1] = MatchesAt(p, n, pathname, m, Len(p) + 1)
      BY <1>3, PlacesFacts
    <3>2. QED
      BY <1>3, <3>1 DEF MatchesAt
  <2>2. Len(s[T]) + 1 = Len(p) + 1 /\ T - 0 = T
    BY <1>2, <1>3
  <2> HIDE DEF m
  <2>3. Right(T)
    BY <2>1, <2>2, NothingLeft
  <2>4. QED
    BY <2>2, <2>3
<1>6. ASSUME NEW d \in K PROVE d + 1 \in K
  <2>1. d \in Nat
    OBVIOUS
  <2>2. CASE d + 1 <= T
    <3>1. PICK i \in 1..T : i = T - d
      BY <2>1, <2>2
    <3>2. i - 1 = T - (d + 1) /\ (i - 1) + 1 = i
      BY <2>1, <3>1
    <3>3. Right(i)
      BY <2>1, <2>2, <3>1
    <3>4. /\ Len(s[i - 1]) \in Nat
          /\ Len(s[i]) + 1 = Len(s[i - 1]) + Len(tokens[i].spelling) + 1
      BY <1>2
    <3>5. ASSUME NEW j \in 1..Len(n) + 1
          PROVE  j \in m[Len(s[i - 1]) + 1] <=> RestDenotes(tokens, n, pathname, i, j)
      <4>1. j \in m[Len(s[i - 1]) + 1]
              <=> \E k \in m[Len(s[i]) + 1] : PieceOK(tokens[i], n, pathname, j - 1, k - 1)
        <5>1. /\ IsToken(tokens[i]) /\ Len(s[i - 1]) \in Nat
              /\ StandsAt(SlashForm(tokens[i].spelling), p, Len(s[i - 1]))
          BY <1>4, <3>4
        <5>2. j \in m[Len(s[i - 1]) + 1]
                <=> \E k \in m[Len(s[i - 1]) + Len(tokens[i].spelling) + 1] :
                      PieceOK(tokens[i], n, pathname, j - 1, k - 1)
          <6> DEFINE t == tokens[i]
                     start == Len(s[i - 1])
          <6>1. /\ p \in Texts /\ IsToken(t) /\ start \in Nat
                /\ StandsAt(SlashForm(t.spelling), p, start)
            BY <1>3, <5>1
          <6> HIDE DEF t, start
          <6>2. j \in Places(p, n, pathname)[start + 1]
                  <=> \E k \in Places(p, n, pathname)[start + Len(t.spelling) + 1] :
                        PieceOK(t, n, pathname, j - 1, k - 1)
            BY <6>1, TokenTakes
          <6>3. QED
            BY <6>2 DEF t, start
        <5>3. QED
          BY <3>4, <5>2
      <4>2. m[Len(s[i]) + 1] \subseteq 1..Len(n) + 1
        <5>1. Len(s[i]) + 1 \in 1..Len(p) + 1
          <6>1. Len(s[i - 1]) \in Nat /\ Len(tokens[i].spelling) \in Nat
            BY <1>1, <1>2 DEF Texts
          <6>2. Len(s[i]) \in Nat /\ Len(s[i]) <= Len(p)
            <7>1. /\ Len(s[i]) = Len(s[i - 1]) + Len(tokens[i].spelling)
                  /\ Len(s[i]) <= Len(text)
              BY <1>2
            <7>2. QED
              <8>1. \A a, b \in Nat : a + b \in Nat
                OBVIOUS
              <8>2. QED
                BY <1>3, <6>1, <7>1, <8>1
          <6>3. QED
            BY <1>3, <6>2
        <5>2. QED
          BY <1>3, <5>1, PlacesFacts
      <4> HIDE DEF m
      <4>3. j \in m[Len(s[i - 1]) + 1]
              <=> \E k \in 1..Len(n) + 1 :
                    /\ PieceOK(tokens[i], n, pathname, j - 1, k - 1)
                    /\ RestDenotes(tokens, n, pathname, i + 1, k)
        BY <3>3, <4>1, <4>2
      <4>4. QED
        BY <4>3, OneTokenOff
    <3> HIDE DEF m
    <3>6. Right(i - 1)
      BY <3>2, <3>5
    <3>7. QED
      BY <2>1, <3>2, <3>6
  <2>3. CASE d + 1 > T
    BY <2>1, <2>3
  <2>4. QED
    BY <2>1, <2>2, <2>3
<1>7. T \in K
  <2> HIDE DEF K
  <2>1. K \in SUBSET Nat
    BY DEF K
  <2>2. \A d \in Nat : d \in K
    BY <1>5, <1>6, <2>1, Induction
  <2>3. QED
    BY <2>2
<1>8. Right(0)
  <2>1. T - T = 0
    OBVIOUS
  <2>2. QED
    BY <1>7, <2>1
<1>9. 1 \in m[1] <=> RestDenotes(tokens, n, pathname, 1, 1)
  <2>1. 1 \in 1..Len(n) + 1 /\ Len(s[0]) + 1 = 1 /\ 0 + 1 = 1
    BY <1>2, <1>3
  <2> HIDE DEF m
  <2>2. QED
    BY <1>8, <2>1
<1>10. RestDenotes(tokens, n, pathname, 1, 1) <=> Denotes(tokens, n, pathname)
  BY WholeDenotes
<1>11. QED
  BY <1>9, <1>10 DEF m, p, text

(* The matcher is right: whatever the pattern and the name, however long,  *)
(* it accepts the name if and only if the tokens of the pattern can take it*)
(* piece by piece.                                                         *)
THEOREM MatcherIsRight ==
  \A tokens \in Seq(Tokens), name \in Seq(Letters), pathname \in BOOLEAN :
    Match(Spelling(tokens), name, pathname) <=> Denotes(tokens, SlashForm(name), pathname)
<1> SUFFICES ASSUME NEW tokens \in Seq(Tokens), NEW name \in Seq(Letters),
                    NEW pathname \in BOOLEAN
             PROVE  Match(Spelling(tokens), name, pathname)
                      <=> Denotes(tokens, SlashForm(name), pathname)
  OBVIOUS
<1>1. Len(tokens) \in Nat /\ DOMAIN tokens = 1..Len(tokens)
  OBVIOUS
<1>2. ASSUME NEW i \in 1..Len(tokens) PROVE IsToken(tokens[i])
  <2> DEFINE t == tokens[i]
  <2>1. t \in Tokens
    OBVIOUS
  <2>2. t.spelling \in Texts /\ (IsStar(t) \/ IsAny(t) \/ IsCharacter(t) \/ IsClass(t))
    BY <2>1, TokensAssumption DEF Texts
  <2> HIDE DEF t
  <2>3. t.spelling # <<>>
    <3>1. IsClass(t) => Len(t.spelling) > 1
      <4>1. SUFFICES ASSUME IsClass(t) PROVE Len(t.spelling) > 1
        OBVIOUS
      <4>2. Len(SlashForm(t.spelling)) > 1
        BY <4>1, ClassMeans, InBrackets DEF IsClass
      <4>3. QED
        BY <2>2, <4>2, SlashFacts
    <3>2. \A x : <<x>> # <<>>
      OBVIOUS
    <3>3. IsStar(t) \/ IsAny(t) \/ IsCharacter(t) => t.spelling # <<>>
      BY <3>2 DEF IsStar, IsAny, IsCharacter
    <3>4. Len(<<>>) = 0
      OBVIOUS
    <3>5. QED
      BY <2>2, <3>1, <3>3, <3>4
  <2>4. QED
    BY <2>2, <2>3 DEF IsToken, t
<1>3. name \in Texts
  BY TokensAssumption, SeqMonotonic DEF Texts
<1>4. SlashForm(name) \in Texts
  BY <1>3, SlashFacts
<1>5. SlashForm(name) \in Seq(NameChars)
  <2> DEFINE n == SlashForm(name)
  <2>1. /\ n \in [1..Len(name) -> Nat] /\ Len(name) \in Nat
        /\ \A l \in 1..Len(name) : n[l] = SlashOf(name[l])
    BY <1>3, <1>4, SlashFacts DEF Texts
  <2>2. \A l \in 1..Len(name) : n[l] \in NameChars
    BY <2>1 DEF NameChars
  <2> HIDE DEF n
  <2>3. n \in [1..Len(name) -> NameChars]
    BY <2>1, <2>2
  <2>4. QED
    BY <2>1, <2>3, SeqDef DEF n
<1>6. QED
  BY <1>1, <1>2, <1>4, <1>5, PatternMeans, MatchIsFirstPlace
================================================================================
