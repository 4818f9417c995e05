---------------------------- MODULE VPBuilderProofs ----------------------------
(***************************************************************************)
(* Theorems about VPBuilder and Base58: that base58 decoding undoes        *)
(* encoding for byte strings of any length, and what a verifier may make   *)
(* of a presentation, for any credentials, keys and signatures.            *)
(*                                                                         *)
(* The library's induction theorems cannot be used with these provers. In  *)
(* their place: every set of numbers has a least one (WFMin, whose         *)
(* argument is a set), and what holds of 0 and goes from each number to    *)
(* the next therefore holds up to any n.                                   *)
(***************************************************************************)
EXTENDS VPBuilder, WellFoundedInduction, SequenceTheorems, FiniteSetTheorems, TLAPS

-----------------------------------------------------------------------------
(* Induction and recursion over the natural numbers. *)

LEMMA LeastNumber ==
    ASSUME NEW T \in SUBSET Nat, T # {}
    PROVE  \E n \in T : \A m \in T : n <= m
<1>1. \E n \in T : \A m \in T : ~(<<m, n>> \in OpToRel(<, Nat))
    BY WFMin, NatLessThanWellFounded
<1>2. \A m, n \in Nat : <<m, n>> \in OpToRel(<, Nat) <=> m < n
    BY DEF OpToRel
<1>3. PICK n \in T : \A m \in T : ~(<<m, n>> \in OpToRel(<, Nat))
    BY <1>1
<1>4. \A m \in T : m \in Nat /\ n \in Nat
    OBVIOUS
<1>5. \A m \in T : ~(m < n)
    BY <1>2, <1>3, <1>4
<1>6. \A m \in T : n <= m
    BY <1>4, <1>5
<1> QED
    BY <1>6

\* A set of numbers that has 0, and the next number of each that it has.
LEMMA Induction ==
    ASSUME NEW n \in Nat, NEW T, 0 \in T, \A k \in 0..(n - 1) : k \in T => k + 1 \in T
    PROVE  0..n \subseteq T
<1> SUFFICES ASSUME 0..n \ T # {} PROVE FALSE
    OBVIOUS
<1>1. PICK k \in 0..n \ T : \A m \in 0..n \ T : k <= m
  <2>1. 0..n \ T \in SUBSET Nat
    OBVIOUS
  <2> QED
    BY <2>1, LeastNumber
<1>2. k # 0 /\ k - 1 \in 0..(n - 1)
    BY <1>1
<1>3. k - 1 \in T
    BY <1>1, <1>2
<1> QED
    BY <1>1, <1>2, <1>3

\* A recursive function that takes a step each round, from a base.
Iterable(n, S, base, step) ==
    \E g \in [0..n -> S] : g[0] = base /\ \A k \in 1..n : g[k] = step[<<k, g[k - 1]>>]

LEMMA Iteration ==
    ASSUME NEW n \in Nat, NEW S, NEW base \in S, NEW step \in [(1..n) \X S -> S]
    PROVE  Iterable(n, S, base, step)
<1> DEFINE Ok(m) == \E g \in [0..m -> S] :
                      g[0] = base /\ \A k \in 1..m : g[k] = step[<<k, g[k - 1]>>]
           T == {m \in 0..n : Ok(m)}
<1>1. 0 \in T
  <2> DEFINE g == [i \in 0..0 |-> base]
  <2>1. g \in [0..0 -> S] /\ g[0] = base /\ 1..0 = {}
    OBVIOUS
  <2>2. Ok(0)
    BY <2>1
  <2> QED
    BY <2>2
<1>2. ASSUME NEW m \in 0..(n - 1), m \in T PROVE m + 1 \in T
  <2>1. PICK g \in [0..m -> S] : g[0] = base /\ \A k \in 1..m : g[k] = step[<<k, g[k - 1]>>]
    BY <1>2
  <2>2. m \in Nat /\ m + 1 \in 1..n /\ m \in 0..m
    OBVIOUS
  <2>3. step[<<m + 1, g[m]>>] \in S
    BY <2>2
  <2> DEFINE h == [i \in 0..(m + 1) |-> IF i = m + 1 THEN step[<<m + 1, g[m]>>] ELSE g[i]]
  <2>4. h \in [0..(m + 1) -> S]
    BY <2>2, <2>3
  <2>5. h[0] = base
    BY <2>1, <2>2
  <2>6. ASSUME NEW k \in 1..(m + 1) PROVE h[k] = step[<<k, h[k - 1]>>]
    <3>1. CASE k = m + 1
      <4>1. k - 1 = m /\ m # m + 1 /\ m \in 0..(m + 1)
        BY <2>2, <3>1
      <4>2. h[k - 1] = g[m] /\ h[k] = step[<<m + 1, g[m]>>]
        BY <3>1, <4>1
      <4> QED
        BY <3>1, <4>1, <4>2
    <3>2. CASE k # m + 1
      <4>1. k \in 1..m /\ k - 1 \in 0..m /\ k - 1 # m + 1
        BY <2>2, <3>2
      <4>2. h[k] = g[k] /\ h[k - 1] = g[k - 1]
        BY <3>2, <4>1
      <4> QED
        BY <2>1, <4>1, <4>2
    <3> QED
        BY <3>1, <3>2
  <2> HIDE DEF h
  <2>7. Ok(m + 1)
    BY <2>4, <2>5, <2>6
  <2> QED
    BY <2>2, <2>7
<1> HIDE DEF T
<1>3. n \in T
    BY <1>1, <1>2, Induction
<1> QED
    BY <1>3 DEF T, Iterable

-----------------------------------------------------------------------------
(* The number that a sequence of digits writes, the first digit the highest. *)

Horner(s, base) ==
    LET h[k \in 0..Len(s)] == IF k = 0 THEN 0 ELSE h[k - 1] * base + s[k]
    IN  h

Number(s, base) == Horner(s, base)[Len(s)]

\* Each direction, as a base read and a base written.
Bases(from, to) == (from = 256 /\ to = 58) \/ (from = 58 /\ to = 256)

\* What Horner's function is, without the recursion.
IsHorner(h, s, base) ==
    /\ h \in [0..Len(s) -> Nat]
    /\ h[0] = 0
    /\ \A k \in 1..Len(s) : h[k] = h[k - 1] * base + s[k]

LEMMA HornerStep ==
    ASSUME NEW base \in {58, 256}, NEW s \in Seq(0..(base - 1))
    PROVE  IsHorner(Horner(s, base), s, base)
<1> DEFINE n == Len(s)
           step == [x \in (1..n) \X Nat |-> x[2] * base + s[x[1]]]
           F(h) == [k \in 0..n |-> IF k = 0 THEN 0 ELSE h[k - 1] * base + s[k]]
<1>1. n \in Nat /\ \A k \in 1..n : s[k] \in Nat
    OBVIOUS
<1>2. step \in [(1..n) \X Nat -> Nat]
  <2>1. \A k \in 1..n, m \in Nat : m * base + s[k] \in Nat
      BY <1>1
  <2> QED
      BY <2>1
<1>3. PICK g \in [0..n -> Nat] : g[0] = 0 /\ \A k \in 1..n : g[k] = step[<<k, g[k - 1]>>]
  <2>1. 0 \in Nat
    OBVIOUS
  <2> HIDE DEF step, n
  <2>2. Iterable(n, Nat, 0, step)
    BY <1>1, <1>2, <2>1, Iteration, Zenon
  <2> QED
    BY <2>2 DEF Iterable
<1>4. ASSUME NEW k \in 1..n PROVE g[k] = g[k - 1] * base + s[k]
  <2>1. k - 1 \in 0..n /\ g[k - 1] \in Nat
    BY <1>1
  <2>2. step[<<k, g[k - 1]>>] = g[k - 1] * base + s[k]
    BY <2>1
  <2> QED
    BY <1>3, <2>2
<1>5. g = F(g)
  <2>1. \A k \in 0..n : g[k] = F(g)[k]
      BY <1>1, <1>3, <1>4
  <2> QED
      BY <2>1
<1> HIDE DEF F
<1>6. \E h : h = F(h)
    BY <1>5, Zenon
<1>7. Horner(s, base) = F(Horner(s, base))
  <2>1. Horner(s, base) = CHOOSE h : h = F(h)
      BY DEF Horner, F
  <2> QED
      BY <1>6, <2>1, Zenon
<1> DEFINE H == Horner(s, base)
           T == {k \in 0..n : H[k] \in Nat}
<1> HIDE DEF H
<1>8. /\ H = [k \in 0..n |-> H[k]]
      /\ H[0] = 0
      /\ \A k \in 1..n : H[k] = H[k - 1] * base + s[k]
    BY <1>1, <1>7 DEF F, H
<1>9. 0..n \subseteq T
  <2>1. 0 \in T
      BY <1>1, <1>8
  <2>2. ASSUME NEW k \in 0..(n - 1), k \in T PROVE k + 1 \in T
    <3>1. k + 1 \in 1..n /\ (k + 1) - 1 = k /\ H[k] \in Nat
        BY <2>2, <1>1
    <3>2. H[k + 1] = H[(k + 1) - 1] * base + s[k + 1]
        BY <3>1, <1>8
    <3> QED
        BY <3>1, <3>2, <1>1
  <2> HIDE DEF T
  <2> QED
      BY <1>1, <2>1, <2>2, Induction
<1>10. H \in [0..n -> Nat]
    BY <1>8, <1>9
<1> QED
    BY <1>8, <1>10 DEF H, IsHorner

-----------------------------------------------------------------------------
(* One byte or character more. *)

\* A carry has at most two digits, and no zero above them.
SpillOf(c, base) == IF c = 0 THEN <<>> ELSE IF c < base THEN <<c>> ELSE <<c % base, c \div base>>

LEMMA Concatenated ==
    ASSUME NEW a \in Nat, NEW b \in Nat
    PROVE  <<a>> \o <<>> = <<a>> /\ <<a>> \o <<b>> = <<a, b>>
<1>1. <<a>> \o <<>> = <<a>>
    OBVIOUS
<1>2. <<a>> \o <<b>> = <<a, b>>
  <2> DEFINE s == <<a>> \o <<b>>
             t == <<a, b>>
  <2>1. <<a>> \in Seq(Nat) /\ <<b>> \in Seq(Nat) /\ t \in Seq(Nat)
    OBVIOUS
  <2>2. Len(<<a>>) = 1 /\ Len(<<b>>) = 1 /\ <<a>>[1] = a /\ <<b>>[1] = b
    OBVIOUS
  <2>3. s \in Seq(Nat) /\ Len(s) = 2 /\ s[1] = a /\ s[2] = b
    BY <2>1, <2>2, ConcatProperties
  <2>4. Len(t) = 2 /\ t[1] = a /\ t[2] = b
    OBVIOUS
  <2> HIDE DEF s, t
  <2>5. \A i \in 1..Len(s) : s[i] = t[i]
    BY <2>3, <2>4
  <2>6. s = t
    BY <2>1, <2>3, <2>4, <2>5, SeqEqual
  <2> QED
    BY <2>6 DEF s, t
<1> QED
    BY <1>1, <1>2

LEMMA SpillDigits ==
    ASSUME NEW base \in {58, 256}, NEW carry \in 0..255
    PROVE  Spill(carry, base) = SpillOf(carry, base)
<1> DEFINE D    == 0..carry
           Q(c) == c \div base
           R(c) == c % base
           J(r, s) == <<r>> \o s
           F(f) == [c \in D |-> IF c = 0 THEN <<>> ELSE J(R(c), f[Q(c)])]
           G(c) == IF c = 0 THEN <<>> ELSE IF c < base THEN <<c>> ELSE <<R(c), Q(c)>>
           g    == [c \in D |-> G(c)]
           f    == CHOOSE h : h = F(h)
<1>1. ASSUME NEW c \in D, c # 0
      PROVE  /\ Q(c) \in D /\ Q(c) < base /\ Q(c) \in Nat /\ R(c) \in Nat
             /\ c < base => Q(c) = 0 /\ R(c) = c
             /\ c >= base => Q(c) # 0
    BY <1>1
<1>2. 0 \in D /\ carry \in D /\ \A c \in D : c \in Nat
    OBVIOUS
<1>3. \A a \in Nat, b \in Nat : J(a, <<>>) = <<a>> /\ J(a, <<b>>) = <<a, b>>
    BY Concatenated
<1>4. SpillOf(carry, base) = G(carry)
    BY DEF SpillOf
<1>5. Spill(carry, base) = f[carry]
    BY DEF Spill
<1> HIDE DEF D, Q, R, J
<1>6. ASSUME NEW c \in D PROVE G(c) = IF c = 0 THEN <<>> ELSE J(R(c), G(Q(c)))
  <2>1. CASE c # 0 /\ c < base
      BY <1>1, <1>2, <1>3, <2>1
  <2>2. CASE c # 0 /\ ~(c < base)
    <3>1. G(Q(c)) = <<Q(c)>> /\ G(c) = <<R(c), Q(c)>>
        BY <1>1, <1>2, <2>2
    <3> HIDE DEF G
    <3> QED
        BY <1>1, <1>3, <2>2, <3>1
  <2> QED
      BY <2>1, <2>2
<1> HIDE DEF G
<1>7. g = F(g)
  <2>1. \A c \in D : c # 0 => g[Q(c)] = G(Q(c))
      BY <1>1
  <2>2. F(g) = [c \in D |-> IF c = 0 THEN <<>> ELSE J(R(c), G(Q(c)))]
      BY <2>1
  <2> QED
      BY <1>6, <2>2
<1>8. \E h : h = F(h)
    BY <1>7
<1> HIDE DEF F
<1>9. f = F(f)
    BY <1>8, Zenon
<1> HIDE DEF f
<1>10. ASSUME NEW c \in D PROVE f[c] = IF c = 0 THEN <<>> ELSE J(R(c), f[Q(c)])
  <2>1. f[c] = F(f)[c]
      BY <1>9, Zenon
  <2> QED
      BY <2>1 DEF F
<1>11. ASSUME NEW c \in D, c < base PROVE f[c] = G(c)
  <2>1. f[0] = G(0)
      BY <1>2, <1>6, <1>10
  <2>2. CASE c # 0
    <3>1. Q(c) = 0
        BY <1>1, <1>11, <2>2
    <3> QED
        BY <1>6, <1>10, <2>1, <2>2, <3>1
  <2> QED
      BY <2>1, <2>2
<1>12. CASE carry < base
    BY <1>2, <1>4, <1>5, <1>11, <1>12
<1>13. CASE ~(carry < base)
  <2>1. carry # 0 /\ Q(carry) \in D /\ Q(carry) < base
      BY <1>1, <1>2, <1>13
  <2>2. f[Q(carry)] = G(Q(carry))
      BY <1>11, <2>1
  <2>3. f[carry] = G(carry)
      BY <1>2, <1>6, <1>10, <2>1, <2>2
  <2> QED
      BY <1>4, <1>5, <2>3
<1> QED
    BY <1>12, <1>13

LEMMA CarryBound ==
    ASSUME NEW from, NEW to, Bases(from, to), NEW x \in 0..(to - 1), NEW y \in 0..(from - 1)
    PROVE  (x * from + y) \div to \in 0..(from - 1)
BY DEF Bases

\* What the carries are, without the recursion.
AreCarries(c, d, from, to, unit) ==
    /\ c \in [0..Len(d) -> 0..(from - 1)]
    /\ c[0] = unit
    /\ \A i \in 1..Len(d) : c[i] = (d[i] * from + c[i - 1]) \div to

LEMMA CarriesStep ==
    ASSUME NEW from, NEW to, Bases(from, to), NEW d \in Seq(0..(to - 1)), NEW unit \in 0..(from - 1)
    PROVE  AreCarries(Carries(d, from, to, unit), d, from, to, unit)
<1> DEFINE n == Len(d)
           S == 0..(from - 1)
           step == [x \in (1..n) \X S |-> (d[x[1]] * from + x[2]) \div to]
           F(h) == [i \in 0..n |-> IF i = 0 THEN unit ELSE (d[i] * from + h[i - 1]) \div to]
<1>1. n \in Nat /\ \A i \in 1..n : d[i] \in 0..(to - 1)
    BY DEF Bases
<1>2. ASSUME NEW i \in 1..n, NEW c \in S PROVE (d[i] * from + c) \div to \in S
  <2> HIDE DEF F, step
  <2> QED
    BY <1>1, CarryBound
<1>3. step \in [(1..n) \X S -> S]
    BY <1>2
<1>4. PICK g \in [0..n -> S] : g[0] = unit /\ \A i \in 1..n : g[i] = step[<<i, g[i - 1]>>]
  <2>1. unit \in S
    OBVIOUS
  <2> HIDE DEF step, n, S
  <2>2. Iterable(n, S, unit, step)
    BY <1>1, <1>3, <2>1, Iteration, Zenon
  <2> QED
    BY <2>2 DEF Iterable
<1>5. ASSUME NEW i \in 1..n PROVE g[i] = (d[i] * from + g[i - 1]) \div to
  <2>1. i - 1 \in 0..n /\ g[i - 1] \in S
    BY <1>1
  <2>2. step[<<i, g[i - 1]>>] = (d[i] * from + g[i - 1]) \div to
    BY <2>1
  <2> QED
    BY <1>4, <2>2
<1>6. g = F(g)
  <2>1. \A i \in 0..n : g[i] = F(g)[i]
      BY <1>1, <1>4, <1>5
  <2> QED
      BY <2>1
<1> HIDE DEF F
<1>7. \E h : h = F(h)
    BY <1>6, Zenon
<1> DEFINE H == Carries(d, from, to, unit)
<1>8. H = F(H)
  <2>1. H = CHOOSE h : h = F(h)
      BY DEF Carries, F
  <2> QED
      BY <1>7, <2>1, Zenon
<1> HIDE DEF H
<1>9. /\ H = [i \in 0..n |-> H[i]]
      /\ H[0] = unit
      /\ \A i \in 1..n : H[i] = (d[i] * from + H[i - 1]) \div to
    BY <1>1, <1>8 DEF F
<1> DEFINE T == {i \in 0..n : H[i] \in S}
<1>10. 0..n \subseteq T
  <2>1. 0 \in T
      BY <1>1, <1>9
  <2>2. ASSUME NEW i \in 0..(n - 1), i \in T PROVE i + 1 \in T
    <3>1. i + 1 \in 1..n /\ (i + 1) - 1 = i /\ H[i] \in S
        BY <2>2, <1>1
    <3>2. H[i + 1] = (d[i + 1] * from + H[(i + 1) - 1]) \div to
        BY <3>1, <1>9
    <3>3. H[i + 1] \in S
        BY <3>1, <3>2, <1>2
    <3> QED
        BY <3>1, <3>3, <1>1
  <2> HIDE DEF T
  <2> QED
      BY <1>1, <2>1, <2>2, Induction
<1>11. H \in [0..n -> S]
    BY <1>9, <1>10
<1> QED
    BY <1>9, <1>11 DEF H, AreCarries

\* Digits as the code keeps them: at least one, and no zero at the top of more.
Canonical(d) == Len(d) >= 1 /\ (Len(d) = 1 \/ d[Len(d)] # 0)

LEMMA ReverseDigits ==
    ASSUME NEW S, NEW d \in Seq(S)
    PROVE  /\ Reverse(d) \in Seq(S) /\ Len(Reverse(d)) = Len(d)
           /\ \A i \in 1..Len(d) : Reverse(d)[i] = d[(Len(d) - i) + 1]
<1>1. \A i \in 1..Len(d) : (Len(d) - i) + 1 \in 1..Len(d)
    OBVIOUS
<1> QED
    BY <1>1 DEF Reverse

LEMMA Basis ==
    ASSUME NEW from, NEW to, Bases(from, to)
    PROVE  /\ from \in {58, 256} /\ to \in {58, 256} /\ 0..(from - 1) \subseteq 0..255
           /\ from - 1 \in Nat /\ to - 1 \in Nat
BY DEF Bases

\* What the digits of a carry are.
IsSpill(sp, c, base) ==
    /\ sp \in Seq(0..(base - 1)) /\ Len(sp) \in 0..2
    /\ c = 0 <=> sp = <<>>
    /\ Len(sp) > 0 => sp[Len(sp)] # 0
    /\ Horner(Reverse(sp), base)[Len(sp)] = c

LEMMA SpillFacts ==
    ASSUME NEW base \in {58, 256}, NEW c \in 0..255
    PROVE  IsSpill(Spill(c, base), c, base)
<1> DEFINE sp == Spill(c, base)
           S  == 0..(base - 1)
           t  == Reverse(sp)
           H  == Horner(t, base)
           q  == c \div base
           r  == c % base
<1>1. sp = IF c = 0 THEN <<>> ELSE IF c < base THEN <<c>> ELSE <<r, q>>
  <2>1. sp = SpillOf(c, base)
      BY SpillDigits
  <2> HIDE DEF sp
  <2> QED
      BY <2>1, Zenon DEF SpillOf
<1>2. r \in S /\ c = q * base + r /\ (c >= base => q \in S /\ q # 0) /\ (c < base => c \in S)
    OBVIOUS
<1> HIDE DEF sp, r, q
<1>3. sp \in Seq(S)
  <2>1. <<>> \in Seq(S) /\ (c < base => <<c>> \in Seq(S)) /\ (c >= base => <<r, q>> \in Seq(S))
      BY <1>2
  <2> HIDE DEF S
  <2> QED
      BY <1>1, <2>1
<1>4. t \in Seq(S) /\ Len(t) = Len(sp) /\ \A i \in 1..Len(sp) : t[i] = sp[(Len(sp) - i) + 1]
  <2> HIDE DEF S
  <2> QED
      BY <1>3, ReverseDigits
<1> HIDE DEF t
<1>5. H[0] = 0 /\ \A k \in 1..Len(t) : H[k] = H[k - 1] * base + t[k]
  <2>1. IsHorner(H, t, base)
      BY <1>4, HornerStep
  <2> QED
      BY <2>1 DEF IsHorner
<1> HIDE DEF H
<1>6. sp \in Seq(S) /\ Len(sp) \in 0..2 /\ (c = 0 <=> sp = <<>>)
         /\ (Len(sp) > 0 => sp[Len(sp)] # 0) /\ H[Len(sp)] = c
  <2>1. CASE c = 0
    <3>1. sp = <<>> /\ Len(sp) = 0
        BY <1>1, <2>1
    <3> QED
        BY <1>3, <1>5, <2>1, <3>1
  <2>2. CASE c # 0 /\ c < base
    <3>1. sp = <<c>> /\ Len(sp) = 1 /\ sp[1] = c
        BY <1>1, <2>2
    <3>2. t[1] = c
        BY <1>4, <3>1
    <3>3. H[1] = H[1 - 1] * base + t[1]
        BY <1>4, <1>5, <3>1
    <3>4. H[1] = c
        BY <1>5, <3>2, <3>3
    <3> QED
        BY <1>3, <2>2, <3>1, <3>4
  <2>3. CASE ~(c < base)
    <3>1. sp = <<r, q>> /\ Len(sp) = 2 /\ sp[1] = r /\ sp[2] = q /\ c # 0
        BY <1>1, <2>3
    <3>2. t[1] = q /\ t[2] = r
        BY <1>4, <3>1
    <3>3. H[1] = H[1 - 1] * base + t[1] /\ H[2] = H[2 - 1] * base + t[2]
        BY <1>4, <1>5, <3>1
    <3>4. H[1] = q
        BY <1>2, <1>5, <2>3, <3>2, <3>3
    <3>5. H[2] = c
        BY <1>2, <3>2, <3>3, <3>4
    <3> QED
        BY <1>2, <1>3, <2>3, <3>1, <3>5
  <2> QED
      BY <2>1, <2>2, <2>3
<1> QED
    BY <1>6 DEF sp, t, H, IsSpill

LEMMA CarrySplit ==
    ASSUME NEW from, NEW to, Bases(from, to), NEW x \in 0..(to - 1), NEW y \in 0..(from - 1)
    PROVE  LET z == x * from + y
           IN  z = (z \div to) * to + (z % to) /\ z % to \in 0..(to - 1) /\ z \in Nat
BY DEF Bases

LEMMA CarrySum ==
    ASSUME NEW from, NEW to, Bases(from, to), NEW w \in Nat, NEW x \in Nat, NEW y \in Nat,
           NEW q \in Nat, NEW r \in Nat, x * from + y = q * to + r
    PROVE  (from * w + q) * to + r = from * (w * to + x) + y
BY DEF Bases

LEMMA CarryNonzero ==
    ASSUME NEW from, NEW to, Bases(from, to), NEW x \in 0..(to - 1), NEW y \in 0..(from - 1), x # 0
    PROVE  x * from + y # 0 /\ 0 * to = 0
BY DEF Bases

LEMMA ShiftNumber ==
    ASSUME NEW from, NEW to, Bases(from, to), NEW d \in Seq(0..(to - 1)), NEW unit \in 0..(from - 1)
    PROVE  LET e == Shift(d, from, to, unit)
           IN  /\ e \in Seq(0..(to - 1)) /\ (Canonical(d) => Canonical(e))
               /\ Number(Reverse(e), to) = from * Number(Reverse(d), to) + unit
<1> DEFINE S   == 0..(to - 1)
           n   == Len(d)
           c   == Carries(d, from, to, unit)
           out == [i \in 1..n |-> (d[i] * from + c[i - 1]) % to]
           sp  == Spill(c[n], to)
           m   == Len(sp)
           e   == out \o sp
           re  == Reverse(e)
           rd  == Reverse(d)
           rs  == Reverse(sp)
           H   == Horner(re, to)
           W   == Horner(rd, to)
           P   == Horner(rs, to)
<1>1. Shift(d, from, to, unit) = e
    BY DEF Shift
<1>2. from \in {58, 256} /\ to \in {58, 256} /\ 0..(from - 1) \subseteq 0..255
    BY Basis
<1>3. n \in Nat /\ \A i \in 1..n : d[i] \in S
    BY <1>2
<1>4. AreCarries(c, d, from, to, unit)
    BY CarriesStep
<1> HIDE DEF c
<1>5. /\ c[0] = unit
      /\ \A i \in 0..n : c[i] \in 0..(from - 1)
      /\ \A i \in 1..n : c[i] = (d[i] * from + c[i - 1]) \div to
    BY <1>4 DEF AreCarries
<1> DEFINE x(i) == d[i] * from + c[i - 1]
<1>6. ASSUME NEW i \in 1..n
      PROVE  x(i) = c[i] * to + (x(i) % to) /\ x(i) % to \in S /\ x(i) \in Nat
  <2>1. i - 1 \in 0..n
      BY <1>3
  <2>2. d[i] \in 0..(to - 1) /\ c[i - 1] \in 0..(from - 1) /\ c[i] = x(i) \div to
      BY <1>3, <1>5, <2>1
  <2>3. x(i) = (x(i) \div to) * to + (x(i) % to) /\ x(i) % to \in 0..(to - 1) /\ x(i) \in Nat
      BY <2>2, CarrySplit
  <2> QED
      BY <2>2, <2>3
<1> HIDE DEF S
<1>7. out \in Seq(S) /\ Len(out) = n /\ \A i \in 1..n : out[i] = x(i) % to
    BY <1>3, <1>6
<1> HIDE DEF out
<1>8. c[n] \in 0..(from - 1) /\ c[n] \in 0..255
  <2>1. n \in 0..n
      BY <1>3
  <2>2. c[n] \in 0..(from - 1)
      BY <1>5, <2>1
  <2>3. \A y \in 0..(from - 1) : y \in 0..255
      BY <1>2
  <2> QED
      BY <2>2, <2>3
<1>9. sp \in Seq(S) /\ m \in Nat /\ (c[n] = 0 <=> sp = <<>>) /\ (m > 0 => sp[m] # 0) /\ P[m] = c[n]
  <2>1. sp \in Seq(S) /\ m \in 0..2 /\ (c[n] = 0 <=> sp = <<>>) /\ (m > 0 => sp[m] # 0) /\ P[m] = c[n]
    <3>1. IsSpill(sp, c[n], to)
      <4> DEFINE last == c[n]
      <4>1. last \in 0..255 /\ to \in {58, 256}
          BY <1>2, <1>8
      <4> HIDE DEF last
      <4>2. IsSpill(Spill(last, to), last, to)
          BY <4>1, SpillFacts
      <4> QED
          BY <4>2 DEF last
    <3> HIDE DEF sp
    <3> QED
        BY <3>1 DEF IsSpill, S
  <2> QED
      BY <2>1
<1> HIDE DEF sp
<1>10. /\ e \in Seq(S) /\ Len(e) = n + m
       /\ \A i \in 1..n : e[i] = out[i]
       /\ \A i \in 1..m : e[n + i] = sp[i]
    BY <1>3, <1>7, <1>9
<1> HIDE DEF e
<1>11. /\ re \in Seq(S) /\ Len(re) = n + m /\ \A i \in 1..(n + m) : re[i] = e[((n + m) - i) + 1]
       /\ rd \in Seq(S) /\ Len(rd) = n /\ \A i \in 1..n : rd[i] = d[(n - i) + 1]
       /\ rs \in Seq(S) /\ Len(rs) = m /\ \A i \in 1..m : rs[i] = sp[(m - i) + 1]
  <2>1. d \in Seq(S)
      BY DEF S
  <2>2. re \in Seq(S) /\ Len(re) = Len(e) /\ \A i \in 1..Len(e) : re[i] = e[(Len(e) - i) + 1]
      BY <1>10, ReverseDigits
  <2>3. rd \in Seq(S) /\ Len(rd) = Len(d) /\ \A i \in 1..Len(d) : rd[i] = d[(Len(d) - i) + 1]
      BY <2>1, ReverseDigits
  <2>4. rs \in Seq(S) /\ Len(rs) = Len(sp) /\ \A i \in 1..Len(sp) : rs[i] = sp[(Len(sp) - i) + 1]
      BY <1>9, ReverseDigits
  <2> QED
      BY <1>10, <2>2, <2>3, <2>4
<1> HIDE DEF re, rd, rs
<1>12. IsHorner(H, re, to) /\ IsHorner(W, rd, to) /\ IsHorner(P, rs, to)
    BY <1>2, <1>11, HornerStep DEF S
<1> HIDE DEF H, W, P
<1>13. /\ H[0] = 0 /\ \A k \in 1..(n + m) : H[k] = H[k - 1] * to + re[k]
       /\ W[0] = 0 /\ (\A k \in 1..n : W[k] = W[k - 1] * to + rd[k]) /\ \A k \in 0..n : W[k] \in Nat
       /\ P[0] = 0 /\ \A k \in 1..m : P[k] = P[k - 1] * to + rs[k]
    BY <1>11, <1>12 DEF IsHorner
\* The spilt digits come first and write the last carry; each digit after
\* them then adds its own carry, down to the unit.
<1>14. /\ \A j \in 1..n : re[m + j] = x((n - j) + 1) % to /\ rd[j] = d[(n - j) + 1]
       /\ \A j \in 1..m : re[j] = rs[j]
  <2>1. ASSUME NEW j \in 1..n PROVE re[m + j] = x((n - j) + 1) % to
    <3>1. m + j \in 1..(n + m) /\ ((n + m) - (m + j)) + 1 = (n - j) + 1 /\ (n - j) + 1 \in 1..n
        BY <1>3, <1>9
    <3>2. re[m + j] = e[(n - j) + 1] /\ e[(n - j) + 1] = out[(n - j) + 1]
        BY <3>1, <1>10, <1>11
    <3> QED
        BY <3>1, <3>2, <1>7
  <2>2. ASSUME NEW j \in 1..m PROVE re[j] = rs[j]
    <3>1. j \in 1..(n + m) /\ ((n + m) - j) + 1 = n + ((m - j) + 1) /\ (m - j) + 1 \in 1..m
        BY <1>3, <1>9
    <3>2. re[j] = e[n + ((m - j) + 1)] /\ e[n + ((m - j) + 1)] = sp[(m - j) + 1]
        BY <3>1, <1>10, <1>11
    <3> QED
        BY <3>2, <1>11
  <2> QED
      BY <2>1, <2>2, <1>11
<1> HIDE DEF x
<1>15. H[m] = c[n]
  <2> DEFINE T == {k \in 0..m : H[k] = P[k]}
  <2>1. 0 \in T
      BY <1>9, <1>13
  <2>2. ASSUME NEW k \in 0..(m - 1), k \in T PROVE k + 1 \in T
    <3>1. k + 1 \in 1..m /\ k + 1 \in 1..(n + m) /\ (k + 1) - 1 = k
        BY <1>3, <1>9
    <3>2. H[k + 1] = H[k] * to + re[k + 1] /\ P[k + 1] = P[k] * to + rs[k + 1]
        BY <3>1, <1>13
    <3>3. re[k + 1] = rs[k + 1] /\ H[k] = P[k]
        BY <2>2, <3>1, <1>14
    <3> QED
        BY <3>1, <3>2, <3>3
  <2> HIDE DEF T
  <2>3. 0..m \subseteq T
      BY <1>9, <2>1, <2>2, Induction
  <2>4. m \in T
      BY <1>9, <2>3
  <2> QED
      BY <1>9, <2>4 DEF T
<1> DEFINE Q(j) == H[m + j] = from * W[j] + c[n - j]
           T    == {j \in 0..n : Q(j)}
<1>16. 0 \in T
  <2>1. n - 0 = n /\ m + 0 = m /\ 0 \in 0..n
      BY <1>3, <1>9
  <2>2. from * 0 + c[n] = c[n]
      BY <1>2, <1>8
  <2> QED
      BY <1>13, <1>15, <2>1, <2>2
<1>17. ASSUME NEW j \in 0..(n - 1), j \in T PROVE j + 1 \in T
  <2> DEFINE i == n - j
  <2>1. /\ i \in 1..n /\ j + 1 \in 1..n /\ j + 1 \in 0..n /\ j \in 0..n /\ m + (j + 1) \in 1..(n + m)
        /\ (m + (j + 1)) - 1 = m + j /\ (j + 1) - 1 = j /\ (n - (j + 1)) + 1 = i /\ n - (j + 1) = i - 1
        /\ i - 1 \in 0..n
      BY <1>3, <1>9
  <2> HIDE DEF i
  <2>2. H[m + (j + 1)] = H[m + j] * to + re[m + (j + 1)] /\ W[j + 1] = W[j] * to + rd[j + 1]
      BY <2>1, <1>13
  <2>3. re[m + (j + 1)] = x(i) % to /\ rd[j + 1] = d[i]
      BY <2>1, <1>14
  <2>4. H[m + j] = from * W[j] + c[i]
      BY <1>17, <2>1 DEF i
  <2>5. x(i) = c[i] * to + (x(i) % to) /\ x(i) = d[i] * from + c[i - 1] /\ x(i) % to \in Nat
      BY <2>1, <1>6, <1>2 DEF x, S
  <2>6. W[j] \in Nat /\ c[i] \in Nat /\ c[i - 1] \in Nat /\ d[i] \in Nat
      BY <2>1, <1>2, <1>3, <1>5, <1>13 DEF S
  <2> DEFINE w == W[j]  ci == c[i]  cj == c[i - 1]  di == d[i]  r == x(i) % to
  <2>7. (from * w + ci) * to + r = from * (w * to + di) + cj
    <3>1. di * from + cj = ci * to + r /\ w \in Nat /\ ci \in Nat /\ cj \in Nat /\ di \in Nat /\ r \in Nat
        BY <2>5, <2>6
    <3> HIDE DEF w, ci, cj, di, r
    <3> QED
        BY <3>1, CarrySum
  <2>8. Q(j + 1)
      BY <2>1, <2>2, <2>3, <2>4, <2>7
  <2> QED
      BY <2>1, <2>8
<1>18. n \in T
  <2> HIDE DEF T
  <2>1. 0..n \subseteq T
      BY <1>3, <1>16, <1>17, Induction
  <2> QED
      BY <1>3, <2>1
<1>19. Number(re, to) = from * Number(rd, to) + unit
  <2>1. n - n = 0 /\ m + n = n + m
      BY <1>3, <1>9
  <2>2. H[n + m] = from * W[n] + unit
      BY <1>5, <1>18, <2>1
  <2> QED
      BY <2>2, <1>11 DEF Number, H, W
<1>20. Canonical(d) => Canonical(e)
  <2> SUFFICES ASSUME Canonical(d) PROVE Canonical(e)
      OBVIOUS
  <2>1. n >= 1 /\ n \in 1..n /\ (n = 1 \/ d[n] # 0)
      BY <1>3 DEF Canonical
  <2>2. CASE m > 0
    <3>1. m \in 1..m /\ e[n + m] = sp[m] /\ sp[m] # 0
        BY <1>9, <1>10, <2>2
    <3> QED
        BY <1>3, <1>9, <1>10, <2>1, <3>1 DEF Canonical
  <2>3. CASE m = 0
    <3>1. Len(e) = n /\ e[n] = x(n) % to /\ c[n] = 0
        BY <1>3, <1>7, <1>9, <1>10, <2>1, <2>3
    <3>2. CASE d[n] # 0
      <4>1. c[n - 1] \in 0..(from - 1) /\ d[n] \in 0..(to - 1)
        <5>1. n - 1 \in 0..n
            BY <2>1
        <5> QED
            BY <1>3, <1>5, <2>1, <5>1 DEF S
      <4>2. x(n) # 0 /\ 0 * to = 0
          BY <4>1, <3>2, CarryNonzero DEF x
      <4>3. x(n) % to # 0
        <5>1. x(n) = 0 * to + (x(n) % to) /\ x(n) \in Nat
            BY <1>6, <2>1, <3>1
        <5> QED
            BY <4>2, <5>1
      <4> QED
          BY <2>1, <3>1, <4>3 DEF Canonical
    <3>3. CASE d[n] = 0
        BY <2>1, <3>1, <3>3 DEF Canonical
    <3> QED
        BY <3>2, <3>3
  <2> QED
      BY <1>9, <2>2, <2>3
<1> QED
    BY <1>1, <1>10, <1>19, <1>20 DEF re, rd, S

-----------------------------------------------------------------------------
(* All the bytes or characters. *)

LEMMA DigitsStep ==
    ASSUME NEW from, NEW to, Bases(from, to), NEW s \in Seq(0..(from - 1))
    PROVE  LET D == Digits(s, from, to)
           IN  /\ D[0] = <<0>>
               /\ \A k \in 1..Len(s) : D[k] = Shift(D[k - 1], from, to, s[k])
<1> DEFINE n == Len(s)
           S == Seq(0..(to - 1))
           A(d, k) == Shift(d, from, to, s[k])
           step == [x \in (1..n) \X S |-> A(x[2], x[1])]
           F(h) == [k \in 0..n |-> IF k = 0 THEN <<0>> ELSE A(h[k - 1], k)]
           H == Digits(s, from, to)
<1>1. n \in Nat /\ \A k \in 1..n : s[k] \in 0..(from - 1)
    BY Basis
<1>2. H = CHOOSE h : h = F(h)
    BY DEF Digits
<1>3. ASSUME NEW k \in 1..n, NEW d \in S PROVE A(d, k) \in S
  <2> DEFINE u == s[k]
  <2>1. u \in 0..(from - 1)
    BY <1>1
  <2> HIDE DEF u
  <2>2. Shift(d, from, to, u) \in S
    BY <2>1, ShiftNumber
  <2> QED
    BY <2>2 DEF u
<1>4. <<0>> \in S
  <2>1. 0 \in 0..(to - 1)
    BY DEF Bases
  <2> QED
    BY <2>1
<1> HIDE DEF A, S, H
<1>5. step \in [(1..n) \X S -> S]
    BY <1>3
<1>6. PICK g \in [0..n -> S] : g[0] = <<0>> /\ \A k \in 1..n : g[k] = step[<<k, g[k - 1]>>]
  <2> HIDE DEF step, n
  <2>1. Iterable(n, S, <<0>>, step)
    BY <1>1, <1>4, <1>5, Iteration, Zenon
  <2> QED
    BY <2>1 DEF Iterable
<1>7. ASSUME NEW k \in 1..n PROVE g[k] = A(g[k - 1], k)
  <2>1. k - 1 \in 0..n /\ g[k - 1] \in S
    BY <1>1
  <2>2. step[<<k, g[k - 1]>>] = A(g[k - 1], k)
    BY <2>1
  <2> QED
    BY <1>6, <2>2
<1>8. g = F(g)
  <2>1. ASSUME NEW k \in 0..n PROVE g[k] = F(g)[k]
    <3>1. CASE k = 0
        BY <1>6, <3>1
    <3>2. CASE k # 0
      <4>1. k \in 1..n
          BY <1>1, <3>2
      <4> QED
          BY <1>7, <3>2, <4>1
    <3> QED
        BY <3>1, <3>2
  <2> QED
      BY <2>1
<1>9. H = F(H)
  <2> HIDE DEF F
  <2>1. \E h : h = F(h)
      BY <1>8, Zenon
  <2> QED
      BY <1>2, <2>1, Zenon
<1>10. ASSUME NEW k \in 0..n PROVE H[k] = IF k = 0 THEN <<0>> ELSE A(H[k - 1], k)
  <2>1. H[k] = F(H)[k]
    <3> HIDE DEF F
    <3> QED
      BY <1>9, Zenon
  <2> HIDE DEF n
  <2> QED
      BY <2>1, Zenon
<1>11. H[0] = <<0>> /\ \A k \in 1..n : H[k] = A(H[k - 1], k)
    BY <1>1, <1>10
<1> QED
    BY <1>11 DEF A, H

LEMMA DigitsNumber ==
    ASSUME NEW from, NEW to, Bases(from, to), NEW s \in Seq(0..(from - 1)), NEW k \in 0..Len(s)
    PROVE  LET d == Digits(s, from, to)[k]
           IN  /\ d \in Seq(0..(to - 1)) /\ Canonical(d)
               /\ Number(Reverse(d), to) = Horner(s, from)[k]
<1> DEFINE n == Len(s)
           S == 0..(to - 1)
           D == Digits(s, from, to)
           H == Horner(s, from)
           V(d) == Number(Reverse(d), to)
           Good(i) == D[i] \in Seq(S) /\ Canonical(D[i]) /\ V(D[i]) = H[i]
           T == {i \in 0..n : Good(i)}
<1>1. from \in {58, 256} /\ to \in {58, 256} /\ 0 \in S
    BY DEF Bases
<1>2. n \in Nat /\ \A i \in 1..n : s[i] \in 0..(from - 1)
    BY <1>1
<1>3. D[0] = <<0>> /\ \A i \in 1..n : D[i] = Shift(D[i - 1], from, to, s[i])
    BY DigitsStep
<1>4. H[0] = 0 /\ \A i \in 1..n : H[i] = H[i - 1] * from + s[i]
  <2>1. IsHorner(H, s, from)
      BY <1>1, HornerStep
  <2> HIDE DEF H
  <2> QED
      BY <2>1 DEF IsHorner
<1>5. Good(0)
  <2> DEFINE d == <<0>>
  <2>1. d \in Seq(S) /\ Len(d) = 1 /\ d[1] = 0
      BY <1>1
  <2> HIDE DEF S, d
  <2>2. Reverse(d) \in Seq(S) /\ Len(Reverse(d)) = 1 /\ Reverse(d)[1] = d[(1 - 1) + 1]
      BY <2>1, ReverseDigits
  <2> DEFINE h == Horner(Reverse(d), to)
  <2>3. IsHorner(h, Reverse(d), to)
      BY <1>1, <2>2, HornerStep DEF S
  <2> HIDE DEF h
  <2>4. h[0] = 0 /\ h[1] = h[1 - 1] * to + Reverse(d)[1]
      BY <2>2, <2>3 DEF IsHorner
  <2>5. h[1] = 0
      BY <1>1, <2>1, <2>2, <2>4
  <2>6. V(d) = 0 /\ Canonical(d)
      BY <2>1, <2>2, <2>5 DEF Number, h, Canonical
  <2> QED
      BY <1>3, <1>4, <2>1, <2>6 DEF d
<1>6. ASSUME NEW i \in 0..(n - 1), i \in T PROVE i + 1 \in T
  <2> DEFINE d == D[i]
             u == s[i + 1]
             e == Shift(d, from, to, u)
  <2>1. i + 1 \in 1..n /\ i + 1 \in 0..n /\ (i + 1) - 1 = i
      BY <1>2
  <2>2. d \in Seq(S) /\ Canonical(d) /\ V(d) = H[i]
      BY <1>6
  <2>3. u \in 0..(from - 1)
      BY <1>2, <2>1
  <2>4. D[i + 1] = e /\ H[i + 1] = H[i] * from + u
      BY <2>1, <1>3, <1>4
  <2> HIDE DEF d, u
  <2>5. e \in Seq(S) /\ Canonical(e) /\ V(e) = from * V(d) + u
      BY <2>2, <2>3, ShiftNumber
  <2>6. H[i] \in Nat
    <3>1. IsHorner(H, s, from)
        BY <1>1, HornerStep
    <3> HIDE DEF H
    <3> QED
        BY <2>1, <3>1 DEF IsHorner
  <2>7. from * V(d) + u = H[i] * from + u
      BY <1>1, <2>2, <2>6
  <2>8. Good(i + 1)
      BY <2>4, <2>5, <2>7
  <2> QED
      BY <2>1, <2>8
<1>7. k \in T
  <2>1. 0 \in T
      BY <1>2, <1>5
  <2> HIDE DEF T
  <2>2. 0..n \subseteq T
      BY <1>2, <2>1, <1>6, Induction
  <2> QED
      BY <2>2
<1> QED
    BY <1>7

-----------------------------------------------------------------------------
(* A number is written in one way without zeroes before it. *)

Leads(s) == Len(s) >= 1 /\ s[1] # 0

BothBases == {58, 256}

LEMMA NumberPositive ==
    ASSUME NEW base \in BothBases, NEW s \in Seq(0..(base - 1)), Leads(s), NEW k \in 1..Len(s)
    PROVE  Horner(s, base)[k] > 0
<1>0. base \in {58, 256}
    BY DEF BothBases
<1> DEFINE n == Len(s)
           H == Horner(s, base)
           T == {i \in 0..n : i = 0 \/ H[i] > 0}
<1>1. IsHorner(H, s, base)
    BY <1>0, HornerStep
<1> HIDE DEF H
<1>2. H[0] = 0 /\ (\A i \in 0..n : H[i] \in Nat) /\ \A i \in 1..n : H[i] = H[i - 1] * base + s[i]
    BY <1>1 DEF IsHorner
<1>3. n \in Nat /\ k \in 1..n /\ (\A i \in 1..n : s[i] \in Nat) /\ s[1] # 0
    BY <1>0 DEF Leads
<1> HIDE DEF n
<1>4. 0 \in T
    BY <1>3
<1>5. ASSUME NEW i \in 0..(n - 1), i \in T PROVE i + 1 \in T
  <2> DEFINE a == H[i]  b == s[i + 1]
  <2>1. i + 1 \in 1..n /\ i + 1 \in 0..n /\ (i + 1) - 1 = i /\ i \in 0..n
      BY <1>3
  <2>2. H[i + 1] = a * base + b /\ a \in Nat /\ b \in Nat
      BY <1>2, <1>3, <2>1
  <2>3. a > 0 \/ b > 0
      BY <1>3, <1>5, <2>1, <2>2
  <2> HIDE DEF a, b
  <2>4. a * base + b > 0
      BY <1>0, <2>2, <2>3
  <2> QED
      BY <2>1, <2>2, <2>4
<1>6. 0..n \subseteq T
  <2>1. n \in Nat
      BY <1>3
  <2> HIDE DEF T
  <2> QED
      BY <2>1, <1>4, <1>5, Induction
<1>7. k \in T /\ k # 0
  <2> HIDE DEF T
  <2> QED
      BY <1>3, <1>6
<1> QED
    BY <1>7 DEF H

LEMMA LastDigit ==
    ASSUME NEW base \in BothBases, NEW p \in Nat, NEW q \in Nat,
           NEW a \in 0..(base - 1), NEW b \in 0..(base - 1), p * base + a = q * base + b
    PROVE  p = q /\ a = b
BY DEF BothBases

LEMMA NumberUnique ==
    ASSUME NEW base \in BothBases, NEW x \in Seq(0..(base - 1)), NEW y \in Seq(0..(base - 1)),
           Leads(x), Leads(y), Number(x, base) = Number(y, base), Len(x) <= Len(y)
    PROVE  x = y
<1>0. base \in {58, 256}
    BY DEF BothBases
<1> DEFINE n == Len(x)
           m == Len(y)
           X == Horner(x, base)
           Y == Horner(y, base)
           T == {j \in 0..n : X[n - j] = Y[m - j]}
<1>1. IsHorner(X, x, base) /\ IsHorner(Y, y, base)
    BY <1>0, HornerStep
<1>2. X[n] = Y[m]
    BY DEF Number
<1>3. Y[m - n] > 0 \/ m = n
  <2>1. m - n \in 1..m \/ m = n
      BY DEF Leads
  <2>2. ASSUME NEW k \in 1..m PROVE Y[k] > 0
      BY NumberPositive, Zenon
  <2> HIDE DEF Y, m, n
  <2> QED
      BY <2>1, <2>2
<1> HIDE DEF X, Y
<1>4. /\ n \in Nat /\ m \in Nat /\ n >= 1 /\ n <= m
      /\ \A i \in 1..n : x[i] \in 0..(base - 1)
      /\ \A i \in 1..m : y[i] \in 0..(base - 1)
    BY <1>0 DEF Leads
<1>5. /\ X[0] = 0 /\ (\A i \in 0..n : X[i] \in Nat) /\ \A i \in 1..n : X[i] = X[i - 1] * base + x[i]
      /\ Y[0] = 0 /\ (\A i \in 0..m : Y[i] \in Nat) /\ \A i \in 1..m : Y[i] = Y[i - 1] * base + y[i]
    BY <1>1 DEF IsHorner
<1>6. ASSUME NEW j \in 0..(n - 1), j \in T
      PROVE  j + 1 \in T /\ x[n - j] = y[m - j]
  <2> DEFINE a == n - j
             b == m - j
  <2>1. a \in 1..n /\ b \in 1..m /\ a - 1 \in 0..n /\ b - 1 \in 0..m /\ j + 1 \in 0..n
           /\ n - (j + 1) = a - 1 /\ m - (j + 1) = b - 1
      BY <1>4
  <2>2. X[a] = Y[b]
      BY <1>6
  <2> HIDE DEF a, b
  <2>3. X[a] = X[a - 1] * base + x[a] /\ Y[b] = Y[b - 1] * base + y[b]
      BY <2>1, <1>5
  <2>4. X[a - 1] \in Nat /\ Y[b - 1] \in Nat /\ x[a] \in 0..(base - 1) /\ y[b] \in 0..(base - 1)
      BY <2>1, <1>4, <1>5
  <2>5. X[a - 1] = Y[b - 1] /\ x[a] = y[b]
    <3> DEFINE p == X[a - 1]  q == Y[b - 1]  u == x[a]  v == y[b]
    <3>1. p * base + u = q * base + v /\ p \in Nat /\ q \in Nat /\ u \in 0..(base - 1) /\ v \in 0..(base - 1)
        BY <2>2, <2>3, <2>4
    <3> HIDE DEF p, q, u, v, T, n, m
    <3>2. p = q /\ u = v
        BY <3>1, LastDigit
    <3> QED
        BY <3>2 DEF p, q, u, v
  <2> QED
      BY <2>1, <2>5 DEF a, b
<1>7. 0..n \subseteq T
  <2>1. 0 \in T
      BY <1>2, <1>4
  <2> HIDE DEF T
  <2> QED
      BY <1>4, <1>6, <2>1, Induction
<1>8. n = m
  <2>1. n \in 0..n /\ n - n = 0
      BY <1>4
  <2>2. X[n - n] = Y[m - n]
      BY <1>7, <2>1
  <2> QED
      BY <1>3, <1>5, <2>1, <2>2
<1>9. ASSUME NEW i \in 1..n PROVE x[i] = y[i]
  <2> DEFINE j == n - i
  <2>a. j \in 0..(n - 1) /\ j \in 0..n /\ n - j = i /\ m - j = i
      BY <1>4, <1>8
  <2> HIDE DEF j, T
  <2>1. j \in 0..(n - 1) /\ j \in T /\ n - j = i /\ m - j = i
      BY <1>7, <2>a
  <2>2. x[n - j] = y[m - j]
      BY <1>6, <2>1
  <2> QED
      BY <2>1, <2>2
<1> QED
    BY <1>8, <1>9, SeqEqual

-----------------------------------------------------------------------------
(* The zeroes before a number, and the two conversions together. *)

ZeroesOf(z) == [i \in 1..z |-> 0]

IsPadded(s, z, x, base) ==
    /\ s \in Seq(0..(base - 1)) /\ Len(s) = z + Len(x)
    /\ \A i \in 1..z : s[i] = 0
    /\ \A i \in 1..Len(x) : s[z + i] = x[i]

LEMMA ZeroesBefore ==
    ASSUME NEW base \in BothBases, NEW z \in Nat, NEW x \in Seq(0..(base - 1))
    PROVE  IsPadded(ZeroesOf(z) \o x, z, x, base)
<1> DEFINE S == 0..(base - 1)
           y == ZeroesOf(z)
<1>1. 0 \in S /\ x \in Seq(S)
    BY DEF BothBases
<1> HIDE DEF S
<1>2. y \in Seq(S) /\ Len(y) = z /\ \A i \in 1..z : y[i] = 0
    BY <1>1 DEF ZeroesOf
<1> HIDE DEF y
<1>3. /\ y \o x \in Seq(S) /\ Len(y \o x) = z + Len(x)
      /\ \A i \in 1..z : (y \o x)[i] = y[i]
      /\ \A i \in 1..Len(x) : (y \o x)[z + i] = x[i]
    BY <1>1, <1>2
<1>4. \A i \in 1..z : (y \o x)[i] = 0
    BY <1>2, <1>3
<1> QED
    BY <1>3, <1>4 DEF S, y, IsPadded

LEMMA ZeroesNumber ==
    ASSUME NEW base \in BothBases, NEW z \in Nat, NEW x \in Seq(0..(base - 1))
    PROVE  Number(ZeroesOf(z) \o x, base) = Number(x, base)
<1>0. base \in {58, 256}
    BY DEF BothBases
<1> DEFINE s == ZeroesOf(z) \o x
           n == Len(x)
           S == Horner(s, base)
           X == Horner(x, base)
           T == {i \in 0..z : S[i] = 0}
           U == {i \in 0..n : S[z + i] = X[i]}
<1>1. /\ s \in Seq(0..(base - 1)) /\ Len(s) = z + n
      /\ \A i \in 1..z : s[i] = 0
      /\ \A i \in 1..n : s[z + i] = x[i]
  <2>1. IsPadded(s, z, x, base)
      BY ZeroesBefore
  <2> QED
      BY <2>1 DEF IsPadded
<1> HIDE DEF s
<1>2. IsHorner(S, s, base) /\ IsHorner(X, x, base)
    BY <1>0, <1>1, HornerStep
<1> HIDE DEF S, X
<1>3. /\ S[0] = 0 /\ \A i \in 1..(z + n) : S[i] = S[i - 1] * base + s[i]
      /\ X[0] = 0 /\ \A i \in 1..n : X[i] = X[i - 1] * base + x[i]
    BY <1>1, <1>2 DEF IsHorner
<1>4. n \in Nat
    OBVIOUS
<1> HIDE DEF n
<1>5. S[z] = 0
  <2>1. 0 \in T
      BY <1>3
  <2>2. ASSUME NEW i \in 0..(z - 1), i \in T PROVE i + 1 \in T
    <3>1. i + 1 \in 1..z /\ i + 1 \in 0..z /\ i + 1 \in 1..(z + n) /\ (i + 1) - 1 = i
        BY <1>4
    <3>2. S[i + 1] = S[i] * base + s[i + 1] /\ S[i] = 0 /\ s[i + 1] = 0
        BY <1>1, <1>3, <2>2, <3>1
    <3>3. 0 * base + 0 = 0
        BY <1>0
    <3> QED
        BY <3>1, <3>2, <3>3
  <2> HIDE DEF T
  <2>3. 0..z \subseteq T
      BY <2>1, <2>2, Induction
  <2>4. z \in T
      BY <2>3
  <2> QED
      BY <2>4 DEF T
<1>6. S[z + n] = X[n]
  <2>1. 0 \in U
      BY <1>3, <1>4, <1>5
  <2>2. ASSUME NEW i \in 0..(n - 1), i \in U PROVE i + 1 \in U
    <3>1. /\ i + 1 \in 1..n /\ i + 1 \in 0..n /\ z + (i + 1) \in 1..(z + n) /\ (i + 1) - 1 = i
          /\ (z + (i + 1)) - 1 = z + i
        BY <1>4
    <3>2. S[z + (i + 1)] = S[z + i] * base + s[z + (i + 1)] /\ S[z + i] = X[i] /\ s[z + (i + 1)] = x[i + 1]
        BY <1>1, <1>3, <2>2, <3>1
    <3>3. X[i + 1] = X[i] * base + x[i + 1]
        BY <1>3, <3>1
    <3> QED
        BY <3>1, <3>2, <3>3
  <2> HIDE DEF U
  <2>3. 0..n \subseteq U
      BY <1>4, <2>1, <2>2, Induction
  <2>4. n \in U
      BY <1>4, <2>3
  <2> QED
      BY <2>4 DEF U
<1> QED
    BY <1>1, <1>6 DEF Number, S, X, s, n

\* How many zeroes a sequence begins with is well defined.
IsLeadingZeroes(z, s) ==
    z \in 0..Len(s) /\ (\A i \in 1..z : s[i] = 0) /\ (z < Len(s) => s[z + 1] # 0)

LEMMA LeadingZeroesUnique ==
    ASSUME NEW S, NEW s \in Seq(S), NEW y, NEW z, IsLeadingZeroes(y, s), IsLeadingZeroes(z, s)
    PROVE  y = z
<1>1. Len(s) \in Nat /\ y \in 0..Len(s) /\ z \in 0..Len(s)
    BY DEF IsLeadingZeroes
<1>2. ~(y < z)
  <2> SUFFICES ASSUME y < z PROVE FALSE
      OBVIOUS
  <2>1. y + 1 \in 1..z /\ y < Len(s)
      BY <1>1
  <2> QED
      BY <2>1 DEF IsLeadingZeroes
<1>3. ~(z < y)
  <2> SUFFICES ASSUME z < y PROVE FALSE
      OBVIOUS
  <2>1. z + 1 \in 1..y /\ z < Len(s)
      BY <1>1
  <2> QED
      BY <2>1 DEF IsLeadingZeroes
<1> QED
    BY <1>1, <1>2, <1>3

LEMMA LeadingZeroesFacts ==
    ASSUME NEW S, NEW s \in Seq(S)
    PROVE  IsLeadingZeroes(LeadingZeroes(s), s)
<1> DEFINE n == Len(s)
           Ok(z) == (\A i \in 1..z : s[i] = 0) /\ (z < n => s[z + 1] # 0)
<1>1. n \in Nat
    OBVIOUS
<1>2. \E z \in 0..n : Ok(z)
  <2>1. CASE \A i \in 1..n : s[i] = 0
      BY <1>1, <2>1
  <2>2. CASE ~ \A i \in 1..n : s[i] = 0
    <3> DEFINE T == {i \in 1..n : s[i] # 0}
    <3>1. T \in SUBSET Nat /\ T # {}
        BY <2>2
    <3>2. PICK i \in T : \A j \in T : i <= j
      <4> HIDE DEF T
      <4> QED
        BY <3>1, LeastNumber
    <3>3. i - 1 \in 0..n /\ (i - 1) + 1 = i /\ \A j \in 1..(i - 1) : j \in 1..n /\ j \notin T
        BY <1>1, <3>2
    <3>4. Ok(i - 1)
        BY <3>2, <3>3
    <3> QED
        BY <3>3, <3>4
  <2> QED
      BY <2>1, <2>2
<1> DEFINE c == CHOOSE z \in 0..n : Ok(z)
<1>3. c \in 0..n /\ Ok(c)
  <2> HIDE DEF Ok, n
  <2> QED
      BY <1>2, Zenon
<1> QED
    BY <1>3, Zenon DEF LeadingZeroes, IsLeadingZeroes

\* Zeroes and a number without more of them.
IsNumeral(s, z, x, base) ==
    z \in Nat /\ x \in Seq(0..(base - 1)) /\ Leads(x) /\ s = ZeroesOf(z) \o x

LEMMA NumeralFacts ==
    ASSUME NEW base \in BothBases, NEW s, NEW z, NEW x, IsNumeral(s, z, x, base)
    PROVE  /\ s \in Seq(0..(base - 1)) /\ LeadingZeroes(s) = z /\ s # <<>>
           /\ Number(s, base) = Number(x, base) /\ Number(s, base) > 0
           /\ Horner(s, base)[Len(s)] = Number(s, base)
<1> USE DEF IsNumeral
<1> DEFINE S == 0..(base - 1)
<1>1. /\ s \in Seq(S) /\ Len(s) = z + Len(x)
      /\ \A i \in 1..z : s[i] = 0
      /\ \A i \in 1..Len(x) : s[z + i] = x[i]
  <2>1. IsPadded(s, z, x, base)
      BY ZeroesBefore
  <2> QED
      BY <2>1 DEF IsPadded
<1>2. Len(x) \in Nat /\ Len(x) >= 1 /\ x[1] # 0 /\ z \in Nat /\ 1 \in 1..Len(x)
    BY DEF Leads
<1>3. IsLeadingZeroes(z, s)
  <2>1. s[z + 1] # 0
      BY <1>1, <1>2
  <2> QED
      BY <1>1, <1>2, <2>1 DEF IsLeadingZeroes
<1>4. LeadingZeroes(s) = z
  <2>1. s \in Seq(S)
      BY <1>1
  <2>2. IsLeadingZeroes(LeadingZeroes(s), s)
      BY <2>1, LeadingZeroesFacts
  <2> HIDE DEF S
  <2> QED
      BY <1>3, <2>1, <2>2, LeadingZeroesUnique
<1>5. Number(s, base) = Number(x, base)
    BY ZeroesNumber
<1>6. Number(x, base) > 0
  <2>1. Len(x) \in 1..Len(x) /\ Leads(x) /\ x \in Seq(0..(base - 1))
      BY <1>2
  <2> QED
      BY <2>1, NumberPositive DEF Number
<1> QED
    BY <1>1, <1>2, <1>4, <1>5, <1>6 DEF Number

LEMMA NumeralExists ==
    ASSUME NEW base \in BothBases, NEW s \in Seq(0..(base - 1)), \E i \in 1..Len(s) : s[i] # 0
    PROVE  \E z, x : IsNumeral(s, z, x, base)
<1> DEFINE S == 0..(base - 1)
           n == Len(s)
           z == LeadingZeroes(s)
           x == [i \in 1..(n - z) |-> s[z + i]]
<1>1. IsLeadingZeroes(z, s)
  <2> HIDE DEF z
  <2> QED
    BY LeadingZeroesFacts DEF z
<1> HIDE DEF z
<1>2. n \in Nat /\ z \in 0..n /\ (\A i \in 1..z : s[i] = 0) /\ z # n /\ s[z + 1] # 0
    BY <1>1 DEF IsLeadingZeroes
<1>3. x \in Seq(S) /\ Len(x) = n - z /\ (\A i \in 1..(n - z) : x[i] = s[z + i]) /\ n - z \in Nat /\ n - z >= 1
  <2>1. \A i \in 1..(n - z) : z + i \in 1..n
      BY <1>2
  <2>a. s \in Seq(S)
      OBVIOUS
  <2>2. \A i \in 1..(n - z) : s[z + i] \in S
    <3> HIDE DEF S
    <3> QED
      BY <2>a, <2>1
  <2> HIDE DEF S, n
  <2> QED
      BY <1>2, <2>2
<1> HIDE DEF x
<1>4. Leads(x)
    BY <1>2, <1>3 DEF Leads
<1>5. s = ZeroesOf(z) \o x
  <2> DEFINE t == ZeroesOf(z) \o x
  <2>1. /\ t \in Seq(S) /\ Len(t) = z + Len(x)
        /\ \A i \in 1..z : t[i] = 0
        /\ \A i \in 1..Len(x) : t[z + i] = x[i]
    <3>1. z \in Nat /\ x \in Seq(0..(base - 1))
        BY <1>2, <1>3
    <3>2. IsPadded(t, z, x, base)
        BY <3>1, ZeroesBefore
    <3> HIDE DEF t
    <3> QED
        BY <3>2 DEF IsPadded
  <2> HIDE DEF t
  <2>2. ASSUME NEW i \in 1..n PROVE s[i] = t[i]
    <3>1. CASE i <= z
        BY <1>2, <2>1, <3>1
    <3>2. CASE ~(i <= z)
      <4>1. i - z \in 1..(n - z) /\ z + (i - z) = i
          BY <1>2, <3>2
      <4>2. t[z + (i - z)] = x[i - z] /\ x[i - z] = s[z + (i - z)]
          BY <1>3, <2>1, <4>1
      <4> QED
          BY <4>1, <4>2
    <3> QED
        BY <3>1, <3>2
  <2>3. s \in Seq(S) /\ Len(t) = n
      BY <1>2, <1>3, <2>1
  <2>4. s = t
    <3> HIDE DEF S
    <3> QED
      BY <2>1, <2>2, <2>3, SeqEqual
  <2> QED
      BY <2>4 DEF t
<1>6. IsNumeral(s, z, x, base)
    BY <1>2, <1>3, <1>4, <1>5 DEF IsNumeral
<1> QED
    BY <1>6

LEMMA ConvertNumeral ==
    ASSUME NEW from, NEW to, Bases(from, to), NEW s, NEW z, NEW x, IsNumeral(s, z, x, from)
    PROVE  \E y : /\ IsNumeral(Convert(s, from, to), z, y, to)
                  /\ Number(y, to) = Number(x, from)
<1>0. from \in BothBases /\ to \in BothBases /\ to \in {58, 256}
    BY DEF Bases, BothBases
<1> DEFINE S == 0..(to - 1)
           d == Digits(s, from, to)[Len(s)]
           y == Reverse(d)
           v == Number(x, from)
<1>1. /\ s \in Seq(0..(from - 1)) /\ LeadingZeroes(s) = z /\ s # <<>> /\ v > 0
      /\ Horner(s, from)[Len(s)] = v
    BY <1>0, NumeralFacts
<1>2. d \in Seq(S) /\ Canonical(d) /\ Number(y, to) = v
  <2>1. Len(s) \in 0..Len(s)
      BY <1>1
  <2> QED
      BY <1>1, <2>1, DigitsNumber
<1> HIDE DEF v
<1>3. Convert(s, from, to) = ZeroesOf(z) \o y
    BY <1>1 DEF Convert, ZeroesOf
<1> HIDE DEF d
<1>4. y \in Seq(S) /\ Len(y) = Len(d) /\ Len(d) \in Nat /\ Len(d) >= 1 /\ y[1] = d[Len(d)]
  <2>1. y \in Seq(S) /\ Len(y) = Len(d) /\ \A i \in 1..Len(d) : y[i] = d[(Len(d) - i) + 1]
    <3> HIDE DEF S
    <3> QED
      BY <1>2, ReverseDigits
  <2> HIDE DEF y
  <2>2. Len(d) \in Nat /\ Len(d) >= 1
      BY <1>2 DEF Canonical
  <2>3. 1 \in 1..Len(d) /\ (Len(d) - 1) + 1 = Len(d)
      BY <2>2
  <2> QED
      BY <2>1, <2>2, <2>3
<1> HIDE DEF y
<1>5. y[1] # 0
  <2>1. CASE Len(d) = 1
    <3> DEFINE h == Horner(y, to)
    <3>1. IsHorner(h, y, to)
        BY <1>0, <1>4, HornerStep
    <3> HIDE DEF h
    <3>2. h[0] = 0 /\ h[1] = h[1 - 1] * to + y[1]
        BY <1>4, <2>1, <3>1 DEF IsHorner
    <3>3. y[1] \in Nat
        BY <1>0, <1>4
    <3>4. h[1] = y[1]
        BY <1>0, <3>2, <3>3
    <3>5. h[1] = v
        BY <1>2, <1>4, <2>1 DEF Number, h
    <3> QED
        BY <1>1, <3>4, <3>5
  <2>2. CASE Len(d) # 1
      BY <1>2, <1>4, <2>2 DEF Canonical
  <2> QED
      BY <2>1, <2>2
<1>6. IsNumeral(Convert(s, from, to), z, y, to)
  <2>1. z \in Nat
      BY DEF IsNumeral
  <2> QED
      BY <1>3, <1>4, <1>5, <2>1 DEF IsNumeral, Leads
<1> QED
    BY <1>2, <1>6 DEF v

\* Digits that are not all zero.
IsNonzero(s, base) == s \in Seq(0..(base - 1)) /\ \E i \in 1..Len(s) : s[i] # 0

RoundTrips(s, from, to) ==
    /\ Convert(s, from, to) \in Seq(0..(to - 1))
    /\ Convert(Convert(s, from, to), to, from) = s

LEMMA ConvertRoundTrip ==
    ASSUME NEW from, NEW to, Bases(from, to), NEW s, IsNonzero(s, from)
    PROVE  RoundTrips(s, from, to)
<1>0. from \in BothBases /\ to \in BothBases /\ Bases(to, from)
    BY DEF Bases, BothBases
<1> DEFINE t == Convert(s, from, to)
           u == Convert(t, to, from)
<1>1. PICK z, x : IsNumeral(s, z, x, from)
    BY <1>0, NumeralExists DEF IsNonzero
<1>2. PICK y : IsNumeral(t, z, y, to) /\ Number(y, to) = Number(x, from)
    BY <1>1, ConvertNumeral
<1>3. t \in Seq(0..(to - 1))
    BY <1>0, <1>2, NumeralFacts
<1> HIDE DEF t
<1>4. PICK w : IsNumeral(u, z, w, from) /\ Number(w, from) = Number(y, to)
    BY <1>0, <1>2, ConvertNumeral
<1> HIDE DEF u
<1>5. /\ w \in Seq(0..(from - 1)) /\ Leads(w) /\ u = ZeroesOf(z) \o w
      /\ x \in Seq(0..(from - 1)) /\ Leads(x) /\ s = ZeroesOf(z) \o x
    BY <1>1, <1>4 DEF IsNumeral
<1>6. Len(w) <= Len(x) \/ Len(x) <= Len(w)
  <2>1. Len(w) \in Nat /\ Len(x) \in Nat
      BY <1>5
  <2> QED
      BY <2>1
<1>7. Number(w, from) = Number(x, from)
    BY <1>2, <1>4
<1>8. w = x
    BY <1>0, <1>5, <1>6, <1>7, NumberUnique
<1> QED
    BY <1>3, <1>5, <1>8 DEF t, u, RoundTrips

IsDigits(s, base) == s \in Seq(0..(base - 1))

\* Of zeroes alone the conversion makes zeroes alone.
LEMMA ConvertZeroes ==
    ASSUME NEW from, NEW to, Bases(from, to), NEW s, IsDigits(s, from), ~IsNonzero(s, from)
    PROVE  ~IsNonzero(Convert(s, from, to), to)
<1>0. from \in BothBases /\ to \in BothBases /\ from \in {58, 256} /\ to \in {58, 256}
    BY DEF Bases, BothBases
<1>d. s \in Seq(0..(from - 1))
    BY DEF IsDigits
<1> DEFINE S == 0..(to - 1)
           n == Len(s)
           H == Horner(s, from)
           d == Digits(s, from, to)[n]
           y == Reverse(d)
           z == LeadingZeroes(s)
<1>1. CASE s = <<>>
  <2>1. Convert(s, from, to) = <<>> /\ Len(<<>>) = 0
      BY <1>1 DEF Convert
  <2> QED
      BY <2>1 DEF IsNonzero
<1>2. CASE s # <<>>
  <2>1. n \in Nat /\ z \in Nat
    <3>1. IsLeadingZeroes(z, s)
        BY <1>d, LeadingZeroesFacts
    <3> QED
        BY <3>1 DEF IsLeadingZeroes
  <2>2. H[n] = 0
    <3> DEFINE T == {k \in 0..n : H[k] = 0}
    <3>1. IsHorner(H, s, from)
        BY <1>0, <1>d, HornerStep
    <3> HIDE DEF H
    <3>2. H[0] = 0 /\ \A k \in 1..n : H[k] = H[k - 1] * from + s[k]
        BY <3>1 DEF IsHorner
    <3>3. \A k \in 1..n : s[k] = 0
        BY <1>d DEF IsNonzero
    <3>4. 0 \in T
        BY <2>1, <3>2
    <3>5. ASSUME NEW k \in 0..(n - 1), k \in T PROVE k + 1 \in T
      <4>1. k + 1 \in 1..n /\ k + 1 \in 0..n /\ (k + 1) - 1 = k /\ 0 * from + 0 = 0
          BY <1>0, <2>1
      <4>2. H[k + 1] = H[k] * from + s[k + 1] /\ H[k] = 0 /\ s[k + 1] = 0
          BY <3>2, <3>3, <3>5, <4>1
      <4> QED
          BY <4>1, <4>2
    <3> HIDE DEF T
    <3>6. 0..n \subseteq T
        BY <2>1, <3>4, <3>5, Induction
    <3>7. n \in T
        BY <2>1, <3>6
    <3> QED
        BY <3>7 DEF T
  <2>3. d \in Seq(S) /\ Canonical(d) /\ Number(y, to) = 0
    <3>1. n \in 0..n
        BY <2>1
    <3> QED
        BY <1>d, <2>2, <3>1, DigitsNumber
  <2>4. Convert(s, from, to) = ZeroesOf(z) \o y
      BY <1>2 DEF Convert, ZeroesOf
  <2> HIDE DEF d, z
  <2>5. Len(d) \in Nat /\ Len(d) >= 1 /\ (Len(d) = 1 \/ d[Len(d)] # 0)
      BY <2>3 DEF Canonical
  <2>6. y \in Seq(S) /\ Len(y) = Len(d) /\ y[1] = d[Len(d)]
    <3>1. y \in Seq(S) /\ Len(y) = Len(d) /\ \A i \in 1..Len(d) : y[i] = d[(Len(d) - i) + 1]
      <4> HIDE DEF S
      <4> QED
        BY <2>3, ReverseDigits
    <3> HIDE DEF y
    <3>2. 1 \in 1..Len(d) /\ (Len(d) - 1) + 1 = Len(d)
        BY <2>5
    <3> QED
        BY <3>1, <3>2
  <2> HIDE DEF y
  <2>7. Len(y) = 1
    <3> SUFFICES ASSUME Len(y) # 1 PROVE FALSE
        OBVIOUS
    <3>1. Leads(y) /\ Len(y) \in 1..Len(y)
        BY <2>5, <2>6 DEF Leads
    <3>2. Horner(y, to)[Len(y)] > 0
        BY <1>0, <2>6, <3>1, NumberPositive
    <3> QED
        BY <2>3, <3>2 DEF Number
  <2>8. y[1] = 0
    <3> DEFINE h == Horner(y, to)
    <3>1. IsHorner(h, y, to)
        BY <1>0, <2>6, HornerStep
    <3> HIDE DEF h
    <3>2. h[0] = 0 /\ h[1] = h[1 - 1] * to + y[1]
        BY <2>7, <3>1 DEF IsHorner
    <3>3. y[1] \in Nat
      <4>1. y[1] \in S
        <5> HIDE DEF S
        <5> QED
          BY <2>6, <2>7
      <4> QED
          BY <1>0, <4>1
    <3>4. h[1] = y[1]
        BY <1>0, <3>2, <3>3
    <3>5. h[1] = 0
      <4>1. h[Len(y)] = Number(y, to)
          BY DEF Number, h
      <4> QED
          BY <2>3, <2>7, <4>1
    <3> QED
        BY <3>4, <3>5
  <2> DEFINE t == ZeroesOf(z) \o y
  <2>9. /\ t \in Seq(S) /\ Len(t) = z + Len(y)
        /\ \A i \in 1..z : t[i] = 0
        /\ \A i \in 1..Len(y) : t[z + i] = y[i]
    <3>1. z \in Nat /\ y \in Seq(0..(to - 1))
        BY <2>1, <2>6
    <3>2. IsPadded(t, z, y, to)
        BY <1>0, <3>1, ZeroesBefore
    <3> HIDE DEF t
    <3> QED
        BY <3>2 DEF IsPadded
  <2> HIDE DEF t
  <2>10. ASSUME NEW i \in 1..Len(t) PROVE t[i] = 0
    <3>1. CASE i <= z
        BY <2>1, <2>9, <3>1
    <3>2. CASE ~(i <= z)
      <4>1. i = z + 1 /\ 1 \in 1..Len(y)
          BY <2>1, <2>7, <2>9, <3>2
      <4> QED
          BY <2>8, <2>9, <4>1
    <3> QED
        BY <3>1, <3>2
  <2> QED
      BY <2>4, <2>9, <2>10 DEF t, IsNonzero
<1> QED
    BY <1>1, <1>2

-----------------------------------------------------------------------------
(* The functions of keys.py and vp_crypto.py. *)

LEMMA InAlphabet ==
    ASSUME NEW text \in Seq(0..57) PROVE ~ \E i \in DOMAIN text : text[i] > 57
<1> DEFINE S == 0..57
<1>1. text \in Seq(S)
    OBVIOUS
<1> HIDE DEF S
<1>2. \A i \in DOMAIN text : text[i] \in S
    BY <1>1
<1>3. \A j \in S : ~(j > 57)
    BY DEF S
<1> QED
    BY <1>2, <1>3, Zenon

\* Base58 keeps every byte string that is not all zeroes: what
\* _base58btc_encode writes, _base58btc_decode reads back (keys.py:106-152).
THEOREM Base58RoundTrip ==
    ASSUME NEW data \in Seq(0..255), \E i \in 1..Len(data) : data[i] # 0
    PROVE  Encode(data) \in Seq(0..57) /\ Decode(Encode(data)) = data
<1> DEFINE text == Encode(data)
<1>1. Bases(256, 58) /\ 256 - 1 = 255 /\ 58 - 1 = 57
    BY DEF Bases
<1>2. text \in Seq(0..57) /\ Convert(text, 58, 256) = data
  <2>1. IsNonzero(data, 256)
      BY <1>1 DEF IsNonzero
  <2>2. RoundTrips(data, 256, 58)
      BY <1>1, <2>1, ConvertRoundTrip
  <2> QED
      BY <1>1, <2>2 DEF Encode, RoundTrips
<1> HIDE DEF text
<1>3. ~ \E i \in DOMAIN text : text[i] > 57
    BY <1>2, InAlphabet
<1> QED
    BY <1>2, <1>3 DEF Decode, text

\* A text that decodes to such a byte string is the one that it encodes to.
LEMMA EncodeDecode ==
    ASSUME NEW text \in Seq(0..57), IsNonzero(Decode(text), 256)
    PROVE  Encode(Decode(text)) = text
<1> DEFINE b == Convert(text, 58, 256)
<1>1. Bases(58, 256) /\ 256 - 1 = 255 /\ 58 - 1 = 57
    BY DEF Bases
<1>2. Decode(text) = b
    BY InAlphabet DEF Decode
<1>3. IsDigits(text, 58) /\ IsNonzero(b, 256)
    BY <1>1, <1>2 DEF IsDigits
<1>4. IsNonzero(text, 58)
    BY <1>1, <1>3, ConvertZeroes
<1>5. RoundTrips(text, 58, 256)
    BY <1>1, <1>4, ConvertRoundTrip
<1> QED
    BY <1>2, <1>5 DEF Encode, RoundTrips

\* The public key that public_key_to_multibase puts into a DID document is the
\* one that multibase_to_public_key_hex takes out of it (keys.py:69-79): the
\* multicodec prefix is not zero, so that no key is an exception.
THEOREM MultibaseRoundTrip ==
    ASSUME NEW key \in Seq(0..255)
    PROVE  MultibaseToPublicKey(PublicKeyToMultibase(key)) = key
<1> DEFINE n == Len(key)
           data == Multicodec \o key
           text == Encode(data)
           full == <<Z>> \o text
<1>1. data \in Seq(0..255) /\ Len(data) = 2 + n /\ data[1] = 237 /\ \A i \in 1..n : data[2 + i] = key[i]
  <2> DEFINE p == Multicodec
  <2>1. p \in Seq(0..255) /\ Len(p) = 2 /\ p[1] = 237
      BY DEF Multicodec
  <2>a. data = p \o key
      OBVIOUS
  <2> HIDE DEF p, data
  <2> DEFINE S == 0..255
  <2>2. p \in Seq(S) /\ key \in Seq(S)
      BY <2>1
  <2> HIDE DEF S
  <2>3. /\ p \o key \in Seq(S) /\ Len(p \o key) = 2 + n
        /\ \A i \in 1..2 : (p \o key)[i] = p[i]
        /\ \A i \in 1..n : (p \o key)[2 + i] = key[i]
    <3>1. p \in Seq(S) /\ key \in Seq(S) /\ Len(p) = 2 /\ n \in Nat
        BY <2>1, <2>2
    <3>2. /\ p \o key \in Seq(S) /\ Len(p \o key) = Len(p) + Len(key)
          /\ \A i \in 1..(Len(p) + Len(key)) : (p \o key)[i] = IF i <= Len(p) THEN p[i] ELSE key[i - Len(p)]
        BY <3>1, ConcatProperties
    <3>3. \A i \in 1..n : 2 + i \in 1..(2 + n) /\ ~(2 + i <= 2) /\ (2 + i) - 2 = i
        BY <3>1
    <3>4. \A i \in 1..2 : i \in 1..(2 + n) /\ i <= 2
        BY <3>1
    <3> HIDE DEF n
    <3> QED
        BY <3>1, <3>2, <3>3, <3>4 DEF n
  <2>4. data[1] = p[1]
      BY <2>a, <2>3
  <2> QED
      BY <2>a, <2>1, <2>3, <2>4 DEF S
<1> HIDE DEF data
<1>2. n \in Nat /\ 1 \in 1..Len(data) /\ data[1] # 0
    BY <1>1
<1>3. text \in Seq(0..57) /\ Decode(text) = data
    BY <1>1, <1>2, Base58RoundTrip
<1> HIDE DEF text
<1>4. full # <<>> /\ full[1] = Z /\ Tail(full) = text
  <2>1. Z \in 0..57
      BY DEF Z
  <2> HIDE DEF Z
  <2> QED
      BY <1>3, <2>1
<1>5. Decode(Tail(full)) # None
  <2>1. Decode(Tail(full)) = data
      BY <1>3, <1>4, Zenon
  <2> HIDE DEF full
  <2> QED
      BY <1>1, <2>1, NoneAssumption, Zenon
<1> HIDE DEF full
<1>6. MultibaseToPublicKey(full) = SubSeq(data, 3, Len(data))
    BY <1>3, <1>4, <1>5 DEF MultibaseToPublicKey
<1>7. SubSeq(data, 3, Len(data)) = key
  <2> DEFINE sub == SubSeq(data, 3, Len(data))
  <2>1. sub \in Seq(0..255) /\ Len(sub) = n /\ \A i \in 1..n : sub[i] = data[(3 + i) - 1]
    <3> DEFINE S == 0..255
    <3>1. data \in Seq(S) /\ 3 \in 1..(Len(data) + 1) /\ Len(data) \in (3 - 1)..Len(data) /\ (Len(data) - 3) + 1 = n
        BY <1>1, <1>2
    <3> HIDE DEF S
    <3>2. sub \in Seq(S) /\ Len(sub) = n /\ \A i \in 1..n : sub[i] = data[(3 + i) - 1]
        BY <3>1, SubSeqProperties
    <3> QED
        BY <3>2 DEF S
  <2> HIDE DEF sub
  <2>2. \A i \in 1..n : (3 + i) - 1 = 2 + i
      BY <1>2
  <2>3. \A i \in 1..n : sub[i] = key[i]
      BY <1>1, <2>1, <2>2
  <2>4. sub = key
      BY <2>1, <2>3, SeqEqual
  <2> QED
      BY <2>4 DEF sub
<1> QED
    BY <1>6, <1>7 DEF PublicKeyToMultibase, full, text, data

-----------------------------------------------------------------------------
(* The builder and its presentations. *)

BuilderOk ==
    builder # None =>
      /\ builder = [holder |-> builder.holder, service |-> builder.service,
                    user |-> builder.user, checked |-> builder.checked]
      /\ builder.checked => WellFormed(creds)

\* A signature is of one message with one key.
EdOk ==
    /\ \A r \in ed : /\ r = [key |-> r.key, message |-> r.message, bytes |-> r.bytes]
                     /\ r.bytes \in Signatures
    /\ \A r, s \in ed : r.bytes = s.bytes => r = s

SignatureOf(vp, b) == [key |-> PublicOf[vp.signer], message |-> Payload(vp, vp.over), bytes |-> b]

VpOk(vp, signed) ==
    /\ vp.signer \in Seeds /\ vp.over \in Seq(Vcs)
    /\ vp.checked => WellFormed(vp.over)
    /\ \E b \in Signatures : vp.proofValue = Encode(b) /\ SignatureOf(vp, b) \in signed

BuilderInv ==
    /\ creds \in Seq(Vcs)
    /\ BuilderOk
    /\ EdOk
    /\ \A vp \in vps : VpOk(vp, ed)

LEMMA SignBytesEd ==
    ASSUME EdOk, NEW seed, NEW message, NEW bytes \in Signatures, SignBytes(seed, message, bytes)
    PROVE  EdOk' /\ ed \subseteq ed' /\ [key |-> PublicOf[seed], message |-> message, bytes |-> bytes] \in ed'
<1> DEFINE new == [key |-> PublicOf[seed], message |-> message, bytes |-> bytes]
           known == {s \in ed : s.key = PublicOf[seed] /\ s.message = message}
<1>1. ed' = ed \cup {new}
    BY DEF SignBytes
<1>2. new = [key |-> new.key, message |-> new.message, bytes |-> new.bytes] /\ new.bytes = bytes
    OBVIOUS
<1>3. CASE known = {}
  <2>1. \A s \in ed : s.bytes # bytes
      BY <1>3 DEF SignBytes
  <2>2. \A s \in ed : s.bytes # new.bytes
      BY <2>1, <1>2
  <2>3. new.bytes \in Signatures
      BY <1>2
  <2> HIDE DEF new
  <2>4. EdOk' /\ ed \subseteq ed' /\ new \in ed'
      BY <1>1, <1>2, <2>2, <2>3 DEF EdOk
  <2> QED
      BY <2>4 DEF new
<1>4. CASE known # {}
  <2>1. PICK s \in known : s.bytes = bytes
      BY <1>4 DEF SignBytes
  <2>2. s \in ed /\ s = new
    <3>1. s \in ed /\ s.key = PublicOf[seed] /\ s.message = message
        BY <2>1
    <3>2. s = [key |-> s.key, message |-> s.message, bytes |-> s.bytes]
        BY <3>1 DEF EdOk
    <3> QED
        BY <2>1, <3>1, <3>2, Zenon
  <2>3. ed' = ed
      BY <1>1, <2>2
  <2> QED
      BY <1>1, <2>3 DEF EdOk
<1> QED
    BY <1>1, <1>3, <1>4

LEMMA VpOkKept ==
    ASSUME NEW vp, NEW S, NEW T, VpOk(vp, S), S \subseteq T
    PROVE  VpOk(vp, T)
BY DEF VpOk

\* Each step of the application and of the builder keeps the invariant.
LEMMA BuilderInvStep ==
    ASSUME BuilderInv, [Next]_vars
    PROVE  BuilderInv'
<1> USE DEF BuilderInv
<1>1. CASE Edit
  <2>1. PICK vc \in Vcs : creds' = Append(creds, vc)
      BY <1>1 DEF Edit
  <2>2. creds' \in Seq(Vcs)
      BY <2>1
  <2>3. BuilderOk'
      BY <1>1 DEF Edit, BuilderOk
  <2>4. EdOk' /\ ed \subseteq ed' /\ vps' = vps
      BY <1>1 DEF Edit, EdOk
  <2> QED
      BY <2>2, <2>3, <2>4, VpOkKept
<1>2. ASSUME NEW holder, NEW service, NEW user, MakeBuilder(holder, service, user)
      PROVE  BuilderInv'
  <2>1. BuilderOk'
      BY <1>2 DEF MakeBuilder, BuilderOk, WellFormed, AgentEntries, GrantEntries
  <2>2. creds' \in Seq(Vcs) /\ EdOk' /\ ed \subseteq ed' /\ vps' = vps
      BY <1>2 DEF MakeBuilder, EdOk
  <2> QED
      BY <2>1, <2>2, VpOkKept
<1>3. ASSUME NEW key \in PrivateKeys, NEW nonce, NEW bytes \in Signatures, Sign(key, nonce, bytes)
      PROVE  BuilderInv'
  <2> DEFINE vp == [signer |-> key.seed,
                    holder |-> builder.holder, service |-> builder.service,
                    user |-> builder.user, nonce |-> nonce, over |-> creds,
                    checked |-> builder.checked, proofValue |-> Encode(bytes)]
  <2>1. /\ builder # None /\ Normalize(key) = key.seed
        /\ SignBytes(key.seed, Payload(vp, creds), bytes)
        /\ vps' = vps \cup {vp} /\ UNCHANGED <<creds, builder>>
      BY <1>3, Zenon DEF Sign, Normalize
  <2>2. /\ EdOk' /\ ed \subseteq ed'
        /\ [key |-> PublicOf[key.seed], message |-> Payload(vp, creds), bytes |-> bytes] \in ed'
      BY <2>1, SignBytesEd
  <2>3. /\ vp.signer = key.seed /\ vp.over = creds /\ vp.checked = builder.checked
        /\ vp.proofValue = Encode(bytes) /\ key.seed \in Seeds
      BY DEF PrivateKeys
  <2> HIDE DEF vp
  <2>4. SignatureOf(vp, bytes) \in ed'
      BY <2>2, <2>3 DEF SignatureOf
  <2>5. VpOk(vp, ed')
      BY <2>1, <2>3, <2>4 DEF VpOk, BuilderOk
  <2>6. BuilderOk' /\ creds' \in Seq(Vcs)
      BY <2>1 DEF BuilderOk, WellFormed, AgentEntries, GrantEntries
  <2> QED
      BY <2>1, <2>2, <2>5, <2>6, VpOkKept
<1>4. CASE UNCHANGED vars
  <2>1. creds' = creds /\ builder' = builder /\ ed' = ed /\ vps' = vps
      BY <1>4 DEF vars
  <2> QED
      BY <2>1, VpOkKept DEF BuilderOk, EdOk, WellFormed, AgentEntries, GrantEntries
<1> QED
    BY <1>1, <1>2, <1>3, <1>4 DEF Next

\* In every reachable state the builder's list, the signatures and the
\* presentations are as BuilderInv says.
THEOREM VPBuilderInvariant == Spec => []BuilderInv
<1>1. Init => BuilderInv
    BY DEF Init, BuilderInv, BuilderOk, EdOk
<1>2. BuilderInv /\ [Next]_vars => BuilderInv'
    BY BuilderInvStep
<1> QED
    BY <1>1, <1>2, PTL DEF Spec

-----------------------------------------------------------------------------
(* What a verifier makes of the presentations. *)

LEMMA SignatureText ==
    ASSUME NEW b \in Signatures
    PROVE  Encode(b) \in Seq(0..57) /\ Decode(Encode(b)) = b /\ IsNonzero(b, 256) /\ b # None
<1>1. b \in Seq(0..255) /\ \E i \in DOMAIN b : b[i] # 0
    BY SignatureAssumption, Zenon
<1>2. \E i \in 1..Len(b) : b[i] # 0
    BY <1>1
<1>3. IsNonzero(b, 256)
  <2>1. 256 - 1 = 255
      OBVIOUS
  <2> QED
      BY <1>1, <1>2, <2>1 DEF IsNonzero
<1>4. b # None
    BY <1>1, NoneAssumption
<1> QED
    BY <1>1, <1>2, <1>3, <1>4, Base58RoundTrip

\* A proof value passes for what Ed25519 signed with it, and only for that:
\* the attempt without the first letter finds no other signature.
LEMMA OneReading ==
    ASSUME EdOk, NEW b \in Signatures, NEW message, NEW key,
           VerifyEd25519Proof(message, Encode(b), key)
    PROVE  [key |-> key, message |-> message, bytes |-> b] \in ed
<1> DEFINE text == Encode(b)
<1>1. text \in Seq(0..57) /\ Decode(text) = b
    BY SignatureText
<1> HIDE DEF text
<1>2. CASE VerifyValue(message, text, key)
    BY <1>1, <1>2 DEF VerifyValue, VerifySignature
<1>3. CASE text # <<>> /\ text[1] = Z /\ VerifyValue(message, Tail(text), key)
  <2> DEFINE rest == Tail(text)
             c == Decode(rest)
  <2>1. rest \in Seq(0..57) /\ text = <<Z>> \o rest
    <3> DEFINE S == 0..57
    <3>1. text \in Seq(S) /\ text # <<>>
        BY <1>1, <1>3
    <3> HIDE DEF S
    <3>2. rest \in Seq(S) /\ text = <<Head(text)>> \o rest /\ Head(text) = text[1]
        BY <3>1
    <3> QED
        BY <1>3, <3>2 DEF S
  <2> HIDE DEF rest
  <2>2. [key |-> key, message |-> message, bytes |-> c] \in ed
      BY <1>3 DEF VerifyValue, VerifySignature, rest
  <2>3. c \in Signatures
      BY <2>2 DEF EdOk
  <2>4. Encode(c) = rest
      BY <2>1, <2>3, SignatureText, EncodeDecode
  <2>5. FALSE
    <3>1. Encode(b) = <<Z>> \o Encode(c)
        BY <2>1, <2>4 DEF text
    <3> QED
        BY <2>3, <3>1, SignatureAssumption, Zenon
  <2> QED
      BY <2>5
<1> QED
    BY <1>2, <1>3 DEF VerifyEd25519Proof, text

\* The same with the multibase letter before it.
LEMMA OneReadingWithLetter ==
    ASSUME EdOk, NEW b \in Signatures, NEW message, NEW key,
           VerifyEd25519Proof(message, <<Z>> \o Encode(b), key)
    PROVE  [key |-> key, message |-> message, bytes |-> b] \in ed
<1> DEFINE text == <<Z>> \o Encode(b)
           c == Decode(text)
<1>1. Encode(b) \in Seq(0..57) /\ Decode(Encode(b)) = b
    BY SignatureText
<1>2. text \in Seq(0..57) /\ Tail(text) = Encode(b)
  <2> DEFINE e == Encode(b)
             S == 0..57
  <2>1. Z \in S /\ e \in Seq(S)
      BY <1>1 DEF Z
  <2> HIDE DEF e, S, Z
  <2>2. <<Z>> \o e \in Seq(S) /\ Tail(<<Z>> \o e) = e
      BY <2>1
  <2> QED
      BY <2>2 DEF e, S
<1> HIDE DEF text
<1>3. CASE VerifyValue(message, text, key)
  <2>1. [key |-> key, message |-> message, bytes |-> c] \in ed
      BY <1>3 DEF VerifyValue, VerifySignature
  <2>2. c \in Signatures
      BY <2>1 DEF EdOk
  <2>3. Encode(c) = text
      BY <1>2, <2>2, SignatureText, EncodeDecode
  <2>4. FALSE
      BY <2>2, <2>3, SignatureAssumption, Zenon DEF text
  <2> QED
      BY <2>4
<1>4. CASE VerifyValue(message, Tail(text), key)
    BY <1>1, <1>2, <1>4 DEF VerifyValue, VerifySignature
<1> QED
    BY <1>3, <1>4 DEF VerifyEd25519Proof, text

\* What has been signed verifies, with the letter or without.
LEMMA SignedVerifies ==
    ASSUME NEW b \in Signatures, NEW message, NEW key,
           [key |-> key, message |-> message, bytes |-> b] \in ed
    PROVE  /\ VerifyEd25519Proof(message, Encode(b), key)
           /\ VerifyEd25519Proof(message, <<Z>> \o Encode(b), key)
<1> DEFINE e == Encode(b)
           t == <<Z>> \o e
<1>1. e \in Seq(0..57) /\ Decode(e) = b /\ b # None
    BY SignatureText
<1>2. VerifyValue(message, e, key)
    BY <1>1 DEF VerifyValue, VerifySignature
<1>3. t # <<>> /\ t[1] = Z /\ Tail(t) = e
  <2> DEFINE S == 0..57
  <2>1. Z \in S /\ e \in Seq(S)
      BY <1>1 DEF Z
  <2> HIDE DEF e, S, Z
  <2> QED
      BY <2>1
<1> HIDE DEF e, t
<1>4. VerifyValue(message, Tail(t), key)
    BY <1>2, <1>3
<1> QED
    BY <1>2, <1>3, <1>4 DEF VerifyEd25519Proof, e, t

LEMMA MethodsReplaced ==
    ASSUME NEW doc, NEW i, NEW s, NEW v, NEW e,
           doc = [id |-> i, service |-> s, verificationMethod |-> v]
    PROVE  [doc EXCEPT !.verificationMethod = e].verificationMethod = e
OBVIOUS

\* A verifier takes the signer's public key from either kind of document.
LEMMA OneVerifierKey ==
    ASSUME NEW seed \in Seeds
    PROVE  VerifierKeys[seed] \subseteq {PublicOf[seed]}
<1> SUFFICES ASSUME NEW did \in Dids, NEW d \in Documents(did, seed)
             PROVE  ExtractPublicKey(d) = PublicOf[seed]
    BY DEF VerifierKeys
<1> DEFINE key == PublicOf[seed]
           eps == BuildServiceEndpoints(Endpoints)
           built == BuildDidDocument(did, key, eps)
           method == [type |-> "Ed25519VerificationKey2020", controller |-> did,
                      publicKeyMultibase |-> PublicKeyToMultibase(key)]
           foreign == [type |-> "JsonWebKey2020", controller |-> built.id, publicKeyMultibase |-> <<Z, 58>>]
<1>1. key \in Seq(0..255)
    BY KeyAssumption
<1>2. MultibaseToPublicKey(method.publicKeyMultibase) = key
    BY <1>1, MultibaseRoundTrip
<1>3. method.type = "Ed25519VerificationKey2020" /\ foreign.type # "Ed25519VerificationKey2020"
    OBVIOUS
<1>4. built.verificationMethod = <<method>>
    BY DEF BuildDidDocument
<1>5. Extended(built).verificationMethod = <<foreign>> \o <<method>>
  <2> DEFINE m == method f == foreign
  <2>1. built = [id |-> built.id, service |-> built.service, verificationMethod |-> built.verificationMethod]
      BY DEF BuildDidDocument
  <2>2. Extended(built).verificationMethod = <<f>> \o built.verificationMethod
    <3> DEFINE e == <<f>> \o built.verificationMethod
    <3>1. Extended(built) = [built EXCEPT !.verificationMethod = e]
        BY DEF Extended
    <3> HIDE DEF e, built
    <3>2. Extended(built).verificationMethod = e
        BY <2>1, <3>1, MethodsReplaced
    <3> QED
        BY <3>2 DEF e
  <2> QED
      BY <1>4, <2>2
<1> HIDE DEF built, method, foreign
<1>6. <<foreign>> \o <<method>> = <<foreign, method>>
  <2> DEFINE S == {foreign, method}
             u == <<foreign>> \o <<method>>
             v == <<foreign, method>>
  <2>1. <<foreign>> \in Seq(S) /\ <<method>> \in Seq(S) /\ v \in Seq(S)
      OBVIOUS
  <2>2. u \in Seq(S) /\ Len(u) = 2 /\ u[1] = foreign /\ u[2] = method
      BY <2>1, ConcatProperties
  <2>3. Len(v) = 2 /\ v[1] = foreign /\ v[2] = method
      OBVIOUS
  <2> HIDE DEF u, v, S
  <2>4. \A i \in 1..Len(u) : u[i] = v[i]
      BY <2>2, <2>3
  <2>5. u = v
      BY <2>1, <2>2, <2>3, <2>4, SeqEqual
  <2> QED
      BY <2>5 DEF u, v
<1>7. ASSUME NEW doc, NEW i \in Nat,
             {j \in DOMAIN doc.verificationMethod : doc.verificationMethod[j].type = "Ed25519VerificationKey2020"} = {i},
             doc.verificationMethod[i] = method
      PROVE  ExtractPublicKey(doc) = key
  <2>1. Min({i}) = i
      BY DEF Min
  <2> QED
      BY <1>2, <1>7, <2>1 DEF ExtractPublicKey
<1>8. ExtractPublicKey(built) = key
  <2>1. built.verificationMethod[1] = method
      BY <1>4
  <2>2. {j \in DOMAIN built.verificationMethod :
            built.verificationMethod[j].type = "Ed25519VerificationKey2020"} = {1}
      BY <1>3, <1>4
  <2> QED
      BY <1>7, <2>1, <2>2
<1>9. ExtractPublicKey(Extended(built)) = key
  <2> DEFINE x == Extended(built)
  <2>1. x.verificationMethod = <<foreign, method>>
      BY <1>5, <1>6
  <2> HIDE DEF x
  <2>2. x.verificationMethod[2] = method
      BY <2>1
  <2>3. {j \in DOMAIN x.verificationMethod :
            x.verificationMethod[j].type = "Ed25519VerificationKey2020"} = {2}
    <3>1. DOMAIN x.verificationMethod = {1, 2}
        BY <2>1
    <3>2. x.verificationMethod[1] = foreign /\ x.verificationMethod[2] = method
        BY <2>1
    <3> QED
        BY <1>3, <3>1, <3>2
  <2> QED
      BY <1>7, <2>2, <2>3 DEF x
<1>10. Documents(did, seed) = {built, Extended(built)}
    BY DEF Documents, built
<1> QED
    BY <1>8, <1>9, <1>10

LEMMA PayloadFields ==
    ASSUME NEW p, NEW q, NEW x, NEW y, Payload(p, x) = Payload(q, y)
    PROVE  /\ p.holder = q.holder /\ p.service = q.service /\ p.user = q.user
           /\ p.nonce = q.nonce /\ x = y
BY DEF Payload

LEMMA SignatureFields ==
    ASSUME EdOk, NEW b, NEW key, NEW message, NEW q, SignatureOf(q, b) \in ed,
           [key |-> key, message |-> message, bytes |-> b] \in ed
    PROVE  key = PublicOf[q.signer] /\ message = Payload(q, q.over)
<1> DEFINE r == [key |-> key, message |-> message, bytes |-> b]
           s == SignatureOf(q, b)
<1>1. r.bytes = b /\ s.bytes = b
    BY DEF SignatureOf
<1>2. r = s
  <2> HIDE DEF r, s
  <2> QED
    BY <1>1 DEF EdOk, r, s
<1> QED
    BY <1>2 DEF SignatureOf

LEMMA VerifiesFromInv == BuilderInv => VerifiesWhileUnchanged
<1> SUFFICES ASSUME BuilderInv, NEW vp \in vps, NEW seed \in Seeds,
                    NEW key \in VerifierKeys[seed],
                    NEW text \in {vp.proofValue, <<Z>> \o vp.proofValue}
             PROVE  VerifyEd25519Proof(Payload(vp, creds), text, key)
                      <=> seed = vp.signer /\ creds = vp.over
    BY DEF VerifiesWhileUnchanged
<1>1. key = PublicOf[seed]
    BY OneVerifierKey
<1>2. PICK b \in Signatures : vp.proofValue = Encode(b) /\ SignatureOf(vp, b) \in ed
    BY DEF BuilderInv, VpOk
<1>3. EdOk /\ vp.signer \in Seeds
    BY DEF BuilderInv, VpOk
<1>4. ASSUME VerifyEd25519Proof(Payload(vp, creds), text, key)
      PROVE  seed = vp.signer /\ creds = vp.over
  <2>1. [key |-> key, message |-> Payload(vp, creds), bytes |-> b] \in ed
      BY <1>2, <1>3, <1>4, OneReading, OneReadingWithLetter
  <2>2. key = PublicOf[vp.signer] /\ Payload(vp, creds) = Payload(vp, vp.over)
      BY <1>2, <1>3, <2>1, SignatureFields
  <2>3. creds = vp.over
      BY <2>2 DEF Payload
  <2>4. PublicOf[seed] = PublicOf[vp.signer]
      BY <1>1, <2>2
  <2>5. seed = vp.signer
      BY <1>3, <2>4, KeyAssumption, Zenon
  <2> QED
      BY <2>3, <2>5
<1>5. ASSUME seed = vp.signer, creds = vp.over
      PROVE  VerifyEd25519Proof(Payload(vp, creds), text, key)
  <2>1. [key |-> key, message |-> Payload(vp, creds), bytes |-> b] \in ed
      BY <1>1, <1>2, <1>5 DEF SignatureOf
  <2> QED
      BY <1>2, <2>1, SignedVerifies
<1> QED
    BY <1>4, <1>5

LEMMA NotInterchangeableFromInv == BuilderInv => ProofsNotInterchangeable
<1> SUFFICES ASSUME BuilderInv, NEW p \in vps, NEW q \in vps, NEW seed \in Seeds,
                    VerifyEd25519Proof(Payload(p, p.over), q.proofValue, PublicOf[seed])
             PROVE  /\ p.service = q.service /\ p.user = q.user /\ p.holder = q.holder
                    /\ p.over = q.over /\ p.nonce = q.nonce
                    /\ seed = q.signer
    BY DEF ProofsNotInterchangeable
<1>1. PICK b \in Signatures : q.proofValue = Encode(b) /\ SignatureOf(q, b) \in ed
    BY DEF BuilderInv, VpOk
<1>2. EdOk /\ q.signer \in Seeds
    BY DEF BuilderInv, VpOk
<1>3. [key |-> PublicOf[seed], message |-> Payload(p, p.over), bytes |-> b] \in ed
    BY <1>1, <1>2, OneReading
<1>4. PublicOf[seed] = PublicOf[q.signer] /\ Payload(p, p.over) = Payload(q, q.over)
    BY <1>1, <1>2, <1>3, SignatureFields
<1>5. seed = q.signer
    BY <1>2, <1>4, KeyAssumption, Zenon
<1> QED
    BY <1>4, <1>5, PayloadFields

\* Two sets of places that do not meet and have as many members as there are
\* places cover them.
LEMMA PlacesCovered ==
    ASSUME NEW n \in Nat, NEW A \in SUBSET (1..n), NEW B \in SUBSET (1..n),
           A \cap B = {}, Cardinality(A) + Cardinality(B) = n
    PROVE  A \cup B = 1..n
<1>1. IsFiniteSet(1..n) /\ Cardinality(1..n) = n
    BY FS_Interval
<1>2. IsFiniteSet(A) /\ IsFiniteSet(B)
    BY <1>1, FS_Subset
<1>3. IsFiniteSet(A \cup B) /\ Cardinality(A \cup B) = n
  <2>1. Cardinality(A \cap B) = 0
      BY FS_EmptySet
  <2>2. /\ IsFiniteSet(A \cup B)
        /\ Cardinality(A \cup B) = Cardinality(A) + Cardinality(B) - Cardinality(A \cap B)
      BY <1>2, FS_Union
  <2>3. Cardinality(A) \in Nat /\ Cardinality(B) \in Nat
      BY <1>2, FS_CardinalityType
  <2> QED
      BY <2>1, <2>2, <2>3
<1> QED
    BY <1>1, <1>3, FS_Subset

LEMMA SignedAsCheckedFromInv == BuilderInv => SignedAsChecked
<1> DEFINE Kinds == {"HelixAgentCredential", "DelegationGrantCredential"}
<1> SUFFICES ASSUME BuilderInv, NEW vp \in vps, vp.checked,
                    \A i \in DOMAIN vp.over : Cardinality(TypesOf[vp.over[i]] \cap Kinds) < 2
             PROVE  /\ \E i \in DOMAIN vp.over : "HelixAgentCredential" \in TypesOf[vp.over[i]]
                    /\ \A i \in DOMAIN vp.over : TypesOf[vp.over[i]] \cap Kinds # {}
    BY DEF SignedAsChecked
<1> DEFINE list == vp.over
<1>1. WellFormed(list) /\ list \in Seq(Vcs)
    BY DEF BuilderInv, VpOk
<1>2. ASSUME NEW i \in DOMAIN list
      PROVE  ~(IsAgentAuthority(list[i]) /\ IsGrant(list[i]))
  <2> SUFFICES ASSUME IsAgentAuthority(list[i]), IsGrant(list[i]) PROVE FALSE
      OBVIOUS
  <2>1. TypesOf[list[i]] \cap Kinds = Kinds
      BY DEF IsAgentAuthority, IsGrant
  <2>2. Cardinality(Kinds) = 2
    <3>1. IsFiniteSet({"HelixAgentCredential"}) /\ Cardinality({"HelixAgentCredential"}) = 1
        BY FS_Singleton
    <3>2. Cardinality({"HelixAgentCredential"} \cup {"DelegationGrantCredential"})
            = Cardinality({"HelixAgentCredential"}) + 1
        BY <3>1, FS_AddElement
    <3>3. {"HelixAgentCredential"} \cup {"DelegationGrantCredential"} = Kinds
        OBVIOUS
    <3> QED
        BY <3>1, <3>2, <3>3
  <2> QED
      BY <2>1, <2>2
<1>3. AgentEntries(list) \cap GrantEntries(list) = {}
    BY <1>2 DEF AgentEntries, GrantEntries
<1>4. AgentEntries(list) \cup GrantEntries(list) = DOMAIN list
  <2>1. DOMAIN list = 1..Len(list) /\ Len(list) \in Nat
      BY <1>1
  <2>2. AgentEntries(list) \in SUBSET (1..Len(list)) /\ GrantEntries(list) \in SUBSET (1..Len(list))
      BY <2>1 DEF AgentEntries, GrantEntries
  <2> QED
      BY <1>1, <1>3, <2>1, <2>2, PlacesCovered DEF WellFormed
<1>5. \E i \in DOMAIN list : "HelixAgentCredential" \in TypesOf[list[i]]
    BY <1>1 DEF WellFormed, AgentEntries, IsAgentAuthority
<1>6. \A i \in DOMAIN list : TypesOf[list[i]] \cap Kinds # {}
    BY <1>4 DEF AgentEntries, GrantEntries, IsAgentAuthority, IsGrant
<1> QED
    BY <1>5, <1>6

\* In every reachable state a presentation verifies with a document of the key it
\* was signed with, and with no other, whoever its holder is, exactly as long as
\* the caller's list is what it was at signing (vp_builder.py:74-101,
\* proof.py:42-66, did.py:49-53).
THEOREM VPBuilderVerifiesWhileUnchanged == Spec => []VerifiesWhileUnchanged
BY VPBuilderInvariant, VerifiesFromInv, PTL

\* In every reachable state a proof verifies, with no key but the one it was made
\* with, no presentation that differs in its holder, service, user, nonce or
\* credentials, though the holder is the builder's own and not the key's
\* (vp_builder.py:58,82-95, proof.py:42-66).
THEOREM VPBuilderProofsNotInterchangeable == Spec => []ProofsNotInterchangeable
BY VPBuilderInvariant, NotInterchangeableFromInv, PTL

\* In every reachable state, what was signed from the list that __post_init__
\* checked (vp_builder.py:62-72) has an agent credential and otherwise grants,
\* unless one credential is of both kinds.
THEOREM VPBuilderSignedAsChecked == Spec => []SignedAsChecked
BY VPBuilderInvariant, SignedAsCheckedFromInv, PTL
=============================================================================
