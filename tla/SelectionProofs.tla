-------------------------- MODULE SelectionProofs --------------------------
(***************************************************************************)
(* What Kept computes, for every sequence, and induction without an        *)
(* operator as an argument: from the least number that would be a          *)
(* counterexample (LeastNumber, UpTo).                                     *)
(***************************************************************************)
EXTENDS Selection, WellFoundedInduction, TLAPS

-----------------------------------------------------------------------------
(* Least elements, and induction without an operator argument              *)

(* Every non-empty set of natural numbers has a least element. *)
LEMMA LeastNumber ==
  ASSUME NEW T, T \subseteq Nat, T # {}
  PROVE  \E m \in T : \A n \in T : m <= n
  <1> DEFINE Less == OpToRel(<, Nat)
  <1>1. IsWellFoundedOn(Less, Nat)
    BY NatLessThanWellFounded
  <1>2. \A k, n \in Nat : n < k => <<n, k>> \in Less
    <2>1. \A k, n \in Nat : n < k => <<n, k>> \in {p \in Nat \X Nat : p[1] < p[2]}
      OBVIOUS
    <2>2. Less = {p \in Nat \X Nat : p[1] < p[2]}
      BY Zenon DEF OpToRel
    <2>3. QED
      BY <2>1, <2>2, Zenon
  <1> HIDE DEF Less
  <1>3. PICK m \in T : \A n \in T : ~ (<<n, m>> \in Less)
    BY <1>1, WFMin
  <1>4. ASSUME NEW n \in T PROVE m <= n
    <2>1. n \in Nat /\ m \in Nat
      OBVIOUS
    <2>2. ~ (n < m)
      BY <1>2, <1>3, <2>1, Zenon
    <2>3. QED
      BY <2>1, <2>2
  <1>5. QED
    BY <1>4

(* A property that holds of 0 and is passed on holds up to any bound. *)
LEMMA UpTo ==
  ASSUME NEW bound \in Nat, NEW S, 0 \in S, \A n \in 0..(bound - 1) : n \in S => n + 1 \in S
  PROVE  \A n \in 0..bound : n \in S
  <1> DEFINE T == {n \in 0..bound : n \notin S}
  <1>1. SUFFICES ASSUME T # {} PROVE FALSE
    OBVIOUS
  <1>2. PICK m \in T : \A n \in T : m <= n
    <2>1. T \subseteq Nat
      OBVIOUS
    <2>2. QED
      BY <1>1, <2>1, LeastNumber
  <1>3. m # 0 /\ m - 1 \in 0..(bound - 1) /\ m - 1 \notin T
    BY <1>2
  <1>4. QED
    BY <1>2, <1>3

-----------------------------------------------------------------------------
(* Keeping some members of a sequence                                 *)

KeptUpTo(upTo, seq, kept, n) ==
  IF n = 0 THEN <<>>
  ELSE IF n \in kept THEN Append(upTo[n - 1], seq[n]) ELSE upTo[n - 1]

(* The recursive function in the definition of Kept exists. *)
LEMMA UpToExists ==
  ASSUME NEW Elem, NEW seq \in Seq(Elem), NEW kept
  PROVE  \E g : g = [n \in 0..Len(seq) |-> KeptUpTo(g, seq, kept, n)]
  <1> DEFINE L == Len(seq)
             S == {b \in 0..L : \E g \in [0..b -> Seq(Elem)] :
                     \A n \in 0..b : g[n] = KeptUpTo(g, seq, kept, n)}
  <1>1. 0 \in S
    <2>1. /\ [n \in 0..0 |-> <<>>] \in [0..0 -> Seq(Elem)]
          /\ \A n \in 0..0 : [k \in 0..0 |-> <<>>][n]
                               = KeptUpTo([k \in 0..0 |-> <<>>], seq, kept, n)
      BY DEF KeptUpTo
    <2>2. 0 \in 0..L
      OBVIOUS
    <2>3. QED
      BY <2>1, <2>2
  <1>2. ASSUME NEW b \in 0..(L - 1), b \in S
        PROVE  b + 1 \in S
    <2>1. PICK g \in [0..b -> Seq(Elem)] :
                 \A n \in 0..b : g[n] = KeptUpTo(g, seq, kept, n)
      BY <1>2
    <2> DEFINE last == IF b + 1 \in kept THEN Append(g[b], seq[b + 1]) ELSE g[b]
               h    == [n \in 0..(b + 1) |-> IF n = b + 1 THEN last ELSE g[n]]
    <2>2. last \in Seq(Elem)
      <3>1. seq[b + 1] \in Elem /\ g[b] \in Seq(Elem)
        BY <1>2
      <3>2. QED
        BY <3>1
    <2> HIDE DEF last
    <2>3. h \in [0..(b + 1) -> Seq(Elem)]
      BY <2>2
    <2>4. ASSUME NEW n \in 0..(b + 1)
          PROVE  h[n] = KeptUpTo(h, seq, kept, n)
      <3>1. CASE n = b + 1
        <4>1. n # 0 /\ n - 1 \in 0..(b + 1) /\ n - 1 # b + 1 /\ n - 1 = b
          BY <3>1
        <4>2. h[n] = last /\ h[n - 1] = g[b]
          BY <3>1, <4>1
        <4>3. QED
          BY <3>1, <4>1, <4>2 DEF KeptUpTo, last
      <3>2. CASE n # b + 1
        <4>1. n \in 0..b /\ h[n] = g[n]
          BY <3>2
        <4>2. n # 0 => n - 1 \in 0..b /\ h[n - 1] = g[n - 1]
          BY <4>1
        <4>3. QED
          BY <2>1, <4>1, <4>2 DEF KeptUpTo
      <3>3. QED
        BY <3>1, <3>2
    <2>5. b + 1 \in 0..L
      BY <1>2
    <2> HIDE DEF h
    <2>6. QED
      BY <2>3, <2>4, <2>5
  <1>3. L \in S
    <2>1. L \in Nat /\ L \in 0..L
      OBVIOUS
    <2> HIDE DEF S, L
    <2>2. QED
      BY <1>1, <1>2, <2>1, UpTo
  <1>4. PICK g \in [0..L -> Seq(Elem)] :
               \A n \in 0..L : g[n] = KeptUpTo(g, seq, kept, n)
    BY <1>3
  <1>5. g = [n \in 0..L |-> KeptUpTo(g, seq, kept, n)]
    BY <1>4
  <1>6. QED
    BY <1>5

(* What is kept of the members up to n, for every n.                       *)
Stepwise(upTo, Elem, seq, kept) ==
  /\ upTo \in [0..Len(seq) -> Seq(Elem)]
  /\ upTo[0] = <<>>
  /\ \A n \in 1..Len(seq) :
       upTo[n] = IF n \in kept THEN Append(upTo[n - 1], seq[n]) ELSE upTo[n - 1]
  /\ Kept(seq, kept) = upTo[Len(seq)]

(* What Kept computes, step by step. *)
LEMMA KeptSteps ==
  ASSUME NEW Elem, NEW seq \in Seq(Elem), NEW kept
  PROVE  \E upTo : Stepwise(upTo, Elem, seq, kept)
  <1> DEFINE L == Len(seq)
             f == CHOOSE g : g = [n \in 0..L |-> KeptUpTo(g, seq, kept, n)]
             S == {n \in 0..L : f[n] \in Seq(Elem)}
  <1>1. f = [n \in 0..L |-> KeptUpTo(f, seq, kept, n)]
    BY UpToExists
  <1>2. Kept(seq, kept) = f[L]
    BY DEF Kept, KeptUpTo
  <1> HIDE DEF f
  <1>3. \A n \in 0..L : f[n] = KeptUpTo(f, seq, kept, n)
    BY <1>1
  <1>4. f[0] = <<>>
    BY <1>3 DEF KeptUpTo
  <1>5. \A n \in 1..L : f[n] = IF n \in kept THEN Append(f[n - 1], seq[n]) ELSE f[n - 1]
    BY <1>3 DEF KeptUpTo
  <1>6. 0 \in S
    <2>1. <<>> \in Seq(Elem) /\ 0 \in 0..L
      OBVIOUS
    <2>2. QED
      BY <1>4, <2>1
  <1>7. ASSUME NEW n \in 0..(L - 1), n \in S PROVE n + 1 \in S
    <2>1. n + 1 \in 1..L /\ (n + 1) - 1 = n /\ seq[n + 1] \in Elem
      BY <1>7
    <2>2. f[n + 1] = IF n + 1 \in kept THEN Append(f[n], seq[n + 1]) ELSE f[n]
      BY <1>5, <2>1
    <2>3. f[n] \in Seq(Elem)
      BY <1>7
    <2>4. f[n + 1] \in Seq(Elem)
      BY <2>1, <2>2, <2>3
    <2>5. QED
      BY <2>1, <2>4
  <1>8. \A n \in 0..L : n \in S
    <2>1. L \in Nat
      OBVIOUS
    <2> HIDE DEF S, L
    <2>2. QED
      BY <1>6, <1>7, <2>1, UpTo
  <1>9. f \in [0..L -> Seq(Elem)]
    <2>1. f = [n \in 0..L |-> f[n]]
      BY <1>1, <1>3
    <2>2. \A n \in 0..L : f[n] \in Seq(Elem)
      BY <1>8
    <2>3. QED
      BY <2>1, <2>2
  <1>10. Stepwise(f, Elem, seq, kept)
    BY <1>2, <1>4, <1>5, <1>9 DEF Stepwise
  <1>11. QED
    BY <1>10

(* What is kept, where it comes from and in which order. *)
Picks(h, seq, kept, result) ==
  /\ h \in [1..Len(result) -> kept]
  /\ \A i \in 1..Len(result) : result[i] = seq[h[i]]
  /\ \A i, j \in 1..Len(result) : i < j => h[i] < h[j]
  /\ \A k \in kept : \E i \in 1..Len(result) : h[i] = k

(* Every kept member once, in the order of the sequence. *)
LEMMA KeptInOrder ==
  ASSUME NEW Elem, NEW seq \in Seq(Elem), NEW kept \in SUBSET DOMAIN seq
  PROVE  /\ Kept(seq, kept) \in Seq(Elem)
         /\ \E h : Picks(h, seq, kept, Kept(seq, kept))
  <1> DEFINE L == Len(seq)
  <1>0. PICK upTo : Stepwise(upTo, Elem, seq, kept)
    BY KeptSteps
  <1>1. /\ upTo \in [0..L -> Seq(Elem)] /\ upTo[0] = <<>>
        /\ \A n \in 1..L :
             upTo[n] = IF n \in kept THEN Append(upTo[n - 1], seq[n]) ELSE upTo[n - 1]
        /\ Kept(seq, kept) = upTo[L]
    BY <1>0 DEF Stepwise
  <1> DEFINE S == {n \in 0..L : \E h : Picks(h, seq, kept \cap 1..n, upTo[n])}
  <1>2. 0 \in S
    <2>1. upTo[0] = <<>> /\ Len(upTo[0]) = 0 /\ kept \cap 1..0 = {}
      BY <1>1
    <2>2. Picks([i \in 1..0 |-> i], seq, kept \cap 1..0, upTo[0])
      BY <2>1 DEF Picks
    <2>3. 0 \in 0..L
      OBVIOUS
    <2>4. QED
      BY <2>2, <2>3
  <1>3. ASSUME NEW n \in 0..(L - 1), n \in S PROVE n + 1 \in S
    <2>1. PICK h : Picks(h, seq, kept \cap 1..n, upTo[n])
      BY <1>3
    <2>2. /\ n + 1 \in 1..L /\ n \in 0..L /\ n \in Nat /\ (n + 1) - 1 = n /\ n + 1 \in 0..L
          /\ seq[n + 1] \in Elem
          /\ upTo[n] \in Seq(Elem)
      BY <1>1, <1>3
    <2>3. CASE n + 1 \notin kept
      <3>1. upTo[n + 1] = upTo[n]
        BY <1>1, <2>2, <2>3
      <3>2. kept \cap 1..(n + 1) = kept \cap 1..n
        BY <2>2, <2>3
      <3>3. Picks(h, seq, kept \cap 1..(n + 1), upTo[n + 1])
        BY <2>1, <3>1, <3>2
      <3>4. QED
        BY <2>2, <3>3
    <2>4. CASE n + 1 \in kept
      <3> DEFINE M == Len(upTo[n])
                 g == [i \in 1..(M + 1) |-> IF i = M + 1 THEN n + 1 ELSE h[i]]
                 result == upTo[n + 1]
      <3>1. result = Append(upTo[n], seq[n + 1])
        BY <1>1, <2>2, <2>4
      <3>2. /\ M \in Nat
            /\ Len(result) = M + 1
            /\ result[M + 1] = seq[n + 1]
            /\ \A i \in 1..M : result[i] = upTo[n][i]
        BY <2>2, <3>1
      <3>3. /\ \A i \in 1..M : h[i] \in kept \cap 1..n /\ upTo[n][i] = seq[h[i]]
            /\ \A i, j \in 1..M : i < j => h[i] < h[j]
            /\ \A k \in kept \cap 1..n : \E i \in 1..M : h[i] = k
        BY <2>1 DEF Picks
      <3> HIDE DEF M, result
      <3>4. /\ g[M + 1] = n + 1
            /\ \A i \in 1..M : g[i] = h[i]
            /\ \A i \in 1..(M + 1) : i = M + 1 \/ i \in 1..M
            /\ M + 1 \in 1..(M + 1) /\ 1..M \subseteq 1..(M + 1)
        BY <3>2
      <3>5. g \in [1..(M + 1) -> kept \cap 1..(n + 1)]
        <4>1. ASSUME NEW i \in 1..(M + 1) PROVE g[i] \in kept \cap 1..(n + 1)
          <5>1. CASE i = M + 1
            BY <2>2, <2>4, <3>4, <5>1
          <5>2. CASE i \in 1..M
            <6>1. g[i] = h[i] /\ h[i] \in kept \cap 1..n
              BY <3>3, <3>4, <5>2
            <6>2. 1..n \subseteq 1..(n + 1)
              BY <2>2
            <6>3. QED
              BY <6>1, <6>2
          <5>3. QED
            BY <3>4, <5>1, <5>2
        <4>2. QED
          BY <4>1
      <3> HIDE DEF g
      <3>6. ASSUME NEW i \in 1..(M + 1) PROVE result[i] = seq[g[i]]
        BY <3>2, <3>3, <3>4
      <3>7. ASSUME NEW i \in 1..(M + 1), NEW j \in 1..(M + 1), i < j PROVE g[i] < g[j]
        <4>1. i \in 1..M
          BY <3>2, <3>7
        <4>2. CASE j = M + 1
          <5>1. g[i] = h[i] /\ h[i] \in 1..n /\ g[j] = n + 1
            BY <3>3, <3>4, <4>1, <4>2
          <5>2. QED
            BY <2>2, <5>1
        <4>3. CASE j \in 1..M
          BY <3>3, <3>4, <3>7, <4>1, <4>3
        <4>4. QED
          BY <3>4, <4>2, <4>3
      <3>8. ASSUME NEW k \in kept \cap 1..(n + 1) PROVE \E i \in 1..(M + 1) : g[i] = k
        <4>1. CASE k = n + 1
          BY <3>4, <4>1
        <4>2. CASE k # n + 1
          <5>1. k \in kept \cap 1..n
            BY <2>2, <4>2
          <5>2. QED
            BY <3>3, <3>4, <5>1
        <4>3. QED
          BY <4>1, <4>2
      <3>9. Picks(g, seq, kept \cap 1..(n + 1), result)
        BY <3>2, <3>5, <3>6, <3>7, <3>8 DEF Picks
      <3>10. QED
        BY <2>2, <3>9 DEF result
    <2>5. QED
      BY <2>3, <2>4
  <1>4. L \in S
    <2>1. L \in Nat /\ L \in 0..L
      OBVIOUS
    <2> HIDE DEF S, L
    <2>2. QED
      BY <1>2, <1>3, <2>1, UpTo
  <1>5. kept \cap 1..L = kept
    OBVIOUS
  <1>6. QED
    BY <1>1, <1>4, <1>5
(* What is kept comes from the kept positions, all of it; what was all     *)
(* different stays so; the first member stays the first.                   *)
LEMMA KeptMembers ==
  ASSUME NEW Elem, NEW seq \in Seq(Elem), NEW kept \in SUBSET DOMAIN seq
  PROVE  LET result == Kept(seq, kept) IN
         /\ result \in Seq(Elem)
         /\ \A i \in DOMAIN result : \E k \in kept : result[i] = seq[k]
         /\ \A k \in kept : \E i \in DOMAIN result : result[i] = seq[k]
         /\ (\A k, l \in kept : seq[k] = seq[l] => k = l) =>
              \A i, j \in DOMAIN result : result[i] = result[j] => i = j
         /\ 1 \in kept => Len(result) >= 1 /\ result[1] = seq[1]
  <1> DEFINE result == Kept(seq, kept)
  <1>1. result \in Seq(Elem)
    BY KeptInOrder
  <1>2. PICK h : Picks(h, seq, kept, result)
    BY KeptInOrder
  <1> HIDE DEF result
  <1>3. /\ DOMAIN result = 1..Len(result) /\ Len(result) \in Nat
        /\ kept \subseteq Nat /\ \A k \in kept : k >= 1
    BY <1>1
  <1>4. /\ \A i \in DOMAIN result : h[i] \in kept /\ result[i] = seq[h[i]]
        /\ \A i, j \in DOMAIN result : i < j => h[i] < h[j]
        /\ \A k \in kept : \E i \in DOMAIN result : h[i] = k
    BY <1>2, <1>3 DEF Picks
  <1>5. \A k \in kept : \E i \in DOMAIN result : result[i] = seq[k]
    BY <1>4
  <1>6. ASSUME \A k, l \in kept : seq[k] = seq[l] => k = l,
               NEW i \in DOMAIN result, NEW j \in DOMAIN result, result[i] = result[j]
        PROVE  i = j
    <2>1. h[i] = h[j] /\ h[i] \in Nat
      BY <1>3, <1>4, <1>6
    <2>2. ~(i < j) /\ ~(j < i)
      BY <1>4, <2>1
    <2>3. QED
      BY <1>3, <2>2
  <1>7. ASSUME 1 \in kept
        PROVE  Len(result) >= 1 /\ result[1] = seq[1]
    <2>1. PICK i \in DOMAIN result : h[i] = 1
      BY <1>4, <1>7
    <2>2. 1 \in DOMAIN result /\ i >= 1 /\ i \in Nat
      BY <1>3
    <2>3. i = 1
      <3>1. CASE 1 < i
        <4>1. h[1] < 1 /\ h[1] >= 1 /\ h[1] \in Nat
          BY <1>3, <1>4, <2>1, <2>2, <3>1
        <4>2. QED
          BY <4>1
      <3>2. QED
        BY <2>2, <3>1
    <2>4. QED
      BY <1>3, <1>4, <2>1, <2>2, <2>3
  <1>8. QED
    BY <1>1, <1>4, <1>5, <1>6, <1>7 DEF result

(* What is kept is the only sequence that has the kept members in order.   *)
LEMMA KeptIs ==
  ASSUME NEW Elem, NEW seq \in Seq(Elem), NEW kept \in SUBSET DOMAIN seq
  PROVE  \A result \in Seq(Elem) :
           (\E h : Picks(h, seq, kept, result)) => Kept(seq, kept) = result
  <1>0. PICK upTo : Stepwise(upTo, Elem, seq, kept)
    BY KeptSteps
  <1> SUFFICES ASSUME NEW result \in Seq(Elem), NEW h, Picks(h, seq, kept, result)
               PROVE  Kept(seq, kept) = result
    OBVIOUS
  <1> DEFINE L == Len(seq)
             m == Len(result)
  <1>1. /\ upTo \in [0..L -> Seq(Elem)] /\ upTo[0] = <<>>
        /\ \A n \in 1..L :
             upTo[n] = IF n \in kept THEN Append(upTo[n - 1], seq[n]) ELSE upTo[n - 1]
        /\ Kept(seq, kept) = upTo[L]
    BY <1>0 DEF Stepwise
  <1>2. /\ L \in Nat /\ m \in Nat /\ kept \subseteq 1..L
        /\ \A i \in 1..m : h[i] \in kept /\ h[i] \in 1..L /\ result[i] = seq[h[i]]
        /\ \A i, j \in 1..m : i < j => h[i] < h[j]
        /\ \A k \in kept : \E i \in 1..m : h[i] = k
    <2>1. /\ h \in [1..m -> kept]
          /\ \A i \in 1..m : result[i] = seq[h[i]]
          /\ \A i, j \in 1..m : i < j => h[i] < h[j]
          /\ \A k \in kept : \E i \in 1..m : h[i] = k
      BY DEF Picks
    <2>2. L \in Nat /\ m \in Nat /\ kept \subseteq 1..L
      OBVIOUS
    <2>3. QED
      BY <2>1, <2>2
  <1> DEFINE Done(n, j) == /\ upTo[n] = SubSeq(result, 1, j)
                           /\ \A i \in 1..m : i <= j <=> h[i] <= n
             S == {n \in 0..L : \E j \in 0..m : Done(n, j)}
  <1> HIDE DEF L, m
  <1>3. 0 \in S
    <2>1. SubSeq(result, 1, 0) = <<>>
      OBVIOUS
    <2>2. Done(0, 0) /\ 0 \in 0..L /\ 0 \in 0..m
      BY <1>1, <1>2, <2>1
    <2>3. QED
      BY <2>2
  <1>4. ASSUME NEW n \in 0..(L - 1), n \in S PROVE n + 1 \in S
    <2>1. PICK j \in 0..m : Done(n, j)
      BY <1>4
    <2>2. /\ n + 1 \in 1..L /\ n + 1 \in 0..L /\ (n + 1) - 1 = n /\ n \in Nat /\ j \in Nat
      <3>1. L \in Nat /\ m \in Nat
        BY <1>2
      <3>2. QED
        BY <3>1
    <2>3. upTo[n + 1] = IF n + 1 \in kept THEN Append(upTo[n], seq[n + 1]) ELSE upTo[n]
      BY <1>1, <2>2
    <2>4. CASE n + 1 \notin kept
      <3>1. \A i \in 1..m : h[i] # n + 1 /\ h[i] \in Nat
        BY <1>2, <2>4
      <3>2. \A i \in 1..m : i <= j <=> h[i] <= n + 1
        BY <2>1, <2>2, <3>1
      <3>3. Done(n + 1, j)
        BY <2>1, <2>3, <2>4, <3>2
      <3>4. QED
        BY <2>2, <3>3
    <2>5. CASE n + 1 \in kept
      <3>1. PICK i \in 1..m : h[i] = n + 1
        BY <1>2, <2>5
      <3>2. i \in Nat /\ i > j
        BY <1>2, <2>1, <2>2, <3>1
      <3>3. i = j + 1
        <4>1. CASE j + 1 < i
          <5>1. j + 1 \in 1..m /\ h[j + 1] < h[i] /\ h[j + 1] \in Nat
            BY <1>2, <2>2, <3>2, <4>1
          <5>2. h[j + 1] <= n
            BY <2>2, <3>1, <5>1
          <5>3. j + 1 <= j
            BY <2>1, <5>1, <5>2
          <5>4. QED
            BY <2>2, <5>3
        <4>2. QED
          BY <2>2, <3>2, <4>1
      <3>4. result[j + 1] = seq[n + 1] /\ j + 1 \in 1..m
        BY <1>2, <3>1, <3>3
      <3>5. SubSeq(result, 1, j + 1) = Append(SubSeq(result, 1, j), result[j + 1])
        BY <1>2, <2>2, <3>4 DEF m
      <3>6. \A k \in 1..m : k <= j + 1 <=> h[k] <= n + 1
        <4>1. ASSUME NEW k \in 1..m
              PROVE  k <= j + 1 <=> h[k] <= n + 1
          <5>1. /\ k \in Nat /\ h[k] \in Nat /\ (k <= j <=> h[k] <= n)
                /\ (k < i => h[k] < h[i]) /\ (i < k => h[i] < h[k])
            <6>1. k \in Nat /\ h[k] \in 1..L /\ h[i] \in 1..L
              BY <1>2, <3>1
            <6>2. k <= j <=> h[k] <= n
              BY <2>1
            <6>3. (k < i => h[k] < h[i]) /\ (i < k => h[i] < h[k])
              BY <1>2, <3>1
            <6>4. QED
              BY <1>2, <6>1, <6>2, <6>3
          <5>2. QED
            BY <2>2, <3>1, <3>2, <3>3, <5>1
        <4>2. QED
          BY <4>1
      <3>7. upTo[n + 1] = SubSeq(result, 1, j + 1)
        BY <2>1, <2>3, <2>5, <3>4, <3>5
      <3>8. Done(n + 1, j + 1) /\ j + 1 \in 0..m
        BY <3>4, <3>6, <3>7
      <3>9. QED
        BY <2>2, <3>8
    <2>6. QED
      BY <2>4, <2>5
  <1>5. \A n \in 0..L : n \in S
    <2> HIDE DEF S
    <2>1. QED
      BY <1>2, <1>3, <1>4, UpTo
  <1>6. PICK j \in 0..m : Done(L, j)
    <2>1. L \in S
      <3> HIDE DEF S
      <3>1. QED
        BY <1>2, <1>5
    <2>2. QED
      BY <2>1
  <1>7. j = m
    <2>1. CASE m = 0
      BY <1>2, <2>1
    <2>2. CASE m # 0
      <3>1. m \in 1..m /\ h[m] <= L
        BY <1>2, <2>2
      <3>2. m <= j
        BY <1>6, <3>1
      <3>3. QED
        BY <1>2, <3>2
    <2>3. QED
      BY <2>1, <2>2
  <1>8. SubSeq(result, 1, m) = result
    BY DEF m
  <1>9. QED
    BY <1>1, <1>6, <1>7, <1>8

(* Positions beyond the sequence do not matter.                            *)
LEMMA KeptAppended ==
  ASSUME NEW Elem, NEW seq \in Seq(Elem), NEW kept, NEW longer, NEW m \in Elem,
         \A n \in 1..Len(seq) : n \in kept <=> n \in longer
  PROVE  Kept(Append(seq, m), longer) =
           IF Len(seq) + 1 \in longer THEN Append(Kept(seq, kept), m) ELSE Kept(seq, kept)
  <1> DEFINE L == Len(seq)
             more == Append(seq, m)
  <1>1. /\ L \in Nat /\ more \in Seq(Elem) /\ Len(more) = L + 1
        /\ more[L + 1] = m /\ \A n \in 1..L : more[n] = seq[n]
    OBVIOUS
  <1>2. PICK a : Stepwise(a, Elem, seq, kept)
    BY KeptSteps
  <1>3. PICK b : Stepwise(b, Elem, more, longer)
    <2> HIDE DEF more
    <2> QED
      BY <1>1, KeptSteps
  <1>4. /\ a[0] = <<>>
        /\ \A n \in 1..L : a[n] = IF n \in kept THEN Append(a[n - 1], seq[n]) ELSE a[n - 1]
        /\ Kept(seq, kept) = a[L]
    BY <1>2 DEF Stepwise
  <1>5. /\ b[0] = <<>>
        /\ \A n \in 1..(L + 1) :
             b[n] = IF n \in longer THEN Append(b[n - 1], more[n]) ELSE b[n - 1]
        /\ Kept(more, longer) = b[L + 1]
    <2> HIDE DEF L, more
    <2> QED
      BY <1>1, <1>3 DEF Stepwise
  <1> DEFINE S == {n \in 0..L : a[n] = b[n]}
  <1> HIDE DEF L, more
  <1>6. 0 \in S
    BY <1>1, <1>4, <1>5
  <1>7. ASSUME NEW n \in 0..(L - 1), n \in S PROVE n + 1 \in S
    <2>1. n + 1 \in 1..L /\ n + 1 \in 1..(L + 1) /\ (n + 1) - 1 = n
      BY <1>1
    <2>2. n + 1 \in kept <=> n + 1 \in longer
      BY <2>1 DEF L
    <2>3. /\ a[n + 1] = IF n + 1 \in kept THEN Append(a[n], seq[n + 1]) ELSE a[n]
          /\ b[n + 1] = IF n + 1 \in longer THEN Append(b[n], more[n + 1]) ELSE b[n]
          /\ more[n + 1] = seq[n + 1] /\ a[n] = b[n]
      BY <1>1, <1>4, <1>5, <1>7, <2>1
    <2>4. QED
      BY <2>1, <2>2, <2>3
  <1>8. \A n \in 0..L : n \in S
    <2> HIDE DEF S
    <2>1. QED
      BY <1>1, <1>6, <1>7, UpTo
  <1>9. a[L] = b[L] /\ L + 1 \in 1..(L + 1) /\ (L + 1) - 1 = L
    BY <1>1, <1>8
  <1>10. b[L + 1] = IF L + 1 \in longer THEN Append(b[L], m) ELSE b[L]
    BY <1>1, <1>5, <1>9
  <1>11. QED
    BY <1>4, <1>5, <1>9, <1>10 DEF L, more

(* The end of a sequence, kept.                                            *)
LEMMA KeptLast ==
  ASSUME NEW Elem, NEW a \in Seq(Elem), NEW b \in Seq(Elem)
  PROVE  Kept(a \o b, (Len(a) + 1)..(Len(a) + Len(b))) = b
  <1> DEFINE seq == a \o b
             k == Len(a)
             n == Len(b)
             kept == (k + 1)..(k + n)
             h == [i \in 1..n |-> i + k]
  <1>1. /\ seq \in Seq(Elem) /\ k \in Nat /\ n \in Nat /\ Len(seq) = k + n
        /\ DOMAIN seq = 1..(k + n)
        /\ \A i \in 1..n : seq[i + k] = b[i]
    OBVIOUS
  <1> HIDE DEF seq, k
  <1>2. Picks(h, seq, kept, b)
    <2>1. h \in [1..n -> kept]
      BY <1>1
    <2>2. \A i \in 1..n : b[i] = seq[h[i]]
      BY <1>1
    <2>3. \A i, j \in 1..n : i < j => h[i] < h[j]
      BY <1>1
    <2>4. \A p \in kept : \E i \in 1..n : h[i] = p
      <3>1. \A p \in kept : p - k \in 1..n /\ (p - k) + k = p
        BY <1>1
      <3>2. QED
        BY <3>1
    <2>5. QED
      BY <2>1, <2>2, <2>3, <2>4 DEF Picks
  <1>3. kept \in SUBSET DOMAIN seq
    BY <1>1
  <1> HIDE DEF kept, h
  <1>4. Kept(seq, kept) = b
    BY <1>1, <1>2, <1>3, KeptIs
  <1>5. QED
    BY <1>4 DEF seq, kept, k, n

(* The first member and the end of a sequence, kept.                       *)
LEMMA KeptEnds ==
  ASSUME NEW Elem, NEW e \in Elem, NEW a \in Seq(Elem), NEW b \in Seq(Elem),
         NEW kept, kept = {1} \cup (Len(a) + 2)..(Len(a) + Len(b) + 1)
  PROVE  Kept(<<e>> \o a \o b, kept) = <<e>> \o b
  <1> DEFINE seq == <<e>> \o a \o b
             k == Len(a)
             n == Len(b)
             result == <<e>> \o b
             h == [i \in 1..(n + 1) |-> IF i = 1 THEN 1 ELSE i + k]
  <1>1. /\ seq \in Seq(Elem) /\ k \in Nat /\ n \in Nat /\ Len(seq) = k + n + 1
        /\ DOMAIN seq = 1..(k + n + 1) /\ seq[1] = e
        /\ \A i \in 1..n : seq[i + k + 1] = b[i]
    OBVIOUS
  <1>2. /\ result \in Seq(Elem) /\ Len(result) = n + 1 /\ result[1] = e
        /\ \A i \in 2..(n + 1) : result[i] = b[i - 1]
    OBVIOUS
  <1>3. kept = {1} \cup (k + 2)..(k + n + 1)
    OBVIOUS
  <1> HIDE DEF seq, k, n, result
  <1>4. Picks(h, seq, kept, result)
    <2>1. h \in [1..(n + 1) -> kept]
      <3>1. \A i \in 2..(n + 1) : i + k \in (k + 2)..(k + n + 1)
        BY <1>1
      <3>2. \A i \in 1..(n + 1) : i = 1 \/ i \in 2..(n + 1)
        BY <1>1
      <3>3. \A i \in 1..(n + 1) : (IF i = 1 THEN 1 ELSE i + k) \in kept
        BY <1>3, <3>1, <3>2
      <3>4. QED
        BY <3>3
    <2>2. \A i \in 1..(n + 1) : result[i] = seq[h[i]]
      <3>1. ASSUME NEW i \in 1..(n + 1)
            PROVE  result[i] = seq[h[i]]
        <4>1. CASE i = 1
          BY <1>1, <1>2, <4>1
        <4>2. CASE i # 1
          <5>1. i - 1 \in 1..n /\ (i - 1) + k + 1 = i + k /\ h[i] = i + k /\ i \in 2..(n + 1)
            BY <1>1, <4>2
          <5>2. QED
            BY <1>1, <1>2, <5>1
        <4>3. QED
          BY <4>1, <4>2
      <3>2. QED
        BY <3>1
    <2>3. \A i, j \in 1..(n + 1) : i < j => h[i] < h[j]
      BY <1>1
    <2>4. \A p \in kept : \E i \in 1..(n + 1) : h[i] = p
      <3>1. \A p \in kept : p # 1 => p - k \in 2..(n + 1) /\ (p - k) + k = p
        BY <1>1, <1>3
      <3>2. h[1] = 1 /\ \A i \in 2..(n + 1) : i \in 1..(n + 1) /\ h[i] = i + k
        BY <1>1
      <3>3. 1 \in 1..(n + 1)
        BY <1>1
      <3> HIDE DEF h
      <3>4. QED
        BY <3>1, <3>2, <3>3
    <2> HIDE DEF h
    <2>5. QED
      BY <1>2, <2>1, <2>2, <2>3, <2>4 DEF Picks
  <1>5. kept \in SUBSET DOMAIN seq
    BY <1>1, <1>3
  <1> HIDE DEF h
  <1>6. Kept(seq, kept) = result
    BY <1>1, <1>2, <1>4, <1>5, KeptIs
  <1>7. QED
    BY <1>6 DEF seq, result

=============================================================================
