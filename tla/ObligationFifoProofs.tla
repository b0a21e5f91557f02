------------------------ MODULE ObligationFifoProofs ------------------------
(***************************************************************************)
(* What the sums and the FIFO loop of ObligationFifo compute, for every    *)
(* number of rows and every payment.  Both operators are recursive         *)
(* functions over an interval.  Facts about them go by induction on the    *)
(* number of rows, in a form stated with a set instead of a predicate      *)
(* (IntervalInduction): the set of rows at which a fact holds contains 0   *)
(* and is closed under "next row", so it contains the whole interval.      *)
(***************************************************************************)
EXTENDS ObligationFifo, WellFoundedInduction, TLAPS

(* Every non-empty set of natural numbers has a least element.             *)
LEMMA MinimalNatural ==
  ASSUME NEW S \in SUBSET Nat, S # {}
  PROVE  \E m \in S : \A k \in S : m <= k
<1>1. PICK m \in S : \A k \in S : <<k, m>> \notin OpToRel(<, Nat)
  BY WFMin, NatLessThanWellFounded, Zenon
<1>2. \A k \in S : ~(k < m)
  BY <1>1, Zenon DEF OpToRel
<1>3. QED
  BY <1>2

(* A set that holds 0 and, with each row below n, the next one holds 0..n. *)
LEMMA IntervalInduction ==
  ASSUME NEW n \in Nat, NEW G,
         0 \in G, \A i \in 1..n : i-1 \in G => i \in G
  PROVE  \A i \in 0..n : i \in G
<1> DEFINE Bad == {i \in 0..n : i \notin G}
<1>1. SUFFICES ASSUME Bad # {} PROVE FALSE
  OBVIOUS
<1>2. Bad \in SUBSET Nat
  OBVIOUS
<1>3. PICK i \in Bad : \A k \in Bad : i <= k
  BY <1>1, <1>2, MinimalNatural
<1>4. i \in 1..n /\ i-1 \in 0..n
  BY <1>3
<1>5. i-1 \notin Bad
  BY <1>3, <1>4
<1>6. QED
  BY <1>3, <1>4, <1>5

-----------------------------------------------------------------------------
(* SumOn(f, n, s): s is the sum as a function on 0..n.                     *)
SumOn(f, n, s) ==
    s = [i \in 0..n |-> IF i = 0 THEN 0 ELSE s[i-1] + f[i]]

(* A solution of the recursion exists for every number of rows.            *)
LEMMA SumExists ==
  ASSUME NEW f, NEW n \in Nat
  PROVE  \E s : SumOn(f, n, s)
<1> DEFINE G == {k \in Nat : \E s : SumOn(f, k, s)}
<1>1. 0 \in G
  <2>1. SumOn(f, 0, [i \in 0..0 |-> 0])
    BY DEF SumOn
  <2>2. QED
    BY <2>1
<1>2. ASSUME NEW i \in 1..n, i-1 \in G
      PROVE  i \in G
  <2>1. PICK s : SumOn(f, i-1, s)
    BY <1>2
  <2> DEFINE t == [j \in 0..i |-> IF j = i THEN s[i-1] + f[i] ELSE s[j]]
  <2>2. \A j \in 0..i : t[j] = IF j = 0 THEN 0 ELSE t[j-1] + f[j]
    BY <2>1 DEF SumOn
  <2>3. SumOn(f, i, t)
    BY <2>2 DEF SumOn
  <2>4. QED
    BY <2>3
<1> HIDE DEF G
<1>3. n \in G
  BY <1>1, <1>2, IntervalInduction
<1>4. QED
  BY <1>3 DEF G

(* Solutions for different numbers of rows agree where both are defined.   *)
LEMMA SumUnique ==
  ASSUME NEW f, NEW n \in Nat, NEW m \in Nat, m <= n,
         NEW s, SumOn(f, n, s), NEW t, SumOn(f, m, t)
  PROVE  \A i \in 0..m : s[i] = t[i]
<1> DEFINE G == {i \in 0..m : s[i] = t[i]}
<1>1. \A j \in 0..m : /\ s[j] = IF j = 0 THEN 0 ELSE s[j-1] + f[j]
                      /\ t[j] = IF j = 0 THEN 0 ELSE t[j-1] + f[j]
  BY DEF SumOn
<1>2. 0 \in G
  BY <1>1
<1>3. \A i \in 1..m : i-1 \in G => i \in G
  BY <1>1
<1> HIDE DEF G
<1>4. \A i \in 0..m : i \in G
  BY <1>2, <1>3, IntervalInduction
<1>5. QED
  BY <1>4 DEF G

(* SumTo is the value at n of a solution on 0..n.                          *)
LEMMA SumToSolves ==
  ASSUME NEW f, NEW n \in Nat
  PROVE  \E s : SumOn(f, n, s) /\ SumTo(f, n) = s[n]
<1> DEFINE c == CHOOSE u : SumOn(f, n, u)
<1>1. SumOn(f, n, c)
  BY SumExists
<1>2. SumTo(f, n) = c[n]
  BY DEF SumTo, SumOn
<1>3. QED
  BY <1>1, <1>2

(* A sum over no row is 0; one more row adds its value.                    *)
LEMMA SumToStep ==
  ASSUME NEW f, NEW n \in Nat
  PROVE  SumTo(f, n) = IF n = 0 THEN 0 ELSE SumTo(f, n-1) + f[n]
<1>1. PICK s : SumOn(f, n, s) /\ SumTo(f, n) = s[n]
  BY SumToSolves
<1>2. s[n] = IF n = 0 THEN 0 ELSE s[n-1] + f[n]
  BY <1>1 DEF SumOn
<1>3. CASE n = 0
  BY <1>1, <1>2, <1>3
<1>4. CASE n # 0
  <2>1. n-1 \in Nat /\ n-1 <= n
    BY <1>4
  <2>2. PICK t : SumOn(f, n-1, t) /\ SumTo(f, n-1) = t[n-1]
    BY <2>1, SumToSolves
  <2>3. s[n-1] = t[n-1]
    BY <1>1, <2>1, <2>2, SumUnique
  <2>4. QED
    BY <1>1, <1>2, <1>4, <2>2, <2>3
<1>5. QED
  BY <1>3, <1>4

(* A sum of integers is an integer.                                        *)
LEMMA SumToInt ==
  ASSUME NEW f, NEW n \in Nat, \A i \in 1..n : f[i] \in Int
  PROVE  SumTo(f, n) \in Int
<1> DEFINE G == {i \in 0..n : SumTo(f, i) \in Int}
<1>1. 0 \in G
  BY SumToStep
<1>2. \A i \in 1..n : i-1 \in G => i \in G
  BY SumToStep
<1> HIDE DEF G
<1>3. n \in G
  BY <1>1, <1>2, IntervalInduction
<1>4. QED
  BY <1>3 DEF G

(* The sum depends only on the values of the rows it adds.                 *)
LEMMA SumToAgree ==
  ASSUME NEW f, NEW g, NEW n \in Nat, \A i \in 1..n : f[i] = g[i]
  PROVE  SumTo(f, n) = SumTo(g, n)
<1> DEFINE G == {i \in 0..n : SumTo(f, i) = SumTo(g, i)}
<1>1. 0 \in G
  BY SumToStep
<1>2. ASSUME NEW i \in 1..n, i-1 \in G PROVE i \in G
  BY <1>2, SumToStep
<1> HIDE DEF G
<1>3. n \in G
  BY <1>1, <1>2, IntervalInduction
<1>4. QED
  BY <1>3 DEF G

(* A sum of naturals is a natural.                                         *)
LEMMA SumToNat ==
  ASSUME NEW f, NEW n \in Nat, \A i \in 1..n : f[i] \in Nat
  PROVE  SumTo(f, n) \in Nat
<1> DEFINE G == {i \in 0..n : SumTo(f, i) \in Nat}
<1>1. 0 \in G
  BY SumToStep
<1>2. ASSUME NEW i \in 1..n, i-1 \in G PROVE i \in G
  BY <1>2, SumToStep
<1> HIDE DEF G
<1>3. n \in G
  BY <1>1, <1>2, IntervalInduction
<1>4. QED
  BY <1>3 DEF G

(* A sum of larger rows is not smaller.                                    *)
LEMMA SumToAtMost ==
  ASSUME NEW f, NEW g, NEW n \in Nat,
         \A i \in 1..n : f[i] \in Int /\ g[i] \in Int /\ f[i] <= g[i]
  PROVE  SumTo(f, n) <= SumTo(g, n)
<1> DEFINE G == {i \in 0..n : /\ SumTo(f, i) \in Int /\ SumTo(g, i) \in Int
                              /\ SumTo(f, i) <= SumTo(g, i)}
<1>1. 0 \in G
  BY SumToStep
<1>2. ASSUME NEW i \in 1..n, i-1 \in G PROVE i \in G
  <2>1. SumTo(f, i) = SumTo(f, i-1) + f[i] /\ SumTo(g, i) = SumTo(g, i-1) + g[i]
    BY SumToStep
  <2>2. QED
    BY <1>2, <2>1
<1> HIDE DEF G
<1>3. \A i \in 0..n : i \in G
  BY <1>1, <1>2, IntervalInduction, Zenon
<1>4. n \in G
  BY <1>3
<1>5. QED
  BY <1>4 DEF G

(* Negating every row negates the sum.                                     *)
LEMMA SumToNegated ==
  ASSUME NEW f, NEW g, NEW n \in Nat,
         \A i \in 1..n : f[i] \in Int /\ g[i] = -f[i]
  PROVE  SumTo(g, n) = -SumTo(f, n)
<1> DEFINE G == {i \in 0..n : SumTo(f, i) \in Int /\ SumTo(g, i) = -SumTo(f, i)}
<1>1. 0 \in G
  BY SumToStep
<1>2. ASSUME NEW i \in 1..n, i-1 \in G PROVE i \in G
  <2>1. SumTo(f, i) = SumTo(f, i-1) + f[i] /\ SumTo(g, i) = SumTo(g, i-1) + g[i]
    BY SumToStep
  <2>2. QED
    BY <1>2, <2>1
<1> HIDE DEF G
<1>3. n \in G
  BY <1>1, <1>2, IntervalInduction
<1>4. QED
  BY <1>3 DEF G

(* Changing one row changes the sum by the change of that row.             *)
LEMMA SumToChange ==
  ASSUME NEW f, NEW g, NEW n \in Nat, NEW j \in 1..n,
         \A i \in 1..n : f[i] \in Int /\ g[i] \in Int,
         \A i \in 1..n : i # j => g[i] = f[i]
  PROVE  SumTo(g, n) = SumTo(f, n) + g[j] - f[j]
<1> DEFINE G == {i \in 0..n : /\ SumTo(f, i) \in Int
                            /\ SumTo(g, i) = SumTo(f, i) +
                                   (IF i < j THEN 0 ELSE g[j] - f[j])}
<1>1. 0 \in G
  BY SumToStep
<1>2. ASSUME NEW i \in 1..n, i-1 \in G PROVE i \in G
  <2>1. SumTo(f, i) = SumTo(f, i-1) + f[i] /\ SumTo(g, i) = SumTo(g, i-1) + g[i]
    BY SumToStep
  <2>2. CASE i < j
    BY <1>2, <2>1, <2>2
  <2>3. CASE i = j
    BY <1>2, <2>1, <2>3
  <2>4. CASE i > j
    BY <1>2, <2>1, <2>4
  <2>5. QED
    BY <2>2, <2>3, <2>4
<1> HIDE DEF G
<1>3. n \in G
  BY <1>1, <1>2, IntervalInduction
<1>4. QED
  BY <1>3 DEF G

(* Rows that take back an earlier row, each at most once and with the       *)
(* opposite amount, cancel: the sum of all rows is that of the rows that    *)
(* take nothing back and are not taken back.                               *)
LEMMA UndoneRowsCancel ==
  ASSUME NEW v, NEW undoes, NEW live, NEW n \in Nat,
         \A i \in 1..n : v[i] \in Int /\ undoes[i] \in 0..(i-1),
         \A i \in 1..n : undoes[i] # 0 => /\ undoes[undoes[i]] = 0
                                          /\ v[i] = -v[undoes[i]],
         \A i, j \in 1..n : undoes[i] = undoes[j] /\ undoes[i] # 0 => i = j,
         \A i \in 1..n :
            live[i] = IF undoes[i] = 0 /\ \A j \in 1..n : undoes[j] # i
                      THEN v[i] ELSE 0
  PROVE  SumTo(v, n) = SumTo(live, n)
<1> DEFINE kept(k) == [i \in 1..n |->
                          IF undoes[i] = 0 /\ \A j \in 1..k : undoes[j] # i
                          THEN v[i] ELSE 0]
           G == {k \in 0..n : SumTo(v, k) = SumTo(kept(k), k)}
<1>1. 0 \in G
  BY SumToStep
<1>2. ASSUME NEW k \in 1..n, k-1 \in G PROVE k \in G
  <2>1. /\ k \in Nat /\ k-1 \in Nat /\ k # 0
        /\ \A i \in 1..(k-1) : i \in 1..n
        /\ \A i \in 1..k : i \in 1..(k-1) \/ i = k
        /\ SumTo(v, k-1) = SumTo(kept(k-1), k-1)
    BY <1>2
  <2>2. \A m \in {k-1, k} : \A i \in 1..n : kept(m)[i] \in Int
    OBVIOUS
  <2>3. /\ SumTo(v, k) = SumTo(v, k-1) + v[k]
        /\ SumTo(kept(k), k) = SumTo(kept(k), k-1) + kept(k)[k]
    BY <2>1, SumToStep
  <2>4. SumTo(kept(k-1), k-1) \in Int /\ v[k] \in Int
    BY <2>1, <2>2, SumToInt
  <2>5. CASE undoes[k] = 0
    <3>1. \A i \in 1..(k-1) : kept(k)[i] = kept(k-1)[i]
      BY <2>1, <2>5
    <3>2. kept(k)[k] = v[k]
      BY <2>1, <2>5
    <3> HIDE DEF kept
    <3>3. SumTo(kept(k), k-1) = SumTo(kept(k-1), k-1)
      BY <2>1, <3>1, SumToAgree
    <3>4. QED
      BY <2>1, <2>3, <3>2, <3>3
  <2>6. CASE undoes[k] # 0
    <3> DEFINE r == undoes[k]
    <3>1. r \in 1..(k-1) /\ r \in 1..n /\ undoes[r] = 0 /\ v[k] = -v[r] /\ v[r] \in Int
      BY <2>1, <2>6
    <3>2. \A i \in 1..(k-1) : i # r => kept(k)[i] = kept(k-1)[i]
      BY <2>1
    <3>3. kept(k)[r] = 0
      BY <2>1, <3>1
    <3>4. kept(k-1)[r] = v[r]
      <4>1. \A j \in 1..(k-1) : undoes[j] # r
        BY <2>1, <2>6
      <4>2. QED
        BY <3>1, <4>1
    <3>5. kept(k)[k] = 0
      BY <2>6
    <3> HIDE DEF kept, r
    <3>6. SumTo(kept(k), k-1) = SumTo(kept(k-1), k-1) + kept(k)[r] - kept(k-1)[r]
      BY <2>1, <2>2, <3>1, <3>2, SumToChange
    <3>7. QED
      BY <2>1, <2>3, <2>4, <3>1, <3>3, <3>4, <3>5, <3>6
  <2>7. QED
    BY <2>5, <2>6
<1> HIDE DEF G
<1>3. \A i \in 0..n : i \in G
  BY <1>1, <1>2, IntervalInduction, Zenon
<1>4. n \in G
  BY <1>3
<1>5. \A i \in 1..n : kept(n)[i] = live[i]
  OBVIOUS
<1>6. SumTo(v, n) = SumTo(kept(n), n)
  BY <1>4 DEF G
<1> HIDE DEF kept
<1>7. QED
  BY <1>5, <1>6, SumToAgree

(* Amounts of one sign that are nested row by row have nested sums.         *)
LEMMA SumsNested ==
  ASSUME NEW f, NEW g, NEW n \in Nat, \A i \in 1..n : f[i] \in Int /\ g[i] \in Int
  PROVE  /\ (\A i \in 1..n : f[i] <= g[i] /\ g[i] <= 0)
              => SumTo(f, n) <= SumTo(g, n) /\ SumTo(g, n) <= 0
         /\ (\A i \in 1..n : 0 <= g[i] /\ g[i] <= f[i])
              => 0 <= SumTo(g, n) /\ SumTo(g, n) <= SumTo(f, n)
<1>1. \A i \in 1..n : /\ SumTo(f, i) = SumTo(f, i-1) + f[i]
                      /\ SumTo(g, i) = SumTo(g, i-1) + g[i]
  BY SumToStep
<1>2. SumTo(f, 0) = 0 /\ SumTo(g, 0) = 0
  BY SumToStep
<1>3. ASSUME \A i \in 1..n : f[i] <= g[i] /\ g[i] <= 0
      PROVE  SumTo(f, n) <= SumTo(g, n) /\ SumTo(g, n) <= 0
  <2> DEFINE G == {i \in 0..n : /\ SumTo(f, i) \in Int /\ SumTo(g, i) \in Int
                                /\ SumTo(f, i) <= SumTo(g, i) /\ SumTo(g, i) <= 0}
  <2>1. 0 \in G
    BY <1>2
  <2>2. \A i \in 1..n : i-1 \in G => i \in G
    BY <1>1, <1>3
  <2> HIDE DEF G
  <2>3. \A i \in 0..n : i \in G
    BY <2>1, <2>2, IntervalInduction, Zenon
  <2>4. n \in G
    BY <2>3
  <2>5. QED
    BY <2>4 DEF G
<1>4. ASSUME \A i \in 1..n : 0 <= g[i] /\ g[i] <= f[i]
      PROVE  0 <= SumTo(g, n) /\ SumTo(g, n) <= SumTo(f, n)
  <2> DEFINE G == {i \in 0..n : /\ SumTo(f, i) \in Int /\ SumTo(g, i) \in Int
                                /\ 0 <= SumTo(g, i) /\ SumTo(g, i) <= SumTo(f, i)}
  <2>1. 0 \in G
    BY <1>2
  <2>2. \A i \in 1..n : i-1 \in G => i \in G
    BY <1>1, <1>4
  <2> HIDE DEF G
  <2>3. \A i \in 0..n : i \in G
    BY <2>1, <2>2, IntervalInduction, Zenon
  <2>4. n \in G
    BY <2>3
  <2>5. QED
    BY <2>4 DEF G
<1>5. QED
  BY <1>3, <1>4

-----------------------------------------------------------------------------
(* The FIFO loop, unfolded the same way.                                   *)
LoopOn(open, payment, n, s) ==
    s = [i \in 0..n |->
            IF i = 0 THEN payment ELSE s[i-1] - Least(s[i-1], open[i])]

(* The loop has a run for every number of rows.                            *)
LEMMA LoopExists ==
  ASSUME NEW open, NEW payment, NEW n \in Nat
  PROVE  \E s : LoopOn(open, payment, n, s)
<1> DEFINE G == {k \in Nat : \E s : LoopOn(open, payment, k, s)}
<1>1. 0 \in G
  <2>1. LoopOn(open, payment, 0, [i \in 0..0 |-> payment])
    BY DEF LoopOn
  <2>2. QED
    BY <2>1
<1>2. ASSUME NEW i \in 1..n, i-1 \in G
      PROVE  i \in G
  <2>1. PICK s : LoopOn(open, payment, i-1, s)
    BY <1>2
  <2> DEFINE last == s[i-1] - Least(s[i-1], open[i])
             t == [j \in 0..i |-> IF j = i THEN last ELSE s[j]]
  <2>2. \A j \in 0..i-1 :
          s[j] = IF j = 0 THEN payment ELSE s[j-1] - Least(s[j-1], open[j])
    BY <2>1, Zenon DEF LoopOn
  <2> HIDE DEF last
  <2>3. t[i] = last /\ \A j \in 0..i-1 : t[j] = s[j]
    OBVIOUS
  <2>4. ASSUME NEW j \in 0..i
        PROVE  t[j] = IF j = 0 THEN payment ELSE t[j-1] - Least(t[j-1], open[j])
    <3>1. CASE j = i
      <4>1. t[j-1] = s[i-1] /\ j # 0
        <5>1. i-1 \in 0..i-1 /\ i # 0
          OBVIOUS
        <5>2. QED
          BY <2>3, <3>1, <5>1, Zenon
      <4>2. QED
        BY <2>3, <3>1, <4>1, Zenon DEF last
    <3>2. CASE j # i
      <4>1. j \in 0..i-1 /\ (j # 0 => j-1 \in 0..i-1)
        BY <3>2
      <4>2. t[j] = s[j] /\ (j # 0 => t[j-1] = s[j-1])
        BY <2>3, <4>1
      <4>3. QED
        BY <2>2, <4>1, <4>2, Zenon
    <3>3. QED
      BY <3>1, <3>2
  <2>5. t = [j \in 0..i |-> IF j = 0 THEN payment
                            ELSE t[j-1] - Least(t[j-1], open[j])]
    BY <2>4, Zenon
  <2>6. LoopOn(open, payment, i, t)
    BY <2>5, Zenon DEF LoopOn
  <2>7. QED
    BY <2>6
<1> HIDE DEF G
<1>3. n \in G
  BY <1>1, <1>2, IntervalInduction
<1>4. QED
  BY <1>3 DEF G

(* Two runs over different numbers of rows agree on the common rows.       *)
LEMMA LoopUnique ==
  ASSUME NEW open, NEW payment, NEW n \in Nat, NEW m \in Nat, m <= n,
         NEW s, LoopOn(open, payment, n, s), NEW t, LoopOn(open, payment, m, t)
  PROVE  \A i \in 0..m : s[i] = t[i]
<1> DEFINE G == {i \in 0..m : s[i] = t[i]}
<1>1. \A j \in 0..m :
        /\ s[j] = IF j = 0 THEN payment ELSE s[j-1] - Least(s[j-1], open[j])
        /\ t[j] = IF j = 0 THEN payment ELSE t[j-1] - Least(t[j-1], open[j])
  BY DEF LoopOn
<1>2. 0 \in G
  BY <1>1
<1>3. \A i \in 1..m : i-1 \in G => i \in G
  BY <1>1
<1> HIDE DEF G
<1>4. \A i \in 0..m : i \in G
  BY <1>2, <1>3, IntervalInduction
<1>5. QED
  BY <1>4 DEF G

(* v_remain before the first row is the payment; a row takes what it can.  *)
LEMMA UnappliedStep ==
  ASSUME NEW open, NEW payment, NEW n \in Nat
  PROVE  Unapplied(open, payment, n) =
           IF n = 0 THEN payment
           ELSE Unapplied(open, payment, n-1) - Applied(open, payment, n)
<1> DEFINE Run(k) == CHOOSE u : LoopOn(open, payment, k, u)
<1>1. \A k \in Nat : LoopOn(open, payment, k, Run(k))
  BY LoopExists
<1>2. \A k \in Nat : Unapplied(open, payment, k) = Run(k)[k]
  BY DEF Unapplied, LoopOn
<1> HIDE DEF Run
<1>3. Run(n)[n] = IF n = 0 THEN payment
                  ELSE Run(n)[n-1] - Least(Run(n)[n-1], open[n])
  <2>1. Run(n) = [i \in 0..n |->
            IF i = 0 THEN payment ELSE Run(n)[i-1] - Least(Run(n)[i-1], open[i])]
    BY <1>1, Zenon DEF LoopOn
  <2>2. n \in 0..n
    OBVIOUS
  <2>3. QED
    BY <2>1, <2>2, Zenon
<1>4. n # 0 => Run(n)[n-1] = Run(n-1)[n-1]
  BY <1>1, LoopUnique
<1>5. QED
  BY <1>2, <1>3, <1>4 DEF Applied

(* The payment left over lies between 0 and the payment.                   *)
LEMMA UnappliedRange ==
  ASSUME NEW open, NEW payment \in Nat, NEW n \in Nat,
         \A i \in 1..n : open[i] \in Nat
  PROVE  \A i \in 0..n : Unapplied(open, payment, i) \in 0..payment
<1> DEFINE G == {i \in 0..n : Unapplied(open, payment, i) \in 0..payment}
<1>1. 0 \in G
  BY UnappliedStep
<1>2. ASSUME NEW i \in 1..n, i-1 \in G PROVE i \in G
  <2>1. Unapplied(open, payment, i) =
          Unapplied(open, payment, i-1) - Applied(open, payment, i)
    BY UnappliedStep
  <2>2. QED
    BY <1>2, <2>1 DEF Applied, Least
<1> HIDE DEF G
<1>3. \A i \in 0..n : i \in G
  BY <1>1, <1>2, IntervalInduction
<1>4. QED
  BY <1>3 DEF G

(* A slice is never negative and never exceeds what its obligation has     *)
(* open: the LEAST of the loop in preview_client_obligation_fifo.          *)
LEMMA AppliedRange ==
  ASSUME NEW open, NEW payment \in Nat, NEW n \in Nat,
         \A i \in 1..n : open[i] \in Nat
  PROVE  \A i \in 1..n : Applied(open, payment, i) \in 0..open[i]
<1>1. \A i \in 1..n : Unapplied(open, payment, i-1) \in 0..payment
  BY UnappliedRange
<1>2. QED
  BY <1>1 DEF Applied, Least

(* The slices and the left-over always add up to the payment: the code's   *)
(* "[invariant] allocated_total + unapplied_remainder must equal           *)
(* payment_amount" (and allocateObligationFifo's "FIFO invariant failed")  *)
(* can never be raised.                                                    *)
THEOREM FifoConservesPayment ==
  ASSUME NEW open, NEW payment \in Nat, NEW n \in Nat,
         \A i \in 1..n : open[i] \in Nat
  PROVE  SumTo([i \in 1..n |-> Applied(open, payment, i)], n)
           + Unapplied(open, payment, n) = payment
<1> DEFINE f == [i \in 1..n |-> Applied(open, payment, i)]
           G == {i \in 0..n : /\ SumTo(f, i) \in Int
                             /\ SumTo(f, i) + Unapplied(open, payment, i) = payment}
<1>1. 0 \in G
  BY SumToStep, UnappliedStep
<1>2. ASSUME NEW i \in 1..n, i-1 \in G PROVE i \in G
  <2>1. /\ Unapplied(open, payment, i) =
              Unapplied(open, payment, i-1) - Applied(open, payment, i)
        /\ SumTo(f, i) = SumTo(f, i-1) + f[i]
    BY UnappliedStep, SumToStep
  <2>2. /\ Unapplied(open, payment, i-1) \in Int
        /\ Applied(open, payment, i) \in Int
    BY UnappliedRange, AppliedRange
  <2>3. f[i] = Applied(open, payment, i)
    OBVIOUS
  <2> HIDE DEF f
  <2>4. QED
    BY <1>2, <2>1, <2>2, <2>3
<1> HIDE DEF G
<1>3. n \in G
  BY <1>1, <1>2, IntervalInduction
<1>4. QED
  BY <1>3 DEF G

(* First in, first out: an obligation receives money only when every       *)
(* earlier one of the same preview has been filled completely.             *)
THEOREM FifoFillsInOrder ==
  ASSUME NEW open, NEW payment \in Nat, NEW n \in Nat,
         \A i \in 1..n : open[i] \in Nat,
         NEW l \in 1..n, NEW m \in 1..n, l < m, Applied(open, payment, m) > 0
  PROVE  Applied(open, payment, l) = open[l]
<1> DEFINE G == {i \in 0..n : (i >= l /\ Unapplied(open, payment, i) > 0)
                                 => Applied(open, payment, l) = open[l]}
<1>1. 0 \in G
  OBVIOUS
<1>2. ASSUME NEW i \in 1..n, i-1 \in G PROVE i \in G
  <2>1. /\ Unapplied(open, payment, i) =
              Unapplied(open, payment, i-1) - Applied(open, payment, i)
        /\ Unapplied(open, payment, i-1) \in Nat
        /\ Applied(open, payment, i) \in Nat
    BY UnappliedStep, UnappliedRange, AppliedRange
  <2>2. CASE i = l
    BY <2>1, <2>2 DEF Applied, Least
  <2>3. CASE i # l
    BY <1>2, <2>1, <2>3
  <2>4. QED
    BY <2>2, <2>3
<1> HIDE DEF G
<1>3. m-1 \in G
  BY <1>1, <1>2, IntervalInduction
<1>4. Unapplied(open, payment, m-1) > 0
  BY UnappliedRange DEF Applied, Least
<1>5. QED
  BY <1>3, <1>4 DEF G
=============================================================================
