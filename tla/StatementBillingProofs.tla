------------------------ MODULE StatementBillingProofs ------------------------
(***************************************************************************)
(* Theorems about the billing of a statement series, for any rows, periods, *)
(* amounts, payments, clerks and numbers of calls.  The invariant has two   *)
(* parts that share no variable that both change: the allocations with the  *)
(* calls that are about to write them, and the drafts with what was sent.   *)
(***************************************************************************)
EXTENDS StatementBilling, ObligationFifoProofs, FiniteSetTheorems

-----------------------------------------------------------------------------
(* Largest elements, sums over charges and over payments.                  *)
LEMMA MaxInInterval ==
    ASSUME NEW n \in Nat, NEW S \in SUBSET (1..n), S # {}
    PROVE  Max(S) \in S /\ \A i \in S : i <= Max(S)
<1> DEFINE T == {n - i : i \in S}
<1>1. T \in SUBSET Nat /\ T # {}
  <2>1. \A i \in S : n - i \in Nat
    OBVIOUS
  <2>2. PICK i \in S : TRUE
    OBVIOUS
  <2>3. n - i \in T
    BY <2>2
  <2> QED
    BY <2>1, <2>3
<1>2. PICK m \in T : \A k \in T : m <= k
  BY <1>1, MinimalNatural
<1>3. PICK x \in S : m = n - x
  BY <1>2
<1>4. \A y \in S : x >= y
  <2>1. TAKE y \in S
  <2>2. m <= n - y
    BY <1>2
  <2> QED
    BY <1>3, <2>2
<1>5. \E z \in S : \A y \in S : z >= y
  BY <1>4
<1>6. Max(S) \in S /\ \A y \in S : Max(S) >= y
  BY <1>5 DEF Max
<1> QED
  BY <1>6

LEMMA MaxWithZero ==
    ASSUME NEW a \in Int
    PROVE  Max({0, a}) = IF a >= 0 THEN a ELSE 0
BY DEF Max

(* A sum of naturals is zero only when each is.                            *)
LEMMA SumZero ==
    ASSUME NEW f, NEW n \in Nat, \A i \in 1..n : f[i] \in Nat, SumTo(f, n) = 0
    PROVE  \A i \in 1..n : f[i] = 0
<1> SUFFICES ASSUME NEW i \in 1..n, f[i] # 0 PROVE FALSE
  OBVIOUS
<1> DEFINE g == [j \in 1..n |-> IF j = i THEN 0 ELSE f[j]]
<1>1. /\ \A j \in 1..n : g[j] \in Nat
      /\ \A j \in 1..n : f[j] \in Int /\ g[j] \in Int
      /\ \A j \in 1..n : j # i => g[j] = f[j]
      /\ g[i] = 0
  OBVIOUS
<1> HIDE DEF g
<1>2. SumTo(g, n) = SumTo(f, n) + g[i] - f[i]
  BY <1>1, SumToChange
<1>3. SumTo(g, n) \in Nat
  BY <1>1, SumToNat
<1> QED
  BY <1>1, <1>2, <1>3

(* Rows of a list that some g[i] # 0 selects; the others count as 0.        *)
Selected(g, n, sel, a, m) ==
    [j \in 1..m |-> IF \E i \in 1..n : g[i] # 0 /\ sel[i] = j THEN a[j] ELSE 0]

Selects(g, n, sel, a, m) ==
    /\ \A j \in 1..m : a[j] \in Nat
    /\ \A i \in 1..n : \/ g[i] = 0
                       \/ sel[i] \in 1..m /\ g[i] = a[sel[i]]
    /\ \A i, j \in 1..n : g[i] # 0 /\ g[j] # 0 /\ sel[i] = sel[j] => i = j

(* A choice of some of the rows of a list, none twice, adds up to the list   *)
(* without the other rows.                                                 *)
LEMMA SumOfChosenRows ==
    ASSUME NEW g, NEW n \in Nat, NEW a, NEW m \in Nat, NEW sel,
           Selects(g, n, sel, a, m)
    PROVE  SumTo(g, n) = SumTo(Selected(g, n, sel, a, m), m)
<1> DEFINE b(k) == [j \in 1..m |-> IF \E i \in 1..k : g[i] # 0 /\ sel[i] = j
                                   THEN a[j] ELSE 0]
           G == {k \in 0..n : SumTo(g, k) = SumTo(b(k), m)}
<1> USE DEF Selects
<1>0. \A k \in 0..n : \A j \in 1..m : b(k)[j] \in Nat /\ b(k)[j] \in Int
  OBVIOUS
<1>1. 0 \in G
  <2>1. \A j \in 1..m : b(0)[j] = 0
    OBVIOUS
  <2>2. SumTo(g, 0) = 0
    BY SumToStep
  <2> HIDE DEF b
  <2>3. SumTo(b(0), m) = 0
    <3> DEFINE H == {k \in 0..m : SumTo(b(0), k) = 0}
    <3>1. 0 \in H
      BY SumToStep
    <3>2. \A k \in 1..m : k-1 \in H => k \in H
      BY <2>1, SumToStep
    <3> HIDE DEF H
    <3>3. m \in H
      BY <3>1, <3>2, IntervalInduction
    <3> QED
      BY <3>3 DEF H
  <2> QED
    BY <2>2, <2>3
<1>2. ASSUME NEW k \in 1..n, k-1 \in G PROVE k \in G
  <2>1. /\ k \in Nat /\ k # 0 /\ k-1 \in 0..n /\ k \in 0..n
        /\ SumTo(g, k) = SumTo(g, k-1) + g[k]
        /\ SumTo(g, k-1) = SumTo(b(k-1), m)
        /\ \A i \in 1..k : i \in 1..(k-1) \/ i = k
        /\ \A i \in 1..(k-1) : i \in 1..k /\ i \in 1..n /\ i # k
    BY <1>2, SumToStep
  <2>2. SumTo(b(k-1), m) \in Int
    BY <1>0, <2>1, SumToInt
  <2>3. CASE g[k] = 0
    <3>1. \A j \in 1..m : b(k)[j] = b(k-1)[j]
      BY <2>1, <2>3
    <3> HIDE DEF b
    <3>2. SumTo(b(k), m) = SumTo(b(k-1), m)
      BY <3>1, SumToAgree
    <3> QED
      BY <2>1, <2>2, <2>3, <3>2
  <2>4. CASE g[k] # 0
    <3> DEFINE j == sel[k]
    <3>1. j \in 1..m /\ g[k] = a[j] /\ a[j] \in Nat
      BY <2>4
    <3>2. \A i \in 1..m : i # j => b(k)[i] = b(k-1)[i]
      BY <2>1
    <3>3. b(k)[j] = a[j]
      BY <2>1, <2>4, <3>1
    <3>4. b(k-1)[j] = 0
      <4>1. \A i \in 1..(k-1) : ~(g[i] # 0 /\ sel[i] = j)
        BY <2>1, <2>4
      <4> QED
        BY <3>1, <4>1
    <3> HIDE DEF b, j
    <3>5. SumTo(b(k), m) = SumTo(b(k-1), m) + b(k)[j] - b(k-1)[j]
      BY <1>0, <2>1, <3>1, <3>2, SumToChange
    <3> QED
      BY <2>1, <2>2, <3>1, <3>3, <3>4, <3>5
  <2> QED
    BY <2>3, <2>4
<1> HIDE DEF G
<1>3. n \in G
  BY <1>1, <1>2, IntervalInduction
<1> QED
  BY <1>3 DEF G, Selected

-----------------------------------------------------------------------------
(* FlattenSeq as a function of the number of sequences joined.             *)
FlatOn(s, n, f) == f = [i \in 1..n |-> IF i = 1 THEN s[i] ELSE f[i-1] \o s[i]]

LEMMA FlatExists ==
    ASSUME NEW s, NEW n \in Nat
    PROVE  \E f : FlatOn(s, n, f)
<1> DEFINE G == {k \in Nat : \E f : FlatOn(s, k, f)}
<1>1. 0 \in G
  <2>1. FlatOn(s, 0, [i \in 1..0 |-> s[i]])
    BY DEF FlatOn
  <2> QED
    BY <2>1
<1>2. ASSUME NEW i \in 1..n, i-1 \in G PROVE i \in G
  <2>1. PICK f : FlatOn(s, i-1, f)
    BY <1>2
  <2> DEFINE last == IF i = 1 THEN s[i] ELSE f[i-1] \o s[i]
             t == [j \in 1..i |-> IF j = i THEN last ELSE f[j]]
  <2>2. \A j \in 1..(i-1) : f[j] = IF j = 1 THEN s[j] ELSE f[j-1] \o s[j]
    BY <2>1, Zenon DEF FlatOn
  <2> HIDE DEF last
  <2>3. t[i] = last /\ \A j \in 1..(i-1) : t[j] = f[j]
    OBVIOUS
  <2>4. ASSUME NEW j \in 1..i
        PROVE  t[j] = IF j = 1 THEN s[j] ELSE t[j-1] \o s[j]
    <3>1. CASE j = i
      <4>1. j # 1 => t[j-1] = f[i-1]
        <5>1. j # 1 => i-1 \in 1..(i-1)
          BY <3>1
        <5> QED
          BY <2>3, <3>1, <5>1, Zenon
      <4> QED
        BY <2>3, <3>1, <4>1, Zenon DEF last
    <3>2. CASE j # i
      <4>1. j \in 1..(i-1) /\ (j # 1 => j-1 \in 1..(i-1))
        BY <3>2
      <4>2. t[j] = f[j] /\ (j # 1 => t[j-1] = f[j-1])
        BY <2>3, <4>1
      <4> QED
        BY <2>2, <4>1, <4>2, Zenon
    <3> QED
      BY <3>1, <3>2
  <2>5. t = [j \in 1..i |-> IF j = 1 THEN s[j] ELSE t[j-1] \o s[j]]
    BY <2>4, Zenon
  <2>6. FlatOn(s, i, t)
    BY <2>5, Zenon DEF FlatOn
  <2> QED
    BY <2>6
<1> HIDE DEF G
<1>3. n \in G
  BY <1>1, <1>2, IntervalInduction
<1> QED
  BY <1>3 DEF G

Steps(s, n, f) ==
    /\ FlattenSeq(s) = f[n]
    /\ f[1] = s[1]
    /\ \A i \in 2..n : f[i] = f[i-1] \o s[i]

LEMMA FlattenSteps ==
    ASSUME NEW s, NEW n \in Nat \ {0}, Len(s) = n
    PROVE  \E f : Steps(s, n, f)
<1> DEFINE f == CHOOSE u : FlatOn(s, n, u)
<1>1. FlatOn(s, n, f)
  BY FlatExists
<1>2. FlattenSeq(s) = f[n]
  BY n # 0, Zenon DEF FlattenSeq, FlatOn
<1> HIDE DEF f
<1>3. \A i \in 1..n : f[i] = IF i = 1 THEN s[i] ELSE f[i-1] \o s[i]
  BY <1>1, Zenon DEF FlatOn
<1>4. f[1] = s[1] /\ \A i \in 2..n : f[i] = f[i-1] \o s[i]
  <2>1. 1 \in 1..n /\ \A i \in 2..n : i \in 1..n /\ i # 1
    OBVIOUS
  <2> QED
    BY <1>3, <2>1, Zenon
<1> QED
  BY <1>2, <1>4 DEF Steps

(* Pieces of one charge each, joined in the order of the charges.          *)
Pieces(s) ==
    /\ s \in Seq(Seq(ChargeSet))
    /\ Len(s) = Len(Charges)
    /\ \A n \in DOMAIN s : \A j \in DOMAIN s[n] : s[n][j] = Charges[n]

Joined(s, k, f) ==
    /\ f \in Seq(ChargeSet)
    /\ \A n \in 1..k : s[n] # <<>> => \E i \in DOMAIN f : f[i] = Charges[n]
    /\ \A i \in DOMAIN f : \E n \in 1..k : f[i] = Charges[n] /\ s[n] # <<>>
    /\ \A i, j \in DOMAIN f : i < j =>
           \E m, n \in 1..k : /\ m <= n /\ f[i] = Charges[m] /\ f[j] = Charges[n]
                              /\ m = n => Len(s[m]) > 1

LEMMA JoinedStep ==
    ASSUME NEW s, Pieces(s), NEW k \in 2..Len(Charges), NEW f, Joined(s, k-1, f)
    PROVE  Joined(s, k, f \o s[k])
<1> DEFINE g == f \o s[k]
<1>0. /\ k \in Nat /\ k-1 \in Nat /\ k \in 1..k
      /\ \A n \in 1..(k-1) : n \in 1..k /\ n <= k
      /\ \A n \in 1..k : n \in 1..(k-1) \/ n = k
  OBVIOUS
<1>1. /\ f \in Seq(ChargeSet) /\ s[k] \in Seq(ChargeSet)
      /\ Len(f) \in Nat /\ Len(s[k]) \in Nat
      /\ \A j \in DOMAIN s[k] : s[k][j] = Charges[k]
  <2>1. Len(Charges) \in Nat
    BY BillingAssumption
  <2>2. k \in DOMAIN s
    BY <2>1 DEF Pieces
  <2> QED
    BY <2>2 DEF Pieces, Joined
<1>2. /\ g \in Seq(ChargeSet) /\ Len(g) = Len(f) + Len(s[k])
      /\ DOMAIN g = 1..(Len(f) + Len(s[k])) /\ DOMAIN f = 1..Len(f)
      /\ DOMAIN s[k] = 1..Len(s[k])
      /\ \A i \in 1..Len(f) : g[i] = f[i]
      /\ \A i \in (Len(f) + 1)..(Len(f) + Len(s[k])) : g[i] = s[k][i - Len(f)]
  BY <1>1
<1> HIDE DEF g
<1>3. ASSUME NEW i \in DOMAIN g
      PROVE  \/ i \in DOMAIN f /\ g[i] = f[i]
             \/ i > Len(f) /\ i - Len(f) \in DOMAIN s[k] /\ g[i] = Charges[k] /\ Len(s[k]) # 0
  <2>1. CASE i <= Len(f)
    BY <1>1, <1>2, <2>1
  <2>2. CASE i > Len(f)
    <3>1. i - Len(f) \in DOMAIN s[k] /\ g[i] = s[k][i - Len(f)] /\ Len(s[k]) # 0
      BY <1>1, <1>2, <2>2
    <3> QED
      BY <1>1, <2>2, <3>1
  <2> QED
    BY <1>1, <1>2, <2>1, <2>2
<1>4. ASSUME NEW n \in 1..k, s[n] # <<>>
      PROVE  \E i \in DOMAIN g : g[i] = Charges[n]
  <2>1. CASE n \in 1..(k-1)
    <3>1. PICK i \in DOMAIN f : f[i] = Charges[n]
      BY <1>4, <2>1 DEF Joined
    <3> QED
      BY <1>1, <1>2, <3>1
  <2>2. CASE n = k
    <3>1. Len(s[k]) # 0
      BY <1>1, <1>4, <2>2
    <3>2. /\ Len(f) + 1 \in (Len(f) + 1)..(Len(f) + Len(s[k]))
          /\ Len(f) + 1 - Len(f) = 1 /\ 1 \in DOMAIN s[k]
      BY <1>1, <1>2, <3>1
    <3>3. Len(f) + 1 \in DOMAIN g /\ g[Len(f) + 1] = s[k][1]
      BY <1>1, <1>2, <3>2
    <3> QED
      BY <1>1, <2>2, <3>2, <3>3
  <2> QED
    BY <1>0, <2>1, <2>2
<1>5. ASSUME NEW i \in DOMAIN g
      PROVE  \E n \in 1..k : g[i] = Charges[n] /\ s[n] # <<>>
  <2>1. CASE i \in DOMAIN f /\ g[i] = f[i]
    <3>1. PICK n \in 1..(k-1) : f[i] = Charges[n] /\ s[n] # <<>>
      BY <2>1 DEF Joined
    <3> QED
      BY <1>0, <2>1, <3>1
  <2>2. CASE g[i] = Charges[k] /\ Len(s[k]) # 0
    BY <1>0, <2>2
  <2> QED
    BY <1>3, <2>1, <2>2
<1>6. ASSUME NEW i \in DOMAIN g, NEW j \in DOMAIN g, i < j
      PROVE  \E m, n \in 1..k : /\ m <= n /\ g[i] = Charges[m] /\ g[j] = Charges[n]
                                /\ m = n => Len(s[m]) > 1
  <2>1. CASE j \in DOMAIN f /\ g[j] = f[j]
    <3>1. i \in DOMAIN f /\ g[i] = f[i]
      BY <1>1, <1>2, <1>6, <2>1
    <3>2. PICK m \in 1..(k-1), n \in 1..(k-1) :
              /\ m <= n /\ f[i] = Charges[m] /\ f[j] = Charges[n]
              /\ m = n => Len(s[m]) > 1
      BY <1>6, <2>1, <3>1 DEF Joined
    <3> QED
      BY <1>0, <2>1, <3>1, <3>2
  <2>2. CASE /\ i \in DOMAIN f /\ g[i] = f[i]
             /\ g[j] = Charges[k]
    <3>1. PICK m \in 1..(k-1) : f[i] = Charges[m] /\ s[m] # <<>>
      BY <2>2 DEF Joined
    <3>2. m # k /\ m <= k
      OBVIOUS
    <3> QED
      BY <1>0, <2>2, <3>1, <3>2
  <2>3. CASE /\ i > Len(f) /\ j > Len(f)
             /\ i - Len(f) \in DOMAIN s[k] /\ j - Len(f) \in DOMAIN s[k]
             /\ g[i] = Charges[k] /\ g[j] = Charges[k]
    <3>1. i \in Nat /\ j \in Nat
      BY <1>1, <1>2
    <3>2. Len(s[k]) > 1
      BY <1>1, <1>2, <1>6, <2>3, <3>1
    <3> QED
      BY <1>0, <2>3, <3>2
  <2>4. \/ i \in DOMAIN f /\ g[i] = f[i]
        \/ i > Len(f) /\ i - Len(f) \in DOMAIN s[k] /\ g[i] = Charges[k] /\ Len(s[k]) # 0
    BY <1>3
  <2>5. \/ j \in DOMAIN f /\ g[j] = f[j]
        \/ j > Len(f) /\ j - Len(f) \in DOMAIN s[k] /\ g[j] = Charges[k] /\ Len(s[k]) # 0
    BY <1>3
  <2> QED
    BY <2>1, <2>2, <2>3, <2>4, <2>5
<1>7. Joined(s, k, g)
  BY <1>2, <1>4, <1>5, <1>6 DEF Joined
<1> QED
  BY <1>7 DEF g

LEMMA FlattenJoins ==
    ASSUME NEW s, Pieces(s)
    PROVE  Joined(s, Len(Charges), FlattenSeq(s))
<1> DEFINE N == Len(Charges)
<1>1. N \in Nat /\ Len(s) = N /\ DOMAIN s = 1..N
  BY BillingAssumption DEF Pieces
<1>2. CASE N = 0
  <2>1. FlattenSeq(s) = s /\ s = <<>>
    BY <1>1, <1>2 DEF FlattenSeq, Pieces
  <2> QED
    BY <1>2, <2>1 DEF Joined
<1>3. CASE N # 0
  <2>1. PICK f : Steps(s, N, f)
    <3>1. N \in Nat \ {0} /\ Len(s) = N
      BY <1>1, <1>3
    <3> HIDE DEF N
    <3> QED
      BY <3>1, FlattenSteps
  <2>a. /\ FlattenSeq(s) = f[N] /\ f[1] = s[1]
        /\ \A i \in 2..N : f[i] = f[i-1] \o s[i]
    BY <2>1 DEF Steps
  <2>2. Joined(s, 1, f[1])
    <3>1. /\ s[1] \in Seq(ChargeSet) /\ Len(s[1]) \in Nat /\ DOMAIN s[1] = 1..Len(s[1])
          /\ \A j \in DOMAIN s[1] : s[1][j] = Charges[1]
      BY <1>1, <1>3 DEF Pieces
    <3>2. \A n \in 1..1 : n = 1
      OBVIOUS
    <3>3. s[1] # <<>> => 1 \in DOMAIN s[1]
      BY <3>1
    <3>4. \A i, j \in DOMAIN s[1] : i < j => Len(s[1]) > 1
      BY <3>1
    <3>5. \A i \in DOMAIN s[1] : s[1] # <<>>
      BY <3>1
    <3> QED
      BY <2>a, <3>1, <3>2, <3>3, <3>4, <3>5 DEF Joined
  <2> DEFINE G == {k \in 0..N : k # 0 => Joined(s, k, f[k])}
  <2>3. 0 \in G
    BY <1>1
  <2>4. ASSUME NEW k \in 1..N, k-1 \in G PROVE k \in G
    <3>1. CASE k = 1
      BY <1>1, <2>2, <3>1
    <3>2. CASE k # 1
      <4>1. k \in 2..N /\ k-1 # 0
        BY <1>1, <3>2
      <4>2. Joined(s, k-1, f[k-1])
        BY <2>4, <4>1
      <4>3. Joined(s, k, f[k-1] \o s[k])
        BY <4>1, <4>2, JoinedStep
      <4>4. f[k] = f[k-1] \o s[k]
        BY <2>a, <4>1
      <4>5. Joined(s, k, f[k])
        BY <4>3, <4>4
      <4> QED
        BY <4>5
    <3> QED
      BY <3>1, <3>2
  <2> HIDE DEF G, N
  <2>5. N \in G
    BY <1>1, <2>3, <2>4, IntervalInduction
  <2>6. Joined(s, N, f[N])
    BY <1>3, <2>5 DEF G
  <2> QED
    BY <2>a, <2>6 DEF N
<1> QED
  BY <1>2, <1>3

-----------------------------------------------------------------------------
Once(seq) == \A i, j \in DOMAIN seq : seq[i] = seq[j] => i = j

(* The charges of a set, in order, each once.                              *)
LEMMA InOrderLists ==
    ASSUME NEW set
    PROVE  /\ InOrder(set) \in Seq(ChargeSet)
           /\ ToSet(InOrder(set)) = set \cap ChargeSet
           /\ Once(InOrder(set))
<1> DEFINE s == [n \in DOMAIN Charges |->
                    IF Charges[n] \in set THEN <<Charges[n]>> ELSE <<>>]
           N == Len(Charges)
<1>1. /\ N \in Nat /\ DOMAIN Charges = 1..N
      /\ \A n \in 1..N : Charges[n] \in ChargeSet
      /\ \A m, n \in 1..N : Charges[m] = Charges[n] => m = n
      /\ \A c \in ChargeSet : \E n \in 1..N : Charges[n] = c
  BY BillingAssumption DEF ChargeSet, ToSet
<1>2. /\ \A n \in 1..N : s[n] \in Seq(ChargeSet) /\ Len(s[n]) <= 1
      /\ \A n \in 1..N : s[n] # <<>> <=> Charges[n] \in set
      /\ \A n \in 1..N : \A j \in DOMAIN s[n] : s[n][j] = Charges[n]
  BY <1>1
<1>3. s \in Seq(Seq(ChargeSet)) /\ Len(s) = N /\ DOMAIN s = 1..N
  BY <1>1, <1>2
<1>4. Pieces(s)
  BY <1>1, <1>2, <1>3 DEF Pieces
<1>5. InOrder(set) = FlattenSeq(s)
  BY DEF InOrder
<1> HIDE DEF s
<1>6. Joined(s, N, InOrder(set))
  BY <1>4, <1>5, FlattenJoins
<1> DEFINE f == InOrder(set)
<1> HIDE DEF f, N
<1>7. f \in Seq(ChargeSet) /\ DOMAIN f = 1..Len(f) /\ Len(f) \in Nat
  BY <1>6 DEF Joined, f
<1>8. ToSet(f) = set \cap ChargeSet
  <2>1. \A i \in DOMAIN f : f[i] \in set \cap ChargeSet
    BY <1>1, <1>2, <1>6 DEF Joined, f
  <2>2. \A c \in set \cap ChargeSet : \E i \in DOMAIN f : f[i] = c
    BY <1>1, <1>2, <1>6 DEF Joined, f
  <2> QED
    BY <2>1, <2>2 DEF ToSet
<1>9. Once(f)
  <2>1. ASSUME NEW i \in DOMAIN f, NEW j \in DOMAIN f, i < j PROVE f[i] # f[j]
    <3>1. PICK m \in 1..N, n \in 1..N : /\ m <= n /\ f[i] = Charges[m] /\ f[j] = Charges[n]
                                        /\ m = n => Len(s[m]) > 1
      BY <1>6, <2>1 DEF Joined, f
    <3>2. Len(s[m]) \in Nat /\ Len(s[m]) <= 1
      BY <1>2
    <3> QED
      BY <1>1, <3>1, <3>2
  <2>2. SUFFICES ASSUME NEW i \in DOMAIN f, NEW j \in DOMAIN f, f[i] = f[j] PROVE i = j
    BY DEF Once
  <2>3. i \in Nat /\ j \in Nat
    BY <1>7
  <2>4. ~(i < j) /\ ~(j < i)
    BY <2>1, <2>2
  <2> QED
    BY <2>3, <2>4
<1> QED
  BY <1>7, <1>8, <1>9 DEF f

(* The charges an automatic allocation looks at come in their order.        *)
LEMMA DueCharges ==
    ASSUME NEW ls, \A c \in ChargeSet : Copies(ls, c) \in Nat
    PROVE  Due(ls) \in Seq(ChargeSet)
<1> DEFINE s == [n \in DOMAIN Charges |-> [j \in 1..Copies(ls, Charges[n]) |-> Charges[n]]]
           N == Len(Charges)
<1>1. /\ N \in Nat /\ DOMAIN Charges = 1..N
      /\ \A n \in 1..N : Charges[n] \in ChargeSet
      /\ \A m, n \in 1..N : Charges[m] = Charges[n] => m = n
  BY BillingAssumption DEF ChargeSet, ToSet
<1>2. /\ \A n \in 1..N : s[n] \in Seq(ChargeSet)
      /\ \A n \in 1..N : \A j \in DOMAIN s[n] : s[n][j] = Charges[n]
  <2>1. \A n \in 1..N : Copies(ls, Charges[n]) \in Nat
    BY <1>1
  <2> QED
    BY <1>1, <2>1
<1>3. s \in Seq(Seq(ChargeSet)) /\ Len(s) = N /\ DOMAIN s = 1..N
  BY <1>1, <1>2
<1>4. Pieces(s)
  BY <1>1, <1>2, <1>3 DEF Pieces
<1>5. Due(ls) = FlattenSeq(s)
  BY DEF Due
<1> HIDE DEF s
<1>6. Joined(s, N, Due(ls))
  BY <1>4, <1>5, FlattenJoins
<1> HIDE DEF N
<1> QED
  BY <1>6 DEF Joined

-----------------------------------------------------------------------------
(* What an allocation leaves of the slices when it commits.                *)
Written(a, call) ==
    [a EXCEPT ![call.payment] =
        [c \in ChargeSet |-> IF c \in DOMAIN call.slices THEN call.slices[c] ELSE @[c]]]

AllFit(a) ==
    /\ \A c \in ChargeSet : Paid(a, c) <= Amount[c]
    /\ \A p \in Payments : Spent(a, p) <= Money[p]

Slices == [Payments -> [ChargeSet -> Nat]]


(* What a call that nothing overlapped is about to write fits the slices    *)
(* there are; an automatic one writes to open charges.                      *)
CallFits(a, call) ==
    /\ AllFit(a) => AllFit(Written(a, call))
    /\ call.kind # "manual" => \A c \in DOMAIN call.slices : Paid(a, c) < Amount[c]

CallTyped(call) ==
    /\ call = [kind |-> call.kind, payment |-> call.payment, slices |-> call.slices,
               stale |-> call.stale]
    /\ call.payment \in Payments
    /\ DOMAIN call.slices \subseteq ChargeSet
    /\ \A c \in DOMAIN call.slices : call.slices[c] \in Nat
    /\ call.stale \in BOOLEAN

LEMMA Amounts ==
    /\ Len(Charges) \in Nat /\ DOMAIN Charges = 1..Len(Charges)
    /\ \A n \in 1..Len(Charges) : Charges[n] \in ChargeSet
    /\ \A m, n \in 1..Len(Charges) : Charges[m] = Charges[n] => m = n
    /\ \A c \in ChargeSet : \E n \in 1..Len(Charges) : Charges[n] = c
    /\ NumPayments \in Nat
    /\ \A c \in ChargeSet : Amount[c] \in Nat /\ Amount[c] > 0 /\ Period[c] \in Nat /\ Period[c] > 0
    /\ \A p \in Payments : Money[p] \in Nat /\ Money[p] > 0
BY BillingAssumption DEF ChargeSet, ToSet

LEMMA SumsAdd ==
    ASSUME NEW f, NEW g, NEW h, NEW n \in Nat,
           \A i \in 1..n : f[i] \in Int /\ g[i] \in Int /\ h[i] = f[i] + g[i]
    PROVE  SumTo(h, n) = SumTo(f, n) + SumTo(g, n)
<1> DEFINE G == {i \in 0..n : /\ SumTo(f, i) \in Int /\ SumTo(g, i) \in Int
                              /\ SumTo(h, i) = SumTo(f, i) + SumTo(g, i)}
<1>1. 0 \in G
  BY SumToStep
<1>2. ASSUME NEW i \in 1..n, i-1 \in G PROVE i \in G
  <2>1. /\ SumTo(f, i) = SumTo(f, i-1) + f[i] /\ SumTo(g, i) = SumTo(g, i-1) + g[i]
        /\ SumTo(h, i) = SumTo(h, i-1) + h[i]
    BY SumToStep
  <2> QED
    BY <1>2, <2>1
<1> HIDE DEF G
<1>3. n \in G
  BY <1>1, <1>2, IntervalInduction
<1> QED
  BY <1>3 DEF G

(* What is paid of a charge and spent of a payment are amounts.            *)
LEMMA SlicesAddUp ==
    ASSUME NEW a \in Slices
    PROVE  /\ \A c \in ChargeSet : Paid(a, c) \in Nat
           /\ \A p \in Payments : Spent(a, p) \in Nat
<1>1. ASSUME NEW c \in ChargeSet PROVE Paid(a, c) \in Nat
  <2>1. \A p \in 1..NumPayments : [q \in Payments |-> a[q][c]][p] \in Nat
    BY DEF Slices, Payments
  <2> QED
    BY <2>1, SumToNat, Amounts DEF Paid
<1>2. ASSUME NEW p \in Payments PROVE Spent(a, p) \in Nat
  <2>1. \A n \in 1..Len(Charges) : [m \in DOMAIN Charges |-> a[p][Charges[m]]][n] \in Nat
    BY Amounts DEF Slices
  <2> QED
    BY <2>1, SumToNat, Amounts DEF Spent
<1> QED
  BY <1>1, <1>2

(* What a charge has after a commit.                                       *)
LEMMA PaidAfter ==
    ASSUME NEW a \in Slices, NEW call, CallTyped(call)
    PROVE  /\ Written(a, call) \in Slices
           /\ \A c \in ChargeSet :
                  Paid(Written(a, call), c) =
                      IF c \in DOMAIN call.slices
                      THEN Paid(a, c) - a[call.payment][c] + call.slices[c]
                      ELSE Paid(a, c)
           /\ \A q \in Payments : q # call.payment => Written(a, call)[q] = a[q]
           /\ \A c \in ChargeSet :
                  Written(a, call)[call.payment][c] =
                      IF c \in DOMAIN call.slices THEN call.slices[c] ELSE a[call.payment][c]
<1> DEFINE w == Written(a, call)
           p == call.payment
<1>1. /\ p \in Payments /\ DOMAIN a = Payments /\ DOMAIN w = Payments
      /\ \A q \in Payments : q # p => w[q] = a[q]
      /\ w[p] = [c \in ChargeSet |-> IF c \in DOMAIN call.slices THEN call.slices[c] ELSE a[p][c]]
  BY DEF Written, CallTyped, Slices
<1>2. w[p] \in [ChargeSet -> Nat]
  BY <1>1 DEF CallTyped, Slices
<1>3. w \in Slices
  <2>1. w = [q \in Payments |-> w[q]]
    BY <1>1 DEF Written, Slices
  <2>2. \A q \in Payments : w[q] \in [ChargeSet -> Nat]
    BY <1>1, <1>2 DEF Slices
  <2> HIDE DEF w
  <2> QED
    BY <2>1, <2>2 DEF Slices
<1> HIDE DEF w, p
<1>4. ASSUME NEW c \in ChargeSet
      PROVE  Paid(w, c) = IF c \in DOMAIN call.slices
                          THEN Paid(a, c) - a[p][c] + call.slices[c] ELSE Paid(a, c)
  <2> DEFINE f == [q \in Payments |-> a[q][c]]
             g == [q \in Payments |-> w[q][c]]
  <2>1. /\ p \in 1..NumPayments
        /\ \A q \in 1..NumPayments : f[q] \in Int /\ g[q] \in Int
        /\ \A q \in 1..NumPayments : q # p => g[q] = f[q]
        /\ f[p] = a[p][c]
        /\ g[p] = IF c \in DOMAIN call.slices THEN call.slices[c] ELSE a[p][c]
    BY <1>1, <1>3 DEF Slices, Payments
  <2>2. Paid(a, c) = SumTo(f, NumPayments) /\ Paid(w, c) = SumTo(g, NumPayments)
    BY DEF Paid
  <2>3. Paid(a, c) \in Nat /\ a[p][c] \in Nat
    BY <1>1, SlicesAddUp DEF Slices
  <2> HIDE DEF f, g
  <2>4. SumTo(g, NumPayments) = SumTo(f, NumPayments) + g[p] - f[p]
    BY <2>1, SumToChange, Amounts
  <2> QED
    BY <2>1, <2>2, <2>3, <2>4
<1> QED
  BY <1>1, <1>3, <1>4 DEF w, p

(* The other payments keep what they have spent.                           *)
LEMMA SpentByOthers ==
    ASSUME NEW a \in Slices, NEW call, CallTyped(call),
           NEW q \in Payments, q # call.payment
    PROVE  Spent(Written(a, call), q) = Spent(a, q)
BY PaidAfter DEF Spent

(* A slice entered by hand, one of a pair.                                 *)
LEMMA ManualFits ==
    ASSUME NEW a \in Slices, NEW call, CallTyped(call), NEW c \in ChargeSet,
           NEW amount \in Nat, call.slices = [x \in {c} |-> amount],
           Fits(a, call.payment, c, amount), AllFit(a)
    PROVE  AllFit(Written(a, call))
<1> DEFINE w == Written(a, call)
           p == call.payment
           f == [n \in DOMAIN Charges |-> a[p][Charges[n]]]
           g == [n \in DOMAIN Charges |-> w[p][Charges[n]]]
<1>1. /\ p \in Payments /\ w \in Slices
      /\ \A d \in ChargeSet : w[p][d] = IF d = c THEN amount ELSE a[p][d]
      /\ Paid(w, c) = Paid(a, c) - a[p][c] + amount
      /\ \A d \in ChargeSet : d # c => Paid(w, d) = Paid(a, d)
      /\ \A q \in Payments : q # p => Spent(w, q) = Spent(a, q)
  BY PaidAfter, SpentByOthers DEF CallTyped
<1>2. PICK m \in 1..Len(Charges) : Charges[m] = c
  BY Amounts
<1> HIDE DEF w
<1>3. /\ \A n \in 1..Len(Charges) : f[n] \in Int /\ g[n] \in Int
      /\ \A n \in 1..Len(Charges) : n # m => g[n] = f[n]
      /\ f[m] = a[p][c] /\ g[m] = amount
  BY <1>1, <1>2, Amounts DEF Slices
<1>4. Spent(a, p) = SumTo(f, Len(Charges)) /\ Spent(w, p) = SumTo(g, Len(Charges))
  BY DEF Spent
<1> HIDE DEF f, g
<1>5. SumTo(g, Len(Charges)) = SumTo(f, Len(Charges)) + g[m] - f[m]
  <2> DEFINE N == Len(Charges)
  <2>1. /\ N \in Nat /\ m \in 1..N
        /\ \A n \in 1..N : f[n] \in Int /\ g[n] \in Int
        /\ \A n \in 1..N : n # m => g[n] = f[n]
    BY <1>2, <1>3, Amounts
  <2> HIDE DEF N
  <2>2. SumTo(g, N) = SumTo(f, N) + g[m] - f[m]
    BY <2>1, SumToChange
  <2> QED
    BY <2>2 DEF N
<1>6. Spent(w, p) = Spent(a, p) - a[p][c] + amount
  <2>1. Spent(a, p) \in Nat /\ a[p][c] \in Nat
    BY <1>1, SlicesAddUp DEF Slices
  <2> QED
    BY <1>3, <1>4, <1>5, <2>1
<1>7. \A d \in ChargeSet : Paid(w, d) <= Amount[d]
  BY <1>1 DEF AllFit, Fits
<1>8. \A q \in Payments : Spent(w, q) <= Money[q]
  BY <1>1, <1>6 DEF AllFit, Fits
<1> QED
  BY <1>7, <1>8 DEF AllFit, w

-----------------------------------------------------------------------------
(* The automatic allocation: the loop over the due charges is that of       *)
(* ObligationFifo, and a charge that was due twice keeps its last slice.    *)
LastOf(due, slice, c) == Max({i \in {j \in DOMAIN due : slice[j] > 0} : due[i] = c})

Chosen(due, slice) ==
    [c \in {due[i] : i \in {j \in DOMAIN due : slice[j] > 0}} |-> slice[LastOf(due, slice, c)]]

Rows(slices) == [n \in DOMAIN Charges |->
                    IF Charges[n] \in DOMAIN slices THEN slices[Charges[n]] ELSE 0]

LEMMA LastSliceStays ==
    ASSUME NEW due \in Seq(ChargeSet), NEW slice, \A i \in DOMAIN due : slice[i] \in Nat
    PROVE  /\ DOMAIN Chosen(due, slice) \subseteq ChargeSet
           /\ \A c \in DOMAIN Chosen(due, slice) :
                  LET i == LastOf(due, slice, c) IN
                  /\ i \in DOMAIN due /\ due[i] = c
                  /\ slice[i] > 0 /\ Chosen(due, slice)[c] = slice[i]
           /\ \A i \in DOMAIN due : slice[i] > 0 => due[i] \in DOMAIN Chosen(due, slice)
<1>1. /\ Len(due) \in Nat /\ DOMAIN due = 1..Len(due)
      /\ \A i \in DOMAIN due : due[i] \in ChargeSet
  OBVIOUS
<1>2. /\ DOMAIN Chosen(due, slice) = {due[i] : i \in {j \in DOMAIN due : slice[j] > 0}}
      /\ \A c \in DOMAIN Chosen(due, slice) :
             Chosen(due, slice)[c] = slice[LastOf(due, slice, c)]
  BY DEF Chosen
<1>3. ASSUME NEW c \in DOMAIN Chosen(due, slice)
      PROVE  LET i == LastOf(due, slice, c) IN
             /\ i \in DOMAIN due /\ due[i] = c
             /\ slice[i] > 0 /\ Chosen(due, slice)[c] = slice[i]
  <2> DEFINE S == {i \in {j \in DOMAIN due : slice[j] > 0} : due[i] = c}
  <2>1. S \in SUBSET (1..Len(due)) /\ S # {}
    BY <1>1, <1>2, <1>3
  <2>2. LastOf(due, slice, c) = Max(S)
    BY DEF LastOf
  <2> HIDE DEF S
  <2>3. Max(S) \in S
    BY <1>1, <2>1, MaxInInterval
  <2> QED
    BY <1>2, <2>2, <2>3 DEF S
<1> QED
  BY <1>1, <1>2, <1>3

(* The slices that stay add up to no more than the loop gave out.           *)
LEMMA SlicesWithinLoop ==
    ASSUME NEW due \in Seq(ChargeSet), NEW slice, \A i \in DOMAIN due : slice[i] \in Nat
    PROVE  /\ SumTo(Rows(Chosen(due, slice)), Len(Charges)) \in Nat
           /\ SumTo(slice, Len(due)) \in Nat
           /\ SumTo(Rows(Chosen(due, slice)), Len(Charges)) <= SumTo(slice, Len(due))
<1> DEFINE N == Len(Charges)
           M == Len(due)
           ch == Chosen(due, slice)
           g == Rows(ch)
           sel == [n \in 1..N |-> LastOf(due, slice, Charges[n])]
           b == Selected(g, N, sel, slice, M)
<1>1. /\ M \in Nat /\ DOMAIN due = 1..M
      /\ \A i \in 1..M : slice[i] \in Nat /\ due[i] \in ChargeSet
  OBVIOUS
<1>2. /\ N \in Nat /\ DOMAIN Charges = 1..N
      /\ \A n \in 1..N : Charges[n] \in ChargeSet
      /\ \A m, n \in 1..N : Charges[m] = Charges[n] => m = n
      /\ \A c \in ChargeSet : \E n \in 1..N : Charges[n] = c
  BY Amounts
<1>3. /\ DOMAIN ch \subseteq ChargeSet
      /\ \A c \in DOMAIN ch : LET i == LastOf(due, slice, c) IN
             i \in 1..M /\ due[i] = c /\ slice[i] > 0 /\ ch[c] = slice[i]
      /\ \A i \in 1..M : slice[i] > 0 => due[i] \in DOMAIN ch
  BY <1>1, LastSliceStays
<1>4. \A n \in 1..N : g[n] = IF Charges[n] \in DOMAIN ch THEN ch[Charges[n]] ELSE 0
  BY <1>2 DEF Rows
<1> HIDE DEF ch, N, M
<1>5. ASSUME NEW n \in 1..N
      PROVE  /\ g[n] \in Nat
             /\ g[n] # 0 => /\ sel[n] \in 1..M /\ g[n] = slice[sel[n]]
                            /\ due[sel[n]] = Charges[n]
  <2>1. g[n] = IF Charges[n] \in DOMAIN ch THEN ch[Charges[n]] ELSE 0
    BY <1>4
  <2>2. sel[n] = LastOf(due, slice, Charges[n])
    OBVIOUS
  <2> HIDE DEF g, sel
  <2> QED
    BY <1>1, <1>2, <1>3, <2>1, <2>2
<1> HIDE DEF g, sel
<1>6. \A i, j \in 1..N : g[i] # 0 /\ g[j] # 0 /\ sel[i] = sel[j] => i = j
  BY <1>2, <1>5
<1> HIDE DEF b
<1>7. SumTo(g, N) = SumTo(b, M)
  <2>1. /\ \A j \in 1..M : slice[j] \in Nat
        /\ \A i \in 1..N : \/ g[i] = 0
                           \/ sel[i] \in 1..M /\ g[i] = slice[sel[i]]
    BY <1>1, <1>5
  <2>2. N \in Nat /\ M \in Nat
    BY <1>1, <1>2
  <2>3. SumTo(g, N) = SumTo(Selected(g, N, sel, slice, M), M)
    <3>1. Selects(g, N, sel, slice, M)
      BY <1>6, <2>1 DEF Selects
    <3> QED
      BY <2>2, <3>1, SumOfChosenRows
  <2> QED
    BY <2>3 DEF b
<1>8. \A j \in 1..M : /\ b[j] \in Int /\ slice[j] \in Int /\ b[j] <= slice[j]
                      /\ b[j] \in Nat
  BY <1>1 DEF Selected, b
<1>9. SumTo(b, M) <= SumTo(slice, M) /\ SumTo(b, M) \in Nat /\ SumTo(slice, M) \in Nat
  <2>1. SumTo(b, M) \in Nat
    BY <1>1, <1>8, SumToNat
  <2>2. SumTo(slice, M) \in Nat
    BY <1>1, SumToNat
  <2>3. SumTo(b, M) <= SumTo(slice, M)
    BY <1>1, <1>8, SumToAtMost
  <2> QED
    BY <2>1, <2>2, <2>3
<1> QED
  BY <1>7, <1>9 DEF g, ch, N, M

(* The loop, with what each due charge is owed.                            *)
OpenList(a, due) == [i \in DOMAIN due |-> Max({0, OpenOf(a, due[i])})]

SliceList(a, due, money) == [i \in DOMAIN due |-> Applied(OpenList(a, due), money, i)]

LEMMA FifoSlicesAre ==
    ASSUME NEW ls, NEW a, NEW p
    PROVE  FifoSlices(ls, a, p) = Chosen(Due(ls), SliceList(a, Due(ls), Money[p] - Spent(a, p)))
BY DEF FifoSlices, Chosen, LastOf, SliceList, OpenList

LoopGives(a, due, money) ==
    /\ \A i \in DOMAIN due :
           /\ OpenList(a, due)[i] \in Nat
           /\ OpenList(a, due)[i] = IF Amount[due[i]] >= Paid(a, due[i])
                                    THEN Amount[due[i]] - Paid(a, due[i]) ELSE 0
           /\ SliceList(a, due, money)[i] \in Nat
           /\ SliceList(a, due, money)[i] <= OpenList(a, due)[i]
    /\ SumTo(SliceList(a, due, money), Len(due)) \in Nat
    /\ SumTo(SliceList(a, due, money), Len(due)) <= money

LEMMA LoopFacts ==
    ASSUME NEW a \in Slices, NEW due \in Seq(ChargeSet), NEW money \in Nat
    PROVE  LoopGives(a, due, money)
<1> DEFINE M == Len(due)
           open == OpenList(a, due)
           slice == SliceList(a, due, money)
<1>1. M \in Nat /\ DOMAIN due = 1..M /\ \A i \in 1..M : due[i] \in ChargeSet
  OBVIOUS
<1>2. \A i \in 1..M : /\ Paid(a, due[i]) \in Nat /\ Amount[due[i]] \in Nat
                      /\ OpenOf(a, due[i]) = Amount[due[i]] - Paid(a, due[i])
                      /\ OpenOf(a, due[i]) \in Int
  BY <1>1, SlicesAddUp, Amounts DEF OpenOf
<1>3. \A i \in 1..M : open[i] = Max({0, OpenOf(a, due[i])})
  BY <1>1 DEF OpenList
<1>4. \A i \in 1..M : /\ open[i] \in Nat
                      /\ open[i] = IF Amount[due[i]] >= Paid(a, due[i])
                                   THEN Amount[due[i]] - Paid(a, due[i]) ELSE 0
  <2> TAKE i \in 1..M
  <2> DEFINE x == OpenOf(a, due[i])
  <2>1. /\ x \in Int /\ open[i] = Max({0, x})
        /\ x = Amount[due[i]] - Paid(a, due[i])
        /\ Amount[due[i]] \in Nat /\ Paid(a, due[i]) \in Nat
    BY <1>2, <1>3
  <2> HIDE DEF x, open
  <2>2. open[i] = IF x >= 0 THEN x ELSE 0
    BY <2>1, MaxWithZero
  <2> QED
    BY <2>1, <2>2
<1>5. slice = [i \in 1..M |-> Applied(open, money, i)]
  BY <1>1 DEF SliceList
<1> HIDE DEF open, slice, M
<1>6. \A i \in 1..M : slice[i] = Applied(open, money, i)
  BY <1>5
<1>7. /\ \A i \in 1..M : slice[i] \in 0..open[i]
      /\ Unapplied(open, money, M) \in Nat
  <2>1. \A i \in 1..M : Applied(open, money, i) \in 0..open[i]
    BY <1>1, <1>4, AppliedRange
  <2>2. \A i \in 0..M : Unapplied(open, money, i) \in 0..money
    BY <1>1, <1>4, UnappliedRange
  <2> QED
    BY <1>1, <1>6, <2>1, <2>2
<1>8. SumTo(slice, M) + Unapplied(open, money, M) = money
  BY <1>1, <1>4, <1>5, FifoConservesPayment
<1>9. SumTo(slice, M) \in Nat
  BY <1>1, <1>4, <1>7, SumToNat
<1>12. SumTo(slice, M) <= money
  BY <1>7, <1>8, <1>9
<1>13. \A i \in 1..M : slice[i] \in Nat /\ slice[i] <= open[i]
  BY <1>4, <1>7
<1> QED
  BY <1>1, <1>4, <1>9, <1>12, <1>13 DEF M, open, slice, LoopGives

(* What the loop writes stays within what the payment has left.            *)
LEMMA FifoSpends ==
    ASSUME NEW a \in Slices, NEW call, CallTyped(call)
    PROVE  Spent(Written(a, call), call.payment)
               <= Spent(a, call.payment) + SumTo(Rows(call.slices), Len(Charges))
<1> DEFINE N == Len(Charges)
           p == call.payment
           f == [n \in DOMAIN Charges |-> a[p][Charges[n]]]
           g == Rows(call.slices)
           h == [n \in DOMAIN Charges |-> Written(a, call)[p][Charges[n]]]
           both == [n \in 1..N |-> f[n] + g[n]]
<1>1. /\ N \in Nat /\ DOMAIN Charges = 1..N
      /\ \A n \in 1..N : Charges[n] \in ChargeSet
      /\ \A c \in ChargeSet : \E n \in 1..N : Charges[n] = c
      /\ p \in Payments /\ \A c \in ChargeSet : a[p][c] \in Nat
      /\ \A c \in DOMAIN call.slices : call.slices[c] \in Nat
      /\ \A c \in ChargeSet : Written(a, call)[p][c] =
             IF c \in DOMAIN call.slices THEN call.slices[c] ELSE a[p][c]
  <2>1. \A c \in ChargeSet : Written(a, call)[p][c] =
             IF c \in DOMAIN call.slices THEN call.slices[c] ELSE a[p][c]
    BY PaidAfter
  <2> QED
    BY <2>1, Amounts DEF CallTyped, Slices
<1>2. \A n \in 1..N : /\ f[n] = a[p][Charges[n]] /\ f[n] \in Nat /\ f[n] \in Int
                      /\ g[n] = IF Charges[n] \in DOMAIN call.slices
                                THEN call.slices[Charges[n]] ELSE 0
                      /\ g[n] \in Nat /\ g[n] \in Int
                      /\ h[n] = Written(a, call)[p][Charges[n]]
                      /\ h[n] \in Int /\ h[n] <= f[n] + g[n]
  BY <1>1 DEF Rows
<1>3. Spent(a, p) = SumTo(f, N) /\ Spent(Written(a, call), p) = SumTo(h, N)
  BY DEF Spent
<1> HIDE DEF f, g, h, N, p
<1>4. \A n \in 1..N : both[n] = f[n] + g[n] /\ both[n] \in Int
  BY <1>2
<1> HIDE DEF both
<1>5. SumTo(both, N) = SumTo(f, N) + SumTo(g, N)
  <2>1. \A n \in 1..N : f[n] \in Int /\ g[n] \in Int /\ both[n] = f[n] + g[n]
    BY <1>2, <1>4
  <2> QED
    BY <1>1, <2>1, SumsAdd
<1>6. SumTo(h, N) <= SumTo(both, N)
  BY <1>1, <1>2, <1>4, SumToAtMost
<1>8. SumTo(h, N) <= SumTo(f, N) + SumTo(g, N)
  BY <1>5, <1>6
<1> QED
  BY <1>3, <1>8 DEF g, N, p

(* The call that fifo_allocate_payment is about to write when it has read.   *)
LEMMA FifoFits ==
    ASSUME NEW a \in Slices, NEW ls, \A c \in ChargeSet : Copies(ls, c) \in Nat,
           NEW p \in Payments, Spent(a, p) < Money[p],
           NEW call, call = [kind |-> "fifo", payment |-> p, slices |-> FifoSlices(ls, a, p),
                             stale |-> FALSE]
    PROVE  CallTyped(call) /\ CallFits(a, call)
<1> DEFINE due == Due(ls)
           money == Money[p] - Spent(a, p)
           open == OpenList(a, due)
           slice == SliceList(a, due, money)
           ch == Chosen(due, slice)
           last(c) == LastOf(due, slice, c)
           w == Written(a, call)
<1>1. /\ due \in Seq(ChargeSet) /\ Len(due) \in Nat /\ DOMAIN due = 1..Len(due)
  <2>1. due \in Seq(ChargeSet)
    BY DueCharges
  <2> QED
    BY <2>1
<1>2. /\ money \in Nat /\ Spent(a, p) \in Nat /\ Money[p] \in Nat
      /\ Spent(a, p) + money = Money[p]
  BY SlicesAddUp, Amounts
<1>3. /\ call.kind = "fifo" /\ call.payment = p /\ call.slices = ch
      /\ call.stale = FALSE
  BY FifoSlicesAre
<1> HIDE DEF money, due
<1>4. /\ \A i \in DOMAIN due :
             /\ open[i] \in Nat /\ slice[i] \in Nat /\ slice[i] <= open[i]
             /\ open[i] = IF Amount[due[i]] >= Paid(a, due[i])
                          THEN Amount[due[i]] - Paid(a, due[i]) ELSE 0
      /\ SumTo(slice, Len(due)) \in Nat /\ SumTo(slice, Len(due)) <= money
  <2>1. LoopGives(a, due, money)
    BY <1>1, <1>2, LoopFacts
  <2> QED
    BY <2>1 DEF LoopGives
<1> HIDE DEF open, slice
<1>5. /\ DOMAIN ch \subseteq ChargeSet
      /\ \A c \in DOMAIN ch : /\ last(c) \in DOMAIN due /\ due[last(c)] = c
                              /\ slice[last(c)] > 0 /\ ch[c] = slice[last(c)]
      /\ \A i \in DOMAIN due : slice[i] > 0 => due[i] \in DOMAIN ch
  BY <1>1, <1>4, LastSliceStays
<1>6. /\ SumTo(Rows(ch), Len(Charges)) \in Nat
      /\ SumTo(Rows(ch), Len(Charges)) <= SumTo(slice, Len(due))
  BY <1>1, <1>4, SlicesWithinLoop
<1> HIDE DEF ch, last
<1>7. CallTyped(call)
  BY <1>3, <1>4, <1>5 DEF CallTyped
<1>8. \A c \in ChargeSet : Paid(a, c) \in Nat /\ Amount[c] \in Nat /\ a[p][c] \in Nat
  BY SlicesAddUp, Amounts DEF Slices
<1>9. \A c \in DOMAIN ch : /\ c \in ChargeSet /\ ch[c] \in Nat
                           /\ ch[c] <= Amount[c] - Paid(a, c) /\ Paid(a, c) < Amount[c]
  BY <1>4, <1>5, <1>8
<1>10. /\ \A c \in ChargeSet : Paid(w, c) = IF c \in DOMAIN ch
                                            THEN Paid(a, c) - a[p][c] + ch[c] ELSE Paid(a, c)
       /\ \A q \in Payments : q # p => Spent(w, q) = Spent(a, q)
       /\ w \in Slices
  BY <1>3, <1>7, PaidAfter, SpentByOthers
<1>11. Spent(w, p) <= Spent(a, p) + SumTo(Rows(ch), Len(Charges))
  BY <1>3, <1>7, FifoSpends
<1>12. Spent(w, p) \in Nat
  BY <1>10, SlicesAddUp
<1> HIDE DEF w
<1>13. AllFit(a) => AllFit(w)
  <2>1. SUFFICES ASSUME AllFit(a) PROVE AllFit(w)
    OBVIOUS
  <2>2. \A c \in ChargeSet : Paid(w, c) <= Amount[c]
    BY <1>8, <1>9, <1>10, <2>1 DEF AllFit
  <2>3. Spent(w, p) <= Money[p]
    BY <1>2, <1>4, <1>6, <1>11, <1>12
  <2> QED
    BY <1>10, <2>1, <2>2, <2>3 DEF AllFit
<1>17. CallFits(a, call)
  BY <1>3, <1>9, <1>13 DEF CallFits, w
<1> QED
  BY <1>7, <1>17
-----------------------------------------------------------------------------
(* The inductive invariant.                                                *)
PlannedLines == [tx : Billable, amount : Nat]
DraftLines == [draft : Nat, tx : Billable, amount : Nat, included : BOOLEAN]

Statuses == Unsent \cup {"sent"}

(* What is on drafts, sent and still to be added is of the rows of the      *)
(* periods planned so far.                                                 *)
DraftsTyped ==
    /\ drafts \in Seq(Statuses)
    /\ lines \in Seq(DraftLines)
    /\ \A i \in DOMAIN lines : /\ lines[i].draft \in DOMAIN drafts
                               /\ Period[lines[i].tx] <= lines[i].draft
    /\ adding # None =>
           /\ adding \in [draft : {Len(drafts)}, rest : Seq(PlannedLines)]
           /\ Len(drafts) # 0 /\ adding.rest # <<>>
           /\ \A j \in DOMAIN adding.rest : Period[adding.rest[j].tx] <= Len(drafts)
    /\ DOMAIN shown = ChargeSet
    /\ \A e \in sent : /\ e = [tx |-> e.tx, snapshot |-> e.snapshot]
                       /\ e.tx \in Billable
                       /\ e.snapshot \in DOMAIN drafts
                       /\ drafts[e.snapshot] = "sent"

(* A transaction is on a draft once, counting the lines still to be added.   *)
LinesOnce ==
    /\ \A i, j \in DOMAIN lines :
           lines[i].draft = lines[j].draft /\ lines[i].tx = lines[j].tx => i = j
    /\ adding # None =>
           /\ \A i, j \in DOMAIN adding.rest : adding.rest[i].tx = adding.rest[j].tx => i = j
           /\ \A i \in DOMAIN lines, j \in DOMAIN adding.rest :
                  lines[i].draft = adding.draft => lines[i].tx # adding.rest[j].tx

(* The charges there is a reason to have on a statement again.              *)
GoAgain == asked \cup misread

(* A charge nobody excluded or asked for, and no failed read brought back,   *)
(* has one line in all, an included one.                                   *)
OneLineUnlessAsked ==
    \A c \in ChargeSet \ GoAgain :
        /\ shown[c].status # "next_statement"
        /\ \A i \in LinesOf(lines, c) : lines[i].included
        /\ \A i, j \in LinesOf(lines, c) : i = j
        /\ adding # None =>
               \A j \in DOMAIN adding.rest : adding.rest[j].tx = c => LinesOf(lines, c) = {}

(* The line of a sent entry is still there.                                *)
SentFromLines ==
    \A e \in sent : e.tx \notin GoAgain =>
        \E i \in DOMAIN lines : lines[i].tx = e.tx /\ lines[i].draft = e.snapshot

(* Of the slices and the calls about to write some.                         *)
AllocInv ==
    /\ alloc \in Slices
    /\ raced \in BOOLEAN
    /\ DOMAIN calls = Clerks
    /\ \A k \in Clerks : calls[k] # None =>
           /\ CallTyped(calls[k])
           /\ ~calls[k].stale => CallFits(alloc, calls[k])
    /\ ~raced => AllFit(alloc)

DraftsInv == DraftsTyped /\ LinesOnce /\ OneLineUnlessAsked /\ SentFromLines
BillingInv == AllocInv /\ DraftsInv

LEMMA CopiesCount ==
    ASSUME NEW S, NEW ls \in Seq(S), NEW c
    PROVE  Copies(ls, c) \in Nat
<1>1. IsFiniteSet(DOMAIN ls)
  BY FS_Interval
<1>2. IsFiniteSet({i \in LinesOf(ls, c) : ls[i].included})
  BY <1>1, FS_Subset DEF LinesOf
<1> QED
  BY <1>2, FS_CardinalityType DEF Copies

LEMMA SumOfZeros ==
    ASSUME NEW f, NEW n \in Nat, \A i \in 1..n : f[i] = 0
    PROVE  SumTo(f, n) = 0
<1>1. \A i \in 1..n : f[i] \in Int /\ f[i] = -f[i]
  OBVIOUS
<1>2. SumTo(f, n) = -SumTo(f, n) /\ SumTo(f, n) \in Int
  BY <1>1, SumToNegated, SumToInt
<1> QED
  BY <1>2

-----------------------------------------------------------------------------
(* The allocations.                                                        *)
LEMMA AllocInit == Init => AllocInv
<1> SUFFICES ASSUME Init PROVE AllocInv
  OBVIOUS
<1>1. alloc \in Slices
  BY DEF Init, Slices
<1>2. ASSUME NEW c \in ChargeSet PROVE Paid(alloc, c) <= Amount[c]
  <2> DEFINE f == [p \in Payments |-> alloc[p][c]]
  <2>1. \A p \in 1..NumPayments : f[p] = 0
    BY DEF Init, Payments
  <2>2. Paid(alloc, c) = SumTo(f, NumPayments)
    BY DEF Paid
  <2> HIDE DEF f
  <2>3. SumTo(f, NumPayments) = 0
    BY <2>1, SumOfZeros, Amounts
  <2> QED
    BY <2>2, <2>3, Amounts
<1>3. ASSUME NEW p \in Payments PROVE Spent(alloc, p) <= Money[p]
  <2> DEFINE f == [n \in DOMAIN Charges |-> alloc[p][Charges[n]]]
             N == Len(Charges)
  <2>1. N \in Nat /\ \A n \in 1..N : f[n] = 0
    BY Amounts DEF Init
  <2>2. Spent(alloc, p) = SumTo(f, N)
    BY DEF Spent
  <2> HIDE DEF f, N
  <2>3. SumTo(f, N) = 0
    BY <2>1, SumOfZeros
  <2> QED
    BY <2>2, <2>3, Amounts
<1> QED
  BY <1>1, <1>2, <1>3 DEF Init, AllocInv, AllFit

(* A call that starts has read slices nothing changed since.               *)
LEMMA AllocStarts ==
    ASSUME AllocInv, NEW k \in Clerks, NEW kind, NEW p, NEW slices,
           Starts(k, kind, p, slices),
           NEW call, call = [kind |-> kind, payment |-> p, slices |-> slices, stale |-> FALSE],
           CallTyped(call), CallFits(alloc, call)
    PROVE  AllocInv'
<1>1. /\ alloc' = alloc /\ raced' = raced
      /\ DOMAIN calls = Clerks
      /\ calls' = [calls EXCEPT ![k] = call]
  BY DEF Starts, AllocInv
<1>2. /\ DOMAIN calls' = Clerks
      /\ \A j \in Clerks : calls'[j] = IF j = k THEN call ELSE calls[j]
  BY <1>1
<1>3. ASSUME NEW j \in Clerks, calls'[j] # None
      PROVE  CallTyped(calls'[j]) /\ (~calls'[j].stale => CallFits(alloc, calls'[j]))
  <2>1. CASE j = k
    BY <2>1, <1>2
  <2>2. CASE j # k
    BY <2>2, <1>2, <1>3 DEF AllocInv
  <2> QED
    BY <2>1, <2>2
<1> QED
  BY <1>1, <1>2, <1>3 DEF AllocInv

LEMMA AllocReadForSlice ==
    ASSUME AllocInv, NEW k \in Clerks, NEW p \in Payments, NEW c \in ChargeSet,
           NEW amount \in 1..Money[p], ReadForSlice(k, p, c, amount)
    PROVE  AllocInv'
<1> DEFINE slices == [x \in {c} |-> amount]
           call == [kind |-> "manual", payment |-> p, slices |-> slices, stale |-> FALSE]
<1>1. amount \in Nat
  BY Amounts
<1>2. CallTyped(call)
  BY <1>1 DEF CallTyped
<1>3. /\ alloc \in Slices /\ Fits(alloc, call.payment, c, amount)
      /\ call.slices = [x \in {c} |-> amount] /\ call.kind = "manual"
      /\ Starts(k, "manual", p, slices)
  BY DEF AllocInv, ReadForSlice
<1>4. call = [kind |-> "manual", payment |-> p, slices |-> slices, stale |-> FALSE]
  OBVIOUS
<1> HIDE DEF call
<1>5. AllFit(alloc) => AllFit(Written(alloc, call))
  BY <1>1, <1>2, <1>3, ManualFits
<1>6. CallFits(alloc, call)
  BY <1>3, <1>5 DEF CallFits
<1> QED
  BY <1>2, <1>3, <1>4, <1>6, AllocStarts

LEMMA AllocReadForFifo ==
    ASSUME AllocInv, DraftsInv, NEW k \in Clerks, NEW p \in Payments, ReadForFifo(k, p)
    PROVE  AllocInv'
<1> DEFINE slices == FifoSlices(lines, alloc, p)
           call == [kind |-> "fifo", payment |-> p, slices |-> slices, stale |-> FALSE]
<1>1. lines \in Seq(DraftLines) /\ alloc \in Slices
  BY DEF AllocInv, DraftsInv, DraftsTyped
<1>2. \A c \in ChargeSet : Copies(lines, c) \in Nat
  BY <1>1, CopiesCount
<1>3. Spent(alloc, p) < Money[p] /\ Starts(k, "fifo", p, slices)
  BY DEF ReadForFifo
<1>4. call = [kind |-> "fifo", payment |-> p, slices |-> FifoSlices(lines, alloc, p),
              stale |-> FALSE]
  OBVIOUS
<1> HIDE DEF call
<1>5. CallTyped(call) /\ CallFits(alloc, call)
  BY <1>1, <1>2, <1>3, <1>4, FifoFits
<1> QED
  BY <1>3, <1>4, <1>5, AllocStarts

(* What a commit writes, and what becomes of the other calls.              *)
LEMMA CommitWrites ==
    ASSUME AllocInv, NEW k \in Clerks, Commit(k)
    PROVE  /\ calls[k] # None /\ CallTyped(calls[k])
           /\ alloc' = Written(alloc, calls[k]) /\ alloc' \in Slices
           /\ DOMAIN calls' = Clerks
           /\ calls'[k] = None
           /\ \A j \in Clerks : calls'[j] # None =>
                  /\ j # k /\ calls[j] # None
                  /\ CallTyped(calls'[j]) /\ calls'[j].stale
           /\ raced' <=> (raced \/ calls[k].stale)
<1>1. /\ calls[k] # None /\ CallTyped(calls[k])
      /\ alloc \in Slices
  BY DEF Commit, AllocInv
<1>2. alloc' = Written(alloc, calls[k]) /\ alloc' \in Slices
  <2>1. alloc' = Written(alloc, calls[k])
    BY DEF Commit, Written
  <2> QED
    BY <1>1, <2>1, PaidAfter
<1>3. /\ DOMAIN calls' = Clerks
      /\ calls'[k] = None
      /\ \A j \in Clerks : calls'[j] # None =>
             j # k /\ calls[j] # None /\ calls'[j] = [calls[j] EXCEPT !.stale = TRUE]
  BY DEF Commit
<1>4. ASSUME NEW j \in Clerks, calls'[j] # None
      PROVE  CallTyped(calls'[j]) /\ calls'[j].stale
  <2> DEFINE call == calls[j]
  <2>1. CallTyped(call) /\ calls'[j] = [call EXCEPT !.stale = TRUE]
    BY <1>3, <1>4 DEF AllocInv
  <2> HIDE DEF call
  <2>2. calls'[j] = [kind |-> call.kind, payment |-> call.payment, slices |-> call.slices,
                     stale |-> TRUE]
    BY <2>1 DEF CallTyped
  <2> QED
    BY <2>1, <2>2 DEF CallTyped
<1>5. raced' <=> (raced \/ calls[k].stale)
  BY DEF Commit
<1> QED
  BY <1>1, <1>2, <1>3, <1>4, <1>5

LEMMA AllocCommit ==
    ASSUME AllocInv, NEW k \in Clerks, Commit(k)
    PROVE  AllocInv'
<1>1. /\ calls[k] # None /\ CallTyped(calls[k])
      /\ alloc' = Written(alloc, calls[k]) /\ alloc' \in Slices
      /\ DOMAIN calls' = Clerks
      /\ \A j \in Clerks : calls'[j] # None => CallTyped(calls'[j]) /\ calls'[j].stale
      /\ raced' <=> (raced \/ calls[k].stale)
  BY CommitWrites
<1>2. raced' \in BOOLEAN
  BY DEF Commit, AllocInv, CallTyped
<1>3. ASSUME ~raced' PROVE AllFit(alloc')
  BY <1>1, <1>3 DEF AllocInv, CallFits
<1> QED
  BY <1>1, <1>2, <1>3 DEF AllocInv, AllFit, Paid, Spent

LEMMA AllocKept ==
    ASSUME AllocInv, UNCHANGED <<alloc, calls, raced>>
    PROVE  AllocInv'
BY DEF AllocInv, AllFit, CallFits, Paid, Spent

-----------------------------------------------------------------------------
(* What the next statement has.                                            *)
LEMMA BillableRows ==
    ASSUME NEW c \in Billable
    PROVE  c \in ChargeSet /\ ~Row[c].contractValue /\ ~Row[c].tracking
<1>1. c \in ChargeSet /\ Bucket(c) = "BALANCE_AFFECTING"
  BY DEF Billable
<1>2. Row[c].contractValue => Bucket(c) = "EXCLUDED"
  BY Zenon DEF Bucket
<1>3. ~Row[c].contractValue /\ Row[c].tracking => Bucket(c) = "INFORMATIONAL"
  BY Zenon DEF Bucket
<1>4. "EXCLUDED" # "BALANCE_AFFECTING" /\ "INFORMATIONAL" # "BALANCE_AFFECTING"
  OBVIOUS
<1> QED
  BY <1>1, <1>2, <1>3, <1>4, Zenon

(* The line that decides on a charge is one of its lines.                  *)
LEMMA LastLine ==
    ASSUME NEW S, NEW ls \in Seq(S), NEW c, LinesOf(ls, c) # {}
    PROVE  Max(LinesOf(ls, c)) \in LinesOf(ls, c)
<1> DEFINE own == LinesOf(ls, c)
           n == Len(ls)
<1>1. n \in Nat /\ own \in SUBSET (1..n) /\ own # {}
  BY DEF LinesOf
<1> HIDE DEF own, n
<1>2. Max(own) \in own
  BY <1>1, MaxInInterval
<1> QED
  BY <1>2 DEF own

LEMMA RemainingAmount ==
    ASSUME NEW ls, NEW st, NEW a \in Slices, NEW c \in ChargeSet,
           Remaining(ls, st, a, c) # None
    PROVE  Remaining(ls, st, a, c) \in Nat
<1>1. Paid(a, c) \in Nat /\ Amount[c] \in Nat
  BY SlicesAddUp, Amounts
<1>2. Max({0, Amount[c] - Paid(a, c)}) \in Nat
  BY <1>1, MaxWithZero
<1> QED
  BY <1>1, <1>2 DEF Remaining

LEMMA Concatenated ==
    ASSUME NEW S, NEW f \in Seq(S), NEW g \in Seq(S)
    PROVE  /\ f \o g \in Seq(S)
           /\ Len(f \o g) = Len(f) + Len(g)
           /\ \A i \in 1..Len(f) : (f \o g)[i] = f[i]
           /\ \A i \in 1..Len(g) : (f \o g)[Len(f) + i] = g[i]
           /\ \A i \in 1..(Len(f) + Len(g)) :
                  i > Len(f) => /\ i - Len(f) \in 1..Len(g)
                                /\ (f \o g)[i] = g[i - Len(f)]
<1>1. f \o g \in Seq(S) /\ Len(f \o g) = Len(f) + Len(g)
  OBVIOUS
<1>2. \A i \in 1..Len(f) : (f \o g)[i] = f[i]
  OBVIOUS
<1>3. \A i \in 1..(Len(f) + Len(g)) :
          i > Len(f) => /\ i - Len(f) \in 1..Len(g)
                        /\ (f \o g)[i] = g[i - Len(f)]
  OBVIOUS
<1>4. \A i \in 1..Len(g) : (f \o g)[Len(f) + i] = g[i]
  OBVIOUS
<1> QED
  BY <1>1, <1>2, <1>3, <1>4

(* A plan has a line for each row of its period and for each open           *)
(* obligation of which the remaining amount is known, and no other.         *)
LEMMA Plan ==
    ASSUME NEW ls, NEW st, NEW a \in Slices, NEW sh, NEW asOf, NEW period,
           NEW plan, plan = PlanLines(ls, st, a, sh, asOf, period)
    PROVE  /\ plan \in Seq(PlannedLines)
           /\ \A i, j \in DOMAIN plan : plan[i].tx = plan[j].tx => i = j
           /\ \A i \in DOMAIN plan :
                  \/ Period[plan[i].tx] = period
                  \/ plan[i].tx \in Reproposed(ls, st, a, sh, asOf, period)
           /\ \A c \in Reproposed(ls, st, a, sh, asOf, period) :
                  Remaining(ls, st, a, c) # None => \E i \in DOMAIN plan : plan[i].tx = c
<1> DEFINE open == Reproposed(ls, st, a, sh, asOf, period)
           current == {c \in Billable : Period[c] = period}
           known == {c \in open : Remaining(ls, st, a, c) # None}
           now == InOrder(current)
           again == InOrder(WithoutRepeats(current, known))
           f == [i \in DOMAIN now |-> PlannedLine(now[i], Amount[now[i]])]
           g == [i \in DOMAIN again |-> PlannedLine(again[i], Remaining(ls, st, a, again[i]))]
<1>1. plan = f \o g
  BY DEF PlanLines
<1>2. /\ open \subseteq Billable /\ Billable \subseteq ChargeSet
      /\ current \subseteq Billable /\ known \subseteq open
  BY DEF Reproposed, Billable
<1>3. /\ now \in Seq(ChargeSet) /\ again \in Seq(ChargeSet)
      /\ Once(now) /\ Once(again)
      /\ ToSet(now) = current \cap ChargeSet
      /\ ToSet(again) = (known \ current) \cap ChargeSet
  BY InOrderLists DEF WithoutRepeats
<1>4. \A c \in known : Remaining(ls, st, a, c) \in Nat
  BY <1>2, RemainingAmount
<1>5. /\ \A i \in DOMAIN now : now[i] \in current
      /\ \A i \in DOMAIN again : again[i] \in known \ current
      /\ \A c \in current : \E i \in DOMAIN now : now[i] = c
      /\ \A c \in known \ current : \E i \in DOMAIN again : again[i] = c
      /\ \A i, j \in DOMAIN now : now[i] = now[j] => i = j
      /\ \A i, j \in DOMAIN again : again[i] = again[j] => i = j
  <2>1. \A c \in current \cup known : c \in ChargeSet
    BY <1>2
  <2> HIDE DEF now, again, current, known
  <2> QED
    BY <1>3, <2>1 DEF ToSet, Once
<1>6. /\ DOMAIN now = 1..Len(now) /\ Len(now) \in Nat
      /\ DOMAIN again = 1..Len(again) /\ Len(again) \in Nat
  BY <1>3
<1>7. /\ \A i \in DOMAIN now : f[i] = [tx |-> now[i], amount |-> Amount[now[i]]]
      /\ \A i \in DOMAIN again :
             g[i] = [tx |-> again[i], amount |-> Remaining(ls, st, a, again[i])]
      /\ DOMAIN f = DOMAIN now /\ DOMAIN g = DOMAIN again
  BY DEF PlannedLine
<1> HIDE DEF now, again
<1>8. f \in Seq(PlannedLines) /\ Len(f) = Len(now)
  <2>1. \A i \in DOMAIN now : now[i] \in Billable /\ Amount[now[i]] \in Nat
    BY <1>2, <1>5, Amounts
  <2> HIDE DEF f
  <2>2. \A i \in DOMAIN now : f[i] \in PlannedLines
    BY <2>1, <1>7 DEF PlannedLines
  <2>3. f = [i \in 1..Len(now) |-> f[i]]
    BY <1>6 DEF f
  <2> QED
    BY <1>6, <2>2, <2>3
<1>9. g \in Seq(PlannedLines) /\ Len(g) = Len(again)
  <2>1. \A i \in DOMAIN again : /\ again[i] \in Billable
                                /\ Remaining(ls, st, a, again[i]) \in Nat
    BY <1>2, <1>4, <1>5
  <2> HIDE DEF g
  <2>2. \A i \in DOMAIN again : g[i] \in PlannedLines
    BY <2>1, <1>7 DEF PlannedLines
  <2>3. g = [i \in 1..Len(again) |-> g[i]]
    BY <1>6 DEF g
  <2> QED
    BY <1>6, <2>2, <2>3
<1> HIDE DEF f, g
<1>10. /\ plan \in Seq(PlannedLines)
       /\ DOMAIN plan = 1..(Len(now) + Len(again))
       /\ \A i \in 1..Len(now) : plan[i].tx = now[i]
       /\ \A i \in 1..(Len(now) + Len(again)) :
              i > Len(now) => /\ i - Len(now) \in 1..Len(again)
                              /\ plan[i].tx = again[i - Len(now)]
       /\ \A i \in 1..Len(again) : plan[Len(now) + i].tx = again[i]
  <2>1. /\ plan \in Seq(PlannedLines)
        /\ DOMAIN plan = 1..(Len(now) + Len(again))
        /\ \A i \in 1..Len(now) : plan[i] = f[i]
        /\ \A i \in 1..(Len(now) + Len(again)) :
              i > Len(now) => /\ i - Len(now) \in 1..Len(again)
                              /\ plan[i] = g[i - Len(now)]
        /\ \A i \in 1..Len(again) : plan[Len(now) + i] = g[i]
    <3>1. /\ f \o g \in Seq(PlannedLines)
          /\ Len(f \o g) = Len(f) + Len(g)
          /\ \A i \in 1..Len(f) : (f \o g)[i] = f[i]
          /\ \A i \in 1..Len(g) : (f \o g)[Len(f) + i] = g[i]
          /\ \A i \in 1..(Len(f) + Len(g)) :
                 i > Len(f) => /\ i - Len(f) \in 1..Len(g)
                               /\ (f \o g)[i] = g[i - Len(f)]
      BY <1>8, <1>9, Concatenated
    <3>2. DOMAIN (f \o g) = 1..(Len(now) + Len(again))
      BY <1>8, <1>9, <3>1
    <3> QED
      BY <1>1, <1>8, <1>9, <3>1, <3>2
  <2>2. /\ \A i \in 1..Len(now) : f[i].tx = now[i]
        /\ \A i \in 1..Len(again) : g[i].tx = again[i]
    BY <1>6, <1>7
  <2>3. \A i \in 1..Len(now) : plan[i].tx = now[i]
    BY <2>1, <2>2
  <2>4. \A i \in 1..(Len(now) + Len(again)) :
              i > Len(now) => /\ i - Len(now) \in 1..Len(again)
                              /\ plan[i].tx = again[i - Len(now)]
    BY <2>1, <2>2
  <2>5. \A i \in 1..Len(again) : plan[Len(now) + i].tx = again[i]
    BY <2>1, <2>2
  <2> QED
    BY <2>1, <2>3, <2>4, <2>5
<1> HIDE DEF current, known
<1>11. \A i \in DOMAIN plan : IF i <= Len(now) THEN plan[i].tx = now[i] /\ now[i] \in current
                              ELSE /\ plan[i].tx = again[i - Len(now)]
                                   /\ again[i - Len(now)] \in known \ current
  BY <1>5, <1>6, <1>10
<1>12. \A i, j \in DOMAIN plan : plan[i].tx = plan[j].tx => i = j
  BY <1>5, <1>6, <1>10, <1>11
<1>13. \A i \in DOMAIN plan : Period[plan[i].tx] = period \/ plan[i].tx \in open
  BY <1>11 DEF current, known
<1>14. ASSUME NEW c \in open, Remaining(ls, st, a, c) # None
       PROVE  \E i \in DOMAIN plan : plan[i].tx = c
  <2>1. CASE c \in current
    <3>1. PICK i \in 1..Len(now) : now[i] = c
      BY <2>1, <1>5, <1>6
    <3>2. i \in DOMAIN plan /\ plan[i].tx = c
      BY <3>1, <1>6, <1>10
    <3> QED
      BY <3>2
  <2>2. CASE c \notin current
    <3>1. PICK i \in 1..Len(again) : again[i] = c
      BY <2>2, <1>5, <1>6, <1>14 DEF known
    <3>2. Len(now) + i \in DOMAIN plan /\ plan[Len(now) + i].tx = c
      BY <3>1, <1>6, <1>10
    <3> QED
      BY <3>2
  <2> QED
    BY <2>1, <2>2
<1> QED
  BY <1>10, <1>12, <1>13, <1>14

LEMMA OnThePlan ==
    ASSUME NEW ls, NEW st, NEW a \in Slices, NEW sh, NEW asOf, NEW period,
           NEW c \in Reproposed(ls, st, a, sh, asOf, period),
           Remaining(ls, st, a, c) # None
    PROVE  \E i \in DOMAIN PlanLines(ls, st, a, sh, asOf, period) :
               PlanLines(ls, st, a, sh, asOf, period)[i].tx = c
<1> DEFINE plan == PlanLines(ls, st, a, sh, asOf, period)
<1>1. plan = PlanLines(ls, st, a, sh, asOf, period)
  OBVIOUS
<1> HIDE DEF plan
<1>2. /\ plan \in Seq(PlannedLines)
      /\ \A i, j \in DOMAIN plan : plan[i].tx = plan[j].tx => i = j
      /\ \A i \in DOMAIN plan : \/ Period[plan[i].tx] = period
                                \/ plan[i].tx \in Reproposed(ls, st, a, sh, asOf, period)
      /\ \A b \in Reproposed(ls, st, a, sh, asOf, period) :
             Remaining(ls, st, a, b) # None => \E i \in DOMAIN plan : plan[i].tx = b
  BY <1>1, Plan
<1> QED
  BY <1>2 DEF plan

(* A row that is open again, though nobody asked for it, is on no draft or   *)
(* was excluded from its last.                                             *)
LEMMA OpenAgain ==
    ASSUME NEW S, NEW ls \in Seq(S), NEW st, NEW a, NEW sh, NEW asOf, NEW period,
           NEW c \in Reproposed(ls, st, a, sh, asOf, period),
           sh[c].status # "next_statement"
    PROVE  \/ LinesOf(ls, c) = {}
           \/ \E i \in LinesOf(ls, c) : ~ls[i].included
<1>1. OpenBilling(BillingState(ls, st, c))
  BY DEF Reproposed, Disposition
<1>2. CASE LinesOf(ls, c) # {}
  <2>1. ~ls[Max(LinesOf(ls, c))].included
    BY <1>1, <1>2 DEF OpenBilling, BillingState
  <2>2. Max(LinesOf(ls, c)) \in LinesOf(ls, c)
    BY <1>2, LastLine
  <2> QED
    BY <2>1, <2>2
<1> QED
  BY <1>2

(* What RemoveAt leaves.                                                   *)
LEMMA Removed ==
    ASSUME NEW S, NEW s \in Seq(S), NEW i \in DOMAIN s
    PROVE  /\ RemoveAt(s, i) \in Seq(S)
           /\ Len(RemoveAt(s, i)) = Len(s) - 1
           /\ \A j \in 1..(Len(s) - 1) :
                  RemoveAt(s, i)[j] = IF j < i THEN s[j] ELSE s[j + 1]
<1> DEFINE a == SubSeq(s, 1, i-1)
           b == SubSeq(s, i+1, Len(s))
<1>1. i \in 1..Len(s) /\ Len(s) \in Nat
  OBVIOUS
<1>2. a \in Seq(S) /\ Len(a) = i - 1 /\ \A j \in 1..(i-1) : a[j] = s[j]
  BY <1>1
<1>3. /\ b \in Seq(S) /\ Len(b) = Len(s) - i
      /\ \A j \in 1..(Len(s) - i) : b[j] = s[i + j]
  BY <1>1
<1>4. RemoveAt(s, i) = a \o b
  BY DEF RemoveAt
<1> HIDE DEF a, b
<1>5. /\ a \o b \in Seq(S) /\ Len(a \o b) = Len(s) - 1
      /\ \A j \in 1..(Len(s) - 1) : (a \o b)[j] = IF j < i THEN a[j] ELSE b[j - (i - 1)]
  <2>1. /\ a \o b \in Seq(S) /\ Len(a \o b) = Len(a) + Len(b)
        /\ \A j \in 1..(Len(a) + Len(b)) :
               (a \o b)[j] = IF j <= Len(a) THEN a[j] ELSE b[j - Len(a)]
    BY <1>2, <1>3
  <2>2. Len(a) + Len(b) = Len(s) - 1 /\ Len(a) = i - 1
    BY <1>1, <1>2, <1>3
  <2>3. \A j \in 1..(Len(s) - 1) : j <= i - 1 <=> j < i
    BY <1>1
  <2> QED
    BY <2>1, <2>2, <2>3
<1>6. ASSUME NEW j \in 1..(Len(s) - 1)
      PROVE  (a \o b)[j] = IF j < i THEN s[j] ELSE s[j + 1]
  <2>1. CASE j < i
    BY <2>1, <1>1, <1>2, <1>5
  <2>2. CASE ~(j < i)
    <3>1. /\ j - (i - 1) \in 1..(Len(s) - i) /\ i + (j - (i - 1)) = j + 1
          /\ (a \o b)[j] = b[j - (i - 1)]
      BY <2>2, <1>1, <1>5
    <3> QED
      BY <3>1, <2>2, <1>3
  <2> QED
    BY <2>1, <2>2
<1> QED
  BY <1>4, <1>5, <1>6

-----------------------------------------------------------------------------
(* The drafts.                                                             *)
LEMMA DraftsInit == Init => DraftsInv
<1> SUFFICES ASSUME Init PROVE DraftsInv
  OBVIOUS
<1>1. /\ drafts = <<>> /\ lines = <<>> /\ adding = None /\ sent = {} /\ GoAgain = {}
      /\ shown = [c \in ChargeSet |-> ShowNow]
  BY DEF Init, GoAgain
<1>2. DraftsTyped
  BY <1>1 DEF DraftsTyped
<1>3. LinesOnce /\ SentFromLines
  BY <1>1 DEF LinesOnce, SentFromLines
<1>4. OneLineUnlessAsked
  BY <1>1 DEF OneLineUnlessAsked, LinesOf, ShowNow
<1> QED
  BY <1>2, <1>3, <1>4 DEF DraftsInv

(* What a plan is made from, whichever reads came back.                    *)
LEMMA Readings ==
    ASSUME alloc \in Slices, lines \in Seq(DraftLines), NEW seen
    PROVE  /\ SlicesRead(seen) \in Slices /\ LinesRead(seen) \in Seq(DraftLines)
           /\ LinesRead(seen) = <<>> \/ LinesRead(seen) = lines
           /\ SlicesRead(seen) = Nothing \/ SlicesRead(seen) = alloc
           /\ LinesRead(Reads) = lines /\ EntriesRead(Reads) = sent /\ SlicesRead(Reads) = alloc
<1>1. Nothing \in Slices
  BY DEF Nothing, Slices
<1> QED
  BY <1>1 DEF SlicesRead, LinesRead, EntriesRead, Reads

LEMMA DraftsCreateDraft ==
    ASSUME BillingInv, CreateDraft
    PROVE  DraftsInv'
<1> DEFINE period == Len(drafts) + 1
<1>0. PICK seen \in SUBSET (Reads \cap Callable) :
           /\ drafts' = Append(drafts, "draft")
           /\ adding' = IF PlanBy(seen, period) = <<>> THEN None
                        ELSE [draft |-> period, rest |-> PlanBy(seen, period)]
           /\ misread' = misread \cup (PlannedBy(seen, period) \ PlannedBy(Reads, period))
           /\ lines' = lines /\ sent' = sent /\ shown' = shown /\ asked' = asked
  BY DEF CreateDraft
<1> DEFINE ls == LinesRead(seen)
           st == EntriesRead(seen)
           a == SlicesRead(seen)
           plan == PlanBy(seen, period)
           open == Reproposed(ls, st, a, shown, day, period)
           whole == PlanBy(Reads, period)
<1>1. /\ DraftsTyped /\ LinesOnce /\ OneLineUnlessAsked /\ SentFromLines
      /\ alloc \in Slices
  BY DEF BillingInv, DraftsInv, AllocInv
<1>2. /\ drafts' = Append(drafts, "draft")
      /\ adding' = IF plan = <<>> THEN None ELSE [draft |-> period, rest |-> plan]
      /\ lines' = lines /\ sent' = sent /\ shown' = shown
      /\ \A c : c \notin GoAgain' => c \notin GoAgain
      /\ \A c : c \notin GoAgain' /\ (\E j \in DOMAIN plan : plan[j].tx = c) =>
             \E j \in DOMAIN whole : whole[j].tx = c
  BY <1>0 DEF GoAgain, PlannedBy, ToSet
<1>3. /\ plan = PlanLines(ls, st, a, shown, day, period) /\ a \in Slices
      /\ whole = PlanLines(lines, sent, alloc, shown, day, period)
  BY <1>1, Readings DEF PlanBy, DraftsTyped
<1> HIDE DEF plan, whole, period, ls, st, a
<1>4. /\ plan \in Seq(PlannedLines)
      /\ \A i, j \in DOMAIN plan : plan[i].tx = plan[j].tx => i = j
      /\ \A i \in DOMAIN plan : \/ Period[plan[i].tx] = period
                                \/ plan[i].tx \in open
  <2> HIDE DEF open
  <2>1. /\ plan \in Seq(PlannedLines)
        /\ \A i, j \in DOMAIN plan : plan[i].tx = plan[j].tx => i = j
        /\ \A i \in DOMAIN plan :
               \/ Period[plan[i].tx] = period
               \/ plan[i].tx \in Reproposed(ls, st, a, shown, day, period)
        /\ \A c \in Reproposed(ls, st, a, shown, day, period) :
               Remaining(ls, st, a, c) # None => \E i \in DOMAIN plan : plan[i].tx = c
    BY <1>3, Plan
  <2> QED
    BY <2>1 DEF open
<1>5. /\ \A i \in DOMAIN plan : plan[i].tx \in Billable /\ Period[plan[i].tx] <= period
      /\ period \in Nat /\ period # 0
  <2>1. \A i \in DOMAIN plan : plan[i].tx \in Billable
    <3>1. \A i \in DOMAIN plan : plan[i] \in PlannedLines
      BY <1>4
    <3> QED
      BY <3>1 DEF PlannedLines
  <2>2. \A c \in open : Period[c] <= period
    BY DEF Reproposed
  <2>3. period \in Nat /\ period # 0
    BY <1>1 DEF DraftsTyped, period
  <2> QED
    BY <1>4, <2>1, <2>2, <2>3
<1>6. /\ drafts' \in Seq(Statuses) /\ Len(drafts') = period
      /\ \A d \in DOMAIN drafts : d \in DOMAIN drafts' /\ drafts'[d] = drafts[d]
  BY <1>1, <1>2 DEF DraftsTyped, Statuses, Unsent, period
<1>7. adding' # None => /\ adding' = [draft |-> period, rest |-> plan]
                        /\ adding'.draft = period /\ adding'.rest = plan /\ plan # <<>>
  BY <1>2
<1>8. DraftsTyped'
  <2>1. adding' # None =>
           /\ adding' \in [draft : {Len(drafts')}, rest : Seq(PlannedLines)]
           /\ Len(drafts') # 0 /\ adding'.rest # <<>>
           /\ \A j \in DOMAIN adding'.rest : Period[adding'.rest[j].tx] <= Len(drafts')
    BY <1>4, <1>5, <1>6, <1>7
  <2>2. /\ lines' \in Seq(DraftLines)
        /\ \A i \in DOMAIN lines' : /\ lines'[i].draft \in DOMAIN drafts'
                                    /\ Period[lines'[i].tx] <= lines'[i].draft
        /\ DOMAIN shown' = ChargeSet
    BY <1>1, <1>2, <1>6 DEF DraftsTyped
  <2>3. \A e \in sent' : /\ e = [tx |-> e.tx, snapshot |-> e.snapshot]
                         /\ e.tx \in Billable
                         /\ e.snapshot \in DOMAIN drafts'
                         /\ drafts'[e.snapshot] = "sent"
    BY <1>1, <1>2, <1>6 DEF DraftsTyped
  <2> QED
    BY <1>6, <2>1, <2>2, <2>3 DEF DraftsTyped
<1>9. \A i \in DOMAIN lines : lines[i].draft # period /\ Period[lines[i].tx] # period
  <2> TAKE i \in DOMAIN lines
  <2>1. /\ lines[i].draft \in 1..Len(drafts) /\ Period[lines[i].tx] <= lines[i].draft
        /\ Len(drafts) \in Nat /\ lines[i].tx \in ChargeSet
    <3>1. lines[i] \in DraftLines
      BY <1>1 DEF DraftsTyped
    <3>2. lines[i].tx \in ChargeSet
      BY <3>1 DEF DraftLines, Billable
    <3> QED
      BY <1>1, <3>2 DEF DraftsTyped
  <2>2. Period[lines[i].tx] \in Nat
    BY <2>1, Amounts
  <2> QED
    BY <2>1, <2>2 DEF period
<1>10. LinesOnce'
  BY <1>1, <1>2, <1>4, <1>7, <1>9 DEF LinesOnce
<1>11. OneLineUnlessAsked'
  <2>1. ASSUME NEW c \in ChargeSet, c \notin GoAgain', NEW j \in DOMAIN plan, plan[j].tx = c,
               LinesOf(lines, c) # {}
        PROVE  FALSE
    <3>1. Period[c] # period /\ c \notin GoAgain
      BY <2>1, <1>2, <1>9 DEF LinesOf
    <3>2. c \in Reproposed(lines, sent, alloc, shown, day, period)
      BY <2>1, <3>1, <1>1, <1>2, <1>3, Plan
    <3>3. shown[c].status # "next_statement"
      BY <1>1, <3>1 DEF OneLineUnlessAsked
    <3>4. \E i \in LinesOf(lines, c) : ~lines[i].included
      BY <2>1, <3>2, <3>3, <1>1, OpenAgain DEF DraftsTyped
    <3> QED
      BY <3>1, <3>4, <1>1 DEF OneLineUnlessAsked
  <2>2. \A c \in ChargeSet \ GoAgain' :
           /\ shown[c].status # "next_statement"
           /\ \A i \in LinesOf(lines, c) : lines[i].included
           /\ \A i, j \in LinesOf(lines, c) : i = j
    BY <1>1, <1>2 DEF OneLineUnlessAsked
  <2> QED
    BY <2>1, <2>2, <1>2, <1>7 DEF OneLineUnlessAsked
<1>12. SentFromLines'
  BY <1>1, <1>2 DEF SentFromLines
<1> QED
  BY <1>8, <1>10, <1>11, <1>12 DEF DraftsInv

LEMMA DraftsAddLine ==
    ASSUME DraftsInv, AddLine
    PROVE  DraftsInv'
<1> DEFINE rest == adding.rest
           d == adding.draft
           l == [draft |-> d, tx |-> Head(rest).tx, amount |-> Head(rest).amount,
                 included |-> TRUE]
           n == Len(lines)
<1>1. DraftsTyped /\ LinesOnce /\ OneLineUnlessAsked /\ SentFromLines
  BY DEF DraftsInv
<1>2. /\ adding # None
      /\ lines' = Append(lines, l)
      /\ adding' = IF Len(rest) = 1 THEN None ELSE [adding EXCEPT !.rest = Tail(@)]
      /\ drafts' = drafts /\ sent' = sent /\ shown' = shown /\ GoAgain' = GoAgain
  BY DEF AddLine, GoAgain
<1>3. /\ rest \in Seq(PlannedLines) /\ rest # <<>>
      /\ d = Len(drafts) /\ d \in Nat /\ d # 0 /\ d \in DOMAIN drafts
      /\ adding = [draft |-> d, rest |-> rest]
      /\ \A j \in DOMAIN rest : Period[rest[j].tx] <= d
  BY <1>1, <1>2 DEF DraftsTyped
<1>4. /\ 1 \in DOMAIN rest /\ Head(rest) = rest[1] /\ rest[1] \in PlannedLines
      /\ Tail(rest) \in Seq(PlannedLines)
      /\ \A j \in DOMAIN Tail(rest) : j + 1 \in DOMAIN rest /\ Tail(rest)[j] = rest[j + 1]
      /\ Len(rest) # 1 => Tail(rest) # <<>>
  <2>1. rest \in Seq(PlannedLines) /\ rest # <<>>
    BY <1>3
  <2> HIDE DEF rest
  <2>2. Len(rest) \in Nat /\ Len(rest) # 0 /\ DOMAIN rest = 1..Len(rest)
    BY <2>1
  <2>3. 1 \in DOMAIN rest /\ Head(rest) = rest[1] /\ rest[1] \in PlannedLines
    BY <2>1, <2>2
  <2>4. /\ Tail(rest) \in Seq(PlannedLines)
        /\ Len(Tail(rest)) = Len(rest) - 1
        /\ \A j \in 1..(Len(rest) - 1) : Tail(rest)[j] = rest[j + 1]
    BY <2>1, <2>2
  <2>5. DOMAIN Tail(rest) = 1..(Len(rest) - 1)
    BY <2>2, <2>4
  <2>6. Len(rest) # 1 => Tail(rest) # <<>>
    <3>1. Tail(rest) = <<>> => Len(Tail(rest)) = 0
      OBVIOUS
    <3> QED
      BY <2>2, <2>4, <3>1
  <2> QED
    BY <2>2, <2>3, <2>4, <2>5, <2>6
<1>5. /\ l \in DraftLines /\ l.draft = d /\ l.tx = rest[1].tx /\ l.included = TRUE
      /\ l.tx \in Billable /\ Period[l.tx] <= d
  BY <1>3, <1>4 DEF PlannedLines, DraftLines
<1>6. adding' # None => /\ adding' = [draft |-> d, rest |-> Tail(rest)]
                        /\ adding'.draft = d /\ adding'.rest = Tail(rest)
                        /\ Tail(rest) # <<>>
  BY <1>2, <1>3, <1>4
<1> HIDE DEF l, rest, d
<1>7. /\ n \in Nat /\ DOMAIN lines = 1..n
      /\ lines' \in Seq(DraftLines) /\ DOMAIN lines' = 1..(n + 1)
      /\ \A i \in 1..n : lines'[i] = lines[i]
      /\ lines'[n + 1] = l
      /\ \A i \in 1..(n + 1) : i \notin 1..n => i = n + 1
  BY <1>1, <1>2, <1>5 DEF DraftsTyped
<1> HIDE DEF n
<1>8. /\ \A i, j \in 1..n : lines[i].draft = lines[j].draft /\ lines[i].tx = lines[j].tx => i = j
      /\ \A i, j \in DOMAIN rest : rest[i].tx = rest[j].tx => i = j
      /\ \A i \in 1..n, j \in DOMAIN rest : lines[i].draft = d => lines[i].tx # rest[j].tx
  BY <1>1, <1>2, <1>7 DEF LinesOnce, rest, d
<1>9. \A j \in DOMAIN Tail(rest) : Tail(rest)[j].tx # l.tx
  BY <1>3, <1>4, <1>5, <1>8
<1>10. DraftsTyped'
  <2>1. adding' # None =>
           /\ adding' \in [draft : {Len(drafts')}, rest : Seq(PlannedLines)]
           /\ Len(drafts') # 0 /\ adding'.rest # <<>>
           /\ \A j \in DOMAIN adding'.rest : Period[adding'.rest[j].tx] <= Len(drafts')
    <3>1. \A j \in DOMAIN Tail(rest) : Period[Tail(rest)[j].tx] <= d
      BY <1>3, <1>4
    <3>2. [draft |-> d, rest |-> Tail(rest)] \in [draft : {d}, rest : Seq(PlannedLines)]
      BY <1>4
    <3>3. Len(drafts') = d
      BY <1>2, <1>3
    <3> QED
      BY <1>3, <1>6, <3>1, <3>2, <3>3
  <2>2. \A i \in DOMAIN lines' : /\ lines'[i].draft \in DOMAIN drafts'
                                 /\ Period[lines'[i].tx] <= lines'[i].draft
    BY <1>1, <1>2, <1>3, <1>5, <1>7 DEF DraftsTyped
  <2> QED
    BY <1>1, <1>2, <1>7, <2>1, <2>2 DEF DraftsTyped
<1>11. LinesOnce'
  <2>1. \A i, j \in 1..(n + 1) :
           lines'[i].draft = lines'[j].draft /\ lines'[i].tx = lines'[j].tx => i = j
    <3>1. \A i \in 1..n : ~(lines[i].draft = l.draft /\ lines[i].tx = l.tx)
      BY <1>4, <1>5, <1>8
    <3> HIDE DEF l
    <3>2. TAKE i, j \in 1..(n + 1)
    <3>3. CASE i \in 1..n /\ j \in 1..n
      BY <3>3, <1>7, <1>8
    <3>4. CASE i \notin 1..n \/ j \notin 1..n
      BY <3>1, <3>4, <1>7
    <3> QED
      BY <3>3, <3>4
  <2>2. \A i, j \in DOMAIN Tail(rest) : Tail(rest)[i].tx = Tail(rest)[j].tx => i = j
    BY <1>3, <1>4, <1>8
  <2>3. \A i \in 1..(n + 1), j \in DOMAIN Tail(rest) :
           lines'[i].draft = d => lines'[i].tx # Tail(rest)[j].tx
    BY <1>4, <1>7, <1>8, <1>9
  <2>4. \A i, j \in DOMAIN lines' :
           lines'[i].draft = lines'[j].draft /\ lines'[i].tx = lines'[j].tx => i = j
    BY <1>7, <2>1
  <2>5. ASSUME adding' # None
        PROVE  /\ \A i, j \in DOMAIN adding'.rest :
                      adding'.rest[i].tx = adding'.rest[j].tx => i = j
               /\ \A i \in DOMAIN lines', j \in DOMAIN adding'.rest :
                      lines'[i].draft = adding'.draft => lines'[i].tx # adding'.rest[j].tx
    <3>1. adding'.draft = d /\ adding'.rest = Tail(rest) /\ DOMAIN lines' = 1..(n + 1)
      BY <1>6, <1>7, <2>5
    <3> QED
      BY <3>1, <2>2, <2>3
  <2> QED
    BY <2>4, <2>5 DEF LinesOnce
<1>12. ASSUME NEW c \in ChargeSet \ GoAgain
       PROVE  /\ shown[c].status # "next_statement"
              /\ \A i \in LinesOf(lines', c) : lines'[i].included
              /\ \A i, j \in LinesOf(lines', c) : i = j
              /\ adding' # None =>
                    \A j \in DOMAIN Tail(rest) : Tail(rest)[j].tx = c => LinesOf(lines', c) = {}
  <2>1. /\ shown[c].status # "next_statement"
        /\ \A i \in LinesOf(lines, c) : lines[i].included
        /\ \A i, j \in LinesOf(lines, c) : i = j
        /\ \A j \in DOMAIN rest : rest[j].tx = c => LinesOf(lines, c) = {}
    BY <1>1, <1>2 DEF OneLineUnlessAsked, rest
  <2>2. LinesOf(lines, c) = {i \in 1..n : lines[i].tx = c}
    BY <1>7 DEF LinesOf
  <2>3. LinesOf(lines', c) = {i \in 1..(n + 1) : lines'[i].tx = c}
    BY <1>7 DEF LinesOf
  <2>4. CASE l.tx = c
    <3>1. LinesOf(lines, c) = {}
      BY <2>1, <2>4, <1>4, <1>5
    <3>2. LinesOf(lines', c) = {n + 1}
      BY <3>1, <2>2, <2>3, <2>4, <1>7
    <3> QED
      BY <3>2, <2>1, <2>4, <1>5, <1>7, <1>9
  <2>5. CASE l.tx # c
    <3>1. LinesOf(lines', c) = LinesOf(lines, c)
      BY <2>2, <2>3, <2>5, <1>7
    <3>2. \A i \in LinesOf(lines, c) : lines'[i] = lines[i]
      BY <2>2, <1>7
    <3> QED
      BY <3>1, <3>2, <2>1, <1>4
  <2> QED
    BY <2>4, <2>5
<1>13. OneLineUnlessAsked'
  BY <1>2, <1>6, <1>12 DEF OneLineUnlessAsked
<1>14. SentFromLines'
  BY <1>1, <1>2, <1>7 DEF SentFromLines
<1> QED
  BY <1>10, <1>11, <1>13, <1>14 DEF DraftsInv

LEMMA DraftsAddLineFails ==
    ASSUME DraftsInv, AddLineFails
    PROVE  DraftsInv'
<1>1. /\ DraftsTyped /\ LinesOnce /\ OneLineUnlessAsked /\ SentFromLines
      /\ adding' = None
      /\ UNCHANGED <<lines, drafts, sent, shown>> /\ GoAgain' = GoAgain
  BY DEF DraftsInv, AddLineFails, GoAgain
<1>2. DraftsTyped'
  BY <1>1 DEF DraftsTyped
<1>3. LinesOnce' /\ SentFromLines'
  BY <1>1 DEF LinesOnce, SentFromLines
<1>4. OneLineUnlessAsked'
  BY <1>1 DEF OneLineUnlessAsked, LinesOf
<1> QED
  BY <1>2, <1>3, <1>4 DEF DraftsInv

LEMMA DraftsRemoveLine ==
    ASSUME DraftsInv, NEW i \in DOMAIN lines, RemoveLine(i)
    PROVE  DraftsInv'
<1> DEFINE n == Len(lines)
           from(j) == IF j < i THEN j ELSE j + 1
<1>1. /\ DraftsTyped /\ LinesOnce /\ OneLineUnlessAsked /\ SentFromLines
      /\ drafts[lines[i].draft] # "sent"
      /\ lines' = RemoveAt(lines, i)
      /\ UNCHANGED <<drafts, adding, sent, shown>> /\ GoAgain' = GoAgain
  BY DEF DraftsInv, RemoveLine, Unsent, GoAgain
<1>2. lines \in Seq(DraftLines) /\ n \in Nat /\ DOMAIN lines = 1..n /\ i \in 1..n
  BY <1>1 DEF DraftsTyped
<1>3. /\ lines' \in Seq(DraftLines) /\ Len(lines') = n - 1
      /\ \A j \in 1..(n - 1) : lines'[j] = IF j < i THEN lines[j] ELSE lines[j + 1]
  BY <1>1, <1>2, Removed
<1>4. DOMAIN lines' = 1..(n - 1)
  BY <1>2, <1>3
<1> HIDE DEF n
<1>5. /\ \A j \in DOMAIN lines' : /\ from(j) \in DOMAIN lines
                                  /\ lines'[j] = lines[from(j)]
      /\ \A j, k \in DOMAIN lines' : from(j) = from(k) => j = k
      /\ \A j \in DOMAIN lines : j # i => \E k \in DOMAIN lines' : from(k) = j
  <2>1. \A j \in 1..(n - 1) : from(j) \in 1..n /\ lines'[j] = lines[from(j)]
    BY <1>2, <1>3
  <2>2. \A j, k \in 1..(n - 1) : from(j) = from(k) => j = k
    BY <1>2
  <2>3. \A j \in 1..n : j # i => \E k \in 1..(n - 1) : from(k) = j
    <3>1. TAKE j \in 1..n
    <3>2. HAVE j # i
    <3>3. CASE j < i
      <4>1. j \in 1..(n - 1) /\ from(j) = j
        BY <3>3, <1>2
      <4> QED
        BY <4>1
    <3>4. CASE ~(j < i)
      <4>1. j - 1 \in 1..(n - 1) /\ from(j - 1) = j
        BY <3>2, <3>4, <1>2
      <4> QED
        BY <4>1
    <3> QED
      BY <3>3, <3>4
  <2> QED
    BY <2>1, <2>2, <2>3, <1>2, <1>4
<1> HIDE DEF from
<1>6. DraftsTyped'
  BY <1>1, <1>3, <1>5 DEF DraftsTyped
<1>7. LinesOnce'
  BY <1>1, <1>5 DEF LinesOnce
<1>8. OneLineUnlessAsked'
  <2>1. \A c : /\ \A j \in LinesOf(lines', c) : /\ from(j) \in LinesOf(lines, c)
                                                /\ lines'[j] = lines[from(j)]
               /\ LinesOf(lines, c) = {} => LinesOf(lines', c) = {}
    BY <1>5 DEF LinesOf
  <2>2. \A c : \A j, k \in LinesOf(lines', c) : from(j) = from(k) => j = k
    BY <1>5 DEF LinesOf
  <2>3. ASSUME NEW c \in ChargeSet \ GoAgain
        PROVE  /\ shown[c].status # "next_statement"
               /\ \A j \in LinesOf(lines', c) : lines'[j].included
               /\ \A j, k \in LinesOf(lines', c) : j = k
               /\ adding # None =>
                      \A j \in DOMAIN adding.rest :
                          adding.rest[j].tx = c => LinesOf(lines', c) = {}
    BY <1>1, <2>1, <2>2 DEF OneLineUnlessAsked
  <2> QED
    BY <1>1, <2>3 DEF OneLineUnlessAsked
<1>9. SentFromLines'
  <2>1. ASSUME NEW e \in sent, e.tx \notin GoAgain
        PROVE  \E j \in DOMAIN lines' : lines'[j].tx = e.tx /\ lines'[j].draft = e.snapshot
    <3>1. PICK j \in DOMAIN lines : lines[j].tx = e.tx /\ lines[j].draft = e.snapshot
      BY <1>1, <2>1 DEF SentFromLines
    <3>2. j # i
      BY <1>1, <3>1 DEF DraftsTyped
    <3> QED
      BY <1>5, <3>1, <3>2
  <2> QED
    BY <1>1, <2>1 DEF SentFromLines
<1> QED
  BY <1>6, <1>7, <1>8, <1>9 DEF DraftsInv

LEMMA DraftsToggle ==
    ASSUME DraftsInv, NEW i \in DOMAIN lines, NEW included \in BOOLEAN, Toggle(i, included)
    PROVE  DraftsInv'
<1>1. /\ DraftsTyped /\ LinesOnce /\ OneLineUnlessAsked /\ SentFromLines
      /\ lines[i].included # included
      /\ lines' = [lines EXCEPT ![i].included = included]
      /\ GoAgain' = IF included THEN GoAgain ELSE GoAgain \cup {lines[i].tx}
      /\ UNCHANGED <<drafts, adding, sent, shown>>
  BY DEF DraftsInv, Toggle, GoAgain
<1>2. /\ lines \in Seq(DraftLines) /\ DOMAIN lines' = DOMAIN lines
      /\ lines[i] \in DraftLines
      /\ lines'[i] = [lines[i] EXCEPT !.included = included]
      /\ \A j \in DOMAIN lines : j # i => lines'[j] = lines[j]
  BY <1>1 DEF DraftsTyped
<1>3. /\ lines'[i] \in DraftLines
      /\ lines'[i].draft = lines[i].draft /\ lines'[i].tx = lines[i].tx
      /\ lines'[i].included = included
  BY <1>2 DEF DraftLines
<1>4. /\ \A j \in DOMAIN lines : /\ lines'[j].draft = lines[j].draft
                                 /\ lines'[j].tx = lines[j].tx
                                 /\ j # i => lines'[j].included = lines[j].included
      /\ \A j \in DOMAIN lines : lines'[j] \in DraftLines
  <2>1. ASSUME NEW j \in DOMAIN lines
        PROVE  /\ lines'[j].draft = lines[j].draft
               /\ lines'[j].tx = lines[j].tx
               /\ j # i => lines'[j].included = lines[j].included
               /\ lines'[j] \in DraftLines
    <3>1. lines[j] \in DraftLines
      BY <1>2
    <3>2. CASE j = i
      BY <3>2, <1>3
    <3>3. CASE j # i
      BY <3>1, <3>3, <1>2
    <3> QED
      BY <3>2, <3>3
  <2> QED
    BY <2>1
<1>5. lines' \in Seq(DraftLines)
  <2>1. Len(lines) \in Nat /\ DOMAIN lines = 1..Len(lines)
    BY <1>2
  <2>2. lines' = [j \in 1..Len(lines) |-> lines'[j]]
    BY <1>1, <2>1
  <2> QED
    BY <2>1, <2>2, <1>4
<1>6. DraftsTyped'
  BY <1>1, <1>2, <1>4, <1>5 DEF DraftsTyped
<1>7. LinesOnce'
  BY <1>1, <1>2, <1>4 DEF LinesOnce
<1>8. \A c : LinesOf(lines', c) = LinesOf(lines, c)
  BY <1>2, <1>4 DEF LinesOf
<1>9. OneLineUnlessAsked'
  <2>1. ASSUME NEW c \in ChargeSet \ GoAgain', NEW j \in LinesOf(lines, c)
        PROVE  lines'[j].included
    <3>1. c \notin GoAgain /\ lines[j].included /\ j \in DOMAIN lines /\ lines[j].tx = c
      BY <1>1, <2>1 DEF OneLineUnlessAsked, LinesOf
    <3>2. CASE j = i
      <4>1. included
        BY <1>1, <2>1, <3>1, <3>2
      <4> QED
        BY <4>1, <3>2, <1>3
    <3>3. CASE j # i
      BY <3>1, <3>3, <1>4
    <3> QED
      BY <3>2, <3>3
  <2>2. \A c \in ChargeSet \ GoAgain' : c \in ChargeSet \ GoAgain
    BY <1>1
  <2> QED
    BY <1>1, <1>8, <2>1, <2>2 DEF OneLineUnlessAsked
<1>10. SentFromLines'
  <2>1. \A c : c \notin GoAgain' => c \notin GoAgain
    BY <1>1
  <2> QED
    BY <1>1, <1>2, <1>4, <2>1 DEF SentFromLines
<1> QED
  BY <1>6, <1>7, <1>9, <1>10 DEF DraftsInv

LEMMA DraftsSend ==
    ASSUME DraftsInv, NEW d \in DOMAIN drafts, Send(d)
    PROVE  DraftsInv'
<1>1. /\ DraftsTyped /\ LinesOnce /\ OneLineUnlessAsked /\ SentFromLines
      /\ drafts' = [drafts EXCEPT ![d] = "sent"]
      /\ sent' = sent \cup {[tx |-> lines[i].tx, snapshot |-> d] : i \in EntriesOf(d)}
      /\ UNCHANGED <<lines, adding, shown>> /\ GoAgain' = GoAgain
  BY DEF DraftsInv, Send, GoAgain
<1>2. /\ drafts' \in Seq(Statuses) /\ Len(drafts') = Len(drafts)
      /\ DOMAIN drafts' = DOMAIN drafts /\ drafts'[d] = "sent"
      /\ \A e \in DOMAIN drafts : drafts[e] = "sent" => drafts'[e] = "sent"
  BY <1>1 DEF DraftsTyped, Statuses
<1>3. ASSUME NEW e \in sent', e \notin sent
      PROVE  /\ e = [tx |-> e.tx, snapshot |-> e.snapshot] /\ e.snapshot = d
             /\ e.tx \in Billable
             /\ \E i \in DOMAIN lines : lines[i].tx = e.tx /\ lines[i].draft = d
  <2>1. PICK i \in EntriesOf(d) : e = [tx |-> lines[i].tx, snapshot |-> d]
    BY <1>1, <1>3
  <2>2. i \in DOMAIN lines /\ lines[i].draft = d
    BY DEF EntriesOf
  <2>3. lines[i] \in DraftLines
    BY <1>1, <2>2 DEF DraftsTyped
  <2> QED
    BY <2>1, <2>2, <2>3 DEF DraftLines
<1>4. DraftsTyped'
  <2>1. \A e \in sent' : /\ e = [tx |-> e.tx, snapshot |-> e.snapshot]
                         /\ e.tx \in Billable
                         /\ e.snapshot \in DOMAIN drafts'
                         /\ drafts'[e.snapshot] = "sent"
    BY <1>1, <1>2, <1>3 DEF DraftsTyped
  <2> QED
    BY <1>1, <1>2, <2>1 DEF DraftsTyped
<1>5. LinesOnce'
  BY <1>1 DEF LinesOnce
<1>6. OneLineUnlessAsked'
  BY <1>1 DEF OneLineUnlessAsked, LinesOf
<1>7. SentFromLines'
  <2>1. ASSUME NEW e \in sent', e.tx \notin GoAgain
        PROVE  \E i \in DOMAIN lines : lines[i].tx = e.tx /\ lines[i].draft = e.snapshot
    BY <1>1, <1>3, <2>1 DEF SentFromLines
  <2> QED
    BY <1>1, <2>1 DEF SentFromLines
<1> QED
  BY <1>4, <1>5, <1>6, <1>7 DEF DraftsInv

LEMMA DraftsSetStatus ==
    ASSUME DraftsInv, NEW d \in DOMAIN drafts, NEW status \in Unsent, SetStatus(d, status)
    PROVE  DraftsInv'
<1>1. /\ DraftsTyped /\ LinesOnce /\ OneLineUnlessAsked /\ SentFromLines
      /\ drafts[d] # "sent"
      /\ drafts' = [drafts EXCEPT ![d] = status]
      /\ UNCHANGED <<lines, adding, sent, shown>> /\ GoAgain' = GoAgain
  BY DEF DraftsInv, SetStatus, Unsent, GoAgain
<1>2. /\ drafts' \in Seq(Statuses) /\ Len(drafts') = Len(drafts)
      /\ DOMAIN drafts' = DOMAIN drafts
      /\ \A e \in DOMAIN drafts : drafts[e] = "sent" => drafts'[e] = "sent"
  BY <1>1 DEF DraftsTyped, Statuses
<1>3. DraftsTyped'
  BY <1>1, <1>2 DEF DraftsTyped
<1>4. LinesOnce' /\ SentFromLines'
  BY <1>1 DEF LinesOnce, SentFromLines
<1>5. OneLineUnlessAsked'
  BY <1>1 DEF OneLineUnlessAsked, LinesOf
<1> QED
  BY <1>3, <1>4, <1>5 DEF DraftsInv

LEMMA DraftsShow ==
    ASSUME DraftsInv, NEW c \in ChargeSet, NEW show, Show(c, show)
    PROVE  DraftsInv'
<1>1. /\ DraftsTyped /\ LinesOnce /\ OneLineUnlessAsked /\ SentFromLines
      /\ shown' = [shown EXCEPT ![c] = show]
      /\ GoAgain' = IF show.status = "next_statement" THEN GoAgain \cup {c} ELSE GoAgain
      /\ UNCHANGED <<lines, drafts, adding, sent>>
  BY DEF DraftsInv, Show, drawn, GoAgain
<1>2. /\ DOMAIN shown' = ChargeSet /\ \A b : b \notin GoAgain' => b \notin GoAgain
      /\ \A b \in ChargeSet : shown'[b] = IF b = c THEN show ELSE shown[b]
  BY <1>1 DEF DraftsTyped
<1>3. DraftsTyped'
  BY <1>1, <1>2 DEF DraftsTyped
<1>4. LinesOnce'
  BY <1>1 DEF LinesOnce
<1>5. OneLineUnlessAsked'
  <2>1. \A b \in ChargeSet \ GoAgain' : b \in ChargeSet \ GoAgain
    BY <1>2
  <2>2. \A b \in ChargeSet \ GoAgain' : shown'[b].status # "next_statement"
    BY <1>1, <1>2 DEF OneLineUnlessAsked
  <2>3. \A b : LinesOf(lines', b) = LinesOf(lines, b)
    BY <1>1
  <2> QED
    BY <1>1, <2>1, <2>2, <2>3 DEF OneLineUnlessAsked
<1>6. SentFromLines'
  BY <1>1, <1>2 DEF SentFromLines
<1> QED
  BY <1>3, <1>4, <1>5, <1>6 DEF DraftsInv

LEMMA DraftsKept ==
    ASSUME DraftsInv, UNCHANGED <<drawn, shown, asked, misread>>
    PROVE  DraftsInv'
<1>1. /\ DraftsTyped /\ LinesOnce /\ OneLineUnlessAsked /\ SentFromLines
      /\ UNCHANGED <<lines, drafts, adding, sent, shown>> /\ GoAgain' = GoAgain
  BY DEF DraftsInv, drawn, GoAgain
<1> QED
  BY <1>1 DEF DraftsInv, DraftsTyped, LinesOnce, OneLineUnlessAsked, LinesOf, SentFromLines

-----------------------------------------------------------------------------
(* The invariant.                                                          *)
LEMMA BillingInit == Init => BillingInv
BY AllocInit, DraftsInit DEF BillingInv

LEMMA BillingStep == BillingInv /\ [Next]_vars => BillingInv'
<1> SUFFICES ASSUME BillingInv, [Next]_vars PROVE BillingInv'
  OBVIOUS
<1>1. AllocInv /\ DraftsInv
  BY DEF BillingInv
<1>2. CASE CreateDraft
  BY <1>1, <1>2, AllocKept, DraftsCreateDraft DEF CreateDraft, BillingInv
<1>3. CASE AddLine
  BY <1>1, <1>3, AllocKept, DraftsAddLine DEF AddLine, BillingInv
<1>4. CASE AddLineFails
  BY <1>1, <1>4, AllocKept, DraftsAddLineFails DEF AddLineFails, BillingInv
<1>5. CASE NextDay
  BY <1>1, <1>5, AllocKept, DraftsKept DEF NextDay, BillingInv
<1>14. ASSUME NEW d \in DOMAIN drafts, NEW status \in Unsent, SetStatus(d, status)
       PROVE  BillingInv'
  BY <1>1, <1>14, AllocKept, DraftsSetStatus DEF SetStatus, BillingInv
<1>6. ASSUME NEW i \in DOMAIN lines, RemoveLine(i) PROVE BillingInv'
  BY <1>1, <1>6, AllocKept, DraftsRemoveLine DEF RemoveLine, BillingInv
<1>7. ASSUME NEW i \in DOMAIN lines, NEW b \in BOOLEAN, Toggle(i, b) PROVE BillingInv'
  BY <1>1, <1>7, AllocKept, DraftsToggle DEF Toggle, BillingInv
<1>8. ASSUME NEW d \in DOMAIN drafts, Send(d) PROVE BillingInv'
  BY <1>1, <1>8, AllocKept, DraftsSend DEF Send, BillingInv
<1>9. ASSUME NEW c \in ChargeSet, NEW show \in Shows, Show(c, show) PROVE BillingInv'
  BY <1>1, <1>9, AllocKept, DraftsShow DEF Show, BillingInv
<1>10. ASSUME NEW k \in Clerks, NEW p \in Payments, ReadForFifo(k, p) PROVE BillingInv'
  BY <1>1, <1>10, AllocReadForFifo, DraftsKept DEF ReadForFifo, Starts, BillingInv
<1>11. ASSUME NEW k \in Clerks, NEW p \in Payments, NEW c \in ChargeSet,
              NEW amount \in 1..Money[p], ReadForSlice(k, p, c, amount)
       PROVE  BillingInv'
  BY <1>1, <1>11, AllocReadForSlice, DraftsKept DEF ReadForSlice, Starts, BillingInv
<1>12. ASSUME NEW k \in Clerks, Commit(k) PROVE BillingInv'
  BY <1>1, <1>12, AllocCommit, DraftsKept DEF Commit, BillingInv
<1>13. CASE UNCHANGED vars
  BY <1>1, <1>13, AllocKept, DraftsKept DEF vars, drawn, BillingInv
<1> QED
  BY <1>2, <1>3, <1>4, <1>5, <1>6, <1>7, <1>8, <1>9, <1>10, <1>11, <1>12, <1>13, <1>14 DEF Next

LEMMA BillingInvariant == Spec => []BillingInv
BY BillingInit, BillingStep, PTL DEF Spec

(* Only a commit changes the slices.                                       *)
LEMMA OnlyCommits ==
    ASSUME [Next]_vars, alloc' # alloc
    PROVE  \E k \in Clerks : Commit(k)
BY DEF Next, vars, CreateDraft, AddLine, AddLineFails, NextDay, RemoveLine, Toggle, Send, SetStatus,
       Show, ReadForFifo, ReadForSlice, Starts

-----------------------------------------------------------------------------
(* Types, and what is on a draft or was sent.                              *)
LEMMA BillingTypes == BillingInv => TypeOK
<1> SUFFICES ASSUME BillingInv PROVE TypeOK
  OBVIOUS
<1>1. DraftsTyped /\ alloc \in [Payments -> [ChargeSet -> Nat]]
  BY DEF BillingInv, AllocInv, DraftsInv, Slices
<1>2. ASSUME NEW i \in DOMAIN lines
      PROVE  /\ lines[i].draft \in DOMAIN drafts
             /\ ~Row[lines[i].tx].contractValue
             /\ ~Row[lines[i].tx].tracking
             /\ lines[i].amount \in Nat
  <2>1. lines[i] \in DraftLines /\ lines[i].draft \in DOMAIN drafts
    BY <1>1 DEF DraftsTyped
  <2>2. lines[i].tx \in Billable /\ lines[i].amount \in Nat
    BY <2>1 DEF DraftLines
  <2> QED
    BY <2>1, <2>2, BillableRows
<1>3. adding # None => adding.draft = Len(drafts) /\ adding.rest # <<>>
  BY <1>1 DEF DraftsTyped
<1>4. \A e \in sent : e.tx \in Billable /\ drafts[e.snapshot] = "sent"
  BY <1>1 DEF DraftsTyped
<1> QED
  BY <1>1, <1>2, <1>3, <1>4 DEF TypeOK

(* Every state of the billing of a series is well formed: the lines of a    *)
(* draft are of rows that are billed, a contract value or a tracking row    *)
(* never is, and what was sent is of a draft that was sent.                *)
THEOREM BillingTypeCorrect == Spec => []TypeOK
BY BillingInvariant, BillingTypes, PTL

(* allocate_payment and fifo_allocate_payment: unless two calls    *)
(* overlapped, no charge and no payment has more slices than its amount.    *)
THEOREM AllocationsAlwaysFit == Spec => []AllocationsFit
<1>1. BillingInv => AllocationsFit
  BY DEF BillingInv, AllocInv, AllFit, AllocationsFit
<1> QED
  BY <1>1, BillingInvariant, PTL

(* planNextDraftLines and addDraftLinesAction: no draft, whatever was added,  *)
(* excluded, removed or left half done, has a transaction twice.            *)
THEOREM DraftsCanAlwaysBeSent == Spec => []DraftsCanBeSent
<1>1. BillingInv => DraftsCanBeSent
  BY DEF BillingInv, DraftsInv, LinesOnce, DraftsCanBeSent, EntriesOf
<1> QED
  BY <1>1, BillingInvariant, PTL

(* planNextDraftLines and send_statement: a charge goes out on two           *)
(* statements only when somebody excluded it or asked to have it on the      *)
(* next, or a read of its lines failed while the second was planned.        *)
THEOREM ChargesAreSentOnce == Spec => []SentOnce
<1>1. ASSUME BillingInv, NEW e \in sent, NEW f \in sent, e.tx = f.tx, e.tx \notin GoAgain
      PROVE  e = f
  <2>1. DraftsTyped /\ OneLineUnlessAsked /\ SentFromLines
    BY <1>1 DEF BillingInv, DraftsInv
  <2>2. PICK i \in DOMAIN lines : lines[i].tx = e.tx /\ lines[i].draft = e.snapshot
    BY <2>1, <1>1 DEF SentFromLines
  <2>3. PICK j \in DOMAIN lines : lines[j].tx = f.tx /\ lines[j].draft = f.snapshot
    BY <2>1, <1>1 DEF SentFromLines
  <2>4. e.tx \in ChargeSet \ GoAgain
    BY <2>1, <1>1 DEF DraftsTyped, Billable
  <2>5. i \in LinesOf(lines, e.tx) /\ j \in LinesOf(lines, e.tx)
    BY <2>2, <2>3, <1>1 DEF LinesOf
  <2>6. i = j
    BY <2>1, <2>4, <2>5 DEF OneLineUnlessAsked
  <2>7. e = [tx |-> e.tx, snapshot |-> e.snapshot] /\ f = [tx |-> f.tx, snapshot |-> f.snapshot]
    BY <2>1 DEF DraftsTyped
  <2> QED
    BY <2>2, <2>3, <2>6, <2>7, <1>1
<1>2. BillingInv => SentOnce
  BY <1>1 DEF SentOnce, GoAgain
<1> QED
  BY <1>2, BillingInvariant, PTL

(* No state of payment is None, as a model value is no state of payment.   *)
NoneIsNotPaid == None # "paid"

(* planNextDraftLines: a charge of a planned period that is owed is on a    *)
(* draft or a sent statement, held back, or on the next plan, also when the  *)
(* lines of its own period were not all added, and whichever reads the plan *)
(* is made without.                                                        *)
THEOREM NothingOwedIsEverDropped ==
    ASSUME NoneIsNotPaid PROVE Spec => []NothingOwedIsDropped
<1> DEFINE next == Len(drafts) + 1
<1>1. ASSUME BillingInv, NEW c \in Billable, Period[c] < next,
             Paid(alloc, c) < Amount[c], ~OnAStatement(c),
             shown[c].status # "internal_only",
             ~(shown[c].status = "defer_until_date" /\ day < shown[c].until),
             NEW seen \in SUBSET Reads
      PROVE  c \in PlannedBy(seen, next) \cup BlockingBy(seen, next)
  <2> DEFINE ls == LinesRead(seen)
             st == EntriesRead(seen)
             a == SlicesRead(seen)
             plan == PlanLines(ls, st, a, shown, day, next)
             open == Reproposed(ls, st, a, shown, day, next)
  <2>1. /\ alloc \in Slices /\ lines \in Seq(DraftLines) /\ c \in ChargeSet
        /\ Len(drafts) \in Nat
    BY <1>1 DEF BillingInv, AllocInv, DraftsInv, DraftsTyped, Billable
  <2>2. /\ a \in Slices /\ ls \in Seq(DraftLines) /\ (ls = <<>> \/ ls = lines)
        /\ a = Nothing \/ a = alloc
    BY <2>1, Readings
  <2> HIDE DEF ls, st, a
  <2>3. /\ Paid(a, c) \in Nat /\ Paid(a, c) < Amount[c]
        /\ Amount[c] \in Nat /\ Period[c] \in Nat
        /\ Period[c] <= next /\ Period[c] # next
    <3>1. Paid(a, c) \in Nat /\ Amount[c] > 0
      BY <2>1, <2>2, SlicesAddUp, Amounts
    <3>2. Paid(Nothing, c) = 0
      <4>1. \A p \in 1..NumPayments : [q \in Payments |-> Nothing[q][c]][p] = 0
        BY <2>1 DEF Payments, Nothing
      <4> QED
        BY <4>1, Amounts, SumOfZeros DEF Paid
    <3> QED
      BY <3>1, <3>2, <2>1, <2>2, <1>1, Amounts
  <2>4. OpenBilling(BillingState(ls, st, c))
    <3>1. CASE LinesOf(ls, c) = {}
      BY <3>1 DEF BillingState, OpenBilling
    <3>2. CASE LinesOf(ls, c) # {}
      <4>1. Max(LinesOf(ls, c)) \in LinesOf(ls, c)
        BY <3>2, <2>2, LastLine
      <4>2. ls = lines
        BY <2>2, <3>2 DEF LinesOf
      <4>3. ~ls[Max(LinesOf(ls, c))].included
        BY <4>1, <4>2, <1>1 DEF OnAStatement, LinesOf
      <4> QED
        BY <3>2, <4>3 DEF BillingState, OpenBilling
    <3> QED
      BY <3>1, <3>2
  <2>5. PaymentState(ls, st, a, c) # "paid"
    BY <2>3, NoneIsNotPaid DEF PaymentState, NoneIsNotPaid
  <2>6. c \in open
    BY <1>1, <2>3, <2>4, <2>5 DEF Reproposed, Disposition
  <2>7. CASE Remaining(ls, st, a, c) = None
    BY <2>3, <2>6, <2>7 DEF Unresolved, BlockingBy, ls, st, a
  <2>8. CASE Remaining(ls, st, a, c) # None
    <3>1. \E i \in DOMAIN plan : plan[i].tx = c
      BY <2>2, <2>6, <2>8, OnThePlan
    <3> QED
      BY <3>1 DEF ToSet, PlannedBy, PlanBy, ls, st, a
  <2> QED
    BY <2>7, <2>8
<1>2. BillingInv => NothingOwedIsDropped
  BY <1>1 DEF NothingOwedIsDropped
<1> QED
  BY <1>2, BillingInvariant, PTL

-----------------------------------------------------------------------------
(* allocate_payment and fifo_allocate_payment: what is paid of a   *)
(* charge falls below its amount only by a slice somebody replaced by hand  *)
(* or by calls that overlapped.                                            *)
THEOREM PaidChargesStayPaid == Spec => PaidStaysPaid
<1> DEFINE Reopened(c) == Paid(alloc, c) >= Amount[c] /\ Paid(alloc', c) < Amount[c]
           Excused(c) ==
               \E k \in Clerks :
                   /\ CommittedBy(k)
                   /\ calls[k].stale \/ (calls[k].kind = "manual" /\ c \in DOMAIN calls[k].slices)
<1>1. ASSUME BillingInv, [Next]_vars, alloc' # alloc, NEW c \in ChargeSet, Reopened(c)
      PROVE  Excused(c)
  <2>1. PICK k \in Clerks : Commit(k)
    BY <1>1, OnlyCommits
  <2>2. AllocInv /\ alloc \in Slices
    BY <1>1 DEF BillingInv, AllocInv
  <2> DEFINE call == calls[k]
  <2>3. /\ call # None /\ CallTyped(call)
        /\ alloc' = Written(alloc, call) /\ alloc' \in Slices
        /\ calls'[k] = None
    BY <2>1, <2>2, CommitWrites
  <2>4. CommittedBy(k)
    BY <2>3 DEF CommittedBy
  <2>5. c \in DOMAIN call.slices
    <3>1. c \notin DOMAIN call.slices => Paid(alloc', c) = Paid(alloc, c)
      BY <2>2, <2>3, PaidAfter
    <3>2. Paid(alloc, c) \in Nat /\ Amount[c] \in Nat
      BY <2>2, SlicesAddUp, Amounts
    <3> QED
      BY <1>1, <3>1, <3>2
  <2>6. call.stale \/ call.kind = "manual"
    <3>1. ASSUME ~call.stale, call.kind # "manual" PROVE FALSE
      <4>1. CallFits(alloc, call)
        BY <2>2, <2>3, <3>1 DEF AllocInv
      <4>2. Paid(alloc, c) < Amount[c]
        BY <3>1, <4>1, <2>5 DEF CallFits
      <4>3. Paid(alloc, c) \in Nat /\ Amount[c] \in Nat
        BY <2>2, SlicesAddUp, Amounts
      <4> QED
        BY <1>1, <4>2, <4>3
    <3> QED
      BY <3>1
  <2> QED
    BY <2>4, <2>5, <2>6
<1>2. BillingInv /\ [Next]_vars => [\A c \in ChargeSet : Reopened(c) => Excused(c)]_alloc
  BY <1>1
<1>3. Spec => [][\A c \in ChargeSet : Reopened(c) => Excused(c)]_alloc
  BY <1>2, BillingInvariant, PTL DEF Spec
<1> QED
  BY <1>3 DEF PaidStaysPaid
=============================================================================
