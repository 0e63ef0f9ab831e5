-------------------------- MODULE GameItemsProofs --------------------------
(***************************************************************************)
(* GameItems, for any clients, kinds of items, sizes of inventories, banks *)
(* and stacks, and any inventories to start from: the stores keep their    *)
(* form, and the items add up.                                             *)
(*                                                                         *)
(* A sum is the number of elements of a finite set (Units), so that what   *)
(* one more item, one less or another number does to it follows from facts *)
(* about cardinalities (SumSplit, SumChange), without induction.           *)
(*                                                                         *)
(* The invariant Inv adds to the types what the books need: nothing on the *)
(* floor is more than a stack holds, so that it fits where there is room   *)
(* for it, and what a careful player still has to pay for a split is there *)
(* and stays there until it does (Payable), although others may give it    *)
(* things meanwhile.  BooksOK says of every kind by how much what there is *)
(* differs from what is due and owed: a handler about one player moves it  *)
(* by what it does to that player's part (Balanced, StepKeeps), and a      *)
(* trade is two such changes (TwoKeep).                                    *)
(***************************************************************************)
EXTENDS GameItems, FiniteSetTheorems, SequenceTheorems, TLAPS

-----------------------------------------------------------------------------
(* Sums.                                                                   *)

\* f without x.
Rest(f, x) == [y \in DOMAIN f \ {x} |-> f[y]]

LEMMA UnitsIn ==
    ASSUME NEW S, NEW f \in [S -> Nat]
    PROVE  \A u : u \in Units(f) <=> \E x \in S : \E i \in 1 .. f[x] : u = <<x, i>>
BY DEF Units

LEMMA UnitsFinite ==
    ASSUME NEW S, IsFiniteSet(S), NEW f \in [S -> Nat]
    PROVE  IsFiniteSet(Units(f)) /\ SumOf(f) \in Nat
<1>. DEFINE T == {{x} \X (1 .. f[x]) : x \in S}
            g == [x \in S |-> {x} \X (1 .. f[x])]
<1>1. g \in Surjection(S, T)
    BY DEF Surjection
<1>2. IsFiniteSet(T)
    BY <1>1, FS_Surjection
<1>3. \A x \in S : IsFiniteSet({x} \X (1 .. f[x]))
    <2>. SUFFICES ASSUME NEW x \in S PROVE IsFiniteSet({x} \X (1 .. f[x]))
        OBVIOUS
    <2>1. IsFiniteSet({x})
        BY FS_Singleton
    <2>2. IsFiniteSet(1 .. f[x])
        BY FS_Interval
    <2>. QED BY <2>1, <2>2, FS_Product
<1>4. IsFiniteSet(UNION T)
    BY <1>2, <1>3, FS_UNION
<1>5. Units(f) = UNION T
    BY DEF Units
<1>. QED BY <1>4, <1>5, FS_CardinalityType DEF SumOf

LEMMA SumNone ==
    ASSUME NEW f \in [{} -> Nat]
    PROVE  SumOf(f) = 0
<1>1. Units(f) = {}
    BY DEF Units
<1>. QED BY <1>1, FS_EmptySet DEF SumOf

LEMMA SumSplit ==
    ASSUME NEW S, IsFiniteSet(S), NEW f \in [S -> Nat], NEW x \in S
    PROVE  SumOf(f) = f[x] + SumOf(Rest(f, x)) /\ SumOf(Rest(f, x)) \in Nat
<1>. DEFINE g == Rest(f, x)
            here == {x} \X (1 .. f[x])
<1>1. IsFiniteSet(S \ {x}) /\ g \in [S \ {x} -> Nat]
    BY FS_RemoveElement DEF Rest
<1>2. IsFiniteSet(Units(g)) /\ SumOf(g) \in Nat
    BY <1>1, UnitsFinite
<1>3. IsFiniteSet(here) /\ Cardinality(here) = f[x]
    <2>1. IsFiniteSet({x}) /\ Cardinality({x}) = 1
        BY FS_Singleton
    <2>2. IsFiniteSet(1 .. f[x]) /\ Cardinality(1 .. f[x]) = f[x]
        BY FS_Interval
    <2>3. Cardinality(here) = Cardinality({x}) * Cardinality(1 .. f[x])
        BY <2>1, <2>2, FS_Product
    <2>4. IsFiniteSet(here)
        BY <2>1, <2>2, FS_Product
    <2>. HIDE DEF here
    <2>5. Cardinality(here) = 1 * f[x]
        BY <2>1, <2>2, <2>3
    <2>. QED BY <2>4, <2>5
<1>4. Units(f) = here \cup Units(g)
    <2>1. \A u \in Units(f) : u \in here \cup Units(g)
        <3>. SUFFICES ASSUME NEW u \in Units(f) PROVE u \in here \cup Units(g)
            OBVIOUS
        <3>1. PICK y \in S : \E i \in 1 .. f[y] : u = <<y, i>>
            BY UnitsIn
        <3>2. PICK i \in 1 .. f[y] : u = <<y, i>>
            BY <3>1
        <3>3. CASE y = x
            BY <3>2, <3>3
        <3>4. CASE y # x
            <4>1. y \in S \ {x} /\ g[y] = f[y]
                BY <3>4 DEF Rest
            <4>. HIDE DEF g
            <4>. QED BY <1>1, <3>2, <4>1, UnitsIn
        <3>. QED BY <3>3, <3>4
    <2>2. \A u \in Units(g) : u \in Units(f)
        <3>. SUFFICES ASSUME NEW u \in Units(g) PROVE u \in Units(f)
            OBVIOUS
        <3>1. PICK y \in S \ {x} : \E i \in 1 .. g[y] : u = <<y, i>>
            BY <1>1, UnitsIn
        <3>2. g[y] = f[y]
            BY DEF Rest
        <3>. QED BY <3>1, <3>2, UnitsIn
    <2>3. \A u \in here : u \in Units(f)
        <3>. SUFFICES ASSUME NEW u \in here PROVE u \in Units(f)
            OBVIOUS
        <3>1. PICK i \in 1 .. f[x] : u = <<x, i>>
            OBVIOUS
        <3>. QED BY <3>1, UnitsIn
    <2>. QED BY <2>1, <2>2, <2>3
<1>5. here \cap Units(g) = {}
    <2>1. \A u \in Units(g) : u \notin here
        <3>. SUFFICES ASSUME NEW u \in Units(g), u \in here PROVE FALSE
            OBVIOUS
        <3>1. PICK y \in S \ {x} : \E i \in 1 .. g[y] : u = <<y, i>>
            BY <1>1, UnitsIn
        <3>2. PICK i \in 1 .. f[x] : u = <<x, i>>
            OBVIOUS
        <3>. QED BY <3>1, <3>2
    <2>. QED BY <2>1
<1>. HIDE DEF g, here
<1>6. Cardinality(Units(f)) = Cardinality(here) + Cardinality(Units(g)) - 0
    BY <1>2, <1>3, <1>4, <1>5, FS_Union, FS_EmptySet
<1>. QED BY <1>2, <1>3, <1>6 DEF SumOf, g

\* A sum changes by what one of its parts changes by.
LEMMA SumChange ==
    ASSUME NEW S, IsFiniteSet(S), NEW f \in [S -> Nat], NEW g \in [S -> Nat], NEW x \in S,
           \A y \in S : y # x => g[y] = f[y]
    PROVE  SumOf(g) = SumOf(f) - f[x] + g[x]
<1>1. Rest(f, x) = Rest(g, x)
    BY DEF Rest
<1>2. /\ SumOf(f) = f[x] + SumOf(Rest(f, x)) /\ SumOf(Rest(f, x)) \in Nat
      /\ SumOf(g) = g[x] + SumOf(Rest(g, x))
    BY SumSplit
<1>. QED BY <1>1, <1>2

\* It does not matter what the parts are called.
LEMMA SumRenamed ==
    ASSUME NEW S, IsFiniteSet(S), NEW f \in [S -> Nat],
           NEW T, NEW g \in [T -> Nat],
           NEW b \in Bijection(S, T), \A x \in S : g[b[x]] = f[x]
    PROVE  SumOf(g) = SumOf(f)
<1>. DEFINE m == [u \in Units(f) |-> <<b[u[1]], u[2]>>]
<1>1. /\ b \in [S -> T]
      /\ \A x, y \in S : b[x] = b[y] => x = y
      /\ \A z \in T : \E x \in S : b[x] = z
    BY DEF Bijection, Injection, Surjection, IsInjective
<1>2. \A u \in Units(f) : m[u] \in Units(g)
    <2>. SUFFICES ASSUME NEW u \in Units(f) PROVE m[u] \in Units(g)
        OBVIOUS
    <2>1. PICK x \in S : \E i \in 1 .. f[x] : u = <<x, i>>
        BY UnitsIn
    <2>2. PICK i \in 1 .. f[x] : u = <<x, i>>
        BY <2>1
    <2>3. m[u] = <<b[x], i>>
        BY <2>2
    <2>4. b[x] \in T /\ i \in 1 .. g[b[x]]
        BY <1>1
    <2>. HIDE DEF m
    <2>. QED BY <2>3, <2>4, UnitsIn
<1>3. \A u, v \in Units(f) : m[u] = m[v] => u = v
    <2>. SUFFICES ASSUME NEW u \in Units(f), NEW v \in Units(f), m[u] = m[v] PROVE u = v
        OBVIOUS
    <2>1. PICK x \in S : \E i \in 1 .. f[x] : u = <<x, i>>
        BY UnitsIn
    <2>2. PICK y \in S : \E i \in 1 .. f[y] : v = <<y, i>>
        BY UnitsIn
    <2>3. PICK i, j : u = <<x, i>> /\ v = <<y, j>>
        BY <2>1, <2>2
    <2>4. m[u] = <<b[x], i>> /\ m[v] = <<b[y], j>>
        BY <2>3
    <2>5. b[x] = b[y] /\ i = j
        <3>1. <<b[x], i>> = <<b[y], j>>
            BY <2>4
        <3>. QED BY <3>1
    <2>. QED BY <1>1, <2>3, <2>5
<1>4. \A w \in Units(g) : \E u \in Units(f) : m[u] = w
    <2>. SUFFICES ASSUME NEW w \in Units(g) PROVE \E u \in Units(f) : m[u] = w
        OBVIOUS
    <2>1. PICK z \in T : \E i \in 1 .. g[z] : w = <<z, i>>
        BY UnitsIn
    <2>2. PICK i \in 1 .. g[z] : w = <<z, i>>
        BY <2>1
    <2>3. PICK x \in S : b[x] = z
        BY <1>1
    <2>4. i \in 1 .. f[x]
        BY <2>2, <2>3
    <2>5. <<x, i>> \in Units(f)
        BY <2>4, UnitsIn
    <2>6. m[<<x, i>>] = w
        BY <2>2, <2>3, <2>5
    <2>. HIDE DEF m
    <2>. QED BY <2>5, <2>6
<1>5. m \in Bijection(Units(f), Units(g))
    <2>1. m \in [Units(f) -> Units(g)]
        BY <1>2
    <2>. HIDE DEF m
    <2>. QED BY <1>3, <1>4, <2>1 DEF Bijection, Injection, Surjection, IsInjective
<1>6. ExistsBijection(Units(f), Units(g))
    <2>. HIDE DEF m
    <2>. QED BY <1>5 DEF ExistsBijection
<1>. QED BY <1>6, UnitsFinite, FS_Bijection DEF SumOf

-----------------------------------------------------------------------------
(* Amounts in a sequence of items.                                         *)

NumberOf(it, k) == IF it.kind = k THEN it.n ELSE 0

Parts(s, k) == [i \in DOMAIN s |-> IF s[i].kind = k THEN s[i].n ELSE 0]

LEMMA ItemNumber ==
    ASSUME NEW it \in Item, NEW k
    PROVE  NumberOf(it, k) \in Nat
BY DEF NumberOf, Item

LEMMA PartsType ==
    ASSUME NEW s \in Seq(Item), NEW k
    PROVE  /\ DOMAIN s = 1 .. Len(s) /\ Len(s) \in Nat /\ IsFiniteSet(DOMAIN s)
           /\ \A i \in DOMAIN s : s[i] \in Item
           /\ Parts(s, k) \in [DOMAIN s -> Nat]
           /\ \A i \in DOMAIN s : Parts(s, k)[i] = NumberOf(s[i], k)
           /\ Amount(s, k) = SumOf(Parts(s, k))
<1>1. DOMAIN s = 1 .. Len(s) /\ Len(s) \in Nat /\ \A i \in DOMAIN s : s[i] \in Item
    OBVIOUS
<1>2. IsFiniteSet(1 .. Len(s))
    BY <1>1, FS_Interval
<1>3. Parts(s, k) \in [DOMAIN s -> Nat]
    BY <1>1 DEF Parts, Item
<1>. QED BY <1>1, <1>2, <1>3 DEF Parts, NumberOf, Amount

LEMMA AmountType ==
    ASSUME NEW s \in Seq(Item), NEW k
    PROVE  Amount(s, k) \in Nat
BY PartsType, UnitsFinite

LEMMA AmountNone == \A k : Amount(<<>>, k) = 0
<1>. SUFFICES ASSUME NEW k PROVE Amount(<<>>, k) = 0
    OBVIOUS
<1>1. <<>> \in Seq(Item) /\ DOMAIN <<>> = {}
    OBVIOUS
<1>2. Parts(<<>>, k) \in [{} -> Nat] /\ Amount(<<>>, k) = SumOf(Parts(<<>>, k))
    BY <1>1, PartsType
<1>. QED BY <1>2, SumNone

\* Ids do not count.
LEMMA AmountSame ==
    ASSUME NEW s \in Seq(Item), NEW t \in Seq(Item), NEW k, Len(t) = Len(s),
           \A i \in 1 .. Len(s) : t[i].kind = s[i].kind /\ t[i].n = s[i].n
    PROVE  Amount(t, k) = Amount(s, k)
<1>1. DOMAIN t = 1 .. Len(s) /\ DOMAIN s = 1 .. Len(s)
    OBVIOUS
<1>2. Parts(t, k) = Parts(s, k)
    BY <1>1 DEF Parts
<1>. QED BY <1>2, PartsType

LEMMA AmountChange ==
    ASSUME NEW s \in Seq(Item), NEW t \in Seq(Item), NEW k, Len(t) = Len(s),
           NEW i \in 1 .. Len(s), \A j \in 1 .. Len(s) : j # i => t[j] = s[j]
    PROVE  Amount(t, k) = Amount(s, k) - NumberOf(s[i], k) + NumberOf(t[i], k)
<1>1. /\ DOMAIN s = 1 .. Len(s) /\ DOMAIN t = 1 .. Len(s) /\ IsFiniteSet(DOMAIN s)
      /\ Parts(s, k) \in [DOMAIN s -> Nat] /\ Parts(t, k) \in [DOMAIN s -> Nat]
      /\ \A j \in DOMAIN s : /\ Parts(s, k)[j] = NumberOf(s[j], k)
                             /\ Parts(t, k)[j] = NumberOf(t[j], k)
      /\ Amount(s, k) = SumOf(Parts(s, k)) /\ Amount(t, k) = SumOf(Parts(t, k))
    BY PartsType
<1>2. \A j \in DOMAIN s : j # i => Parts(t, k)[j] = Parts(s, k)[j]
    BY <1>1
<1>3. SumOf(Parts(t, k)) = SumOf(Parts(s, k)) - Parts(s, k)[i] + Parts(t, k)[i]
    <2>1. PICK S, f, g : S = DOMAIN s /\ f = Parts(s, k) /\ g = Parts(t, k)
        OBVIOUS
    <2>2. /\ IsFiniteSet(S) /\ f \in [S -> Nat] /\ g \in [S -> Nat] /\ i \in S
          /\ \A j \in S : j # i => g[j] = f[j]
        BY <1>1, <1>2, <2>1
    <2>3. SumOf(g) = SumOf(f) - f[i] + g[i]
        BY <2>2, SumChange, ZenonT(60)
    <2>. QED BY <2>1, <2>3
<1>4. Parts(s, k)[i] = NumberOf(s[i], k) /\ Parts(t, k)[i] = NumberOf(t[i], k)
    BY <1>1
<1>5. Amount(s, k) = SumOf(Parts(s, k)) /\ Amount(t, k) = SumOf(Parts(t, k))
    BY <1>1
<1>. QED BY <1>3, <1>4, <1>5

LEMMA AmountAppend ==
    ASSUME NEW s \in Seq(Item), NEW it \in Item, NEW k
    PROVE  Amount(Append(s, it), k) = Amount(s, k) + NumberOf(it, k)
<1>. DEFINE t == Append(s, it)
            n == Len(s) + 1
<1>1. /\ t \in Seq(Item) /\ DOMAIN t = 1 .. n /\ DOMAIN s = 1 .. (n - 1)
      /\ t[n] = it /\ n \in 1 .. n
      /\ \A i \in 1 .. (n - 1) : t[i] = s[i]
    OBVIOUS
<1>. HIDE DEF t
<1>2. Rest(Parts(t, k), n) = Parts(s, k)
    <2>1. DOMAIN Parts(t, k) = 1 .. n
        BY <1>1 DEF Parts
    <2>2. (1 .. n) \ {n} = 1 .. (n - 1)
        OBVIOUS
    <2>. QED BY <1>1, <2>1, <2>2 DEF Rest, Parts
<1>3. SumOf(Parts(t, k)) = Parts(t, k)[n] + SumOf(Parts(s, k)) /\ SumOf(Parts(s, k)) \in Nat
    <2>1. IsFiniteSet(DOMAIN t) /\ Parts(t, k) \in [DOMAIN t -> Nat] /\ n \in DOMAIN t
        BY <1>1, PartsType
    <2>2. /\ SumOf(Parts(t, k)) = Parts(t, k)[n] + SumOf(Rest(Parts(t, k), n))
          /\ SumOf(Rest(Parts(t, k), n)) \in Nat
        BY <2>1, SumSplit
    <2>. QED BY <1>2, <2>2
<1>4. Parts(t, k)[n] = NumberOf(it, k)
    BY <1>1, PartsType
<1>5. Amount(t, k) = SumOf(Parts(t, k)) /\ Amount(s, k) = SumOf(Parts(s, k))
    BY <1>1, PartsType
<1>6. NumberOf(it, k) \in Nat
    BY ItemNumber
<1>. QED BY <1>3, <1>4, <1>5, <1>6 DEF t

\* t is s without its i-th item.
Shorter(t, s, i) ==
    /\ Len(t) = Len(s) - 1
    /\ \A j \in 1 .. Len(t) : t[j] = IF j < i THEN s[j] ELSE s[j + 1]

LEMMA AmountShorter ==
    ASSUME NEW s \in Seq(Item), NEW t \in Seq(Item), NEW i \in 1 .. Len(s), NEW k,
           Shorter(t, s, i)
    PROVE  Amount(t, k) = Amount(s, k) - NumberOf(s[i], k)
<1>. DEFINE S == DOMAIN s \ {i}
            g == Rest(Parts(s, k), i)
            b == [j \in DOMAIN t |-> IF j < i THEN j ELSE j + 1]
<1>1. /\ DOMAIN s = 1 .. Len(s) /\ DOMAIN t = 1 .. Len(t) /\ Len(s) \in Nat
      /\ Len(t) = Len(s) - 1 /\ Len(t) \in Nat
    BY DEF Shorter
<1>2. b \in Bijection(DOMAIN t, S)
    <2>1. \A j \in DOMAIN t : b[j] \in S
        BY <1>1
    <2>2. \A x, y \in DOMAIN t : b[x] = b[y] => x = y
        BY <1>1
    <2>3. \A z \in S : \E j \in DOMAIN t : b[j] = z
        <3>. SUFFICES ASSUME NEW z \in S PROVE \E j \in DOMAIN t : b[j] = z
            OBVIOUS
        <3>1. CASE z < i
            <4>1. z \in DOMAIN t /\ b[z] = z
                BY <1>1, <3>1
            <4>. QED BY <4>1
        <3>2. CASE z > i
            <4>1. z - 1 \in DOMAIN t /\ b[z - 1] = z
                BY <1>1, <3>2
            <4>. QED BY <4>1
        <3>. QED BY <1>1, <3>1, <3>2
    <2>4. b \in [DOMAIN t -> S]
        BY <2>1
    <2>. HIDE DEF b, S
    <2>. QED BY <2>2, <2>3, <2>4 DEF Bijection, Injection, Surjection, IsInjective
<1>3. /\ Parts(s, k) \in [DOMAIN s -> Nat] /\ Parts(t, k) \in [DOMAIN t -> Nat]
      /\ IsFiniteSet(DOMAIN s) /\ IsFiniteSet(DOMAIN t)
      /\ Amount(s, k) = SumOf(Parts(s, k)) /\ Amount(t, k) = SumOf(Parts(t, k))
      /\ Parts(s, k)[i] = NumberOf(s[i], k)
    BY <1>1, PartsType
<1>4. g \in [S -> Nat]
    BY <1>3 DEF Rest
<1>5. \A j \in DOMAIN t : g[b[j]] = Parts(t, k)[j]
    <2>. SUFFICES ASSUME NEW j \in DOMAIN t PROVE g[b[j]] = Parts(t, k)[j]
        OBVIOUS
    <2>1. b[j] \in S /\ t[j] = s[b[j]]
        BY <1>1 DEF Shorter
    <2>2. g[b[j]] = Parts(s, k)[b[j]]
        BY <1>3, <2>1 DEF Rest
    <2>3. Parts(s, k)[b[j]] = Parts(t, k)[j]
        <3>. HIDE DEF b
        <3>. QED BY <2>1 DEF Parts
    <2>. QED BY <2>2, <2>3
<1>. HIDE DEF S, g, b
<1>6. SumOf(g) = SumOf(Parts(t, k))
    <2>1. PICK U, f : U = DOMAIN t /\ f = Parts(t, k)
        OBVIOUS
    <2>2. /\ IsFiniteSet(U) /\ f \in [U -> Nat] /\ b \in Bijection(U, S)
          /\ \A j \in U : g[b[j]] = f[j]
        BY <1>2, <1>3, <1>5, <2>1
    <2>3. SumOf(g) = SumOf(f)
        BY <1>4, <2>2, SumRenamed
    <2>. QED BY <2>1, <2>3
<1>7. SumOf(Parts(s, k)) = Parts(s, k)[i] + SumOf(g) /\ SumOf(g) \in Nat
    BY <1>1, <1>3, SumSplit DEF g
<1>8. NumberOf(s[i], k) \in Nat
    BY <1>1, ItemNumber, PartsType
<1>. QED BY <1>3, <1>6, <1>7, <1>8

LEMMA Removed ==
    ASSUME NEW s \in Seq(Item), NEW i \in 1 .. Len(s)
    PROVE  RemoveAt(s, i) \in Seq(Item) /\ Shorter(RemoveAt(s, i), s, i)
<1>. DEFINE a == SubSeq(s, 1, i - 1)
            c == SubSeq(s, i + 1, Len(s))
<1>1. /\ a \in Seq(Item) /\ Len(a) = i - 1
      /\ \A j \in 1 .. (i - 1) : a[j] = s[j]
    <2>1. 1 \in Int /\ i - 1 \in Int /\ \A j \in 1 .. (i - 1) : s[j] \in Item
        OBVIOUS
    <2>. QED BY <2>1, SubSeqProperties
<1>2. /\ c \in Seq(Item) /\ Len(c) = Len(s) - i
      /\ \A j \in 1 .. (Len(s) - i) : c[j] = s[i + j]
    <2>1. i + 1 \in Int /\ Len(s) \in Int /\ \A j \in (i + 1) .. Len(s) : s[j] \in Item
        OBVIOUS
    <2>. QED BY <2>1, SubSeqProperties
<1>. HIDE DEF a, c
<1>3. /\ a \o c \in Seq(Item) /\ Len(a \o c) = Len(s) - 1
      /\ \A j \in 1 .. (Len(s) - 1) : (a \o c)[j] = IF j <= i - 1 THEN a[j] ELSE c[j - (i - 1)]
    <2>1. /\ a \o c \in Seq(Item) /\ Len(a \o c) = Len(a) + Len(c)
          /\ \A j \in 1 .. Len(a) + Len(c) :
               (a \o c)[j] = IF j <= Len(a) THEN a[j] ELSE c[j - Len(a)]
        BY <1>1, <1>2, ConcatProperties
    <2>2. Len(a) + Len(c) = Len(s) - 1
        BY <1>1, <1>2
    <2>. QED BY <1>1, <2>1, <2>2
<1>4. \A j \in 1 .. (Len(s) - 1) : (a \o c)[j] = IF j < i THEN s[j] ELSE s[j + 1]
    BY <1>1, <1>2, <1>3
<1>5. RemoveAt(s, i) = a \o c
    BY DEF RemoveAt, a, c
<1>. QED BY <1>3, <1>4, <1>5 DEF Shorter

LEMMA Consed ==
    ASSUME NEW s \in Seq(Item), NEW it \in Item
    PROVE  /\ Cons(it, s) \in Seq(Item)
           /\ Cons(it, s)[1] = it /\ Len(Cons(it, s)) = Len(s) + 1
           /\ Shorter(s, Cons(it, s), 1)
<1>1. /\ <<it>> \in Seq(Item) /\ Len(<<it>>) = 1 /\ <<it>>[1] = it
      /\ Len(s) \in Nat
    OBVIOUS
<1>2. /\ <<it>> \o s \in Seq(Item) /\ Len(<<it>> \o s) = 1 + Len(s)
      /\ \A i \in 1 .. 1 + Len(s) : (<<it>> \o s)[i] = IF i <= 1 THEN <<it>>[i] ELSE s[i - 1]
    BY <1>1, ConcatProperties
<1>. QED BY <1>1, <1>2 DEF Cons, Shorter

LEMMA AmountCons ==
    ASSUME NEW s \in Seq(Item), NEW it \in Item, NEW k
    PROVE  Amount(Cons(it, s), k) = Amount(s, k) + NumberOf(it, k)
<1>. DEFINE t == Cons(it, s)
<1>1. t \in Seq(Item) /\ t[1] = it /\ Len(t) = Len(s) + 1 /\ Shorter(s, t, 1)
    BY Consed
<1>. HIDE DEF t
<1>2. Amount(s, k) = Amount(t, k) - NumberOf(t[1], k)
    BY <1>1, AmountShorter
<1>3. Amount(s, k) \in Nat /\ Amount(t, k) \in Nat /\ NumberOf(it, k) \in Nat
    BY <1>1, AmountType, ItemNumber
<1>. QED BY <1>1, <1>2, <1>3 DEF t

LEMMA AmountRemoved ==
    ASSUME NEW s \in Seq(Item), NEW i \in 1 .. Len(s), NEW k
    PROVE  Amount(RemoveAt(s, i), k) = Amount(s, k) - NumberOf(s[i], k)
BY Removed, AmountShorter

-----------------------------------------------------------------------------
(* Searches.                                                               *)

LEMMA SmallestIs ==
    ASSUME NEW S \in SUBSET Nat, S # {}
    PROVE  Smallest(S) \in S /\ \A y \in S : Smallest(S) <= y
<1>. DEFINE Less == OpToRel(<, Nat)
<1>1. IsWellFoundedOn(Less, Nat)
    BY NatLessThanWellFounded
<1>2. \A x, y \in Nat : y < x => <<y, x>> \in Less
    BY DEF OpToRel
<1>. HIDE DEF Less
<1>3. PICK x \in S : \A y \in S : ~ (<<y, x>> \in Less)
    BY <1>1, WFMin
<1>4. ASSUME NEW y \in S PROVE x <= y
    <2>1. x \in Nat /\ y \in Nat
        OBVIOUS
    <2>2. ~(y < x)
        BY <1>2, <1>3, <2>1
    <2>. QED BY <2>1, <2>2
<1>. QED BY <1>3, <1>4 DEF Smallest

LEMMA IndexIs ==
    ASSUME NEW s \in Seq(Item), NEW id, Has(s, id)
    PROVE  /\ Index(s, id) \in 1 .. Len(s) /\ s[Index(s, id)].id = id
           /\ \A j \in 1 .. Len(s) : s[j].id = id => Index(s, id) <= j
<1>. DEFINE S == {i \in DOMAIN s : s[i].id = id}
<1>1. S \in SUBSET Nat /\ S # {} /\ DOMAIN s = 1 .. Len(s)
    BY DEF Has
<1>2. Smallest(S) \in S /\ \A y \in S : Smallest(S) <= y
    <2>. HIDE DEF S
    <2>. QED BY <1>1, SmallestIs
<1>. QED BY <1>1, <1>2 DEF Index

LEMMA SmallestOne ==
    ASSUME NEW i \in Nat
    PROVE  Smallest({i}) = i
BY SmallestIs

\* What StoreOK says of the items.
Good(s, max) ==
    /\ Len(s) <= max
    /\ \A i \in 1 .. Len(s) : s[i].kind # Meseta /\ s[i].n \in 1 .. Stack[s[i].kind]
    /\ \A i, j \in 1 .. Len(s) :
         s[i].kind = s[j].kind /\ Stack[s[i].kind] > 1 => i = j

LEMMA GoodIs ==
    ASSUME NEW st \in Store, NEW max
    PROVE  StoreOK(st, max) <=> st.meseta \in 0 .. Stack[Meseta] /\ Good(st.items, max)
<1>. DEFINE s == st.items
<1>1. s \in Seq(Item) /\ DOMAIN s = 1 .. Len(s) /\ \A i \in DOMAIN s : s[i] \in Item
    BY DEF Store
<1>2. ASSUME StoreOK(st, max) PROVE Good(s, max)
    <2>1. \A i, j \in 1 .. Len(s) : s[i].kind = s[j].kind /\ Stack[s[i].kind] > 1 => i = j
        <3>. SUFFICES ASSUME NEW i \in 1 .. Len(s), NEW j \in 1 .. Len(s),
                             s[i].kind = s[j].kind, Stack[s[i].kind] > 1
                      PROVE  i = j
            OBVIOUS
        <3>1. KindIn(s, s[i].kind) = {i}
            BY <1>1, <1>2 DEF StoreOK
        <3>2. j \in KindIn(s, s[i].kind)
            BY <1>1 DEF KindIn
        <3>. QED BY <3>1, <3>2
    <2>. QED BY <1>1, <1>2, <2>1 DEF StoreOK, Good
<1>3. ASSUME Good(s, max) PROVE \A i \in DOMAIN s :
        Stack[s[i].kind] > 1 => KindIn(s, s[i].kind) = {i}
    <2>. SUFFICES ASSUME NEW i \in DOMAIN s, Stack[s[i].kind] > 1
                  PROVE  KindIn(s, s[i].kind) = {i}
        OBVIOUS
    <2>1. \A j \in 1 .. Len(s) : s[i].kind = s[j].kind => i = j
        BY <1>1, <1>3 DEF Good
    <2>. QED BY <1>1, <2>1 DEF KindIn
<1>. QED BY <1>1, <1>2, <1>3 DEF StoreOK, Good

\* A kind that stacks is in one place.
LEMMA TheStack ==
    ASSUME NEW s \in Seq(Item), NEW max, Good(s, max), NEW k, Stack[k] > 1,
           KindIn(s, k) # {}
    PROVE  \E i \in 1 .. Len(s) : /\ s[i].kind = k /\ KindIn(s, k) = {i}
                                  /\ Smallest(KindIn(s, k)) = i
<1>1. PICK i \in 1 .. Len(s) : s[i].kind = k
    BY DEF KindIn
<1>2. KindIn(s, k) = {i}
    BY <1>1 DEF KindIn, Good
<1>. QED BY <1>1, <1>2, SmallestOne

-----------------------------------------------------------------------------
(* What the operations on a store's items leave.                           *)

LEMMA GoodShorter ==
    ASSUME NEW s \in Seq(Item), NEW t \in Seq(Item), NEW i \in 1 .. Len(s), NEW max \in Nat,
           Shorter(t, s, i), Good(s, max)
    PROVE  Good(t, max)
<1>1. /\ Len(t) = Len(s) - 1 /\ Len(s) \in Nat /\ Len(t) \in Nat
      /\ \A j \in 1 .. Len(t) : t[j] = IF j < i THEN s[j] ELSE s[j + 1]
    BY DEF Shorter
<1>2. \A j \in 1 .. Len(t) : j \in 1 .. Len(s) /\ j + 1 \in 1 .. Len(s)
    BY <1>1
<1>3. \A j \in 1 .. Len(t) : t[j].kind # Meseta /\ t[j].n \in 1 .. Stack[t[j].kind]
    BY <1>1, <1>2 DEF Good
<1>4. \A j, l \in 1 .. Len(t) : t[j].kind = t[l].kind /\ Stack[t[j].kind] > 1 => j = l
    <2>. SUFFICES ASSUME NEW j \in 1 .. Len(t), NEW l \in 1 .. Len(t),
                         t[j].kind = t[l].kind, Stack[t[j].kind] > 1
                  PROVE  j = l
        OBVIOUS
    <2>1. PICK x, y : /\ x = IF j < i THEN j ELSE j + 1
                      /\ y = IF l < i THEN l ELSE l + 1
        OBVIOUS
    <2>2. x \in 1 .. Len(s) /\ y \in 1 .. Len(s) /\ t[j] = s[x] /\ t[l] = s[y]
        BY <1>1, <1>2, <2>1
    <2>3. x = y
        BY <2>2 DEF Good
    <2>. QED BY <2>1, <2>3
<1>. QED BY <1>1, <1>3, <1>4 DEF Good

LEMMA GoodAppend ==
    ASSUME NEW s \in Seq(Item), NEW it \in Item, NEW max \in Nat, Good(s, max), Len(s) < max,
           it.kind # Meseta, it.n \in 1 .. Stack[it.kind],
           Stack[it.kind] > 1 => KindIn(s, it.kind) = {}
    PROVE  Append(s, it) \in Seq(Item) /\ Good(Append(s, it), max)
<1>. DEFINE t == Append(s, it)
<1>1. /\ t \in Seq(Item) /\ Len(t) = Len(s) + 1 /\ t[Len(s) + 1] = it /\ Len(s) \in Nat
      /\ \A j \in 1 .. Len(s) : t[j] = s[j]
    OBVIOUS
<1>. HIDE DEF t
<1>2. \A j \in 1 .. Len(t) : j \in 1 .. Len(s) \/ j = Len(s) + 1
    BY <1>1
<1>3. \A j \in 1 .. Len(t) : t[j].kind # Meseta /\ t[j].n \in 1 .. Stack[t[j].kind]
    BY <1>1, <1>2 DEF Good
<1>4. \A j \in 1 .. Len(s) : Stack[it.kind] > 1 => s[j].kind # it.kind
    BY DEF KindIn
<1>5. \A j, l \in 1 .. Len(t) : t[j].kind = t[l].kind /\ Stack[t[j].kind] > 1 => j = l
    BY <1>1, <1>2, <1>4 DEF Good
<1>6. Good(t, max)
    BY <1>1, <1>3, <1>5 DEF Good
<1>. QED BY <1>1, <1>6 DEF t

\* s with m instead of what there is of its i-th item.
Changed(s, i, m) == [s EXCEPT ![i].n = m]

LEMMA Put ==
    ASSUME NEW s \in Seq(Item), NEW i \in 1 .. Len(s), NEW m \in Nat
    PROVE  LET t == Changed(s, i, m)
           IN  /\ t \in Seq(Item) /\ Len(t) = Len(s)
               /\ t[i].n = m /\ t[i].kind = s[i].kind /\ t[i].id = s[i].id
               /\ \A j \in 1 .. Len(s) : j # i => t[j] = s[j]
<1>1. s[i] \in Item
    OBVIOUS
<1>2. PICK e : e = [s[i] EXCEPT !.n = m]
    OBVIOUS
<1>3. e \in Item /\ e.n = m /\ e.kind = s[i].kind /\ e.id = s[i].id
    BY <1>1, <1>2 DEF Item
<1>4. /\ [s EXCEPT ![i] = e] \in Seq(Item) /\ Len([s EXCEPT ![i] = e]) = Len(s)
      /\ \A j \in 1 .. Len(s) : [s EXCEPT ![i] = e][j] = IF j = i THEN e ELSE s[j]
    BY <1>3, ExceptSeq
<1>5. Changed(s, i, m) = [s EXCEPT ![i] = e]
    BY <1>2 DEF Changed
<1>. QED BY <1>3, <1>4, <1>5

LEMMA GoodPut ==
    ASSUME NEW s \in Seq(Item), NEW t \in Seq(Item), NEW i \in 1 .. Len(s), NEW max \in Nat,
           Good(s, max), Len(t) = Len(s), t[i].kind = s[i].kind,
           t[i].n \in 1 .. Stack[s[i].kind],
           \A j \in 1 .. Len(s) : j # i => t[j] = s[j]
    PROVE  Good(t, max)
<1>1. \A j \in 1 .. Len(s) : t[j].kind = s[j].kind
    OBVIOUS
<1>. QED BY <1>1 DEF Good

-----------------------------------------------------------------------------
(* What is taken from a store, and what is left.                           *)

LEMMA NewItems ==
    ASSUME NEW st \in Store, NEW t \in Seq(Item)
    PROVE  LET e == [st EXCEPT !.items = t]
           IN  e \in Store /\ e.items = t /\ e.meseta = st.meseta
BY DEF Store

LEMMA NewMeseta ==
    ASSUME NEW st \in Store, NEW m \in Nat
    PROVE  LET e == [st EXCEPT !.meseta = m]
           IN  e \in Store /\ e.items = st.items /\ e.meseta = m
BY DEF Store

LEMMA StoreFields ==
    ASSUME NEW st \in Store
    PROVE  st.items \in Seq(Item) /\ st.meseta \in Nat
BY DEF Store

LEMMA ItemFields ==
    ASSUME NEW it \in Item
    PROVE  /\ it.id \in Ids /\ it.kind \in Kinds /\ it.n \in Nat
           /\ Stack[it.kind] \in Nat \ {0}
BY ItemsAssumption DEF Item

\* it under another id.
LEMMA NewId ==
    ASSUME NEW it \in Item, NEW id \in Ids
    PROVE  LET e == [it EXCEPT !.id = id]
           IN  e \in Item /\ e.id = id /\ e.kind = it.kind /\ e.n = it.n
BY DEF Item

\* n of it.
LEMMA NewNumber ==
    ASSUME NEW it \in Item, NEW id \in Ids, NEW n \in Nat
    PROVE  LET e == [it EXCEPT !.id = id, !.n = n]
           IN  e \in Item /\ e.id = id /\ e.kind = it.kind /\ e.n = n
BY DEF Item

\* The item found under an id other than that of meseta.
LEMMA Found ==
    ASSUME NEW st \in Store, NEW max, StoreOK(st, max), NEW id, Has(st.items, id)
    PROVE  LET i == Index(st.items, id)
           IN  /\ i \in 1 .. Len(st.items) /\ st.items[i] \in Item /\ st.items[i].id = id
               /\ st.items[i].kind # Meseta
               /\ st.items[i].n \in 1 .. Stack[st.items[i].kind]
<1>1. st.items \in Seq(Item)
    BY StoreFields
<1>2. Index(st.items, id) \in 1 .. Len(st.items) /\ st.items[Index(st.items, id)].id = id
    BY <1>1, IndexIs
<1>3. Good(st.items, max)
    BY GoodIs
<1>4. st.items[Index(st.items, id)] \in Item
    BY <1>1, <1>2
<1>. QED BY <1>2, <1>3, <1>4 DEF Good

LEMMA TakenIs ==
    ASSUME NEW st \in Store, NEW max, StoreOK(st, max), NEW id, NEW n \in Nat \ {0},
           Holds(st, id, n)
    PROVE  /\ Taken(st, id, n) \in Item
           /\ Taken(st, id, n).kind = Meseta <=> id = MesetaId
           /\ Taken(st, id, n).n \in 1 .. Stack[Taken(st, id, n).kind]
<1>0. NoId \in Ids
    BY DEF Ids
<1>1. CASE id = MesetaId
    <2>1. st.meseta \in 0 .. Stack[Meseta] /\ n <= st.meseta /\ Stack[Meseta] \in Nat
        BY <1>1, ItemsAssumption DEF StoreOK, Holds
    <2>2. Taken(st, id, n) = [id |-> NoId, kind |-> Meseta, n |-> n]
        BY <1>1 DEF Taken
    <2>3. Meseta \in Kinds
        BY ItemsAssumption
    <2>. QED BY <1>0, <1>1, <2>1, <2>2, <2>3 DEF Item
<1>2. CASE id # MesetaId
    <2>1. PICK i : i = Index(st.items, id)
        OBVIOUS
    <2>2. PICK it : it = st.items[i]
        OBVIOUS
    <2>3. it \in Item /\ it.kind # Meseta /\ it.n \in 1 .. Stack[it.kind]
        BY <1>2, <2>1, <2>2, Found DEF Holds
    <2>4. Taken(st, id, n) = IF IsPart(it, n) THEN [it EXCEPT !.id = NoId, !.n = n] ELSE it
        BY <1>2, <2>1, <2>2 DEF Taken
    <2>5. CASE IsPart(it, n)
        <3>1. PICK e : e = [it EXCEPT !.id = NoId, !.n = n]
            OBVIOUS
        <3>2. e \in Item /\ e.kind = it.kind /\ e.n = n
            BY <1>0, <2>3, <3>1 DEF Item
        <3>3. n <= it.n /\ Stack[it.kind] \in Nat
            BY <2>3, <2>5, ItemFields DEF IsPart
        <3>. QED BY <1>2, <2>3, <2>4, <2>5, <3>1, <3>2, <3>3
    <2>6. CASE ~ IsPart(it, n)
        BY <1>2, <2>3, <2>4, <2>6
    <2>. QED BY <2>5, <2>6
<1>. QED BY <1>1, <1>2

\* What remove_invitem and remove_bitem take of an item, and what they leave.
PartOf(it, n) == IF IsPart(it, n) THEN n ELSE it.n

Less(st, i, n) == [st EXCEPT !.items = Shrunk(st.items, i, n)]

LEMMA LessIs ==
    ASSUME NEW st \in Store, NEW max \in Nat, StoreOK(st, max),
           NEW i \in 1 .. Len(st.items), NEW n \in Nat \ {0}
    PROVE  /\ Less(st, i, n) \in Store
           /\ StoreOK(Less(st, i, n), max)
           /\ \A k : InStore(Less(st, i, n), k)
                       = InStore(st, k)
                           - IF st.items[i].kind = k THEN PartOf(st.items[i], n) ELSE 0
           /\ Less(st, i, n).meseta = st.meseta
<1>0. st.items \in Seq(Item) /\ st.meseta \in 0 .. Stack[Meseta] /\ Good(st.items, max)
    BY StoreFields, GoodIs
<1>1. PICK it : it = st.items[i]
    OBVIOUS
<1>2. it \in Item /\ it.n \in 1 .. Stack[it.kind]
    BY <1>0, <1>1 DEF Good
<1>3. PICK t : t = Shrunk(st.items, i, n)
    OBVIOUS
<1>4. /\ t \in Seq(Item) /\ Good(t, max)
      /\ \A k : Amount(t, k) = Amount(st.items, k)
                                - IF it.kind = k THEN PartOf(it, n) ELSE 0
    <2>1. CASE IsPart(it, n)
        <3>1. t = Changed(st.items, i, it.n - n)
            BY <1>1, <1>3, <2>1 DEF Shrunk, Changed
        <3>2. it.n - n \in 1 .. Stack[it.kind] /\ it.n - n \in Nat
            BY <1>2, <2>1, ItemFields DEF IsPart
        <3>3. /\ t \in Seq(Item) /\ Len(t) = Len(st.items)
              /\ t[i].n = it.n - n /\ t[i].kind = it.kind
              /\ \A j \in 1 .. Len(st.items) : j # i => t[j] = st.items[j]
            <4>1. PICK s, m : s = st.items /\ m = it.n - n
                OBVIOUS
            <4>2. s \in Seq(Item) /\ i \in 1 .. Len(s) /\ m \in Nat
                BY <1>0, <3>2, <4>1
            <4>3. t = Changed(s, i, m) /\ it = s[i]
                BY <1>1, <3>1, <4>1
            <4>4. /\ t \in Seq(Item) /\ Len(t) = Len(s)
                  /\ t[i].n = m /\ t[i].kind = it.kind
                  /\ \A j \in 1 .. Len(s) : j # i => t[j] = s[j]
                BY <4>2, <4>3, Put
            <4>. QED BY <4>1, <4>4
        <3>4. Good(t, max)
            BY <1>0, <1>1, <3>2, <3>3, GoodPut
        <3>5. ASSUME NEW k
              PROVE  Amount(t, k) = Amount(st.items, k)
                                      - IF it.kind = k THEN PartOf(it, n) ELSE 0
            <4>1. Amount(t, k) = Amount(st.items, k) - NumberOf(it, k) + NumberOf(t[i], k)
                BY <1>0, <1>1, <3>3, AmountChange
            <4>2. /\ NumberOf(it, k) = IF it.kind = k THEN it.n ELSE 0
                  /\ NumberOf(t[i], k) = IF it.kind = k THEN it.n - n ELSE 0
                BY <3>3 DEF NumberOf
            <4>3. Amount(st.items, k) \in Nat /\ it.n \in Nat
                BY <1>0, <1>2, AmountType, ItemFields
            <4>. QED BY <2>1, <4>1, <4>2, <4>3 DEF PartOf
        <3>. QED BY <3>3, <3>4, <3>5
    <2>2. CASE ~ IsPart(it, n)
        <3>1. t = RemoveAt(st.items, i)
            BY <1>1, <1>3, <2>2 DEF Shrunk
        <3>2. t \in Seq(Item) /\ Shorter(t, st.items, i)
            BY <1>0, <3>1, Removed
        <3>3. Good(t, max)
            BY <1>0, <3>2, GoodShorter
        <3>4. \A k : Amount(t, k) = Amount(st.items, k) - NumberOf(it, k)
            BY <1>0, <1>1, <3>2, AmountShorter
        <3>. QED BY <2>2, <3>2, <3>3, <3>4 DEF NumberOf, PartOf
    <2>. QED BY <2>1, <2>2
<1>5. PICK w : w = Less(st, i, n)
    OBVIOUS
<1>6. w = [st EXCEPT !.items = t]
    BY <1>1, <1>3, <1>5 DEF Less
<1>7. w \in Store /\ w.items = t /\ w.meseta = st.meseta
    BY <1>4, <1>6, NewItems
<1>8. StoreOK(w, max)
    BY <1>0, <1>4, <1>7, GoodIs
<1>9. ASSUME NEW k
      PROVE  InStore(w, k) = InStore(st, k) - IF it.kind = k THEN PartOf(it, n) ELSE 0
    <2>1. Amount(st.items, k) \in Nat /\ PartOf(it, n) \in Nat
        BY <1>0, <1>2, AmountType, ItemFields DEF PartOf
    <2>. QED BY <1>0, <1>4, <1>7, <2>1 DEF InStore
<1>. QED BY <1>1, <1>5, <1>7, <1>8, <1>9

LEMMA WithoutIs ==
    ASSUME NEW st \in Store, NEW max \in Nat, StoreOK(st, max), NEW id, NEW n \in Nat \ {0},
           Holds(st, id, n)
    PROVE  /\ Without(st, id, n) \in Store
           /\ StoreOK(Without(st, id, n), max)
           /\ \A k : InStore(Without(st, id, n), k)
                       = InStore(st, k) - NumberOf(Taken(st, id, n), k)
           /\ id # MesetaId => Without(st, id, n).meseta = st.meseta
<1>0. st.items \in Seq(Item) /\ st.meseta \in 0 .. Stack[Meseta] /\ Good(st.items, max)
    BY StoreFields, GoodIs
<1>1. CASE id = MesetaId
    <2>1. PICK w : w = [st EXCEPT !.meseta = st.meseta - n]
        OBVIOUS
    <2>2. Without(st, id, n) = w
        BY <1>1, <2>1 DEF Without
    <2>3. n <= st.meseta /\ Stack[Meseta] \in Nat /\ st.meseta - n \in 0 .. Stack[Meseta]
        BY <1>0, <1>1, ItemsAssumption DEF Holds
    <2>4. w \in Store /\ w.items = st.items /\ w.meseta = st.meseta - n
        BY <2>1, <2>3, NewMeseta
    <2>5. StoreOK(w, max)
        BY <1>0, <2>3, <2>4, GoodIs
    <2>6. Taken(st, id, n) = [id |-> NoId, kind |-> Meseta, n |-> n]
        BY <1>1 DEF Taken
    <2>7. ASSUME NEW k PROVE InStore(w, k) = InStore(st, k) - NumberOf(Taken(st, id, n), k)
        <3>1. NumberOf(Taken(st, id, n), k) = IF k = Meseta THEN n ELSE 0
            BY <2>6 DEF NumberOf
        <3>2. Amount(st.items, k) \in Nat
            BY <1>0, AmountType
        <3>. QED BY <1>0, <2>4, <3>1, <3>2 DEF InStore
    <2>. QED BY <1>1, <2>2, <2>4, <2>5, <2>7
<1>2. CASE id # MesetaId
    <2>1. PICK i : i = Index(st.items, id)
        OBVIOUS
    <2>2. PICK it : it = st.items[i]
        OBVIOUS
    <2>3. i \in 1 .. Len(st.items) /\ it \in Item
        BY <1>2, <2>1, <2>2, Found DEF Holds
    <2>4. Without(st, id, n) = Less(st, i, n)
        BY <1>2, <2>1 DEF Without, Less
    <2>5. Taken(st, id, n) = IF IsPart(it, n) THEN [it EXCEPT !.id = NoId, !.n = n] ELSE it
        BY <1>2, <2>1, <2>2 DEF Taken
    <2>6. Taken(st, id, n).kind = it.kind /\ Taken(st, id, n).n = PartOf(it, n)
        <3>1. CASE IsPart(it, n)
            BY <2>3, <2>5, <3>1 DEF Item, PartOf
        <3>2. CASE ~ IsPart(it, n)
            BY <2>5, <3>2 DEF PartOf
        <3>. QED BY <3>1, <3>2
    <2>7. \A k : NumberOf(Taken(st, id, n), k) = IF it.kind = k THEN PartOf(it, n) ELSE 0
        BY <2>6 DEF NumberOf
    <2>. QED BY <1>2, <2>2, <2>3, <2>4, <2>7, LessIs
<1>. QED BY <1>1, <1>2

-----------------------------------------------------------------------------
(* What is put into a store.                                               *)

\* An item that is put on top of a stack: where, and what it comes to.
OnStack(st, it, i, m) ==
    /\ st.items[i].kind = it.kind
    /\ KindIn(st.items, it.kind) = {i} /\ Smallest(KindIn(st.items, it.kind)) = i
    /\ m = Least(st.items[i].n + it.n, Stack[it.kind])
    /\ st.items[i].n <= m /\ st.items[i].n \in Nat /\ m \in Nat
    /\ With(st, it) = [st EXCEPT !.items = Changed(st.items, i, m)]

LEMMA Stacked ==
    ASSUME NEW st \in Store, NEW max, StoreOK(st, max), NEW it \in Item,
           it.kind # Meseta, Merges(st, it)
    PROVE  \E i \in 1 .. Len(st.items), m \in 1 .. Stack[it.kind] : OnStack(st, it, i, m)
<1>1. st.items \in Seq(Item) /\ Good(st.items, max)
    BY StoreFields, GoodIs
<1>2. Stack[it.kind] > 1 /\ KindIn(st.items, it.kind) # {}
    BY DEF Merges
<1>3. PICK i \in 1 .. Len(st.items) :
             /\ st.items[i].kind = it.kind
             /\ KindIn(st.items, it.kind) = {i} /\ Smallest(KindIn(st.items, it.kind)) = i
    BY <1>1, <1>2, TheStack
<1>4. PICK m : m = Least(st.items[i].n + it.n, Stack[it.kind])
    OBVIOUS
<1>5. st.items[i].n \in 1 .. Stack[it.kind] /\ it.n \in Nat /\ Stack[it.kind] \in Nat
    BY <1>1, <1>3, ItemFields DEF Good
<1>6. m \in 1 .. Stack[it.kind] /\ m \in Nat /\ st.items[i].n <= m /\ st.items[i].n \in Nat
    BY <1>4, <1>5 DEF Least
<1>7. With(st, it) =
        [st EXCEPT !.items[Smallest(KindIn(st.items, it.kind))].n =
              Least(@ + it.n, Stack[it.kind])]
    BY DEF With
<1>8. With(st, it) = [st EXCEPT !.items = Changed(st.items, i, m)]
    BY <1>3, <1>4, <1>7 DEF Changed, Store
<1>9. OnStack(st, it, i, m)
    BY <1>3, <1>4, <1>6, <1>8 DEF OnStack
<1>. QED BY <1>6, <1>9

LEMMA WithIs ==
    ASSUME NEW st \in Store, NEW max \in Nat, StoreOK(st, max), NEW it \in Item,
           it.n \in 1 .. Stack[it.kind], Accepts(st, it, max)
    PROVE  /\ With(st, it) \in Store
           /\ StoreOK(With(st, it), max)
           /\ \A k : /\ InStore(With(st, it), k) <= InStore(st, k) + NumberOf(it, k)
                     /\ Fits(st, it, max) =>
                          InStore(With(st, it), k) = InStore(st, k) + NumberOf(it, k)
           /\ it.kind # Meseta => With(st, it).meseta = st.meseta
<1>0. /\ st.items \in Seq(Item) /\ st.meseta \in 0 .. Stack[Meseta] /\ Good(st.items, max)
      /\ it.kind \in Kinds /\ it.n \in Nat /\ Stack[it.kind] \in Nat \ {0}
    BY StoreFields, GoodIs, ItemFields
<1>1. CASE it.kind = Meseta
    <2>1. PICK m : m = Least(st.meseta + it.n, Stack[Meseta])
        OBVIOUS
    <2>2. PICK w : w = [st EXCEPT !.meseta = m]
        OBVIOUS
    <2>3. With(st, it) = w
        BY <1>1, <2>1, <2>2 DEF With
    <2>4. /\ m \in 0 .. Stack[Meseta] /\ m \in Nat /\ m <= st.meseta + it.n
          /\ Fits(st, it, max) => m = st.meseta + it.n
        BY <1>0, <1>1, <2>1 DEF Least, Fits
    <2>5. w \in Store /\ w.items = st.items /\ w.meseta = m
        BY <2>2, <2>4, NewMeseta
    <2>6. StoreOK(w, max)
        BY <1>0, <2>4, <2>5, GoodIs
    <2>7. ASSUME NEW k
          PROVE  /\ InStore(w, k) <= InStore(st, k) + NumberOf(it, k)
                 /\ Fits(st, it, max) => InStore(w, k) = InStore(st, k) + NumberOf(it, k)
        <3>1. NumberOf(it, k) = IF k = Meseta THEN it.n ELSE 0
            BY <1>1 DEF NumberOf
        <3>2. PICK a \in Nat : a = Amount(st.items, k)
            BY <1>0, AmountType
        <3>3. InStore(w, k) = a + IF k = Meseta THEN m ELSE 0
            BY <2>5, <3>2 DEF InStore
        <3>4. InStore(st, k) = a + IF k = Meseta THEN st.meseta ELSE 0
            BY <3>2 DEF InStore
        <3>5. st.meseta \in Nat /\ it.n \in Nat
            BY <1>0, ItemFields
        <3>6. CASE k = Meseta
            <4>1. /\ InStore(w, k) = a + m /\ InStore(st, k) = a + st.meseta
                  /\ NumberOf(it, k) = it.n
                BY <3>1, <3>3, <3>4, <3>6
            <4>2. /\ a + m <= (a + st.meseta) + it.n
                  /\ m = st.meseta + it.n => a + m = (a + st.meseta) + it.n
                BY <2>4, <3>5
            <4>3. Fits(st, it, max) => m = st.meseta + it.n
                BY <2>4
            <4>. QED BY <4>1, <4>2, <4>3
        <3>7. CASE k # Meseta
            <4>1. InStore(w, k) = a /\ InStore(st, k) = a /\ NumberOf(it, k) = 0
                BY <3>1, <3>3, <3>4, <3>7
            <4>. QED BY <4>1
        <3>. QED BY <3>6, <3>7
    <2>. QED BY <1>1, <2>3, <2>5, <2>6, <2>7
<1>2. CASE it.kind # Meseta
    <2>1. ASSUME NEW t \in Seq(Item), With(st, it) = [st EXCEPT !.items = t], Good(t, max),
                 \A k : /\ Amount(t, k) <= Amount(st.items, k) + NumberOf(it, k)
                        /\ Fits(st, it, max) =>
                             Amount(t, k) = Amount(st.items, k) + NumberOf(it, k)
          PROVE  /\ With(st, it) \in Store
                 /\ StoreOK(With(st, it), max)
                 /\ \A k : /\ InStore(With(st, it), k) <= InStore(st, k) + NumberOf(it, k)
                           /\ Fits(st, it, max) =>
                                InStore(With(st, it), k) = InStore(st, k) + NumberOf(it, k)
                 /\ With(st, it).meseta = st.meseta
        <3>1. PICK w : w = With(st, it)
            OBVIOUS
        <3>2. w \in Store /\ w.items = t /\ w.meseta = st.meseta
            BY <2>1, <3>1, NewItems
        <3>3. StoreOK(w, max)
            BY <1>0, <2>1, <3>2, GoodIs
        <3>4. ASSUME NEW k
              PROVE  /\ InStore(w, k) <= InStore(st, k) + NumberOf(it, k)
                     /\ Fits(st, it, max) => InStore(w, k) = InStore(st, k) + NumberOf(it, k)
            <4>1. PICK a \in Nat, b \in Nat, x \in Nat :
                    a = Amount(st.items, k) /\ b = Amount(t, k) /\ x = NumberOf(it, k)
                BY <1>0, <2>1, AmountType, ItemNumber
            <4>2. PICK e \in Nat : e = IF k = Meseta THEN st.meseta ELSE 0
                BY <1>0
            <4>3. InStore(w, k) = b + e /\ InStore(st, k) = a + e
                BY <3>2, <4>1, <4>2 DEF InStore
            <4>4. b <= a + x /\ (Fits(st, it, max) => b = a + x)
                BY <2>1, <4>1
            <4>. QED BY <4>1, <4>3, <4>4
        <3>. QED BY <3>1, <3>2, <3>3, <3>4
    <2>2. CASE Merges(st, it)
        <3>1. PICK i \in 1 .. Len(st.items), m \in 1 .. Stack[it.kind] : OnStack(st, it, i, m)
            BY <1>2, <2>2, Stacked
        <3>. USE <3>1 DEF OnStack
        <3>2. PICK t : t = Changed(st.items, i, m)
            OBVIOUS
        <3>3. /\ t \in Seq(Item) /\ Len(t) = Len(st.items)
              /\ t[i].n = m /\ t[i].kind = it.kind
              /\ \A j \in 1 .. Len(st.items) : j # i => t[j] = st.items[j]
            <4>1. PICK s : s = st.items
                OBVIOUS
            <4>2. s \in Seq(Item) /\ i \in 1 .. Len(s) /\ m \in Nat /\ t = Changed(s, i, m)
                BY <1>0, <3>2, <4>1
            <4>3. s[i].kind = it.kind
                BY <4>1
            <4>. HIDE <3>1 DEF OnStack
            <4>. QED BY <4>1, <4>2, <4>3, Put
        <3>4. Good(t, max)
            <4>1. PICK s : s = st.items
                OBVIOUS
            <4>2. s \in Seq(Item) /\ i \in 1 .. Len(s) /\ Good(s, max) /\ Len(t) = Len(s)
                BY <1>0, <3>3, <4>1
            <4>3. /\ t[i].kind = s[i].kind /\ t[i].n \in 1 .. Stack[s[i].kind]
                  /\ \A j \in 1 .. Len(s) : j # i => t[j] = s[j]
                BY <3>1, <3>3, <4>1
            <4>. QED BY <3>3, <4>2, <4>3, GoodPut
        <3>5. /\ m <= st.items[i].n + it.n /\ m \in Nat
              /\ Fits(st, it, max) => m = st.items[i].n + it.n
            BY <1>0, <2>2, <3>1 DEF Least, Fits
        <3>6. ASSUME NEW k
              PROVE  /\ Amount(t, k) <= Amount(st.items, k) + NumberOf(it, k)
                     /\ Fits(st, it, max) =>
                          Amount(t, k) = Amount(st.items, k) + NumberOf(it, k)
            <4>1. Amount(t, k) = Amount(st.items, k) - NumberOf(st.items[i], k)
                                   + NumberOf(t[i], k)
                <5>1. PICK s : s = st.items
                    OBVIOUS
                <5>2. /\ s \in Seq(Item) /\ i \in 1 .. Len(s) /\ Len(t) = Len(s)
                      /\ \A j \in 1 .. Len(s) : j # i => t[j] = s[j]
                    BY <1>0, <3>3, <5>1
                <5>3. Amount(t, k) = Amount(s, k) - NumberOf(s[i], k) + NumberOf(t[i], k)
                    BY <3>3, <5>2, AmountChange
                <5>. QED BY <5>1, <5>3
            <4>2. /\ NumberOf(it, k) = IF it.kind = k THEN it.n ELSE 0
                  /\ NumberOf(t[i], k) = IF it.kind = k THEN m ELSE 0
                  /\ NumberOf(st.items[i], k) = IF it.kind = k THEN st.items[i].n ELSE 0
                BY <3>1, <3>3 DEF NumberOf
            <4>3. Amount(st.items, k) \in Nat
                BY <1>0, AmountType
            <4>. QED BY <1>0, <3>1, <3>5, <4>1, <4>2, <4>3
        <3>. QED BY <1>2, <2>1, <3>1, <3>2, <3>3, <3>4, <3>6
    <2>3. CASE ~ Merges(st, it)
        <3>1. With(st, it) = [st EXCEPT !.items = Append(st.items, it)]
            BY <1>2, <2>3 DEF With
        <3>2. PICK t : t = Append(st.items, it)
            OBVIOUS
        <3>3. Len(st.items) < max /\ (Stack[it.kind] > 1 => KindIn(st.items, it.kind) = {})
            BY <1>2, <2>3 DEF Accepts, Merges
        <3>4. t \in Seq(Item) /\ Good(t, max)
            BY <1>0, <1>2, <3>2, <3>3, GoodAppend
        <3>5. \A k : Amount(t, k) = Amount(st.items, k) + NumberOf(it, k)
            BY <1>0, <3>2, AmountAppend
        <3>6. \A k : /\ Amount(t, k) <= Amount(st.items, k) + NumberOf(it, k)
                     /\ Fits(st, it, max) =>
                          Amount(t, k) = Amount(st.items, k) + NumberOf(it, k)
            <4>. SUFFICES ASSUME NEW k
                          PROVE  Amount(t, k) <= Amount(st.items, k) + NumberOf(it, k)
                BY <3>5
            <4>1. Amount(t, k) \in Nat
                BY <3>4, AmountType
            <4>. QED BY <3>5, <4>1
        <3>. QED BY <1>2, <2>1, <3>1, <3>2, <3>4, <3>6
    <2>. QED BY <2>2, <2>3
<1>. QED BY <1>1, <1>2

-----------------------------------------------------------------------------
(* What a split leaves its player owing.                                   *)

Debt == [id : Ids, kind : Kinds, n : Nat \ {0}]

\* The 0x29 for the debt takes just what is owed.
Payable(st, debt) ==
    IF debt.id = MesetaId
      THEN debt.kind = Meseta
      ELSE /\ Has(st.items, debt.id)
           /\ LET it == st.items[Index(st.items, debt.id)]
              IN  it.kind = debt.kind /\ Stack[it.kind] > 1 /\ debt.n < it.n

LEMMA IndexSame ==
    ASSUME NEW s \in Seq(Item), NEW t \in Seq(Item), NEW id, Has(s, id), Len(s) <= Len(t),
           \A i \in 1 .. Len(s) : t[i].id = s[i].id
    PROVE  Has(t, id) /\ Index(t, id) = Index(s, id)
<1>1. PICK i \in 1 .. Len(s) : /\ i = Index(s, id) /\ s[i].id = id
                               /\ \A j \in 1 .. Len(s) : s[j].id = id => i <= j
    BY IndexIs
<1>2. i \in 1 .. Len(t) /\ t[i].id = id
    BY <1>1
<1>3. Has(t, id)
    BY <1>2 DEF Has
<1>4. PICK l \in 1 .. Len(t) : /\ l = Index(t, id) /\ t[l].id = id
                               /\ \A j \in 1 .. Len(t) : t[j].id = id => l <= j
    BY <1>3, IndexIs
<1>5. l <= i
    BY <1>2, <1>4
<1>6. l \in 1 .. Len(s) /\ s[l].id = id
    BY <1>4, <1>5
<1>7. i <= l
    BY <1>1, <1>6
<1>. QED BY <1>1, <1>3, <1>4, <1>5, <1>7

\* w holds at least what st does, and in the same places.
Above(w, st) ==
    /\ Len(st.items) <= Len(w.items)
    /\ \A i \in 1 .. Len(st.items) :
         /\ w.items[i].id = st.items[i].id /\ w.items[i].kind = st.items[i].kind
         /\ st.items[i].n <= w.items[i].n

LEMMA PayableAbove ==
    ASSUME NEW st \in Store, NEW w \in Store, NEW debt \in Debt, Payable(st, debt), Above(w, st)
    PROVE  Payable(w, debt)
<1>1. CASE debt.id = MesetaId
    BY <1>1 DEF Payable
<1>2. CASE debt.id # MesetaId
    <2>1. /\ st.items \in Seq(Item) /\ w.items \in Seq(Item)
          /\ Has(st.items, debt.id)
        BY <1>2, StoreFields DEF Payable
    <2>2. PICK i \in 1 .. Len(st.items) : i = Index(st.items, debt.id)
        BY <2>1, IndexIs
    <2>3. Has(w.items, debt.id) /\ Index(w.items, debt.id) = i
        BY <2>1, <2>2, IndexSame DEF Above
    <2>4. /\ st.items[i].kind = debt.kind /\ Stack[st.items[i].kind] > 1
          /\ debt.n < st.items[i].n
        BY <1>2, <2>2 DEF Payable
    <2>5. w.items[i].kind = st.items[i].kind /\ st.items[i].n <= w.items[i].n
        BY DEF Above
    <2>6. st.items[i].n \in Nat /\ w.items[i].n \in Nat /\ debt.n \in Nat
        <3>1. st.items[i] \in Item
            BY <2>1
        <3>2. i \in 1 .. Len(w.items)
            BY <2>1 DEF Above
        <3>3. w.items[i] \in Item
            BY <2>1, <3>2
        <3>. QED BY <3>1, <3>3 DEF Item, Debt
    <2>7. debt.n < w.items[i].n
        BY <2>4, <2>5, <2>6
    <2>. QED BY <1>2, <2>3, <2>4, <2>5, <2>7 DEF Payable
<1>. QED BY <1>1, <1>2

\* What is put into a store disturbs nothing in it.
LEMMA WithAbove ==
    ASSUME NEW st \in Store, NEW max, StoreOK(st, max), NEW it \in Item
    PROVE  Above(With(st, it), st)
<1>0. st.items \in Seq(Item) /\ \A i \in 1 .. Len(st.items) : st.items[i].n \in Nat
    <2>1. st.items \in Seq(Item)
        BY StoreFields
    <2>2. \A i \in 1 .. Len(st.items) : st.items[i] \in Item
        BY <2>1
    <2>. QED BY <2>1, <2>2, ItemFields
<1>1. CASE it.kind = Meseta
    <2>1. With(st, it).items = st.items
        BY <1>1 DEF With, Store
    <2>. QED BY <1>0, <2>1 DEF Above
<1>2. CASE it.kind # Meseta /\ Merges(st, it)
    <2>1. PICK i \in 1 .. Len(st.items), m \in 1 .. Stack[it.kind] : OnStack(st, it, i, m)
        <3>1. it.kind # Meseta /\ Merges(st, it)
            BY <1>2
        <3>. QED BY <3>1, Stacked
    <2>. USE <2>1 DEF OnStack
    <2>2. PICK t : t = Changed(st.items, i, m)
        OBVIOUS
    <2>3. m \in Nat
        BY ItemFields
    <2>4. /\ t \in Seq(Item) /\ Len(t) = Len(st.items)
          /\ t[i].n = m /\ t[i].kind = st.items[i].kind /\ t[i].id = st.items[i].id
          /\ \A j \in 1 .. Len(st.items) : j # i => t[j] = st.items[j]
        <3>1. PICK s : s = st.items
            OBVIOUS
        <3>2. s \in Seq(Item) /\ i \in 1 .. Len(s) /\ m \in Nat /\ t = Changed(s, i, m)
            BY <1>0, <2>2, <2>3, <3>1
        <3>. HIDE <2>1 DEF OnStack
        <3>. QED BY <3>1, <3>2, Put
    <2>5. With(st, it).items = t
        BY <2>1, <2>2, <2>4, NewItems
    <2>6. ASSUME NEW j \in 1 .. Len(st.items)
          PROVE  /\ t[j].id = st.items[j].id /\ t[j].kind = st.items[j].kind
                 /\ st.items[j].n <= t[j].n
        <3>1. CASE j = i
            BY <2>1, <2>4, <3>1
        <3>2. CASE j # i
            <4>1. t[j] = st.items[j] /\ st.items[j].n \in Nat
                BY <1>0, <2>4, <3>2
            <4>. QED BY <4>1
        <3>. QED BY <3>1, <3>2
    <2>. QED BY <1>0, <2>4, <2>5, <2>6 DEF Above
<1>3. CASE it.kind # Meseta /\ ~ Merges(st, it)
    <2>1. PICK t : t = Append(st.items, it)
        OBVIOUS
    <2>2. With(st, it) = [st EXCEPT !.items = t]
        BY <1>3, <2>1 DEF With
    <2>3. /\ t \in Seq(Item) /\ Len(t) = Len(st.items) + 1
          /\ \A j \in 1 .. Len(st.items) : t[j] = st.items[j]
        BY <1>0, <2>1
    <2>4. With(st, it).items = t
        BY <2>2, <2>3, NewItems
    <2>5. Len(st.items) \in Nat
        BY <1>0
    <2>. QED BY <1>0, <2>3, <2>4, <2>5 DEF Above
<1>. QED BY <1>1, <1>2, <1>3

\* The part of a stack is back on it, and owed; all of an item has room.
LEMMA SplitIs ==
    ASSUME NEW st \in Store, NEW max \in Nat, StoreOK(st, max), NEW id \in Ids,
           NEW n \in Nat \ {0}, Holds(st, id, n),
           NEW it \in Item, it.kind = Taken(st, id, n).kind, it.n = Taken(st, id, n).n
    PROVE  /\ Accepts(Without(st, id, n), it, max)
           /\ id = MesetaId \/ n < st.items[Index(st.items, id)].n
                => /\ Fits(Without(st, id, n), it, max)
                   /\ Payable(With(Without(st, id, n), it),
                              [id |-> id, kind |-> it.kind, n |-> it.n])
<1>0. /\ st.items \in Seq(Item) /\ st.meseta \in 0 .. Stack[Meseta] /\ Good(st.items, max)
      /\ Stack[Meseta] \in Nat
    BY StoreFields, GoodIs, ItemsAssumption
<1>1. CASE id = MesetaId
    <2>1. it.kind = Meseta /\ it.n = n
        BY <1>1 DEF Taken
    <2>2. Without(st, id, n).meseta = st.meseta - n /\ st.meseta \in Nat
        BY <1>1, StoreFields DEF Without, Store
    <2>3. n <= st.meseta
        BY <1>1 DEF Holds
    <2>4. Accepts(Without(st, id, n), it, max)
        BY <2>1 DEF Accepts
    <2>5. ~ Merges(Without(st, id, n), it)
        <3>1. PICK w : w = Without(st, id, n)
            OBVIOUS
        <3>2. w \in Store /\ StoreOK(w, max)
            BY <3>1, WithoutIs
        <3>3. Good(w.items, max) /\ w.items \in Seq(Item)
            BY <3>2, GoodIs, StoreFields
        <3>4. KindIn(w.items, Meseta) = {}
            BY <3>3 DEF Good, KindIn
        <3>. QED BY <2>1, <3>1, <3>4 DEF Merges
    <2>6. Fits(Without(st, id, n), it, max)
        BY <1>0, <2>1, <2>2, <2>3, <2>4, <2>5 DEF Fits
    <2>7. Payable(With(Without(st, id, n), it), [id |-> id, kind |-> it.kind, n |-> it.n])
        BY <1>1, <2>1 DEF Payable
    <2>. QED BY <1>1, <2>4, <2>6, <2>7
<1>2. CASE id # MesetaId
    <2>1. PICK i : i = Index(st.items, id)
        OBVIOUS
    <2>2. PICK old : old = st.items[i]
        OBVIOUS
    <2>3. /\ i \in 1 .. Len(st.items) /\ old \in Item /\ old.id = id /\ old.kind # Meseta
          /\ old.n \in 1 .. Stack[old.kind] /\ Has(st.items, id)
        BY <1>2, <2>1, <2>2, Found DEF Holds
    <2>4. it.kind = old.kind
        BY <1>2, <2>1, <2>2, <2>3 DEF Taken, Item
    <2>5. Stack[old.kind] \in Nat
        BY <2>3, ItemFields
    <2>6. CASE ~ IsPart(old, n)
        <3>1. PICK t : t = RemoveAt(st.items, i)
            OBVIOUS
        <3>2. t \in Seq(Item) /\ Len(t) = Len(st.items) - 1
            BY <1>0, <2>3, <3>1, Removed DEF Shorter
        <3>3. Without(st, id, n) = [st EXCEPT !.items = t]
            BY <1>2, <2>1, <2>2, <2>6, <3>1 DEF Without, Shrunk, Store
        <3>4. Without(st, id, n).items = t
            BY <3>2, <3>3, NewItems
        <3>5. Len(st.items) <= max /\ Len(st.items) \in Nat
            BY <1>0 DEF Good
        <3>6. Accepts(Without(st, id, n), it, max)
            BY <3>2, <3>4, <3>5 DEF Accepts
        <3>7. ~ (n < old.n)
            BY <2>3, <2>5, <2>6 DEF IsPart
        <3>. QED BY <1>2, <2>1, <2>2, <3>6, <3>7
    <2>7. CASE IsPart(old, n)
        <3>1. Stack[old.kind] > 1 /\ n < old.n
            BY <2>7 DEF IsPart
        <3>2. it.n = n
            BY <1>2, <2>1, <2>2, <2>3, <2>7 DEF Taken, Item
        <3>3. PICK t : t = Changed(st.items, i, old.n - n)
            OBVIOUS
        <3>4. old.n - n \in Nat /\ old.n \in Nat
            BY <2>3, <2>5, <3>1
        <3>5. /\ t \in Seq(Item) /\ Len(t) = Len(st.items)
              /\ t[i].n = old.n - n /\ t[i].kind = old.kind /\ t[i].id = id
              /\ \A j \in 1 .. Len(st.items) : j # i => t[j] = st.items[j]
            BY <1>0, <2>2, <2>3, <3>3, <3>4, Put
        <3>6. PICK left : left = Without(st, id, n)
            OBVIOUS
        <3>7. left = [st EXCEPT !.items = t]
            BY <1>2, <2>1, <2>2, <2>7, <3>3, <3>6 DEF Without, Shrunk, Changed, Store
        <3>8. left \in Store /\ left.items = t /\ StoreOK(left, max)
            <4>1. left.items = t
                BY <3>5, <3>7, NewItems
            <4>2. left \in Store /\ StoreOK(left, max)
                BY <3>6, WithoutIs
            <4>. QED BY <4>1, <4>2
        <3>9. i \in KindIn(t, old.kind)
            BY <2>3, <3>5 DEF KindIn
        <3>10. Merges(left, it)
            BY <2>4, <3>1, <3>8, <3>9 DEF Merges
        <3>11. PICK j \in 1 .. Len(t), m \in 1 .. Stack[it.kind] :
                 /\ KindIn(t, it.kind) = {j} /\ Smallest(KindIn(t, it.kind)) = j
                 /\ m = Least(t[j].n + it.n, Stack[it.kind])
                 /\ With(left, it) = [left EXCEPT !.items = Changed(t, j, m)]
            <4>1. it.kind # Meseta /\ left \in Store /\ StoreOK(left, max)
                BY <2>3, <2>4, <3>8
            <4>2. PICK j \in 1 .. Len(left.items), m \in 1 .. Stack[it.kind] :
                    OnStack(left, it, j, m)
                BY <3>10, <4>1, Stacked
            <4>. QED BY <3>8, <4>2 DEF OnStack
        <3>12. j = i
            BY <2>4, <3>9, <3>11
        <3>13. m = old.n
            BY <2>3, <2>4, <2>5, <3>2, <3>4, <3>5, <3>11, <3>12 DEF Least
        <3>14. Accepts(left, it, max)
            BY <3>10 DEF Accepts
        <3>15. Fits(left, it, max)
            <4>1. left.items[Smallest(KindIn(left.items, it.kind))].n + it.n = old.n
                BY <3>2, <3>4, <3>5, <3>8, <3>11, <3>12
            <4>. QED BY <2>3, <2>4, <3>14, <4>1 DEF Fits
        <3>16. PICK w : w = With(left, it)
            OBVIOUS
        <3>17. PICK u : u = Changed(t, i, old.n)
            OBVIOUS
        <3>18. /\ u \in Seq(Item) /\ Len(u) = Len(t)
               /\ u[i].n = old.n /\ u[i].kind = old.kind /\ u[i].id = id
               /\ \A l \in 1 .. Len(t) : l # i => u[l] = t[l]
            BY <2>3, <3>4, <3>5, <3>17, Put
        <3>19. w.items = u
            <4>1. w = [left EXCEPT !.items = u]
                BY <3>11, <3>12, <3>13, <3>16, <3>17
            <4>. QED BY <3>8, <3>18, <4>1, NewItems
        <3>20. \A l \in 1 .. Len(st.items) : u[l].id = st.items[l].id
            BY <2>2, <2>3, <3>5, <3>18
        <3>21. Has(u, id) /\ Index(u, id) = i
            <4>1. Len(st.items) <= Len(u)
                BY <1>0, <3>5, <3>18
            <4>. QED BY <1>0, <2>1, <2>3, <3>18, <3>20, <4>1, IndexSame
        <3>22. PICK debt : debt = [id |-> id, kind |-> it.kind, n |-> it.n]
            OBVIOUS
        <3>23. debt.id = id /\ debt.kind = old.kind /\ debt.n = n
            BY <2>4, <3>2, <3>22
        <3>24. Payable(w, debt)
            BY <1>2, <3>1, <3>18, <3>19, <3>21, <3>23 DEF Payable
        <3>. QED BY <1>2, <3>6, <3>14, <3>15, <3>16, <3>22, <3>24
    <2>. QED BY <2>6, <2>7
<1>. QED BY <1>1, <1>2

-----------------------------------------------------------------------------
(* The invariant.                                                          *)

FloorOK(f) == \A i \in DOMAIN f : f[i].n \in 1 .. Stack[f[i].kind]

\* A player in the middle of a split is in the game and, when it is careful,
\* has what the 0x29 will take.
Owes(s, st, o) == o # None => s # None /\ (careful => Payable(st, o))

\* What is in the game but not in due nor owed.
Holdings(i, b, k) == SumOf([c \in Clients |-> InStore(i[c], k) + InStore(b[c], k)])
DebtOf(o, k)      == IF o # None /\ o.kind = k THEN o.n ELSE 0
Debts(o, k)       == SumOf([c \in Clients |-> DebtOf(o[c], k)])
Books(i, b, f, o, d, k) == Amount(f, k) + Holdings(i, b, k) - d[k] - Debts(o, k)

BooksOK ==
    \A k \in Kinds :
      /\ Books(inv, bank, floor, owes, due, k) <= 0
      /\ careful => Books(inv, bank, floor, owes, due, k) = 0

Inv ==
    /\ TypeOK
    /\ owes \in [Clients -> Debt \cup {None}]
    /\ FloorOK(floor)
    /\ \A c \in Clients : Owes(seat[c], inv[c], owes[c])
    /\ BooksOK

LEMMA InStoreType ==
    ASSUME NEW st \in Store, NEW k
    PROVE  InStore(st, k) \in Nat
BY StoreFields, AmountType DEF InStore

LEMMA DebtType ==
    ASSUME NEW o \in Debt \cup {None}, NEW k
    PROVE  DebtOf(o, k) \in Nat
BY DEF DebtOf, Debt

LEMMA HoldingsType ==
    ASSUME NEW i \in [Clients -> Store], NEW b \in [Clients -> Store], NEW k
    PROVE  Holdings(i, b, k) \in Nat
<1>. DEFINE f == [c \in Clients |-> InStore(i[c], k) + InStore(b[c], k)]
<1>1. f \in [Clients -> Nat]
    <2>1. \A c \in Clients : InStore(i[c], k) \in Nat /\ InStore(b[c], k) \in Nat
        BY InStoreType
    <2>. QED BY <2>1
<1>2. IsFiniteSet(Clients)
    BY ItemsAssumption
<1>. HIDE DEF f
<1>3. SumOf(f) \in Nat
    BY <1>1, <1>2, UnitsFinite
<1>. QED BY <1>3 DEF Holdings, f

LEMMA DebtsType ==
    ASSUME NEW o \in [Clients -> Debt \cup {None}], NEW k
    PROVE  Debts(o, k) \in Nat
<1>. DEFINE f == [c \in Clients |-> DebtOf(o[c], k)]
<1>1. f \in [Clients -> Nat]
    BY DebtType
<1>2. IsFiniteSet(Clients)
    BY ItemsAssumption
<1>. HIDE DEF f
<1>3. SumOf(f) \in Nat
    BY <1>1, <1>2, UnitsFinite
<1>. QED BY <1>3 DEF Debts, f

LEMMA HoldingsChange ==
    ASSUME NEW i \in [Clients -> Store], NEW b \in [Clients -> Store],
           NEW j \in [Clients -> Store], NEW e \in [Clients -> Store], NEW k,
           NEW c \in Clients, \A d \in Clients : d # c => j[d] = i[d] /\ e[d] = b[d]
    PROVE  Holdings(j, e, k) = Holdings(i, b, k)
                                 - (InStore(i[c], k) + InStore(b[c], k))
                                 + (InStore(j[c], k) + InStore(e[c], k))
<1>. DEFINE f == [d \in Clients |-> InStore(i[d], k) + InStore(b[d], k)]
            g == [d \in Clients |-> InStore(j[d], k) + InStore(e[d], k)]
<1>1. f \in [Clients -> Nat] /\ g \in [Clients -> Nat]
    <2>1. \A d \in Clients : /\ InStore(i[d], k) \in Nat /\ InStore(b[d], k) \in Nat
                             /\ InStore(j[d], k) \in Nat /\ InStore(e[d], k) \in Nat
        BY InStoreType
    <2>. QED BY <2>1
<1>2. \A d \in Clients : d # c => g[d] = f[d]
    OBVIOUS
<1>3. f[c] = InStore(i[c], k) + InStore(b[c], k) /\ g[c] = InStore(j[c], k) + InStore(e[c], k)
    OBVIOUS
<1>4. SumOf(f) = Holdings(i, b, k) /\ SumOf(g) = Holdings(j, e, k)
    BY DEF Holdings
<1>5. IsFiniteSet(Clients)
    BY ItemsAssumption
<1>. HIDE DEF f, g
<1>6. SumOf(g) = SumOf(f) - f[c] + g[c]
    BY <1>1, <1>2, <1>5, SumChange
<1>. QED BY <1>3, <1>4, <1>6

LEMMA DebtsChange ==
    ASSUME NEW o \in [Clients -> Debt \cup {None}], NEW p \in [Clients -> Debt \cup {None}],
           NEW k, NEW c \in Clients, \A d \in Clients : d # c => p[d] = o[d]
    PROVE  Debts(p, k) = Debts(o, k) - DebtOf(o[c], k) + DebtOf(p[c], k)
<1>. DEFINE f == [d \in Clients |-> DebtOf(o[d], k)]
            g == [d \in Clients |-> DebtOf(p[d], k)]
<1>1. f \in [Clients -> Nat] /\ g \in [Clients -> Nat]
    BY DebtType
<1>2. \A d \in Clients : d # c => g[d] = f[d]
    OBVIOUS
<1>3. f[c] = DebtOf(o[c], k) /\ g[c] = DebtOf(p[c], k)
    OBVIOUS
<1>4. SumOf(f) = Debts(o, k) /\ SumOf(g) = Debts(p, k)
    BY DEF Debts
<1>5. IsFiniteSet(Clients)
    BY ItemsAssumption
<1>. HIDE DEF f, g
<1>6. SumOf(g) = SumOf(f) - f[c] + g[c]
    BY <1>1, <1>2, <1>5, SumChange
<1>. QED BY <1>3, <1>4, <1>6

\* The two properties say that the books are in order.
LEMMA BooksAre ==
    ASSUME TypeOK, owes \in [Clients -> Debt \cup {None}]
    PROVE  BooksOK <=> Conserved /\ NothingFromNothing
<1>1. ASSUME NEW k \in Kinds
      PROVE  /\ Total(k) \in Int /\ due[k] \in Int /\ Owed(k) \in Int
             /\ Books(inv, bank, floor, owes, due, k) = Total(k) - due[k] - Owed(k)
    <2>1. inv \in [Clients -> Store] /\ bank \in [Clients -> Store] /\ floor \in Seq(Item)
        BY DEF TypeOK
    <2>2. /\ Amount(floor, k) \in Nat /\ Holdings(inv, bank, k) \in Nat
          /\ Debts(owes, k) \in Nat /\ due[k] \in Int
        BY <2>1, AmountType, HoldingsType, DebtsType DEF TypeOK
    <2>3. Total(k) = Amount(floor, k) + Holdings(inv, bank, k)
        BY DEF Total, Holdings, WithClient
    <2>4. Owed(k) = Debts(owes, k)
        BY DEF Owed, Debts, OwedBy, DebtOf
    <2>. QED BY <2>2, <2>3, <2>4 DEF Books
<1>. QED BY <1>1 DEF BooksOK, Conserved, NothingFromNothing

-----------------------------------------------------------------------------
(* Steps.                                                                  *)

\* A step about c alone: what it has, what lies on the floor, and what is due
\* and owed after it.
Moves(c, st, bk, f, o, d, s) ==
    /\ st \in Store /\ bk \in Store /\ f \in Seq(Item) /\ o \in Debt \cup {None}
    /\ d \in [Kinds -> Int] /\ s \in Seats \cup {None}
    /\ inv' = [inv EXCEPT ![c] = st]
    /\ bank' = [bank EXCEPT ![c] = bk]
    /\ floor' = f
    /\ owes' = [owes EXCEPT ![c] = o]
    /\ due' = d
    /\ seat' = [seat EXCEPT ![c] = s]
    /\ playerNum' \in [Seats -> Int]
    /\ gameNum' \in Nat
    /\ careful' = careful

\* How far what c has, what lies there, is due and owed are apart.
Weight(st, bk, f, o, d, k) ==
    Amount(f, k) + InStore(st, k) + InStore(bk, k) - d[k] - DebtOf(o, k)

\* They come no further apart.
Balanced(c, st, bk, f, o, d) ==
    \A k \in Kinds :
      /\ Weight(st, bk, f, o, d, k) <= Weight(inv[c], bank[c], floor, owes[c], due, k)
      /\ careful =>
           Weight(st, bk, f, o, d, k) = Weight(inv[c], bank[c], floor, owes[c], due, k)

LEMMA StepKeeps ==
    ASSUME Inv, NEW c \in Clients, NEW st, NEW bk, NEW f, NEW o, NEW d, NEW s,
           Moves(c, st, bk, f, o, d, s),
           StoreOK(st, MaxInv), StoreOK(bk, MaxBank), FloorOK(f), Owes(s, st, o),
           Balanced(c, st, bk, f, o, d)
    PROVE  Inv'
<1>1. /\ st \in Store /\ bk \in Store /\ f \in Seq(Item) /\ o \in Debt \cup {None}
      /\ d \in [Kinds -> Int] /\ s \in Seats \cup {None}
    BY DEF Moves
<1>2. /\ inv' = [inv EXCEPT ![c] = st] /\ bank' = [bank EXCEPT ![c] = bk] /\ floor' = f
      /\ owes' = [owes EXCEPT ![c] = o] /\ due' = d /\ seat' = [seat EXCEPT ![c] = s]
      /\ playerNum' \in [Seats -> Int] /\ gameNum' \in Nat /\ careful' = careful
    BY DEF Moves
<1>3. /\ inv \in [Clients -> Store] /\ bank \in [Clients -> Store] /\ floor \in Seq(Item)
      /\ seat \in [Clients -> Seats \cup {None}] /\ due \in [Kinds -> Int]
      /\ owes \in [Clients -> Debt \cup {None}] /\ careful \in BOOLEAN
      /\ \A e \in Clients : StoreOK(inv[e], MaxInv) /\ StoreOK(bank[e], MaxBank)
      /\ \A e \in Clients : Owes(seat[e], inv[e], owes[e])
    BY DEF Inv, TypeOK
<1>4. /\ inv' \in [Clients -> Store] /\ inv'[c] = st
      /\ \A e \in Clients : e # c => inv'[e] = inv[e]
    BY <1>1, <1>2, <1>3
<1>5. /\ bank' \in [Clients -> Store] /\ bank'[c] = bk
      /\ \A e \in Clients : e # c => bank'[e] = bank[e]
    BY <1>1, <1>2, <1>3
<1>6. /\ owes' \in [Clients -> Debt \cup {None}] /\ owes'[c] = o
      /\ \A e \in Clients : e # c => owes'[e] = owes[e]
    BY <1>1, <1>2, <1>3
<1>7. /\ seat' \in [Clients -> Seats \cup {None}] /\ seat'[c] = s
      /\ \A e \in Clients : e # c => seat'[e] = seat[e]
    BY <1>1, <1>2, <1>3
<1>8. TypeOK'
    <2>1. \A e \in Clients : StoreOK(inv'[e], MaxInv)
        BY <1>3, <1>4
    <2>2. \A e \in Clients : StoreOK(bank'[e], MaxBank)
        BY <1>3, <1>5
    <2>. QED BY <1>1, <1>2, <1>3, <1>4, <1>5, <1>7, <2>1, <2>2 DEF TypeOK
<1>9. \A e \in Clients : Owes(seat[e], inv[e], owes[e])'
    <2>. SUFFICES ASSUME NEW e \in Clients PROVE Owes(seat[e], inv[e], owes[e])'
        OBVIOUS
    <2>1. CASE e = c
        BY <1>2, <1>4, <1>6, <1>7, <2>1 DEF Owes
    <2>2. CASE e # c
        <3>1. inv'[e] = inv[e] /\ owes'[e] = owes[e] /\ seat'[e] = seat[e]
            BY <1>4, <1>6, <1>7, <2>2
        <3>. QED BY <1>2, <1>3, <3>1 DEF Owes
    <2>. QED BY <2>1, <2>2
<1>10. ASSUME NEW k \in Kinds
       PROVE  Books(inv', bank', floor', owes', due', k) - Books(inv, bank, floor, owes, due, k)
                = Weight(st, bk, f, o, d, k) - Weight(inv[c], bank[c], floor, owes[c], due, k)
    <2>1. Holdings(inv', bank', k) = Holdings(inv, bank, k)
                                       - (InStore(inv[c], k) + InStore(bank[c], k))
                                       + (InStore(st, k) + InStore(bk, k))
        <3>1. PICK j, e : j = inv' /\ e = bank'
            OBVIOUS
        <3>2. j \in [Clients -> Store] /\ e \in [Clients -> Store] /\ j[c] = st /\ e[c] = bk
            BY <1>4, <1>5, <3>1
        <3>3. \A x \in Clients : x # c => j[x] = inv[x] /\ e[x] = bank[x]
            BY <1>4, <1>5, <3>1
        <3>4. PICK i, b : i = inv /\ b = bank
            OBVIOUS
        <3>5. i \in [Clients -> Store] /\ b \in [Clients -> Store]
            BY <1>3, <3>4
        <3>6. \A x \in Clients : x # c => j[x] = i[x] /\ e[x] = b[x]
            BY <3>3, <3>4
        <3>7. Holdings(j, e, k) = Holdings(i, b, k)
                                    - (InStore(i[c], k) + InStore(b[c], k))
                                    + (InStore(j[c], k) + InStore(e[c], k))
            BY <3>2, <3>5, <3>6, HoldingsChange
        <3>. QED BY <3>1, <3>2, <3>4, <3>7
    <2>2. Debts(owes', k) = Debts(owes, k) - DebtOf(owes[c], k) + DebtOf(o, k)
        <3>1. PICK p, q : p = owes' /\ q = owes
            OBVIOUS
        <3>2. /\ p \in [Clients -> Debt \cup {None}] /\ q \in [Clients -> Debt \cup {None}]
              /\ p[c] = o /\ \A x \in Clients : x # c => p[x] = q[x]
            BY <1>3, <1>6, <3>1
        <3>3. Debts(p, k) = Debts(q, k) - DebtOf(q[c], k) + DebtOf(p[c], k)
            BY <3>2, DebtsChange
        <3>. QED BY <3>1, <3>2, <3>3
    <2>3. PICK h \in Nat, g \in Nat, x \in Nat, y \in Nat :
            /\ h = Holdings(inv, bank, k) /\ g = Debts(owes, k)
            /\ x = Amount(floor, k) /\ y = Amount(f, k)
        BY <1>1, <1>3, HoldingsType, DebtsType, AmountType
    <2>4. PICK a \in Nat, b \in Nat, a1 \in Nat, b1 \in Nat :
            /\ a = InStore(inv[c], k) /\ b = InStore(bank[c], k)
            /\ a1 = InStore(st, k) /\ b1 = InStore(bk, k)
        BY <1>1, <1>3, InStoreType
    <2>5. PICK t \in Nat, t1 \in Nat : t = DebtOf(owes[c], k) /\ t1 = DebtOf(o, k)
        BY <1>1, <1>3, DebtType
    <2>6. PICK u \in Int, u1 \in Int : u = due[k] /\ u1 = d[k]
        BY <1>1, <1>3
    <2>7. Books(inv', bank', floor', owes', due', k)
            = y + (h - (a + b) + (a1 + b1)) - u1 - (g - t + t1)
        BY <1>2, <2>1, <2>2, <2>3, <2>4, <2>5, <2>6 DEF Books
    <2>8. Books(inv, bank, floor, owes, due, k) = x + h - u - g
        BY <2>3, <2>6 DEF Books
    <2>9. /\ Weight(st, bk, f, o, d, k) = y + a1 + b1 - u1 - t1
          /\ Weight(inv[c], bank[c], floor, owes[c], due, k) = x + a + b - u - t
        BY <2>3, <2>4, <2>5, <2>6 DEF Weight
    <2>. QED BY <2>7, <2>8, <2>9
<1>11. ASSUME NEW k \in Kinds
       PROVE  /\ Books(inv, bank, floor, owes, due, k) \in Int
              /\ Books(inv', bank', floor', owes', due', k) \in Int
              /\ Weight(st, bk, f, o, d, k) \in Int
              /\ Weight(inv[c], bank[c], floor, owes[c], due, k) \in Int
    <2>1. Books(inv, bank, floor, owes, due, k) \in Int
        <3>1. /\ Holdings(inv, bank, k) \in Nat /\ Debts(owes, k) \in Nat
              /\ Amount(floor, k) \in Nat /\ due[k] \in Int
            BY <1>3, HoldingsType, DebtsType, AmountType
        <3>. QED BY <3>1 DEF Books
    <2>2. Books(inv', bank', floor', owes', due', k) \in Int
        <3>1. /\ Holdings(inv', bank', k) \in Nat /\ Debts(owes', k) \in Nat
              /\ Amount(floor', k) \in Nat /\ due'[k] \in Int
            BY <1>1, <1>2, <1>4, <1>5, <1>6, HoldingsType, DebtsType, AmountType
        <3>. QED BY <3>1 DEF Books
    <2>3. Weight(st, bk, f, o, d, k) \in Int
        <3>1. /\ Amount(f, k) \in Nat /\ InStore(st, k) \in Nat /\ InStore(bk, k) \in Nat
              /\ d[k] \in Int /\ DebtOf(o, k) \in Nat
            BY <1>1, AmountType, InStoreType, DebtType
        <3>. QED BY <3>1 DEF Weight
    <2>4. Weight(inv[c], bank[c], floor, owes[c], due, k) \in Int
        <3>1. /\ Amount(floor, k) \in Nat /\ InStore(inv[c], k) \in Nat
              /\ InStore(bank[c], k) \in Nat
              /\ due[k] \in Int /\ DebtOf(owes[c], k) \in Nat
            BY <1>3, AmountType, InStoreType, DebtType
        <3>. QED BY <3>1 DEF Weight
    <2>. QED BY <2>1, <2>2, <2>3, <2>4
<1>12. BooksOK'
    <2>1. ASSUME NEW k \in Kinds
          PROVE  /\ Books(inv', bank', floor', owes', due', k) <= 0
                 /\ careful => Books(inv', bank', floor', owes', due', k) = 0
        <3>1. PICK w \in Int, w1 \in Int, b \in Int, b1 \in Int :
                /\ w = Weight(inv[c], bank[c], floor, owes[c], due, k)
                /\ w1 = Weight(st, bk, f, o, d, k)
                /\ b = Books(inv, bank, floor, owes, due, k)
                /\ b1 = Books(inv', bank', floor', owes', due', k)
            BY <1>11
        <3>2. b1 - b = w1 - w
            BY <1>10, <3>1
        <3>3. w1 <= w /\ (careful => w1 = w)
            BY <3>1 DEF Balanced
        <3>4. b <= 0 /\ (careful => b = 0)
            BY <3>1 DEF Inv, BooksOK
        <3>5. b1 <= 0 /\ (careful => b1 = 0)
            BY <3>2, <3>3, <3>4
        <3>. QED BY <3>1, <3>5
    <2>. QED BY <1>2, <2>1 DEF BooksOK
<1>13. FloorOK(floor')
    BY <1>2
<1>14. FloorOK(floor)'
    BY <1>13 DEF FloorOK
<1>. QED BY <1>6, <1>8, <1>9, <1>12, <1>14 DEF Inv

-----------------------------------------------------------------------------
(* Each action keeps the invariant.                                        *)

LEMMA Here ==
    ASSUME Inv, NEW c \in Clients
    PROVE  /\ inv[c] \in Store /\ StoreOK(inv[c], MaxInv)
           /\ bank[c] \in Store /\ StoreOK(bank[c], MaxBank)
           /\ floor \in Seq(Item) /\ FloorOK(floor)
           /\ owes[c] \in Debt \cup {None} /\ seat[c] \in Seats \cup {None}
           /\ Owes(seat[c], inv[c], owes[c])
           /\ due \in [Kinds -> Int] /\ playerNum \in [Seats -> Int] /\ gameNum \in Nat
BY DEF Inv, TypeOK

LEMMA Kept ==
    ASSUME Inv, NEW c \in Clients
    PROVE  /\ inv = [inv EXCEPT ![c] = inv[c]] /\ bank = [bank EXCEPT ![c] = bank[c]]
           /\ owes = [owes EXCEPT ![c] = owes[c]] /\ seat = [seat EXCEPT ![c] = seat[c]]
BY DEF Inv, TypeOK

LEMMA Sizes == MaxInv \in Nat /\ MaxBank \in Nat /\ Meseta \in Kinds
BY ItemsAssumption

LEMMA NoDebt == \A k : DebtOf(None, k) = 0
BY DEF DebtOf

\* The numbers a Weight is made of.
LEMMA Numbers ==
    ASSUME NEW st \in Store, NEW bk \in Store, NEW f \in Seq(Item),
           NEW o \in Debt \cup {None}, NEW d \in [Kinds -> Int], NEW k \in Kinds
    PROVE  /\ Amount(f, k) \in Nat /\ InStore(st, k) \in Nat /\ InStore(bk, k) \in Nat
           /\ d[k] \in Int /\ DebtOf(o, k) \in Nat
BY AmountType, InStoreType, DebtType

LEMMA NumbersHere ==
    ASSUME Inv, NEW c \in Clients, NEW k \in Kinds
    PROVE  /\ Amount(floor, k) \in Nat /\ InStore(inv[c], k) \in Nat
           /\ InStore(bank[c], k) \in Nat /\ due[k] \in Int /\ DebtOf(owes[c], k) \in Nat
BY Here, Numbers

LEMMA BookedIs ==
    ASSUME NEW d \in [Kinds -> Int], NEW j \in Kinds, NEW m \in Int
    PROVE  /\ Booked(d, j, m) \in [Kinds -> Int]
           /\ \A k \in Kinds : Booked(d, j, m)[k] = d[k] + IF k = j THEN m ELSE 0
BY DEF Booked

LEMMA BookedLess ==
    ASSUME NEW d \in [Kinds -> Int], NEW it \in Item
    PROVE  /\ Booked(d, it.kind, -it.n) \in [Kinds -> Int]
           /\ \A k \in Kinds : Booked(d, it.kind, -it.n)[k] = d[k] - NumberOf(it, k)
<1>1. it.kind \in Kinds /\ it.n \in Nat
    BY ItemFields
<1>. QED BY <1>1 DEF Booked, NumberOf

\* The next number of c's seat makes an id.
LEMMA NextId ==
    ASSUME Inv, NEW c \in Clients, seat[c] # None
    PROVE  /\ seat[c] \in Seats /\ playerNum[seat[c]] \in Int
           /\ <<seat[c], playerNum[seat[c]] + 1>> \in Ids
           /\ [playerNum EXCEPT ![seat[c]] = @ + 1] \in [Seats -> Int]
<1>1. seat[c] \in Seats /\ playerNum \in [Seats -> Int]
    BY Here
<1>2. playerNum[seat[c]] \in Int
    BY <1>1
<1>3. seat[c] \in 0 .. MaxClients
    BY <1>1, ItemsAssumption DEF Seats
<1>. QED BY <1>1, <1>2, <1>3 DEF Ids

\* What is asked for is there.
LEMMA Asked ==
    ASSUME Inv, NEW c \in Clients, NEW id \in Own(c) \cup {MesetaId}, NEW n \in Asks(c, id)
    PROVE  id \in Ids /\ n \in Nat \ {0} /\ Holds(inv[c], id, n)
<1>1. inv[c] \in Store /\ StoreOK(inv[c], MaxInv)
    BY Here
<1>2. inv[c].items \in Seq(Item) /\ inv[c].meseta \in Nat
    BY <1>1, StoreFields
<1>3. CASE id = MesetaId
    BY <1>2, <1>3 DEF Asks, Holds, Ids
<1>4. CASE id # MesetaId
    <2>1. PICK i \in 1 .. Len(inv[c].items) : inv[c].items[i].id = id
        BY <1>2, <1>4 DEF Own
    <2>2. inv[c].items[i] \in Item /\ Has(inv[c].items, id)
        BY <1>2, <2>1 DEF Has
    <2>3. id \in Ids
        BY <2>1, <2>2, ItemFields
    <2>4. Whole(c, id) \in Nat
        BY <1>1, <2>2, Found, ItemFields DEF Whole
    <2>5. n \in Nat \ {0}
        BY <1>4, <2>4 DEF Asks
    <2>. QED BY <1>4, <2>2, <2>3, <2>5 DEF Holds
<1>. QED BY <1>3, <1>4

LEMMA FloorCons ==
    ASSUME NEW f \in Seq(Item), FloorOK(f), NEW it \in Item, it.n \in 1 .. Stack[it.kind]
    PROVE  Cons(it, f) \in Seq(Item) /\ FloorOK(Cons(it, f))
<1>1. PICK t : t = Cons(it, f)
    OBVIOUS
<1>2. t \in Seq(Item) /\ t[1] = it /\ Len(t) = Len(f) + 1 /\ Shorter(f, t, 1)
    BY <1>1, Consed
<1>3. DOMAIN t = 1 .. Len(t) /\ DOMAIN f = 1 .. Len(f) /\ Len(f) \in Nat
    BY <1>2
<1>4. ASSUME NEW i \in 1 .. Len(t) PROVE t[i].n \in 1 .. Stack[t[i].kind]
    <2>1. CASE i = 1
        BY <1>2, <2>1
    <2>2. CASE i # 1
        <3>1. PICK j \in 1 .. Len(f) : i = j + 1
            <4>1. i - 1 \in 1 .. Len(f) /\ i = (i - 1) + 1
                BY <1>2, <1>3, <2>2
            <4>. QED BY <4>1
        <3>2. f[j] = t[i]
            BY <1>2, <3>1 DEF Shorter
        <3>. QED BY <1>3, <3>2 DEF FloorOK
    <2>. QED BY <2>1, <2>2
<1>. QED BY <1>1, <1>2, <1>3, <1>4 DEF FloorOK

LEMMA FloorRemoved ==
    ASSUME NEW f \in Seq(Item), FloorOK(f), NEW i \in 1 .. Len(f)
    PROVE  RemoveAt(f, i) \in Seq(Item) /\ FloorOK(RemoveAt(f, i))
<1>1. PICK t : t = RemoveAt(f, i)
    OBVIOUS
<1>2. t \in Seq(Item) /\ Shorter(t, f, i)
    BY <1>1, Removed
<1>3. DOMAIN t = 1 .. Len(t) /\ DOMAIN f = 1 .. Len(f) /\ Len(f) \in Nat
    BY <1>2
<1>4. ASSUME NEW j \in 1 .. Len(t) PROVE t[j].n \in 1 .. Stack[t[j].kind]
    <2>1. PICK l : l = IF j < i THEN j ELSE j + 1
        OBVIOUS
    <2>2. l \in 1 .. Len(f) /\ t[j] = f[l]
        BY <1>2, <1>3, <2>1 DEF Shorter
    <2>. QED BY <1>3, <2>2 DEF FloorOK
<1>. QED BY <1>1, <1>2, <1>3, <1>4 DEF FloorOK

\* What lies on the floor under an id.
LEMMA OnFloor ==
    ASSUME Inv, NEW id, Has(floor, id)
    PROVE  LET i == Index(floor, id)
           IN  /\ i \in 1 .. Len(floor) /\ floor[i] \in Item
               /\ floor[i].n \in 1 .. Stack[floor[i].kind]
<1>1. floor \in Seq(Item) /\ FloorOK(floor)
    BY DEF Inv, TypeOK
<1>2. Index(floor, id) \in 1 .. Len(floor)
    BY <1>1, IndexIs
<1>3. floor[Index(floor, id)] \in Item /\ DOMAIN floor = 1 .. Len(floor)
    BY <1>1, <1>2
<1>. QED BY <1>1, <1>2, <1>3 DEF FloorOK

LEMMA OutKeeps ==
    ASSUME Inv, NEW c \in Clients, NEW st \in Store, NEW bk \in Store, NEW fl \in Seq(Item),
           NEW du \in [Kinds -> Int], NEW pn \in [Seats -> Int],
           StoreOK(st, MaxInv), StoreOK(bk, MaxBank), FloorOK(fl),
           inv' = [inv EXCEPT ![c] = st], bank' = [bank EXCEPT ![c] = bk],
           careful' = careful, Out(c, fl, du, pn),
           Balanced(c, st, bk, fl, None, du)
    PROVE  Inv'
<1>1. seat' = [seat EXCEPT ![c] = None] /\ owes' = [owes EXCEPT ![c] = None]
    BY DEF Out
<1>2. Owes(None, st, None)
    BY DEF Owes
<1>3. CASE Inside = {c}
    <2>1. PICK d : d = [k \in Kinds |-> du[k] - Amount(fl, k)]
        OBVIOUS
    <2>2. d \in [Kinds -> Int]
        BY <2>1, AmountType
    <2>3. <<>> \in Seq(Item)
        OBVIOUS
    <2>4. Moves(c, st, bk, <<>>, None, d, None)
        <3>1. /\ floor' = <<>> /\ playerNum' = [s \in Seats |-> 0] /\ gameNum' = 0 /\ due' = d
            BY <1>3, <2>1 DEF Out
        <3>. QED BY <1>1, <2>2, <2>3, <3>1 DEF Moves
    <2>5. Balanced(c, st, bk, <<>>, None, d)
        <3>1. \A k \in Kinds : Weight(st, bk, <<>>, None, d, k) = Weight(st, bk, fl, None, du, k)
            <4>. SUFFICES ASSUME NEW k \in Kinds
                          PROVE  Weight(st, bk, <<>>, None, d, k)
                                   = Weight(st, bk, fl, None, du, k)
                OBVIOUS
            <4>1. /\ Amount(fl, k) \in Nat /\ InStore(st, k) \in Nat /\ InStore(bk, k) \in Nat
                  /\ du[k] \in Int
                BY Numbers
            <4>2. d[k] = du[k] - Amount(fl, k) /\ Amount(<<>>, k) = 0 /\ DebtOf(None, k) = 0
                BY <2>1, AmountNone, NoDebt
            <4>. QED BY <4>1, <4>2 DEF Weight
        <3>. QED BY <3>1 DEF Balanced
    <2>6. FloorOK(<<>>)
        BY DEF FloorOK
    <2>. QED BY <1>2, <2>4, <2>5, <2>6, StepKeeps
<1>4. CASE Inside # {c}
    <2>1. Moves(c, st, bk, fl, None, du, None)
        <3>1. floor' = fl /\ due' = du /\ playerNum' = pn /\ gameNum' = gameNum
            BY <1>4 DEF Out
        <3>2. gameNum \in Nat
            BY Here
        <3>. QED BY <1>1, <3>1, <3>2 DEF Moves
    <2>. QED BY <1>2, <2>1, StepKeeps
<1>. QED BY <1>3, <1>4

LEMMA RenumberIs ==
    ASSUME NEW st \in Store, NEW max \in Nat, StoreOK(st, max), NEW s \in Seats, NEW first \in Int
    PROVE  /\ Renumber(st, s, first) \in Store /\ StoreOK(Renumber(st, s, first), max)
           /\ \A k : InStore(Renumber(st, s, first), k) = InStore(st, k)
<1>0. /\ st.items \in Seq(Item) /\ st.meseta \in 0 .. Stack[Meseta] /\ Good(st.items, max)
      /\ DOMAIN st.items = 1 .. Len(st.items) /\ Len(st.items) \in Nat
    BY StoreFields, GoodIs
<1>1. PICK t : t = [i \in DOMAIN st.items |-> [st.items[i] EXCEPT !.id = <<s, first + i - 1>>]]
    OBVIOUS
<1>2. ASSUME NEW i \in 1 .. Len(st.items)
      PROVE  t[i] \in Item /\ t[i].kind = st.items[i].kind /\ t[i].n = st.items[i].n
    <2>1. t[i] = [st.items[i] EXCEPT !.id = <<s, first + i - 1>>]
        BY <1>0, <1>1
    <2>2. st.items[i] \in Item
        BY <1>0
    <2>3. <<s, first + i - 1>> \in Ids
        <3>1. s \in 0 .. MaxClients
            BY ItemsAssumption DEF Seats
        <3>. QED BY <1>0, <3>1 DEF Ids
    <2>. QED BY <2>1, <2>2, <2>3, NewId
<1>3. t \in Seq(Item) /\ Len(t) = Len(st.items)
    <2>1. t \in [1 .. Len(st.items) -> Item]
        <3>1. t = [i \in 1 .. Len(st.items) |-> t[i]]
            BY <1>0, <1>1
        <3>. QED BY <1>2, <3>1
    <2>. QED BY <1>0, <2>1
<1>4. Good(t, max)
    BY <1>0, <1>2, <1>3 DEF Good
<1>5. PICK w : w = Renumber(st, s, first)
    OBVIOUS
<1>6. w = [st EXCEPT !.items = t]
    BY <1>1, <1>5 DEF Renumber, Store
<1>7. w \in Store /\ w.items = t /\ w.meseta = st.meseta
    BY <1>3, <1>6, NewItems
<1>8. StoreOK(w, max)
    BY <1>0, <1>4, <1>7, GoodIs
<1>9. \A k : Amount(t, k) = Amount(st.items, k)
    <2>1. PICK u : u = st.items
        OBVIOUS
    <2>2. /\ u \in Seq(Item) /\ Len(t) = Len(u)
          /\ \A i \in 1 .. Len(u) : t[i].kind = u[i].kind /\ t[i].n = u[i].n
        BY <1>0, <1>2, <1>3, <2>1
    <2>3. \A k : Amount(t, k) = Amount(u, k)
        BY <1>3, <2>2, AmountSame
    <2>. QED BY <2>1, <2>3
<1>10. \A k : InStore(w, k) = InStore(st, k)
    BY <1>7, <1>9 DEF InStore
<1>. QED BY <1>5, <1>7, <1>8, <1>10

LEMMA KeepsJoin ==
    ASSUME Inv, NEW c \in Clients, Join(c)
    PROVE  Inv'
<1>1. PICK s \in Seats :
        LET first == IF playerNum[s] < 0 THEN Wrapped ELSE playerNum[s]
        IN  /\ inv' = [inv EXCEPT ![c] = Renumber(@, s, first)]
            /\ playerNum' = [playerNum EXCEPT ![s] = first + Len(inv[c].items) - 1]
            /\ seat' = [seat EXCEPT ![c] = s]
    BY DEF Join
<1>2. PICK first : first = IF playerNum[s] < 0 THEN Wrapped ELSE playerNum[s]
    OBVIOUS
<1>3. PICK st : st = Renumber(inv[c], s, first)
    OBVIOUS
<1>4. first \in Int
    BY <1>2, Here DEF Wrapped
<1>5. seat[c] = None /\ owes[c] = None
    BY Here DEF Join, Owes
<1>6. st \in Store /\ StoreOK(st, MaxInv) /\ \A k : InStore(st, k) = InStore(inv[c], k)
    BY <1>3, <1>4, Here, Sizes, RenumberIs
<1>7. /\ inv' = [inv EXCEPT ![c] = st]
      /\ playerNum' = [playerNum EXCEPT ![s] = first + Len(inv[c].items) - 1]
      /\ seat' = [seat EXCEPT ![c] = s]
    BY <1>1, <1>2, <1>3
<1>8. playerNum' \in [Seats -> Int]
    <2>1. inv[c].items \in Seq(Item)
        BY Here, StoreFields
    <2>2. Len(inv[c].items) \in Nat
        BY <2>1
    <2>. QED BY <1>4, <1>7, <2>2, Here
<1>9. Moves(c, st, bank[c], floor, owes[c], due, s)
    <2>1. UNCHANGED <<bank, floor, gameNum, owes, due, careful>>
        BY DEF Join
    <2>. QED BY <1>6, <1>7, <1>8, <2>1, Here, Kept DEF Moves
<1>10. Balanced(c, st, bank[c], floor, owes[c], due)
    <2>1. ASSUME NEW k \in Kinds
          PROVE  Weight(st, bank[c], floor, owes[c], due, k)
                   = Weight(inv[c], bank[c], floor, owes[c], due, k)
        BY <1>6 DEF Weight
    <2>2. ASSUME NEW k \in Kinds
          PROVE  Weight(inv[c], bank[c], floor, owes[c], due, k) \in Int
        BY NumbersHere DEF Weight
    <2>. QED BY <2>1, <2>2 DEF Balanced
<1>11. Owes(s, st, owes[c])
    BY <1>5 DEF Owes
<1>. QED BY <1>6, <1>9, <1>10, <1>11, Here, StepKeeps

LEMMA KeepsLeave ==
    ASSUME Inv, NEW c \in Clients, Leave(c)
    PROVE  Inv'
<1>1. PICK d : d = [k \in Kinds |-> due[k] + OwedBy(c, k)]
    OBVIOUS
<1>2. \A k \in Kinds : d[k] = due[k] + DebtOf(owes[c], k)
    BY <1>1 DEF OwedBy, DebtOf
<1>3. d \in [Kinds -> Int]
    BY <1>1, NumbersHere DEF OwedBy, DebtOf
<1>4. Out(c, floor, d, playerNum) /\ inv' = inv /\ bank' = bank /\ careful' = careful
    BY <1>1 DEF Leave
<1>5. Balanced(c, inv[c], bank[c], floor, None, d)
    <2>1. ASSUME NEW k \in Kinds
          PROVE  /\ Weight(inv[c], bank[c], floor, None, d, k)
                      = Weight(inv[c], bank[c], floor, owes[c], due, k)
                 /\ Weight(inv[c], bank[c], floor, owes[c], due, k) \in Int
        BY <1>2, NumbersHere, NoDebt DEF Weight
    <2>. QED BY <2>1 DEF Balanced
<1>. QED BY <1>3, <1>4, <1>5, Here, Kept, OutKeeps

LEMMA KeepsGameDrop ==
    ASSUME Inv, NEW k \in Kinds, GameDrop(k, 1)
    PROVE  Inv'
<1>1. PICK c \in Clients : TRUE
    BY DEF GameDrop, Inside
<1>2. PICK it : it = [id |-> <<TheGame, gameNum>>, kind |-> k, n |-> 1]
    OBVIOUS
<1>3. it \in Item /\ it.kind = k /\ it.n = 1 /\ it.n \in 1 .. Stack[it.kind]
    <2>1. <<TheGame, gameNum>> \in Ids
        BY <1>1, Here, ItemsAssumption DEF Ids, TheGame
    <2>2. Stack[k] \in Nat \ {0}
        BY ItemsAssumption
    <2>. QED BY <1>2, <2>1, <2>2 DEF Item
<1>4. PICK f : f = Cons(it, floor)
    OBVIOUS
<1>5. PICK d : d = Booked(due, k, 1)
    OBVIOUS
<1>6. /\ floor' = f /\ due' = d /\ gameNum' = gameNum + 1
      /\ UNCHANGED <<seat, inv, bank, playerNum, owes, careful>>
    BY <1>2, <1>4, <1>5 DEF GameDrop
<1>7. f \in Seq(Item) /\ FloorOK(f)
    BY <1>1, <1>3, <1>4, Here, FloorCons
<1>8. d \in [Kinds -> Int] /\ \A j \in Kinds : d[j] = due[j] + NumberOf(it, j)
    <2>1. due \in [Kinds -> Int] /\ 1 \in Int
        BY <1>1, Here
    <2>2. d \in [Kinds -> Int] /\ \A j \in Kinds : d[j] = due[j] + IF j = k THEN 1 ELSE 0
        BY <1>5, <2>1, BookedIs
    <2>3. \A j \in Kinds : NumberOf(it, j) = IF j = k THEN 1 ELSE 0
        BY <1>3 DEF NumberOf
    <2>. QED BY <2>2, <2>3
<1>9. Moves(c, inv[c], bank[c], f, owes[c], d, seat[c])
    BY <1>1, <1>6, <1>7, <1>8, Here, Kept DEF Moves
<1>10. Balanced(c, inv[c], bank[c], f, owes[c], d)
    <2>1. ASSUME NEW j \in Kinds
          PROVE  /\ Weight(inv[c], bank[c], f, owes[c], d, j)
                      = Weight(inv[c], bank[c], floor, owes[c], due, j)
                 /\ Weight(inv[c], bank[c], floor, owes[c], due, j) \in Int
        <3>1. Amount(f, j) = Amount(floor, j) + NumberOf(it, j)
            BY <1>1, <1>3, <1>4, Here, AmountCons
        <3>2. d[j] = due[j] + NumberOf(it, j) /\ NumberOf(it, j) \in Nat
            BY <1>3, <1>8, ItemNumber
        <3>. QED BY <1>1, <3>1, <3>2, NumbersHere DEF Weight
    <2>. QED BY <2>1 DEF Balanced
<1>. QED BY <1>1, <1>7, <1>9, <1>10, Here, StepKeeps

LEMMA KeepsPickup ==
    ASSUME Inv, NEW c \in Clients, NEW id, Pickup(c, id)
    PROVE  Inv'
<1>1. PICK i : i = Index(floor, id)
    OBVIOUS
<1>2. PICK it : it = floor[i]
    OBVIOUS
<1>3. PICK rest : rest = RemoveAt(floor, i)
    OBVIOUS
<1>4. seat[c] # None /\ owes[c] = None /\ Has(floor, id)
    BY DEF Pickup, Ready
<1>5. i \in 1 .. Len(floor) /\ it \in Item /\ it.n \in 1 .. Stack[it.kind]
    BY <1>1, <1>2, <1>4, OnFloor
<1>6. rest \in Seq(Item) /\ FloorOK(rest)
    BY <1>3, <1>5, Here, FloorRemoved
<1>7. \A k \in Kinds : Amount(rest, k) = Amount(floor, k) - NumberOf(it, k)
    BY <1>2, <1>3, <1>5, Here, AmountRemoved
<1>8. /\ careful => Fits(inv[c], it, MaxInv)
      /\ bank' = bank /\ careful' = careful
      /\ \/ /\ Accepts(inv[c], it, MaxInv)
            /\ inv' = [inv EXCEPT ![c] = With(inv[c], it)]
            /\ floor' = rest
            /\ UNCHANGED <<seat, playerNum, gameNum, owes, due>>
         \/ /\ ~ Accepts(inv[c], it, MaxInv)
            /\ Out(c, rest, due, playerNum)
            /\ UNCHANGED inv
    BY <1>1, <1>2, <1>3 DEF Pickup
<1>9. CASE Accepts(inv[c], it, MaxInv)
    <2>1. PICK st : st = With(inv[c], it)
        OBVIOUS
    <2>2. /\ st \in Store /\ StoreOK(st, MaxInv)
          /\ \A k : /\ InStore(st, k) <= InStore(inv[c], k) + NumberOf(it, k)
                    /\ Fits(inv[c], it, MaxInv) =>
                         InStore(st, k) = InStore(inv[c], k) + NumberOf(it, k)
        BY <1>5, <1>9, <2>1, Here, Sizes, WithIs
    <2>3. Moves(c, st, bank[c], rest, owes[c], due, seat[c])
        BY <1>6, <1>8, <1>9, <2>1, <2>2, Here, Kept DEF Moves
    <2>4. Balanced(c, st, bank[c], rest, owes[c], due)
        <3>1. ASSUME NEW k \in Kinds
              PROVE  /\ Weight(st, bank[c], rest, owes[c], due, k)
                          <= Weight(inv[c], bank[c], floor, owes[c], due, k)
                     /\ careful => Weight(st, bank[c], rest, owes[c], due, k)
                                     = Weight(inv[c], bank[c], floor, owes[c], due, k)
            <4>1. NumberOf(it, k) \in Nat /\ InStore(st, k) \in Nat
                BY <1>5, <2>2, ItemNumber, InStoreType
            <4>2. Amount(rest, k) = Amount(floor, k) - NumberOf(it, k)
                BY <1>7
            <4>3. /\ InStore(st, k) <= InStore(inv[c], k) + NumberOf(it, k)
                  /\ careful => InStore(st, k) = InStore(inv[c], k) + NumberOf(it, k)
                BY <1>8, <2>2
            <4>. QED BY <4>1, <4>2, <4>3, NumbersHere DEF Weight
        <3>. QED BY <3>1 DEF Balanced
    <2>5. Owes(seat[c], st, owes[c])
        BY <1>4 DEF Owes
    <2>. QED BY <1>6, <2>2, <2>3, <2>4, <2>5, Here, StepKeeps
<1>10. CASE ~ Accepts(inv[c], it, MaxInv)
    <2>1. ~ careful /\ Out(c, rest, due, playerNum) /\ inv' = inv
        BY <1>8, <1>10 DEF Fits
    <2>2. Balanced(c, inv[c], bank[c], rest, None, due)
        <3>1. ASSUME NEW k \in Kinds
              PROVE  Weight(inv[c], bank[c], rest, None, due, k)
                       <= Weight(inv[c], bank[c], floor, owes[c], due, k)
            <4>1. NumberOf(it, k) \in Nat
                BY <1>5, ItemNumber
            <4>2. Amount(rest, k) = Amount(floor, k) - NumberOf(it, k)
                BY <1>7
            <4>. QED BY <1>4, <4>1, <4>2, NumbersHere DEF Weight
        <3>. QED BY <2>1, <3>1 DEF Balanced
    <2>. QED BY <1>6, <1>8, <2>1, <2>2, Here, Kept, OutKeeps
<1>. QED BY <1>9, <1>10

LEMMA KeepsDropItem ==
    ASSUME Inv, NEW c \in Clients, NEW id \in Own(c) \cup {MesetaId}, NEW n \in Asks(c, id),
           DropItem(c, id, n)
    PROVE  Inv'
<1>1. PICK it : it = Taken(inv[c], id, n)
    OBVIOUS
<1>2. PICK st : st = Without(inv[c], id, n)
    OBVIOUS
<1>3. PICK f : f = Cons(it, floor)
    OBVIOUS
<1>4. seat[c] # None /\ owes[c] = None
    BY DEF DropItem, Ready
<1>5. id \in Ids /\ n \in Nat \ {0} /\ Holds(inv[c], id, n)
    BY Asked
<1>6. it \in Item /\ it.n \in 1 .. Stack[it.kind]
    BY <1>1, <1>5, Here, TakenIs
<1>7. /\ st \in Store /\ StoreOK(st, MaxInv)
      /\ \A k : InStore(st, k) = InStore(inv[c], k) - NumberOf(it, k)
    BY <1>1, <1>2, <1>5, Here, Sizes, WithoutIs
<1>8. f \in Seq(Item) /\ FloorOK(f)
    BY <1>3, <1>6, Here, FloorCons
<1>9. Moves(c, st, bank[c], f, owes[c], due, seat[c])
    <2>1. /\ inv' = [inv EXCEPT ![c] = st] /\ floor' = f
          /\ UNCHANGED <<seat, bank, playerNum, gameNum, owes, due, careful>>
        BY <1>1, <1>2, <1>3 DEF DropItem
    <2>. QED BY <1>7, <1>8, <2>1, Here, Kept DEF Moves
<1>10. Balanced(c, st, bank[c], f, owes[c], due)
    <2>1. ASSUME NEW k \in Kinds
          PROVE  /\ Weight(st, bank[c], f, owes[c], due, k)
                      = Weight(inv[c], bank[c], floor, owes[c], due, k)
                 /\ Weight(inv[c], bank[c], floor, owes[c], due, k) \in Int
        <3>1. Amount(f, k) = Amount(floor, k) + NumberOf(it, k)
            BY <1>3, <1>6, Here, AmountCons
        <3>2. InStore(st, k) = InStore(inv[c], k) - NumberOf(it, k) /\ NumberOf(it, k) \in Nat
            BY <1>6, <1>7, ItemNumber
        <3>. QED BY <3>1, <3>2, NumbersHere DEF Weight
    <2>. QED BY <2>1 DEF Balanced
<1>11. Owes(seat[c], st, owes[c])
    BY <1>4 DEF Owes
<1>. QED BY <1>7, <1>8, <1>9, <1>10, <1>11, Here, StepKeeps

LEMMA KeepsSplitDrop ==
    ASSUME Inv, NEW c \in Clients, NEW id \in Own(c) \cup {MesetaId}, NEW n \in Asks(c, id),
           SplitDrop(c, id, n)
    PROVE  Inv'
<1>1. PICK old : old = Taken(inv[c], id, n)
    OBVIOUS
<1>2. PICK left : left = Without(inv[c], id, n)
    OBVIOUS
<1>3. PICK it : it = [old EXCEPT !.id = <<TheGame, gameNum + 1>>]
    OBVIOUS
<1>4. PICK st : st = With(left, it)
    OBVIOUS
<1>5. PICK f : f = Cons(it, floor)
    OBVIOUS
<1>6. PICK o : o = [id |-> id, kind |-> it.kind, n |-> it.n]
    OBVIOUS
<1>7. /\ seat[c] # None /\ owes[c] = None
      /\ careful /\ id # MesetaId => n < Whole(c, id)
      /\ inv' = [inv EXCEPT ![c] = st] /\ floor' = f /\ gameNum' = gameNum + 1
      /\ owes' = [owes EXCEPT ![c] = o]
      /\ UNCHANGED <<seat, bank, playerNum, due, careful>>
    BY <1>1, <1>2, <1>3, <1>4, <1>5, <1>6 DEF SplitDrop, Ready
<1>8. id \in Ids /\ n \in Nat \ {0} /\ Holds(inv[c], id, n)
    BY Asked
<1>9. old \in Item /\ old.n \in 1 .. Stack[old.kind]
    BY <1>1, <1>8, Here, TakenIs
<1>10. it \in Item /\ it.kind = old.kind /\ it.n = old.n
    <2>1. <<TheGame, gameNum + 1>> \in Ids
        BY Here, ItemsAssumption DEF Ids, TheGame
    <2>. QED BY <1>3, <1>9, <2>1, NewId
<1>11. /\ left \in Store /\ StoreOK(left, MaxInv)
       /\ \A k : InStore(left, k) = InStore(inv[c], k) - NumberOf(old, k)
    BY <1>1, <1>2, <1>8, Here, Sizes, WithoutIs
<1>12. /\ Accepts(left, it, MaxInv)
       /\ id = MesetaId \/ n < inv[c].items[Index(inv[c].items, id)].n
            => Fits(left, it, MaxInv) /\ Payable(st, o)
    <2>1. it.kind = Taken(inv[c], id, n).kind /\ it.n = Taken(inv[c], id, n).n
        BY <1>1, <1>10
    <2>. QED BY <1>2, <1>4, <1>6, <1>8, <1>10, <2>1, Here, Sizes, SplitIs
<1>13. careful => Fits(left, it, MaxInv) /\ Payable(st, o)
    BY <1>7, <1>12 DEF Whole
<1>14. it.n \in 1 .. Stack[it.kind]
    BY <1>9, <1>10
<1>15. /\ st \in Store /\ StoreOK(st, MaxInv)
       /\ \A k : /\ InStore(st, k) <= InStore(left, k) + NumberOf(it, k)
                 /\ Fits(left, it, MaxInv) =>
                      InStore(st, k) = InStore(left, k) + NumberOf(it, k)
    BY <1>4, <1>10, <1>11, <1>12, <1>14, Sizes, WithIs
<1>16. f \in Seq(Item) /\ FloorOK(f)
    BY <1>5, <1>10, <1>14, Here, FloorCons
<1>17. o \in Debt /\ o # None /\ \A k : DebtOf(o, k) = NumberOf(it, k)
    <2>1. it.kind \in Kinds /\ it.n \in Nat \ {0}
        BY <1>10, <1>14, ItemFields
    <2>2. o \in Debt /\ o.kind = it.kind /\ o.n = it.n
        BY <1>6, <1>8, <2>1 DEF Debt
    <2>3. o \in [id : Ids, kind : Kinds, n : Nat]
        BY <1>6, <1>8, <2>1
    <2>4. o # None
        BY <2>3, ItemsAssumption
    <2>. QED BY <2>2, <2>4 DEF DebtOf, NumberOf
<1>18. Moves(c, st, bank[c], f, o, due, seat[c])
    BY <1>7, <1>15, <1>16, <1>17, Here, Kept DEF Moves
<1>19. Balanced(c, st, bank[c], f, o, due)
    <2>1. ASSUME NEW k \in Kinds
          PROVE  /\ Weight(st, bank[c], f, o, due, k)
                      <= Weight(inv[c], bank[c], floor, owes[c], due, k)
                 /\ careful => Weight(st, bank[c], f, o, due, k)
                                 = Weight(inv[c], bank[c], floor, owes[c], due, k)
        <3>1. Amount(f, k) = Amount(floor, k) + NumberOf(it, k)
            BY <1>5, <1>10, Here, AmountCons
        <3>2. NumberOf(it, k) \in Nat /\ NumberOf(old, k) = NumberOf(it, k)
            BY <1>10, ItemNumber DEF NumberOf
        <3>3. /\ InStore(left, k) = InStore(inv[c], k) - NumberOf(it, k)
              /\ InStore(st, k) \in Nat /\ InStore(left, k) \in Nat
            BY <1>11, <1>15, <3>2, InStoreType
        <3>4. /\ InStore(st, k) <= InStore(left, k) + NumberOf(it, k)
              /\ careful => InStore(st, k) = InStore(left, k) + NumberOf(it, k)
            BY <1>13, <1>15
        <3>5. DebtOf(o, k) = NumberOf(it, k) /\ DebtOf(owes[c], k) = 0
            BY <1>7, <1>17, NoDebt
        <3>. QED BY <3>1, <3>2, <3>3, <3>4, <3>5, NumbersHere DEF Weight
    <2>. QED BY <2>1 DEF Balanced
<1>20. Owes(seat[c], st, o)
    BY <1>7, <1>13 DEF Owes
<1>. QED BY <1>15, <1>16, <1>18, <1>19, <1>20, Here, StepKeeps

LEMMA KeepsPaySplit ==
    ASSUME Inv, NEW c \in Clients, PaySplit(c)
    PROVE  Inv'
<1>1. PICK o : o = owes[c]
    OBVIOUS
<1>2. PICK it : it = Taken(inv[c], o.id, o.n)
    OBVIOUS
<1>3. PICK st : st = Without(inv[c], o.id, o.n)
    OBVIOUS
<1>4. PICK d : d = IF careful THEN due
                     ELSE Booked(Booked(due, o.kind, o.n), it.kind, -it.n)
    OBVIOUS
<1>5. /\ seat[c] # None /\ o # None /\ Holds(inv[c], o.id, o.n)
      /\ inv' = [inv EXCEPT ![c] = st] /\ owes' = [owes EXCEPT ![c] = None] /\ due' = d
      /\ UNCHANGED <<seat, bank, floor, playerNum, gameNum, careful>>
    BY <1>1, <1>2, <1>3, <1>4 DEF PaySplit
<1>6. o \in Debt /\ o.id \in Ids /\ o.kind \in Kinds /\ o.n \in Nat \ {0}
    BY <1>1, <1>5, Here DEF Debt
<1>7. it \in Item /\ it.n \in 1 .. Stack[it.kind]
    BY <1>2, <1>5, <1>6, Here, TakenIs
<1>8. /\ st \in Store /\ StoreOK(st, MaxInv)
      /\ \A k : InStore(st, k) = InStore(inv[c], k) - NumberOf(it, k)
    BY <1>2, <1>3, <1>5, <1>6, Here, Sizes, WithoutIs
<1>9. careful => it.kind = o.kind /\ it.n = o.n
    <2>. SUFFICES ASSUME careful PROVE it.kind = o.kind /\ it.n = o.n
        OBVIOUS
    <2>1. Payable(inv[c], o)
        BY <1>1, <1>5, Here DEF Owes
    <2>2. CASE o.id = MesetaId
        BY <1>2, <2>1, <2>2 DEF Payable, Taken
    <2>3. CASE o.id # MesetaId
        <3>1. PICK x : x = inv[c].items[Index(inv[c].items, o.id)]
            OBVIOUS
        <3>2. x.kind = o.kind /\ Stack[x.kind] > 1 /\ o.n < x.n
            BY <2>1, <2>3, <3>1 DEF Payable
        <3>3. IsPart(x, o.n)
            BY <1>6, <3>2 DEF IsPart
        <3>4. it = [x EXCEPT !.id = NoId, !.n = o.n]
            BY <1>2, <2>3, <3>1, <3>3 DEF Taken
        <3>5. x \in Item
            BY <1>5, <2>3, <3>1, Here, Found DEF Holds
        <3>. QED BY <3>2, <3>4, <3>5 DEF Item
    <2>. QED BY <2>2, <2>3
<1>10. /\ d \in [Kinds -> Int]
       /\ \A k \in Kinds : d[k] = IF careful THEN due[k]
                                  ELSE due[k] + DebtOf(o, k) - NumberOf(it, k)
    <2>1. CASE careful
        BY <1>4, <2>1, Here
    <2>2. CASE ~ careful
        <3>1. it.kind \in Kinds /\ it.n \in Nat
            BY <1>7, ItemFields
        <3>2. PICK e : e = Booked(due, o.kind, o.n)
            OBVIOUS
        <3>3. e \in [Kinds -> Int] /\ \A k \in Kinds : e[k] = due[k] + DebtOf(o, k)
            <4>1. PICK j, m : j = o.kind /\ m = o.n
                OBVIOUS
            <4>2. due \in [Kinds -> Int] /\ j \in Kinds /\ m \in Int /\ e = Booked(due, j, m)
                BY <1>6, <3>2, <4>1, Here
            <4>3. e \in [Kinds -> Int] /\ \A k \in Kinds : e[k] = due[k] + IF k = j THEN m ELSE 0
                BY <4>2, BookedIs
            <4>4. \A k \in Kinds : DebtOf(o, k) = IF k = j THEN m ELSE 0
                BY <1>5, <4>1 DEF DebtOf
            <4>. QED BY <4>3, <4>4
        <3>4. d = Booked(e, it.kind, -it.n)
            BY <1>4, <2>2, <3>2
        <3>5. d \in [Kinds -> Int] /\ \A k \in Kinds : d[k] = e[k] - NumberOf(it, k)
            BY <1>7, <3>3, <3>4, BookedLess
        <3>6. \A k \in Kinds : d[k] = due[k] + DebtOf(o, k) - NumberOf(it, k)
            <4>1. \A k \in Kinds : due[k] \in Int /\ DebtOf(o, k) \in Nat /\ NumberOf(it, k) \in Nat
                BY <1>6, <1>7, Here, DebtType, ItemNumber
            <4>. QED BY <3>3, <3>5, <4>1
        <3>. QED BY <2>2, <3>5, <3>6
    <2>. QED BY <2>1, <2>2
<1>11. Moves(c, st, bank[c], floor, None, d, seat[c])
    BY <1>5, <1>8, <1>10, Here, Kept DEF Moves
<1>12. Balanced(c, st, bank[c], floor, None, d)
    <2>1. ASSUME NEW k \in Kinds
          PROVE  /\ Weight(st, bank[c], floor, None, d, k)
                      = Weight(inv[c], bank[c], floor, owes[c], due, k)
                 /\ Weight(inv[c], bank[c], floor, owes[c], due, k) \in Int
        <3>1. InStore(st, k) = InStore(inv[c], k) - NumberOf(it, k) /\ NumberOf(it, k) \in Nat
            BY <1>7, <1>8, ItemNumber
        <3>2. DebtOf(None, k) = 0 /\ DebtOf(owes[c], k) = DebtOf(o, k)
            BY <1>1, NoDebt
        <3>3. careful => DebtOf(o, k) = NumberOf(it, k)
            BY <1>5, <1>9 DEF DebtOf, NumberOf
        <3>4. d[k] = IF careful THEN due[k] ELSE due[k] + DebtOf(o, k) - NumberOf(it, k)
            BY <1>10
        <3>. QED BY <3>1, <3>2, <3>3, <3>4, NumbersHere DEF Weight
    <2>. QED BY <2>1 DEF Balanced
<1>13. Owes(seat[c], st, None)
    BY DEF Owes
<1>. QED BY <1>8, <1>11, <1>12, <1>13, Here, StepKeeps

LEMMA KeepsDestroyItem ==
    ASSUME Inv, NEW c \in Clients, NEW id \in Own(c) \cup {MesetaId}, NEW n \in Asks(c, id),
           DestroyItem(c, id, n)
    PROVE  Inv'
<1>1. PICK it : it = Taken(inv[c], id, n)
    OBVIOUS
<1>2. PICK st : st = Without(inv[c], id, n)
    OBVIOUS
<1>3. PICK d : d = Booked(due, it.kind, -it.n)
    OBVIOUS
<1>4. /\ owes[c] = None /\ inv' = [inv EXCEPT ![c] = st] /\ due' = d
      /\ UNCHANGED <<seat, bank, floor, playerNum, gameNum, owes, careful>>
    BY <1>1, <1>2, <1>3 DEF DestroyItem, Ready
<1>5. id \in Ids /\ n \in Nat \ {0} /\ Holds(inv[c], id, n)
    BY Asked
<1>6. it \in Item /\ it.kind \in Kinds /\ it.n \in Nat
    BY <1>1, <1>5, Here, TakenIs, ItemFields
<1>7. /\ st \in Store /\ StoreOK(st, MaxInv)
      /\ \A k : InStore(st, k) = InStore(inv[c], k) - NumberOf(it, k)
    BY <1>1, <1>2, <1>5, Here, Sizes, WithoutIs
<1>8. d \in [Kinds -> Int] /\ \A k \in Kinds : d[k] = due[k] - NumberOf(it, k)
    BY <1>3, <1>6, Here, BookedLess
<1>9. Moves(c, st, bank[c], floor, owes[c], d, seat[c])
    BY <1>4, <1>7, <1>8, Here, Kept DEF Moves
<1>10. Balanced(c, st, bank[c], floor, owes[c], d)
    <2>1. ASSUME NEW k \in Kinds
          PROVE  /\ Weight(st, bank[c], floor, owes[c], d, k)
                      = Weight(inv[c], bank[c], floor, owes[c], due, k)
                 /\ Weight(inv[c], bank[c], floor, owes[c], due, k) \in Int
        <3>1. /\ InStore(st, k) = InStore(inv[c], k) - NumberOf(it, k)
              /\ d[k] = due[k] - NumberOf(it, k) /\ NumberOf(it, k) \in Nat
            BY <1>6, <1>7, <1>8, ItemNumber
        <3>. QED BY <3>1, NumbersHere DEF Weight
    <2>. QED BY <2>1 DEF Balanced
<1>11. Owes(seat[c], st, owes[c])
    BY <1>4 DEF Owes
<1>. QED BY <1>7, <1>9, <1>10, <1>11, Here, StepKeeps

LEMMA KeepsDestroyGround ==
    ASSUME Inv, NEW c \in Clients, NEW id, DestroyGround(c, id)
    PROVE  Inv'
<1>1. PICK i : i = Index(floor, id)
    OBVIOUS
<1>2. PICK it : it = floor[i]
    OBVIOUS
<1>3. PICK f : f = RemoveAt(floor, i)
    OBVIOUS
<1>4. PICK d : d = Booked(due, it.kind, -it.n)
    OBVIOUS
<1>5. /\ Has(floor, id) /\ floor' = f /\ due' = d
      /\ UNCHANGED <<seat, inv, bank, playerNum, gameNum, owes, careful>>
    BY <1>1, <1>2, <1>3, <1>4 DEF DestroyGround
<1>6. i \in 1 .. Len(floor) /\ it \in Item /\ it.kind \in Kinds /\ it.n \in Nat
    BY <1>1, <1>2, <1>5, OnFloor, ItemFields
<1>7. f \in Seq(Item) /\ FloorOK(f)
    BY <1>3, <1>6, Here, FloorRemoved
<1>8. d \in [Kinds -> Int] /\ \A k \in Kinds : d[k] = due[k] - NumberOf(it, k)
    BY <1>4, <1>6, Here, BookedLess
<1>9. Moves(c, inv[c], bank[c], f, owes[c], d, seat[c])
    BY <1>5, <1>7, <1>8, Here, Kept DEF Moves
<1>10. Balanced(c, inv[c], bank[c], f, owes[c], d)
    <2>1. ASSUME NEW k \in Kinds
          PROVE  /\ Weight(inv[c], bank[c], f, owes[c], d, k)
                      = Weight(inv[c], bank[c], floor, owes[c], due, k)
                 /\ Weight(inv[c], bank[c], floor, owes[c], due, k) \in Int
        <3>1. Amount(f, k) = Amount(floor, k) - NumberOf(it, k)
            BY <1>2, <1>3, <1>6, Here, AmountRemoved
        <3>2. d[k] = due[k] - NumberOf(it, k) /\ NumberOf(it, k) \in Nat
            BY <1>6, <1>8, ItemNumber
        <3>. QED BY <3>1, <3>2, NumbersHere DEF Weight
    <2>. QED BY <2>1 DEF Balanced
<1>. QED BY <1>7, <1>9, <1>10, Here, StepKeeps

LEMMA FundedIs ==
    ASSUME NEW st \in Store, NEW max \in Nat, StoreOK(st, max), NEW n \in Int,
           st.meseta + n \in 0 .. Stack[Meseta]
    PROVE  /\ Funded(st, n) \in Store /\ StoreOK(Funded(st, n), max)
           /\ \A k : InStore(Funded(st, n), k) = InStore(st, k) + IF k = Meseta THEN n ELSE 0
<1>0. PICK m : m = st.meseta + n
    OBVIOUS
<1>1. /\ m \in 0 .. Stack[Meseta] /\ m \in Nat /\ st.meseta \in 0 .. Stack[Meseta]
      /\ Good(st.items, max) /\ st.items \in Seq(Item) /\ st.meseta \in Int
    BY <1>0, ItemsAssumption, GoodIs, StoreFields
<1>2. PICK w : w = Funded(st, n)
    OBVIOUS
<1>3. w \in Store /\ w.items = st.items /\ w.meseta = m
    BY <1>0, <1>1, <1>2, NewMeseta DEF Funded
<1>4. StoreOK(w, max)
    BY <1>1, <1>3, GoodIs
<1>5. ASSUME NEW k
      PROVE  InStore(w, k) = InStore(st, k) + IF k = Meseta THEN n ELSE 0
    <2>1. Amount(st.items, k) \in Nat
        BY <1>1, AmountType
    <2>. QED BY <1>0, <1>1, <1>3, <2>1 DEF InStore
<1>. QED BY <1>2, <1>3, <1>4, <1>5

LEMMA KeepsDeposit ==
    ASSUME Inv, NEW c \in Clients, NEW id \in Own(c) \cup {MesetaId}, NEW n \in Asks(c, id),
           Deposit(c, id, n)
    PROVE  Inv'
<1>1. PICK old : old = Taken(inv[c], id, n)
    OBVIOUS
<1>2. PICK it : it = [old EXCEPT !.id = NoId]
    OBVIOUS
<1>3. PICK st : st = Without(inv[c], id, n)
    OBVIOUS
<1>4. /\ owes[c] = None /\ inv' = [inv EXCEPT ![c] = st] /\ careful' = careful
      /\ careful => Fits(bank[c], it, MaxBank)
      /\ \/ /\ Accepts(bank[c], it, MaxBank)
            /\ bank' = [bank EXCEPT ![c] = With(bank[c], it)]
            /\ UNCHANGED <<seat, floor, playerNum, gameNum, owes, due>>
         \/ /\ ~ Accepts(bank[c], it, MaxBank)
            /\ Out(c, floor, due, playerNum)
            /\ UNCHANGED bank
    BY <1>1, <1>2, <1>3 DEF Deposit, Ready
<1>5. id \in Ids /\ n \in Nat \ {0} /\ Holds(inv[c], id, n)
    BY Asked
<1>6. old \in Item /\ old.n \in 1 .. Stack[old.kind]
    BY <1>1, <1>5, Here, TakenIs
<1>7. it \in Item /\ it.kind = old.kind /\ it.n = old.n
    <2>1. NoId \in Ids
        BY DEF Ids
    <2>. QED BY <1>2, <1>6, <2>1, NewId
<1>8. it.n \in 1 .. Stack[it.kind] /\ \A k : NumberOf(old, k) = NumberOf(it, k)
    BY <1>6, <1>7 DEF NumberOf
<1>9. /\ st \in Store /\ StoreOK(st, MaxInv)
      /\ \A k : InStore(st, k) = InStore(inv[c], k) - NumberOf(old, k)
    BY <1>1, <1>3, <1>5, Here, Sizes, WithoutIs
<1>10. CASE Accepts(bank[c], it, MaxBank)
    <2>1. PICK bk : bk = With(bank[c], it)
        OBVIOUS
    <2>2. /\ bk \in Store /\ StoreOK(bk, MaxBank)
          /\ \A k : /\ InStore(bk, k) <= InStore(bank[c], k) + NumberOf(it, k)
                    /\ Fits(bank[c], it, MaxBank) =>
                         InStore(bk, k) = InStore(bank[c], k) + NumberOf(it, k)
        BY <1>7, <1>8, <1>10, <2>1, Here, Sizes, WithIs
    <2>3. Moves(c, st, bk, floor, owes[c], due, seat[c])
        BY <1>4, <1>9, <1>10, <2>1, <2>2, Here, Kept DEF Moves
    <2>4. Balanced(c, st, bk, floor, owes[c], due)
        <3>1. ASSUME NEW k \in Kinds
              PROVE  /\ Weight(st, bk, floor, owes[c], due, k)
                          <= Weight(inv[c], bank[c], floor, owes[c], due, k)
                     /\ careful => Weight(st, bk, floor, owes[c], due, k)
                                     = Weight(inv[c], bank[c], floor, owes[c], due, k)
            <4>1. NumberOf(it, k) \in Nat /\ InStore(bk, k) \in Nat
                BY <1>7, <2>2, ItemNumber, InStoreType
            <4>2. InStore(st, k) = InStore(inv[c], k) - NumberOf(it, k)
                BY <1>8, <1>9
            <4>3. /\ InStore(bk, k) <= InStore(bank[c], k) + NumberOf(it, k)
                  /\ careful => InStore(bk, k) = InStore(bank[c], k) + NumberOf(it, k)
                BY <1>4, <2>2
            <4>. QED BY <4>1, <4>2, <4>3, NumbersHere DEF Weight
        <3>. QED BY <3>1 DEF Balanced
    <2>5. Owes(seat[c], st, owes[c])
        BY <1>4 DEF Owes
    <2>. QED BY <1>9, <2>2, <2>3, <2>4, <2>5, Here, StepKeeps
<1>11. CASE ~ Accepts(bank[c], it, MaxBank)
    <2>1. ~ careful /\ Out(c, floor, due, playerNum) /\ bank' = bank
        BY <1>4, <1>11 DEF Fits
    <2>2. Balanced(c, st, bank[c], floor, None, due)
        <3>1. ASSUME NEW k \in Kinds
              PROVE  Weight(st, bank[c], floor, None, due, k)
                       <= Weight(inv[c], bank[c], floor, owes[c], due, k)
            <4>1. NumberOf(it, k) \in Nat
                BY <1>7, ItemNumber
            <4>2. InStore(st, k) = InStore(inv[c], k) - NumberOf(it, k)
                BY <1>8, <1>9
            <4>. QED BY <1>4, <4>1, <4>2, NumbersHere DEF Weight
        <3>. QED BY <2>1, <3>1 DEF Balanced
    <2>. QED BY <1>4, <1>9, <2>1, <2>2, Here, Kept, OutKeeps
<1>. QED BY <1>10, <1>11

LEMMA KeepsTake ==
    ASSUME Inv, NEW c \in Clients, NEW i \in DOMAIN bank[c].items,
           NEW n \in 1 .. bank[c].items[i].n, Take(c, i, n)
    PROVE  Inv'
<1>0. bank[c].items \in Seq(Item) /\ DOMAIN bank[c].items = 1 .. Len(bank[c].items)
    BY Here, StoreFields
<1>1. PICK whole : whole = bank[c].items[i]
    OBVIOUS
<1>2. PICK it : it = [whole EXCEPT !.id = <<seat[c], playerNum[seat[c]] + 1>>,
                                   !.n  = IF IsPart(whole, n) THEN n ELSE @]
    OBVIOUS
<1>3. PICK bk : bk = Less(bank[c], i, n)
    OBVIOUS
<1>4. PICK pn : pn = [playerNum EXCEPT ![seat[c]] = @ + 1]
    OBVIOUS
<1>5. seat[c] # None /\ owes[c] = None
    BY DEF Take, Ready
<1>6. bank' = [bank EXCEPT ![c] = bk]
    <2>1. bank' = [bank EXCEPT ![c].items = Shrunk(bank[c].items, i, n)]
        BY DEF Take
    <2>2. bank \in [Clients -> Store] /\ bank[c] \in Store
        BY Here DEF Inv, TypeOK
    <2>. QED BY <1>3, <2>1, <2>2 DEF Less, Store
<1>7. /\ careful' = careful
      /\ careful => Fits(inv[c], it, MaxInv)
      /\ \/ /\ Accepts(inv[c], it, MaxInv)
            /\ inv' = [inv EXCEPT ![c] = With(inv[c], it)]
            /\ playerNum' = pn
            /\ UNCHANGED <<seat, floor, gameNum, owes, due>>
         \/ /\ ~ Accepts(inv[c], it, MaxInv)
            /\ Out(c, floor, due, pn)
            /\ UNCHANGED inv
    BY <1>1, <1>2, <1>4 DEF Take
<1>8. whole \in Item /\ whole.n \in 1 .. Stack[whole.kind] /\ n \in Nat \ {0} /\ n <= whole.n
    <2>1. Good(bank[c].items, MaxBank) /\ whole \in Item
        BY <1>0, <1>1, Here, GoodIs
    <2>2. whole.n \in 1 .. Stack[whole.kind] /\ Stack[whole.kind] \in Nat
        BY <1>0, <1>1, <2>1, ItemFields DEF Good
    <2>. QED BY <1>1, <2>1, <2>2
<1>9. it \in Item /\ it.kind = whole.kind /\ it.n = PartOf(whole, n)
    <2>1. PICK m : m = PartOf(whole, n)
        OBVIOUS
    <2>2. m \in Nat
        BY <1>8, <2>1 DEF PartOf
    <2>3. it = [whole EXCEPT !.id = <<seat[c], playerNum[seat[c]] + 1>>, !.n = m]
        BY <1>2, <2>1 DEF PartOf
    <2>4. <<seat[c], playerNum[seat[c]] + 1>> \in Ids
        BY <1>5, NextId
    <2>. QED BY <1>8, <2>1, <2>2, <2>3, <2>4 DEF Item
<1>10. it.n \in 1 .. Stack[it.kind]
    <2>1. Stack[whole.kind] \in Nat
        BY <1>8, ItemFields
    <2>. QED BY <1>8, <1>9, <2>1 DEF PartOf
<1>11. /\ bk \in Store /\ StoreOK(bk, MaxBank)
       /\ \A k : InStore(bk, k) = InStore(bank[c], k) - NumberOf(it, k)
    <2>1. /\ bk \in Store /\ StoreOK(bk, MaxBank)
          /\ \A k : InStore(bk, k) = InStore(bank[c], k)
                                       - IF whole.kind = k THEN PartOf(whole, n) ELSE 0
        BY <1>0, <1>1, <1>3, <1>8, Here, Sizes, LessIs
    <2>. QED BY <1>9, <2>1 DEF NumberOf
<1>12. pn \in [Seats -> Int]
    BY <1>4, <1>5, NextId
<1>13. CASE Accepts(inv[c], it, MaxInv)
    <2>1. PICK st : st = With(inv[c], it)
        OBVIOUS
    <2>2. /\ st \in Store /\ StoreOK(st, MaxInv)
          /\ \A k : /\ InStore(st, k) <= InStore(inv[c], k) + NumberOf(it, k)
                    /\ Fits(inv[c], it, MaxInv) =>
                         InStore(st, k) = InStore(inv[c], k) + NumberOf(it, k)
        BY <1>9, <1>10, <1>13, <2>1, Here, Sizes, WithIs
    <2>3. Moves(c, st, bk, floor, owes[c], due, seat[c])
        BY <1>6, <1>7, <1>11, <1>12, <1>13, <2>1, <2>2, Here, Kept DEF Moves
    <2>4. Balanced(c, st, bk, floor, owes[c], due)
        <3>1. ASSUME NEW k \in Kinds
              PROVE  /\ Weight(st, bk, floor, owes[c], due, k)
                          <= Weight(inv[c], bank[c], floor, owes[c], due, k)
                     /\ careful => Weight(st, bk, floor, owes[c], due, k)
                                     = Weight(inv[c], bank[c], floor, owes[c], due, k)
            <4>1. NumberOf(it, k) \in Nat /\ InStore(st, k) \in Nat
                BY <1>9, <2>2, ItemNumber, InStoreType
            <4>2. InStore(bk, k) = InStore(bank[c], k) - NumberOf(it, k)
                BY <1>11
            <4>3. /\ InStore(st, k) <= InStore(inv[c], k) + NumberOf(it, k)
                  /\ careful => InStore(st, k) = InStore(inv[c], k) + NumberOf(it, k)
                BY <1>7, <2>2
            <4>. QED BY <4>1, <4>2, <4>3, NumbersHere DEF Weight
        <3>. QED BY <3>1 DEF Balanced
    <2>5. Owes(seat[c], st, owes[c])
        BY <1>5 DEF Owes
    <2>. QED BY <1>11, <2>2, <2>3, <2>4, <2>5, Here, StepKeeps
<1>14. CASE ~ Accepts(inv[c], it, MaxInv)
    <2>1. ~ careful /\ Out(c, floor, due, pn) /\ inv' = inv
        BY <1>7, <1>14 DEF Fits
    <2>2. Balanced(c, inv[c], bk, floor, None, due)
        <3>1. ASSUME NEW k \in Kinds
              PROVE  Weight(inv[c], bk, floor, None, due, k)
                       <= Weight(inv[c], bank[c], floor, owes[c], due, k)
            <4>1. NumberOf(it, k) \in Nat
                BY <1>9, ItemNumber
            <4>2. InStore(bk, k) = InStore(bank[c], k) - NumberOf(it, k)
                BY <1>11
            <4>. QED BY <1>5, <4>1, <4>2, NumbersHere DEF Weight
        <3>. QED BY <2>1, <3>1 DEF Balanced
    <2>. QED BY <1>6, <1>7, <1>11, <1>12, <2>1, <2>2, Here, Kept, OutKeeps
<1>. QED BY <1>13, <1>14

LEMMA KeepsDepositMeseta ==
    ASSUME Inv, NEW c \in Clients, NEW n \in 1 .. Stack[Meseta], DepositMeseta(c, n)
    PROVE  Inv'
<1>1. PICK st : st = Funded(inv[c], -n)
    OBVIOUS
<1>2. PICK bk : bk = Funded(bank[c], n)
    OBVIOUS
<1>3. /\ owes[c] = None /\ n <= inv[c].meseta /\ n + bank[c].meseta <= Stack[Meseta]
      /\ UNCHANGED <<seat, floor, playerNum, gameNum, owes, due, careful>>
    BY DEF DepositMeseta, Ready
<1>4. inv' = [inv EXCEPT ![c] = st] /\ bank' = [bank EXCEPT ![c] = bk]
    BY <1>1, <1>2, Here DEF DepositMeseta
<1>5. /\ n \in Nat /\ inv[c].meseta \in 0 .. Stack[Meseta]
      /\ bank[c].meseta \in 0 .. Stack[Meseta] /\ Stack[Meseta] \in Nat
    BY Here, Sizes, ItemsAssumption DEF StoreOK
<1>6. inv[c].meseta + (-n) \in 0 .. Stack[Meseta] /\ -n \in Int /\ bank[c].meseta + n \in 0 .. Stack[Meseta]
    BY <1>3, <1>5
<1>7. /\ st \in Store /\ StoreOK(st, MaxInv)
      /\ \A k : InStore(st, k) = InStore(inv[c], k) + IF k = Meseta THEN -n ELSE 0
    <2>1. PICK a, m : a = inv[c] /\ m = -n
        OBVIOUS
    <2>2. a \in Store /\ StoreOK(a, MaxInv) /\ m \in Int /\ a.meseta + m \in 0 .. Stack[Meseta]
        BY <1>5, <1>6, <2>1, Here
    <2>3. st = Funded(a, m)
        BY <1>1, <2>1
    <2>4. /\ st \in Store /\ StoreOK(st, MaxInv)
          /\ \A k : InStore(st, k) = InStore(a, k) + IF k = Meseta THEN m ELSE 0
        BY <2>2, <2>3, Sizes, FundedIs
    <2>. QED BY <2>1, <2>4
<1>8. /\ bk \in Store /\ StoreOK(bk, MaxBank)
      /\ \A k : InStore(bk, k) = InStore(bank[c], k) + IF k = Meseta THEN n ELSE 0
    <2>1. PICK a, m : a = bank[c] /\ m = n
        OBVIOUS
    <2>2. a \in Store /\ StoreOK(a, MaxBank) /\ m \in Int /\ a.meseta + m \in 0 .. Stack[Meseta]
        BY <1>5, <1>6, <2>1, Here
    <2>3. bk = Funded(a, m)
        BY <1>2, <2>1
    <2>4. /\ bk \in Store /\ StoreOK(bk, MaxBank)
          /\ \A k : InStore(bk, k) = InStore(a, k) + IF k = Meseta THEN m ELSE 0
        BY <2>2, <2>3, Sizes, FundedIs
    <2>. QED BY <2>1, <2>4
<1>9. Moves(c, st, bk, floor, owes[c], due, seat[c])
    BY <1>3, <1>4, <1>7, <1>8, Here, Kept DEF Moves
<1>10. Balanced(c, st, bk, floor, owes[c], due)
    <2>1. ASSUME NEW k \in Kinds
          PROVE  /\ Weight(st, bk, floor, owes[c], due, k)
                      = Weight(inv[c], bank[c], floor, owes[c], due, k)
                 /\ Weight(inv[c], bank[c], floor, owes[c], due, k) \in Int
        BY <1>5, <1>7, <1>8, NumbersHere DEF Weight
    <2>. QED BY <2>1 DEF Balanced
<1>11. Owes(seat[c], st, owes[c])
    BY <1>3 DEF Owes
<1>. QED BY <1>7, <1>8, <1>9, <1>10, <1>11, Here, StepKeeps

LEMMA KeepsTakeMeseta ==
    ASSUME Inv, NEW c \in Clients, NEW n \in 1 .. Stack[Meseta], TakeMeseta(c, n)
    PROVE  Inv'
<1>1. PICK st : st = Funded(inv[c], n)
    OBVIOUS
<1>2. PICK bk : bk = Funded(bank[c], -n)
    OBVIOUS
<1>3. /\ owes[c] = None /\ n <= bank[c].meseta /\ n + inv[c].meseta <= Stack[Meseta]
      /\ UNCHANGED <<seat, floor, playerNum, gameNum, owes, due, careful>>
    BY DEF TakeMeseta, Ready
<1>4. inv' = [inv EXCEPT ![c] = st] /\ bank' = [bank EXCEPT ![c] = bk]
    BY <1>1, <1>2, Here DEF TakeMeseta
<1>5. /\ n \in Nat /\ inv[c].meseta \in 0 .. Stack[Meseta]
      /\ bank[c].meseta \in 0 .. Stack[Meseta] /\ Stack[Meseta] \in Nat
    BY Here, Sizes, ItemsAssumption DEF StoreOK
<1>6. inv[c].meseta + n \in 0 .. Stack[Meseta] /\ bank[c].meseta + (-n) \in 0 .. Stack[Meseta] /\ -n \in Int
    BY <1>3, <1>5
<1>7. /\ st \in Store /\ StoreOK(st, MaxInv)
      /\ \A k : InStore(st, k) = InStore(inv[c], k) + IF k = Meseta THEN n ELSE 0
    <2>1. PICK a, m : a = inv[c] /\ m = n
        OBVIOUS
    <2>2. a \in Store /\ StoreOK(a, MaxInv) /\ m \in Int /\ a.meseta + m \in 0 .. Stack[Meseta]
        BY <1>5, <1>6, <2>1, Here
    <2>3. st = Funded(a, m)
        BY <1>1, <2>1
    <2>4. /\ st \in Store /\ StoreOK(st, MaxInv)
          /\ \A k : InStore(st, k) = InStore(a, k) + IF k = Meseta THEN m ELSE 0
        BY <2>2, <2>3, Sizes, FundedIs
    <2>. QED BY <2>1, <2>4
<1>8. /\ bk \in Store /\ StoreOK(bk, MaxBank)
      /\ \A k : InStore(bk, k) = InStore(bank[c], k) + IF k = Meseta THEN -n ELSE 0
    <2>1. PICK a, m : a = bank[c] /\ m = -n
        OBVIOUS
    <2>2. a \in Store /\ StoreOK(a, MaxBank) /\ m \in Int /\ a.meseta + m \in 0 .. Stack[Meseta]
        BY <1>5, <1>6, <2>1, Here
    <2>3. bk = Funded(a, m)
        BY <1>2, <2>1
    <2>4. /\ bk \in Store /\ StoreOK(bk, MaxBank)
          /\ \A k : InStore(bk, k) = InStore(a, k) + IF k = Meseta THEN m ELSE 0
        BY <2>2, <2>3, Sizes, FundedIs
    <2>. QED BY <2>1, <2>4
<1>9. Moves(c, st, bk, floor, owes[c], due, seat[c])
    BY <1>3, <1>4, <1>7, <1>8, Here, Kept DEF Moves
<1>10. Balanced(c, st, bk, floor, owes[c], due)
    <2>1. ASSUME NEW k \in Kinds
          PROVE  /\ Weight(st, bk, floor, owes[c], due, k)
                      = Weight(inv[c], bank[c], floor, owes[c], due, k)
                 /\ Weight(inv[c], bank[c], floor, owes[c], due, k) \in Int
        BY <1>5, <1>7, <1>8, NumbersHere DEF Weight
    <2>. QED BY <2>1 DEF Balanced
<1>11. Owes(seat[c], st, owes[c])
    BY <1>3 DEF Owes
<1>. QED BY <1>7, <1>8, <1>9, <1>10, <1>11, Here, StepKeeps

LEMMA KeepsPay ==
    ASSUME Inv, NEW c \in Clients, NEW n \in 1 .. Stack[Meseta], Pay(c, n)
    PROVE  Inv'
<1>1. PICK st : st = Funded(inv[c], -n)
    OBVIOUS
<1>2. PICK d : d = Booked(due, Meseta, -n)
    OBVIOUS
<1>3. /\ owes[c] = None /\ n <= inv[c].meseta /\ due' = d
      /\ UNCHANGED <<seat, bank, floor, playerNum, gameNum, owes, careful>>
    BY <1>2 DEF Pay, Ready
<1>4. inv' = [inv EXCEPT ![c] = st]
    BY <1>1, Here DEF Pay
<1>5. n \in Nat /\ inv[c].meseta \in 0 .. Stack[Meseta] /\ Stack[Meseta] \in Nat
    BY Here, Sizes, ItemsAssumption DEF StoreOK
<1>6. inv[c].meseta + (-n) \in 0 .. Stack[Meseta] /\ -n \in Int
    BY <1>3, <1>5
<1>7. /\ st \in Store /\ StoreOK(st, MaxInv)
      /\ \A k : InStore(st, k) = InStore(inv[c], k) + IF k = Meseta THEN -n ELSE 0
    <2>1. PICK a, m : a = inv[c] /\ m = -n
        OBVIOUS
    <2>2. a \in Store /\ StoreOK(a, MaxInv) /\ m \in Int /\ a.meseta + m \in 0 .. Stack[Meseta]
        BY <1>5, <1>6, <2>1, Here
    <2>3. st = Funded(a, m)
        BY <1>1, <2>1
    <2>4. /\ st \in Store /\ StoreOK(st, MaxInv)
          /\ \A k : InStore(st, k) = InStore(a, k) + IF k = Meseta THEN m ELSE 0
        BY <2>2, <2>3, Sizes, FundedIs
    <2>. QED BY <2>1, <2>4
<1>8. d \in [Kinds -> Int] /\ \A k \in Kinds : d[k] = due[k] + IF k = Meseta THEN -n ELSE 0
    <2>1. due \in [Kinds -> Int] /\ -n \in Int
        BY <1>5, Here
    <2>. QED BY <1>2, <2>1, Sizes, BookedIs
<1>9. Moves(c, st, bank[c], floor, owes[c], d, seat[c])
    BY <1>3, <1>4, <1>7, <1>8, Here, Kept DEF Moves
<1>10. Balanced(c, st, bank[c], floor, owes[c], d)
    <2>1. ASSUME NEW k \in Kinds
          PROVE  /\ Weight(st, bank[c], floor, owes[c], d, k)
                      = Weight(inv[c], bank[c], floor, owes[c], due, k)
                 /\ Weight(inv[c], bank[c], floor, owes[c], due, k) \in Int
        BY <1>5, <1>7, <1>8, NumbersHere DEF Weight
    <2>. QED BY <2>1 DEF Balanced
<1>11. Owes(seat[c], st, owes[c])
    BY <1>3 DEF Owes
<1>. QED BY <1>7, <1>9, <1>10, <1>11, Here, StepKeeps

LEMMA LeastIs ==
    ASSUME NEW a \in Nat, NEW b \in Nat
    PROVE  Least(a, b) \in Nat /\ Least(a, b) <= b
BY DEF Least

LEMMA KeepsSell ==
    ASSUME Inv, NEW c \in Clients, NEW id \in Own(c) \cup {MesetaId}, NEW n \in Asks(c, id),
           Sell(c, id, n)
    PROVE  Inv'
<1>1. PICK it : it = Taken(inv[c], id, n)
    OBVIOUS
<1>2. PICK left : left = Without(inv[c], id, n)
    OBVIOUS
<1>3. PICK gain : gain = Least(Price[it.kind] * n, Stack[Meseta] - left.meseta)
    OBVIOUS
<1>4. PICK st : st = Funded(left, gain)
    OBVIOUS
<1>5. PICK d : d = Booked(Booked(due, it.kind, -it.n), Meseta, gain)
    OBVIOUS
<1>6. owes[c] = None /\ id # MesetaId /\ bank' = bank /\ careful' = careful
    BY DEF Sell, Ready
<1>7. id \in Ids /\ n \in Nat \ {0} /\ Holds(inv[c], id, n)
    BY Asked
<1>8. it \in Item /\ it.kind \in Kinds /\ it.n \in Nat
    BY <1>1, <1>7, Here, TakenIs, ItemFields
<1>9. /\ left \in Store /\ StoreOK(left, MaxInv)
      /\ \A k : InStore(left, k) = InStore(inv[c], k) - NumberOf(it, k)
    BY <1>1, <1>2, <1>7, Here, Sizes, WithoutIs
<1>10. /\ careful => it.kind \notin Unsold
       /\ \/ /\ it.kind \notin Unsold
             /\ inv' = [inv EXCEPT ![c] = st]
             /\ due' = d
             /\ UNCHANGED <<seat, floor, playerNum, gameNum, owes>>
          \/ /\ it.kind \in Unsold
             /\ inv' = [inv EXCEPT ![c] = left]
             /\ Out(c, floor, due, playerNum)
    BY <1>1, <1>2, <1>3, <1>4, <1>5 DEF Sell
<1>11. CASE it.kind \notin Unsold
    <2>1. left.meseta \in 0 .. Stack[Meseta] /\ Stack[Meseta] \in Nat
        BY <1>9, Sizes, ItemsAssumption DEF StoreOK
    <2>2. gain \in Nat /\ gain <= Stack[Meseta] - left.meseta
        <3>1. Price[it.kind] * n \in Nat
            <4>1. PICK p \in Nat : p = Price[it.kind]
                BY <1>8, ItemsAssumption
            <4>2. p * n \in Nat
                BY <1>7
            <4>. QED BY <4>1, <4>2
        <3>2. Stack[Meseta] - left.meseta \in Nat
            BY <2>1
        <3>. QED BY <1>3, <3>1, <3>2, LeastIs
    <2>3. left.meseta + gain \in 0 .. Stack[Meseta] /\ gain \in Int
        BY <2>1, <2>2
    <2>4. /\ st \in Store /\ StoreOK(st, MaxInv)
          /\ \A k : InStore(st, k) = InStore(left, k) + IF k = Meseta THEN gain ELSE 0
        BY <1>4, <1>9, <2>3, Sizes, FundedIs
    <2>5. /\ d \in [Kinds -> Int]
          /\ \A k \in Kinds : d[k] = (due[k] - NumberOf(it, k)) + IF k = Meseta THEN gain ELSE 0
        <3>1. PICK e : e = Booked(due, it.kind, -it.n)
            OBVIOUS
        <3>2. e \in [Kinds -> Int] /\ \A k \in Kinds : e[k] = due[k] - NumberOf(it, k)
            BY <1>8, <3>1, Here, BookedLess
        <3>3. d = Booked(e, Meseta, gain)
            BY <1>5, <3>1
        <3>4. /\ d \in [Kinds -> Int]
              /\ \A k \in Kinds : d[k] = e[k] + IF k = Meseta THEN gain ELSE 0
            BY <2>2, <3>2, <3>3, Sizes, BookedIs
        <3>. QED BY <3>2, <3>4
    <2>6. Moves(c, st, bank[c], floor, owes[c], d, seat[c])
        BY <1>6, <1>10, <1>11, <2>4, <2>5, Here, Kept DEF Moves
    <2>7. Balanced(c, st, bank[c], floor, owes[c], d)
        <3>1. ASSUME NEW k \in Kinds
              PROVE  /\ Weight(st, bank[c], floor, owes[c], d, k)
                          = Weight(inv[c], bank[c], floor, owes[c], due, k)
                     /\ Weight(inv[c], bank[c], floor, owes[c], due, k) \in Int
            <4>1. PICK g \in Nat : g = IF k = Meseta THEN gain ELSE 0
                BY <2>2
            <4>2. /\ InStore(st, k) = (InStore(inv[c], k) - NumberOf(it, k)) + g
                  /\ d[k] = (due[k] - NumberOf(it, k)) + g
                BY <1>9, <2>4, <2>5, <4>1
            <4>3. NumberOf(it, k) \in Nat
                BY <1>8, ItemNumber
            <4>. QED BY <4>2, <4>3, NumbersHere DEF Weight
        <3>. QED BY <3>1 DEF Balanced
    <2>8. Owes(seat[c], st, owes[c])
        BY <1>6 DEF Owes
    <2>. QED BY <2>4, <2>6, <2>7, <2>8, Here, StepKeeps
<1>12. CASE it.kind \in Unsold
    <2>1. ~ careful /\ Out(c, floor, due, playerNum) /\ inv' = [inv EXCEPT ![c] = left]
        BY <1>10, <1>12
    <2>2. Balanced(c, left, bank[c], floor, None, due)
        <3>1. ASSUME NEW k \in Kinds
              PROVE  Weight(left, bank[c], floor, None, due, k)
                       <= Weight(inv[c], bank[c], floor, owes[c], due, k)
            <4>1. NumberOf(it, k) \in Nat /\ InStore(left, k) = InStore(inv[c], k) - NumberOf(it, k)
                BY <1>8, <1>9, ItemNumber
            <4>. QED BY <1>6, <4>1, NumbersHere DEF Weight
        <3>. QED BY <2>1, <3>1 DEF Balanced
    <2>. QED BY <1>6, <1>9, <2>1, <2>2, Here, Kept, OutKeeps
<1>. QED BY <1>11, <1>12

\* An item comes for m of kind j.
LEMMA BookedPaid ==
    ASSUME NEW d \in [Kinds -> Int], NEW it \in Item, NEW j \in Kinds, NEW m \in Int
    PROVE  LET e == Booked(Booked(d, it.kind, it.n), j, m)
           IN  /\ e \in [Kinds -> Int]
               /\ \A k \in Kinds : e[k] = (d[k] + NumberOf(it, k)) + IF k = j THEN m ELSE 0
<1>1. it.kind \in Kinds /\ it.n \in Int
    BY ItemFields
<1>2. PICK g : g = Booked(d, it.kind, it.n)
    OBVIOUS
<1>3. g \in [Kinds -> Int] /\ \A k \in Kinds : g[k] = d[k] + NumberOf(it, k)
    BY <1>1, <1>2 DEF Booked, NumberOf
<1>4. PICK e : e = Booked(g, j, m)
    OBVIOUS
<1>5. e \in [Kinds -> Int] /\ \A k \in Kinds : e[k] = g[k] + IF k = j THEN m ELSE 0
    BY <1>3, <1>4 DEF Booked
<1>. QED BY <1>2, <1>3, <1>4, <1>5

LEMMA KeepsBuy ==
    ASSUME Inv, NEW c \in Clients, NEW k \in Kinds \ {Meseta},
           NEW cost \in 0 .. inv[c].meseta, Buy(c, k, 1, cost)
    PROVE  Inv'
<1>1. PICK it : it = [id |-> <<seat[c], playerNum[seat[c]] + 1>>, kind |-> k, n |-> 1]
    OBVIOUS
<1>2. PICK got : got = With(inv[c], it)
    OBVIOUS
<1>3. PICK st : st = Funded(got, -cost)
    OBVIOUS
<1>4. PICK d : d = Booked(Booked(due, k, 1), Meseta, -cost)
    OBVIOUS
<1>5. seat[c] # None /\ owes[c] = None /\ bank' = bank /\ careful' = careful
    BY DEF Buy, Ready
<1>6. it \in Item /\ it.kind = k /\ it.n = 1 /\ it.n \in 1 .. Stack[it.kind]
    <2>1. <<seat[c], playerNum[seat[c]] + 1>> \in Ids
        BY <1>5, NextId
    <2>2. Stack[k] \in Nat \ {0}
        BY ItemsAssumption
    <2>. QED BY <1>1, <2>1, <2>2 DEF Item
<1>7. /\ careful => Fits(inv[c], it, MaxInv)
      /\ \/ /\ Accepts(inv[c], it, MaxInv)
            /\ inv' = [inv EXCEPT ![c] = st]
            /\ due' = d
            /\ UNCHANGED <<seat, floor, playerNum, gameNum, owes>>
         \/ /\ ~ Accepts(inv[c], it, MaxInv)
            /\ Out(c, floor, due, playerNum)
            /\ UNCHANGED inv
    BY <1>1, <1>2, <1>3, <1>4 DEF Buy
<1>8. CASE Accepts(inv[c], it, MaxInv)
    <2>1. /\ got \in Store /\ StoreOK(got, MaxInv) /\ got.meseta = inv[c].meseta
          /\ \A j : /\ InStore(got, j) <= InStore(inv[c], j) + NumberOf(it, j)
                    /\ Fits(inv[c], it, MaxInv) =>
                         InStore(got, j) = InStore(inv[c], j) + NumberOf(it, j)
        BY <1>2, <1>6, <1>8, Here, Sizes, WithIs
    <2>2. inv[c].meseta \in 0 .. Stack[Meseta] /\ Stack[Meseta] \in Nat
        BY Here, Sizes, ItemsAssumption DEF StoreOK
    <2>3. got.meseta + (-cost) \in 0 .. Stack[Meseta] /\ -cost \in Int
        BY <2>1, <2>2
    <2>4. /\ st \in Store /\ StoreOK(st, MaxInv)
          /\ \A j : InStore(st, j) = InStore(got, j) + IF j = Meseta THEN -cost ELSE 0
        BY <1>3, <2>1, <2>3, Sizes, FundedIs
    <2>5. /\ d \in [Kinds -> Int]
          /\ \A j \in Kinds : d[j] = (due[j] + NumberOf(it, j)) + IF j = Meseta THEN -cost ELSE 0
        <3>1. due \in [Kinds -> Int] /\ -cost \in Int
            BY <2>2, Here
        <3>2. d = Booked(Booked(due, it.kind, it.n), Meseta, -cost)
            BY <1>4, <1>6
        <3>. QED BY <1>6, <3>1, <3>2, Sizes, BookedPaid
    <2>6. Moves(c, st, bank[c], floor, owes[c], d, seat[c])
        BY <1>5, <1>7, <1>8, <2>4, <2>5, Here, Kept DEF Moves
    <2>7. Balanced(c, st, bank[c], floor, owes[c], d)
        <3>1. ASSUME NEW j \in Kinds
              PROVE  /\ Weight(st, bank[c], floor, owes[c], d, j)
                          <= Weight(inv[c], bank[c], floor, owes[c], due, j)
                     /\ careful => Weight(st, bank[c], floor, owes[c], d, j)
                                     = Weight(inv[c], bank[c], floor, owes[c], due, j)
            <4>1. PICK g \in Int : g = IF j = Meseta THEN -cost ELSE 0
                BY <2>2
            <4>2. InStore(st, j) = InStore(got, j) + g /\ d[j] = (due[j] + NumberOf(it, j)) + g
                BY <2>4, <2>5, <4>1
            <4>3. NumberOf(it, j) \in Nat /\ InStore(got, j) \in Nat
                BY <1>6, <2>1, ItemNumber, InStoreType
            <4>4. /\ InStore(got, j) <= InStore(inv[c], j) + NumberOf(it, j)
                  /\ careful => InStore(got, j) = InStore(inv[c], j) + NumberOf(it, j)
                BY <1>7, <2>1
            <4>. QED BY <4>2, <4>3, <4>4, NumbersHere DEF Weight
        <3>. QED BY <3>1 DEF Balanced
    <2>8. Owes(seat[c], st, owes[c])
        BY <1>5 DEF Owes
    <2>. QED BY <2>4, <2>6, <2>7, <2>8, Here, StepKeeps
<1>9. CASE ~ Accepts(inv[c], it, MaxInv)
    <2>1. Out(c, floor, due, playerNum) /\ inv' = inv
        BY <1>7, <1>9
    <2>2. Balanced(c, inv[c], bank[c], floor, None, due)
        <3>1. ASSUME NEW j \in Kinds
              PROVE  /\ Weight(inv[c], bank[c], floor, None, due, j)
                          = Weight(inv[c], bank[c], floor, owes[c], due, j)
                     /\ Weight(inv[c], bank[c], floor, owes[c], due, j) \in Int
            BY <1>5, NumbersHere DEF Weight
        <3>. QED BY <3>1 DEF Balanced
    <2>. QED BY <1>5, <2>1, <2>2, Here, Kept, OutKeeps
<1>. QED BY <1>8, <1>9

LEMMA KeepsExchange ==
    ASSUME Inv, NEW c \in Clients, NEW id \in Own(c) \cup {MesetaId}, NEW n \in Asks(c, id),
           NEW k \in Kinds \ {Meseta}, Exchange(c, id, n, k)
    PROVE  Inv'
<1>1. PICK it : it = Taken(inv[c], id, n)
    OBVIOUS
<1>2. PICK left : left = Without(inv[c], id, n)
    OBVIOUS
<1>3. PICK new : new = [id |-> <<seat[c], playerNum[seat[c]] + 1>>, kind |-> k, n |-> 1]
    OBVIOUS
<1>4. PICK pn : pn = [playerNum EXCEPT ![seat[c]] = @ + 1]
    OBVIOUS
<1>5. PICK d : d = Booked(Booked(due, it.kind, -it.n), k, 1)
    OBVIOUS
<1>6. /\ seat[c] # None /\ owes[c] = None /\ bank' = bank /\ careful' = careful
      /\ careful => Fits(left, new, MaxInv)
      /\ \/ /\ Accepts(left, new, MaxInv)
            /\ inv' = [inv EXCEPT ![c] = With(left, new)]
            /\ playerNum' = pn
            /\ due' = d
            /\ UNCHANGED <<seat, floor, gameNum, owes>>
         \/ /\ ~ Accepts(left, new, MaxInv)
            /\ inv' = [inv EXCEPT ![c] = left]
            /\ Out(c, floor, due, pn)
    BY <1>1, <1>2, <1>3, <1>4, <1>5 DEF Exchange, Ready
<1>7. id \in Ids /\ n \in Nat \ {0} /\ Holds(inv[c], id, n)
    BY Asked
<1>8. it \in Item /\ it.kind \in Kinds /\ it.n \in Nat
    BY <1>1, <1>7, Here, TakenIs, ItemFields
<1>9. /\ left \in Store /\ StoreOK(left, MaxInv)
      /\ \A j : InStore(left, j) = InStore(inv[c], j) - NumberOf(it, j)
    BY <1>1, <1>2, <1>7, Here, Sizes, WithoutIs
<1>10. new \in Item /\ new.kind = k /\ new.n = 1 /\ new.n \in 1 .. Stack[new.kind]
    <2>1. <<seat[c], playerNum[seat[c]] + 1>> \in Ids
        BY <1>6, NextId
    <2>2. Stack[k] \in Nat \ {0}
        BY ItemsAssumption
    <2>. QED BY <1>3, <2>1, <2>2 DEF Item
<1>11. pn \in [Seats -> Int]
    BY <1>4, <1>6, NextId
<1>12. CASE Accepts(left, new, MaxInv)
    <2>1. PICK st : st = With(left, new)
        OBVIOUS
    <2>2. /\ st \in Store /\ StoreOK(st, MaxInv)
          /\ \A j : /\ InStore(st, j) <= InStore(left, j) + NumberOf(new, j)
                    /\ Fits(left, new, MaxInv) =>
                         InStore(st, j) = InStore(left, j) + NumberOf(new, j)
        BY <1>9, <1>10, <1>12, <2>1, Sizes, WithIs
    <2>3. /\ d \in [Kinds -> Int]
          /\ \A j \in Kinds : d[j] = (due[j] - NumberOf(it, j)) + NumberOf(new, j)
        <3>1. PICK e : e = Booked(due, it.kind, -it.n)
            OBVIOUS
        <3>2. e \in [Kinds -> Int] /\ \A j \in Kinds : e[j] = due[j] - NumberOf(it, j)
            BY <1>8, <3>1, Here, BookedLess
        <3>3. d = Booked(e, k, 1) /\ k \in Kinds /\ 1 \in Int
            BY <1>5, <3>1
        <3>4. /\ d \in [Kinds -> Int]
              /\ \A j \in Kinds : d[j] = e[j] + IF j = k THEN 1 ELSE 0
            <4>1. PICK m \in Int : m = 1
                OBVIOUS
            <4>2. d = Booked(e, k, m)
                BY <3>3, <4>1
            <4>3. \A j \in Kinds : d[j] = e[j] + IF j = k THEN m ELSE 0
                BY <3>2, <4>2, BookedIs
            <4>4. d \in [Kinds -> Int]
                BY <3>2, <4>2, BookedIs
            <4>. QED BY <4>1, <4>3, <4>4
        <3>5. \A j \in Kinds : NumberOf(new, j) = IF j = k THEN 1 ELSE 0
            BY <1>10 DEF NumberOf
        <3>. QED BY <3>2, <3>4, <3>5
    <2>4. Moves(c, st, bank[c], floor, owes[c], d, seat[c])
        BY <1>6, <1>11, <1>12, <2>1, <2>2, <2>3, Here, Kept DEF Moves
    <2>5. Balanced(c, st, bank[c], floor, owes[c], d)
        <3>1. ASSUME NEW j \in Kinds
              PROVE  /\ Weight(st, bank[c], floor, owes[c], d, j)
                          <= Weight(inv[c], bank[c], floor, owes[c], due, j)
                     /\ careful => Weight(st, bank[c], floor, owes[c], d, j)
                                     = Weight(inv[c], bank[c], floor, owes[c], due, j)
            <4>1. /\ NumberOf(it, j) \in Nat /\ NumberOf(new, j) \in Nat
                  /\ InStore(st, j) \in Nat /\ InStore(left, j) \in Nat
                BY <1>8, <1>9, <1>10, <2>2, ItemNumber, InStoreType
            <4>2. /\ InStore(left, j) = InStore(inv[c], j) - NumberOf(it, j)
                  /\ d[j] = (due[j] - NumberOf(it, j)) + NumberOf(new, j)
                BY <1>9, <2>3
            <4>3. /\ InStore(st, j) <= InStore(left, j) + NumberOf(new, j)
                  /\ careful => InStore(st, j) = InStore(left, j) + NumberOf(new, j)
                BY <1>6, <2>2
            <4>. QED BY <4>1, <4>2, <4>3, NumbersHere DEF Weight
        <3>. QED BY <3>1 DEF Balanced
    <2>6. Owes(seat[c], st, owes[c])
        BY <1>6 DEF Owes
    <2>. QED BY <2>2, <2>4, <2>5, <2>6, Here, StepKeeps
<1>13. CASE ~ Accepts(left, new, MaxInv)
    <2>1. ~ careful /\ Out(c, floor, due, pn) /\ inv' = [inv EXCEPT ![c] = left]
        BY <1>6, <1>13 DEF Fits
    <2>2. Balanced(c, left, bank[c], floor, None, due)
        <3>1. ASSUME NEW j \in Kinds
              PROVE  Weight(left, bank[c], floor, None, due, j)
                       <= Weight(inv[c], bank[c], floor, owes[c], due, j)
            <4>1. NumberOf(it, j) \in Nat /\ InStore(left, j) = InStore(inv[c], j) - NumberOf(it, j)
                BY <1>8, <1>9, ItemNumber
            <4>. QED BY <1>6, <4>1, NumbersHere DEF Weight
        <3>. QED BY <2>1, <3>1 DEF Balanced
    <2>. QED BY <1>6, <1>9, <1>11, <2>1, <2>2, Here, Kept, OutKeeps
<1>. QED BY <1>12, <1>13

\* A step between two clients, which changes the inventories of both.
Hands(c, d, a, b) ==
    /\ inv' = [inv EXCEPT ![c] = a, ![d] = b]
    /\ playerNum' \in [Seats -> Int]
    /\ UNCHANGED <<seat, bank, floor, gameNum, owes, due, careful>>

\* What the two have together does not grow.
Together(c, d, a, b) ==
    \A k \in Kinds :
      /\ InStore(a, k) + InStore(b, k) <= InStore(inv[c], k) + InStore(inv[d], k)
      /\ careful => InStore(a, k) + InStore(b, k) = InStore(inv[c], k) + InStore(inv[d], k)

LEMMA TwoKeep ==
    ASSUME Inv, NEW c \in Clients, NEW d \in Clients, c # d,
           NEW a \in Store, NEW b \in Store, StoreOK(a, MaxInv), StoreOK(b, MaxInv),
           owes[c] = None, Owes(seat[d], b, owes[d]),
           Hands(c, d, a, b), Together(c, d, a, b)
    PROVE  Inv'
<1>1. /\ inv \in [Clients -> Store] /\ bank \in [Clients -> Store] /\ floor \in Seq(Item)
      /\ owes \in [Clients -> Debt \cup {None}] /\ due \in [Kinds -> Int]
      /\ \A e \in Clients : StoreOK(inv[e], MaxInv) /\ StoreOK(bank[e], MaxBank)
      /\ \A e \in Clients : Owes(seat[e], inv[e], owes[e])
    BY DEF Inv, TypeOK
<1>2. /\ seat' = seat /\ bank' = bank /\ floor' = floor /\ gameNum' = gameNum
      /\ owes' = owes /\ due' = due /\ careful' = careful /\ playerNum' \in [Seats -> Int]
    BY DEF Hands
<1>3. PICK j : j = inv'
    OBVIOUS
<1>4. /\ j \in [Clients -> Store] /\ j[c] = a /\ j[d] = b
      /\ \A e \in Clients : e # c /\ e # d => j[e] = inv[e]
    BY <1>1, <1>3 DEF Hands
<1>5. TypeOK'
    <2>1. \A e \in Clients : StoreOK(j[e], MaxInv)
        <3>. SUFFICES ASSUME NEW e \in Clients PROVE StoreOK(j[e], MaxInv)
            OBVIOUS
        <3>1. CASE e = c
            BY <1>4, <3>1
        <3>2. CASE e = d
            BY <1>4, <3>2
        <3>3. CASE e # c /\ e # d
            BY <1>1, <1>4, <3>3
        <3>. QED BY <3>1, <3>2, <3>3
    <2>2. inv' \in [Clients -> Store] /\ \A e \in Clients : StoreOK(inv'[e], MaxInv)
        BY <1>3, <1>4, <2>1
    <2>3. \A e \in Clients : StoreOK(bank'[e], MaxBank)
        BY <1>1, <1>2
    <2>4. TypeOK
        BY DEF Inv
    <2>. QED BY <1>2, <2>2, <2>3, <2>4 DEF TypeOK
<1>6. \A e \in Clients : Owes(seat[e], inv[e], owes[e])'
    <2>. SUFFICES ASSUME NEW e \in Clients PROVE Owes(seat[e], inv[e], owes[e])'
        OBVIOUS
    <2>1. CASE e = c
        BY <1>2, <2>1 DEF Owes
    <2>2. CASE e = d
        <3>1. inv'[e] = b
            BY <1>3, <1>4, <2>2
        <3>. QED BY <1>2, <2>2, <3>1 DEF Owes
    <2>3. CASE e # c /\ e # d
        <3>1. inv'[e] = inv[e]
            BY <1>3, <1>4, <2>3
        <3>. QED BY <1>1, <1>2, <3>1 DEF Owes
    <2>. QED BY <2>1, <2>2, <2>3
<1>7. ASSUME NEW k \in Kinds
      PROVE  Holdings(j, bank, k) = (Holdings(inv, bank, k)
                                       - (InStore(inv[c], k) + InStore(inv[d], k)))
                                       + (InStore(a, k) + InStore(b, k))
    <2>1. PICK i, e, m : i = inv /\ e = bank /\ m = [inv EXCEPT ![c] = a]
        OBVIOUS
    <2>2. /\ m \in [Clients -> Store] /\ m[c] = a /\ m[d] = inv[d]
          /\ \A x \in Clients : x # c => m[x] = inv[x]
        BY <1>1, <2>1
    <2>3. \A x \in Clients : x # d => j[x] = m[x]
        BY <1>4, <2>2
    <2>4. i \in [Clients -> Store] /\ e \in [Clients -> Store]
        BY <1>1, <2>1
    <2>5. Holdings(m, e, k) = Holdings(i, e, k)
                                - (InStore(i[c], k) + InStore(e[c], k))
                                + (InStore(m[c], k) + InStore(e[c], k))
        <3>1. \A x \in Clients : x # c => m[x] = i[x] /\ e[x] = e[x]
            BY <2>1, <2>2
        <3>. QED BY <2>2, <2>4, <3>1, HoldingsChange
    <2>6. Holdings(j, e, k) = Holdings(m, e, k)
                                - (InStore(m[d], k) + InStore(e[d], k))
                                + (InStore(j[d], k) + InStore(e[d], k))
        <3>1. \A x \in Clients : x # d => j[x] = m[x] /\ e[x] = e[x]
            BY <2>3
        <3>. QED BY <1>4, <2>2, <2>4, <3>1, HoldingsChange
    <2>7. PICK h \in Nat, h1 \in Nat, h2 \in Nat :
            h = Holdings(i, e, k) /\ h1 = Holdings(m, e, k) /\ h2 = Holdings(j, e, k)
        BY <1>4, <2>2, <2>4, HoldingsType
    <2>8. PICK p \in Nat, q \in Nat, r \in Nat, s \in Nat, t \in Nat, u \in Nat :
            /\ p = InStore(i[c], k) /\ q = InStore(i[d], k) /\ r = InStore(e[c], k)
            /\ s = InStore(e[d], k) /\ t = InStore(a, k) /\ u = InStore(b, k)
        BY <2>4, InStoreType
    <2>9. h1 = h - (p + r) + (t + r)
        BY <2>2, <2>5, <2>7, <2>8
    <2>10. h2 = h1 - (q + s) + (u + s)
        BY <1>4, <2>1, <2>2, <2>6, <2>7, <2>8
    <2>11. h2 = (h - (p + q)) + (t + u)
        BY <2>9, <2>10
    <2>. QED BY <2>1, <2>7, <2>8, <2>11
<1>8. BooksOK'
    <2>1. ASSUME NEW k \in Kinds
          PROVE  /\ Books(j, bank, floor, owes, due, k) <= 0
                 /\ careful => Books(j, bank, floor, owes, due, k) = 0
        <3>1. PICK h \in Nat, h1 \in Nat, f \in Nat, g \in Nat, u \in Int :
                /\ h = Holdings(inv, bank, k) /\ h1 = Holdings(j, bank, k)
                /\ f = Amount(floor, k) /\ g = Debts(owes, k) /\ u = due[k]
            BY <1>1, <1>4, HoldingsType, AmountType, DebtsType
        <3>2. PICK p \in Nat, q \in Nat, r \in Nat, s \in Nat :
                /\ p = InStore(inv[c], k) /\ q = InStore(inv[d], k)
                /\ r = InStore(a, k) /\ s = InStore(b, k)
            BY <1>1, InStoreType
        <3>3. h1 = (h - (p + q)) + (r + s)
            BY <1>7, <3>1, <3>2
        <3>4. r + s <= p + q /\ (careful => r + s = p + q)
            BY <3>2 DEF Together
        <3>5. f + h - u - g <= 0 /\ (careful => f + h - u - g = 0)
            <4>1. Books(inv, bank, floor, owes, due, k) = f + h - u - g
                BY <3>1 DEF Books
            <4>. QED BY <4>1 DEF Inv, BooksOK
        <3>6. Books(j, bank, floor, owes, due, k) = f + h1 - u - g
            BY <3>1 DEF Books
        <3>7. f + h1 - u - g <= 0 /\ (careful => f + h1 - u - g = 0)
            BY <3>3, <3>4, <3>5
        <3>. QED BY <3>6, <3>7
    <2>2. ASSUME NEW k \in Kinds
          PROVE  /\ Books(inv', bank', floor', owes', due', k) <= 0
                 /\ careful => Books(inv', bank', floor', owes', due', k) = 0
        <3>1. PICK x : x = Books(j, bank, floor, owes, due, k)
            OBVIOUS
        <3>2. Books(inv', bank', floor', owes', due', k) = x
            BY <1>2, <1>3, <3>1
        <3>3. x <= 0 /\ (careful => x = 0)
            BY <2>1, <3>1
        <3>. QED BY <3>2, <3>3
    <2>3. careful' = careful
        BY <1>2
    <2>. QED BY <2>2, <2>3 DEF BooksOK
<1>9. FloorOK(floor)'
    <2>1. FloorOK(floor)
        BY DEF Inv
    <2>. QED BY <1>2, <2>1 DEF FloorOK
<1>10. owes' \in [Clients -> Debt \cup {None}]
    BY <1>1, <1>2
<1>. QED BY <1>5, <1>6, <1>8, <1>9, <1>10 DEF Inv

LEMMA KeepsGive ==
    ASSUME Inv, NEW c \in Clients, NEW d \in Clients,
           NEW id \in Own(c) \cup {MesetaId}, NEW n \in Asks(c, id), Give(c, d, id, n)
    PROVE  Inv'
<1>1. PICK old : old = Taken(inv[c], id, n)
    OBVIOUS
<1>2. PICK it : it = [old EXCEPT !.id = <<seat[d], playerNum[seat[d]] + 1>>]
    OBVIOUS
<1>3. PICK st : st = Without(inv[c], id, n)
    OBVIOUS
<1>4. PICK w : w = With(inv[d], it)
    OBVIOUS
<1>5. /\ owes[c] = None /\ c # d /\ seat[d] # None
      /\ careful' = careful /\ bank' = bank /\ floor' = floor /\ gameNum' = gameNum
      /\ owes' = owes /\ due' = due
      /\ playerNum' = [playerNum EXCEPT ![seat[d]] = @ + 1]
      /\ careful => Fits(inv[d], it, MaxInv)
      /\ \/ /\ Accepts(inv[d], it, MaxInv)
            /\ inv' = [inv EXCEPT ![c] = st, ![d] = With(@, it)]
            /\ seat' = seat
         \/ /\ ~ Accepts(inv[d], it, MaxInv)
            /\ inv' = [inv EXCEPT ![c] = st]
            /\ seat' = [seat EXCEPT ![c] = None]
    BY <1>1, <1>2, <1>3 DEF Give, Ready
<1>6. id \in Ids /\ n \in Nat \ {0} /\ Holds(inv[c], id, n)
    BY Asked
<1>7. old \in Item /\ old.n \in 1 .. Stack[old.kind]
    BY <1>1, <1>6, Here, TakenIs
<1>8. it \in Item /\ it.kind = old.kind /\ it.n = old.n
    <2>1. <<seat[d], playerNum[seat[d]] + 1>> \in Ids
        BY <1>5, NextId
    <2>. QED BY <1>2, <1>7, <2>1, NewId
<1>9. it.n \in 1 .. Stack[it.kind] /\ \A k : NumberOf(old, k) = NumberOf(it, k)
    BY <1>7, <1>8 DEF NumberOf
<1>10. /\ st \in Store /\ StoreOK(st, MaxInv)
       /\ \A k : InStore(st, k) = InStore(inv[c], k) - NumberOf(it, k)
    BY <1>1, <1>3, <1>6, <1>9, Here, Sizes, WithoutIs
<1>11. playerNum' \in [Seats -> Int]
    BY <1>5, NextId
<1>12. CASE Accepts(inv[d], it, MaxInv)
    <2>1. /\ w \in Store /\ StoreOK(w, MaxInv)
          /\ \A k : /\ InStore(w, k) <= InStore(inv[d], k) + NumberOf(it, k)
                    /\ Fits(inv[d], it, MaxInv) =>
                         InStore(w, k) = InStore(inv[d], k) + NumberOf(it, k)
        BY <1>4, <1>8, <1>9, <1>12, Here, Sizes, WithIs
    <2>2. inv' = [inv EXCEPT ![c] = st, ![d] = w] /\ seat' = seat
        BY <1>4, <1>5, <1>12
    <2>3. Owes(seat[d], w, owes[d])
        <3>1. CASE owes[d] = None
            BY <3>1 DEF Owes
        <3>2. CASE owes[d] # None
            <4>1. Above(w, inv[d])
                BY <1>4, <1>8, Here, WithAbove
            <4>2. /\ owes[d] \in Debt /\ inv[d] \in Store
                  /\ careful => Payable(inv[d], owes[d])
                BY <3>2, Here DEF Owes
            <4>3. careful => Payable(w, owes[d])
                <5>1. PICK o, b : o = owes[d] /\ b = inv[d]
                    OBVIOUS
                <5>2. o \in Debt /\ b \in Store /\ Above(w, b) /\ (careful => Payable(b, o))
                    BY <4>1, <4>2, <5>1
                <5>3. careful => Payable(w, o)
                    BY <2>1, <5>2, PayableAbove
                <5>. QED BY <5>1, <5>3
            <4>. QED BY <1>5, <4>3 DEF Owes
        <3>. QED BY <3>1, <3>2
    <2>4. ASSUME NEW k \in Kinds
          PROVE  /\ InStore(st, k) + InStore(w, k) <= InStore(inv[c], k) + InStore(inv[d], k)
                 /\ careful =>
                      InStore(st, k) + InStore(w, k) = InStore(inv[c], k) + InStore(inv[d], k)
        <3>1. PICK p \in Nat, q \in Nat, r \in Nat, s \in Nat, m \in Nat :
                /\ p = InStore(inv[c], k) /\ q = InStore(inv[d], k)
                /\ r = InStore(st, k) /\ s = InStore(w, k) /\ m = NumberOf(it, k)
            BY <1>8, <1>10, <2>1, Here, InStoreType, ItemNumber
        <3>2. r = p - m
            BY <1>10, <3>1
        <3>3. s <= q + m /\ (careful => s = q + m)
            BY <1>5, <2>1, <3>1
        <3>4. r + s <= p + q /\ (careful => r + s = p + q)
            BY <3>2, <3>3
        <3>. QED BY <3>1, <3>4
    <2>5. Together(c, d, st, w)
        BY <2>4 DEF Together
    <2>6. Hands(c, d, st, w)
        BY <1>5, <1>11, <2>2 DEF Hands
    <2>. QED BY <1>5, <1>10, <2>1, <2>3, <2>5, <2>6, TwoKeep
<1>13. CASE ~ Accepts(inv[d], it, MaxInv)
    <2>1. ~ careful /\ inv' = [inv EXCEPT ![c] = st] /\ seat' = [seat EXCEPT ![c] = None]
        BY <1>5, <1>13 DEF Fits
    <2>2. Moves(c, st, bank[c], floor, owes[c], due, None)
        BY <1>5, <1>10, <1>11, <2>1, Here, Kept DEF Moves
    <2>3. Balanced(c, st, bank[c], floor, owes[c], due)
        <3>1. ASSUME NEW k \in Kinds
              PROVE  Weight(st, bank[c], floor, owes[c], due, k)
                       <= Weight(inv[c], bank[c], floor, owes[c], due, k)
            <4>1. NumberOf(it, k) \in Nat
                BY <1>8, ItemNumber
            <4>2. InStore(st, k) = InStore(inv[c], k) - NumberOf(it, k)
                BY <1>10
            <4>. QED BY <4>1, <4>2, NumbersHere DEF Weight
        <3>. QED BY <2>1, <3>1 DEF Balanced
    <2>4. Owes(None, st, owes[c])
        BY <1>5 DEF Owes
    <2>. QED BY <1>10, <2>2, <2>3, <2>4, Here, StepKeeps
<1>. QED BY <1>12, <1>13

-----------------------------------------------------------------------------
(* The invariant is one.                                                   *)

LEMMA SumOfZeros ==
    ASSUME NEW S, NEW f, DOMAIN f = S, \A x \in S : f[x] = 0
    PROVE  SumOf(f) = 0
<1>1. Units(f) = {}
    BY DEF Units
<1>. QED BY <1>1, FS_EmptySet DEF SumOf

LEMMA InitInv ==
    ASSUME Init
    PROVE  Inv
<1>1. /\ seat = [c \in Clients |-> None]
      /\ inv \in [Clients -> Store] /\ \A c \in Clients : StoreOK(inv[c], MaxInv)
      /\ bank = [c \in Clients |-> [items |-> <<>>, meseta |-> 0]]
      /\ floor = <<>> /\ playerNum = [s \in Seats |-> 0] /\ gameNum = 0
      /\ owes = [c \in Clients |-> None] /\ due = [k \in Kinds |-> Total(k)]
      /\ careful \in BOOLEAN
    BY LoadedAssumption DEF Init
<1>2. ASSUME NEW st, st = [items |-> <<>>, meseta |-> 0]
      PROVE  st \in Store /\ StoreOK(st, MaxBank)
    <2>1. st.items = <<>> /\ st.meseta = 0 /\ st \in Store
        BY <1>2 DEF Store
    <2>2. Stack[Meseta] \in Nat /\ MaxBank \in Nat
        BY ItemsAssumption
    <2>3. DOMAIN st.items = {} /\ Len(st.items) = 0
        BY <2>1
    <2>. QED BY <2>1, <2>2, <2>3 DEF StoreOK
<1>3. bank \in [Clients -> Store] /\ \A c \in Clients : StoreOK(bank[c], MaxBank)
    BY <1>1, <1>2
<1>4. floor \in Seq(Item) /\ FloorOK(floor)
    BY <1>1 DEF FloorOK
<1>5. ASSUME NEW k \in Kinds
      PROVE  due[k] = Amount(floor, k) + Holdings(inv, bank, k) /\ due[k] \in Int
    <2>1. due[k] = Amount(floor, k) + Holdings(inv, bank, k)
        BY <1>1 DEF Total, Holdings, WithClient
    <2>2. Amount(floor, k) \in Nat /\ Holdings(inv, bank, k) \in Nat
        BY <1>1, <1>3, <1>4, AmountType, HoldingsType
    <2>. QED BY <2>1, <2>2
<1>6. due \in [Kinds -> Int]
    <2>1. due = [k \in Kinds |-> due[k]]
        BY <1>1
    <2>. QED BY <1>5, <2>1
<1>7. TypeOK
    BY <1>1, <1>3, <1>4, <1>6 DEF TypeOK
<1>8. owes \in [Clients -> Debt \cup {None}] /\ \A c \in Clients : owes[c] = None
    BY <1>1
<1>9. \A c \in Clients : Owes(seat[c], inv[c], owes[c])
    BY <1>8 DEF Owes
<1>10. BooksOK
    <2>1. ASSUME NEW k \in Kinds PROVE Books(inv, bank, floor, owes, due, k) = 0
        <3>1. Debts(owes, k) = 0
            <4>1. PICK f : f = [c \in Clients |-> DebtOf(owes[c], k)]
                OBVIOUS
            <4>2. DOMAIN f = Clients /\ \A c \in Clients : f[c] = 0
                BY <1>8, <4>1, NoDebt
            <4>3. SumOf(f) = 0
                BY <4>2, SumOfZeros
            <4>. QED BY <4>1, <4>3 DEF Debts
        <3>2. Amount(floor, k) \in Nat /\ Holdings(inv, bank, k) \in Nat
            BY <1>1, <1>3, <1>4, AmountType, HoldingsType
        <3>. QED BY <1>5, <3>1, <3>2 DEF Books
    <2>. QED BY <2>1 DEF BooksOK
<1>. QED BY <1>4, <1>7, <1>8, <1>9, <1>10 DEF Inv

LEMMA StutterKeeps ==
    ASSUME Inv, UNCHANGED vars
    PROVE  Inv'
<1>1. /\ seat' = seat /\ inv' = inv /\ bank' = bank /\ floor' = floor /\ due' = due
      /\ playerNum' = playerNum /\ gameNum' = gameNum /\ owes' = owes /\ careful' = careful
    BY DEF vars
<1>2. TypeOK'
    BY <1>1 DEF Inv, TypeOK
<1>3. owes' \in [Clients -> Debt \cup {None}] /\ FloorOK(floor')
    BY <1>1 DEF Inv
<1>4. \A c \in Clients : Owes(seat'[c], inv'[c], owes[c])
    BY <1>1 DEF Inv
<1>5. \A c \in Clients : Owes(seat[c], inv[c], owes[c])'
    BY <1>1, <1>4 DEF Owes
<1>6. BooksOK'
    BY <1>1 DEF Inv, BooksOK
<1>7. FloorOK(floor)'
    BY <1>3 DEF FloorOK
<1>. QED BY <1>2, <1>3, <1>5, <1>6, <1>7 DEF Inv

LEMMA UsesKeeps ==
    ASSUME Inv, NEW c \in Clients, Uses(c)
    PROVE  Inv'
<1>0. PICK id \in Own(c) \cup {MesetaId} : \E n \in Asks(c, id) :
        \/ DropItem(c, id, n)
        \/ SplitDrop(c, id, n)
        \/ DestroyItem(c, id, n)
        \/ Deposit(c, id, n)
        \/ Sell(c, id, n)
        \/ \E k \in Kinds \ {Meseta} : Exchange(c, id, n, k)
        \/ \E d \in Clients : Give(c, d, id, n)
    BY DEF Uses
<1>1. PICK n \in Asks(c, id) :
        \/ DropItem(c, id, n)
        \/ SplitDrop(c, id, n)
        \/ DestroyItem(c, id, n)
        \/ Deposit(c, id, n)
        \/ Sell(c, id, n)
        \/ \E k \in Kinds \ {Meseta} : Exchange(c, id, n, k)
        \/ \E d \in Clients : Give(c, d, id, n)
    BY <1>0
<1>2. CASE DropItem(c, id, n)
    BY <1>2, KeepsDropItem
<1>3. CASE SplitDrop(c, id, n)
    BY <1>3, KeepsSplitDrop
<1>4. CASE DestroyItem(c, id, n)
    BY <1>4, KeepsDestroyItem
<1>5. CASE Deposit(c, id, n)
    BY <1>5, KeepsDeposit
<1>6. CASE Sell(c, id, n)
    BY <1>6, KeepsSell
<1>7. ASSUME NEW k \in Kinds \ {Meseta}, Exchange(c, id, n, k) PROVE Inv'
    BY <1>7, KeepsExchange
<1>8. ASSUME NEW d \in Clients, Give(c, d, id, n) PROVE Inv'
    BY <1>8, KeepsGive
<1>. QED BY <1>1, <1>2, <1>3, <1>4, <1>5, <1>6, <1>7, <1>8

LEMMA NextKeeps ==
    ASSUME Inv, [Next]_vars
    PROVE  Inv'
<1>1. ASSUME NEW k \in Kinds, GameDrop(k, 1) PROVE Inv'
    BY <1>1, KeepsGameDrop
<1>2. ASSUME NEW c \in Clients, NEW k \in Kinds \ {Meseta},
             NEW cost \in 0 .. inv[c].meseta, Buy(c, k, 1, cost)
      PROVE  Inv'
    BY <1>2, KeepsBuy
<1>3. ASSUME NEW c \in Clients, Join(c) PROVE Inv'
    BY <1>3, KeepsJoin
<1>4. ASSUME NEW c \in Clients, Leave(c) PROVE Inv'
    BY <1>4, KeepsLeave
<1>5. ASSUME NEW c \in Clients, PaySplit(c) PROVE Inv'
    BY <1>5, KeepsPaySplit
<1>6. ASSUME NEW c \in Clients, NEW i \in DOMAIN floor, Pickup(c, floor[i].id) PROVE Inv'
    BY <1>6, KeepsPickup
<1>7. ASSUME NEW c \in Clients, NEW i \in DOMAIN floor, DestroyGround(c, floor[i].id)
      PROVE  Inv'
    BY <1>7, KeepsDestroyGround
<1>8. ASSUME NEW c \in Clients, Uses(c) PROVE Inv'
    BY <1>8, UsesKeeps
<1>9. ASSUME NEW c \in Clients, NEW i \in DOMAIN bank[c].items,
             NEW n \in 1 .. bank[c].items[i].n, Take(c, i, n)
      PROVE  Inv'
    BY <1>9, KeepsTake
<1>10. ASSUME NEW c \in Clients, NEW n \in 1 .. Stack[Meseta],
              DepositMeseta(c, n) \/ TakeMeseta(c, n) \/ Pay(c, n)
       PROVE  Inv'
    BY <1>10, KeepsDepositMeseta, KeepsTakeMeseta, KeepsPay
<1>11. CASE UNCHANGED vars
    BY <1>11, StutterKeeps
<1>12. CASE Next
    BY <1>1, <1>2, <1>3, <1>4, <1>5, <1>6, <1>7, <1>8, <1>9, <1>10, <1>12 DEF Next
<1>. QED BY <1>11, <1>12

THEOREM Invariant == Spec => []Inv
<1>. QED BY InitInv, NextKeeps, PTL DEF Spec

\* The stores keep the form that the searches of the handlers rely on:
\* whatever is asked for, by however many players, no inventory or bank is
\* over its size, no stack over its limit, and no two stacks are of the same
\* kind (add_invitem, remove_invitem, add_bitem, remove_bitem).
THEOREM TypeCorrect == Spec => []TypeOK
<1>1. Inv => TypeOK
    BY DEF Inv
<1>. QED BY <1>1, Invariant, PTL

\* Items are only moved, by every handler and whoever is lost, as long as
\* players do not take what they have no room for.
THEOREM ConservedCorrect == Spec => []Conserved
<1>1. Inv => Conserved
    BY BooksAre DEF Inv
<1>. QED BY <1>1, Invariant, PTL

\* Nothing comes of nothing, whatever the players take: what a full inventory
\* or stack refuses is lost, never doubled.
THEOREM NothingCorrect == Spec => []NothingFromNothing
<1>1. Inv => NothingFromNothing
    BY BooksAre DEF Inv
<1>. QED BY <1>1, Invariant, PTL
=============================================================================
