--------------------------- MODULE RunCacheProofs ---------------------------
(***************************************************************************)
(* RunCache's map and list agree and stay within the capacity, for every   *)
(* set of keys, every TTL policy and every capacity; and RunCache          *)
(* implements TTLStore.                                                    *)
(***************************************************************************)
EXTENDS RunCache, SequenceTheorems, FiniteSetTheorems, TLAPS

-----------------------------------------------------------------------------
(* What the list operations of container/list do to a list without         *)
(* duplicates.                                                             *)

(* Position finds an element that is there.                                *)
LEMMA PositionIsThere ==
    ASSUME NEW S, NEW s \in Seq(S), NEW k \in Range(s)
    PROVE  Position(s, k) \in 1 .. Len(s) /\ s[Position(s, k)] = k
  <1>1. \E i \in DOMAIN s : s[i] = k
    BY DEF Range
  <1>2. Position(s, k) \in DOMAIN s /\ s[Position(s, k)] = k
    BY <1>1 DEF Position
  <1> QED BY <1>2, LenProperties

(* RemoveAt keeps every other element, in order.                           *)
LEMMA RemoveAtProperties ==
    ASSUME NEW S, NEW s \in Seq(S), NEW p \in 1 .. Len(s)
    PROVE  /\ RemoveAt(s, p) \in Seq(S)
           /\ Len(RemoveAt(s, p)) = Len(s) - 1
           /\ \A i \in 1 .. Len(s) - 1 :
                 RemoveAt(s, p)[i] = IF i < p THEN s[i] ELSE s[i + 1]
  <1> DEFINE a == SubSeq(s, 1, p - 1)
             b == SubSeq(s, p + 1, Len(s))
  <1>0. Len(s) \in Nat /\ \A i \in 1 .. Len(s) : s[i] \in S
    BY LenProperties, ElementOfSeq
  <1>1. /\ a \in Seq(S)
        /\ Len(a) = p - 1
        /\ \A i \in 1 .. p - 1 : a[i] = s[i]
    BY <1>0, SubSeqProperties
  <1>2. /\ b \in Seq(S)
        /\ Len(b) = Len(s) - p
        /\ \A i \in 1 .. Len(s) - p : b[i] = s[p + i]
    <2>1. \A i \in p + 1 .. Len(s) : s[i] \in S
      BY <1>0
    <2>2. /\ b \in Seq(S)
          /\ Len(b) = IF p + 1 <= Len(s) THEN Len(s) - (p + 1) + 1 ELSE 0
          /\ \A i \in 1 .. Len(s) - (p + 1) + 1 : b[i] = s[p + 1 + i - 1]
      BY <1>0, <2>1, SubSeqProperties
    <2> QED BY <1>0, <2>2
  <1>5. RemoveAt(s, p) = a \o b
    BY DEF RemoveAt
  <1> HIDE DEF a, b
  <1>3. /\ a \o b \in Seq(S)
        /\ Len(a \o b) = Len(a) + Len(b)
        /\ \A i \in 1 .. Len(a) + Len(b) :
              (a \o b)[i] = IF i <= Len(a) THEN a[i] ELSE b[i - Len(a)]
    BY <1>1, <1>2, ConcatProperties
  <1>4. ASSUME NEW i \in 1 .. Len(s) - 1
        PROVE  (a \o b)[i] = IF i < p THEN s[i] ELSE s[i + 1]
    <2>1. CASE i < p
      <3>1. (a \o b)[i] = a[i]
        BY <1>0, <1>1, <1>2, <1>3, <2>1
      <3> QED BY <3>1, <1>0, <1>1, <2>1
    <2>2. CASE ~(i < p)
      <3>1. (a \o b)[i] = b[i - (p - 1)]
        BY <1>0, <1>1, <1>2, <1>3, <2>2
      <3>2. i - (p - 1) \in 1 .. Len(s) - p
        BY <1>0, <2>2
      <3>3. b[i - (p - 1)] = s[p + (i - (p - 1))]
        BY <3>2, <1>2
      <3>4. p + (i - (p - 1)) = i + 1
        BY <1>0
      <3> QED BY <3>1, <3>3, <3>4, <2>2
    <2> QED BY <2>1, <2>2
  <1>6. Len(a \o b) = Len(s) - 1
    BY <1>0, <1>1, <1>2, <1>3
  <1> QED BY <1>3, <1>4, <1>5, <1>6

(* Removing the element of key k from a list without duplicates leaves the *)
(* other keys, each once.                                                  *)
LEMMA UnlinkProperties ==
    ASSUME NEW S, NEW s \in Seq(S), IsInjective(s), NEW k \in Range(s)
    PROVE  /\ Unlink(s, k) \in Seq(S)
           /\ Len(Unlink(s, k)) = Len(s) - 1
           /\ IsInjective(Unlink(s, k))
           /\ Range(Unlink(s, k)) = Range(s) \ {k}
  <1> DEFINE p == Position(s, k)
             u == Unlink(s, k)
  <1>0. Len(s) \in Nat /\ DOMAIN s = 1 .. Len(s)
    BY LenProperties
  <1>1. p \in 1 .. Len(s) /\ s[p] = k
    BY PositionIsThere
  <1>2. /\ u \in Seq(S)
        /\ Len(u) = Len(s) - 1
        /\ \A i \in 1 .. Len(s) - 1 : u[i] = IF i < p THEN s[i] ELSE s[i + 1]
    BY <1>1, RemoveAtProperties DEF Unlink
  <1>3. DOMAIN u = 1 .. Len(s) - 1
    BY <1>2, LenProperties
  <1> HIDE DEF p, u
  <1>4. \A a, b \in 1 .. Len(s) : s[a] = s[b] => a = b
    BY <1>0 DEF IsInjective
  <1>5. IsInjective(u)
    <2> SUFFICES ASSUME NEW a \in 1 .. Len(s) - 1, NEW b \in 1 .. Len(s) - 1,
                        u[a] = u[b]
                 PROVE  a = b
      BY <1>3 DEF IsInjective
    <2> DEFINE f(i) == IF i < p THEN i ELSE i + 1
    <2>1. f(a) \in 1 .. Len(s) /\ f(b) \in 1 .. Len(s)
      BY <1>0
    <2>2. u[a] = s[f(a)] /\ u[b] = s[f(b)]
      BY <1>2
    <2>3. f(a) = f(b)
      BY <2>1, <2>2, <1>4
    <2> QED BY <2>3, <1>0, <1>1
  <1>6. Range(u) = Range(s) \ {k}
    <2>1. ASSUME NEW x \in Range(u) PROVE x \in Range(s) \ {k}
      <3>1. PICK i \in 1 .. Len(s) - 1 : x = u[i]
        BY <1>3 DEF Range
      <3>2. PICK j \in 1 .. Len(s) : x = s[j] /\ j # p
        <4>1. CASE i < p
          BY <3>1, <4>1, <1>0, <1>1, <1>2
        <4>2. CASE ~(i < p)
          <5>1. u[i] = s[i + 1] /\ i + 1 \in 1 .. Len(s) /\ i + 1 # p
            BY <4>2, <1>0, <1>1, <1>2
          <5> QED BY <5>1, <3>1
        <4> QED BY <4>1, <4>2
      <3> QED BY <3>2, <1>0, <1>1, <1>4 DEF Range
    <2>2. ASSUME NEW x \in Range(s) \ {k} PROVE x \in Range(u)
      <3>1. PICK j \in 1 .. Len(s) : x = s[j]
        BY <1>0 DEF Range
      <3>2. j # p
        BY <3>1, <1>1
      <3>3. \E i \in 1 .. Len(s) - 1 : u[i] = x
        <4>1. CASE j < p
          BY <4>1, <3>1, <1>0, <1>1, <1>2
        <4>2. CASE j > p
          <5>1. j - 1 \in 1 .. Len(s) - 1 /\ ~(j - 1 < p) /\ (j - 1) + 1 = j
            BY <4>2, <1>0, <1>1
          <5>2. u[j - 1] = s[(j - 1) + 1]
            BY <5>1, <1>2
          <5> QED BY <5>1, <5>2, <3>1
        <4> QED BY <4>1, <4>2, <3>2, <1>0, <1>1
      <3> QED BY <3>3, <1>3 DEF Range
    <2> QED BY <2>1, <2>2
  <1> QED BY <1>2, <1>5, <1>6 DEF u

(* MoveToFront puts k first and keeps every other key, each once.          *)
LEMMA MoveToFrontProperties ==
    ASSUME NEW S, NEW s \in Seq(S), IsInjective(s), NEW k \in S
    PROVE  /\ MoveToFront(s, k) \in Seq(S)
           /\ Len(MoveToFront(s, k)) = IF k \in Range(s) THEN Len(s) ELSE Len(s) + 1
           /\ IsInjective(MoveToFront(s, k))
           /\ Range(MoveToFront(s, k)) = Range(s) \cup {k}
           /\ MoveToFront(s, k)[1] = k
  <1> DEFINE r == IF k \in Range(s) THEN Unlink(s, k) ELSE s
  <1>0. Len(s) \in Nat
    BY LenProperties
  <1>1. /\ r \in Seq(S)
        /\ Len(r) = IF k \in Range(s) THEN Len(s) - 1 ELSE Len(s)
        /\ IsInjective(r)
        /\ Range(r) = Range(s) \ {k}
    BY UnlinkProperties
  <1>2. MoveToFront(s, k) = <<k>> \o r
    BY DEF MoveToFront
  <1> HIDE DEF r
  <1> DEFINE m == <<k>> \o r
  <1>3. <<k>> \in Seq(S) /\ Len(<<k>>) = 1 /\ <<k>>[1] = k
    OBVIOUS
  <1>4. Len(r) \in Nat /\ DOMAIN r = 1 .. Len(r)
    BY <1>1, LenProperties
  <1>5. /\ m \in Seq(S)
        /\ Len(m) = 1 + Len(r)
        /\ \A i \in 1 .. 1 + Len(r) : m[i] = IF i <= 1 THEN k ELSE r[i - 1]
    BY <1>1, <1>3, <1>4, ConcatProperties
  <1>7. DOMAIN m = 1 .. 1 + Len(r)
    BY <1>5, LenProperties
  <1> HIDE DEF m
  <1>6. Range(m) = {k} \cup Range(r)
    <2>1. Range(m) = {m[i] : i \in 1 .. 1 + Len(r)}
      BY <1>7 DEF Range
    <2>2. Range(r) = {r[i] : i \in 1 .. Len(r)}
      BY <1>4 DEF Range
    <2>3. m[1] = k
      BY <1>4, <1>5
    <2>4. \A i \in 1 .. Len(r) : i + 1 \in 1 .. 1 + Len(r) /\ m[i + 1] = r[i]
      BY <1>4, <1>5
    <2>5. ASSUME NEW i \in 1 .. 1 + Len(r), i # 1
          PROVE  i - 1 \in 1 .. Len(r) /\ m[i] = r[i - 1]
      BY <1>4, <1>5, <2>5
    <2>6. 1 \in 1 .. 1 + Len(r)
      BY <1>4
    <2>7. Range(m) \subseteq {k} \cup Range(r)
      BY <2>1, <2>2, <2>3, <2>5
    <2>8. {k} \cup Range(r) \subseteq Range(m)
      BY <2>1, <2>2, <2>3, <2>4, <2>6
    <2> QED BY <2>7, <2>8
  <1>8. IsInjective(m)
    <2>1. \A a, b \in 1 .. Len(r) : r[a] = r[b] => a = b
      BY <1>1, <1>4 DEF IsInjective
    <2>2. \A a \in 1 .. Len(r) : r[a] # k
      BY <1>1, <1>4 DEF Range
    <2>3. ASSUME NEW a \in 1 .. 1 + Len(r), NEW b \in 1 .. 1 + Len(r),
                 m[a] = m[b]
          PROVE  a = b
      <3>1. CASE a = 1 /\ b = 1
        BY <3>1
      <3>2. CASE a = 1 /\ b # 1
        <4>1. b - 1 \in 1 .. Len(r) /\ m[b] = r[b - 1] /\ m[a] = k
          BY <3>2, <1>4, <1>5
        <4> QED BY <4>1, <2>2, <2>3
      <3>3. CASE a # 1 /\ b = 1
        <4>1. a - 1 \in 1 .. Len(r) /\ m[a] = r[a - 1] /\ m[b] = k
          BY <3>3, <1>4, <1>5
        <4> QED BY <4>1, <2>2, <2>3
      <3>4. CASE a # 1 /\ b # 1
        <4>1. /\ a - 1 \in 1 .. Len(r) /\ b - 1 \in 1 .. Len(r)
              /\ m[a] = r[a - 1] /\ m[b] = r[b - 1]
          BY <3>4, <1>4, <1>5
        <4>2. a - 1 = b - 1
          BY <4>1, <2>1, <2>3
        <4> QED BY <4>2, <1>4
      <3> QED BY <3>1, <3>2, <3>3, <3>4
    <2> QED BY <2>3, <1>7 DEF IsInjective
  <1>9. m[1] = k
    BY <1>4, <1>5
  <1> QED BY <1>0, <1>1, <1>2, <1>5, <1>6, <1>8, <1>9 DEF m

(* Cutting a list without duplicates after its first n keys removes        *)
(* exactly the keys behind them.                                           *)
LEMMA PrefixProperties ==
    ASSUME NEW S, NEW s \in Seq(S), IsInjective(s), NEW n \in 0 .. Len(s)
    PROVE  /\ SubSeq(s, 1, n) \in Seq(S)
           /\ Len(SubSeq(s, 1, n)) = n
           /\ IsInjective(SubSeq(s, 1, n))
           /\ Range(SubSeq(s, 1, n)) = Range(s) \ {s[i] : i \in {j \in DOMAIN s : j > n}}
  <1> DEFINE u == SubSeq(s, 1, n)
  <1>0. Len(s) \in Nat /\ DOMAIN s = 1 .. Len(s) /\ \A i \in 1 .. Len(s) : s[i] \in S
    BY LenProperties, ElementOfSeq
  <1>1. u \in Seq(S) /\ Len(u) = n /\ \A i \in 1 .. n : u[i] = s[i]
    <2>1. \A i \in 1 .. n : s[i] \in S
      BY <1>0
    <2>2. /\ u \in Seq(S)
          /\ Len(u) = IF 1 <= n THEN n - 1 + 1 ELSE 0
          /\ \A i \in 1 .. n - 1 + 1 : u[i] = s[1 + i - 1]
      BY <1>0, <2>1, SubSeqProperties
    <2> QED BY <1>0, <2>2
  <1>2. DOMAIN u = 1 .. n
    BY <1>1, LenProperties
  <1> HIDE DEF u
  <1>3. \A a, b \in 1 .. Len(s) : s[a] = s[b] => a = b
    BY <1>0 DEF IsInjective
  <1>4. IsInjective(u)
    BY <1>0, <1>1, <1>2, <1>3 DEF IsInjective
  <1>5. Range(u) = Range(s) \ {s[i] : i \in {j \in DOMAIN s : j > n}}
    <2>1. Range(u) = {s[i] : i \in 1 .. n}
      BY <1>1, <1>2 DEF Range
    <2>2. Range(s) = {s[i] : i \in 1 .. Len(s)}
      BY <1>0 DEF Range
    <2>3. {j \in DOMAIN s : j > n} = n + 1 .. Len(s)
      BY <1>0
    <2>4. ASSUME NEW i \in 1 .. n, NEW j \in n + 1 .. Len(s)
          PROVE  s[i] # s[j]
      BY <1>0, <1>3
    <2>5. 1 .. Len(s) = (1 .. n) \cup (n + 1 .. Len(s))
      BY <1>0
    <2> QED BY <2>1, <2>2, <2>3, <2>4, <2>5
  <1> QED BY <1>1, <1>4, <1>5 DEF u

-----------------------------------------------------------------------------
(* What they do to the order in which the keys stand.                      *)

(* Unlink keeps the order of what is left.                                 *)
LEMMA UnlinkKeepsOrder ==
    ASSUME NEW S, NEW s \in Seq(S), IsInjective(s), NEW k \in Range(s),
           NEW x, NEW y
    PROVE  Before(Unlink(s, k), x, y) <=> Before(s, x, y) /\ x # k /\ y # k
  <1> DEFINE p == Position(s, k)
             u == Unlink(s, k)
  <1>0. Len(s) \in Nat /\ DOMAIN s = 1 .. Len(s)
    BY LenProperties
  <1>1. p \in 1 .. Len(s) /\ s[p] = k
    BY PositionIsThere
  <1>2. /\ u \in Seq(S)
        /\ Len(u) = Len(s) - 1
        /\ \A i \in 1 .. Len(s) - 1 : u[i] = IF i < p THEN s[i] ELSE s[i + 1]
    BY <1>1, RemoveAtProperties DEF Unlink
  <1>3. DOMAIN u = 1 .. Len(s) - 1
    BY <1>2, LenProperties
  <1> HIDE DEF p, u
  <1>4. \A a, b \in 1 .. Len(s) : s[a] = s[b] => a = b
    BY <1>0 DEF IsInjective
  <1>5. ASSUME Before(u, x, y) PROVE Before(s, x, y) /\ x # k /\ y # k
    <2>1. PICK i, j \in 1 .. Len(s) - 1 : i < j /\ u[i] = x /\ u[j] = y
      BY <1>3, <1>5 DEF Before
    <2> DEFINE f(n) == IF n < p THEN n ELSE n + 1
    <2>2. /\ f(i) \in 1 .. Len(s) /\ f(j) \in 1 .. Len(s)
          /\ f(i) < f(j) /\ f(i) # p /\ f(j) # p
      BY <2>1, <1>0, <1>1
    <2>3. s[f(i)] = x /\ s[f(j)] = y
      BY <2>1, <1>2
    <2> HIDE DEF f
    <2> QED BY <2>2, <2>3, <1>0, <1>1, <1>4 DEF Before
  <1>6. ASSUME Before(s, x, y), x # k, y # k PROVE Before(u, x, y)
    <2>1. PICK i, j \in 1 .. Len(s) : i < j /\ s[i] = x /\ s[j] = y
      BY <1>0, <1>6 DEF Before
    <2>2. i # p /\ j # p
      BY <2>1, <1>1, <1>6
    <2> DEFINE f(n) == IF n < p THEN n ELSE n - 1
    <2>3. f(i) \in 1 .. Len(s) - 1 /\ f(j) \in 1 .. Len(s) - 1 /\ f(i) < f(j)
      BY <2>1, <2>2, <1>0, <1>1
    <2>4. u[f(i)] = x
      BY <2>1, <2>2, <2>3, <1>0, <1>1, <1>2
    <2>5. u[f(j)] = y
      <3>1. CASE j < p
        BY <2>1, <2>3, <3>1, <1>2
      <3>2. CASE ~(j < p)
        <4>1. f(j) = j - 1 /\ ~(j - 1 < p) /\ (j - 1) + 1 = j
          BY <2>1, <2>2, <3>2, <1>0, <1>1
        <4> QED BY <2>1, <2>3, <4>1, <1>2
      <3> QED BY <3>1, <3>2
    <2> HIDE DEF f
    <2> QED BY <2>3, <2>4, <2>5, <1>3 DEF Before
  <1> QED BY <1>5, <1>6 DEF u

(* MoveToFront puts k before every other key and keeps the others' order.  *)
LEMMA MoveToFrontOrder ==
    ASSUME NEW S, NEW s \in Seq(S), IsInjective(s), NEW k \in S, NEW x, NEW y
    PROVE  Before(MoveToFront(s, k), x, y) <=>
               \/ x = k /\ y \in Range(s) \ {k}
               \/ Before(s, x, y) /\ x # k /\ y # k
  <1> DEFINE r == IF k \in Range(s) THEN Unlink(s, k) ELSE s
             m == <<k>> \o r
  <1>1. r \in Seq(S) /\ Range(r) = Range(s) \ {k}
    BY UnlinkProperties
  <1>2. Before(r, x, y) <=> Before(s, x, y) /\ x # k /\ y # k
    <2>1. CASE k \in Range(s)
      BY <2>1, UnlinkKeepsOrder
    <2>2. CASE k \notin Range(s)
      BY <2>2 DEF Before, Range
    <2> QED BY <2>1, <2>2
  <1> HIDE DEF r
  <1>3. /\ Len(r) \in Nat /\ DOMAIN r = 1 .. Len(r)
        /\ m \in Seq(S) /\ Len(m) = Len(r) + 1
        /\ m[1] = k /\ \A i \in 1 .. Len(r) : m[i + 1] = r[i]
    BY <1>1, LenProperties, ConcatProperties
  <1>4. DOMAIN m = 1 .. Len(r) + 1
    BY <1>3, LenProperties
  <1> HIDE DEF m
  <1>5. ASSUME Before(m, x, y) PROVE (x = k /\ y \in Range(r)) \/ Before(r, x, y)
    <2>1. PICK i, j \in 1 .. Len(r) + 1 : i < j /\ m[i] = x /\ m[j] = y
      BY <1>4, <1>5 DEF Before
    <2>2. j - 1 \in 1 .. Len(r) /\ r[j - 1] = y
      BY <2>1, <1>3
    <2>3. CASE i = 1
      BY <2>1, <2>2, <2>3, <1>3 DEF Range
    <2>4. CASE i # 1
      <3>1. i - 1 \in 1 .. Len(r) /\ r[i - 1] = x /\ i - 1 < j - 1
        BY <2>1, <2>4, <1>3
      <3> QED BY <2>2, <3>1, <1>3 DEF Before
    <2> QED BY <2>3, <2>4
  <1>6. ASSUME x = k, y \in Range(r) PROVE Before(m, x, y)
    <2>1. PICK j \in 1 .. Len(r) : r[j] = y
      BY <1>3, <1>6 DEF Range
    <2>2. 1 \in DOMAIN m /\ j + 1 \in DOMAIN m /\ 1 < j + 1 /\ m[j + 1] = y
      BY <2>1, <1>3, <1>4
    <2> QED BY <2>2, <1>3, <1>6 DEF Before
  <1>7. ASSUME Before(r, x, y) PROVE Before(m, x, y)
    <2>1. PICK i, j \in 1 .. Len(r) : i < j /\ r[i] = x /\ r[j] = y
      BY <1>3, <1>7 DEF Before
    <2>2. /\ i + 1 \in DOMAIN m /\ j + 1 \in DOMAIN m /\ i + 1 < j + 1
          /\ m[i + 1] = x /\ m[j + 1] = y
      BY <2>1, <1>3, <1>4
    <2> QED BY <2>2 DEF Before
  <1> QED BY <1>1, <1>2, <1>5, <1>6, <1>7 DEF MoveToFront, m, r

(* A prefix keeps the order of what is left.                               *)
LEMMA PrefixKeepsOrder ==
    ASSUME NEW S, NEW s \in Seq(S), NEW n \in 0 .. Len(s), NEW x, NEW y,
           Before(SubSeq(s, 1, n), x, y)
    PROVE  Before(s, x, y)
  <1>1. Len(s) \in Nat /\ DOMAIN s = 1 .. Len(s)
    BY LenProperties
  <1>2. DOMAIN SubSeq(s, 1, n) = 1 .. n /\ \A i \in 1 .. n : SubSeq(s, 1, n)[i] = s[i]
    BY <1>1
  <1> QED BY <1>1, <1>2 DEF Before

-----------------------------------------------------------------------------
(* MapAndListAgree is not inductive without the types of the map and of    *)
(* the list: the step of Put cuts the list by position and the map by key. *)
CacheTypeOK ==
    /\ DOMAIN entries \subseteq Keys
    /\ \A k \in DOMAIN entries : entries[k] \in Entry
    /\ order \in Seq(Keys)
    /\ now \in Nat

Inv == CacheTypeOK /\ MapAndListAgree

(* Inv holds of the empty cache.                                           *)
LEMMA InitInv == Init => Inv
  <1> SUFFICES ASSUME Init PROVE Inv
    OBVIOUS
  <1>1. DOMAIN entries = {} /\ order = <<>> /\ now = 0
    BY DEF Init
  <1>2. order \in Seq(Keys) /\ Len(order) = 0 /\ DOMAIN order = {}
    BY <1>1
  <1>3. IsInjective(order) /\ Range(order) = {}
    BY <1>2 DEF IsInjective, Range
  <1> QED BY <1>1, <1>2, <1>3, MaxEntriesAssumption
          DEF Inv, CacheTypeOK, MapAndListAgree

(* A Get, whichever way it goes, keeps Inv.                                *)
LEMMA GetInv ==
    ASSUME Inv, NEW k \in Keys, Get(k), UNCHANGED now
    PROVE  Inv'
  <1>0. /\ order \in Seq(Keys) /\ IsInjective(order)
        /\ Range(order) = DOMAIN entries /\ Len(order) <= MaxEntries
        /\ Len(order) \in Nat /\ MaxEntries \in Nat
    BY MaxEntriesAssumption, LenProperties DEF Inv, CacheTypeOK, MapAndListAgree
  <1>1. CASE GetAbsent(k)
    BY <1>1 DEF GetAbsent, Inv, CacheTypeOK, MapAndListAgree
  <1>2. CASE GetExpired(k)
    <2>1. /\ order' = Unlink(order, k) /\ entries' = Drop(entries, {k})
          /\ k \in Range(order)
      BY <1>0, <1>2 DEF GetExpired
    <2>2. /\ order' \in Seq(Keys) /\ IsInjective(order')
          /\ Range(order') = Range(order) \ {k} /\ Len(order') = Len(order) - 1
      BY <1>0, <2>1, UnlinkProperties
    <2>3. /\ DOMAIN entries' = DOMAIN entries \ {k}
          /\ \A x \in DOMAIN entries' : entries'[x] = entries[x]
      BY <2>1 DEF Drop, Restrict
    <2>4. CacheTypeOK'
      BY <2>2, <2>3 DEF Inv, CacheTypeOK, Entry
    <2>5. MapAndListAgree'
      BY <1>0, <2>2, <2>3 DEF MapAndListAgree
    <2> QED BY <2>4, <2>5 DEF Inv
  <1>3. CASE GetLive(k)
    <2>1. /\ order' = MoveToFront(order, k) /\ entries' = entries
          /\ k \in Range(order)
      BY <1>0, <1>3 DEF GetLive, Live
    <2>2. /\ order' \in Seq(Keys) /\ IsInjective(order')
          /\ Range(order') = Range(order) \cup {k} /\ Len(order') = Len(order)
      BY <1>0, <2>1, MoveToFrontProperties
    <2>3. CacheTypeOK'
      BY <2>1, <2>2 DEF Inv, CacheTypeOK, Entry
    <2>4. MapAndListAgree'
      BY <1>0, <2>1, <2>2 DEF MapAndListAgree
    <2> QED BY <2>3, <2>4 DEF Inv
  <1> QED BY <1>1, <1>2, <1>3 DEF Get

(* A Put keeps Inv: the list's overflow is what it takes out of the map.   *)
LEMMA PutInv ==
    ASSUME Inv, NEW k \in Keys, NEW r \in Runs, Put(k, r), UNCHANGED now
    PROVE  Inv'
  <1>0. /\ order \in Seq(Keys) /\ IsInjective(order)
        /\ Range(order) = DOMAIN entries /\ Len(order) <= MaxEntries
        /\ Len(order) \in Nat /\ MaxEntries \in Nat
        /\ DOMAIN entries \subseteq Keys
    BY MaxEntriesAssumption, LenProperties DEF Inv, CacheTypeOK, MapAndListAgree
  <1>1. CASE TTL[k] <= 0
    BY <1>1 DEF Put, cacheVars, Inv, CacheTypeOK, MapAndListAgree, Entry
  <1>2. CASE ~(TTL[k] <= 0)
    <2> DEFINE stored == [x \in DOMAIN entries \cup {k} |->
                              IF x = k THEN [run |-> r, expiresAt |-> now + TTL[k]]
                              ELSE entries[x]]
               linked == MoveToFront(order, k)
               n == IF Len(linked) > MaxEntries THEN MaxEntries ELSE Len(linked)
    <2>1. entries' = Drop(stored, Overflow(linked)) /\ order' = SubSeq(linked, 1, n)
      BY <1>2 DEF Put
    <2>2. /\ DOMAIN stored = DOMAIN entries \cup {k}
          /\ stored[k] = [run |-> r, expiresAt |-> now + TTL[k]]
          /\ \A x \in DOMAIN entries \ {k} : stored[x] = entries[x]
      OBVIOUS
    <2>3. stored[k] \in Entry
      <3>1. now \in Nat /\ TTL[k] \in Int
        BY TTLAssumption DEF Inv, CacheTypeOK
      <3>2. now + TTL[k] \in Nat
        BY <3>1, <1>2
      <3> QED BY <2>2, <3>2 DEF Entry
    <2>4. \A x \in DOMAIN stored : stored[x] \in Entry
      BY <2>2, <2>3 DEF Inv, CacheTypeOK
    <2> HIDE DEF stored
    <2>5. /\ linked \in Seq(Keys) /\ IsInjective(linked)
          /\ Range(linked) = DOMAIN stored /\ Len(linked) \in Nat
      BY <1>0, <2>2, MoveToFrontProperties, LenProperties
    <2> HIDE DEF linked
    <2>6. n \in 0 .. Len(linked) /\ n <= MaxEntries
      BY <1>0, <2>5
    <2>7. Overflow(linked) = {linked[i] : i \in {j \in DOMAIN linked : j > n}}
      <3>1. DOMAIN linked = 1 .. Len(linked)
        BY <2>5, LenProperties
      <3>2. {j \in DOMAIN linked : j > n} = {j \in DOMAIN linked : j > MaxEntries}
        BY <3>1, <1>0, <2>5
      <3> QED BY <3>2 DEF Overflow
    <2> HIDE DEF n
    <2>8. /\ order' \in Seq(Keys) /\ Len(order') = n /\ IsInjective(order')
          /\ Range(order') = DOMAIN stored \ Overflow(linked)
      BY <2>1, <2>5, <2>6, <2>7, PrefixProperties
    <2>9. /\ DOMAIN entries' = DOMAIN stored \ Overflow(linked)
          /\ \A x \in DOMAIN entries' : entries'[x] = stored[x]
      BY <2>1 DEF Drop, Restrict
    <2>10. CacheTypeOK'
      BY <1>0, <2>2, <2>4, <2>8, <2>9 DEF Inv, CacheTypeOK, Entry
    <2>11. MapAndListAgree'
      BY <2>6, <2>8, <2>9 DEF MapAndListAgree
    <2> QED BY <2>10, <2>11 DEF Inv
  <1> QED BY <1>1, <1>2

(* Every step keeps Inv.                                                   *)
LEMMA NextInv == Inv /\ [Next]_vars => Inv'
  <1> SUFFICES ASSUME Inv, [Next]_vars PROVE Inv'
    OBVIOUS
  <1>1. ASSUME NEW k \in Keys, Get(k) /\ UNCHANGED now PROVE Inv'
    BY <1>1, GetInv
  <1>2. ASSUME NEW k \in Keys, NEW r \in Runs, Put(k, r) /\ UNCHANGED now PROVE Inv'
    BY <1>2, PutInv
  <1>3. CASE Clear /\ UNCHANGED now
    <2>1. DOMAIN entries' = {} /\ order' = <<>> /\ now' = now
      BY <1>3 DEF Clear
    <2>2. order' \in Seq(Keys) /\ Len(order') = 0 /\ DOMAIN order' = {}
      BY <2>1
    <2>3. IsInjective(order') /\ Range(order') = {}
      BY <2>2 DEF IsInjective, Range
    <2> QED BY <2>1, <2>2, <2>3, MaxEntriesAssumption
            DEF Inv, CacheTypeOK, MapAndListAgree
  <1>4. CASE Tick
    BY <1>4 DEF Tick, cacheVars, Inv, CacheTypeOK, MapAndListAgree, Entry
  <1>5. CASE UNCHANGED vars
    BY <1>5 DEF vars, cacheVars, Inv, CacheTypeOK, MapAndListAgree, Entry
  <1> QED BY <1>1, <1>2, <1>3, <1>4, <1>5 DEF Next

(* In every reachable state the cache's map and list hold the same keys,   *)
(* each once, and no more than maxEntries of them (cache.go Get, Put).     *)
THEOREM CacheIsConsistent == Spec => []MapAndListAgree
  <1>1. Inv => MapAndListAgree
    BY DEF Inv
  <1> QED BY InitInv, NextInv, <1>1, PTL DEF Spec
-----------------------------------------------------------------------------
(* The rest of the type invariant: the counters, the last answer and the   *)
(* history of the keys, which like the list holds each of them once.       *)
RestInv ==
    /\ recency \in Seq(Keys) /\ IsInjective(recency)
    /\ hits \in Nat /\ misses \in Nat
    /\ answer \in Runs \cup {NoRun}

(* A key moved to the front of the history leaves each key there once.     *)
LEMMA HistoryFront ==
    ASSUME RestInv, NEW k \in Keys
    PROVE  MoveToFront(recency, k) \in Seq(Keys) /\ IsInjective(MoveToFront(recency, k))
  <1>1. PICK s \in Seq(Keys) : s = recency /\ IsInjective(s)
    BY DEF RestInv
  <1>2. MoveToFront(s, k) \in Seq(Keys) /\ IsInjective(MoveToFront(s, k))
    BY <1>1, MoveToFrontProperties
  <1> QED BY <1>1, <1>2

(* A Get keeps the rest: what it answers with is a run or none.            *)
LEMMA GetRest ==
    ASSUME Inv, RestInv, NEW k \in Keys, Get(k)
    PROVE  RestInv'
  <1>1. CASE GetAbsent(k)
    BY <1>1 DEF GetAbsent, RestInv
  <1>2. CASE GetExpired(k)
    BY <1>2 DEF GetExpired, RestInv
  <1>3. CASE GetLive(k)
    <2>1. entries[k].run \in Runs
      BY <1>3 DEF GetLive, Live, Inv, CacheTypeOK, Entry
    <2>2. /\ hits' = hits + 1 /\ misses' = misses /\ answer' = entries[k].run
          /\ recency' = MoveToFront(recency, k)
      BY <1>3 DEF GetLive
    <2> QED BY <2>1, <2>2, HistoryFront DEF RestInv
  <1> QED BY <1>1, <1>2, <1>3 DEF Get

(* A Put keeps the rest.                                                   *)
LEMMA PutRest ==
    ASSUME RestInv, NEW k \in Keys, NEW r, Put(k, r)
    PROVE  RestInv'
  <1>1. CASE TTL[k] <= 0
    BY <1>1 DEF Put, cacheVars, RestInv
  <1>2. CASE ~(TTL[k] <= 0)
    <2>1. recency' = MoveToFront(recency, k) /\ UNCHANGED <<hits, misses, answer>>
      BY <1>2 DEF Put
    <2> QED BY <2>1, HistoryFront DEF RestInv
  <1> QED BY <1>1, <1>2

(* Every step keeps the rest, given the types of the map.                  *)
LEMMA NextRest == Inv /\ RestInv /\ [Next]_vars => RestInv'
  <1> SUFFICES ASSUME Inv, RestInv, [Next]_vars PROVE RestInv'
    OBVIOUS
  <1>1. CASE Clear
    <2>1. recency' = <<>> /\ UNCHANGED <<hits, misses, answer>>
      BY <1>1 DEF Clear
    <2>2. recency' \in Seq(Keys) /\ DOMAIN recency' = {}
      BY <2>1
    <2>3. IsInjective(recency')
      BY <2>2 DEF IsInjective
    <2> QED BY <2>1, <2>2, <2>3 DEF RestInv
  <1>2. CASE UNCHANGED cacheVars
    BY <1>2 DEF cacheVars, RestInv
  <1> QED BY <1>1, <1>2, GetRest, PutRest DEF Next, Tick, vars

(* It holds of the empty cache.                                            *)
LEMMA InitRest == Init => RestInv
  <1> SUFFICES ASSUME Init PROVE RestInv
    OBVIOUS
  <1>1. recency = <<>> /\ hits = 0 /\ misses = 0 /\ answer = NoRun
    BY DEF Init
  <1>2. recency \in Seq(Keys) /\ DOMAIN recency = {}
    BY <1>1
  <1> QED BY <1>1, <1>2 DEF RestInv, IsInjective

(* TypeOK for every key set, capacity and time to live.                    *)
THEOREM CacheTypes == Spec => []TypeOK
  <1>1. Inv /\ RestInv => TypeOK
    BY DEF Inv, CacheTypeOK, RestInv, TypeOK
  <1> QED BY InitInv, InitRest, NextInv, NextRest, <1>1, PTL DEF Spec
-----------------------------------------------------------------------------
(* Refinement.                                                             *)

(* The map has as many entries as the list has elements.                   *)
LEMMA SizeOfMap ==
    ASSUME Inv
    PROVE  IsFiniteSet(DOMAIN entries) /\ Cardinality(DOMAIN entries) = Len(order)
  <1>1. /\ order \in Seq(Keys) /\ IsInjective(order)
        /\ Range(order) = DOMAIN entries
    BY DEF Inv, CacheTypeOK, MapAndListAgree
  <1>2. Len(order) \in Nat /\ DOMAIN order = 1 .. Len(order)
        /\ order \in [1 .. Len(order) -> DOMAIN entries]
    <2>1. Len(order) \in Nat /\ DOMAIN order = 1 .. Len(order)
          /\ order \in [1 .. Len(order) -> Keys]
      BY <1>1, LenProperties
    <2> QED BY <2>1, <1>1 DEF Range
  <1>3. order \in Bijection(1 .. Len(order), DOMAIN entries)
    BY <1>1, <1>2 DEF Bijection, Injection, Surjection, IsInjective, Range
  <1>4. IsFiniteSet(1 .. Len(order)) /\ Cardinality(1 .. Len(order)) = Len(order)
    BY <1>2, FS_Interval
  <1>5. /\ IsFiniteSet(DOMAIN entries)
        /\ Cardinality(DOMAIN entries) = Cardinality(1 .. Len(order))
    BY <1>3, <1>4, FS_Bijection DEF ExistsBijection
  <1> QED BY <1>4, <1>5

(* TTLStore's Cardinality is that of FiniteSets.                           *)
LEMMA SameCardinality == \A S : Store!Cardinality(S) = Cardinality(S)
  BY DEF Cardinality, Store!Cardinality

(* A Put stores the key and gives up at most the one entry the store may.  *)
LEMMA PutRefines ==
    ASSUME Inv, NEW k \in Keys, NEW r \in Runs, Put(k, r), UNCHANGED now
    PROVE  [Store!Next]_(Store!vars)
  <1>0. /\ order \in Seq(Keys) /\ IsInjective(order)
        /\ Range(order) = DOMAIN entries /\ Len(order) <= MaxEntries
        /\ Len(order) \in Nat /\ MaxEntries \in Nat \ {0}
        /\ now \in Nat
    BY MaxEntriesAssumption, LenProperties DEF Inv, CacheTypeOK, MapAndListAgree
  <1>1. CASE TTL[k] <= 0
    BY <1>1 DEF Put, cacheVars, Store!vars
  <1>2. CASE ~(TTL[k] <= 0)
    <2> DEFINE stored == [x \in DOMAIN entries \cup {k} |->
                              IF x = k THEN [run |-> r, expiresAt |-> now + TTL[k]]
                              ELSE entries[x]]
               linked == MoveToFront(order, k)
               V == Overflow(linked)
               store == [x \in DOMAIN entries |-> [value |-> entries[x].run,
                                                  expiresAt |-> entries[x].expiresAt]]
    <2>1. /\ DOMAIN entries' = (DOMAIN entries \cup {k}) \ V
          /\ \A x \in DOMAIN entries' :
                entries'[x] = IF x = k THEN [run |-> r, expiresAt |-> now + TTL[k]]
                              ELSE entries[x]
          /\ answer' = answer /\ now' = now
      BY <1>2 DEF Put, Drop, Restrict
    <2>2. /\ linked \in Seq(Keys) /\ IsInjective(linked) /\ linked[1] = k
          /\ Len(linked) = IF k \in DOMAIN entries THEN Len(order) ELSE Len(order) + 1
          /\ Range(linked) = DOMAIN entries \cup {k}
          /\ DOMAIN linked = 1 .. Len(linked)
      BY <1>0, MoveToFrontProperties, LenProperties
    <2> HIDE DEF linked
    <2>3. V = {linked[i] : i \in {j \in 1 .. Len(linked) : j > MaxEntries}}
      BY <2>2 DEF Overflow
    <2> HIDE DEF V
    <2>4. V \in Store!Victims(k) /\ k \notin V
      <3>1. CASE k \in DOMAIN entries \/ Len(order) < MaxEntries
        <4>1. V = {}
          BY <3>1, <2>2, <2>3, <1>0
        <4>2. k \in DOMAIN store \/ Store!Cardinality(DOMAIN store) < MaxEntries
          BY <3>1, SizeOfMap, SameCardinality
        <4> QED BY <4>1, <4>2 DEF Store!Victims
      <3>2. CASE ~(k \in DOMAIN entries \/ Len(order) < MaxEntries)
        <4>1. Len(order) = MaxEntries /\ Len(linked) = MaxEntries + 1
          BY <3>2, <2>2, <1>0
        <4>2. {j \in 1 .. Len(linked) : j > MaxEntries} = {MaxEntries + 1}
          BY <4>1, <1>0
        <4>3. V = {linked[MaxEntries + 1]}
          BY <4>2, <2>3
        <4>4. linked[MaxEntries + 1] # linked[1]
          BY <4>1, <2>2, <1>0 DEF IsInjective
        <4>5. linked[MaxEntries + 1] \in Range(linked)
          BY <4>1, <2>2, <1>0 DEF Range
        <4>6. linked[MaxEntries + 1] \in DOMAIN entries
          BY <4>4, <4>5, <2>2
        <4>7. ~(k \in DOMAIN store \/ Store!Cardinality(DOMAIN store) < MaxEntries)
          BY <3>2, <4>1, <1>0, SizeOfMap, SameCardinality
        <4> QED BY <4>3, <4>4, <4>6, <4>7, <2>2 DEF Store!Victims
      <3> QED BY <3>1, <3>2
    <2>5. k \in DOMAIN store' /\ DOMAIN store' = (DOMAIN store \ V) \cup {k}
      BY <2>1, <2>4
    <2>6. store'[k] \in Store!Entry
      <3>1. store'[k] = [value |-> r, expiresAt |-> now + TTL[k]]
        BY <2>1, <2>5
      <3>2. now + TTL[k] \in Nat
        BY <1>0, <1>2, TTLAssumption
      <3> QED BY <3>1, <3>2 DEF Store!Entry
    <2>7. \A x \in DOMAIN store' \ {k} : store'[x] = store[x]
      BY <2>1
    <2>8. Store!Put(k)
      BY <2>1, <2>4, <2>5, <2>6, <2>7 DEF Store!Put
    <2> QED BY <2>8 DEF Store!Next
  <1> QED BY <1>1, <1>2

(* A Get answers what the store holds, while it is fresh.                  *)
LEMMA GetRefines ==
    ASSUME Inv, NEW k \in Keys, Get(k), UNCHANGED now
    PROVE  [Store!Next]_(Store!vars)
  <1> DEFINE store == [x \in DOMAIN entries |-> [value |-> entries[x].run,
                                                expiresAt |-> entries[x].expiresAt]]
  <1>0. now \in Nat /\ \A x \in DOMAIN entries : entries[x].expiresAt \in Nat
    BY DEF Inv, CacheTypeOK, Entry
  <1>1. CASE GetAbsent(k)
    <2>1. k \notin DOMAIN store /\ store' = [x \in DOMAIN store \ {k} |-> store[x]]
      BY <1>1 DEF GetAbsent
    <2>2. Store!Miss(k)
      BY <1>1, <2>1 DEF GetAbsent, Store!Miss
    <2> QED BY <2>2 DEF Store!Next
  <1>2. CASE GetExpired(k)
    <2>1. ~Store!Fresh(store[k])
      BY <1>0, <1>2 DEF GetExpired, Live, Store!Fresh
    <2>2. store' = [x \in DOMAIN store \ {k} |-> store[x]]
      BY <1>2 DEF GetExpired, Drop, Restrict
    <2>3. Store!Miss(k)
      BY <1>2, <2>1, <2>2 DEF GetExpired, Store!Miss
    <2> QED BY <2>3 DEF Store!Next
  <1>3. CASE GetLive(k)
    <2>1. k \in DOMAIN store /\ Store!Fresh(store[k])
      BY <1>0, <1>3 DEF GetLive, Live, Store!Fresh
    <2>2. store' = store /\ answer' = store[k].value
      BY <1>3, <2>1 DEF GetLive
    <2>3. Store!Hit(k)
      BY <2>1, <2>2 DEF Store!Hit
    <2> QED BY <2>3 DEF Store!Next
  <1> QED BY <1>1, <1>2, <1>3 DEF Get

(* The LRU list with its expiries implements the store with expiries: a    *)
(* Get is answered by the last run stored under its key, before one TTL    *)
(* has passed, and a Put costs at most one other key, and only when full.  *)
THEOREM CacheImplementsStore == Spec => ImplementsStore
  <1>1. Init => Store!Init
    BY DEF Init, Store!Init
  <1>2. Inv /\ [Next]_vars => [Store!Next]_(Store!vars)
    <2> SUFFICES ASSUME Inv, [Next]_vars PROVE [Store!Next]_(Store!vars)
      OBVIOUS
    <2>1. ASSUME NEW k \in Keys, Get(k) /\ UNCHANGED now
          PROVE  [Store!Next]_(Store!vars)
      BY <2>1, GetRefines
    <2>2. ASSUME NEW k \in Keys, NEW r \in Runs, Put(k, r) /\ UNCHANGED now
          PROVE  [Store!Next]_(Store!vars)
      BY <2>2, PutRefines
    <2>3. CASE Clear /\ UNCHANGED now
      BY <2>3 DEF Clear, Store!Clear, Store!Next
    <2>4. CASE Tick
      BY <2>4 DEF Tick, cacheVars, Store!Tick, Store!Next
    <2>5. CASE UNCHANGED vars
      BY <2>5 DEF vars, cacheVars, Store!vars
    <2> QED BY <2>1, <2>2, <2>3, <2>4, <2>5 DEF Next
  <1> QED BY <1>1, <1>2, InitInv, NextInv, PTL DEF Spec, ImplementsStore, Store!Spec
-----------------------------------------------------------------------------
(* The action properties.                                                  *)

(* The list is in the order of the last uses.                              *)
ByRecency ==
    /\ Range(order) \subseteq Range(recency)
    /\ \A x, y : Before(order, x, y) => Before(recency, x, y)

(* Moving one key to the front of both keeps them in one order.            *)
LEMMA FrontOfBoth ==
    ASSUME Inv, RestInv, ByRecency, NEW k \in Keys
    PROVE  /\ Range(MoveToFront(order, k)) \subseteq Range(MoveToFront(recency, k))
           /\ \A x, y : Before(MoveToFront(order, k), x, y) =>
                            Before(MoveToFront(recency, k), x, y)
  <1>1. PICK s \in Seq(Keys), t \in Seq(Keys) :
            s = order /\ t = recency /\ IsInjective(s) /\ IsInjective(t)
    BY DEF Inv, CacheTypeOK, MapAndListAgree, RestInv
  <1>2. Range(s) \subseteq Range(t) /\ \A x, y : Before(s, x, y) => Before(t, x, y)
    BY <1>1 DEF ByRecency
  <1>3. /\ Range(MoveToFront(s, k)) = Range(s) \cup {k}
        /\ Range(MoveToFront(t, k)) = Range(t) \cup {k}
    BY <1>1, MoveToFrontProperties
  <1>4. ASSUME NEW x, NEW y, Before(MoveToFront(s, k), x, y)
        PROVE  Before(MoveToFront(t, k), x, y)
    BY <1>1, <1>2, <1>4, MoveToFrontOrder
  <1> QED BY <1>1, <1>2, <1>3, <1>4

LEMMA NextByRecency == Inv /\ RestInv /\ ByRecency /\ [Next]_vars => ByRecency'
  <1> SUFFICES ASSUME Inv, RestInv, ByRecency, [Next]_vars PROVE ByRecency'
    OBVIOUS
  <1>1. PICK s \in Seq(Keys) : s = order /\ IsInjective(s) /\ Range(s) = DOMAIN entries
    BY DEF Inv, CacheTypeOK, MapAndListAgree
  <1>2. ASSUME NEW k \in Keys, Get(k) PROVE ByRecency'
    <2>1. CASE GetAbsent(k)
      BY <2>1 DEF GetAbsent, ByRecency
    <2>2. CASE GetExpired(k)
      <3>1. k \in Range(s) /\ order' = Unlink(s, k) /\ recency' = recency
        BY <2>2, <1>1 DEF GetExpired
      <3>2. Range(order') \subseteq Range(s)
        BY <3>1, <1>1, UnlinkProperties
      <3>3. \A x, y : Before(order', x, y) => Before(s, x, y)
        BY <3>1, <1>1, UnlinkKeepsOrder
      <3> QED BY <3>1, <3>2, <3>3, <1>1 DEF ByRecency
    <2>3. CASE GetLive(k)
      <3>1. order' = MoveToFront(order, k) /\ recency' = MoveToFront(recency, k)
        BY <2>3 DEF GetLive
      <3> QED BY <3>1, FrontOfBoth DEF ByRecency
    <2> QED BY <1>2, <2>1, <2>2, <2>3 DEF Get
  <1>3. ASSUME NEW k \in Keys, NEW r \in Runs, Put(k, r) PROVE ByRecency'
    <2>1. CASE TTL[k] <= 0
      BY <1>3, <2>1 DEF Put, cacheVars, ByRecency
    <2>2. CASE ~(TTL[k] <= 0)
      <3>1. PICK m \in Seq(Keys) : m = MoveToFront(order, k) /\ IsInjective(m)
        BY <1>1, MoveToFrontProperties
      <3>2. PICK n \in 0 .. Len(m) : n = IF Len(m) > MaxEntries THEN MaxEntries ELSE Len(m)
        BY <3>1, MaxEntriesAssumption, LenProperties
      <3>3. order' = SubSeq(m, 1, n) /\ recency' = MoveToFront(recency, k)
        BY <1>3, <2>2, <3>1, <3>2 DEF Put
      <3>4. Range(order') \subseteq Range(m)
        BY <3>1, <3>3, PrefixProperties
      <3>5. \A x, y : Before(order', x, y) => Before(m, x, y)
        BY <3>3, PrefixKeepsOrder
      <3> QED BY <3>1, <3>3, <3>4, <3>5, FrontOfBoth DEF ByRecency
    <2> QED BY <2>1, <2>2
  <1>4. CASE Clear
    <2>1. order' = <<>> /\ DOMAIN order' = {}
      BY <1>4 DEF Clear
    <2> QED BY <2>1 DEF ByRecency, Before, Range
  <1>5. CASE UNCHANGED cacheVars
    BY <1>5 DEF cacheVars, ByRecency
  <1> QED BY <1>2, <1>3, <1>4, <1>5 DEF Next, Tick, vars

(* A Put of a new key into a full cache takes away the end of the list.    *)
LEMMA PutEvicts ==
    ASSUME Inv, ByRecency, NEW k \in Keys, NEW r \in Runs, Put(k, r),
           NEW n \in DOMAIN entries' \ DOMAIN entries,
           NEW v \in DOMAIN entries \ DOMAIN entries'
    PROVE  /\ Cardinality(DOMAIN entries) = MaxEntries
           /\ \A u \in DOMAIN entries \ {v} : Before(recency, u, v)
  <1>1. PICK s \in Seq(Keys) : s = order /\ IsInjective(s) /\ Range(s) = DOMAIN entries
                               /\ Len(s) <= MaxEntries
    BY DEF Inv, CacheTypeOK, MapAndListAgree
  <1>2. Len(s) \in Nat /\ DOMAIN s = 1 .. Len(s) /\ MaxEntries \in Nat \ {0}
    BY MaxEntriesAssumption, LenProperties
  <1> DEFINE m == MoveToFront(s, k)
             V == Overflow(m)
  <1>3. DOMAIN entries' = (DOMAIN entries \cup {k}) \ V
    BY <1>1 DEF Put, Drop, Restrict, cacheVars
  <1>4. k \notin DOMAIN entries /\ v \in V
    BY <1>3
  <1>5. m = <<k>> \o s
    BY <1>1, <1>4 DEF MoveToFront
  <1>6. /\ Len(m) = Len(s) + 1 /\ DOMAIN m = 1 .. Len(s) + 1
        /\ \A i \in 1 .. Len(s) : m[i + 1] = s[i]
    <2>1. m \in Seq(Keys)
      BY <1>5
    <2>2. Len(m) = Len(s) + 1 /\ \A i \in 1 .. Len(s) : m[i + 1] = s[i]
      BY <1>2, <1>5, ConcatProperties
    <2> QED BY <2>1, <2>2, LenProperties
  <1>7. PICK j \in DOMAIN m : j > MaxEntries /\ m[j] = v
    BY <1>4 DEF Overflow
  <1> HIDE DEF m
  <1>8. Len(s) = MaxEntries /\ j = Len(s) + 1 /\ s[Len(s)] = v
    <2>1. j \in 1 .. Len(s) + 1 /\ j > MaxEntries /\ m[j] = v
      BY <1>6, <1>7
    <2>2. Len(s) = MaxEntries /\ j = Len(s) + 1 /\ Len(s) \in 1 .. Len(s)
      <3>1. ASSUME NEW l \in Nat, NEW c \in Nat \ {0}, l <= c, NEW i \in 1 .. l + 1, i > c
            PROVE  l = c /\ i = l + 1 /\ l \in 1 .. l
        BY <3>1
      <3>2. Len(s) \in Nat /\ MaxEntries \in Nat \ {0} /\ Len(s) <= MaxEntries
        BY <1>1, <1>2
      <3> QED BY <2>1, <3>1, <3>2
    <2>3. m[Len(s) + 1] = s[Len(s)]
      BY <1>6, <2>2
    <2> QED BY <2>1, <2>2, <2>3
  <1>9. ASSUME NEW u \in DOMAIN entries \ {v} PROVE Before(recency, u, v)
    <2>1. PICK i \in 1 .. Len(s) : s[i] = u
      BY <1>1, <1>2 DEF Range
    <2>2. i < Len(s) /\ Len(s) \in DOMAIN s
      BY <1>2, <1>8, <2>1
    <2>3. Before(s, u, v)
      BY <1>2, <1>8, <2>1, <2>2 DEF Before
    <2> QED BY <1>1, <2>3 DEF ByRecency
  <1> QED BY <1>1, <1>8, <1>9, SizeOfMap

(* EvictsLeastRecent for every capacity and every order of uses: a new run *)
(* costs at most one other, only at capacity (cache.go, Put), and the one  *)
(* whose last Get or Put is longest ago.                                   *)
THEOREM EvictsLeastRecently == Spec => EvictsLeastRecent
  <1> DEFINE Evicts == \A k \in DOMAIN entries' \ DOMAIN entries :
          LET lost == DOMAIN entries \ DOMAIN entries'
          IN  /\ lost # {} => Cardinality(DOMAIN entries) = MaxEntries
              /\ \A v \in lost : \A u \in DOMAIN entries \ {v} : Before(recency, u, v)
  <1>1. Init => ByRecency
    <2> SUFFICES ASSUME Init PROVE ByRecency
      OBVIOUS
    <2>1. order = <<>> /\ DOMAIN order = {}
      BY DEF Init
    <2> QED BY <2>1 DEF ByRecency, Before, Range
  <1>2. Inv /\ ByRecency /\ [Next]_vars => [Evicts]_vars
    <2> SUFFICES ASSUME Inv, ByRecency, Next PROVE Evicts
      OBVIOUS
    <2>1. ASSUME NEW k \in Keys, Get(k) PROVE DOMAIN entries' \subseteq DOMAIN entries
      BY <2>1 DEF Get, GetAbsent, GetExpired, GetLive, Drop, Restrict
    <2>2. ASSUME Clear \/ Tick PROVE DOMAIN entries' \subseteq DOMAIN entries
      BY <2>2 DEF Clear, Tick, cacheVars
    <2>3. ASSUME NEW k \in Keys, NEW r \in Runs, Put(k, r) PROVE Evicts
      BY <2>3, PutEvicts
    <2> QED BY <2>1, <2>2, <2>3 DEF Next
  <1>3. Init => Inv /\ RestInv
    BY InitInv, InitRest
  <1> QED BY <1>1, <1>2, <1>3, NextInv, NextRest, NextByRecency, PTL
             DEF Spec, EvictsLeastRecent

(* OnlyAStoreRenews for every policy and any sequence of reads: no step    *)
(* that answers a read changes an entry it leaves, so a popular answer     *)
(* grows as old as any other (cache.go, Get).                              *)
THEOREM OnlyStoresRenew == Spec => OnlyAStoreRenews
  <1> DEFINE Renews == \A k \in DOMAIN entries \cap DOMAIN entries' :
          entries'[k] # entries[k] =>
              /\ UNCHANGED <<hits, misses, answer>>
              /\ entries'[k].expiresAt = now + TTL[k]
  <1>1. [Next]_vars => [Renews]_vars
    <2> SUFFICES ASSUME Next PROVE Renews
      OBVIOUS
    <2>1. ASSUME NEW k \in Keys, Get(k) PROVE Renews
      BY <2>1 DEF Get, GetAbsent, GetExpired, GetLive, Drop, Restrict
    <2>2. ASSUME Clear \/ Tick PROVE Renews
      BY <2>2 DEF Clear, Tick, cacheVars
    <2>3. ASSUME NEW k \in Keys, NEW r \in Runs, Put(k, r),
                 NEW u \in DOMAIN entries \cap DOMAIN entries', entries'[u] # entries[u]
          PROVE  /\ UNCHANGED <<hits, misses, answer>>
                 /\ entries'[u].expiresAt = now + TTL[u]
      <3> DEFINE stored == [x \in DOMAIN entries \cup {k} |->
                                IF x = k THEN [run |-> r, expiresAt |-> now + TTL[k]]
                                ELSE entries[x]]
                 V == Overflow(MoveToFront(order, k))
      <3>1. entries' = Drop(stored, V)
        BY <2>3 DEF Put, cacheVars
      <3>2. u \in DOMAIN stored /\ entries'[u] = stored[u]
        BY <3>1, <2>3 DEF Drop, Restrict
      <3>3. u = k /\ stored[k].expiresAt = now + TTL[k]
        BY <2>3, <3>2
      <3>4. UNCHANGED <<hits, misses, answer>>
        BY <2>3 DEF Put, cacheVars
      <3> QED BY <3>2, <3>3, <3>4
    <2> QED BY <2>1, <2>2, <2>3 DEF Next
  <1> QED BY <1>1, PTL DEF Spec, OnlyAStoreRenews
=============================================================================
