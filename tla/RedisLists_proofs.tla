-------------------------- MODULE RedisLists_proofs --------------------------
(***************************************************************************)
(* What each list command does to the set of values in a list, and that it *)
(* introduces no duplicate.                                                *)
(***************************************************************************)
EXTENDS RedisLists, SequenceTheorems, TLAPS

(* Pushing at either end adds exactly the value pushed.                     *)
LEMMA RPushLemma ==
  ASSUME NEW S, NEW s \in Seq(S), NEW e \in S
  PROVE  /\ RPush(s, e) \in Seq(S)
         /\ Elements(RPush(s, e)) = Elements(s) \cup {e}
         /\ Distinct(s) /\ e \notin Elements(s) => Distinct(RPush(s, e))
BY DEF RPush, Elements, Distinct

LEMMA LPushLemma ==
  ASSUME NEW S, NEW s \in Seq(S), NEW e \in S
  PROVE  /\ LPush(s, e) \in Seq(S)
         /\ Elements(LPush(s, e)) = Elements(s) \cup {e}
         /\ Distinct(s) /\ e \notin Elements(s) => Distinct(LPush(s, e))
<1> DEFINE t == LPush(s, e)
<1>1. /\ t \in Seq(S) /\ Len(t) = Len(s) + 1
      /\ \A k \in 1..Len(t) : t[k] = IF k = 1 THEN e ELSE s[k - 1]
  BY DEF LPush
<1>2. DOMAIN t = 1..(Len(s) + 1) /\ DOMAIN s = 1..Len(s)
  BY <1>1
<1> HIDE DEF t
<1>3. Elements(t) \subseteq Elements(s) \cup {e}
  BY <1>1, <1>2 DEF Elements
<1>4. e \in Elements(t)
  BY <1>1, <1>2 DEF Elements
<1>5. Elements(s) \subseteq Elements(t)
  <2> SUFFICES ASSUME NEW k \in DOMAIN s PROVE s[k] \in Elements(t)
    BY DEF Elements
  <2>1. k + 1 \in DOMAIN t /\ t[k + 1] = s[k]
    BY <1>1, <1>2
  <2> QED BY <2>1 DEF Elements
<1>6. Distinct(s) /\ e \notin Elements(s) => Distinct(t)
  <2> SUFFICES ASSUME Distinct(s), e \notin Elements(s),
                      NEW j \in DOMAIN t, NEW k \in DOMAIN t, t[j] = t[k]
               PROVE  j = k
    BY DEF Distinct
  <2>1. \A n \in DOMAIN s : s[n] # e
    BY DEF Elements
  <2>2. CASE j = 1 \/ k = 1
    BY <1>1, <1>2, <2>1, <2>2
  <2>3. CASE j # 1 /\ k # 1
    <3>1. j - 1 \in DOMAIN s /\ k - 1 \in DOMAIN s /\ s[j - 1] = s[k - 1]
      BY <1>1, <1>2, <2>3
    <3>2. j - 1 = k - 1
      BY <3>1 DEF Distinct
    <3> QED BY <1>2, <3>2
  <2> QED BY <2>2, <2>3
<1> QED BY <1>1, <1>3, <1>4, <1>5, <1>6 DEF t

(* LPOP removes the head of a non-empty list and nothing else.              *)
LEMMA LPopLemma ==
  ASSUME NEW S, NEW s \in Seq(S)
  PROVE  /\ LPop(s) \in Seq(S)
         /\ Elements(LPop(s)) \subseteq Elements(s)
         /\ s # << >> => Head(s) \in S /\ Elements(s) = Elements(LPop(s)) \cup {Head(s)}
         /\ Distinct(s) => /\ Distinct(LPop(s))
                           /\ s # << >> => Head(s) \notin Elements(LPop(s))
<1>1. CASE s = << >>
  BY <1>1 DEF LPop
<1>2. CASE s # << >>
  <2> DEFINE t == Tail(s)
  <2>1. /\ t \in Seq(S) /\ Len(t) = Len(s) - 1 /\ Len(s) \in Nat /\ Len(s) > 0
        /\ \A k \in 1..Len(t) : t[k] = s[k + 1]
    BY <1>2
  <2>2. DOMAIN t = 1..(Len(s) - 1) /\ DOMAIN s = 1..Len(s) /\ LPop(s) = t /\ Head(s) = s[1]
    BY <1>2, <2>1 DEF LPop
  <2>3. Head(s) \in S
    BY <1>2
  <2> HIDE DEF t
  <2>4. Elements(t) \subseteq Elements(s)
    BY <2>1, <2>2 DEF Elements
  <2>5. Elements(s) \subseteq Elements(t) \cup {Head(s)}
    <3> SUFFICES ASSUME NEW k \in DOMAIN s, k # 1 PROVE s[k] \in Elements(t)
      BY <2>2 DEF Elements
    <3>1. k - 1 \in DOMAIN t /\ t[k - 1] = s[k]
      BY <2>1, <2>2
    <3> QED BY <3>1 DEF Elements
  <2>6. Head(s) \in Elements(s)
    BY <2>1, <2>2 DEF Elements
  <2>7. Distinct(s) => Distinct(t) /\ Head(s) \notin Elements(t)
    <3> SUFFICES ASSUME Distinct(s) PROVE Distinct(t) /\ Head(s) \notin Elements(t)
      OBVIOUS
    <3>1. \A j \in DOMAIN t : j + 1 \in DOMAIN s /\ t[j] = s[j + 1] /\ j \in Nat \ {0}
      BY <2>1, <2>2
    <3>2. Distinct(t)
      BY <3>1 DEF Distinct
    <3>3. Head(s) \notin Elements(t)
      <4> SUFFICES ASSUME NEW j \in DOMAIN t, t[j] = Head(s) PROVE FALSE
        BY DEF Elements
      <4>1. j + 1 \in DOMAIN s /\ 1 \in DOMAIN s /\ s[j + 1] = s[1] /\ j \in Nat \ {0}
        BY <2>1, <2>2, <3>1
      <4>2. j + 1 = 1
        BY <4>1 DEF Distinct
      <4> QED BY <4>1, <4>2
    <3> QED BY <3>2, <3>3
  <2> QED BY <2>1, <2>2, <2>3, <2>4, <2>5, <2>6, <2>7
<1> QED BY <1>1, <1>2

(* The source of an RPOPLPUSH loses exactly its tail.                       *)
LEMMA RPopLemma ==
  ASSUME NEW S, NEW s \in Seq(S), s # << >>
  PROVE  /\ RTail(s) \in S /\ RPop(s) \in Seq(S)
         /\ Elements(s) = Elements(RPop(s)) \cup {RTail(s)}
         /\ Distinct(s) => Distinct(RPop(s)) /\ RTail(s) \notin Elements(RPop(s))
<1> DEFINE t == RPop(s)
<1>1. Len(s) \in Nat /\ Len(s) > 0 /\ DOMAIN s = 1..Len(s)
  OBVIOUS
<1>2. /\ t \in Seq(S) /\ Len(t) = Len(s) - 1
      /\ \A k \in 1..Len(t) : t[k] = s[k]
  BY <1>1 DEF RPop
<1>3. DOMAIN t = 1..(Len(s) - 1)
  BY <1>1, <1>2
<1> HIDE DEF t
<1>4. RTail(s) \in S /\ RTail(s) \in Elements(s) /\ RTail(s) = s[Len(s)]
  BY <1>1 DEF RTail, Elements
<1>5. Elements(t) \subseteq Elements(s)
  BY <1>1, <1>2, <1>3 DEF Elements
<1>6. Elements(s) \subseteq Elements(t) \cup {RTail(s)}
  <2> SUFFICES ASSUME NEW k \in DOMAIN s, k # Len(s) PROVE s[k] \in Elements(t)
    BY <1>4 DEF Elements
  <2>1. k \in DOMAIN t /\ t[k] = s[k]
    BY <1>1, <1>2, <1>3
  <2> QED BY <2>1 DEF Elements
<1>7. Distinct(s) => Distinct(t) /\ RTail(s) \notin Elements(t)
  BY <1>1, <1>2, <1>3, <1>4 DEF Distinct, Elements
<1> QED BY <1>2, <1>4, <1>5, <1>6, <1>7 DEF t

(* LREM removes at most the value named.                                    *)
LEMMA LRemLemma ==
  ASSUME NEW S, NEW s \in Seq(S), NEW e
  PROVE  /\ LRem(s, e) \in Seq(S)
         /\ Elements(LRem(s, e)) \subseteq Elements(s)
         /\ Elements(s) \subseteq Elements(LRem(s, e)) \cup {e}
         /\ Distinct(s) => Distinct(LRem(s, e)) /\ e \notin Elements(LRem(s, e))
<1>1. CASE e \notin Elements(s)
  BY <1>1 DEF LRem
<1>2. CASE e \in Elements(s)
  <2> DEFINE k == CHOOSE j \in DOMAIN s : s[j] = e
             t == LRem(s, e)
  <2>1. k \in DOMAIN s /\ s[k] = e
    BY <1>2 DEF Elements
  <2> HIDE DEF k
  <2>2. Len(s) \in Nat /\ DOMAIN s = 1..Len(s) /\ k \in 1..Len(s)
    BY <2>1
  <2> DEFINE u == SubSeq(s, 1, k - 1)
             v == SubSeq(s, k + 1, Len(s))
  <2>3. t = u \o v
    BY <1>2 DEF LRem, RemoveIndex, k
  <2>4. u \in Seq(S) /\ Len(u) = k - 1 /\ \A j \in 1..(k - 1) : u[j] = s[j]
    BY <2>2
  <2>5. v \in Seq(S) /\ Len(v) = Len(s) - k /\ \A j \in 1..(Len(s) - k) : v[j] = s[k + j]
    <3>1. \A j \in (k + 1)..Len(s) : s[j] \in S
      BY <2>2
    <3>2. /\ v \in Seq(S) /\ Len(v) = IF k + 1 <= Len(s) THEN Len(s) - (k + 1) + 1 ELSE 0
          /\ \A j \in 1..(Len(s) - (k + 1) + 1) : v[j] = s[k + 1 + j - 1]
      BY <2>2, <3>1, SubSeqProperties
    <3> HIDE DEF v
    <3>3. Len(v) = Len(s) - k
      <4> DEFINE n == Len(s)
                 lv == Len(v)
      <4>1. n \in Nat /\ k \in 1..n /\ lv = IF k + 1 <= n THEN n - (k + 1) + 1 ELSE 0
        BY <2>2, <3>2
      <4> HIDE DEF n, lv
      <4>2. lv = n - k
        BY <4>1
      <4> QED BY <4>2 DEF n, lv
    <3>4. ASSUME NEW j \in 1..(Len(s) - k) PROVE v[j] = s[k + j]
      <4>1. j \in 1..(Len(s) - (k + 1) + 1) /\ k + 1 + j - 1 = k + j
        BY <2>2
      <4> QED BY <3>2, <4>1
    <3> QED BY <3>2, <3>3, <3>4
  <2> HIDE DEF u, v
  <2>6. /\ t \in Seq(S) /\ Len(t) = Len(s) - 1
        /\ \A j \in 1..Len(t) : t[j] = IF j < k THEN s[j] ELSE s[j + 1]
    <3> HIDE DEF t
    <3>1. /\ t \in Seq(S) /\ Len(t) = Len(u) + Len(v)
          /\ \A j \in 1..(Len(u) + Len(v)) : t[j] = IF j <= Len(u) THEN u[j] ELSE v[j - Len(u)]
      BY <2>3, <2>4, <2>5, ConcatProperties
    <3>2. Len(t) = Len(s) - 1
      BY <2>2, <2>4, <2>5, <3>1
    <3>3. ASSUME NEW j \in 1..Len(t) PROVE t[j] = IF j < k THEN s[j] ELSE s[j + 1]
      <4>1. CASE j < k
        BY <2>2, <2>4, <2>5, <3>1, <3>2, <4>1
      <4>2. CASE ~(j < k)
        <5>1. t[j] = v[j - (k - 1)] /\ j - (k - 1) \in 1..(Len(s) - k)
          BY <2>2, <2>4, <2>5, <3>1, <3>2, <4>2
        <5>2. v[j - (k - 1)] = s[k + (j - (k - 1))]
          BY <2>5, <5>1
        <5>3. k + (j - (k - 1)) = j + 1
          BY <2>2, <3>2
        <5> QED BY <4>2, <5>1, <5>2, <5>3
      <4> QED BY <4>1, <4>2
    <3> QED BY <3>1, <3>2, <3>3
  <2> HIDE DEF t
  <2>7. DOMAIN t = 1..(Len(s) - 1)
    BY <2>2, <2>6
  <2>8. Elements(t) \subseteq Elements(s)
    BY <2>2, <2>6, <2>7 DEF Elements
  <2>9. Elements(s) \subseteq Elements(t) \cup {e}
    <3> SUFFICES ASSUME NEW j \in DOMAIN s, j # k PROVE s[j] \in Elements(t)
      BY <2>1 DEF Elements
    <3>1. CASE j < k
      <4>1. j \in DOMAIN t /\ t[j] = s[j]
        BY <2>2, <2>6, <2>7, <3>1
      <4> QED BY <4>1 DEF Elements
    <3>2. CASE j > k
      <4>1. j - 1 \in DOMAIN t /\ t[j - 1] = s[j]
        BY <2>2, <2>6, <2>7, <3>2
      <4> QED BY <4>1 DEF Elements
    <3> QED BY <2>2, <3>1, <3>2
  <2>10. Distinct(s) => Distinct(t) /\ e \notin Elements(t)
    <3> SUFFICES ASSUME Distinct(s) PROVE Distinct(t) /\ e \notin Elements(t)
      OBVIOUS
    <3> DEFINE f(j) == IF j < k THEN j ELSE j + 1
    <3>1. \A j \in DOMAIN t : f(j) \in DOMAIN s /\ t[j] = s[f(j)] /\ f(j) # k
      BY <2>2, <2>6, <2>7
    <3>2. Distinct(t)
      BY <2>2, <2>7, <3>1 DEF Distinct
    <3>3. e \notin Elements(t)
      BY <2>1, <2>2, <2>7, <3>1 DEF Distinct, Elements
    <3> QED BY <3>2, <3>3
  <2> QED BY <2>6, <2>8, <2>9, <2>10 DEF t
<1> QED BY <1>1, <1>2

(* Every command changes the length of a list by at most one.               *)
LEMMA LengthLemma ==
  ASSUME NEW S, NEW s \in Seq(S), NEW e \in S
  PROVE  /\ Len(s) \in Nat /\ (Len(s) = 0 <=> s = << >>)
         /\ Len(RPush(s, e)) = Len(s) + 1 /\ Len(LPush(s, e)) = Len(s) + 1
         /\ s # << >> => Len(LPop(s)) = Len(s) - 1 /\ Len(RPop(s)) = Len(s) - 1
<1>1. Len(s) \in Nat /\ (Len(s) = 0 <=> s = << >>)
  OBVIOUS
<1>2. Len(RPush(s, e)) = Len(s) + 1
  BY DEF RPush
<1>3. Len(LPush(s, e)) = Len(s) + 1
  BY DEF LPush
<1>4. s # << >> => Len(LPop(s)) = Len(s) - 1
  BY DEF LPop
<1>5. s # << >> => Len(RPop(s)) = Len(s) - 1
  <2> SUFFICES ASSUME s # << >> PROVE Len(RPop(s)) = Len(s) - 1
    OBVIOUS
  <2>1. Len(s) - 1 \in Nat /\ \A k \in 1..(Len(s) - 1) : s[k] \in S
    BY <1>1
  <2> DEFINE n == Len(s) - 1
  <2>2. Len(SubSeq(s, 1, n)) = n
    <3>1. n \in Nat /\ n <= Len(s)
      BY <1>1, <2>1
    <3> HIDE DEF n
    <3> QED BY <3>1
  <2> QED BY <2>2 DEF RPop
<1> QED BY <1>1, <1>2, <1>3, <1>4, <1>5

-----------------------------------------------------------------------------
(* g comes before h in s.                                                  *)
Precedes(s, g, h) == \E j, k \in DOMAIN s : j < k /\ s[j] = g /\ s[k] = h

(* Of two values of a list without duplicates one comes first; the head     *)
(* comes before every other.                                               *)
LEMMA PrecedesLemma ==
  ASSUME NEW S, NEW s \in Seq(S), Distinct(s), NEW g, NEW h
  PROVE  /\ Precedes(s, g, h) => g \in Elements(s) /\ h \in Elements(s) /\ ~Precedes(s, h, g)
         /\ g \in Elements(s) /\ h \in Elements(s) /\ g # h => Precedes(s, g, h) \/ Precedes(s, h, g)
         /\ s # << >> /\ h = Head(s) => /\ h \in Elements(s) /\ ~Precedes(s, g, h)
                                        /\ g \in Elements(s) \ {h} => Precedes(s, h, g)
<1>1. Len(s) \in Nat /\ DOMAIN s = 1..Len(s)
  OBVIOUS
<1>2. Precedes(s, g, h) => g \in Elements(s) /\ h \in Elements(s) /\ ~Precedes(s, h, g)
  BY <1>1 DEF Precedes, Elements, Distinct
<1>3. g \in Elements(s) /\ h \in Elements(s) /\ g # h => Precedes(s, g, h) \/ Precedes(s, h, g)
  BY <1>1 DEF Precedes, Elements
<1>4. ASSUME s # << >>, h = Head(s)
      PROVE  /\ h \in Elements(s) /\ ~Precedes(s, g, h)
             /\ g \in Elements(s) \ {h} => Precedes(s, h, g)
  <2>1. 1 \in DOMAIN s /\ s[1] = h
    BY <1>1, <1>4
  <2>2. h \in Elements(s)
    BY <2>1 DEF Elements
  <2>3. ~Precedes(s, g, h)
    BY <1>1, <2>1 DEF Precedes, Distinct
  <2>4. ASSUME g \in Elements(s) \ {h} PROVE Precedes(s, h, g)
    <3>1. PICK k \in DOMAIN s : s[k] = g
      BY <2>4 DEF Elements
    <3>2. 1 < k
      BY <1>1, <2>1, <2>4, <3>1
    <3> QED BY <2>1, <3>1, <3>2 DEF Precedes
  <2> QED BY <2>2, <2>3, <2>4
<1> QED BY <1>2, <1>3, <1>4

(* RPUSH puts a value behind all others and keeps their order.              *)
LEMMA PrecedesRPush ==
  ASSUME NEW S, NEW s \in Seq(S), NEW e \in S, e \notin Elements(s), NEW g, NEW h
  PROVE  /\ h # e => (Precedes(RPush(s, e), g, h) <=> Precedes(s, g, h))
         /\ Precedes(RPush(s, e), g, e) <=> g \in Elements(s)
<1> DEFINE t == RPush(s, e)
<1>1. /\ Len(s) \in Nat /\ DOMAIN s = 1..Len(s) /\ DOMAIN t = 1..(Len(s) + 1)
      /\ t[Len(s) + 1] = e /\ \A k \in DOMAIN s : t[k] = s[k]
  BY DEF RPush
<1>2. \A k \in DOMAIN s : s[k] # e
  BY DEF Elements
<1> HIDE DEF t
<1>3. h # e => (Precedes(t, g, h) <=> Precedes(s, g, h))
  BY <1>1, <1>2 DEF Precedes
<1>4. Precedes(t, g, e) => g \in Elements(s)
  BY <1>1, <1>2 DEF Precedes, Elements
<1>5. ASSUME g \in Elements(s) PROVE Precedes(t, g, e)
  <2>1. PICK k \in DOMAIN s : s[k] = g
    BY <1>5 DEF Elements
  <2>2. k \in DOMAIN t /\ Len(s) + 1 \in DOMAIN t /\ k < Len(s) + 1 /\ t[k] = g
    BY <1>1, <2>1
  <2> QED BY <1>1, <2>2 DEF Precedes
<1> QED BY <1>3, <1>4, <1>5 DEF t

(* LPOP keeps the order of the values that stay.                            *)
LEMMA PrecedesLPop ==
  ASSUME NEW S, NEW s \in Seq(S), s # << >>, NEW g, g # Head(s), NEW h
  PROVE  Precedes(LPop(s), g, h) <=> Precedes(s, g, h)
<1> DEFINE t == Tail(s)
<1>1. /\ Len(s) \in Nat /\ DOMAIN s = 1..Len(s) /\ DOMAIN t = 1..(Len(s) - 1)
      /\ s[1] = Head(s) /\ \A k \in DOMAIN t : t[k] = s[k + 1]
  OBVIOUS
<1>2. LPop(s) = t
  BY DEF LPop
<1> HIDE DEF t
<1>3. Precedes(t, g, h) => Precedes(s, g, h)
  <2> SUFFICES ASSUME NEW j \in DOMAIN t, NEW k \in DOMAIN t, j < k, t[j] = g, t[k] = h
               PROVE  Precedes(s, g, h)
    BY DEF Precedes
  <2>1. j + 1 \in DOMAIN s /\ k + 1 \in DOMAIN s /\ j + 1 < k + 1 /\ s[j + 1] = g /\ s[k + 1] = h
    BY <1>1
  <2> QED BY <2>1 DEF Precedes
<1>4. Precedes(s, g, h) => Precedes(t, g, h)
  <2> SUFFICES ASSUME NEW j \in DOMAIN s, NEW k \in DOMAIN s, j < k, s[j] = g, s[k] = h
               PROVE  Precedes(t, g, h)
    BY DEF Precedes
  <2>1. j # 1
    BY <1>1
  <2>2. j - 1 \in DOMAIN t /\ k - 1 \in DOMAIN t /\ j - 1 < k - 1 /\ t[j - 1] = g /\ t[k - 1] = h
    BY <1>1, <2>1
  <2> QED BY <2>2 DEF Precedes
<1> QED BY <1>2, <1>3, <1>4

(* The head of a line that goes to its end.                                 *)
LEMMA HeadToEnd ==
  ASSUME NEW S, NEW s \in Seq(S), Distinct(s), s # << >>
  PROVE  LET e == Head(s)
             t == Append(Tail(s), e)
         IN  /\ t \in Seq(S) /\ Distinct(t) /\ Elements(t) = Elements(s)
             /\ \A g, h : g # e /\ h # e => (Precedes(t, g, h) <=> Precedes(s, g, h))
             /\ \A g : Precedes(t, g, e) <=> g \in Elements(s) \ {e}
             /\ \A g : ~Precedes(t, e, g)
<1> DEFINE e == Head(s)
           r == LPop(s)
           t == RPush(r, e)
<1>1. /\ e \in S /\ r \in Seq(S) /\ Distinct(r) /\ e \notin Elements(r)
      /\ Elements(s) = Elements(r) \cup {e}
  BY LPopLemma
<1>2. t = Append(Tail(s), e)
  BY DEF LPop, RPush
<1>3. \A g, h : g # e => (Precedes(r, g, h) <=> Precedes(s, g, h))
  BY PrecedesLPop
<1> HIDE DEF e, r
<1>4. t \in Seq(S) /\ Distinct(t) /\ Elements(t) = Elements(r) \cup {e}
  BY <1>1, RPushLemma
<1>5. \A g, h : h # e => (Precedes(t, g, h) <=> Precedes(r, g, h))
  BY <1>1, PrecedesRPush
<1>6. \A g : Precedes(t, g, e) <=> g \in Elements(r)
  BY <1>1, PrecedesRPush
<1> HIDE DEF t
<1>7. \A g : ~Precedes(t, e, g)
  <2> SUFFICES ASSUME NEW g, Precedes(t, e, g) PROVE FALSE
    OBVIOUS
  <2>1. g \in Elements(t) /\ ~Precedes(t, g, e)
    BY <1>4, PrecedesLemma
  <2>2. g # e
    BY <1>1, <1>6
  <2> QED BY <1>1, <1>4, <1>6, <2>1, <2>2
<1> QED BY <1>1, <1>2, <1>3, <1>4, <1>5, <1>6, <1>7 DEF e
=============================================================================
