---------------------------- MODULE LFUCacheProofs ----------------------------
(***************************************************************************)
(* Theorems about the cache, for any threads, keys, capacity and number of *)
(* calls: IntegrityHolds and EvictionIsFair, both from the inductive       *)
(* invariant CacheInv.                                                     *)
(*                                                                         *)
(* The list of frequency nodes is looked at as a function from frequencies *)
(* to lists of keys, its View.  What addfreq() and the eviction do to the  *)
(* nodes comes down to two operations on this function, Put and Unlink.    *)
(***************************************************************************)
EXTENDS LFUCache, FiniteSetTheorems, SequenceTheorems, TLAPS

Freqs == Nat \ {0}

FreqNodes == [freq : Freqs, keys : Seq(Nodes)]

(* Frequencies ascend, so that each has one node at most. *)
Ascending(s) ==
  /\ s \in Seq(FreqNodes)
  /\ \A i, j \in 1 .. Len(s) : i < j => s[i].freq < s[j].freq

NoneEmpty(s) == \A i \in 1 .. Len(s) : s[i].keys # <<>>

(* The keys of frequency g, none if it has no node. *)
KeysAt(s, g) ==
  IF \E i \in 1 .. Len(s) : s[i].freq = g THEN s[IndexOf(s, g)].keys ELSE <<>>

View(s) == [g \in Freqs |-> KeysAt(s, g)]

(* A node put in front of the keys of frequency g, and taken from them.    *)
Put(K, g, node) == [K EXCEPT ![g] = <<node>> \o @]

Unlink(K, g, node) == [K EXCEPT ![g] = RemoveAt(@, Place(@, node))]

(* Both maps lead to a node that is there, whether keys were overwritten   *)
(* or not.                                                                 *)
Mapped(K, km, fm) ==
  /\ K \in [Freqs -> Seq(Nodes)]
  /\ DOMAIN km = DOMAIN fm
  /\ IsFiniteSet(DOMAIN km)
  /\ \A k \in DOMAIN km :
       /\ k \in Keys
       /\ km[k] \in Nodes /\ km[k].key = k
       /\ fm[k] \in Freqs
       /\ \E p \in 1 .. Len(K[fm[k]]) : K[fm[k]][p] = km[k]

(* There are no other nodes; counts and times are what the history has;    *)
(* and in each list the latest used is in front.                           *)
Faithful(K, km, fm, us, now) ==
  /\ \A g \in Freqs : \A p \in 1 .. Len(K[g]) :
       /\ K[g][p].key \in DOMAIN km
       /\ km[K[g][p].key] = K[g][p]
       /\ fm[K[g][p].key] = g
  /\ \A k \in DOMAIN km : us[k].count = fm[k] /\ us[k].last <= now
  /\ \A g \in Freqs : \A p, q \in 1 .. Len(K[g]) :
       p < q => us[K[g][q].key].last < us[K[g][p].key].last

Uses == [Keys -> [count : Nat, last : Nat]]

Typed ==
  /\ Ascending(lists)
  /\ NoneEmpty(lists)
  /\ missed \in [Threads -> Keys \cup {NULL}]
  /\ clock \in Nat
  /\ used \in Uses
  /\ overwritten \in BOOLEAN

CacheInv ==
  /\ Typed
  /\ Mapped(View(lists), kmap, fmap)
  /\ ~overwritten =>
       /\ Faithful(View(lists), kmap, fmap, used, clock)
       /\ Cardinality(DOMAIN kmap) <= capacity

----------------------------------------------------------------------------
(* Facts about sequences. *)

LEMMA FunctionIsSeq ==
  ASSUME NEW S, NEW n \in Nat, NEW f \in [1 .. n -> S]
  PROVE  f \in Seq(S) /\ Len(f) = n
<1>1. f \in Seq(S)
  BY SeqDef
<1>2. DOMAIN f = 1 .. n /\ DOMAIN f = 1 .. Len(f) /\ Len(f) \in Nat
  BY <1>1, LenProperties
<1> QED
  BY <1>1, <1>2

LEMMA RemoveAtProperties ==
  ASSUME NEW S, NEW s \in Seq(S), NEW i \in 1 .. Len(s)
  PROVE  /\ RemoveAt(s, i) \in Seq(S)
         /\ Len(RemoveAt(s, i)) = Len(s) - 1
         /\ \A j \in 1 .. Len(s) - 1 : RemoveAt(s, i)[j] = IF j < i THEN s[j] ELSE s[j + 1]
<1> DEFINE a == SubSeq(s, 1, i - 1)
           b == SubSeq(s, i + 1, Len(s))
<1>1. Len(s) \in Nat /\ i \in Nat
  BY LenProperties
<1>2. a \in Seq(S) /\ Len(a) = i - 1 /\ \A j \in 1 .. i - 1 : a[j] = s[j]
  <2>1. \A j \in 1 .. i - 1 : s[j] \in S
    BY <1>1, ElementOfSeq
  <2>2. Len(a) = IF 1 <= i - 1 THEN (i - 1) - 1 + 1 ELSE 0
    BY <1>1, <2>1, SubSeqProperties
  <2> QED
    BY <1>1, <2>1, <2>2, SubSeqProperties
<1>3. b \in Seq(S) /\ Len(b) = Len(s) - i /\ \A j \in 1 .. Len(s) - i : b[j] = s[j + i]
  <2>1. \A j \in i + 1 .. Len(s) : s[j] \in S
    BY <1>1, ElementOfSeq
  <2>2. Len(b) = IF i + 1 <= Len(s) THEN Len(s) - (i + 1) + 1 ELSE 0
    BY <1>1, <2>1, SubSeqProperties
  <2>3. \A j \in 1 .. Len(s) - (i + 1) + 1 : b[j] = s[(i + 1) + j - 1]
    BY <1>1, <2>1, SubSeqProperties
  <2> QED
    BY <1>1, <2>1, <2>2, <2>3, SubSeqProperties
<1>4. RemoveAt(s, i) = a \o b
  BY DEF RemoveAt
<1> HIDE DEF a, b
<1>5. /\ a \o b \in Seq(S)
      /\ Len(a \o b) = Len(a) + Len(b)
      /\ \A j \in 1 .. Len(a) + Len(b) : (a \o b)[j] = IF j <= Len(a) THEN a[j] ELSE b[j - Len(a)]
  BY <1>2, <1>3, ConcatProperties
<1> QED
  BY <1>1, <1>2, <1>3, <1>4, <1>5

(* The list r is s with e in place i. *)
Inserts(s, r, i, e) ==
  /\ Len(r) = Len(s) + 1
  /\ \A j \in 1 .. Len(s) + 1 : r[j] = IF j < i THEN s[j] ELSE IF j = i THEN e ELSE s[j - 1]

LEMMA InsertAtProperties ==
  ASSUME NEW S, NEW s \in Seq(S), NEW i \in 1 .. Len(s) + 1, NEW e \in S
  PROVE  InsertAt(s, i, e) \in Seq(S) /\ Inserts(s, InsertAt(s, i, e), i, e)
<1> DEFINE a == SubSeq(s, 1, i - 1)
           b == SubSeq(s, i, Len(s))
           c == <<e>>
           d == a \o c
<1>1. Len(s) \in Nat /\ i \in Nat
  BY LenProperties
<1>2. a \in Seq(S) /\ Len(a) = i - 1 /\ \A j \in 1 .. i - 1 : a[j] = s[j]
  <2>1. \A j \in 1 .. i - 1 : s[j] \in S
    BY <1>1, ElementOfSeq
  <2>2. Len(a) = IF 1 <= i - 1 THEN (i - 1) - 1 + 1 ELSE 0
    BY <1>1, <2>1, SubSeqProperties
  <2> QED
    BY <1>1, <2>1, <2>2, SubSeqProperties
<1>3. b \in Seq(S) /\ Len(b) = Len(s) - i + 1 /\ \A j \in 1 .. Len(s) - i + 1 : b[j] = s[j + i - 1]
  <2>1. \A j \in i .. Len(s) : s[j] \in S
    BY <1>1, ElementOfSeq
  <2>2. Len(b) = IF i <= Len(s) THEN Len(s) - i + 1 ELSE 0
    BY <1>1, <2>1, SubSeqProperties
  <2>3. \A j \in 1 .. Len(s) - i + 1 : b[j] = s[i + j - 1]
    BY <1>1, <2>1, SubSeqProperties
  <2> QED
    BY <1>1, <2>1, <2>2, <2>3, SubSeqProperties
<1>4. c \in Seq(S) /\ Len(c) = 1 /\ c[1] = e
  OBVIOUS
<1>5. InsertAt(s, i, e) = d \o b
  BY DEF InsertAt
<1> HIDE DEF a, b, c
<1>6. /\ a \o c \in Seq(S)
      /\ Len(a \o c) = Len(a) + Len(c)
      /\ \A j \in 1 .. Len(a) + Len(c) : (a \o c)[j] = IF j <= Len(a) THEN a[j] ELSE c[j - Len(a)]
  BY <1>2, <1>4, ConcatProperties
<1>7. d \in Seq(S) /\ Len(d) = i /\ \A j \in 1 .. i : d[j] = IF j < i THEN s[j] ELSE e
  <2>1. d \in Seq(S) /\ Len(d) = i
    BY <1>1, <1>2, <1>4, <1>6
  <2>2. ASSUME NEW j \in 1 .. i PROVE (a \o c)[j] = IF j < i THEN s[j] ELSE e
    BY <1>1, <1>2, <1>4, <1>6
  <2> QED
    BY <2>1, <2>2
<1> HIDE DEF d
<1>8. /\ d \o b \in Seq(S)
      /\ Len(d \o b) = Len(d) + Len(b)
      /\ \A j \in 1 .. Len(d) + Len(b) : (d \o b)[j] = IF j <= Len(d) THEN d[j] ELSE b[j - Len(d)]
  BY <1>3, <1>7, ConcatProperties
<1>9. Len(d \o b) = Len(s) + 1
  BY <1>1, <1>3, <1>7, <1>8
<1>10. ASSUME NEW j \in 1 .. Len(s) + 1
       PROVE  (d \o b)[j] = IF j < i THEN s[j] ELSE IF j = i THEN e ELSE s[j - 1]
  <2>1. CASE j <= i
    <3>1. (d \o b)[j] = d[j]
      BY <1>1, <1>3, <1>7, <1>8, <2>1
    <3> QED
      BY <1>1, <1>7, <2>1, <3>1
  <2>2. CASE j > i
    <3>1. PICK m \in 1 .. Len(s) - i + 1 : j = m + i
      BY <1>1, <2>2
    <3>2. (d \o b)[j] = b[j - i] /\ j - i = m /\ m + i - 1 = j - 1
      BY <1>1, <1>3, <1>7, <1>8, <3>1
    <3>3. b[m] = s[m + i - 1]
      BY <1>3, <3>1
    <3>4. (d \o b)[j] = s[j - 1]
      BY <3>2, <3>3
    <3> QED
      BY <1>1, <2>2, <3>4
  <2>3. j <= i \/ j > i
    BY <1>1
  <2> QED
    BY <2>1, <2>2, <2>3
<1> QED
  BY <1>5, <1>8, <1>9, <1>10 DEF Inserts

LEMMA PrependProperties ==
  ASSUME NEW S, NEW s \in Seq(S), NEW e \in S
  PROVE  /\ <<e>> \o s \in Seq(S)
         /\ Len(<<e>> \o s) = Len(s) + 1
         /\ \A j \in 1 .. Len(s) + 1 : (<<e>> \o s)[j] = IF j = 1 THEN e ELSE s[j - 1]
<1> DEFINE c == <<e>>
<1>1. c \in Seq(S) /\ Len(c) = 1 /\ c[1] = e
  OBVIOUS
<1>2. Len(s) \in Nat
  BY LenProperties
<1> HIDE DEF c
<1>3. /\ c \o s \in Seq(S)
      /\ Len(c \o s) = Len(c) + Len(s)
      /\ \A j \in 1 .. Len(c) + Len(s) : (c \o s)[j] = IF j <= Len(c) THEN c[j] ELSE s[j - Len(c)]
  BY <1>1, ConcatProperties
<1>4. /\ c \o s \in Seq(S)
      /\ Len(c \o s) = Len(s) + 1
      /\ \A j \in 1 .. Len(s) + 1 : (c \o s)[j] = IF j = 1 THEN e ELSE s[j - 1]
  BY <1>1, <1>2, <1>3
<1> QED
  BY <1>4 DEF c

(* The place of a node that is there. *)
LEMMA PlaceFound ==
  ASSUME NEW s \in Seq(Nodes), NEW node, NEW q \in 1 .. Len(s), s[q] = node
  PROVE  Place(s, node) \in 1 .. Len(s) /\ s[Place(s, node)] = node
<1>1. DOMAIN s = 1 .. Len(s)
  BY LenProperties
<1>2. \E p \in DOMAIN s : s[p] = node
  BY <1>1
<1> QED
  BY <1>1, <1>2, Zenon DEF Place

(* What del() leaves of a list: all but one node, in order. *)
LEMMA UnlinkedKeys ==
  ASSUME NEW s \in Seq(Nodes), NEW node, NEW q \in 1 .. Len(s), s[q] = node
  PROVE  LET p == Place(s, node)
             r == RemoveAt(s, p)
         IN  /\ p \in 1 .. Len(s) /\ s[p] = node
             /\ r \in Seq(Nodes)
             /\ Len(r) = Len(s) - 1
             /\ \A j \in 1 .. Len(r) : r[j] = IF j < p THEN s[j] ELSE s[j + 1]
<1> DEFINE p == Place(s, node)
           r == RemoveAt(s, p)
<1>1. p \in 1 .. Len(s) /\ s[p] = node
  BY PlaceFound
<1> HIDE DEF p
<1>2. r \in Seq(Nodes) /\ Len(r) = Len(s) - 1
      /\ \A j \in 1 .. Len(s) - 1 : r[j] = IF j < p THEN s[j] ELSE s[j + 1]
  BY <1>1, RemoveAtProperties
<1> QED
  BY <1>1, <1>2 DEF p

----------------------------------------------------------------------------
(* Put and Unlink. *)

LEMMA WithoutProperties ==
  ASSUME NEW f, NEW k
  PROVE  /\ DOMAIN Without(f, k) = DOMAIN f \ {k}
         /\ \A x \in DOMAIN f \ {k} : Without(f, k)[x] = f[x]
  BY DEF Without

LEMMA WithProperties ==
  ASSUME NEW f, NEW k, NEW y
  PROVE  /\ DOMAIN With(f, k, y) = DOMAIN f \cup {k}
         /\ With(f, k, y)[k] = y
         /\ \A x \in DOMAIN f \ {k} : With(f, k, y)[x] = f[x]
  BY DEF With

(* The list r is s without its p-th node. *)
Skips(s, r, p) ==
  /\ Len(r) = Len(s) - 1
  /\ \A j \in 1 .. Len(s) - 1 : r[j] = IF j < p THEN s[j] ELSE s[j + 1]

(* In U the list of g has lost n, and the others are those of K. *)
Unlinked(K, U, g, n) ==
  /\ U \in [Freqs -> Seq(Nodes)]
  /\ \A h \in Freqs \ {g} : U[h] = K[h]
  /\ Len(K[g]) \in Nat
  /\ \E p \in 1 .. Len(K[g]) : K[g][p] = n /\ Skips(K[g], U[g], p)

(* The keys of one frequency lose the node, the others are as before.      *)
LEMMA UnlinkProperties ==
  ASSUME NEW K \in [Freqs -> Seq(Nodes)], NEW g \in Freqs, NEW n,
         NEW q \in 1 .. Len(K[g]), K[g][q] = n
  PROVE  Unlinked(K, Unlink(K, g, n), g, n)
<1> DEFINE s == K[g]
           p == Place(s, n)
           r == RemoveAt(s, p)
<1>1. s \in Seq(Nodes) /\ Len(s) \in Nat
  BY LenProperties
<1> HIDE DEF s
<1>2. /\ p \in 1 .. Len(s) /\ s[p] = n
      /\ r \in Seq(Nodes)
      /\ Len(r) = Len(s) - 1
      /\ \A j \in 1 .. Len(r) : r[j] = IF j < p THEN s[j] ELSE s[j + 1]
  <2>1. q \in 1 .. Len(s) /\ s[q] = n
    BY DEF s
  <2> QED
    BY <1>1, <2>1, UnlinkedKeys
<1>3. Unlink(K, g, n) = [K EXCEPT ![g] = r]
  BY DEF Unlink, s
<1> HIDE DEF r, p
<1>4. /\ Unlink(K, g, n) \in [Freqs -> Seq(Nodes)]
      /\ \A h \in Freqs \ {g} : Unlink(K, g, n)[h] = K[h]
      /\ Unlink(K, g, n)[g] = r
  BY <1>2, <1>3
<1>5. Skips(s, r, p)
  BY <1>2 DEF Skips
<1>6. \E i \in 1 .. Len(K[g]) : K[g][i] = n /\ Skips(K[g], r, i)
  BY <1>2, <1>5 DEF s
<1> QED
  BY <1>1, <1>4, <1>6 DEF s, Unlinked

(* The list r is s with n in front. *)
Begins(s, r, n) ==
  /\ Len(r) = Len(s) + 1
  /\ \A j \in 1 .. Len(s) + 1 : r[j] = IF j = 1 THEN n ELSE s[j - 1]

(* The keys of one frequency begin with the node, the others are as before.*)
LEMMA PutProperties ==
  ASSUME NEW K \in [Freqs -> Seq(Nodes)], NEW g \in Freqs, NEW n \in Nodes
  PROVE  /\ Put(K, g, n) \in [Freqs -> Seq(Nodes)]
         /\ \A h \in Freqs \ {g} : Put(K, g, n)[h] = K[h]
         /\ Len(K[g]) \in Nat
         /\ Begins(K[g], Put(K, g, n)[g], n)
<1> DEFINE s == K[g]
           r == <<n>> \o s
<1>1. s \in Seq(Nodes) /\ Len(s) \in Nat
  BY LenProperties
<1> HIDE DEF s
<1>2. r \in Seq(Nodes) /\ Begins(s, r, n)
  BY <1>1, PrependProperties DEF Begins
<1>3. Put(K, g, n) = [K EXCEPT ![g] = r]
  BY DEF Put, s
<1> HIDE DEF r
<1>4. /\ Put(K, g, n) \in [Freqs -> Seq(Nodes)]
      /\ \A h \in Freqs \ {g} : Put(K, g, n)[h] = K[h]
      /\ Put(K, g, n)[g] = r
  BY <1>2, <1>3
<1> QED
  BY <1>1, <1>2, <1>4 DEF s

(* A key has one node. *)
LEMMA NoTwin ==
  ASSUME NEW K, NEW km, NEW fm, NEW us \in Uses, NEW now,
         Mapped(K, km, fm), Faithful(K, km, fm, us, now),
         NEW g \in Freqs, NEW p \in 1 .. Len(K[g]),
         NEW h \in Freqs, NEW q \in 1 .. Len(K[h]),
         K[g][p].key = K[h][q].key
  PROVE  g = h /\ p = q
<1>1. g = h
  BY DEF Faithful
<1>2. Len(K[g]) \in Nat
  BY LenProperties DEF Mapped
<1>3. K[g][p].key \in Keys
  BY DEF Faithful, Mapped
<1>4. us[K[g][p].key].last \in Nat
  BY <1>3 DEF Uses
<1>5. ~(p < q)
  <2>1. p < q => us[K[g][q].key].last < us[K[g][p].key].last
    BY <1>1 DEF Faithful
  <2> QED
    BY <1>1, <1>4, <2>1
<1>6. ~(q < p)
  <2>1. q < p => us[K[g][p].key].last < us[K[g][q].key].last
    BY <1>1 DEF Faithful
  <2> QED
    BY <1>1, <1>4, <2>1
<1> QED
  BY <1>1, <1>2, <1>5, <1>6

(* U has the nodes that K has, but for the p-th of frequency g. *)
AllBut(K, U, g, p) ==
  /\ \A h \in Freqs : \A j \in 1 .. Len(U[h]) :
       LET i == IF h # g \/ j < p THEN j ELSE j + 1 IN
         /\ i \in 1 .. Len(K[h])
         /\ U[h][j] = K[h][i]
         /\ h = g => i # p
  /\ \A h \in Freqs : \A i \in 1 .. Len(K[h]) : h # g \/ i # p =>
       \E j \in 1 .. Len(U[h]) : U[h][j] = K[h][i]

LEMMA AllButOld ==
  ASSUME NEW K, NEW U, NEW g, NEW p, AllBut(K, U, g, p),
         NEW h \in Freqs, NEW i \in 1 .. Len(K[h]), h # g \/ i # p
  PROVE  \E j \in 1 .. Len(U[h]) : U[h][j] = K[h][i]
  BY Zenon DEF AllBut

LEMMA AllButNew ==
  ASSUME NEW K, NEW U, NEW g, NEW p, AllBut(K, U, g, p),
         NEW h \in Freqs, NEW j \in 1 .. Len(U[h])
  PROVE  \E i \in 1 .. Len(K[h]) : U[h][j] = K[h][i] /\ (h = g => i # p)
<1> DEFINE i == IF h # g \/ j < p THEN j ELSE j + 1
<1>1. i \in 1 .. Len(K[h]) /\ U[h][j] = K[h][i] /\ (h = g => i # p)
  BY Zenon DEF AllBut
<1> HIDE DEF i
<1> QED
  BY <1>1

LEMMA UnlinkFrom ==
  ASSUME NEW K \in [Freqs -> Seq(Nodes)], NEW g \in Freqs, NEW n,
         NEW q \in 1 .. Len(K[g]), K[g][q] = n
  PROVE  \E p \in 1 .. Len(K[g]) : K[g][p] = n /\ AllBut(K, Unlink(K, g, n), g, p)
<1> DEFINE U == Unlink(K, g, n)
<1>1. Unlinked(K, U, g, n)
  BY UnlinkProperties
<1> HIDE DEF U
<1>2. PICK p \in 1 .. Len(K[g]) : K[g][p] = n /\ Skips(K[g], U[g], p)
  BY <1>1 DEF Unlinked
<1> USE DEF Unlinked
<1> USE DEF Skips
<1>3. ASSUME NEW h \in Freqs, NEW j \in 1 .. Len(U[h])
      PROVE  LET i == IF h # g \/ j < p THEN j ELSE j + 1 IN
               /\ i \in 1 .. Len(K[h])
               /\ U[h][j] = K[h][i]
               /\ h = g => i # p
  <2>1. CASE h # g
    BY <1>1, <2>1
  <2>2. CASE h = g /\ j < p
    BY <1>1, <1>2, <2>2
  <2>3. CASE h = g /\ ~(j < p)
    BY <1>1, <1>2, <2>3
  <2> QED
    BY <2>1, <2>2, <2>3
<1>4. ASSUME NEW h \in Freqs, NEW i \in 1 .. Len(K[h]), h # g \/ i # p
      PROVE  \E j \in 1 .. Len(U[h]) : U[h][j] = K[h][i]
  <2>1. CASE h # g
    BY <1>1, <2>1
  <2>2. CASE h = g /\ i < p
    <3>1. i \in 1 .. Len(U[h]) /\ U[h][i] = K[h][i]
      BY <1>1, <1>2, <2>2
    <3> QED
      BY <3>1
  <2>3. CASE h = g /\ p < i
    <3>1. PICK j \in 1 .. Len(K[g]) - 1 : i = j + 1
      BY <1>1, <1>2, <2>3
    <3>2. j \in 1 .. Len(U[h]) /\ U[h][j] = K[h][i]
      BY <1>1, <1>2, <2>3, <3>1
    <3> QED
      BY <3>2
  <2>4. h # g \/ (h = g /\ i < p) \/ (h = g /\ p < i)
    BY <1>1, <1>2, <1>4
  <2> QED
    BY <2>1, <2>2, <2>3, <2>4
<1>5. AllBut(K, U, g, p)
  BY <1>3, <1>4 DEF AllBut
<1> QED
  BY <1>2, <1>5 DEF U

LEMMA PutUnlinkCommute ==
  ASSUME NEW K \in [Freqs -> Seq(Nodes)], NEW f \in Freqs, NEW g \in Freqs, f # g, NEW n
  PROVE  Unlink(Put(K, g, n), f, n) = Put(Unlink(K, f, n), g, n)
<1> DEFINE u == RemoveAt(K[f], Place(K[f], n))
           p == <<n>> \o K[g]
<1>1. Unlink(K, f, n) = [K EXCEPT ![f] = u] /\ Put(K, g, n) = [K EXCEPT ![g] = p]
  BY DEF Put, Unlink
<1>2. Unlink(K, f, n)[g] = K[g] /\ Put(K, g, n)[f] = K[f]
  BY <1>1
<1>3. /\ Unlink(Put(K, g, n), f, n) = [Put(K, g, n) EXCEPT ![f] = u]
      /\ Put(Unlink(K, f, n), g, n) = [Unlink(K, f, n) EXCEPT ![g] = p]
  <2>1. Unlink(Put(K, g, n), f, n)
          = [Put(K, g, n) EXCEPT ![f] = RemoveAt(Put(K, g, n)[f], Place(Put(K, g, n)[f], n))]
    BY DEF Unlink
  <2>2. Put(Unlink(K, f, n), g, n) = [Unlink(K, f, n) EXCEPT ![g] = <<n>> \o Unlink(K, f, n)[g]]
    BY DEF Put
  <2> QED
    BY <1>2, <2>1, <2>2
<1> HIDE DEF u, p
<1> QED
  BY <1>1, <1>3

LEMMA UnlinkKeepsMapped ==
  ASSUME NEW K, NEW km, NEW fm, Mapped(K, km, fm),
         NEW g \in Freqs, NEW n, NEW q \in 1 .. Len(K[g]), K[g][q] = n
  PROVE  Mapped(Unlink(K, g, n), Without(km, n.key), Without(fm, n.key))
<1> DEFINE U == Unlink(K, g, n)
           km1 == Without(km, n.key)
           fm1 == Without(fm, n.key)
<1>1. K \in [Freqs -> Seq(Nodes)] /\ DOMAIN km = DOMAIN fm /\ IsFiniteSet(DOMAIN km)
  BY DEF Mapped
<1>2. U \in [Freqs -> Seq(Nodes)]
  BY <1>1, UnlinkProperties DEF Unlinked
<1>3. DOMAIN km1 = DOMAIN km \ {n.key} /\ DOMAIN fm1 = DOMAIN km \ {n.key}
      /\ \A k \in DOMAIN km \ {n.key} : km1[k] = km[k] /\ fm1[k] = fm[k]
  BY <1>1 DEF Without
<1>4. IsFiniteSet(DOMAIN km \ {n.key})
  BY <1>1, FS_RemoveElement
<1>5. PICK p \in 1 .. Len(K[g]) : K[g][p] = n /\ AllBut(K, U, g, p)
  BY <1>1, UnlinkFrom
<1> HIDE DEF U, km1, fm1
<1>6. ASSUME NEW k \in DOMAIN km1
      PROVE  /\ k \in Keys
             /\ km1[k] \in Nodes /\ km1[k].key = k
             /\ fm1[k] \in Freqs
             /\ \E j \in 1 .. Len(U[fm1[k]]) : U[fm1[k]][j] = km1[k]
  <2>1. k \in DOMAIN km /\ k # n.key /\ km1[k] = km[k] /\ fm1[k] = fm[k]
    BY <1>3
  <2>2. k \in Keys /\ km[k] \in Nodes /\ km[k].key = k /\ fm[k] \in Freqs
    BY <2>1 DEF Mapped
  <2>3. PICK i \in 1 .. Len(K[fm[k]]) : K[fm[k]][i] = km[k]
    BY <2>1 DEF Mapped
  <2>4. fm[k] # g \/ i # p
    BY <1>5, <2>1, <2>2, <2>3
  <2>5. \E j \in 1 .. Len(U[fm[k]]) : U[fm[k]][j] = km[k]
    <3> DEFINE h == fm[k]
    <3>1. \E j \in 1 .. Len(U[h]) : U[h][j] = K[h][i]
      <4>1. h \in Freqs /\ i \in 1 .. Len(K[h]) /\ (h # g \/ i # p)
        BY <2>2, <2>3, <2>4
      <4>2. \A a \in Freqs : \A b \in 1 .. Len(K[a]) : a # g \/ b # p =>
              \E j \in 1 .. Len(U[a]) : U[a][j] = K[a][b]
        BY <1>5, AllButOld
      <4> HIDE DEF h
      <4> QED
        BY <4>1, <4>2, Zenon
    <3> QED
      BY <2>3, <3>1
  <2> QED
    BY <2>1, <2>2, <2>5
<1> QED
  BY <1>2, <1>3, <1>4, <1>6 DEF Mapped, U, km1, fm1

LEMMA UnlinkKeepsFaithful ==
  ASSUME NEW K, NEW km, NEW fm, NEW us \in Uses, NEW now,
         Mapped(K, km, fm), Faithful(K, km, fm, us, now),
         NEW g \in Freqs, NEW n, NEW q \in 1 .. Len(K[g]), K[g][q] = n
  PROVE  /\ n.key \in DOMAIN km
         /\ Faithful(Unlink(K, g, n), Without(km, n.key), Without(fm, n.key), us, now)
<1> DEFINE U == Unlink(K, g, n)
           km1 == Without(km, n.key)
           fm1 == Without(fm, n.key)
<1>1. K \in [Freqs -> Seq(Nodes)] /\ DOMAIN km = DOMAIN fm
  BY DEF Mapped
<1>2. DOMAIN km1 = DOMAIN km \ {n.key} /\ DOMAIN fm1 = DOMAIN km \ {n.key}
      /\ \A k \in DOMAIN km \ {n.key} : km1[k] = km[k] /\ fm1[k] = fm[k]
  BY <1>1 DEF Without
<1>3. PICK p \in 1 .. Len(K[g]) : K[g][p] = n /\ AllBut(K, U, g, p)
  BY <1>1, UnlinkFrom
<1>4. \A h \in Freqs : Len(U[h]) \in Nat /\ Len(K[h]) \in Nat
  <2>1. U \in [Freqs -> Seq(Nodes)]
    BY <1>1, UnlinkProperties DEF Unlinked
  <2> QED
    BY <1>1, <2>1, LenProperties
<1> HIDE DEF U, km1, fm1
<1>5. ASSUME NEW h \in Freqs, NEW j \in 1 .. Len(U[h])
      PROVE  /\ U[h][j].key \in DOMAIN km1
             /\ km1[U[h][j].key] = U[h][j]
             /\ fm1[U[h][j].key] = h
  <2>1. PICK i \in 1 .. Len(K[h]) : U[h][j] = K[h][i] /\ (h = g => i # p)
    BY <1>3, AllButNew
  <2>2. /\ K[h][i].key \in DOMAIN km
        /\ km[K[h][i].key] = K[h][i]
        /\ fm[K[h][i].key] = h
    BY DEF Faithful
  <2>3. K[h][i].key # n.key
    <3>1. ASSUME K[g][p].key = K[h][i].key PROVE g = h /\ p = i
      BY <3>1, NoTwin
    <3> QED
      BY <1>3, <2>1, <3>1
  <2> QED
    BY <1>2, <2>1, <2>2, <2>3
<1>6. ASSUME NEW k \in DOMAIN km1
      PROVE  us[k].count = fm1[k] /\ us[k].last <= now
  BY <1>2 DEF Faithful
<1>7. ASSUME NEW h \in Freqs, NEW i \in 1 .. Len(U[h]), NEW j \in 1 .. Len(U[h]), i < j
      PROVE  us[U[h][j].key].last < us[U[h][i].key].last
  <2> DEFINE a == IF h # g \/ i < p THEN i ELSE i + 1
             b == IF h # g \/ j < p THEN j ELSE j + 1
  <2>1. a \in 1 .. Len(K[h]) /\ U[h][i] = K[h][a]
    BY <1>3 DEF AllBut
  <2>2. b \in 1 .. Len(K[h]) /\ U[h][j] = K[h][b]
    BY <1>3 DEF AllBut
  <2>3. a < b
    BY <1>3, <1>4, <1>7
  <2> HIDE DEF a, b
  <2>4. us[K[h][b].key].last < us[K[h][a].key].last
    BY <2>1, <2>2, <2>3 DEF Faithful
  <2> QED
    BY <2>1, <2>2, <2>4
<1>8. n.key \in DOMAIN km
  BY <1>3 DEF Faithful
<1> QED
  BY <1>5, <1>6, <1>7, <1>8 DEF Faithful, U, km1, fm1

LEMMA PutKeepsMapped ==
  ASSUME NEW K, NEW km, NEW fm, Mapped(K, km, fm),
         NEW g \in Freqs, NEW n \in Nodes
  PROVE  Mapped(Put(K, g, n), With(km, n.key, n), With(fm, n.key, g))
<1> DEFINE P == Put(K, g, n)
           km1 == With(km, n.key, n)
           fm1 == With(fm, n.key, g)
<1>1. K \in [Freqs -> Seq(Nodes)] /\ DOMAIN km = DOMAIN fm /\ IsFiniteSet(DOMAIN km)
  BY DEF Mapped
<1>2. /\ P \in [Freqs -> Seq(Nodes)]
      /\ \A h \in Freqs \ {g} : P[h] = K[h]
      /\ Len(K[g]) \in Nat
      /\ Begins(K[g], P[g], n)
  BY <1>1, PutProperties
<1>3. /\ DOMAIN km1 = DOMAIN km \cup {n.key} /\ DOMAIN fm1 = DOMAIN km \cup {n.key}
      /\ km1[n.key] = n /\ fm1[n.key] = g
      /\ \A k \in DOMAIN km \ {n.key} : km1[k] = km[k] /\ fm1[k] = fm[k]
  BY <1>1 DEF With
<1>4. IsFiniteSet(DOMAIN km \cup {n.key})
  BY <1>1, FS_AddElement
<1> HIDE DEF P, km1, fm1
<1> USE DEF Begins
<1>5. ASSUME NEW k \in DOMAIN km1
      PROVE  /\ k \in Keys
             /\ km1[k] \in Nodes /\ km1[k].key = k
             /\ fm1[k] \in Freqs
             /\ \E j \in 1 .. Len(P[fm1[k]]) : P[fm1[k]][j] = km1[k]
  <2>1. CASE k = n.key
    <3>1. 1 \in 1 .. Len(P[g]) /\ P[g][1] = n
      BY <1>2
    <3>2. n.key \in Keys
      BY DEF Nodes
    <3> QED
      BY <1>3, <2>1, <3>1, <3>2
  <2>2. CASE k # n.key
    <3>1. k \in DOMAIN km /\ km1[k] = km[k] /\ fm1[k] = fm[k]
      BY <1>3, <2>2
    <3>2. k \in Keys /\ km[k] \in Nodes /\ km[k].key = k /\ fm[k] \in Freqs
      BY <3>1 DEF Mapped
    <3>3. PICK i \in 1 .. Len(K[fm[k]]) : K[fm[k]][i] = km[k]
      BY <3>1 DEF Mapped
    <3>4. CASE fm[k] # g
      BY <1>2, <3>1, <3>2, <3>3, <3>4
    <3>5. CASE fm[k] = g
      <4>1. i + 1 \in 1 .. Len(P[g]) /\ P[g][i + 1] = K[g][i]
        BY <1>2, <3>3, <3>5
      <4> QED
        BY <3>1, <3>2, <3>3, <3>5, <4>1
    <3> QED
      BY <3>4, <3>5
  <2> QED
    BY <2>1, <2>2
<1> QED
  BY <1>2, <1>3, <1>4, <1>5 DEF Mapped, P, km1, fm1

LEMMA PutKeepsFaithful ==
  ASSUME NEW K, NEW km, NEW fm, NEW us \in Uses, NEW now \in Nat,
         Mapped(K, km, fm), Faithful(K, km, fm, us, now),
         NEW g \in Freqs, NEW n \in Nodes, n.key \notin DOMAIN km
  PROVE  Faithful(Put(K, g, n), With(km, n.key, n), With(fm, n.key, g),
                  [us EXCEPT ![n.key] = [count |-> g, last |-> now + 1]], now + 1)
<1> DEFINE P == Put(K, g, n)
           km1 == With(km, n.key, n)
           fm1 == With(fm, n.key, g)
           us1 == [us EXCEPT ![n.key] = [count |-> g, last |-> now + 1]]
<1>1. K \in [Freqs -> Seq(Nodes)] /\ DOMAIN km = DOMAIN fm
  BY DEF Mapped
<1>2. /\ P \in [Freqs -> Seq(Nodes)]
      /\ \A h \in Freqs \ {g} : P[h] = K[h]
      /\ Len(K[g]) \in Nat
      /\ Begins(K[g], P[g], n)
  BY <1>1, PutProperties
<1>3. /\ DOMAIN km1 = DOMAIN km \cup {n.key} /\ DOMAIN fm1 = DOMAIN km \cup {n.key}
      /\ km1[n.key] = n /\ fm1[n.key] = g
      /\ \A k \in DOMAIN km \ {n.key} : km1[k] = km[k] /\ fm1[k] = fm[k]
  BY <1>1 DEF With
<1>4. n.key \in Keys /\ DOMAIN km \subseteq Keys
  BY DEF Nodes, Mapped
<1>5. /\ us1[n.key].count = g /\ us1[n.key].last = now + 1
      /\ \A k \in DOMAIN km : us1[k] = us[k] /\ us[k].last \in Nat /\ us[k].last <= now
  BY <1>4 DEF Uses, Faithful
<1>6. \A h \in Freqs : Len(K[h]) \in Nat /\ Len(P[h]) \in Nat
  BY <1>1, <1>2, LenProperties
<1> HIDE DEF P, km1, fm1, us1
<1> USE DEF Begins
(* A node of P is the new one or one of K. *)
<1>7. ASSUME NEW h \in Freqs, NEW j \in 1 .. Len(P[h])
      PROVE  \/ h = g /\ j = 1 /\ P[h][j] = n
             \/ h = g /\ j > 1 /\ j - 1 \in 1 .. Len(K[h]) /\ P[h][j] = K[h][j - 1]
             \/ h # g /\ j \in 1 .. Len(K[h]) /\ P[h][j] = K[h][j]
  BY <1>2
<1>8. \A h \in Freqs : \A i \in 1 .. Len(K[h]) :
        /\ K[h][i].key \in DOMAIN km
        /\ km[K[h][i].key] = K[h][i]
        /\ fm[K[h][i].key] = h
  BY DEF Faithful
<1>9. ASSUME NEW h \in Freqs, NEW j \in 1 .. Len(P[h])
      PROVE  /\ P[h][j].key \in DOMAIN km1
             /\ km1[P[h][j].key] = P[h][j]
             /\ fm1[P[h][j].key] = h
  <2>1. CASE h = g /\ P[h][j] = n
    BY <1>3, <2>1
  <2>2. ASSUME NEW i \in 1 .. Len(K[h]), P[h][j] = K[h][i]
        PROVE  /\ P[h][j].key \in DOMAIN km1
               /\ km1[P[h][j].key] = P[h][j]
               /\ fm1[P[h][j].key] = h
    BY <1>3, <1>8, <2>2
  <2> QED
    BY <1>7, <2>1, <2>2
<1>10. ASSUME NEW k \in DOMAIN km1
       PROVE  us1[k].count = fm1[k] /\ us1[k].last <= now + 1
  <2>1. CASE k = n.key
    BY <1>3, <1>5, <2>1
  <2>2. CASE k # n.key
    <3>1. k \in DOMAIN km /\ us[k].count = fm[k]
      BY <1>3, <2>2 DEF Faithful
    <3> QED
      BY <1>3, <1>5, <2>2, <3>1
  <2> QED
    BY <2>1, <2>2
<1>11. ASSUME NEW h \in Freqs, NEW i \in 1 .. Len(P[h]), NEW j \in 1 .. Len(P[h]), i < j
       PROVE  us1[P[h][j].key].last < us1[P[h][i].key].last
  <2>1. \A a, b \in 1 .. Len(K[h]) : a < b => us1[K[h][b].key].last < us1[K[h][a].key].last
    <3>1. \A a, b \in 1 .. Len(K[h]) : a < b => us[K[h][b].key].last < us[K[h][a].key].last
      BY DEF Faithful
    <3> QED
      BY <1>5, <1>8, <3>1
  <2>2. CASE h # g
    <3>1. P[h][i] = K[h][i] /\ P[h][j] = K[h][j] /\ P[h] = K[h]
      BY <1>2, <2>2
    <3> QED
      BY <1>11, <2>1, <3>1
  <2>3. CASE h = g /\ i = 1
    <3>1. PICK b \in 1 .. Len(K[h]) : P[h][j] = K[h][b]
      <4>1. j - 1 \in 1 .. Len(K[h]) /\ P[h][j] = K[h][j - 1]
        BY <1>2, <1>6, <1>11, <2>3
      <4> QED
        BY <4>1
    <3>2. P[h][i] = n
      BY <1>2, <2>3
    <3>3. us1[K[h][b].key].last <= now /\ us1[K[h][b].key].last \in Nat
      BY <1>5, <1>8
    <3> QED
      BY <1>5, <3>1, <3>2, <3>3
  <2>4. CASE h = g /\ i # 1
    <3>1. i - 1 \in 1 .. Len(K[h]) /\ P[h][i] = K[h][i - 1]
      BY <1>2, <1>6, <2>4
    <3>2. j - 1 \in 1 .. Len(K[h]) /\ P[h][j] = K[h][j - 1]
      BY <1>2, <1>6, <1>11, <2>4
    <3>3. i - 1 < j - 1
      BY <1>6, <1>11
    <3> QED
      BY <2>1, <3>1, <3>2, <3>3
  <2> QED
    BY <2>2, <2>3, <2>4
<1> QED
  BY <1>9, <1>10, <1>11 DEF Faithful, P, km1, fm1, us1

----------------------------------------------------------------------------
(* Lists of frequency nodes and their views. *)

LEMMA AscendingTyped ==
  ASSUME NEW s, Ascending(s)
  PROVE  /\ Len(s) \in Nat /\ DOMAIN s = 1 .. Len(s)
         /\ \A i \in 1 .. Len(s) :
              s[i] \in FreqNodes /\ s[i].freq \in Freqs /\ s[i].keys \in Seq(Nodes)
<1>1. s \in Seq(FreqNodes)
  BY DEF Ascending
<1>2. Len(s) \in Nat /\ DOMAIN s = 1 .. Len(s) /\ \A i \in 1 .. Len(s) : s[i] \in FreqNodes
  BY <1>1, LenProperties, ElementOfSeq
<1> QED
  BY <1>2 DEF FreqNodes

(* fmap's frequency node, found again. *)
LEMMA IndexFound ==
  ASSUME NEW s, Ascending(s), NEW i \in 1 .. Len(s)
  PROVE  IndexOf(s, s[i].freq) = i
<1> DEFINE g == s[i].freq
           x == IndexOf(s, g)
<1>1. x \in 1 .. Len(s) /\ s[x].freq = g
  <2>1. \E y \in 1 .. Len(s) : s[y].freq = g
    OBVIOUS
  <2> QED
    BY <2>1, Zenon DEF IndexOf
<1>2. Len(s) \in Nat /\ s[i].freq \in Nat
  BY AscendingTyped DEF Freqs
<1> HIDE DEF x
<1>3. ~(x < i) /\ ~(i < x)
  BY <1>1, <1>2 DEF Ascending
<1>4. x = i
  BY <1>1, <1>2, <1>3
<1> QED
  BY <1>4 DEF x

LEMMA ViewProperties ==
  ASSUME NEW s, Ascending(s)
  PROVE  /\ View(s) \in [Freqs -> Seq(Nodes)]
         /\ \A i \in 1 .. Len(s) : View(s)[s[i].freq] = s[i].keys
         /\ \A g \in Freqs : (\A i \in 1 .. Len(s) : s[i].freq # g) => View(s)[g] = <<>>
<1>1. \A i \in 1 .. Len(s) : s[i].freq \in Freqs /\ s[i].keys \in Seq(Nodes)
  BY AscendingTyped
<1>2. ASSUME NEW i \in 1 .. Len(s)
      PROVE  KeysAt(s, s[i].freq) = s[i].keys
  <2>1. IndexOf(s, s[i].freq) = i
    BY IndexFound
  <2> QED
    BY <2>1 DEF KeysAt
<1>3. ASSUME NEW g \in Freqs, \A i \in 1 .. Len(s) : s[i].freq # g
      PROVE  KeysAt(s, g) = <<>>
  BY <1>3 DEF KeysAt
<1>4. ASSUME NEW g \in Freqs PROVE KeysAt(s, g) \in Seq(Nodes)
  <2>1. CASE \A i \in 1 .. Len(s) : s[i].freq # g
    BY <1>3, <2>1, EmptySeq
  <2>2. ASSUME NEW i \in 1 .. Len(s), s[i].freq = g PROVE KeysAt(s, g) \in Seq(Nodes)
    BY <1>1, <1>2, <2>2
  <2> QED
    BY <2>1, <2>2
<1> QED
  BY <1>1, <1>2, <1>3, <1>4 DEF View

LEMMA ViewUnique ==
  ASSUME NEW s, Ascending(s), NEW K \in [Freqs -> Seq(Nodes)],
         \A i \in 1 .. Len(s) : K[s[i].freq] = s[i].keys,
         \A g \in Freqs : (\A i \in 1 .. Len(s) : s[i].freq # g) => K[g] = <<>>
  PROVE  View(s) = K
<1>1. /\ View(s) \in [Freqs -> Seq(Nodes)]
      /\ \A i \in 1 .. Len(s) : View(s)[s[i].freq] = s[i].keys
      /\ \A g \in Freqs : (\A i \in 1 .. Len(s) : s[i].freq # g) => View(s)[g] = <<>>
  BY ViewProperties
<1>2. ASSUME NEW g \in Freqs PROVE View(s)[g] = K[g]
  <2>1. CASE \A i \in 1 .. Len(s) : s[i].freq # g
    BY <1>1, <2>1
  <2>2. ASSUME NEW i \in 1 .. Len(s), s[i].freq = g PROVE View(s)[g] = K[g]
    BY <1>1, <2>2
  <2> QED
    BY <2>1, <2>2
<1> QED
  BY <1>1, <1>2

(* A frequency node gets other keys. *)
Replaced(s, i, l) == [s EXCEPT ![i] = l]

LEMMA ReplaceView ==
  ASSUME NEW s, Ascending(s), NEW i \in 1 .. Len(s),
         NEW l \in FreqNodes, l.freq = s[i].freq
  PROVE  /\ Ascending(Replaced(s, i, l))
         /\ Len(Replaced(s, i, l)) = Len(s)
         /\ \A j \in 1 .. Len(s) : Replaced(s, i, l)[j] = IF j = i THEN l ELSE s[j]
         /\ View(Replaced(s, i, l)) = [View(s) EXCEPT ![l.freq] = l.keys]
<1> DEFINE r == Replaced(s, i, l)
           K == [View(s) EXCEPT ![l.freq] = l.keys]
<1>1. Len(s) \in Nat /\ DOMAIN s = 1 .. Len(s)
      /\ \A j \in 1 .. Len(s) : s[j] \in FreqNodes /\ s[j].freq \in Freqs
  BY AscendingTyped
<1>2. r \in [1 .. Len(s) -> FreqNodes] /\ \A j \in 1 .. Len(s) : r[j] = IF j = i THEN l ELSE s[j]
  <2>1. s \in [1 .. Len(s) -> FreqNodes]
    BY LenProperties DEF Ascending
  <2> QED
    BY <1>1, <2>1 DEF Replaced
<1> HIDE DEF r
<1>3. r \in Seq(FreqNodes) /\ Len(r) = Len(s)
  BY <1>1, <1>2, FunctionIsSeq
<1>4. \A j \in 1 .. Len(s) : r[j].freq = s[j].freq
  BY <1>2
<1>5. Ascending(r)
  BY <1>3, <1>4 DEF Ascending
<1>6. /\ View(s) \in [Freqs -> Seq(Nodes)]
      /\ \A j \in 1 .. Len(s) : View(s)[s[j].freq] = s[j].keys
      /\ \A g \in Freqs : (\A j \in 1 .. Len(s) : s[j].freq # g) => View(s)[g] = <<>>
  BY ViewProperties
<1>7. l.freq \in Freqs /\ l.keys \in Seq(Nodes)
  BY DEF FreqNodes
<1>8. K \in [Freqs -> Seq(Nodes)] /\ \A g \in Freqs : K[g] = IF g = l.freq THEN l.keys ELSE View(s)[g]
  BY <1>6, <1>7
<1> HIDE DEF K
<1>9. ASSUME NEW j \in 1 .. Len(r) PROVE K[r[j].freq] = r[j].keys
  <2>1. CASE j = i
    BY <1>2, <1>3, <1>7, <1>8, <2>1
  <2>2. CASE j # i
    <3>1. s[j].freq # s[i].freq
      <4>1. i < j \/ j < i
        BY <1>1, <1>3, <2>2
      <4>2. i < j => s[i].freq < s[j].freq
        BY <1>3 DEF Ascending
      <4>3. j < i => s[j].freq < s[i].freq
        BY <1>3 DEF Ascending
      <4> QED
        BY <1>1, <1>3, <4>1, <4>2, <4>3 DEF Freqs
    <3>2. r[j] = s[j] /\ s[j].freq \in Freqs
      BY <1>1, <1>2, <1>3, <2>2
    <3> QED
      BY <1>3, <1>6, <1>8, <3>1, <3>2
  <2> QED
    BY <2>1, <2>2
<1>10. ASSUME NEW g \in Freqs, \A j \in 1 .. Len(r) : r[j].freq # g PROVE K[g] = <<>>
  <2>1. \A j \in 1 .. Len(s) : s[j].freq # g
    BY <1>3, <1>4, <1>10
  <2> QED
    BY <1>6, <1>8, <2>1
<1>11. View(r) = K
  BY <1>5, <1>8, <1>9, <1>10, ViewUnique
<1> QED
  BY <1>2, <1>3, <1>5, <1>11 DEF r, K

(* A frequency node is inserted in its place, with no keys yet. *)
LEMMA InsertView ==
  ASSUME NEW s, Ascending(s), NEW i \in 0 .. Len(s), NEW f \in Freqs,
         i # 0 => s[i].freq < f,
         i # Len(s) => f < s[i + 1].freq
  PROVE  LET e == [freq |-> f, keys |-> <<>>]
             r == InsertAt(s, i + 1, e)
         IN  /\ Ascending(r)
             /\ Inserts(s, r, i + 1, e)
             /\ View(r) = View(s)
<1> DEFINE e == [freq |-> f, keys |-> <<>>]
           r == InsertAt(s, i + 1, e)
<1>1. Len(s) \in Nat /\ s \in Seq(FreqNodes)
      /\ \A j \in 1 .. Len(s) : s[j] \in FreqNodes /\ s[j].freq \in Freqs
  BY AscendingTyped DEF Ascending
<1>2. e \in FreqNodes /\ e.freq = f /\ e.keys = <<>>
  BY EmptySeq DEF FreqNodes
<1> HIDE DEF e
<1>3. r \in Seq(FreqNodes) /\ Inserts(s, r, i + 1, e)
  <2>1. i + 1 \in 1 .. Len(s) + 1
    BY <1>1
  <2> QED
    BY <1>1, <1>2, <2>1, InsertAtProperties
<1> HIDE DEF r
<1> USE DEF Inserts
<1>4. \A j \in 1 .. i : s[j].freq < f
  <2>1. \A j \in 1 .. i : j < i => s[j].freq < s[i].freq
    BY <1>1 DEF Ascending
  <2> QED
    BY <1>1, <2>1 DEF Freqs
<1>5. \A j \in i + 1 .. Len(s) : f < s[j].freq
  <2>1. \A j \in i + 1 .. Len(s) : i + 1 < j => s[i + 1].freq < s[j].freq
    BY <1>1 DEF Ascending
  <2> QED
    BY <1>1, <2>1 DEF Freqs
<1>6. ASSUME NEW a \in 1 .. Len(r), NEW b \in 1 .. Len(r), a < b PROVE r[a].freq < r[b].freq
  <2>1. CASE b < i + 1
    <3>1. r[a] = s[a] /\ r[b] = s[b] /\ a \in 1 .. Len(s) /\ b \in 1 .. Len(s)
      BY <1>1, <1>3, <1>6, <2>1
    <3> QED
      BY <1>6, <3>1 DEF Ascending
  <2>2. CASE b = i + 1
    BY <1>1, <1>2, <1>3, <1>4, <1>6, <2>2
  <2>3. CASE b > i + 1 /\ a < i + 1
    <3>1. r[a] = s[a] /\ r[b] = s[b - 1] /\ b - 1 \in i + 1 .. Len(s) /\ a \in 1 .. i
      BY <1>1, <1>3, <1>6, <2>3
    <3>2. s[a].freq < f /\ f < s[b - 1].freq /\ s[a].freq \in Nat /\ s[b - 1].freq \in Nat
      BY <1>1, <1>4, <1>5, <3>1 DEF Freqs
    <3> QED
      BY <3>1, <3>2 DEF Freqs
  <2>4. CASE b > i + 1 /\ a = i + 1
    <3>1. r[a] = e /\ r[b] = s[b - 1] /\ b - 1 \in i + 1 .. Len(s)
      BY <1>1, <1>3, <1>6, <2>4
    <3> QED
      BY <1>2, <1>5, <3>1
  <2>5. CASE b > i + 1 /\ a > i + 1
    <3>1. /\ r[a] = s[a - 1] /\ r[b] = s[b - 1]
          /\ a - 1 \in 1 .. Len(s) /\ b - 1 \in 1 .. Len(s) /\ a - 1 < b - 1
      BY <1>1, <1>3, <1>6, <2>5
    <3> QED
      BY <3>1 DEF Ascending
  <2>6. b < i + 1 \/ b = i + 1 \/ (b > i + 1 /\ (a < i + 1 \/ a = i + 1 \/ a > i + 1))
    BY <1>1, <1>3
  <2> QED
    BY <2>1, <2>2, <2>3, <2>4, <2>5, <2>6
<1>7. Ascending(r)
  BY <1>3, <1>6 DEF Ascending
<1>8. /\ View(s) \in [Freqs -> Seq(Nodes)]
      /\ \A j \in 1 .. Len(s) : View(s)[s[j].freq] = s[j].keys
      /\ \A g \in Freqs : (\A j \in 1 .. Len(s) : s[j].freq # g) => View(s)[g] = <<>>
  BY ViewProperties
<1>9. View(s)[f] = <<>>
  <2>1. \A j \in 1 .. Len(s) : s[j].freq # f
    BY <1>1, <1>4, <1>5 DEF Freqs
  <2> QED
    BY <1>8, <2>1
<1>10. ASSUME NEW j \in 1 .. Len(r) PROVE View(s)[r[j].freq] = r[j].keys
  <2>1. CASE j = i + 1
    <3>1. r[j] = e
      BY <1>1, <1>3, <2>1
    <3> QED
      BY <1>2, <1>9, <3>1
  <2>2. CASE j < i + 1
    <3>1. r[j] = s[j] /\ j \in 1 .. Len(s)
      BY <1>1, <1>3, <2>2
    <3> QED
      BY <1>8, <3>1
  <2>3. CASE j > i + 1
    <3>1. r[j] = s[j - 1] /\ j - 1 \in 1 .. Len(s)
      BY <1>1, <1>3, <2>3
    <3> QED
      BY <1>8, <3>1
  <2>4. j = i + 1 \/ j < i + 1 \/ j > i + 1
    BY <1>1, <1>3
  <2> QED
    BY <2>1, <2>2, <2>3, <2>4
<1>11. ASSUME NEW g \in Freqs, \A j \in 1 .. Len(r) : r[j].freq # g PROVE View(s)[g] = <<>>
  <2>1. ASSUME NEW j \in 1 .. Len(s) PROVE s[j].freq # g
    <3>1. CASE j < i + 1
      BY <1>1, <1>3, <1>11, <3>1
    <3>2. CASE j >= i + 1
      <4>1. j + 1 \in 1 .. Len(r) /\ r[j + 1] = s[j]
        BY <1>1, <1>3, <3>2
      <4> QED
        BY <1>11, <4>1
    <3>3. j < i + 1 \/ j >= i + 1
      BY <1>1
    <3> QED
      BY <3>1, <3>2, <3>3
  <2> QED
    BY <1>8, <2>1
<1>12. View(r) = View(s)
  BY <1>7, <1>8, <1>10, <1>11, ViewUnique
<1> QED
  BY <1>3, <1>7, <1>12 DEF r, e

(* A frequency node that has lost its last key is dropped. *)
LEMMA DropView ==
  ASSUME NEW s, Ascending(s), NEW i \in 1 .. Len(s),
         \A j \in 1 .. Len(s) : j # i => s[j].keys # <<>>
  PROVE  /\ Ascending(DropIfEmpty(s, i))
         /\ NoneEmpty(DropIfEmpty(s, i))
         /\ View(DropIfEmpty(s, i)) = View(s)
<1>1. Len(s) \in Nat /\ s \in Seq(FreqNodes)
      /\ \A j \in 1 .. Len(s) : s[j] \in FreqNodes /\ s[j].freq \in Freqs
  BY AscendingTyped DEF Ascending
<1>2. CASE s[i].keys # <<>>
  <2>1. DropIfEmpty(s, i) = s
    BY <1>2 DEF DropIfEmpty
  <2>2. NoneEmpty(s)
    BY <1>2 DEF NoneEmpty
  <2> QED
    BY <2>1, <2>2
<1>3. CASE s[i].keys = <<>>
  <2> DEFINE r == RemoveAt(s, i)
  <2>1. DropIfEmpty(s, i) = r
    BY <1>3 DEF DropIfEmpty
  <2>2. r \in Seq(FreqNodes) /\ Len(r) = Len(s) - 1
        /\ \A j \in 1 .. Len(s) - 1 : r[j] = IF j < i THEN s[j] ELSE s[j + 1]
    BY <1>1, RemoveAtProperties
  <2> HIDE DEF r
  <2> DEFINE old(j) == IF j < i THEN j ELSE j + 1
  <2>3. ASSUME NEW j \in 1 .. Len(r) PROVE old(j) \in 1 .. Len(s) /\ old(j) # i /\ r[j] = s[old(j)]
    BY <1>1, <2>2
  <2>4. ASSUME NEW a \in 1 .. Len(r), NEW b \in 1 .. Len(r), a < b PROVE old(a) < old(b)
    BY <1>1, <2>2, <2>4
  <2>5. ASSUME NEW k \in 1 .. Len(s), k # i PROVE \E j \in 1 .. Len(r) : r[j] = s[k]
    <3>1. CASE k < i
      <4>1. k \in 1 .. Len(r) /\ r[k] = s[k]
        BY <1>1, <2>2, <3>1
      <4> QED
        BY <4>1
    <3>2. CASE k > i
      <4>1. PICK j \in 1 .. Len(s) - 1 : k = j + 1
        BY <1>1, <3>2
      <4>2. j \in 1 .. Len(r) /\ r[j] = s[k]
        BY <1>1, <2>2, <3>2, <4>1
      <4> QED
        BY <4>2
    <3>3. k < i \/ k > i
      BY <1>1, <2>5
    <3> QED
      BY <3>1, <3>2, <3>3
  <2> HIDE DEF old
  <2>6. Ascending(r)
    <3>1. ASSUME NEW a \in 1 .. Len(r), NEW b \in 1 .. Len(r), a < b PROVE r[a].freq < r[b].freq
      <4>1. s[old(a)].freq < s[old(b)].freq
        BY <2>3, <2>4, <3>1 DEF Ascending
      <4> QED
        BY <2>3, <4>1
    <3> QED
      BY <2>2, <3>1 DEF Ascending
  <2>7. NoneEmpty(r)
    BY <2>3 DEF NoneEmpty
  <2>8. /\ View(s) \in [Freqs -> Seq(Nodes)]
        /\ \A j \in 1 .. Len(s) : View(s)[s[j].freq] = s[j].keys
        /\ \A g \in Freqs : (\A j \in 1 .. Len(s) : s[j].freq # g) => View(s)[g] = <<>>
    BY ViewProperties
  <2>9. \A j \in 1 .. Len(r) : View(s)[r[j].freq] = r[j].keys
    BY <2>3, <2>8
  <2>10. ASSUME NEW g \in Freqs, \A j \in 1 .. Len(r) : r[j].freq # g PROVE View(s)[g] = <<>>
    <3>1. \A k \in 1 .. Len(s) : k # i => s[k].freq # g
      BY <2>5, <2>10
    <3>2. CASE s[i].freq = g
      BY <1>3, <2>8, <3>2
    <3>3. CASE s[i].freq # g
      BY <2>8, <3>1, <3>3
    <3> QED
      BY <3>2, <3>3
  <2>11. View(r) = View(s)
    BY <2>6, <2>8, <2>9, <2>10, ViewUnique
  <2> QED
    BY <2>1, <2>6, <2>7, <2>11
<1> QED
  BY <1>2, <1>3

(* KeyList::del on the i-th frequency node, and LFUCache::del if that was  *)
(* its last key.                                                           *)
LEMMA DelView ==
  ASSUME NEW s, Ascending(s), NEW i \in 1 .. Len(s), NEW n,
         NEW q \in 1 .. Len(s[i].keys), s[i].keys[q] = n,
         \A j \in 1 .. Len(s) : j # i => s[j].keys # <<>>
  PROVE  LET r == DropIfEmpty([s EXCEPT ![i] = KeyListDel(@, n)], i) IN
           /\ Ascending(r)
           /\ NoneEmpty(r)
           /\ View(r) = Unlink(View(s), s[i].freq, n)
<1> DEFINE l == KeyListDel(s[i], n)
           t == Replaced(s, i, l)
<1>1. /\ Len(s) \in Nat /\ DOMAIN s = 1 .. Len(s)
      /\ s[i] \in FreqNodes /\ s[i].freq \in Freqs /\ s[i].keys \in Seq(Nodes)
  BY AscendingTyped
<1>2. RemoveAt(s[i].keys, Place(s[i].keys, n)) \in Seq(Nodes)
  BY <1>1, UnlinkedKeys
<1>3. l \in FreqNodes /\ l.freq = s[i].freq /\ l.keys = RemoveAt(s[i].keys, Place(s[i].keys, n))
  BY <1>1, <1>2 DEF KeyListDel, FreqNodes
<1>4. [s EXCEPT ![i] = KeyListDel(@, n)] = t
  BY DEF Replaced
<1> HIDE DEF l
<1>5. /\ Ascending(t)
      /\ Len(t) = Len(s)
      /\ \A j \in 1 .. Len(s) : t[j] = IF j = i THEN l ELSE s[j]
      /\ View(t) = [View(s) EXCEPT ![l.freq] = l.keys]
  BY <1>3, ReplaceView
<1> HIDE DEF t
<1>6. View(t) = Unlink(View(s), s[i].freq, n)
  <2>1. View(s)[s[i].freq] = s[i].keys /\ View(s) \in [Freqs -> Seq(Nodes)]
    BY ViewProperties
  <2> QED
    BY <1>1, <1>3, <1>5, <2>1 DEF Unlink
<1>7. /\ Ascending(DropIfEmpty(t, i))
      /\ NoneEmpty(DropIfEmpty(t, i))
      /\ View(DropIfEmpty(t, i)) = View(t)
  <2>1. \A j \in 1 .. Len(t) : j # i => t[j].keys # <<>>
    BY <1>5
  <2>2. i \in 1 .. Len(t)
    BY <1>5
  <2> QED
    BY <1>5, <2>1, <2>2, DropView
<1> QED
  BY <1>4, <1>6, <1>7

(* The frequency after the i-th one, inserted if it is not there; and the  *)
(* node in front of its keys.                                              *)
FreqAt(s, i) == IF i = 0 THEN 0 ELSE s[i].freq

Grown(s, i) ==
  IF i = Len(s) \/ s[i + 1].freq # FreqAt(s, i) + 1
    THEN InsertAt(s, i + 1, [freq |-> FreqAt(s, i) + 1, keys |-> <<>>])
    ELSE s

Added(s, node, i) == [Grown(s, i) EXCEPT ![i + 1] = KeyListAdd(@, node)]

LEMMA GrownView ==
  ASSUME NEW s, Ascending(s), NEW i \in 0 .. Len(s), NoneEmpty(s)
  PROVE  /\ FreqAt(s, i) \in Nat /\ FreqAt(s, i) + 1 \in Freqs
         /\ Ascending(Grown(s, i))
         /\ i + 1 \in 1 .. Len(Grown(s, i))
         /\ Grown(s, i)[i + 1].freq = FreqAt(s, i) + 1
         /\ \A j \in 1 .. i : Grown(s, i)[j] = s[j]
         /\ \A j \in 1 .. Len(Grown(s, i)) : j # i + 1 => Grown(s, i)[j].keys # <<>>
         /\ View(Grown(s, i)) = View(s)
<1> DEFINE f == FreqAt(s, i) + 1
           e == [freq |-> f, keys |-> <<>>]
           r == Grown(s, i)
<1>1. Len(s) \in Nat
      /\ \A j \in 1 .. Len(s) : s[j].freq \in Nat /\ s[j].freq # 0
  BY AscendingTyped DEF Freqs
<1>2. FreqAt(s, i) \in Nat /\ f \in Freqs
  BY <1>1 DEF FreqAt, Freqs
<1>3. CASE i = Len(s) \/ s[i + 1].freq # f
  <2>1. i # 0 => s[i].freq < f
    BY <1>1 DEF FreqAt
  <2>2. i # Len(s) => f < s[i + 1].freq
    <3> SUFFICES ASSUME i # Len(s) PROVE f < s[i + 1].freq
      OBVIOUS
    <3>1. i + 1 \in 1 .. Len(s) /\ s[i + 1].freq \in Nat /\ s[i + 1].freq # 0
      BY <1>1
    <3>2. FreqAt(s, i) < s[i + 1].freq
      <4>1. CASE i = 0
        BY <3>1, <4>1 DEF FreqAt
      <4>2. CASE i # 0
        BY <1>1, <3>1, <4>2 DEF FreqAt, Ascending
      <4> QED
        BY <4>1, <4>2
    <3> QED
      BY <1>2, <1>3, <3>1, <3>2
  <2>3. r = InsertAt(s, i + 1, e)
    BY <1>3 DEF Grown
  <2> HIDE DEF f
  <2>4. Ascending(r) /\ Inserts(s, r, i + 1, e) /\ View(r) = View(s)
    BY <1>2, <2>1, <2>2, <2>3, InsertView
  <2>5. e.freq = f
    OBVIOUS
  <2> HIDE DEF r, e
  <2>6. i + 1 \in 1 .. Len(r) /\ r[i + 1].freq = f /\ \A j \in 1 .. i : r[j] = s[j]
    BY <1>1, <2>4, <2>5 DEF Inserts
  <2>7. ASSUME NEW j \in 1 .. Len(r), j # i + 1 PROVE r[j].keys # <<>>
    <3>1. CASE j < i + 1
      BY <1>1, <2>4, <3>1 DEF Inserts, NoneEmpty
    <3>2. CASE j > i + 1
      <4>1. j - 1 \in 1 .. Len(s) /\ r[j] = s[j - 1]
        BY <1>1, <2>4, <3>2 DEF Inserts
      <4> QED
        BY <4>1 DEF NoneEmpty
    <3>3. j < i + 1 \/ j > i + 1
      BY <1>1, <2>4, <2>7 DEF Inserts
    <3> QED
      BY <3>1, <3>2, <3>3
  <2> QED
    BY <1>2, <2>4, <2>6, <2>7 DEF r, f
<1>4. CASE i # Len(s) /\ s[i + 1].freq = f
  <2>1. r = s
    BY <1>4 DEF Grown
  <2>2. i + 1 \in 1 .. Len(s)
    BY <1>1, <1>4
  <2> QED
    BY <1>2, <1>4, <2>1, <2>2 DEF NoneEmpty
<1> QED
  BY <1>3, <1>4

LEMMA AddedView ==
  ASSUME NEW s, Ascending(s), NEW i \in 0 .. Len(s), NoneEmpty(s), NEW n \in Nodes
  PROVE  /\ Ascending(Added(s, n, i))
         /\ i \in 0 .. Len(Added(s, n, i))
         /\ \A j \in 1 .. i : Added(s, n, i)[j] = s[j]
         /\ NoneEmpty(Added(s, n, i))
         /\ View(Added(s, n, i)) = Put(View(s), FreqAt(s, i) + 1, n)
<1> DEFINE f == FreqAt(s, i) + 1
           r == Grown(s, i)
           l == KeyListAdd(r[i + 1], n)
           t == Replaced(r, i + 1, l)
<1>1. /\ f \in Freqs
      /\ Ascending(r)
      /\ i + 1 \in 1 .. Len(r)
      /\ r[i + 1].freq = f
      /\ \A j \in 1 .. i : r[j] = s[j]
      /\ \A j \in 1 .. Len(r) : j # i + 1 => r[j].keys # <<>>
      /\ View(r) = View(s)
  BY GrownView
<1>2. Added(s, n, i) = t
  BY DEF Added, Replaced
<1> HIDE DEF r, f
<1>3. /\ Len(r) \in Nat /\ i \in Nat
      /\ r[i + 1] \in FreqNodes /\ r[i + 1].keys \in Seq(Nodes)
  BY <1>1, AscendingTyped
<1>4. <<n>> \o r[i + 1].keys \in Seq(Nodes) /\ Len(<<n>> \o r[i + 1].keys) = Len(r[i + 1].keys) + 1
  BY <1>3, PrependProperties
<1>5. l \in FreqNodes /\ l.freq = f /\ l.keys = <<n>> \o r[i + 1].keys
  BY <1>1, <1>3, <1>4 DEF KeyListAdd, FreqNodes
<1>6. l.keys # <<>>
  <2>1. Len(l.keys) # 0
    BY <1>3, <1>4, <1>5, LenProperties
  <2> QED
    BY <2>1, EmptySeq
<1> HIDE DEF l
<1>7. /\ Ascending(t)
      /\ Len(t) = Len(r)
      /\ \A j \in 1 .. Len(r) : t[j] = IF j = i + 1 THEN l ELSE r[j]
      /\ View(t) = [View(r) EXCEPT ![l.freq] = l.keys]
  <2> DEFINE x == i + 1
  <2>1. x \in 1 .. Len(r) /\ l.freq = r[x].freq
    BY <1>1, <1>5
  <2> HIDE DEF x
  <2>2. /\ Ascending(Replaced(r, x, l))
        /\ Len(Replaced(r, x, l)) = Len(r)
        /\ \A j \in 1 .. Len(r) : Replaced(r, x, l)[j] = IF j = x THEN l ELSE r[j]
        /\ View(Replaced(r, x, l)) = [View(r) EXCEPT ![l.freq] = l.keys]
    BY <1>1, <1>5, <2>1, ReplaceView
  <2> QED
    BY <2>2 DEF x
<1> HIDE DEF t
<1>8. View(t) = Put(View(s), f, n)
  <2>1. View(r)[r[i + 1].freq] = r[i + 1].keys /\ View(r) \in [Freqs -> Seq(Nodes)]
    BY <1>1, ViewProperties
  <2> QED
    BY <1>1, <1>5, <1>7, <2>1 DEF Put
<1>9. NoneEmpty(t)
  BY <1>1, <1>6, <1>7 DEF NoneEmpty
<1>10. i \in 0 .. Len(t) /\ \A j \in 1 .. i : t[j] = s[j]
  BY <1>1, <1>3, <1>7
<1> QED
  BY <1>2, <1>7, <1>8, <1>9, <1>10 DEF f

(* addfreq() for a new node. *)
LEMMA AddFreqOfNew ==
  ASSUME NEW s, Ascending(s), NoneEmpty(s), NEW n \in Nodes
  PROVE  /\ Ascending(AddFreq(s, n, 0))
         /\ NoneEmpty(AddFreq(s, n, 0))
         /\ View(AddFreq(s, n, 0)) = Put(View(s), 1, n)
<1>1. AddFreq(s, n, 0) = Added(s, n, 0)
  BY DEF AddFreq, Added, Grown, FreqAt
<1>2. 0 \in 0 .. Len(s) /\ FreqAt(s, 0) + 1 = 1
  BY AscendingTyped DEF FreqAt
<1> QED
  BY <1>1, <1>2, AddedView

(* addfreq() for a node in the i-th list. *)
LEMMA AddFreqOfOld ==
  ASSUME NEW s, Ascending(s), NoneEmpty(s), NEW n \in Nodes,
         NEW i \in 1 .. Len(s), NEW q \in 1 .. Len(s[i].keys), s[i].keys[q] = n
  PROVE  /\ Ascending(AddFreq(s, n, i))
         /\ NoneEmpty(AddFreq(s, n, i))
         /\ View(AddFreq(s, n, i)) = Put(Unlink(View(s), s[i].freq, n), s[i].freq + 1, n)
<1> DEFINE t == Added(s, n, i)
           r == DropIfEmpty([t EXCEPT ![i] = KeyListDel(@, n)], i)
           f == s[i].freq
<1>1. i # 0 /\ i \in 0 .. Len(s) /\ FreqAt(s, i) = f /\ f \in Freqs
  BY AscendingTyped DEF FreqAt
<1>2. AddFreq(s, n, i) = r
  BY <1>1 DEF AddFreq, Added, Grown, FreqAt
<1>3. /\ Ascending(t)
      /\ i \in 0 .. Len(t)
      /\ \A j \in 1 .. i : t[j] = s[j]
      /\ NoneEmpty(t)
      /\ View(t) = Put(View(s), f + 1, n)
  BY <1>1, AddedView
<1> HIDE DEF t
<1>4. i \in 1 .. Len(t) /\ t[i] = s[i]
  BY <1>1, <1>3, AscendingTyped
<1>5. \A j \in 1 .. Len(t) : j # i => t[j].keys # <<>>
  BY <1>3 DEF NoneEmpty
<1>6. Ascending(r) /\ NoneEmpty(r) /\ View(r) = Unlink(View(t), t[i].freq, n)
  <2>1. q \in 1 .. Len(t[i].keys) /\ t[i].keys[q] = n
    BY <1>4
  <2> QED
    BY <1>3, <1>4, <1>5, <2>1, DelView
<1>7. Unlink(Put(View(s), f + 1, n), f, n) = Put(Unlink(View(s), f, n), f + 1, n)
  <2>1. View(s) \in [Freqs -> Seq(Nodes)]
    BY ViewProperties
  <2>2. f + 1 \in Freqs /\ f # f + 1
    BY <1>1 DEF Freqs
  <2> QED
    BY <1>1, <2>1, <2>2, PutUnlinkCommute
<1> QED
  BY <1>2, <1>3, <1>4, <1>6, <1>7

----------------------------------------------------------------------------
(* The steps. *)

LEMMA MappedSame ==
  ASSUME NEW K, NEW km, NEW fm, Mapped(K, km, fm), NEW km1, NEW fm1,
         DOMAIN km1 = DOMAIN km, DOMAIN fm1 = DOMAIN fm,
         \A k \in DOMAIN km : km1[k] = km[k] /\ fm1[k] = fm[k]
  PROVE  Mapped(K, km1, fm1)
  BY DEF Mapped

LEMMA FaithfulSame ==
  ASSUME NEW K, NEW km, NEW fm, NEW us, NEW now, Faithful(K, km, fm, us, now), NEW km1, NEW fm1,
         DOMAIN km1 = DOMAIN km,
         \A k \in DOMAIN km : km1[k] = km[k] /\ fm1[k] = fm[k]
  PROVE  Faithful(K, km1, fm1, us, now)
  BY DEF Faithful

(* A frequency that has keys has a node. *)
LEMMA NodeOfFreq ==
  ASSUME NEW s, Ascending(s), NEW g \in Freqs, NEW p \in 1 .. Len(View(s)[g])
  PROVE  \E i \in 1 .. Len(s) : s[i].freq = g /\ s[i].keys = View(s)[g]
<1>1. /\ \A i \in 1 .. Len(s) : View(s)[s[i].freq] = s[i].keys
      /\ (\A i \in 1 .. Len(s) : s[i].freq # g) => View(s)[g] = <<>>
  BY ViewProperties
<1>2. View(s)[g] # <<>>
  BY EmptySeq
<1>3. PICK i \in 1 .. Len(s) : s[i].freq = g
  BY <1>1, <1>2
<1> QED
  BY <1>1, <1>3

(* get() that finds the key: its node leaves one frequency and enters the  *)
(* next, as if it were evicted and set again.                              *)
LEMMA HitStep ==
  ASSUME CacheInv, NEW t \in Threads, NEW k \in Keys, Hit(t, k)
  PROVE  CacheInv'
<1> DEFINE K == View(lists)
           n == kmap[k]
           f == fmap[k]
           U == Unlink(K, f, n)
           km1 == Without(kmap, k)
           fm1 == Without(fmap, k)
           km2 == With(km1, k, n)
           fm2 == With(fm1, k, f + 1)
<1>1. /\ Typed /\ Mapped(K, kmap, fmap)
      /\ k \in DOMAIN fmap
      /\ lists' = AddFreq(lists, n, IndexOf(lists, f))
      /\ fmap' = With(fmap, k, f + 1)
      /\ clock' = clock + 1
      /\ used' = [used EXCEPT ![k] = [count |-> @.count + 1, last |-> clock + 1]]
      /\ UNCHANGED <<kmap, missed, overwritten>>
  BY DEF CacheInv, Hit
<1>2. k \in DOMAIN kmap /\ n \in Nodes /\ n.key = k /\ f \in Freqs /\ f + 1 \in Freqs
  BY <1>1 DEF Mapped, Freqs
<1>3. PICK p \in 1 .. Len(K[f]) : K[f][p] = n
  BY <1>1, <1>2 DEF Mapped
<1>4. PICK i \in 1 .. Len(lists) : lists[i].freq = f /\ lists[i].keys = K[f]
  BY <1>1, <1>2, NodeOfFreq DEF Typed
<1>5. IndexOf(lists, f) = i
  BY <1>1, <1>4, IndexFound DEF Typed
<1>6. Ascending(lists') /\ NoneEmpty(lists') /\ View(lists') = Put(U, f + 1, n)
  BY <1>1, <1>2, <1>3, <1>4, <1>5, AddFreqOfOld DEF Typed
<1>7. Mapped(U, km1, fm1)
  BY <1>1, <1>2, <1>3, UnlinkKeepsMapped
<1>8. Mapped(Put(U, f + 1, n), km2, fm2)
  <2> HIDE DEF U, km1, fm1, n, f
  <2> QED
    BY <1>2, <1>7, PutKeepsMapped
<1>9. DOMAIN kmap = DOMAIN km2 /\ DOMAIN fmap' = DOMAIN fm2 /\ DOMAIN km2 = DOMAIN fm2
      /\ \A x \in DOMAIN km2 : kmap[x] = km2[x] /\ fmap'[x] = fm2[x]
  BY <1>1, <1>2 DEF With, Without, Mapped
<1>10. Typed'
  BY <1>1, <1>6 DEF Typed, Uses
<1>11. Mapped(View(lists'), kmap', fmap')
  <2> HIDE DEF km2, fm2, U, n, f
  <2>1. kmap' = kmap
    BY <1>1
  <2> QED
    BY <1>6, <1>8, <1>9, <2>1, MappedSame
<1>12. ASSUME ~overwritten'
       PROVE  /\ Faithful(View(lists'), kmap', fmap', used', clock')
              /\ Cardinality(DOMAIN kmap') <= capacity
  <2>1. ~overwritten
    BY <1>1, <1>12
  <2>2. Faithful(K, kmap, fmap, used, clock) /\ Cardinality(DOMAIN kmap) <= capacity
    BY <2>1 DEF CacheInv
  <2>3. used \in Uses /\ clock \in Nat
    BY <1>1 DEF Typed
  <2>4. Faithful(U, km1, fm1, used, clock)
    BY <1>1, <1>2, <1>3, <2>2, <2>3, UnlinkKeepsFaithful
  <2>5. n.key \notin DOMAIN km1
    BY <1>2 DEF Without
  <2>6. used' = [used EXCEPT ![n.key] = [count |-> f + 1, last |-> clock + 1]]
    BY <1>1, <1>2, <2>2 DEF Faithful
  <2> HIDE DEF U, km1, fm1, n, f
  <2>7. Faithful(Put(U, f + 1, n), km2, fm2, used', clock + 1)
    BY <1>2, <1>7, <2>3, <2>4, <2>5, <2>6, PutKeepsFaithful
  <2> HIDE DEF km2, fm2
  <2>8. kmap' = kmap /\ clock' = clock + 1
    BY <1>1
  <2>9. Faithful(View(lists'), kmap', fmap', used', clock')
    BY <1>6, <1>9, <2>7, <2>8, FaithfulSame
  <2> QED
    BY <2>2, <2>8, <2>9
<1> QED
  BY <1>10, <1>11, <1>12 DEF CacheInv

(* A full cache has a key to evict, and the list it is taken from. *)
LEMMA VictimFound ==
  ASSUME CacheInv, Cardinality(DOMAIN kmap) = capacity
  PROVE  /\ 1 \in 1 .. Len(lists)
         /\ Len(lists[1].keys) \in 1 .. Len(lists[1].keys)
         /\ lists[1].keys[Len(lists[1].keys)] = GetLast(lists[1])
         /\ lists[1].freq \in Freqs
         /\ View(lists)[lists[1].freq] = lists[1].keys
<1>1. Ascending(lists) /\ NoneEmpty(lists) /\ Mapped(View(lists), kmap, fmap)
  BY DEF CacheInv, Typed
<1>2. DOMAIN kmap # {}
  BY FS_EmptySet, CapacityAssumption
<1>3. PICK k \in DOMAIN kmap : TRUE
  BY <1>2
<1>4. fmap[k] \in Freqs /\ \E p \in 1 .. Len(View(lists)[fmap[k]]) : TRUE
  BY <1>1 DEF Mapped
<1>5. \E i \in 1 .. Len(lists) : TRUE
  BY <1>1, <1>4, NodeOfFreq
<1>6. 1 \in 1 .. Len(lists)
  BY <1>1, <1>5, AscendingTyped
<1>7. lists[1].freq \in Freqs /\ lists[1].keys \in Seq(Nodes) /\ lists[1].keys # <<>>
  BY <1>1, <1>6, AscendingTyped DEF NoneEmpty
<1>8. Len(lists[1].keys) \in Nat \ {0}
  BY <1>7, LenProperties, EmptySeq
<1> QED
  BY <1>1, <1>6, <1>7, <1>8, ViewProperties DEF GetLast, Last

LEMMA EvictedSound ==
  ASSUME CacheInv
  PROVE  /\ Ascending(Evicted.lists)
         /\ NoneEmpty(Evicted.lists)
         /\ Mapped(View(Evicted.lists), Evicted.kmap, Evicted.fmap)
         /\ DOMAIN Evicted.kmap \subseteq DOMAIN kmap
         /\ ~overwritten =>
              /\ Faithful(View(Evicted.lists), Evicted.kmap, Evicted.fmap, used, clock)
              /\ Cardinality(DOMAIN Evicted.kmap) < capacity
<1>1. /\ Typed /\ Ascending(lists) /\ NoneEmpty(lists) /\ used \in Uses
      /\ Mapped(View(lists), kmap, fmap) /\ IsFiniteSet(DOMAIN kmap)
      /\ ~overwritten =>
           Faithful(View(lists), kmap, fmap, used, clock) /\ Cardinality(DOMAIN kmap) <= capacity
  BY DEF CacheInv, Typed, Mapped
<1>2. Cardinality(DOMAIN kmap) \in Nat
  BY <1>1, FS_CardinalityType
<1>3. CASE Cardinality(DOMAIN kmap) # capacity
  <2>1. Evicted = [lists |-> lists, kmap |-> kmap, fmap |-> fmap]
    BY <1>3 DEF Evicted
  <2>2. Evicted.lists = lists /\ Evicted.kmap = kmap /\ Evicted.fmap = fmap
    BY <2>1
  <2>3. ~overwritten => Cardinality(DOMAIN kmap) < capacity
    BY <1>1, <1>2, <1>3, CapacityAssumption
  <2> QED
    BY <1>1, <2>2, <2>3
<1>4. CASE Cardinality(DOMAIN kmap) = capacity
  <2> DEFINE n == GetLast(lists[1])
             g == lists[1].freq
             q == Len(lists[1].keys)
             r == DropIfEmpty([lists EXCEPT ![1] = KeyListDel(@, n)], 1)
             km1 == Without(kmap, n.key)
             fm1 == Without(fmap, n.key)
  <2>1. Evicted = [lists |-> r, kmap |-> km1, fmap |-> fm1]
    BY <1>4 DEF Evicted
  <2>2. 1 \in 1 .. Len(lists) /\ q \in 1 .. q /\ lists[1].keys[q] = n
        /\ g \in Freqs /\ View(lists)[g] = lists[1].keys
    BY <1>4, VictimFound
  <2>3. \A j \in 1 .. Len(lists) : j # 1 => lists[j].keys # <<>>
    BY <1>1 DEF NoneEmpty
  <2>4. Ascending(r) /\ NoneEmpty(r) /\ View(r) = Unlink(View(lists), g, n)
    BY <1>1, <2>2, <2>3, DelView
  <2>5. q \in 1 .. Len(View(lists)[g]) /\ View(lists)[g][q] = n
    BY <2>2
  <2> HIDE DEF n, g, q
  <2>6. Mapped(Unlink(View(lists), g, n), km1, fm1)
    BY <1>1, <2>2, <2>5, UnlinkKeepsMapped
  <2>7. DOMAIN km1 = DOMAIN kmap \ {n.key}
    BY DEF Without
  <2>8. ASSUME ~overwritten
        PROVE  n.key \in DOMAIN kmap /\ Faithful(Unlink(View(lists), g, n), km1, fm1, used, clock)
    BY <1>1, <2>2, <2>5, <2>8, UnlinkKeepsFaithful
  <2>9. ~overwritten => Cardinality(DOMAIN km1) < capacity
    <3>1. n.key \in DOMAIN kmap => Cardinality(DOMAIN kmap \ {n.key}) = capacity - 1
      BY <1>1, <1>4, FS_RemoveElement
    <3> QED
      BY <2>7, <2>8, <3>1, CapacityAssumption
  <2> HIDE DEF km1, fm1, r
  <2>10. Evicted.lists = r /\ Evicted.kmap = km1 /\ Evicted.fmap = fm1
    BY <2>1
  <2> QED
    BY <2>4, <2>6, <2>7, <2>8, <2>9, <2>10
<1> QED
  BY <1>3, <1>4

(* set(), with the eviction before it. *)
LEMMA SetStep ==
  ASSUME CacheInv, NEW t \in Threads, Set(t)
  PROVE  CacheInv'
<1> DEFINE k == missed[t]
           n == [key |-> k, value |-> clock + 1]
           L == Evicted.lists
           km == Evicted.kmap
           fm == Evicted.fmap
           us1 == [used EXCEPT ![k] = [count |-> 1, last |-> clock + 1]]
<1>1. /\ Typed
      /\ k # NULL
      /\ lists' = AddFreq(L, n, 0)
      /\ fmap' = With(fm, k, 1)
      /\ kmap' = With(km, k, n)
      /\ used' = us1
      /\ overwritten' = (overwritten \/ k \in DOMAIN kmap)
      /\ clock' = clock + 1
      /\ missed' = [missed EXCEPT ![t] = NULL]
  BY DEF CacheInv, Set
<1>2. k \in Keys /\ n \in Nodes /\ n.key = k /\ 1 \in Freqs /\ clock \in Nat /\ used \in Uses
  BY <1>1 DEF Typed, Nodes, Freqs
<1>3. /\ Ascending(L) /\ NoneEmpty(L) /\ Mapped(View(L), km, fm)
      /\ DOMAIN km \subseteq DOMAIN kmap
      /\ ~overwritten => Faithful(View(L), km, fm, used, clock) /\ Cardinality(DOMAIN km) < capacity
  BY EvictedSound
<1> HIDE DEF k, n, L, km, fm
<1>4. Ascending(lists') /\ NoneEmpty(lists') /\ View(lists') = Put(View(L), 1, n)
  BY <1>1, <1>2, <1>3, AddFreqOfNew
<1>5. Typed'
  <2>1. used' \in Uses /\ clock' \in Nat
    BY <1>1, <1>2 DEF Uses
  <2>2. missed' \in [Threads -> Keys \cup {NULL}]
    BY <1>1 DEF Typed
  <2>3. overwritten' \in BOOLEAN
    BY <1>1
  <2> QED
    BY <1>4, <2>1, <2>2, <2>3 DEF Typed
<1>6. Mapped(View(lists'), kmap', fmap')
  BY <1>1, <1>2, <1>3, <1>4, PutKeepsMapped
<1>7. ASSUME ~overwritten'
      PROVE  /\ Faithful(View(lists'), kmap', fmap', used', clock')
             /\ Cardinality(DOMAIN kmap') <= capacity
  <2>1. ~overwritten /\ k \notin DOMAIN km
    BY <1>1, <1>3, <1>7
  <2>2. Faithful(View(lists'), kmap', fmap', used', clock')
    BY <1>1, <1>2, <1>3, <1>4, <2>1, PutKeepsFaithful
  <2>3. DOMAIN kmap' = DOMAIN km \cup {k}
    BY <1>1 DEF With
  <2>4. IsFiniteSet(DOMAIN km)
    BY <1>3 DEF Mapped
  <2>5. Cardinality(DOMAIN km) \in Nat /\ Cardinality(DOMAIN km \cup {k}) = Cardinality(DOMAIN km) + 1
    BY <2>1, <2>4, FS_AddElement, FS_CardinalityType
  <2> QED
    BY <1>3, <2>1, <2>2, <2>3, <2>5, CapacityAssumption
<1> QED
  BY <1>5, <1>6, <1>7 DEF CacheInv

----------------------------------------------------------------------------
(* The constructor's empty cache. *)
LEMMA InitSound ==
  ASSUME Init
  PROVE  CacheInv
<1>1. lists = <<>> /\ kmap = <<>> /\ fmap = <<>> /\ clock = 0 /\ overwritten = FALSE
  BY DEF Init
<1>2. /\ lists \in Seq(FreqNodes) /\ Len(lists) = 0 /\ 1 .. Len(lists) = {}
      /\ DOMAIN kmap = {} /\ DOMAIN fmap = {}
  BY <1>1
<1>3. Ascending(lists) /\ NoneEmpty(lists)
  BY <1>2 DEF Ascending, NoneEmpty
<1>4. View(lists) \in [Freqs -> Seq(Nodes)] /\ \A g \in Freqs : View(lists)[g] = <<>>
  BY <1>2, <1>3, ViewProperties
<1>5. \A g \in Freqs : 1 .. Len(View(lists)[g]) = {}
  BY <1>4
<1>6. Typed
  <2>1. used \in Uses /\ missed \in [Threads -> Keys \cup {NULL}]
    BY DEF Init, Uses
  <2> QED
    BY <1>1, <1>3, <2>1 DEF Typed
<1>7. IsFiniteSet(DOMAIN kmap) /\ Cardinality(DOMAIN kmap) = 0
  BY <1>2, FS_EmptySet
<1>8. Mapped(View(lists), kmap, fmap)
  BY <1>2, <1>4, <1>7 DEF Mapped
<1>9. Faithful(View(lists), kmap, fmap, used, clock)
  BY <1>2, <1>5 DEF Faithful
<1> QED
  BY <1>6, <1>7, <1>8, <1>9, CapacityAssumption DEF CacheInv

(* A lookup that finds nothing, a file that is not there, and stuttering:  *)
(* the cache is as it was.                                                 *)
LEMMA OtherStep ==
  ASSUME CacheInv, UNCHANGED <<lists, kmap, fmap, clock, used, overwritten>>,
         missed' \in [Threads -> Keys \cup {NULL}]
  PROVE  CacheInv'
<1>1. Typed'
  BY DEF CacheInv, Typed
<1>2. /\ lists' = lists /\ kmap' = kmap /\ fmap' = fmap /\ clock' = clock /\ used' = used
      /\ overwritten' = overwritten
  OBVIOUS
<1>3. Mapped(View(lists'), kmap', fmap')
  BY <1>2 DEF CacheInv
<1>4. ~overwritten' =>
        /\ Faithful(View(lists'), kmap', fmap', used', clock')
        /\ Cardinality(DOMAIN kmap') <= capacity
  BY <1>2 DEF CacheInv
<1> QED
  BY <1>1, <1>3, <1>4 DEF CacheInv

LEMMA StepSound ==
  ASSUME CacheInv, [Next]_vars
  PROVE  CacheInv'
<1>0. missed \in [Threads -> Keys \cup {NULL}]
  BY DEF CacheInv, Typed
<1>1. ASSUME NEW t \in Threads, NEW k \in Keys, Hit(t, k) PROVE CacheInv'
  BY <1>1, HitStep
<1>2. ASSUME NEW t \in Threads, NEW k \in Keys, Miss(t, k) PROVE CacheInv'
  BY <1>0, <1>2, OtherStep DEF Miss
<1>3. ASSUME NEW t \in Threads, Set(t) PROVE CacheInv'
  BY <1>3, SetStep
<1>4. ASSUME NEW t \in Threads, NoFile(t) PROVE CacheInv'
  BY <1>0, <1>4, OtherStep DEF NoFile
<1>5. CASE UNCHANGED vars
  BY <1>0, <1>5, OtherStep DEF vars
<1> QED
  BY <1>1, <1>2, <1>3, <1>4, <1>5 DEF Next, StaticRequest

(* The inductive invariant: the maps lead to nodes that are there, and, as *)
(* long as no key was set twice, the lists are a faithful record of how    *)
(* often and when each key was used.                                       *)
THEOREM CacheInvariant == Spec => []CacheInv
<1>1. Init => CacheInv
  BY InitSound
<1>2. CacheInv /\ [Next]_vars => CacheInv'
  BY StepSound
<1> QED
  BY <1>1, <1>2, PTL DEF Spec

LEMMA InvGivesIntegrity ==
  ASSUME CacheInv
  PROVE  CacheIntegrity
<1>1. /\ Ascending(lists) /\ NoneEmpty(lists) /\ Mapped(View(lists), kmap, fmap)
      /\ missed \in [Threads -> Keys \cup {NULL}]
      /\ lists \in Seq([freq : Nat \ {0}, keys : Seq(Nodes)])
  BY DEF CacheInv, Typed, Ascending, FreqNodes, Freqs
<1>2. /\ Len(lists) \in Nat
      /\ \A i \in 1 .. Len(lists) : lists[i].freq \in Freqs /\ lists[i].keys \in Seq(Nodes)
  BY <1>1, AscendingTyped
<1>3. \A i \in 1 .. Len(lists) : DOMAIN lists[i].keys = 1 .. Len(lists[i].keys)
  BY <1>2, LenProperties
<1>4. ASSUME NEW i \in 1 .. Len(lists)
      PROVE  lists[i].keys # <<>> /\ (i > 1 => lists[i - 1].freq < lists[i].freq)
  <2>1. i > 1 => i - 1 \in 1 .. Len(lists) /\ i - 1 < i
    BY <1>2
  <2>2. i > 1 => lists[i - 1].freq < lists[i].freq
    BY <1>1, <2>1 DEF Ascending
  <2> QED
    BY <1>1, <2>2 DEF NoneEmpty
<1>5. ASSUME NEW k \in DOMAIN kmap
      PROVE  /\ kmap[k].key = k
             /\ \E i \in 1 .. Len(lists) :
                  lists[i].freq = fmap[k] /\ kmap[k] \in ToSet(lists[i].keys)
  <2>1. kmap[k].key = k /\ fmap[k] \in Freqs
    BY <1>1 DEF Mapped
  <2>2. PICK p \in 1 .. Len(View(lists)[fmap[k]]) : View(lists)[fmap[k]][p] = kmap[k]
    BY <1>1 DEF Mapped
  <2>3. PICK i \in 1 .. Len(lists) : lists[i].freq = fmap[k] /\ lists[i].keys = View(lists)[fmap[k]]
    BY <1>1, <2>1, <2>2, NodeOfFreq
  <2>4. kmap[k] \in ToSet(lists[i].keys)
    BY <1>3, <2>2, <2>3 DEF ToSet
  <2> QED
    BY <2>1, <2>3, <2>4
<1>6. ASSUME ~overwritten, NEW i \in 1 .. Len(lists), NEW n \in ToSet(lists[i].keys)
      PROVE  n.key \in DOMAIN kmap /\ kmap[n.key] = n
  <2>1. PICK p \in 1 .. Len(lists[i].keys) : lists[i].keys[p] = n
    BY <1>3 DEF ToSet
  <2>2. View(lists)[lists[i].freq] = lists[i].keys /\ lists[i].freq \in Freqs
    BY <1>1, <1>2, ViewProperties
  <2>3. Faithful(View(lists), kmap, fmap, used, clock)
    BY <1>6 DEF CacheInv
  <2> QED
    BY <2>1, <2>2, <2>3 DEF Faithful
<1>7. ~overwritten => Cardinality(DOMAIN kmap) <= capacity
  BY DEF CacheInv
<1>8. DOMAIN kmap = DOMAIN fmap
  BY <1>1 DEF Mapped
<1> QED
  BY <1>1, <1>4, <1>5, <1>6, <1>7, <1>8 DEF CacheIntegrity

(* The structure behind get() and set() is whole in every state: ascending *)
(* frequencies with keys, maps that lead to nodes still there and, as long *)
(* as no key was set twice, no other nodes and at most capacity of them.   *)
THEOREM IntegrityHolds == Spec => []CacheIntegrity
<1>1. CacheInv => CacheIntegrity
  BY InvGivesIntegrity
<1> QED
  BY <1>1, CacheInvariant, PTL

(* A key that a step removes is the last of the first list; every other    *)
(* key is before it there or in a later list.                              *)
LEMMA VictimLeastUsed ==
  ASSUME CacheInv, ~overwritten, Cardinality(DOMAIN kmap) = capacity,
         NEW k, k = GetLast(lists[1]).key,
         NEW j \in DOMAIN kmap \ {k}
  PROVE  \/ used[k].count < used[j].count
         \/ used[k].count = used[j].count /\ used[k].last < used[j].last
<1> DEFINE K == View(lists)
           g == lists[1].freq
           q == Len(lists[1].keys)
           n == GetLast(lists[1])
<1>1. /\ Ascending(lists) /\ Mapped(K, kmap, fmap)
      /\ Faithful(K, kmap, fmap, used, clock)
  BY DEF CacheInv, Typed
<1>2. 1 \in 1 .. Len(lists) /\ g \in Freqs /\ K[g] = lists[1].keys
      /\ q \in 1 .. Len(K[g]) /\ K[g][q] = n /\ Len(K[g]) = q
  BY VictimFound
<1>3. k = n.key /\ k \in DOMAIN kmap /\ fmap[k] = g /\ used[k].count = g
  <2>1. n.key \in DOMAIN kmap /\ fmap[n.key] = g
    BY <1>1, <1>2 DEF Faithful
  <2>2. used[n.key].count = fmap[n.key]
    BY <1>1, <2>1 DEF Faithful
  <2> QED
    BY <2>1, <2>2
<1>4. j \in DOMAIN kmap /\ kmap[j].key = j /\ fmap[j] \in Freqs /\ used[j].count = fmap[j]
  BY <1>1 DEF Mapped, Faithful
<1>5. PICK p \in 1 .. Len(K[fmap[j]]) : K[fmap[j]][p] = kmap[j]
  BY <1>1 DEF Mapped
<1>6. PICK i \in 1 .. Len(lists) : lists[i].freq = fmap[j]
  BY <1>1, <1>4, <1>5, NodeOfFreq
<1> HIDE DEF K, g, q, n
<1>7. CASE fmap[j] = g
  <2>1. p # q
    BY <1>2, <1>3, <1>4, <1>5, <1>7
  <2>2. p < q
    BY <1>2, <1>5, <1>7, <2>1
  <2>3. used[K[g][q].key].last < used[K[g][p].key].last
    BY <1>1, <1>2, <1>5, <1>7, <2>2 DEF Faithful
  <2> QED
    BY <1>2, <1>3, <1>4, <1>5, <1>7, <2>3
<1>8. CASE fmap[j] # g
  <2>1. i # 1
    BY <1>6, <1>8 DEF g
  <2>2. 1 < i
    BY <1>1, <2>1, AscendingTyped
  <2>3. g < fmap[j]
    BY <1>1, <1>2, <1>6, <2>2 DEF Ascending, g
  <2> QED
    BY <1>3, <1>4, <2>3
<1> QED
  BY <1>7, <1>8

(* The key that leaves, evicted by set(), was used least often and, of     *)
(* those, not for the longest time, if no key was ever set twice.          *)
THEOREM EvictionIsFair == Spec => EvictsLeastUsed
<1> DEFINE A == \A k \in DOMAIN kmap \ DOMAIN kmap' : overwritten \/
                  \A j \in DOMAIN kmap \ {k} :
                    \/ used[k].count < used[j].count
                    \/ used[k].count = used[j].count /\ used[k].last < used[j].last
<1>1. CacheInv /\ [Next]_vars => [A]_vars
  <2> SUFFICES ASSUME CacheInv, Next, NEW k \in DOMAIN kmap \ DOMAIN kmap', ~overwritten,
                      NEW j \in DOMAIN kmap \ {k}
               PROVE  \/ used[k].count < used[j].count
                      \/ used[k].count = used[j].count /\ used[k].last < used[j].last
    OBVIOUS
  <2>1. PICK t \in Threads : Set(t)
    <3>1. kmap' # kmap
      OBVIOUS
    <3> QED
      BY <3>1 DEF Next, StaticRequest, Hit, Miss, NoFile
  <2>2. DOMAIN Evicted.kmap \subseteq DOMAIN kmap'
    BY <2>1 DEF Set, With
  <2>3. CASE Cardinality(DOMAIN kmap) # capacity
    <3>1. Evicted.kmap = kmap
      BY <2>3 DEF Evicted
    <3> QED
      BY <2>2, <3>1
  <2>4. CASE Cardinality(DOMAIN kmap) = capacity
    <3>1. Evicted.kmap = Without(kmap, GetLast(lists[1]).key)
      BY <2>4 DEF Evicted
    <3>2. k = GetLast(lists[1]).key
      BY <2>2, <3>1 DEF Without
    <3> QED
      BY <2>4, <3>2, VictimLeastUsed
  <2> QED
    BY <2>3, <2>4
<1>2. Spec => [][A]_vars
  BY <1>1, CacheInvariant, PTL DEF Spec
<1> QED
  BY <1>2 DEF EvictsLeastUsed
=============================================================================
