--------------------------- MODULE LogManagerProofs ---------------------------
(***************************************************************************)
(* What LogManager promises whoever leads, proved for every number of      *)
(* indexes, terms, restarts and waiting replicators: the disk queue brings *)
(* the accepted log to disk, what is reported stable stays there, and no   *)
(* wakeup is lost.                                                         *)
(***************************************************************************)
EXTENDS LogManagerLemmas

-----------------------------------------------------------------------------
(* What the pending closures leave on disk.                                *)

(* A closure queued decides alone what the indexes hold that it touches.   *)
LEMMA YieldsQueued ==
  ASSUME NEW p \in Seq(Closures), NEW c \in Closures, NEW i, NEW s, NEW t, NEW u,
         IF Touches(c, i) THEN Leaves(c, i, u) ELSE u = t /\ Yields(p, i, s, t)
  PROVE  Yields(Append(p, c), i, s, u)
<1> DEFINE r == Append(p, c)
<1>1. /\ DOMAIN r = 1 .. Len(p) + 1 /\ DOMAIN p = 1 .. Len(p) /\ Len(p) \in Nat
      /\ r[Len(p) + 1] = c /\ \A k \in DOMAIN p : r[k] = p[k]
  OBVIOUS
<1> HIDE DEF r
<1>2. CASE Touches(c, i)
  BY SMTT(30), <1>1, <1>2 DEF Yields, r
<1>3. CASE ~Touches(c, i)
  BY <1>1, <1>3 DEF Yields, r
<1> QED
  BY Zenon, <1>2, <1>3

(* The first closure, when it writes nothing, is carried out.              *)
LEMMA YieldsCarried ==
  ASSUME NEW p \in Seq(Closures), p # <<>>, NEW i, NEW s, NEW t,
         \A j \in Index : ~Writes(Head(p), j), i \in Index,
         Yields(p, i, s, t)
  PROVE  Yields(Tail(p), i, IF Cuts(Head(p), i) THEN 0 ELSE s, t)
<1> DEFINE r == Tail(p)
           c == Head(p)
<1>1. /\ DOMAIN r = 1 .. Len(p) - 1 /\ DOMAIN p = 1 .. Len(p) /\ Len(p) \in Nat \ {0}
      /\ c = p[1] /\ \A k \in DOMAIN r : r[k] = p[k + 1]
  OBVIOUS
<1>2. ~Writes(c, i) /\ (Cuts(c, i) => c.kind = "truncate")
  BY Zenon DEF Cuts
<1> HIDE DEF r, c
<1>3. CASE s = t /\ \A k \in DOMAIN p : ~Touches(p[k], i)
  BY <1>1, <1>3 DEF Yields, r, c, Touches
<1>4. ASSUME NEW k \in DOMAIN p, Touches(p[k], i), Leaves(p[k], i, t),
             \A m \in DOMAIN p : m > k => ~Touches(p[m], i)
      PROVE  Yields(r, i, IF Cuts(c, i) THEN 0 ELSE s, t)
  <2>1. CASE k = 1
    <3>1. Cuts(c, i) /\ t = 0
      BY Zenon, <1>1, <1>2, <1>4, <2>1 DEF Touches, Leaves
    <3>2. \A m \in DOMAIN r : ~Touches(r[m], i)
      BY <1>1, <1>4, <2>1
    <3> QED
      BY Zenon, <3>1, <3>2 DEF Yields
  <2>2. CASE k > 1
    <3>1. k - 1 \in DOMAIN r /\ r[k - 1] = p[k]
      BY <1>1, <2>2
    <3>2. \A m \in DOMAIN r : m > k - 1 => ~Touches(r[m], i)
      BY <1>1, <1>4, <2>2
    <3> QED
      BY Zenon, <1>4, <3>1, <3>2 DEF Yields
  <2> QED
    BY <1>1, <2>1, <2>2
<1> QED
  BY Zenon, <1>3, <1>4 DEF Yields, r, c

(* A closure taken into the batch brings its entries.                      *)
LEMMA LastWritesTaken ==
  ASSUME NEW b \in Seq(Appends), NEW ta \in Seq(EntryId), NEW c \in Appends, NEW i,
         WellFormed(c), LastWrites(b, ta, i)
  PROVE  LastWrites(Append(b, c), ta \o c.ids, i)
<1> DEFINE r == Append(b, c)
           v == ta \o c.ids
<1>1. /\ DOMAIN r = 1 .. Len(b) + 1 /\ DOMAIN b = 1 .. Len(b) /\ Len(b) \in Nat
      /\ r[Len(b) + 1] = c /\ \A k \in DOMAIN b : r[k] = b[k]
  OBVIOUS
<1>2. /\ c.ids \in Seq(EntryId) /\ c.kind = "append"
  BY Zenon DEF Appends
<1>3. /\ DOMAIN ta = 1 .. Len(ta) /\ DOMAIN c.ids = 1 .. Len(c.ids) /\ Len(ta) \in Nat
      /\ Len(c.ids) \in Nat /\ DOMAIN v = 1 .. Len(ta) + Len(c.ids)
      /\ \A k \in DOMAIN ta : v[k] = ta[k]
      /\ \A k \in DOMAIN c.ids : v[Len(ta) + k] = c.ids[k]
      /\ \A k \in DOMAIN v : k > Len(ta) => k - Len(ta) \in DOMAIN c.ids /\ v[k] = c.ids[k - Len(ta)]
  BY <1>2
<1> HIDE DEF r, v
<1>4. CASE \E j \in DOMAIN c.ids : c.ids[j][2] = i
  <2>1. PICK j \in DOMAIN c.ids : c.ids[j][2] = i
    BY Zenon, <1>4
  <2>2. Len(ta) + j \in DOMAIN v /\ v[Len(ta) + j] = c.ids[j]
    BY <1>3
  <2>3. ASSUME NEW m \in DOMAIN v, m > Len(ta) + j PROVE v[m][2] # i
    <3>1. m - Len(ta) \in DOMAIN c.ids /\ v[m] = c.ids[m - Len(ta)] /\ m - Len(ta) # j
      BY <1>3, <2>3
    <3> QED
      BY Zenon, <1>2, <2>1, <3>1 DEF WellFormed
  <2>4. /\ Len(b) + 1 \in DOMAIN r /\ r[Len(b) + 1].ids[j] = v[Len(ta) + j]
        /\ j \in DOMAIN r[Len(b) + 1].ids
        /\ \A m \in DOMAIN r : ~(m > Len(b) + 1)
    BY <1>1, <2>2
  <2>5. LastWrites(r, v, i)
    BY Zenon, <2>1, <2>2, <2>3, <2>4 DEF LastWrites
  <2> QED
    BY Zenon, <2>5 DEF r, v
<1>5. CASE \A j \in DOMAIN c.ids : c.ids[j][2] # i
  <2>1. ~Writes(c, i) /\ \A m \in DOMAIN v : m > Len(ta) => v[m][2] # i
    BY SMTT(30), <1>3, <1>5 DEF Writes
  <2>2. CASE /\ \A k \in DOMAIN b : ~Writes(b[k], i)
             /\ \A k \in DOMAIN ta : ta[k][2] # i
    <3>1. \A k \in DOMAIN r : ~Writes(r[k], i)
      BY <1>1, <2>1, <2>2
    <3>2. \A k \in DOMAIN v : v[k][2] # i
      BY <1>3, <2>1, <2>2
    <3> QED
      BY Zenon, <3>1, <3>2 DEF LastWrites, r, v
  <2>3. ASSUME NEW k \in DOMAIN b, NEW n \in DOMAIN ta, ta[n][2] = i,
               \E j \in DOMAIN b[k].ids : b[k].ids[j] = ta[n],
               \A m \in DOMAIN b : m > k => ~Writes(b[m], i),
               \A m \in DOMAIN ta : m > n => ta[m][2] # i
        PROVE  LastWrites(r, v, i)
    <3>1. k \in DOMAIN r /\ r[k] = b[k] /\ n \in DOMAIN v /\ v[n] = ta[n]
      BY SMTT(30), <1>1, <1>3
    <3>2. \A m \in DOMAIN r : m > k => ~Writes(r[m], i)
      BY <1>1, <2>1, <2>3
    <3>3. \A m \in DOMAIN v : m > n => v[m][2] # i
      BY <1>3, <2>1, <2>3
    <3>4. \E j \in DOMAIN r[k].ids : r[k].ids[j] = v[n]
      BY Zenon, <2>3, <3>1
    <3> QED
      BY Zenon, <2>3, <3>1, <3>2, <3>3, <3>4 DEF LastWrites
  <2> QED
    BY Zenon, <2>2, <2>3 DEF LastWrites, r, v
<1> QED
  BY Zenon, <1>4, <1>5

(* A complete flush leaves the term that the last closure writing index i  *)
(* gives it.                                                               *)
LEMMA FlushedLast ==
  ASSUME NEW b \in Seq(Appends), NEW ta \in Seq(EntryId), NEW i, NEW s,
         LastWrites(b, ta, i)
  PROVE  \/ (\A k \in DOMAIN b : ~Writes(b[k], i)) /\ FlushedTerm(ta, i, s) = s
         \/ \E k \in DOMAIN b :
              /\ \E j \in DOMAIN b[k].ids : b[k].ids[j] = <<FlushedTerm(ta, i, s), i>>
              /\ \A m \in DOMAIN b : m > k => ~Writes(b[m], i)
<1> DEFINE hits == {k \in DOMAIN ta : ta[k][2] = i}
<1>1. CASE /\ \A k \in DOMAIN b : ~Writes(b[k], i)
           /\ \A k \in DOMAIN ta : ta[k][2] # i
  <2>1. hits = {}
    BY Zenon, <1>1
  <2> QED
    BY Zenon, <1>1, <2>1 DEF FlushedTerm
<1>2. ASSUME NEW k \in DOMAIN b, NEW n \in DOMAIN ta, ta[n][2] = i,
             \E j \in DOMAIN b[k].ids : b[k].ids[j] = ta[n],
             \A m \in DOMAIN b : m > k => ~Writes(b[m], i),
             \A m \in DOMAIN ta : m > n => ta[m][2] # i
      PROVE  \E j \in DOMAIN b[k].ids : b[k].ids[j] = <<FlushedTerm(ta, i, s), i>>
  <2>1. hits \in SUBSET (0 .. Len(ta)) /\ hits # {} /\ n \in hits /\ Len(ta) \in Nat
    BY <1>2
  <2>2. Max(hits) \in hits /\ n <= Max(hits)
    BY <2>1, MaxIsMax, Zenon
  <2>3. Max(hits) = n
    BY SMTT(30), <1>2, <2>1, <2>2
  <2>4. FlushedTerm(ta, i, s) = ta[n][1]
    BY Zenon, <2>1, <2>3 DEF FlushedTerm
  <2>5. ta[n] = <<ta[n][1], ta[n][2]>>
    BY DEF EntryId
  <2> QED
    BY Zenon, <1>2, <2>4, <2>5
<1> QED
  BY Zenon, <1>1, <1>2 DEF LastWrites

(* A complete flush carries out the batch.                                 *)
LEMMA YieldsFlushed ==
  ASSUME NEW b \in Seq(Appends), NEW q \in Seq(Closures), NEW ta \in Seq(EntryId),
         NEW i, NEW s, NEW t, LastWrites(b, ta, i),
         \A k \in DOMAIN b : WellFormed(b[k]), Yields(b \o q, i, s, t)
  PROVE  Yields(q, i, FlushedTerm(ta, i, s), t)
<1> DEFINE p == b \o q
           f == FlushedTerm(ta, i, s)
<1>1. /\ DOMAIN b = 1 .. Len(b) /\ Len(b) \in Nat /\ DOMAIN q = 1 .. Len(q) /\ Len(q) \in Nat
      /\ DOMAIN p = 1 .. Len(b) + Len(q)
      /\ \A k \in DOMAIN b : p[k] = b[k] /\ k \in DOMAIN p
      /\ \A k \in DOMAIN q : p[Len(b) + k] = q[k] /\ Len(b) + k \in DOMAIN p
  BY SMTT(30)
<1>2. \A k \in DOMAIN b : b[k].kind = "append" /\ (Touches(b[k], i) <=> Writes(b[k], i))
  <2> TAKE k \in DOMAIN b
  <2>1. b[k] \in Appends
    OBVIOUS
  <2> QED
    BY Zenon, <2>1 DEF Appends, Touches, Cuts
<1>3. /\ Yields(p, i, s, t)
      /\ \/ (\A k \in DOMAIN b : ~Writes(b[k], i)) /\ f = s
         \/ \E k \in DOMAIN b :
              /\ \E j \in DOMAIN b[k].ids : b[k].ids[j] = <<f, i>>
              /\ \A m \in DOMAIN b : m > k => ~Writes(b[m], i)
  BY Zenon, FlushedLast
<1> HIDE DEF p, f
<1>4. CASE s = t /\ \A k \in DOMAIN p : ~Touches(p[k], i)
  <2>1. \A k \in DOMAIN b : ~Writes(b[k], i)
    BY Zenon, <1>1, <1>2, <1>4
  <2>2. f = s
    BY SMTT(30), <1>2, <1>3, <2>1 DEF Writes
  <2>3. \A k \in DOMAIN q : ~Touches(q[k], i)
    BY Zenon, <1>1, <1>4
  <2> QED
    BY Zenon, <1>4, <2>2, <2>3 DEF Yields, f
<1>5. ASSUME NEW k \in DOMAIN p, Touches(p[k], i), Leaves(p[k], i, t),
             \A m \in DOMAIN p : m > k => ~Touches(p[m], i)
      PROVE  Yields(q, i, f, t)
  <2>1. CASE k > Len(b)
    <3>1. k - Len(b) \in DOMAIN q /\ q[k - Len(b)] = p[k]
      BY <1>1, <2>1
    <3>2. \A m \in DOMAIN q : m > k - Len(b) => ~Touches(q[m], i)
      BY SMTT(30), <1>1, <1>5, <2>1
    <3> QED
      BY Zenon, <1>5, <3>1, <3>2 DEF Yields
  <2>2. CASE k <= Len(b)
    <3>1. k \in DOMAIN b /\ p[k] = b[k] /\ Writes(b[k], i)
      BY SMTT(30), <1>1, <1>2, <1>5, <2>2
    <3>2. \A m \in DOMAIN b : m > k => ~Writes(b[m], i)
      BY Zenon, <1>1, <1>2, <1>5
    <3>3. PICK n \in DOMAIN b : /\ \E j \in DOMAIN b[n].ids : b[n].ids[j] = <<f, i>>
                                /\ \A m \in DOMAIN b : m > n => ~Writes(b[m], i)
      BY Zenon, <1>3, <3>1
    <3>4. Writes(b[n], i)
      BY SMTT(30), <1>2, <3>3 DEF Writes
    <3>5. n = k
      BY SMTT(30), <1>1, <3>1, <3>2, <3>3, <3>4
    <3>6. \E j \in DOMAIN b[k].ids : b[k].ids[j] = <<t, i>>
      BY Zenon, <1>2, <1>5, <3>1 DEF Leaves
    <3>7. f = t
      BY SMTT(30), <1>2, <3>1, <3>3, <3>5, <3>6 DEF WellFormed
    <3>8. \A m \in DOMAIN q : ~Touches(q[m], i)
      BY SMTT(30), <1>1, <1>5, <2>2
    <3> QED
      BY Zenon, <3>7, <3>8 DEF Yields
  <2> QED
    BY SMTT(30), <1>1, <2>1, <2>2
<1> QED
  BY Zenon, <1>3, <1>4, <1>5 DEF Yields, f

-----------------------------------------------------------------------------
(* The order of the closures, when entries arrive in order.                *)

(* One position further on, what is cut between two positions is the same. *)
LEMMA CutBetweenQueued ==
  ASSUME NEW p \in Seq(Closures), NEW c, NEW k \in Nat, NEW m \in Nat, NEW i,
         m <= Len(p) + 1, CutBetween(p, k, m, i)
  PROVE  CutBetween(Append(p, c), k, m, i)
<1>1. PICK n \in k + 1 .. m - 1 : Cuts(p[n], i)
  BY Zenon DEF CutBetween
<1>2. n \in 1 .. Len(p) /\ Append(p, c)[n] = p[n]
  OBVIOUS
<1> QED
  BY Zenon, <1>1, <1>2 DEF CutBetween

(* Entries are queued beyond the last index, which moves past them; or a   *)
(* closure without entries is queued.                                      *)
LEMMA InOrderQueued ==
  ASSUME NEW p \in Seq(Closures), NEW c \in Closures, NEW ak, NEW l \in Nat, NEW l2 \in Nat,
         InOrder(p, ak, l), l <= l2, Index \in SUBSET Nat,
         \A i \in Index : Writes(c, i) => i > l /\ i <= l2
  PROVE  InOrder(Append(p, c), ak, l2)
<1> DEFINE r == Append(p, c)
<1>1. /\ Len(r) = Len(p) + 1 /\ Len(p) \in Nat
      /\ r[Len(p) + 1] = c /\ \A k \in 1 .. Len(p) : r[k] = p[k]
  OBVIOUS
<1>2. ASSUME NEW k \in Nat, NEW m \in Nat, NEW i, m <= Len(p) + 1, CutBetween(p, k, m, i)
      PROVE  CutBetween(r, k, m, i)
  BY Zenon, <1>2, CutBetweenQueued
<1> HIDE DEF r
<1>3. ASSUME NEW k \in 0 .. Len(r), NEW i \in Index, WrittenAt(r, ak, k, i)
      PROVE  /\ i > l2 => CutBetween(r, k, Len(r) + 1, i)
             /\ \A m \in k + 1 .. Len(r) : Writes(r[m], i) => CutBetween(r, k, m, i)
  <2>1. CASE k = Len(r)
    <3>1. Writes(c, i)
      BY <1>1, <1>3, <2>1 DEF WrittenAt
    <3>2. ~(i > l2)
      BY <1>3, <3>1
    <3>3. k + 1 .. Len(r) = {}
      BY <1>1, <2>1
    <3> QED
      BY Zenon, <3>2, <3>3
  <2>2. CASE k # Len(r)
    <3>1. k \in 0 .. Len(p) /\ k \in Nat /\ WrittenAt(p, ak, k, i)
      BY <1>1, <1>3, <2>2 DEF WrittenAt
    <3>2. /\ i > l => CutBetween(p, k, Len(p) + 1, i)
          /\ \A m \in k + 1 .. Len(p) : Writes(p[m], i) => CutBetween(p, k, m, i)
      BY Zenon, <3>1 DEF InOrder
    <3>3. i > l => CutBetween(r, k, Len(p) + 1, i)
      BY <1>1, <1>2, <3>1, <3>2
    <3>4. i > l => CutBetween(r, k, Len(r) + 1, i)
      BY <1>1, <3>1, <3>3 DEF CutBetween
    <3>5. ASSUME NEW m \in k + 1 .. Len(r), Writes(r[m], i) PROVE CutBetween(r, k, m, i)
      <4>1. CASE m = Len(r)
        BY Zenon, <1>1, <3>3, <3>5, <4>1
      <4>2. CASE m # Len(r)
        <5>1. m \in k + 1 .. Len(p) /\ m \in Nat /\ m <= Len(p) + 1 /\ Writes(p[m], i)
          BY <1>1, <3>1, <3>5, <4>2
        <5> QED
          BY Zenon, <1>2, <3>1, <3>2, <5>1
      <4> QED
        BY Zenon, <4>1, <4>2
    <3>6. i > l2 => i > l
      BY <1>3
    <3> QED
      BY Zenon, <3>4, <3>5, <3>6
  <2> QED
    BY Zenon, <2>1, <2>2
<1>4. InOrder(r, ak, l2)
  BY Zenon, <1>3 DEF InOrder
<1> QED
  BY Zenon, <1>4 DEF r

(* A truncation is queued: what lies beyond it is cut off.                 *)
LEMMA InOrderCut ==
  ASSUME NEW p \in Seq(Closures), NEW c \in Closures, NEW ak, NEW l \in Nat,
         InOrder(p, ak, l), Index \in SUBSET Nat, c.kind = "truncate"
  PROVE  InOrder(Append(p, c), ak, c.id[2])
<1> DEFINE r == Append(p, c)
<1>0. c.id[2] \in Nat
  BY Zenon DEF Closures, Appends
<1>1. /\ Len(r) = Len(p) + 1 /\ Len(p) \in Nat
      /\ r[Len(p) + 1] = c /\ \A k \in 1 .. Len(p) : r[k] = p[k]
  OBVIOUS
<1>2. ASSUME NEW k \in Nat, NEW m \in Nat, NEW i, m <= Len(p) + 1, CutBetween(p, k, m, i)
      PROVE  CutBetween(r, k, m, i)
  BY Zenon, <1>2, CutBetweenQueued
<1> HIDE DEF r
<1>3. ASSUME NEW k \in 0 .. Len(r), NEW i \in Index, WrittenAt(r, ak, k, i)
      PROVE  /\ i > c.id[2] => CutBetween(r, k, Len(r) + 1, i)
             /\ \A m \in k + 1 .. Len(r) : Writes(r[m], i) => CutBetween(r, k, m, i)
  <2>1. k # Len(r)
    BY <1>1, <1>3 DEF WrittenAt, Writes
  <2>2. k \in 0 .. Len(p) /\ k \in Nat /\ WrittenAt(p, ak, k, i)
    BY <1>1, <1>3, <2>1 DEF WrittenAt
  <2>3. i > c.id[2] => CutBetween(r, k, Len(r) + 1, i)
    <3>1. i > c.id[2] => Cuts(r[Len(r)], i)
      BY Zenon, <1>0, <1>1 DEF Cuts
    <3>2. Len(r) \in k + 1 .. Len(r) + 1 - 1
      BY <1>1, <2>2
    <3> QED
      BY <3>1, <3>2 DEF CutBetween
  <2>4. ASSUME NEW m \in k + 1 .. Len(r), Writes(r[m], i) PROVE CutBetween(r, k, m, i)
    <3>1. m # Len(r)
      BY Zenon, <1>1, <2>4 DEF Writes
    <3>2. m \in k + 1 .. Len(p) /\ m \in Nat /\ m <= Len(p) + 1 /\ Writes(p[m], i)
      BY <1>1, <2>2, <2>4, <3>1
    <3>3. CutBetween(p, k, m, i)
      BY Zenon, <2>2, <3>2 DEF InOrder
    <3> QED
      BY Zenon, <1>2, <2>2, <3>2, <3>3
  <2> QED
    BY Zenon, <2>3, <2>4
<1>4. InOrder(r, ak, c.id[2])
  BY Zenon, <1>3 DEF InOrder
<1> QED
  BY Zenon, <1>4 DEF r

(* The first closures b, none of which cuts what is in ak2, are done: ak2  *)
(* has only what was written before or by them.                            *)
LEMMA InOrderDone ==
  ASSUME NEW b \in Seq(Closures), NEW q \in Seq(Closures), NEW ak, NEW ak2, NEW l \in Nat,
         InOrder(b \o q, ak, l), Index \in SUBSET Nat,
         \A a \in ak2 : ~a.dup =>
            /\ a.id[2] \in Index
            /\ \A k \in DOMAIN b : ~Cuts(b[k], a.id[2])
            /\ a \in ak \/ \E k \in DOMAIN b : Writes(b[k], a.id[2])
  PROVE  InOrder(q, ak2, l)
<1> DEFINE p == b \o q
           n == Len(b)
<1>1. /\ n \in Nat /\ Len(q) \in Nat /\ Len(p) = n + Len(q) /\ DOMAIN b = 1 .. n
      /\ \A k \in 1 .. n : p[k] = b[k]
      /\ \A k \in 1 .. Len(q) : p[n + k] = q[k]
  OBVIOUS
<1> HIDE DEF p, n
<1>2. ASSUME NEW k \in 0 .. Len(q), NEW i \in Index, WrittenAt(q, ak2, k, i)
      PROVE  \E h \in 0 .. n + k : /\ WrittenAt(p, ak, h, i)
                                   /\ h <= n => \A g \in h + 1 .. n : ~Cuts(p[g], i)
                                   /\ (h > n => h = n + k) /\ (k # 0 => h > n)
  <2>1. CASE k = 0
    <3>1. PICK a \in ak2 : ~a.dup /\ a.id[2] = i
      BY Zenon, <1>2, <2>1 DEF WrittenAt
    <3>2. \A g \in 1 .. n : ~Cuts(p[g], i)
      BY Zenon, <1>1, <3>1
    <3>3. CASE a \in ak
      <4>1. WrittenAt(p, ak, 0, i)
        BY Zenon, <3>1, <3>3 DEF WrittenAt
      <4> QED
        BY SMTT(30), <1>1, <2>1, <3>2, <4>1
    <3>4. CASE \E h \in DOMAIN b : Writes(b[h], i)
      <4>1. PICK h \in 1 .. n : Writes(p[h], i)
        BY Zenon, <1>1, <3>4
      <4>2. WrittenAt(p, ak, h, i)
        BY <1>1, <4>1 DEF WrittenAt
      <4> QED
        BY <1>1, <2>1, <3>2, <4>2
    <3> QED
      BY Zenon, <3>1, <3>3, <3>4
  <2>2. CASE k # 0
    <3>1. k \in 1 .. Len(q) /\ n + k # 0 /\ n + k \in 0 .. n + k
      BY <1>1, <2>2
    <3>2. WrittenAt(p, ak, n + k, i)
      BY Zenon, <1>1, <1>2, <2>2, <3>1 DEF WrittenAt
    <3> QED
      BY SMTT(30), <1>1, <3>1, <3>2
  <2> QED
    BY Zenon, <2>1, <2>2
<1>3. ASSUME NEW k \in 0 .. Len(q), NEW m \in Nat, m <= Len(q) + 1, NEW i,
             NEW h \in 0 .. n + k, CutBetween(p, h, n + m, i),
             h <= n => \A g \in h + 1 .. n : ~Cuts(p[g], i),
             h > n => h = n + k, k # 0 => h > n
      PROVE  CutBetween(q, k, m, i)
  <2>1. PICK g \in h + 1 .. (n + m) - 1 : Cuts(p[g], i)
    BY <1>3, Zenon DEF CutBetween
  <2>2. g > n
    BY SMTT(30), <1>1, <1>3, <2>1
  <2>3. g - n \in k + 1 .. m - 1 /\ g - n \in 1 .. Len(q)
    <3>1. CASE k = 0
      BY SMTT(30), <1>1, <1>3, <2>1, <2>2, <3>1
    <3>2. CASE k # 0
      BY SMTT(30), <1>1, <1>3, <2>1, <2>2, <3>2
    <3> QED
      BY Zenon, <3>1, <3>2
  <2>4. p[g] = q[g - n]
    <3>1. n + (g - n) = g
      BY <1>1
    <3>2. p[n + (g - n)] = q[g - n]
      BY Zenon, <1>1, <2>3
    <3> QED
      BY Zenon, <3>1, <3>2
  <2> QED
    BY Zenon, <2>1, <2>3, <2>4 DEF CutBetween
<1>4. ASSUME NEW k \in 0 .. Len(q), NEW i \in Index, WrittenAt(q, ak2, k, i)
      PROVE  /\ i > l => CutBetween(q, k, Len(q) + 1, i)
             /\ \A m \in k + 1 .. Len(q) : Writes(q[m], i) => CutBetween(q, k, m, i)
  <2>1. PICK h \in 0 .. n + k : /\ WrittenAt(p, ak, h, i)
                                /\ h <= n => \A g \in h + 1 .. n : ~Cuts(p[g], i)
                                /\ (h > n => h = n + k) /\ (k # 0 => h > n)
    BY Zenon, <1>2, <1>4
  <2>2. h \in 0 .. Len(p)
    BY <1>1
  <2>3. /\ i > l => CutBetween(p, h, Len(p) + 1, i)
        /\ \A m \in h + 1 .. Len(p) : Writes(p[m], i) => CutBetween(p, h, m, i)
    BY Zenon, <2>1, <2>2 DEF InOrder, p
  <2>4. ASSUME i > l PROVE CutBetween(q, k, Len(q) + 1, i)
    <3>1. CutBetween(p, h, n + (Len(q) + 1), i) /\ Len(q) + 1 \in Nat
      BY <1>1, <2>3, <2>4
    <3> QED
      BY SMTT(30), <1>1, <1>3, <2>1, <3>1
  <2>5. ASSUME NEW m \in k + 1 .. Len(q), Writes(q[m], i) PROVE CutBetween(q, k, m, i)
    <3>1. m \in 1 .. Len(q) /\ n + m \in h + 1 .. Len(p) /\ p[n + m] = q[m]
      BY SMTT(30), <1>1, <2>5
    <3>2. CutBetween(p, h, n + m, i) /\ m \in Nat /\ m <= Len(q) + 1
      BY <1>1, <2>3, <2>5, <3>1
    <3> QED
      BY Zenon, <1>1, <1>3, <2>1, <3>2
  <2> QED
    BY Zenon, <2>4, <2>5
<1> QED
  BY Zenon, <1>4 DEF InOrder

-----------------------------------------------------------------------------
(* The steps that queue, carry out or forget closures.                     *)

(* The other steps leave all that these proofs are about.                  *)
LEMMA DiskSteps ==
  ASSUME [LogNext]_logVars
  PROVE  \/ \E n \in 1 .. MaxIndex : LeaderAppend(n)
         \/ \E i \in Index : FollowerAppend(i)
         \/ DiskTake \/ DiskOther
         \/ \E n \in 0 .. Len(toAppend) : DiskFlush(n)
         \/ AskLastLogId \/ Restart
         \/ UNCHANGED <<queue, batch, toAppend, store, hasError, last, log, acked>>
BY Zenon DEF LogNext, DiskEnd, SetAppliedId, ClearMemoryLogs, Wait, RemoveWaiter,
   Shutdown,
       Lead, LeaderExtends, Follow, logVars, memVars, diskVars, flagVars, histVars

(* The pending closures are a sequence.                                    *)
LEMMA PendingTyped ==
  ASSUME LogTypeOK
  PROVE  /\ queue \in Seq(Closures) /\ batch \in Seq(Closures) /\ batch \in Seq(Appends)
         /\ toAppend \in Seq(EntryId) /\ Pending \in Seq(Closures)
<1>1. queue \in Seq(Closures) /\ batch \in Seq(Appends) /\ toAppend \in Seq(EntryId)
  BY Zenon DEF LogTypeOK
<1>2. batch \in Seq(Closures)
  BY <1>1 DEF Closures
<1> QED
  BY <1>1, <1>2 DEF Pending

(* What a follower's append_entries makes of them.                         *)
LEMMA FollowerPending ==
  ASSUME LogTypeOK, NEW i \in Index, FollowerAppend(i), NEW c \in Appends, FollowerQueues(i, c)
  PROVE  /\ c \in Closures /\ UNCHANGED <<batch, toAppend, store, hasError, acked>>
         /\ \/ /\ c.ids = <<>> /\ Pending' = Append(Pending, c) /\ UNCHANGED <<last, log>>
            \/ /\ c.ids = <<<<leaderLog[i], i>>>>
               /\ Pending' = Append(Pending, c) /\ last <= last'
               /\ ~OORep => i > last /\ i <= last'
               /\ log' = [log EXCEPT ![i] = leaderLog[i]]
            \/ /\ c.ids = <<<<leaderLog[i], i>>>>
               /\ \E d \in Closures : /\ d.kind = "truncate" /\ d.id[2] = i - 1
                                      /\ Pending' = Append(Append(Pending, d), c)
               /\ i <= last'
               /\ log' = [j \in Index |-> IF j = i THEN leaderLog[i]
                                          ELSE IF j > i THEN 0 ELSE log[j]]
<1>1. c \in Closures
  BY Zenon DEF Closures
<1>2. UNCHANGED <<batch, toAppend, store, hasError, acked>>
  BY Zenon DEF FollowerAppend
<1>3. queue \in Seq(Closures) /\ batch \in Seq(Closures)
  BY Zenon, PendingTyped
<1>4. ASSUME queue' = Append(queue, c) PROVE Pending' = Append(Pending, c)
  BY <1>1, <1>2, <1>3, <1>4, AppendsJoin DEF Pending
<1>5. ASSUME NEW d \in Closures, queue' = Append(Append(queue, d), c)
      PROVE  Pending' = Append(Append(Pending, d), c)
  <2>1. Append(queue, d) \in Seq(Closures)
    BY <1>3
  <2>2. batch \o Append(Append(queue, d), c) = Append(batch \o Append(queue, d), c)
    BY <1>1, <1>3, <2>1, AppendsJoin
  <2>3. batch \o Append(queue, d) = Append(batch \o queue, d)
    BY Zenon, <1>3, AppendsJoin
  <2> QED
    BY Zenon, <1>2, <1>5, <2>2, <2>3 DEF Pending
<1>6. CASE c.ids = <<>> /\ queue' = Append(queue, c) /\ UNCHANGED <<last, log>>
  BY Zenon, <1>1, <1>2, <1>4, <1>6
<1>7. CASE /\ c.ids = <<<<leaderLog[i], i>>>>
           /\ queue' = Append(queue, c) /\ last <= last'
           /\ ~OORep => i > last /\ i <= last'
           /\ log' = [log EXCEPT ![i] = leaderLog[i]]
  BY Zenon, <1>1, <1>2, <1>4, <1>7
<1>8. CASE /\ c.ids = <<<<leaderLog[i], i>>>>
           /\ \E d \in Closures : /\ d.kind = "truncate" /\ d.id[2] = i - 1
                                  /\ queue' = Append(Append(queue, d), c)
           /\ i <= last'
           /\ log' = [j \in Index |-> IF j = i THEN leaderLog[i]
                                      ELSE IF j > i THEN 0 ELSE log[j]]
  BY Zenon, <1>1, <1>2, <1>5, <1>8
<1> QED
  BY Zenon, <1>6, <1>7, <1>8 DEF FollowerQueues

(* A leader's append_entries queues one closure.                           *)
LEMMA LeaderPending ==
  ASSUME LogTypeOK, NEW n \in 1 .. MaxIndex, LeaderAppend(n), NEW c \in Appends,
         queue' = Append(queue, c)
  PROVE  /\ c \in Closures /\ UNCHANGED <<batch, toAppend, store, hasError, acked>>
         /\ Pending' = Append(Pending, c)
<1>1. c \in Closures
  BY Zenon DEF Closures
<1>2. UNCHANGED <<batch, toAppend, store, hasError, acked>>
  BY Zenon DEF LeaderAppend
<1>3. queue \in Seq(Closures) /\ batch \in Seq(Closures)
  BY Zenon, PendingTyped
<1> QED
  BY Zenon, <1>1, <1>2, <1>3, AppendsJoin DEF Pending

(* The disk thread carries out the first pending closure.                  *)
LEMMA OtherPending ==
  ASSUME LogTypeOK, DiskOther
  PROVE  /\ Pending # <<>> /\ Pending' = Tail(Pending) /\ Head(Pending) = Head(queue)
         /\ Head(queue) \in Closures /\ \A i \in Index : ~Writes(Head(queue), i)
         /\ UNCHANGED <<batch, toAppend, hasError, last, log>>
<1>1. /\ queue # <<>> /\ batch = <<>> /\ queue' = Tail(queue)
      /\ UNCHANGED <<batch, toAppend, hasError, last, log>>
      /\ Head(queue).kind = "append" => Head(queue).ids = <<>>
  BY Zenon DEF DiskOther, Flushed, flagVars, memVars
<1>2. queue \in Seq(Closures) /\ Tail(queue) \in Seq(Closures)
  BY <1>1, PendingTyped
<1>3. Pending = queue /\ Pending' = Tail(queue)
  BY Zenon, <1>1, <1>2, EmptyJoin DEF Pending
<1>4. Head(queue) \in Closures
  BY <1>1, <1>2
<1>5. \A i \in Index : ~Writes(Head(queue), i)
  BY <1>1 DEF Writes
<1> QED
  BY Zenon, <1>1, <1>3, <1>4, <1>5

(* A closure taken into the batch keeps its place.                         *)
LEMMA TakePending ==
  ASSUME LogTypeOK, DiskTake
  PROVE  /\ Pending' = Pending /\ Len(batch) + 1 \in DOMAIN Pending
         /\ Head(queue) = Pending[Len(batch) + 1] /\ Head(queue) \in Appends
         /\ batch' = Append(batch, Head(queue)) /\ toAppend' = toAppend \o Head(queue).ids
         /\ UNCHANGED <<store, hasError, last, log, acked>>
<1>1. /\ queue # <<>> /\ Head(queue).kind = "append"
      /\ batch' = Append(batch, Head(queue)) /\ toAppend' = toAppend \o Head(queue).ids
      /\ queue' = Tail(queue)
      /\ UNCHANGED <<store, hasError, last, log, acked>>
  BY Zenon DEF DiskTake, memVars, flagVars, histVars
<1>2. queue \in Seq(Closures) /\ batch \in Seq(Closures)
  BY Zenon, PendingTyped
<1>3. Pending' = Pending
  BY Zenon, <1>1, <1>2, TakesJoin DEF Pending
<1>4. Len(batch) + 1 \in DOMAIN Pending /\ Head(queue) = Pending[Len(batch) + 1]
  BY <1>1, <1>2 DEF Pending
<1>5. Head(queue) \in Appends
  <2>1. Head(queue) \in Closures
    BY <1>1, <1>2
  <2> QED
    BY Zenon, <1>1, <2>1 DEF Closures
<1> QED
  BY Zenon, <1>1, <1>3, <1>4, <1>5

(* After a flush the batch is gone.                                        *)
LEMMA FlushPending ==
  ASSUME LogTypeOK, NEW n \in 0 .. Len(toAppend), DiskFlush(n)
  PROVE  /\ batch' = <<>> /\ toAppend' = <<>> /\ Pending' = queue
         /\ UNCHANGED <<last, log>>
         /\ store' = [i \in Index |-> FlushedTerm(SubSeq(toAppend, 1, n), i, store[i])]
         /\ ~hasError' => /\ ~hasError /\ SubSeq(toAppend, 1, n) = toAppend
         /\ \/ acked' = acked
            \/ ~hasError' /\ acked' = acked \cup UNION {batch[k].acks : k \in DOMAIN batch}
<1>1. /\ batch' = <<>> /\ toAppend' = <<>> /\ queue' = queue /\ UNCHANGED <<last, log>>
      /\ store' = [i \in Index |-> FlushedTerm(SubSeq(toAppend, 1, n), i, store[i])]
      /\ hasError' = ~(~hasError /\ n = Len(toAppend))
      /\ acked' = IF ~hasError /\ n = Len(toAppend)
                  THEN acked \cup UNION {batch[k].acks : k \in DOMAIN batch} ELSE acked
  BY Zenon DEF DiskFlush, FlushOk, memVars
<1>2. queue \in Seq(Closures) /\ toAppend \in Seq(EntryId)
  BY Zenon, PendingTyped
<1>3. Pending' = queue
  BY Zenon, <1>1, <1>2, EmptyJoin DEF Pending
<1>4. n = Len(toAppend) => SubSeq(toAppend, 1, n) = toAppend
  BY <1>2
<1> QED
  BY Zenon, <1>1, <1>3, <1>4

(* last_log_id(true) queues a closure without entries.                     *)
LEMMA AskPending ==
  ASSUME LogTypeOK, LogManagerAssumption, AskLastLogId
  PROVE  /\ \E c \in Closures : c.kind = "last" /\ Pending' = Append(Pending, c)
         /\ UNCHANGED <<batch, toAppend, store, hasError, last, log, acked>>
<1>1. /\ \E c : c.kind = "last" /\ queue' = Append(queue, c)
      /\ UNCHANGED <<batch, toAppend, store, hasError, last, log, acked>>
  BY DEF AskLastLogId, memVars, flagVars, histVars
<1>2. PICK c : c.kind = "last" /\ queue' = Append(queue, c)
  BY Zenon, <1>1
<1>3. queue \in Seq(Closures) /\ batch \in Seq(Closures)
  BY Zenon, PendingTyped
<1>4. LogTypeOK'
  BY Zenon, LogTypeStep DEF LogNext
<1>5. queue' \in Seq(Closures)
  BY Zenon, <1>4 DEF LogTypeOK
<1>6. c \in Closures
  BY <1>2, <1>3, <1>5
<1>7. Pending' = Append(Pending, c)
  BY Zenon, <1>1, <1>2, <1>3, <1>6, AppendsJoin DEF Pending
<1> QED
  BY Zenon, <1>1, <1>2, <1>6, <1>7

-----------------------------------------------------------------------------
(* The structure of the queue and of the batch.                            *)

(* A closure queued is well formed when it is one of append_entries.       *)
LEMMA WellFormedQueued ==
  ASSUME NEW p \in Seq(Closures), NEW c \in Closures, WellFormed(c),
         \A k \in DOMAIN p : WellFormed(p[k])
  PROVE  \A k \in DOMAIN Append(p, c) : WellFormed(Append(p, c)[k])
<1> SUFFICES ASSUME NEW k \in DOMAIN Append(p, c) PROVE WellFormed(Append(p, c)[k])
  BY Zenon
<1>1. Append(p, c)[k] = c \/ (k \in DOMAIN p /\ Append(p, c)[k] = p[k])
  OBVIOUS
<1> QED
  BY Zenon, <1>1

(* Every step keeps the closures well formed and the batch complete.       *)
LEMMA StructureStep ==
  ASSUME LogTypeOK, LogManagerAssumption, [LogNext]_logVars, PendingWellFormed, BatchComplete
  PROVE  PendingWellFormed' /\ BatchComplete'
<1>0. /\ queue \in Seq(Closures) /\ batch \in Seq(Appends) /\ toAppend \in Seq(EntryId)
      /\ Pending \in Seq(Closures) /\ \A k \in DOMAIN Pending : WellFormed(Pending[k])
  BY Zenon, PendingTyped DEF PendingWellFormed
<1>a. ASSUME UNCHANGED <<batch, toAppend>> PROVE BatchComplete'
  BY Zenon, <1>a DEF BatchComplete
<1>b. ASSUME NEW c \in Closures, WellFormed(c), Pending' = Append(Pending, c)
      PROVE  PendingWellFormed'
  BY Zenon, <1>0, <1>b, WellFormedQueued DEF PendingWellFormed
<1>e. ASSUME batch' = <<>>, toAppend' = <<>> PROVE BatchComplete'
  BY <1>e DEF BatchComplete, LastWrites
<1>1. ASSUME NEW n \in 1 .. MaxIndex, LeaderAppend(n)
      PROVE  PendingWellFormed' /\ BatchComplete'
  <2>1. PICK c \in Appends : WellFormed(c) /\ queue' = Append(queue, c)
    BY Zenon, <1>1, LeaderStores
  <2>2. c \in Closures /\ UNCHANGED <<batch, toAppend>> /\ Pending' = Append(Pending, c)
    BY Zenon, <1>1, <2>1, LeaderPending
  <2> QED
    BY Zenon, <1>a, <1>b, <2>1, <2>2
<1>2. ASSUME NEW i \in Index, FollowerAppend(i)
      PROVE  PendingWellFormed' /\ BatchComplete'
  <2>1. PICK c \in Appends : WellFormed(c) /\ FollowerQueues(i, c)
    BY Zenon, <1>2, FollowerStores
  <2>2. /\ c \in Closures /\ UNCHANGED <<batch, toAppend>>
        /\ \/ Pending' = Append(Pending, c)
           \/ \E d \in Closures : d.kind = "truncate" /\ Pending' = Append(Append(Pending, d), c)
    BY Zenon, <1>2, <2>1, FollowerPending
  <2>3. ASSUME NEW d \in Closures, d.kind = "truncate", Pending' = Append(Append(Pending, d), c)
        PROVE  PendingWellFormed'
    <3>1. WellFormed(d)
      BY Zenon, <2>3 DEF WellFormed
    <3>2. \A k \in DOMAIN Append(Pending, d) : WellFormed(Append(Pending, d)[k])
      BY Zenon, <1>0, <3>1, WellFormedQueued
    <3>3. Append(Pending, d) \in Seq(Closures)
      BY <1>0
    <3>4. \A k \in DOMAIN Pending' : WellFormed(Pending'[k])
      BY Zenon, <2>1, <2>2, <2>3, <3>2, <3>3, WellFormedQueued
    <3> QED
      BY Zenon, <3>4 DEF PendingWellFormed
  <2> QED
    BY Zenon, <1>a, <1>b, <2>1, <2>2, <2>3
<1>3. CASE DiskTake
  <2>1. /\ Pending' = Pending /\ Head(queue) \in Appends /\ WellFormed(Head(queue))
        /\ batch' = Append(batch, Head(queue)) /\ toAppend' = toAppend \o Head(queue).ids
    BY Zenon, <1>0, <1>3, TakePending
  <2>2. ASSUME NEW i \in Index PROVE LastWrites(batch', toAppend', i)
    <3>1. LastWrites(batch, toAppend, i)
      BY Zenon DEF BatchComplete
    <3> QED
      BY Zenon, <1>0, <2>1, <3>1, LastWritesTaken
  <2>3. PendingWellFormed'
    BY Zenon, <1>0, <2>1 DEF PendingWellFormed
  <2> QED
    BY Zenon, <2>2, <2>3 DEF BatchComplete
<1>4. CASE DiskOther
  <2>1. Pending # <<>> /\ Pending' = Tail(Pending) /\ UNCHANGED <<batch, toAppend>>
    BY Zenon, <1>4, OtherPending
  <2>2. ASSUME NEW k \in DOMAIN Tail(Pending) PROVE WellFormed(Tail(Pending)[k])
    <3>1. Tail(Pending)[k] = Pending[k + 1] /\ k + 1 \in DOMAIN Pending
      BY <1>0, <2>1
    <3> QED
      BY Zenon, <1>0, <3>1
  <2> QED
    BY Zenon, <1>a, <2>1, <2>2 DEF PendingWellFormed
<1>5. ASSUME NEW n \in 0 .. Len(toAppend), DiskFlush(n)
      PROVE  PendingWellFormed' /\ BatchComplete'
  <2>1. batch' = <<>> /\ toAppend' = <<>> /\ Pending' = queue
    BY Zenon, <1>5, FlushPending
  <2>2. ASSUME NEW k \in DOMAIN queue PROVE WellFormed(queue[k])
    <3>1. Pending[Len(batch) + k] = queue[k] /\ Len(batch) + k \in DOMAIN Pending
      BY <1>0 DEF Pending
    <3> QED
      BY Zenon, <1>0, <3>1
  <2> QED
    BY Zenon, <1>e, <2>1, <2>2 DEF PendingWellFormed
<1>6. CASE AskLastLogId
  <2>1. PICK c \in Closures : c.kind = "last" /\ Pending' = Append(Pending, c)
    BY Zenon, <1>6, AskPending
  <2>2. WellFormed(c)
    BY Zenon, <2>1 DEF WellFormed
  <2>3. UNCHANGED <<batch, toAppend>>
    BY Zenon, <1>6, AskPending
  <2> QED
    BY Zenon, <1>a, <1>b, <2>1, <2>2, <2>3
<1>7. CASE Restart
  <2>1. batch' = <<>> /\ toAppend' = <<>> /\ queue' = <<>>
    BY Zenon, <1>7 DEF Restart
  <2>2. Pending' = <<>>
    BY <2>1 DEF Pending
  <2> QED
    BY <1>e, <2>1, <2>2 DEF PendingWellFormed
<1>8. CASE UNCHANGED <<queue, batch, toAppend, store, hasError, last, log, acked>>
  BY Zenon, <1>8, <1>a DEF PendingWellFormed, Pending
<1> QED
  BY <1>1, <1>2, <1>3, <1>4, <1>5, <1>6, <1>7, <1>8, DiskSteps

-----------------------------------------------------------------------------
(* DiskReachesLog is kept, whatever the flags, failures and restarts.      *)
LEMMA DiskReachesStep ==
  ASSUME LogTypeOK, LogManagerAssumption, [LogNext]_logVars, PendingWellFormed, BatchComplete,
         DiskReachesLog
  PROVE  DiskReachesLog'
<1>0. /\ queue \in Seq(Closures) /\ batch \in Seq(Appends) /\ toAppend \in Seq(EntryId)
      /\ Pending \in Seq(Closures) /\ Index \in SUBSET Nat /\ last \in Nat
      /\ log \in [Index -> Nat]
  BY Zenon, PendingTyped, LogNumbers
<1>1. ASSUME NEW n \in 1 .. MaxIndex, LeaderAppend(n) PROVE DiskReachesLog'
  <2>1. PICK c \in Appends : /\ c.ids = [k \in 1 .. n |-> <<curTerm, last + k>>]
                             /\ queue' = Append(queue, c)
    BY Zenon, <1>1, LeaderStores
  <2>2. c \in Closures /\ UNCHANGED <<store, hasError>> /\ Pending' = Append(Pending, c)
    BY Zenon, <1>1, <2>1, LeaderPending
  <2>3. log' = [i \in Index |-> IF i \in last + 1 .. last + n THEN curTerm ELSE log[i]]
    BY Zenon, <1>1 DEF LeaderAppend
  <2>4. c.kind = "append"
    BY Zenon DEF Appends
  <2>5. ASSUME NEW i \in Index, ~hasError PROVE Yields(Pending', i, store[i], log'[i])
    <3>1. CASE i \in last + 1 .. last + n
      <4>1. i - last \in DOMAIN c.ids /\ c.ids[i - last] = <<curTerm, i>>
        BY <1>0, <2>1, <3>1
      <4>2. Touches(c, i) /\ Leaves(c, i, log'[i])
        BY <2>3, <2>4, <3>1, <4>1 DEF Touches, Writes, Leaves
      <4> QED
        BY Zenon, <1>0, <2>2, <4>2, YieldsQueued
    <3>2. CASE i \notin last + 1 .. last + n
      <4>1. ~Touches(c, i)
        BY SMTT(30), <1>0, <2>1, <2>4, <3>2 DEF Touches, Writes, Cuts
      <4>2. log'[i] = log[i] /\ Yields(Pending, i, store[i], log[i])
        BY Zenon, <2>3, <2>5, <3>2 DEF DiskReachesLog
      <4> QED
        BY Zenon, <1>0, <2>2, <4>1, <4>2, YieldsQueued
    <3> QED
      BY Zenon, <3>1, <3>2
  <2> QED
    BY Zenon, <2>2, <2>5 DEF DiskReachesLog
<1>2. ASSUME NEW i \in Index, FollowerAppend(i) PROVE DiskReachesLog'
  <2>1. PICK c \in Appends : FollowerQueues(i, c)
    BY Zenon, <1>2, FollowerStores
  <2>2. c \in Closures /\ c.kind = "append" /\ UNCHANGED <<store, hasError>>
    BY Zenon, <1>2, <2>1, FollowerPending DEF Appends
  <2>3. CASE c.ids = <<>> /\ Pending' = Append(Pending, c) /\ UNCHANGED log
    <3>1. \A j \in Index : ~Touches(c, j)
      BY <2>2, <2>3 DEF Touches, Writes, Cuts
    <3> QED
      BY Zenon, <1>0, <2>2, <2>3, <3>1, YieldsQueued DEF DiskReachesLog
  <2>4. ASSUME c.ids = <<<<leaderLog[i], i>>>>
        PROVE  \A j \in Index : /\ Touches(c, j) <=> j = i
                                /\ Leaves(c, i, leaderLog[i])
    BY <2>2, <2>4 DEF Touches, Writes, Cuts, Leaves
  <2>5. CASE /\ c.ids = <<<<leaderLog[i], i>>>> /\ Pending' = Append(Pending, c)
             /\ log' = [log EXCEPT ![i] = leaderLog[i]]
    <3>1. ASSUME NEW j \in Index, ~hasError PROVE Yields(Pending', j, store[j], log'[j])
      <4>1. CASE j = i
        <5>1. Touches(c, j) /\ Leaves(c, j, log'[j])
          BY Zenon, <1>0, <2>4, <2>5, <4>1
        <5> QED
          BY Zenon, <1>0, <2>2, <2>5, <5>1, YieldsQueued
      <4>2. CASE j # i
        <5>1. ~Touches(c, j) /\ log'[j] = log[j] /\ Yields(Pending, j, store[j], log[j])
          BY Zenon, <1>0, <2>4, <2>5, <3>1, <4>2 DEF DiskReachesLog
        <5> QED
          BY Zenon, <1>0, <2>2, <2>5, <5>1, YieldsQueued
      <4> QED
        BY Zenon, <4>1, <4>2
    <3> QED
      BY Zenon, <2>2, <3>1 DEF DiskReachesLog
  <2>6. ASSUME c.ids = <<<<leaderLog[i], i>>>>, NEW d \in Closures, d.kind = "truncate",
               d.id[2] = i - 1, Pending' = Append(Append(Pending, d), c),
               log' = [j \in Index |-> IF j = i THEN leaderLog[i] ELSE IF j > i THEN 0 ELSE log[j]]
        PROVE  DiskReachesLog'
    <3>1. Append(Pending, d) \in Seq(Closures)
      BY <1>0
    <3>2. ASSUME NEW j \in Index, ~hasError PROVE Yields(Pending', j, store[j], log'[j])
      <4>1. CASE j = i
        <5>1. Touches(c, j) /\ Leaves(c, j, log'[j])
          BY Zenon, <1>0, <2>4, <2>6, <4>1
        <5> QED
          BY Zenon, <2>2, <2>6, <3>1, <5>1, YieldsQueued
      <4>2. CASE j > i
        <5>1. Touches(d, j) /\ Leaves(d, j, 0) /\ ~Touches(c, j) /\ log'[j] = 0
          BY SMTT(30), <1>0, <2>4, <2>6, <4>2 DEF Touches, Cuts, Leaves
        <5>2. Yields(Append(Pending, d), j, store[j], 0)
          BY Zenon, <1>0, <5>1, YieldsQueued
        <5> QED
          BY Zenon, <2>2, <2>6, <3>1, <5>1, <5>2, YieldsQueued
      <4>3. CASE j < i
        <5>1. ~Touches(d, j) /\ ~Touches(c, j) /\ log'[j] = log[j]
          BY SMTT(30), <1>0, <2>4, <2>6, <4>3 DEF Touches, Cuts, Writes
        <5>2. Yields(Append(Pending, d), j, store[j], log[j])
          BY Zenon, <1>0, <3>2, <5>1, YieldsQueued DEF DiskReachesLog
        <5> QED
          BY Zenon, <2>2, <2>6, <3>1, <5>1, <5>2, YieldsQueued
      <4> QED
        BY <1>0, <4>1, <4>2, <4>3
    <3> QED
      BY Zenon, <2>2, <3>2 DEF DiskReachesLog
  <2> QED
    BY Zenon, <1>2, <2>1, <2>3, <2>5, <2>6, FollowerPending
<1>3. CASE DiskTake
  BY Zenon, <1>3, TakePending DEF DiskReachesLog
<1>4. CASE DiskOther
  <2> DEFINE c == Head(queue)
  <2>1. /\ Pending # <<>> /\ Pending' = Tail(Pending) /\ Head(Pending) = c
        /\ c \in Closures /\ \A i \in Index : ~Writes(c, i) /\ UNCHANGED <<hasError, log>>
    BY Zenon, <1>4, OtherPending
  <2>2. \A i \in Index : store'[i] = IF Cuts(c, i) THEN 0 ELSE store[i]
    <3>1. CASE c.kind = "truncate"
      <4>1. store' = [i \in Index |-> IF i > c.id[2] THEN 0 ELSE store[i]]
        BY Zenon, <1>4, <3>1 DEF DiskOther
      <4>2. c.id[2] \in Nat
        BY Zenon, <2>1, <3>1 DEF Closures, Appends
      <4> QED
        BY Zenon, <1>0, <3>1, <4>1, <4>2 DEF Cuts
    <3>2. CASE c.kind # "truncate"
      <4>1. c.kind \in {"append", "last"}
        BY Zenon, <2>1, <3>2 DEF Closures, Appends
      <4>2. store' = store
        BY Zenon, <1>4, <4>1 DEF DiskOther
      <4> QED
        BY Zenon, <3>2, <4>2 DEF Cuts
    <3> QED
      BY Zenon, <3>1, <3>2
  <2> HIDE DEF c
  <2>3. ASSUME NEW i \in Index, ~hasError PROVE Yields(Pending', i, store'[i], log[i])
    <3>1. Yields(Pending, i, store[i], log[i])
      BY Zenon, <2>3 DEF DiskReachesLog
    <3> QED
      BY Zenon, <1>0, <2>1, <2>2, <3>1, YieldsCarried
  <2> QED
    BY <2>1, <2>3 DEF DiskReachesLog
<1>5. ASSUME NEW n \in 0 .. Len(toAppend), DiskFlush(n) PROVE DiskReachesLog'
  <2>1. SUFFICES ASSUME ~hasError', NEW i \in Index
                 PROVE  Yields(Pending', i, store'[i], log'[i])
    BY Zenon DEF DiskReachesLog
  <2>2. /\ ~hasError /\ Pending' = queue /\ log' = log
        /\ store'[i] = FlushedTerm(toAppend, i, store[i])
    BY Zenon, <1>5, <2>1, FlushPending
  <2>3. LastWrites(batch, toAppend, i) /\ Yields(batch \o queue, i, store[i], log[i])
    BY Zenon, <2>2 DEF BatchComplete, DiskReachesLog, Pending
  <2>4. ASSUME NEW k \in DOMAIN batch PROVE WellFormed(batch[k])
    <3>1. Pending[k] = batch[k] /\ k \in DOMAIN Pending
      BY <1>0 DEF Pending
    <3> QED
      BY Zenon, <3>1 DEF PendingWellFormed
  <2> QED
    BY Zenon, <1>0, <2>2, <2>3, <2>4, YieldsFlushed
<1>6. CASE AskLastLogId
  <2>1. PICK c \in Closures : c.kind = "last" /\ Pending' = Append(Pending, c)
    BY Zenon, <1>6, AskPending
  <2>2. \A i \in Index : ~Touches(c, i)
    BY Zenon, <2>1 DEF Touches, Writes, Cuts
  <2>3. UNCHANGED <<store, hasError, log>>
    BY Zenon, <1>6, AskPending
  <2> QED
    BY Zenon, <1>0, <2>1, <2>2, <2>3, YieldsQueued DEF DiskReachesLog
<1>7. CASE Restart
  <2>1. batch' = <<>> /\ queue' = <<>> /\ store' = store /\ log' = store
    BY Zenon, <1>7 DEF Restart
  <2>2. Pending' = <<>>
    BY <2>1 DEF Pending
  <2> QED
    BY SMTT(30), <2>1, <2>2 DEF DiskReachesLog, Yields
<1>8. CASE UNCHANGED <<queue, batch, toAppend, store, hasError, last, log, acked>>
  BY Zenon, <1>8 DEF DiskReachesLog, Pending
<1> QED
  BY Zenon, <1>1, <1>2, <1>3, <1>4, <1>5, <1>6, <1>7, <1>8, DiskSteps

(* THEOREM.  The closures of the disk queue carry exactly what is missing  *)
(* on disk, over conflicts, out-of-order entries, failures and restarts.   *)
THEOREM DiskReachesLogAlways == LogSpec => []DiskReachesLog
<1> DEFINE Inv == LogTypeOK /\ PendingWellFormed /\ BatchComplete /\ DiskReachesLog
<1>1. LogInit => Inv
  <2> SUFFICES ASSUME LogInit PROVE Inv
    BY Zenon
  <2>1. LogTypeOK
    BY Zenon, LogManagerAssumption, LogTypeInit
  <2>2. Pending = <<>> /\ batch = <<>> /\ toAppend = <<>> /\ store = log
    BY DEF LogInit, Pending
  <2>3. PendingWellFormed /\ BatchComplete /\ DiskReachesLog
    BY <2>2 DEF PendingWellFormed, BatchComplete, LastWrites, DiskReachesLog, Yields
  <2> QED
    BY Zenon, <2>1, <2>3
<1>2. Inv /\ [LogNext]_logVars => Inv'
  BY Zenon, LogManagerAssumption, LogTypeStep, StructureStep, DiskReachesStep
<1> QED
  BY <1>1, <1>2, PTL DEF LogSpec

-----------------------------------------------------------------------------
(* What is reported stable is on disk.                                     *)

(* Within the batch nothing is cut off, so no index is written twice, and  *)
(* none that was reported stable before.                                   *)
LEMMA BatchWritesOnce ==
  ASSUME NEW b \in Seq(Appends), NEW q \in Seq(Closures), NEW ak, NEW l,
         InOrder(b \o q, ak, l), NEW i \in Index,
         NEW k \in 0 .. Len(b), WrittenAt(b \o q, ak, k, i),
         NEW m \in k + 1 .. Len(b), Writes(b[m], i)
  PROVE  FALSE
<1> DEFINE p == b \o q
<1>1. /\ Len(b) \in Nat /\ Len(q) \in Nat /\ Len(p) = Len(b) + Len(q)
      /\ \A n \in 1 .. Len(b) : p[n] = b[n] /\ b[n] \in Appends
  <2>1. b \in Seq(Closures)
    BY DEF Closures
  <2> QED
    BY SMTT(30), <2>1
<1> HIDE DEF p
<1>2. k \in 0 .. Len(p) /\ m \in k + 1 .. Len(p) /\ m \in 1 .. Len(b)
  BY <1>1
<1>3. Writes(p[m], i) /\ WrittenAt(p, ak, k, i) /\ InOrder(p, ak, l)
  BY Zenon, <1>1, <1>2 DEF p
<1>4. CutBetween(p, k, m, i)
  BY Zenon, <1>2, <1>3 DEF InOrder
<1>5. PICK n \in k + 1 .. m - 1 : Cuts(p[n], i)
  BY Zenon, <1>4 DEF CutBetween
<1>6. n \in 1 .. Len(b)
  BY SMTT(30), <1>1, <1>2, <1>5
<1> QED
  BY Zenon, <1>1, <1>5, <1>6 DEF Cuts, Appends

(* In order, entries reported stable stay so over every step.              *)
LEMMA AckStep ==
  ASSUME LogManagerAssumption, ~OORep, AckInv, [LogNext]_logVars
  PROVE  InOrder(Pending, acked, last)' /\ AckedIsStored'
<1> DEFINE Goal == InOrder(Pending', acked', last') /\ AckedIsStored'
<1>0. /\ LogTypeOK /\ PendingWellFormed /\ BatchComplete
      /\ InOrder(Pending, acked, last) /\ AckedIsStored
  BY Zenon DEF AckInv
<1>t. /\ queue \in Seq(Closures) /\ batch \in Seq(Appends) /\ batch \in Seq(Closures)
      /\ toAppend \in Seq(EntryId) /\ Pending \in Seq(Closures)
      /\ Index \in SUBSET Nat /\ last \in Nat /\ store \in [Index -> Nat]
  BY Zenon, <1>0, PendingTyped, LogNumbers
<1>l. last' \in Nat
  <2>1. LogTypeOK'
    BY Zenon, <1>0, LogTypeStep
  <2>2. max' \in 0 .. MaxIndex /\ last' \in 0 .. max'
    BY Zenon, <2>1 DEF LogTypeOK
  <2> QED
    BY <2>2
<1>k. \A a \in acked : a.id[2] \in Index /\ a.id[1] # 0
  BY Zenon, <1>0 DEF LogTypeOK, AckOf, EntryId
<1>s. ASSUME UNCHANGED <<store, acked>> PROVE AckedIsStored'
  BY Zenon, <1>0, <1>s DEF AckedIsStored
<1>1. ASSUME NEW n \in 1 .. MaxIndex, LeaderAppend(n) PROVE Goal
  <2>1. PICK c \in Appends : /\ c.ids = [k \in 1 .. n |-> <<curTerm, last + k>>]
                             /\ queue' = Append(queue, c)
    BY Zenon, <1>0, <1>1, LeaderStores
  <2>2. /\ c \in Closures /\ UNCHANGED <<store, acked>> /\ Pending' = Append(Pending, c)
    BY Zenon, <1>0, <1>1, <2>1, LeaderPending
  <2>3. last + n <= last' /\ last <= last'
    BY <1>0, <1>1, <1>t, <1>l, LeaderStores
  <2>4. \A i \in Index : Writes(c, i) => i > last /\ i <= last'
    BY SMTT(30), <1>t, <1>l, <2>1, <2>3 DEF Writes
  <2>5. InOrder(Append(Pending, c), acked, last')
    BY Zenon, <1>0, <1>t, <1>l, <2>2, <2>3, <2>4, InOrderQueued
  <2> QED
    BY Zenon, <1>s, <2>2, <2>5
<1>2. ASSUME NEW i \in Index, FollowerAppend(i) PROVE Goal
  <2>1. PICK c \in Appends : FollowerQueues(i, c)
    BY Zenon, <1>0, <1>2, FollowerStores
  <2>2. c \in Closures /\ UNCHANGED <<store, acked>>
    BY Zenon, <1>0, <1>2, <2>1, FollowerPending
  <2>3. CASE c.ids = <<>> /\ Pending' = Append(Pending, c) /\ UNCHANGED last
    <3>1. \A j \in Index : ~Writes(c, j)
      BY <2>3 DEF Writes
    <3>2. InOrder(Append(Pending, c), acked, last)
      BY <1>0, <1>t, <2>2, <3>1, InOrderQueued
    <3> QED
      BY Zenon, <1>s, <2>2, <2>3, <3>2
  <2>4. ASSUME c.ids = <<<<leaderLog[i], i>>>>
        PROVE  \A j \in Index : Writes(c, j) => j = i
    BY <2>4 DEF Writes
  <2>5. CASE /\ c.ids = <<<<leaderLog[i], i>>>> /\ Pending' = Append(Pending, c)
             /\ last <= last' /\ i > last /\ i <= last'
    <3>1. \A j \in Index : Writes(c, j) => j > last /\ j <= last'
      BY Zenon, <2>4, <2>5
    <3>2. InOrder(Append(Pending, c), acked, last')
      BY Zenon, <1>0, <1>t, <1>l, <2>2, <2>5, <3>1, InOrderQueued
    <3> QED
      BY Zenon, <1>s, <2>2, <2>5, <3>2
  <2>6. ASSUME c.ids = <<<<leaderLog[i], i>>>>, i <= last',
               NEW d \in Closures, d.kind = "truncate", d.id[2] = i - 1,
               Pending' = Append(Append(Pending, d), c)
        PROVE  Goal
    <3>1. InOrder(Append(Pending, d), acked, i - 1)
      BY Zenon, <1>0, <1>t, <2>6, InOrderCut
    <3>2. Append(Pending, d) \in Seq(Closures)
      BY <1>t
    <3>3. i - 1 \in Nat /\ i - 1 <= last'
      BY <1>l, <2>6 DEF Index
    <3>4. \A j \in Index : Writes(c, j) => j > i - 1 /\ j <= last'
      <4>1. i > i - 1
        BY <1>t
      <4> QED
        BY Zenon, <2>4, <2>6, <4>1
    <3>5. InOrder(Append(Append(Pending, d), c), acked, last')
      BY Zenon, <1>t, <1>l, <2>2, <3>1, <3>2, <3>3, <3>4, InOrderQueued
    <3> QED
      BY Zenon, <1>s, <2>2, <2>6, <3>5
  <2> QED
    BY Zenon, <1>0, <1>2, <2>1, <2>3, <2>5, <2>6, FollowerPending
<1>3. CASE DiskTake
  BY Zenon, <1>0, <1>3, <1>s, TakePending
<1>4. CASE DiskOther
  <2> DEFINE c == Head(queue)
  <2>1. /\ Pending # <<>> /\ Pending' = Tail(Pending) /\ Head(Pending) = c
        /\ c \in Closures /\ last' = last
    BY Zenon, <1>0, <1>4, OtherPending
  <2>2. <<c>> \o Tail(Pending) = Pending /\ <<c>> \in Seq(Closures) /\ Tail(Pending) \in Seq(Closures)
    BY <1>t, <2>1
  <2>3. \A a \in acked' : ~a.dup => /\ a \in acked /\ ~Cuts(c, a.id[2])
                                    /\ store'[a.id[2]] = store[a.id[2]]
    <3>1. CASE c.kind = "append"
      <4>1. c.ids = <<>> /\ acked' = acked \cup c.acks /\ store' = store
        BY Zenon, <1>4, <3>1 DEF DiskOther
      <4>2. WellFormed(c)
        <5>1. c = Pending[1] /\ 1 \in DOMAIN Pending
          BY <1>t, <2>1
        <5> QED
          BY Zenon, <1>0, <5>1 DEF PendingWellFormed
      <4>3. \A a \in c.acks : a.dup
        BY <3>1, <4>1, <4>2 DEF WellFormed
      <4> QED
        BY Zenon, <3>1, <4>1, <4>3 DEF Cuts
    <3>2. CASE c.kind = "truncate"
      <4>1. /\ store' = [i \in Index |-> IF i > c.id[2] THEN 0 ELSE store[i]]
            /\ acked' = {a \in acked : a.id[2] <= c.id[2]}
        BY Zenon, <1>4, <3>2 DEF DiskOther
      <4>2. c.id[2] \in Nat
        BY Zenon, <2>1, <3>2 DEF Closures, Appends
      <4>3. ASSUME NEW a \in acked'
            PROVE  /\ a \in acked /\ ~Cuts(c, a.id[2])
                   /\ store'[a.id[2]] = store[a.id[2]]
        <5>1. a \in acked /\ a.id[2] <= c.id[2] /\ a.id[2] \in Index /\ a.id[2] \in Nat
          BY Zenon, <1>t, <1>k, <4>1
        <5> QED
          BY <4>1, <4>2, <5>1 DEF Cuts
      <4> QED
        BY Zenon, <4>3
    <3>3. CASE c.kind = "last"
      <4>1. UNCHANGED <<store, acked>>
        BY Zenon, <1>4, <3>3 DEF DiskOther
      <4> QED
        BY Zenon, <3>3, <4>1 DEF Cuts
    <3> QED
      BY Zenon, <2>1, <3>1, <3>2, <3>3 DEF Closures, Appends
  <2> HIDE DEF c
  <2>4. InOrder(<<c>> \o Tail(Pending), acked, last)
    BY Zenon, <1>0, <2>2
  <2>5. ASSUME NEW a \in acked', ~a.dup
        PROVE  /\ a.id[2] \in Index /\ \A k \in DOMAIN <<c>> : ~Cuts(<<c>>[k], a.id[2])
               /\ a \in acked
    BY <1>k, <2>3, <2>5
  <2>6. InOrder(Tail(Pending), acked', last)
    BY Zenon, <1>t, <2>2, <2>4, <2>5, InOrderDone
  <2>7. AckedIsStored'
    BY Zenon, <1>0, <2>3 DEF AckedIsStored
  <2> QED
    BY Zenon, <2>1, <2>6, <2>7
<1>5. ASSUME NEW n \in 0 .. Len(toAppend), DiskFlush(n) PROVE Goal
  <2> DEFINE ids == SubSeq(toAppend, 1, n)
  <2>1. /\ Pending' = queue /\ last' = last
        /\ store' = [i \in Index |-> FlushedTerm(ids, i, store[i])]
        /\ ~hasError' => ids = toAppend
        /\ \/ acked' = acked
           \/ ~hasError' /\ acked' = acked \cup UNION {batch[k].acks : k \in DOMAIN batch}
    BY Zenon, <1>0, <1>5, FlushPending
  <2>2. ASSUME NEW k \in DOMAIN batch PROVE WellFormed(batch[k]) /\ batch[k] \in Appends
    <3>1. Pending[k] = batch[k] /\ k \in DOMAIN Pending
      BY <1>t DEF Pending
    <3> QED
      BY <1>0, <1>t, <3>1 DEF PendingWellFormed
  <2>3. ASSUME NEW k \in DOMAIN batch, NEW a \in batch[k].acks, ~a.dup
        PROVE  \E j \in DOMAIN batch[k].ids : batch[k].ids[j] = a.id
    BY Zenon, <2>2, <2>3 DEF WellFormed, Appends
  <2>4. InOrder(batch \o queue, acked, last)
    BY Zenon, <1>0 DEF Pending
  <2>5. ASSUME NEW a \in acked, ~a.dup PROVE store'[a.id[2]] = store[a.id[2]]
    <3> DEFINE i == a.id[2]
    <3>1. i \in Index
      BY Zenon, <1>k
    <3>2. ASSUME NEW m \in DOMAIN batch, Writes(batch[m], i) PROVE FALSE
      <4>1. WrittenAt(batch \o queue, acked, 0, i)
        BY Zenon, <2>5 DEF WrittenAt
      <4>2. m \in 0 + 1 .. Len(batch) /\ 0 \in 0 .. Len(batch)
        BY <1>t
      <4> QED
        BY Zenon, <1>t, <2>4, <3>1, <3>2, <4>1, <4>2, BatchWritesOnce
    <3>3. \A k \in DOMAIN toAppend : toAppend[k][2] # i
      <4>1. LastWrites(batch, toAppend, i)
        BY Zenon, <1>0, <3>1 DEF BatchComplete
      <4>2. \A k \in DOMAIN batch : batch[k].kind = "append"
        BY Zenon, <2>2 DEF Appends
      <4> QED
        BY <3>2, <4>1, <4>2 DEF LastWrites, Writes
    <3>4. {k \in DOMAIN ids : ids[k][2] = i} = {}
      BY <1>t, <3>3
    <3>5. FlushedTerm(ids, i, store[i]) = store[i]
      BY Zenon, <3>4 DEF FlushedTerm
    <3> QED
      BY Zenon, <2>1, <3>1, <3>5
  <2>6. ASSUME NEW h \in DOMAIN batch, NEW a \in batch[h].acks, ~a.dup, ids = toAppend
        PROVE  a.id[2] \in Index /\ store'[a.id[2]] = a.id[1]
    <3> DEFINE i == a.id[2]
               t == FlushedTerm(toAppend, i, store[i])
    <3>1. i \in Index
      BY Zenon, <2>2 DEF Appends, AckOf, EntryId
    <3>2. PICK j \in DOMAIN batch[h].ids : batch[h].ids[j] = a.id
      BY Zenon, <2>3, <2>6
    <3>3. batch[h].kind = "append" /\ Writes(batch[h], i) /\ \A k \in DOMAIN batch : batch[k].kind = "append"
      BY Zenon, <2>2, <3>2 DEF Writes, Appends
    <3>4. LastWrites(batch, toAppend, i)
      BY Zenon, <1>0, <3>1 DEF BatchComplete
    <3>5. PICK k \in DOMAIN batch : \E g \in DOMAIN batch[k].ids : batch[k].ids[g] = <<t, i>>
      <4>1. \/ (\A k \in DOMAIN batch : ~Writes(batch[k], i)) /\ t = store[i]
            \/ \E k \in DOMAIN batch :
                 /\ \E g \in DOMAIN batch[k].ids : batch[k].ids[g] = <<t, i>>
                 /\ \A m \in DOMAIN batch : m > k => ~Writes(batch[m], i)
        <5>1. batch \in Seq(Appends) /\ toAppend \in Seq(EntryId)
          BY Zenon, <1>t
        <5> HIDE DEF i
        <5> QED
          BY Zenon, <3>4, <5>1, FlushedLast
      <4> QED
        BY Zenon, <3>3, <4>1
    <3>6. Writes(batch[k], i)
      BY <3>3, <3>5 DEF Writes
    <3>7. ASSUME NEW x \in DOMAIN batch, NEW y \in DOMAIN batch, x < y,
                 Writes(batch[x], i), Writes(batch[y], i)
          PROVE  FALSE
      <4>1. /\ x \in 0 .. Len(batch) /\ y \in x + 1 .. Len(batch) /\ x # 0
            /\ (batch \o queue)[x] = batch[x]
        BY <1>t, <3>7
      <4>2. WrittenAt(batch \o queue, acked, x, i)
        BY Zenon, <3>7, <4>1 DEF WrittenAt
      <4> QED
        BY Zenon, <1>t, <2>4, <3>1, <3>7, <4>1, <4>2, BatchWritesOnce
    <3>8. h = k
      <4>1. h \in Nat /\ k \in Nat
        BY <1>t
      <4> QED
        BY <3>3, <3>6, <3>7, <4>1
    <3>9. a.id = <<t, i>>
      BY <2>2, <3>2, <3>3, <3>5, <3>8 DEF WellFormed
    <3>10. store'[i] = t
      BY Zenon, <2>1, <2>6, <3>1
    <3> HIDE DEF t
    <3> QED
      BY <3>1, <3>9, <3>10
  <2>7. ASSUME NEW a \in acked', ~a.dup
        PROVE  /\ a.id[2] \in Index /\ \A k \in DOMAIN batch : ~Cuts(batch[k], a.id[2])
               /\ a \in acked \/ \E k \in DOMAIN batch : Writes(batch[k], a.id[2])
               /\ store'[a.id[2]] = a.id[1]
    <3>1. \A k \in DOMAIN batch : ~Cuts(batch[k], a.id[2])
      BY Zenon, <2>2 DEF Cuts, Appends
    <3>2. CASE a \in acked
      BY Zenon, <1>0, <1>k, <2>5, <2>7, <3>1, <3>2 DEF AckedIsStored
    <3>3. CASE a \notin acked
      <4>1. PICK k \in DOMAIN batch : a \in batch[k].acks /\ ids = toAppend
        BY <2>1, <2>7, <3>3
      <4>2. Writes(batch[k], a.id[2])
        BY Zenon, <2>2, <2>3, <2>7, <4>1 DEF Writes, Appends
      <4> QED
        BY Zenon, <2>6, <2>7, <3>1, <4>1, <4>2
    <3> QED
      BY Zenon, <3>2, <3>3
  <2>8. InOrder(queue, acked', last)
    BY SMTT(30), <1>t, <2>4, <2>7, InOrderDone
  <2> QED
    BY Zenon, <2>1, <2>7, <2>8 DEF AckedIsStored
<1>6. CASE AskLastLogId
  <2>1. PICK c \in Closures : c.kind = "last" /\ Pending' = Append(Pending, c)
    BY Zenon, <1>0, <1>6, AskPending
  <2>2. \A i \in Index : ~Writes(c, i)
    BY Zenon, <2>1 DEF Writes
  <2>3. UNCHANGED <<store, acked, last>>
    BY Zenon, <1>0, <1>6, AskPending
  <2>4. InOrder(Append(Pending, c), acked, last)
    BY <1>0, <1>t, <2>2, InOrderQueued
  <2> QED
    BY Zenon, <1>s, <2>1, <2>3, <2>4
<1>7. CASE Restart
  <2> DEFINE S == {0} \cup {i \in Index : store[i] # 0}
  <2>1. batch' = <<>> /\ queue' = <<>> /\ UNCHANGED <<store, acked>> /\ last' = Max(S)
    BY Zenon, <1>7 DEF Restart
  <2>2. S \in SUBSET (0 .. MaxIndex) /\ S # {} /\ MaxIndex \in Nat
    BY <1>0, LogNumbers DEF Index
  <2>3. \A i \in S : i <= Max(S)
    BY <2>2, MaxIsMax, Zenon
  <2>4. \A a \in acked : ~a.dup => a.id[2] \in S
    BY Zenon, <1>0, <1>k DEF AckedIsStored
  <2>5. Pending' = <<>>
    BY <2>1 DEF Pending
  <2> HIDE DEF S
  <2>6. InOrder(<<>>, acked, last')
    <3>1. ASSUME NEW i \in Index, WrittenAt(<<>>, acked, 0, i) PROVE ~(i > last')
      <4>1. i \in S
        BY Zenon, <2>4, <3>1 DEF WrittenAt
      <4>2. i <= last'
        BY Zenon, <2>1, <2>3, <4>1
      <4> QED
        BY <1>t, <1>l, <4>2
    <3> QED
      BY <3>1 DEF InOrder
  <2> QED
    BY Zenon, <1>s, <2>1, <2>5, <2>6
<1>8. CASE UNCHANGED <<queue, batch, toAppend, store, hasError, last, log, acked>>
  BY Zenon, <1>0, <1>8, <1>s DEF Pending
<1>9. Goal
  BY <1>1, <1>2, <1>3, <1>4, <1>5, <1>6, <1>7, <1>8, DiskSteps
<1> QED
  BY Zenon, <1>9

(* THEOREM.  In order, a closure reports success only for entries that are *)
(* on disk, and they stay there, over conflicts, failures and restarts,    *)
(* until a truncation takes them away.                                     *)
THEOREM AckedStaysStored ==
  ASSUME ~OORep
  PROVE  LogSpec => []AckedIsStored
<1>1. LogInit => AckInv
  <2> SUFFICES ASSUME LogInit PROVE AckInv
    BY Zenon
  <2>1. LogTypeOK
    BY Zenon, LogManagerAssumption, LogTypeInit
  <2>2. Pending = <<>> /\ batch = <<>> /\ toAppend = <<>> /\ acked = {}
    BY SMTT(30) DEF LogInit, Pending
  <2>3. PendingWellFormed /\ BatchComplete /\ AckedIsStored
    BY <2>2 DEF PendingWellFormed, BatchComplete, LastWrites, AckedIsStored
  <2>4. InOrder(Pending, acked, last)
    BY <2>2 DEF InOrder, WrittenAt
  <2> QED
    BY Zenon, <2>1, <2>3, <2>4 DEF AckInv
<1>2. AckInv /\ [LogNext]_logVars => AckInv'
  BY Zenon, LogManagerAssumption, LogTypeStep, StructureStep, AckStep DEF AckInv
<1>3. AckInv => AckedIsStored
  BY Zenon DEF AckInv
<1> QED
  BY <1>1, <1>2, <1>3, PTL DEF LogSpec

-----------------------------------------------------------------------------
(* Waiting replicators.                                                    *)

(* THEOREM.  A replicator in _wait_map waits behind the last index, and    *)
(* nobody waits after shutdown: no wakeup is lost.                         *)
THEOREM NoWakeupLost == LogSpec => []WaitersAreCurrent
<1> DEFINE Inv == LogTypeOK /\ WaitersAreCurrent
<1>1. LogInit => Inv
  BY Zenon, LogManagerAssumption, LogTypeInit DEF LogInit, WaitersAreCurrent
<1>2. Inv /\ [LogNext]_logVars => Inv'
  <2> SUFFICES ASSUME LogTypeOK, WaitersAreCurrent, [LogNext]_logVars PROVE WaitersAreCurrent'
    BY Zenon, LogManagerAssumption, LogTypeStep
  <2>1. ASSUME waiting' = [w \in Waiter |-> -1] PROVE WaitersAreCurrent'
    BY Zenon, <2>1 DEF WaitersAreCurrent
  <2>2. ASSUME NEW n \in 1 .. MaxIndex, LeaderAppend(n) PROVE WaitersAreCurrent'
    BY Zenon, <2>1, <2>2 DEF LeaderAppend, Store
  <2>3. ASSUME NEW i \in Index, FollowerAppend(i) PROVE WaitersAreCurrent'
    BY Zenon, <2>1, <2>3 DEF FollowerAppend, Store
  <2>4. CASE Shutdown \/ Restart
    BY Zenon, <2>1, <2>4 DEF Shutdown, Restart
  <2>5. ASSUME NEW w \in Waiter, NEW i \in 0 .. MaxIndex, Wait(w, i) PROVE WaitersAreCurrent'
    BY Zenon, <2>5 DEF Wait, CanWait, WaitersAreCurrent, LogTypeOK, memVars
  <2>6. ASSUME NEW w \in Waiter, RemoveWaiter(w) PROVE WaitersAreCurrent'
    BY Zenon, <2>6 DEF RemoveWaiter, WaitersAreCurrent, LogTypeOK, memVars
  <2>7. CASE UNCHANGED <<waiting, last, stopped>>
    BY Zenon, <2>7 DEF WaitersAreCurrent
  <2> QED
    BY Zenon, <2>2, <2>3, <2>4, <2>5, <2>6, <2>7 DEF LogNext, DiskTake, DiskOther,
       DiskEnd, DiskFlush,
       AskLastLogId, SetAppliedId, ClearMemoryLogs, Lead, LeaderExtends, Follow,
       logVars, memVars, flagVars
<1> QED
  BY <1>1, <1>2, PTL DEF LogSpec

=============================================================================
