-------------------------- MODULE LogManagerLemmas ---------------------------
(***************************************************************************)
(* The building blocks of the proofs about LogManager: the types of its    *)
(* state, what append_entries and flush do with entries that follow the    *)
(* last one, and how the closures in the disk queue continue each other.   *)
(***************************************************************************)
EXTENDS LogManager, WellFoundedInduction, TLAPS

-----------------------------------------------------------------------------
(* Facts about numbers and sequences.                                      *)

(* A set of naturals has a least element.                                   *)
LEMMA SmallestOf ==
  ASSUME NEW T \in SUBSET Nat, T # {}
  PROVE  \E t \in T : \A u \in T : t <= u
<1> DEFINE R == {ss \in Nat \X Nat : ss[1] < ss[2]}
<1>1. IsWellFoundedOn(R, Nat)
  BY Zenon, NatLessThanWellFounded DEF OpToRel
<1> HIDE DEF R
<1>2. PICK t \in T : \A u \in T : ~(<<u, t>> \in R)
  BY Zenon, <1>1, WFMin
<1>3. \A u \in T : t <= u
  <2> TAKE u \in T
  <2>1. u < t => <<u, t>> \in R
    BY Zenon DEF R
  <2> QED
    BY <1>2, <2>1
<1> QED
  BY Zenon, <1>3

(* Max is the largest element of a bounded set.                             *)
LEMMA MaxIsMax ==
  ASSUME NEW n \in Nat, NEW S \in SUBSET (0 .. n), S # {}
  PROVE  Max(S) \in S /\ \A y \in S : y <= Max(S)
<1> DEFINE T == {n - y : y \in S}
<1>1. PICK t \in T : \A u \in T : t <= u
  <2>1. \A y \in S : n - y \in Nat
    OBVIOUS
  <2>2. T \in SUBSET Nat /\ T # {}
    BY Zenon, <2>1
  <2> HIDE DEF T
  <2> QED
    BY Zenon, <2>2, SmallestOf
<1>2. PICK x \in S : t = n - x
  BY Zenon
<1>3. \A y \in S : x >= y
  <2> TAKE y \in S
  <2>1. t <= n - y
    BY Zenon, <1>1
  <2> QED
    BY <1>2, <2>1
<1>4. Max(S) = CHOOSE z \in S : \A y \in S : z >= y
  BY Zenon DEF Max
<1> QED
  BY Zenon, <1>3, <1>4

(* The same for two numbers.                                                *)
LEMMA MaxOfTwo ==
  ASSUME NEW n \in Nat, NEW a \in 0 .. n, NEW b \in 0 .. n
  PROVE  Max({a, b}) \in {a, b} /\ a <= Max({a, b}) /\ b <= Max({a, b})
BY Zenon, MaxIsMax, {a, b} \in SUBSET (0 .. n), {a, b} # {}

(* A function on 1 .. n is a sequence of length n.                          *)
LEMMA FcnIsSeq ==
  ASSUME NEW S, NEW n \in Nat, NEW f \in [1 .. n -> S]
  PROVE  f \in Seq(S) /\ Len(f) = n /\ DOMAIN f = 1 .. n
<1>1. f \in Seq(S)
  OBVIOUS
<1>2. DOMAIN f = 1 .. Len(f)
  BY <1>1
<1> QED
  BY <1>1, <1>2

(* A closure queued is the last pending one.                                *)
LEMMA AppendsJoin ==
  ASSUME NEW b \in Seq(Closures), NEW q \in Seq(Closures), NEW c \in Closures
  PROVE  b \o Append(q, c) = Append(b \o q, c)
OBVIOUS

(* Moving a closure from the queue to the batch leaves the order.           *)
LEMMA TakesJoin ==
  ASSUME NEW b \in Seq(Closures), NEW q \in Seq(Closures), q # <<>>
  PROVE  Append(b, Head(q)) \o Tail(q) = b \o q
OBVIOUS

(* Without a batch the pending closures are the queue.                      *)
LEMMA EmptyJoin ==
  ASSUME NEW q \in Seq(Closures)
  PROVE  <<>> \o q = q
OBVIOUS

(* What joining two sequences gives.                                       *)
LEMMA JoinIs ==
  ASSUME NEW T, NEW q \in Seq(T), NEW r \in Seq(T)
  PROVE  /\ q \o r \in Seq(T) /\ Len(q) \in Nat /\ Len(r) \in Nat
         /\ Len(q \o r) = Len(q) + Len(r) /\ DOMAIN (q \o r) = 1 .. Len(q) + Len(r)
         /\ \A k \in 1 .. Len(q) : (q \o r)[k] = q[k]
         /\ \A j \in 1 .. Len(r) : (q \o r)[Len(q) + j] = r[j]
OBVIOUS

(* The start of a sequence.                                                *)
LEMMA StartIs ==
  ASSUME NEW T, NEW q \in Seq(T), NEW n \in 0 .. Len(q)
  PROVE  /\ SubSeq(q, 1, n) \in Seq(T) /\ Len(SubSeq(q, 1, n)) = n
         /\ \A k \in 1 .. n : SubSeq(q, 1, n)[k] = q[k]
OBVIOUS

(* The end of a sequence.                                                  *)
LEMMA EndIs ==
  ASSUME NEW T, NEW q \in Seq(T), NEW n \in 0 .. Len(q)
  PROVE  /\ SubSeq(q, n + 1, Len(q)) \in Seq(T)
         /\ Len(SubSeq(q, n + 1, Len(q))) = Len(q) - n
         /\ DOMAIN SubSeq(q, n + 1, Len(q)) = 1 .. Len(q) - n
         /\ \A k \in 1 .. Len(q) - n : SubSeq(q, n + 1, Len(q))[k] = q[n + k]
OBVIOUS

(* What is left of the queue, when its head is taken.                      *)
LEMMA NoTruncateLeft ==
  ASSUME NEW q \in Seq(Closures), q # <<>>, \A k \in DOMAIN q : q[k].kind # "truncate"
  PROVE  /\ Tail(q) \in Seq(Closures) /\ Head(q) \in Closures /\ Head(q).kind # "truncate"
         /\ \A k \in DOMAIN Tail(q) : Tail(q)[k].kind # "truncate"
OBVIOUS

-----------------------------------------------------------------------------
(* Types.                                                                  *)

(* Reading answers a term, whatever is in memory.                          *)
LEMMA TermTyped ==
  ASSUME LogTypeOK, NEW q \in Seq(Nat \X Nat), NEW i \in Int
  PROVE  TermIn(q, i) \in Nat
<1>1. EntryFromMemory(q, i) \in Nat \X Nat
  <2> DEFINE k == i - q[Len(q)][2] + Len(q)
  <2>1. CASE q # <<>> /\ k \in DOMAIN q
    BY <2>1 DEF EntryFromMemory
  <2>2. CASE ~(q # <<>> /\ k \in DOMAIN q)
    BY Zenon, <2>2 DEF EntryFromMemory, NoEntry
  <2> QED
    BY Zenon, <2>1, <2>2
<1>2. i \in 1 .. max => store[i] \in Nat
  BY LogManagerAssumption DEF LogTypeOK, Index, LogManagerAssumption
<1> QED
  BY Zenon, <1>1, <1>2 DEF TermIn

(* unsafe_truncate_suffix leaves entries in memory and queues a closure.   *)
LEMMA CutTyped ==
  ASSUME LogTypeOK, NEW q \in Seq(Nat \X Nat), NEW n \in Nat
  PROVE  CutMemory(q, n) \in Seq(Nat \X Nat) /\ TruncateClosure(q, n) \in Closures
<1> DEFINE S == {0} \cup {k \in DOMAIN q : q[k][2] <= n}
<1>1. S \in SUBSET (0 .. Len(q)) /\ S # {}
  OBVIOUS
<1> HIDE DEF S
<1>2. Max(S) \in 0 .. Len(q)
  <2>1. Len(q) \in Nat
    OBVIOUS
  <2> QED
    BY <1>1, <2>1, MaxIsMax, Zenon
<1>3. SubSeq(q, 1, Max(S)) \in Seq(Nat \X Nat)
  BY <1>2
<1>4. CutMemory(q, n) \in Seq(Nat \X Nat)
  BY Zenon, <1>3 DEF CutMemory, S
<1>5. TruncateClosure(q, n) \in Closures
  <2>1. TermIn(q, n) \in Nat
    BY TermTyped
  <2> QED
    BY Zenon, <2>1 DEF TruncateClosure, Closures
<1> QED
  BY Zenon, <1>4, <1>5

(* The common end of append_entries keeps the types, and _last_log_index   *)
(* does not move back behind the entries just stored.                      *)
LEMMA StoreTyped ==
  ASSUME LogTypeOK, LogManagerAssumption,
         NEW q \in Seq(Nat \X Nat), NEW from \in Nat,
         NEW ids \in Seq(EntryId), ids # <<>>, NEW before \in Seq(Closures),
         \A k \in DOMAIN ids : ids[k][2] <= ids[Len(ids)][2],
         Store(q, max, from, ids, before)
  PROVE  /\ max' \in 0 .. MaxIndex /\ last' \in 0 .. max' /\ from <= last'
         /\ \A k \in DOMAIN ids : from + 1 >= ids[k][2] => ids[k][2] <= last'
         /\ mem' \in Seq(Nat \X Nat) /\ bits' \in SUBSET Index
<1> DEFINE top    == Max({max, ids[Len(ids)][2]})
           padded == q \o Nulls(top - max)
           filled == Written(padded, top, ids)
<1>1. ids[Len(ids)] \in EntryId /\ ids[Len(ids)][2] \in 0 .. MaxIndex
  <2>1. Len(ids) \in DOMAIN ids
    OBVIOUS
  <2> QED
    BY <2>1 DEF EntryId, Index
<1>2. MaxIndex \in Nat /\ max \in 0 .. MaxIndex
  BY Zenon, LogManagerAssumption DEF LogTypeOK, LogManagerAssumption
<1>3. /\ top \in 0 .. MaxIndex /\ max <= top /\ ids[Len(ids)][2] <= top
      /\ max \in Nat /\ top - max \in Nat
  <2>1. top \in {max, ids[Len(ids)][2]} /\ max <= top /\ ids[Len(ids)][2] <= top
    BY <1>1, <1>2, MaxOfTwo, Zenon
  <2> HIDE DEF top
  <2> QED
    BY <1>1, <1>2, <2>1
<1>4. Nulls(top - max) \in Seq(Nat \X Nat)
  <2>1. Nulls(top - max) \in [1 .. top - max -> Nat \X Nat]
    BY Zenon, <1>3 DEF Nulls, NoEntry
  <2> QED
    BY Zenon, <2>1, <1>3, FcnIsSeq
<1>5. padded \in Seq(Nat \X Nat)
  BY <1>4
<1>6. filled \in Seq(Nat \X Nat)
  <2> HIDE DEF padded, top
  <2>1. \A e \in Range(ids) : e \in Nat \X Nat
    BY DEF Range, EntryId, Index
  <2>2. ASSUME NEW k \in DOMAIN padded, NEW j \in DOMAIN ids, Slot(padded, top, ids[j][2]) = k
        PROVE  (CHOOSE e \in Range(ids) : Slot(padded, top, e[2]) = k) \in Nat \X Nat
    <3>1. ids[j] \in Range(ids)
      BY Zenon DEF Range
    <3> QED
      BY Zenon, <2>1, <2>2, <3>1
  <2>3. filled \in [1 .. Len(padded) -> Nat \X Nat]
    <3> DEFINE F(k) == IF \E j \in DOMAIN ids : Slot(padded, top, ids[j][2]) = k
                       THEN CHOOSE e \in Range(ids) : Slot(padded, top, e[2]) = k
                       ELSE padded[k]
    <3>1. filled = [k \in DOMAIN padded |-> F(k)]
      BY Zenon DEF Written
    <3>2. ASSUME NEW k \in DOMAIN padded PROVE F(k) \in Nat \X Nat
      <4>1. CASE \E j \in DOMAIN ids : Slot(padded, top, ids[j][2]) = k
        BY Zenon, <2>2, <4>1
      <4>2. CASE ~\E j \in DOMAIN ids : Slot(padded, top, ids[j][2]) = k
        BY <1>5, <4>2
      <4> QED
        BY Zenon, <4>1, <4>2
    <3>3. DOMAIN padded = 1 .. Len(padded)
      BY <1>5
    <3> HIDE DEF F, filled
    <3> QED
      BY Zenon, <3>1, <3>2, <3>3
  <2>4. Len(padded) \in Nat
    BY <1>5
  <2> HIDE DEF filled
  <2> QED
    BY <2>3, <2>4, FcnIsSeq, Zenon
<1>7. max' = top /\ mem' = filled
  BY Zenon DEF Store
<1>8. PICK n \in 0 .. MaxIndex : Advances(filled, top, ids, from, n) /\ last' = n
  BY Zenon DEF Store
<1>9. last' \in 0 .. max' /\ from <= last'
  BY <1>3, <1>7, <1>8 DEF Advances
<1>10. ASSUME NEW k \in DOMAIN ids, from + 1 >= ids[k][2]
       PROVE  ids[k][2] <= last'
  <2> HIDE DEF top, filled
  <2>1. n \in from .. top /\ (n < top => ids[k][2] # n + 1)
    BY Zenon, <1>3, <1>8 DEF Advances, MayBeNull
  <2>2. ids[k][2] \in Nat
    BY DEF EntryId, Index
  <2>3. ids[k][2] <= top
    BY <1>1, <1>3, <2>2
  <2>4. last' = n /\ n \in Nat /\ top \in Nat
    BY <1>2, <1>3, <1>8
  <2> DEFINE x == ids[k][2]
  <2> HIDE DEF x
  <2>5. from + 1 >= x /\ x \in Nat /\ x <= top /\ (n < top => x # n + 1)
    BY Zenon, <1>10, <2>1, <2>2, <2>3 DEF x
  <2>6. x <= n
    BY <2>1, <2>4, <2>5
  <2> QED
    BY Zenon, <2>4, <2>6 DEF x
<1>11. bits' \in SUBSET Index
  <2>1. bits' = bits \cup {ids[k][2] : k \in DOMAIN ids}
    BY Zenon DEF Store
  <2>2. \A k \in DOMAIN ids : ids[k][2] \in Index
    BY DEF EntryId
  <2>3. bits \in SUBSET Index
    BY Zenon DEF LogTypeOK
  <2> QED
    BY Zenon, <2>1, <2>2, <2>3
<1> QED
  BY Zenon, <1>3, <1>6, <1>7, <1>9, <1>10, <1>11

(* The closure that append_entries queues for the entries ids.             *)
LEMMA EntriesClosureIs ==
  ASSUME NEW ids \in Seq(EntryId),
         \A j, k \in DOMAIN ids : ids[j][2] = ids[k][2] => j = k
  PROVE  /\ EntriesClosure(ids) \in Appends /\ EntriesClosure(ids).ids = ids
         /\ WellFormed(EntriesClosure(ids))
<1> DEFINE acks == {Ack(id, FALSE) : id \in Range(ids)}
           c    == EntriesClosure(ids)
<1>1. acks \in SUBSET AckOf
  <2>1. ASSUME NEW id \in Range(ids) PROVE Ack(id, FALSE) \in AckOf
    BY DEF Ack, AckOf, Range
  <2> QED
    BY Zenon, <2>1
<1>2. c \in Appends /\ c.ids = ids /\ c.acks = acks
  BY Zenon, <1>1 DEF EntriesClosure, AppendClosure, Appends
<1>3. \A a \in acks : \E j \in DOMAIN ids : ids[j] = a.id
  BY DEF Ack, Range
<1>4. WellFormed(c)
  BY Zenon, <1>2, <1>3 DEF WellFormed
<1> QED
  BY Zenon, <1>2, <1>4

(* What a leader's append_entries does.                                    *)
LEMMA LeaderStores ==
  ASSUME LogTypeOK, LogManagerAssumption, NEW n \in 1 .. MaxIndex, LeaderAppend(n)
  PROVE  /\ max' \in 0 .. MaxIndex /\ last' \in 0 .. max' /\ last + n <= last'
         /\ mem' \in Seq(Nat \X Nat) /\ bits' \in SUBSET Index
         /\ waiting' = [w \in Waiter |-> -1]
         /\ \E c \in Appends : /\ c.ids = [k \in 1 .. n |-> <<curTerm, last + k>>]
                               /\ WellFormed(c) /\ queue' = Append(queue, c)
<1> DEFINE ids == [k \in 1 .. n |-> <<curTerm, last + k>>]
<1>0. MaxIndex \in Nat
  BY Zenon, LogManagerAssumption DEF LogManagerAssumption
<1>1. last \in Nat /\ n \in Nat /\ last + n <= MaxIndex /\ curTerm \in Nat \ {0}
  BY <1>0 DEF LogTypeOK, LeaderAppend
<1>2. ids \in [1 .. n -> EntryId]
  BY <1>1 DEF EntryId, Index
<1>3. ids \in Seq(EntryId) /\ Len(ids) = n /\ DOMAIN ids = 1 .. n
  BY Zenon, <1>1, <1>2, FcnIsSeq
<1>4. ids[Len(ids)] = <<curTerm, last + n>> /\ ids # <<>>
  BY <1>1, <1>3
<1>5. /\ \A k \in DOMAIN ids : ids[k][2] <= ids[Len(ids)][2]
      /\ \A j, k \in DOMAIN ids : ids[j][2] = ids[k][2] => j = k
  BY <1>1, <1>3, <1>4
<1>6. Store(mem, max, last + n, ids, queue) /\ last + n \in Nat
  BY <1>1 DEF LeaderAppend
<1>7. mem \in Seq(Nat \X Nat) /\ queue \in Seq(Closures)
  BY Zenon DEF LogTypeOK
<1>8. waiting' = [w \in Waiter |-> -1]
  BY Zenon, <1>6 DEF Store
<1> HIDE DEF ids
<1>9. \E c \in Appends : c.ids = ids /\ WellFormed(c) /\ queue' = Append(queue, c)
  <2>1. queue' = Append(queue, EntriesClosure(ids))
    BY Zenon, <1>6 DEF Store
  <2> QED
    BY Zenon, <1>3, <1>5, <2>1, EntriesClosureIs
<1>10. /\ max' \in 0 .. MaxIndex /\ last' \in 0 .. max' /\ last + n <= last'
       /\ mem' \in Seq(Nat \X Nat) /\ bits' \in SUBSET Index
  BY Zenon, <1>3, <1>4, <1>5, <1>6, <1>7, StoreTyped
<1> QED
  BY Zenon, <1>8, <1>9, <1>10 DEF ids

(* What a follower's append_entries queues: a duplicate; or the entry,     *)
(* beyond the last index when it arrives in order; or a truncation just    *)
(* before it and the entry.                                                *)
FollowerQueues(i, c) ==
  \/ c.ids = <<>> /\ queue' = Append(queue, c) /\ UNCHANGED <<last, log>>
  \/ /\ c.ids = <<<<leaderLog[i], i>>>>
     /\ queue' = Append(queue, c) /\ last <= last'
     /\ ~OORep => i > last /\ i <= last'
     /\ log' = [log EXCEPT ![i] = leaderLog[i]]
  \/ /\ c.ids = <<<<leaderLog[i], i>>>>
     /\ \E d \in Closures : /\ d.kind = "truncate" /\ d.id[2] = i - 1
                            /\ queue' = Append(Append(queue, d), c)
     /\ i <= last'
     /\ log' = [j \in Index |-> IF j = i THEN leaderLog[i] ELSE IF j > i THEN 0 ELSE log[j]]

(* append_entries on a follower keeps the types and queues just that.      *)
LEMMA FollowerStores ==
  ASSUME LogTypeOK, LogManagerAssumption, NEW i \in Index, FollowerAppend(i)
  PROVE  /\ max' \in 0 .. MaxIndex /\ last' \in 0 .. max'
         /\ mem' \in Seq(Nat \X Nat) /\ bits' \in SUBSET Index
         /\ waiting' = [w \in Waiter |-> -1]
         /\ leaderLog[i] \in Nat \ {0}
         /\ \E c \in Appends : WellFormed(c) /\ FollowerQueues(i, c)
<1> DEFINE id   == <<leaderLog[i], i>>
           cut  == Conflicting(id) /\ i <= last
           kept == IF cut THEN CutMemory(mem, i - 1) ELSE mem
           from == IF cut THEN i - 1 ELSE last
           d    == TruncateClosure(kept, i - 1)
           before == IF cut THEN Append(queue, d) ELSE queue
<1>0. MaxIndex \in Nat /\ i \in Nat \ {0} /\ i - 1 \in Nat
  BY LogManagerAssumption DEF LogManagerAssumption, Index
<1>1. /\ mem \in Seq(Nat \X Nat) /\ queue \in Seq(Closures) /\ leaderLog \in Seq(Nat \ {0})
      /\ max \in 0 .. MaxIndex /\ last \in 0 .. max /\ bits \in SUBSET Index
      /\ log \in [Index -> Nat]
  BY Zenon DEF LogTypeOK
<1>2. leaderLog[i] \in Nat \ {0} /\ id \in EntryId /\ from \in Nat
  <2>1. i \in DOMAIN leaderLog
    BY Zenon DEF FollowerAppend
  <2>2. leaderLog[i] \in Nat \ {0}
    BY <1>1, <2>1
  <2> QED
    BY <1>0, <1>1, <2>2 DEF EntryId
<1>3. CASE i <= max /\ ~Conflicting(id) /\ ~OORep
  <2> DEFINE c == AppendClosure(<<>>, {Ack(id, TRUE)})
  <2>1. c \in Appends /\ c.ids = <<>> /\ WellFormed(c)
    BY <1>2 DEF AppendClosure, Appends, Ack, AckOf, WellFormed
  <2>2. /\ queue' = Append(queue, c)
        /\ waiting' = [w \in Waiter |-> -1] /\ UNCHANGED <<memVars, log>>
    BY Zenon, <1>3 DEF FollowerAppend
  <2> QED
    BY Zenon, <1>1, <1>2, <2>1, <2>2 DEF FollowerQueues, memVars
<1>4. CASE ~(i <= max /\ ~Conflicting(id) /\ ~OORep)
  <2>1. Store(kept, max, from, <<id>>, before)
    BY Zenon, <1>4 DEF FollowerAppend
  <2>2. kept \in Seq(Nat \X Nat) /\ d \in Closures /\ before \in Seq(Closures)
    <3>1. CutMemory(mem, i - 1) \in Seq(Nat \X Nat)
      BY Zenon, <1>0, <1>1, CutTyped
    <3>2. kept \in Seq(Nat \X Nat)
      BY Zenon, <1>1, <3>1
    <3> HIDE DEF kept
    <3>3. d \in Closures
      BY Zenon, <1>0, <3>2, CutTyped
    <3> QED
      BY <1>1, <3>2, <3>3
  <2>3. /\ <<id>> \in Seq(EntryId) /\ <<id>> # <<>> /\ DOMAIN <<id>> = {1} /\ <<id>>[1][2] = i
        /\ \A k \in DOMAIN <<id>> : <<id>>[k][2] <= <<id>>[Len(<<id>>)][2]
        /\ \A j, k \in DOMAIN <<id>> : <<id>>[j][2] = <<id>>[k][2] => j = k
    BY <1>0, <1>2
  <2>4. waiting' = [w \in Waiter |-> -1]
    BY Zenon, <2>1 DEF Store
  <2>5. log' = [j \in Index |-> IF j = i THEN leaderLog[i]
                                ELSE IF cut /\ j > i THEN 0 ELSE log[j]]
    BY Zenon, <1>4 DEF FollowerAppend
  <2>6. d.kind = "truncate" /\ d.id[2] = i - 1
    BY Zenon DEF TruncateClosure
  <2>7. ~OORep => (~cut => i > last) /\ from + 1 >= i
    <3>1. ~OORep => i <= last + 1 /\ (i <= max => Conflicting(id))
      BY Zenon, <1>4 DEF FollowerAppend
    <3>2. last \in Nat /\ max \in Nat /\ last <= max
      BY <1>0, <1>1
    <3> HIDE DEF id
    <3> QED
      BY <1>0, <3>1, <3>2
  <2> HIDE DEF kept, d, id
  <2>8. PICK c \in Appends : c.ids = <<id>> /\ WellFormed(c) /\ queue' = Append(before, c)
    <3>1. queue' = Append(before, EntriesClosure(<<id>>))
      BY Zenon, <2>1 DEF Store
    <3> HIDE DEF before
    <3> QED
      BY Zenon, <2>3, <3>1, EntriesClosureIs
  <2>9. /\ max' \in 0 .. MaxIndex /\ last' \in 0 .. max' /\ from <= last'
        /\ \A k \in DOMAIN <<id>> : from + 1 >= <<id>>[k][2] => <<id>>[k][2] <= last'
        /\ mem' \in Seq(Nat \X Nat) /\ bits' \in SUBSET Index
    BY Zenon, <1>2, <2>1, <2>2, <2>3, StoreTyped
  <2>10. from + 1 >= i => i <= last'
    BY Zenon, <2>3, <2>9
  <2>11. FollowerQueues(i, c)
    <3>1. CASE cut
      BY <1>0, <2>2, <2>5, <2>6, <2>8, <2>10, <3>1 DEF FollowerQueues, id
    <3>2. CASE ~cut
      <4>1. log' = [log EXCEPT ![i] = leaderLog[i]]
        BY Zenon, <1>1, <2>5, <3>2
      <4> QED
        BY Zenon, <2>7, <2>8, <2>9, <2>10, <3>2, <4>1 DEF FollowerQueues, id
    <3> QED
      BY Zenon, <3>1, <3>2
  <2> QED
    BY Zenon, <1>2, <2>4, <2>8, <2>9, <2>11
<1> QED
  BY Zenon, <1>3, <1>4

(* The types hold at the start.                                            *)
LEMMA LogTypeInit ==
  ASSUME LogManagerAssumption, LogInit
  PROVE  LogTypeOK
<1>1. MaxIndex \in Nat
  BY Zenon, LogManagerAssumption DEF LogManagerAssumption
<1>2. waiting \in [Waiter -> -1 .. MaxIndex] /\ clearing \in [Threads -> (Nat \X Nat) \cup {NoId}]
  BY <1>1 DEF LogInit
<1>3. /\ store \in [Index -> Nat] /\ log \in [Index -> Nat]
      /\ max \in 0 .. MaxIndex /\ last \in 0 .. max
      /\ diskId \in Nat \X Nat /\ appliedId \in Nat \X Nat
  BY <1>1 DEF LogInit, NoEntry
<1>4. /\ leaderLog \in Seq(Nat \ {0}) /\ mem \in Seq(Nat \X Nat) /\ queue \in Seq(Closures)
      /\ batch \in Seq(Appends) /\ toAppend \in Seq(EntryId)
      /\ lastId \in (Nat \X Nat) \cup {NoId}
  BY DEF LogInit
<1>5. /\ curTerm \in Nat \ {0} /\ leader \in {"self", "other", "none"}
      /\ elected \in SUBSET Seq(Nat) /\ bits \in SUBSET Index
      /\ restarts \in Nat /\ acked \in SUBSET AckOf
  BY DEF LogInit
<1>6. hasError \in BOOLEAN /\ stopped \in BOOLEAN /\ answered \in BOOLEAN
  BY Zenon DEF LogInit
<1> QED
  BY Zenon, <1>2, <1>3, <1>4, <1>5, <1>6 DEF LogTypeOK

(* The numbers among them.                                                 *)
LEMMA LogNumbers ==
  ASSUME LogManagerAssumption, LogTypeOK
  PROVE  /\ MaxIndex \in Nat /\ Index \in SUBSET Nat /\ last \in Nat /\ max \in Nat
         /\ last <= max /\ max <= MaxIndex
         /\ log \in [Index -> Nat] /\ store \in [Index -> Nat]
<1>1. MaxIndex \in Nat /\ Index \in SUBSET Nat
  BY LogManagerAssumption DEF LogManagerAssumption, Index
<1>2. /\ max \in 0 .. MaxIndex /\ last \in 0 .. max
      /\ log \in [Index -> Nat] /\ store \in [Index -> Nat]
  BY Zenon DEF LogTypeOK
<1> QED
  BY <1>1, <1>2

(* Every step keeps the types.                                             *)
LEMMA LogTypeStep ==
  ASSUME LogTypeOK, LogManagerAssumption, [LogNext]_logVars
  PROVE  LogTypeOK'
<1>0. MaxIndex \in Nat /\ MaxTerm \in Nat /\ Index \in SUBSET Nat
  BY LogManagerAssumption DEF LogManagerAssumption, Index
<1>t. /\ curTerm \in Nat \ {0} /\ leaderLog \in Seq(Nat \ {0}) /\ elected \in SUBSET Seq(Nat)
      /\ max \in 0 .. MaxIndex /\ last \in 0 .. max
      /\ mem \in Seq(Nat \X Nat) /\ diskId \in Nat \X Nat /\ appliedId \in Nat \X Nat
      /\ clearing \in [Threads -> (Nat \X Nat) \cup {NoId}]
      /\ queue \in Seq(Closures) /\ batch \in Seq(Appends) /\ toAppend \in Seq(EntryId)
      /\ lastId \in (Nat \X Nat) \cup {NoId}
      /\ store \in [Index -> Nat] /\ log \in [Index -> Nat]
      /\ waiting \in [Waiter -> -1 .. MaxIndex] /\ acked \in SUBSET AckOf
  BY Zenon DEF LogTypeOK
<1> DEFINE AllWaiters == [Waiter -> -1 .. MaxIndex]
<1>1. ASSUME NEW n \in 1 .. MaxIndex, LeaderAppend(n) PROVE LogTypeOK'
  <2>1. /\ max' \in 0 .. MaxIndex /\ last' \in 0 .. max'
        /\ mem' \in Seq(Nat \X Nat) /\ bits' \in SUBSET Index
        /\ waiting' = [w \in Waiter |-> -1]
        /\ \E c \in Appends : queue' = Append(queue, c)
    BY Zenon, <1>1, LeaderStores
  <2>2. queue' \in Seq(Closures) /\ waiting' \in AllWaiters
    BY <1>0, <1>t, <2>1 DEF Closures
  <2>3. log' \in [Index -> Nat]
    BY Zenon, <1>1, <1>t DEF LeaderAppend
  <2> QED
    BY Zenon, <1>1, <2>1, <2>2, <2>3 DEF LeaderAppend, LogTypeOK, envVars, idVars
<1>2. ASSUME NEW i \in Index, FollowerAppend(i) PROVE LogTypeOK'
  <2>1. /\ max' \in 0 .. MaxIndex /\ last' \in 0 .. max'
        /\ mem' \in Seq(Nat \X Nat) /\ bits' \in SUBSET Index
        /\ waiting' = [w \in Waiter |-> -1] /\ leaderLog[i] \in Nat \ {0}
    BY Zenon, <1>2, FollowerStores
  <2>2. PICK c \in Appends : FollowerQueues(i, c)
    BY Zenon, <1>2, FollowerStores
  <2>3. queue' \in Seq(Closures) /\ log' \in [Index -> Nat]
    <3>1. c \in Closures /\ \A d \in Closures : /\ Append(queue, c) \in Seq(Closures)
                                               /\ Append(Append(queue, d), c) \in Seq(Closures)
      BY <1>t DEF Closures
    <3>2. queue' \in Seq(Closures)
      BY Zenon, <2>2, <3>1 DEF FollowerQueues
    <3>3. log' \in [Index -> Nat]
      <4>1. [log EXCEPT ![i] = leaderLog[i]] \in [Index -> Nat]
        BY Zenon, <1>t, <2>1
      <4>2. [j \in Index |-> IF j = i THEN leaderLog[i] ELSE IF j > i THEN 0 ELSE log[j]]
              \in [Index -> Nat]
        BY Zenon, <1>t, <2>1
      <4> QED
        BY Zenon, <1>t, <2>2, <4>1, <4>2 DEF FollowerQueues
    <3> QED
      BY Zenon, <3>2, <3>3
  <2>4. waiting' \in AllWaiters
    BY <1>0, <2>1
  <2> QED
    BY Zenon, <1>2, <2>1, <2>3, <2>4 DEF FollowerAppend, LogTypeOK, envVars, idVars
<1>3. CASE DiskTake
  <2>1. Head(queue) \in Appends /\ Tail(queue) \in Seq(Closures)
    <3>1. queue # <<>> /\ Head(queue).kind = "append"
      BY Zenon, <1>3 DEF DiskTake
    <3>2. Head(queue) \in Closures /\ Tail(queue) \in Seq(Closures)
      BY <1>t, <3>1
    <3> QED
      BY Zenon, <3>1, <3>2 DEF Closures
  <2>2. Head(queue).ids \in Seq(EntryId)
    BY Zenon, <2>1 DEF Appends
  <2>3. /\ batch' \in Seq(Appends) /\ toAppend' \in Seq(EntryId)
        /\ queue' \in Seq(Closures) /\ lastId' \in (Nat \X Nat) \cup {NoId}
    BY <1>3, <2>1, <2>2 DEF DiskTake, CurrentId, LogTypeOK
  <2> QED
    BY Zenon, <1>3, <2>3 DEF DiskTake, LogTypeOK, envVars, memVars, idVars,
       flagVars, histVars
<1>4. CASE DiskOther
  <2> DEFINE c == Head(queue)
  <2>1. c \in Closures /\ Tail(queue) \in Seq(Closures)
    <3>1. queue # <<>>
      BY Zenon, <1>4 DEF DiskOther
    <3> QED
      BY <1>t, <3>1
  <2>2. CurrentId \in (Nat \X Nat) \cup {NoId}
    BY Zenon DEF CurrentId, LogTypeOK
  <2>3. /\ acked' \in SUBSET AckOf /\ lastId' \in (Nat \X Nat) \cup {NoId}
        /\ store' \in [Index -> Nat] /\ answered' \in BOOLEAN
    <3>1. CASE c.kind = "append"
      <4>1. c.acks \in SUBSET AckOf
        BY Zenon, <2>1, <3>1 DEF Closures, Appends
      <4>2. acked' = acked \cup c.acks /\ lastId' = CurrentId /\ UNCHANGED <<store, answered>>
        BY Zenon, <1>4, <3>1 DEF DiskOther
      <4> QED
        BY Zenon, <4>1, <4>2, <2>2 DEF LogTypeOK
    <3>2. CASE c.kind = "truncate"
      <4>1. c.id \in Nat \X Nat
        BY Zenon, <2>1, <3>2 DEF Closures, Appends
      <4>2. /\ store' = [i \in Index |-> IF i > c.id[2] THEN 0 ELSE store[i]]
            /\ acked' = {a \in acked : a.id[2] <= c.id[2]}
            /\ lastId' = c.id /\ UNCHANGED answered
        BY Zenon, <1>4, <3>2 DEF DiskOther
      <4> QED
        BY Zenon, <4>1, <4>2 DEF LogTypeOK
    <3>3. CASE c.kind = "last"
      <4>1. /\ lastId' = CurrentId /\ UNCHANGED <<store, acked>>
            /\ answered' = (answered /\ (hasError \/ CurrentId = c.id))
        BY Zenon, <1>4, <3>3 DEF DiskOther
      <4> QED
        BY Zenon, <4>1, <2>2 DEF LogTypeOK
    <3> QED
      BY Zenon, <2>1, <3>1, <3>2, <3>3 DEF Closures, Appends
  <2>4. queue' \in Seq(Closures)
    BY Zenon, <1>4, <2>1 DEF DiskOther
  <2> QED
    BY Zenon, <1>4, <2>3, <2>4 DEF DiskOther, LogTypeOK, envVars, memVars, idVars,
       flagVars
<1>5. CASE DiskEnd
  <2>1. lastId \in Nat \X Nat /\ MinId(lastId, appliedId) \in Nat \X Nat
    BY Zenon, <1>t, <1>5 DEF MinId, DiskEnd
  <2>2. diskId' \in Nat \X Nat /\ lastId' \in (Nat \X Nat) \cup {NoId} /\ clearing' \in [Threads -> (Nat \X Nat) \cup {NoId}]
    BY Zenon, <1>t, <1>5, <2>1 DEF DiskEnd
  <2> QED
    BY Zenon, <1>5, <2>2 DEF DiskEnd, LogTypeOK, envVars, memVars, flagVars, histVars
<1>6. ASSUME NEW n \in 0 .. Len(toAppend), DiskFlush(n) PROVE LogTypeOK'
  <2> DEFINE ids == SubSeq(toAppend, 1, n)
  <2>1. toAppend \in Seq(EntryId) /\ n \in Nat /\ n <= Len(toAppend)
    BY <1>6 DEF LogTypeOK
  <2>2. ids \in Seq(EntryId) /\ Len(ids) = n
    BY <2>1
  <2>3. store' \in [Index -> Nat]
    <3> DEFINE hits(i) == {k \in DOMAIN ids : ids[k][2] = i}
    <3>1. ASSUME NEW i \in Index, hits(i) # {} PROVE ids[Max(hits(i))][1] \in Nat
      <4>1. hits(i) \in SUBSET (0 .. n)
        BY <2>1, <2>2
      <4>2. Max(hits(i)) \in hits(i)
        BY <4>1, <3>1, <2>1, MaxIsMax, Zenon
      <4> HIDE DEF ids
      <4>3. Max(hits(i)) \in DOMAIN ids
        BY Zenon, <4>2
      <4> QED
        BY <2>2, <4>3 DEF EntryId
    <3>2. store' = [i \in Index |-> IF hits(i) = {} THEN store[i] ELSE ids[Max(hits(i))][1]]
      BY Zenon, <1>6 DEF DiskFlush, FlushedTerm
    <3> HIDE DEF hits, ids
    <3> QED
      BY Zenon, <3>1, <3>2 DEF LogTypeOK
  <2>4. lastId' \in (Nat \X Nat) \cup {NoId}
    <3>1. n > 0 => ids[n] \in EntryId
      BY <2>1, <2>2
    <3> HIDE DEF ids
    <3>2. lastId' = IF n > 0 THEN ids[n] ELSE lastId
      BY Zenon, <1>6 DEF DiskFlush, ids
    <3> QED
      BY Zenon, <1>t, <2>1, <3>1, <3>2, <1>0 DEF EntryId
  <2>5. acked' \in SUBSET AckOf
    <3>1. ASSUME NEW k \in DOMAIN batch PROVE batch[k].acks \in SUBSET AckOf
      <4>1. batch[k] \in Appends
        BY <1>t
      <4> QED
        BY Zenon, <4>1 DEF Appends
    <3>2. UNION {batch[k].acks : k \in DOMAIN batch} \in SUBSET AckOf
      BY Zenon, <3>1
    <3> QED
      BY Zenon, <1>6, <3>2 DEF DiskFlush, LogTypeOK
  <2>6. /\ hasError' \in BOOLEAN /\ batch' = <<>> /\ toAppend' = <<>>
        /\ UNCHANGED <<envVars, memVars, idVars, queue, stopped, waiting, restarts,
                       log, answered>>
    BY Zenon, <1>6 DEF DiskFlush, FlushOk
  <2> QED
    BY SMTT(30), <2>3, <2>4, <2>5, <2>6 DEF LogTypeOK, envVars, memVars, idVars
<1>7. CASE AskLastLogId
  <2>1. (IF last = 0 THEN NoEntry ELSE <<log[last], last>>) \in Nat \X Nat
    <3>1. last # 0 => last \in Index
      BY <1>0, <1>t DEF Index
    <3> QED
      BY Zenon, <1>0, <1>t, <3>1 DEF NoEntry
  <2>2. queue' \in Seq(Closures)
    BY <1>7, <2>1 DEF AskLastLogId, LogTypeOK, Closures
  <2> QED
    BY Zenon, <1>7, <2>2 DEF AskLastLogId, LogTypeOK, envVars, memVars, idVars,
       flagVars, histVars
<1>8. ASSUME NEW i \in Index, SetAppliedId(i) PROVE LogTypeOK'
  <2>1. GetTerm(i) \in Nat
    <3>1. i \in Int
      BY <1>0
    <3> QED
      BY Zenon, <1>t, <3>1, TermTyped DEF GetTerm
  <2>2. <<GetTerm(i), i>> \in Nat \X Nat /\ MinId(diskId, <<GetTerm(i), i>>) \in Nat \X Nat
    BY Zenon, <1>0, <1>t, <2>1 DEF MinId
  <2>3. appliedId' \in Nat \X Nat /\ clearing' \in [Threads -> (Nat \X Nat) \cup {NoId}]
    BY Zenon, <1>t, <1>8, <2>2 DEF SetAppliedId
  <2> QED
    BY Zenon, <1>8, <2>3 DEF SetAppliedId, LogTypeOK, envVars, memVars, diskVars,
       flagVars, histVars
<1>9. ASSUME NEW t \in Threads, ClearMemoryLogs(t) PROVE LogTypeOK'
  <2>1. mem' \in Seq(Nat \X Nat)
    <3>1. PICK n \in 0 .. Len(mem) : mem' = SubSeq(mem, n + 1, Len(mem))
      BY Zenon, <1>9 DEF ClearMemoryLogs
    <3> QED
      BY SMTT(30), <1>t, <3>1
  <2>2. clearing' \in [Threads -> (Nat \X Nat) \cup {NoId}]
    BY Zenon, <1>t, <1>9 DEF ClearMemoryLogs
  <2> QED
    BY Zenon, <1>9, <2>1, <2>2 DEF ClearMemoryLogs, LogTypeOK, envVars, diskVars,
       flagVars, histVars
<1>10. ASSUME NEW w \in Waiter, NEW i \in 0 .. MaxIndex, Wait(w, i) PROVE LogTypeOK'
  <2>1. waiting' \in AllWaiters
    BY <1>0, <1>10 DEF Wait, LogTypeOK
  <2> QED
    BY Zenon, <1>10, <2>1 DEF Wait, LogTypeOK, envVars, memVars, idVars, diskVars, histVars
<1>11. ASSUME NEW w \in Waiter, RemoveWaiter(w) PROVE LogTypeOK'
  <2>1. waiting' \in AllWaiters
    BY <1>0, <1>11 DEF RemoveWaiter, LogTypeOK
  <2> QED
    BY SMTT(30), <1>11, <2>1 DEF RemoveWaiter, LogTypeOK, envVars, memVars, idVars, diskVars,
       histVars
<1>12. CASE Shutdown
  <2>1. waiting' \in AllWaiters
    BY <1>0, <1>12 DEF Shutdown
  <2> QED
    BY Zenon, <1>12, <2>1 DEF Shutdown, LogTypeOK, envVars, memVars, idVars, diskVars, histVars
<1>13. OwnLog \in Seq(Nat) /\ \A l \in Seq(Nat) : Remembered(l) \in SUBSET Seq(Nat)
  <2>1. log \in Seq(Nat) /\ Len(log) = MaxIndex
    <3>1. log \in [1 .. MaxIndex -> Nat]
      BY Zenon DEF LogTypeOK, Index
    <3> QED
      BY Zenon, <1>0, <3>1, FcnIsSeq
  <2>2. OwnLog \in Seq(Nat)
    BY SMTT(30), <1>0, <2>1 DEF OwnLog, LogTypeOK
  <2> QED
    BY Zenon, <2>2 DEF Remembered, LogTypeOK
<1>14. leaderLog \in Seq(Nat)
  BY DEF LogTypeOK
<1>15. CASE Restart
  <2> DEFINE S   == {0} \cup {i \in Index : store[i] # 0}
             top == Max(S)
  <2>1. S \in SUBSET (0 .. MaxIndex) /\ S # {}
    BY <1>0 DEF Index
  <2>2. top \in S
    BY <1>0, <2>1, MaxIsMax, Zenon
  <2>3. top \in 0 .. MaxIndex /\ (top # 0 => top \in Index)
    BY Zenon, <2>1, <2>2
  <2> HIDE DEF S, top
  <2>4. /\ last' = top /\ max' = top
        /\ diskId' = IF top = 0 THEN NoEntry ELSE <<store[top], top>>
    BY Zenon, <1>15 DEF Restart, S, top
  <2>5. /\ max' \in 0 .. MaxIndex /\ last' \in 0 .. max' /\ diskId' \in Nat \X Nat
    BY <1>0, <2>3, <2>4 DEF LogTypeOK, NoEntry
  <2>6. /\ appliedId' \in Nat \X Nat /\ clearing' \in [Threads -> (Nat \X Nat) \cup {NoId}]
        /\ lastId' \in (Nat \X Nat) \cup {NoId} /\ mem' \in Seq(Nat \X Nat) /\ bits' = {}
        /\ queue' \in Seq(Closures) /\ batch' \in Seq(Appends) /\ toAppend' \in Seq(EntryId)
        /\ hasError' = FALSE /\ stopped' = FALSE /\ waiting' \in AllWaiters
        /\ restarts' \in Nat /\ log' \in [Index -> Nat]
    BY SMTT(30), <1>0, <1>15 DEF Restart, LogTypeOK, NoEntry, NoId
  <2>7. leader' \in {"self", "other", "none"} /\ elected' \in SUBSET Seq(Nat)
    BY Zenon, <1>13, <1>15 DEF Restart, LogTypeOK
  <2>8. UNCHANGED <<curTerm, leaderLog, store, acked, answered>>
    BY Zenon, <1>15 DEF Restart
  <2> QED
    BY Zenon, <2>5, <2>6, <2>7, <2>8 DEF LogTypeOK
<1>16. CASE Lead
  <2>1. elected' \in SUBSET Seq(Nat) /\ curTerm' \in Nat \ {0} /\ leader' = "self"
    BY <1>13, <1>14, <1>16 DEF Lead, LogTypeOK
  <2> QED
    BY Zenon, <1>16, <2>1 DEF Lead, LogTypeOK, memVars, idVars, diskVars, flagVars, histVars
<1>17. CASE LeaderExtends
  <2>1. leaderLog' \in Seq(Nat \ {0})
    BY <1>17 DEF LeaderExtends, LogTypeOK
  <2> QED
    BY Zenon, <1>17, <2>1 DEF LeaderExtends, LogTypeOK, memVars, idVars, diskVars,
       flagVars, histVars
<1>18. ASSUME NEW base \in elected \cup {OwnLog, leaderLog}, NEW k \in 0 .. MaxIndex,
              Follow(base, k)
       PROVE  LogTypeOK'
  <2>1. base \in Seq(Nat)
    BY Zenon, <1>13, <1>14 DEF LogTypeOK
  <2>2. leaderLog' \in Seq(Nat \ {0})
    <3>1. /\ k \in Nat /\ k <= Len(base) /\ leaderLog' = SubSeq(base, 1, k)
          /\ \A i \in 1 .. k : base[i] # 0
      BY <1>0, <1>18, <2>1 DEF Follow
    <3>2. /\ SubSeq(base, 1, k) = [i \in 1 .. k |-> base[i]]
          /\ \A i \in 1 .. k : base[i] \in Nat \ {0}
      BY <2>1, <3>1
    <3>3. SubSeq(base, 1, k) \in [1 .. k -> Nat \ {0}]
      BY Zenon, <3>2
    <3> QED
      BY Zenon, <3>1, <3>3, FcnIsSeq
  <2>3. elected' \in SUBSET Seq(Nat) /\ curTerm' \in Nat \ {0} /\ leader' = "other"
    BY <1>13, <1>14, <1>18 DEF Follow, LogTypeOK
  <2> QED
    BY Zenon, <1>18, <2>2, <2>3 DEF Follow, LogTypeOK, memVars, idVars, diskVars,
       flagVars, histVars
<1>19. CASE UNCHANGED logVars
  BY Zenon, <1>19 DEF LogTypeOK, logVars, envVars, memVars, idVars, diskVars, flagVars,
     histVars
<1> QED
  BY Zenon, <1>1, <1>2, <1>3, <1>4, <1>5, <1>6, <1>7, <1>8, <1>9, <1>10, <1>11,
     <1>12, <1>15,
     <1>16, <1>17, <1>18, <1>19 DEF LogNext

-----------------------------------------------------------------------------
(* append_entries and flush, when entries arrive in order.                 *)

(* Entries that follow _max_log_index join memory, and _last_log_index     *)
(* moves to the last of them.                                              *)
LEMMA StoreAppends ==
  ASSUME LogTypeOK, NEW ids \in Seq(EntryId), ids # <<>>,
         \A k \in DOMAIN ids : ids[k][2] = max + k,
         NEW from \in Nat, max <= from, from <= max + Len(ids),
         NEW before \in Seq(Closures), Store(mem, max, from, ids, before)
  PROVE  /\ max' = max + Len(ids) /\ last' = max' /\ mem' = mem \o ids
         /\ queue' = Append(before, EntriesClosure(ids))
         /\ waiting' = [w \in Waiter |-> -1]
<1> DEFINE n == Len(ids)
           l == Len(mem)
           top    == Max({max, ids[Len(ids)][2]})
           padded == mem \o Nulls(top - max)
           filled == Written(padded, top, ids)
<1>1. /\ n \in Nat \ {0} /\ DOMAIN ids = 1 .. n /\ max \in Nat /\ MaxIndex \in Nat
      /\ mem \in Seq(Nat \X Nat) /\ l \in Nat /\ DOMAIN mem = 1 .. l
  BY SMTT(30), LogManagerAssumption, LogNumbers DEF LogTypeOK
<1>2. top = max + n
  <2>1. ids[Len(ids)][2] = max + n
    <3>1. n \in DOMAIN ids
      BY <1>1
    <3> QED
      BY Zenon, <3>1
  <2>2. max \in 0 .. max + n /\ max + n \in 0 .. max + n /\ max + n \in Nat
    BY <1>1
  <2>3. Max({max, max + n}) \in {max, max + n} /\ max + n <= Max({max, max + n})
    BY Zenon, <2>2, MaxOfTwo
  <2> QED
    BY <1>1, <2>1, <2>3
<1> HIDE DEF top
<1>3. top - max = n /\ top \in Nat
  BY <1>1, <1>2
<1>4. /\ padded \in Seq(Nat \X Nat) /\ Len(padded) = l + n /\ DOMAIN padded = 1 .. l + n
      /\ \A k \in 1 .. l : padded[k] = mem[k]
  <2>1. Nulls(n) \in [1 .. n -> Nat \X Nat]
    BY Zenon, <1>1 DEF Nulls, NoEntry
  <2>2. Nulls(n) \in Seq(Nat \X Nat) /\ Len(Nulls(n)) = n
    BY Zenon, <1>1, <2>1, FcnIsSeq
  <2> DEFINE N == Nulls(n)
  <2>3. padded = mem \o N /\ N \in Seq(Nat \X Nat) /\ Len(N) = n
    BY Zenon, <1>3, <2>2
  <2> HIDE DEF N, padded
  <2> QED
    BY <1>1, <2>3
<1> HIDE DEF padded
<1>5. \A i \in Int : Slot(padded, top, i) = i - max + l
  BY <1>1, <1>2, <1>4 DEF Slot
<1>6. \A j \in 1 .. n : ids[j][2] \in Int /\ Slot(padded, top, ids[j][2]) = l + j
  <2> TAKE j \in 1 .. n
  <2>0. max + j \in Int
    BY <1>1
  <2>1. ids[j][2] = max + j /\ max + j \in Int
    BY Zenon, <1>1, <2>0
  <2>2. Slot(padded, top, max + j) = (max + j) - max + l
    BY Zenon, <1>5, <2>1
  <2> QED
    BY <1>1, <2>1, <2>2
<1>7. filled = mem \o ids
  <2> DEFINE F(k) == IF \E j \in DOMAIN ids : Slot(padded, top, ids[j][2]) = k
                     THEN CHOOSE e \in Range(ids) : Slot(padded, top, e[2]) = k
                     ELSE padded[k]
  <2>1. filled = [k \in 1 .. l + n |-> F(k)]
    BY Zenon, <1>4 DEF Written
  <2>2. ASSUME NEW k \in 1 .. l PROVE F(k) = mem[k]
    <3>1. ~\E j \in DOMAIN ids : Slot(padded, top, ids[j][2]) = k
      BY <1>1, <1>6
    <3> QED
      BY Zenon, <1>4, <3>1
  <2>3. ASSUME NEW j \in 1 .. n PROVE F(l + j) = ids[j]
    <3>1. Slot(padded, top, ids[j][2]) = l + j /\ ids[j] \in Range(ids)
      BY Zenon, <1>1, <1>6 DEF Range
    <3>2. ASSUME NEW e \in Range(ids), Slot(padded, top, e[2]) = l + j PROVE e = ids[j]
      <4>1. PICK h \in 1 .. n : e = ids[h]
        BY Zenon, <1>1 DEF Range
      <4>2. l + h = l + j
        BY Zenon, <1>6, <3>2, <4>1
      <4>3. h = j
        BY <1>1, <4>2
      <4> QED
        BY Zenon, <4>1, <4>3
    <3>3. (CHOOSE e \in Range(ids) : Slot(padded, top, e[2]) = l + j) = ids[j]
      BY Zenon, <3>1, <3>2
    <3> QED
      BY Zenon, <1>1, <3>1, <3>3
  <2> HIDE DEF F, filled
  <2>4. /\ mem \o ids \in Seq(Nat \X Nat) /\ DOMAIN (mem \o ids) = 1 .. l + n
        /\ \A k \in 1 .. l : (mem \o ids)[k] = mem[k]
        /\ \A j \in 1 .. n : (mem \o ids)[l + j] = ids[j]
    <3>1. ids \in Seq(Nat \X Nat)
      BY DEF EntryId, Index
    <3> QED
      BY <1>1, <3>1
  <2> DEFINE joined == mem \o ids
  <2> HIDE DEF joined
  <2>5. ASSUME NEW k \in 1 .. l + n PROVE F(k) = joined[k]
    <3>1. CASE k <= l
      <4>1. k \in 1 .. l
        BY <1>1, <3>1
      <4> QED
        BY Zenon, <2>2, <2>4, <4>1 DEF joined
    <3>2. CASE ~(k <= l)
      <4>1. k - l \in 1 .. n /\ l + (k - l) = k
        BY <1>1, <3>2
      <4>2. F(l + (k - l)) = ids[k - l] /\ joined[l + (k - l)] = ids[k - l]
        BY Zenon, <2>3, <2>4, <4>1 DEF joined
      <4> QED
        BY Zenon, <4>1, <4>2
    <3> QED
      BY Zenon, <3>1, <3>2
  <2>6. joined = [k \in 1 .. l + n |-> joined[k]]
    <3>1. joined \in Seq(Nat \X Nat) /\ DOMAIN joined = 1 .. l + n
      BY Zenon, <2>4 DEF joined
    <3> QED
      BY <3>1
  <2>7. [k \in 1 .. l + n |-> joined[k]] = [k \in 1 .. l + n |-> F(k)]
    BY Zenon, <2>5
  <2> QED
    BY Zenon, <2>1, <2>6, <2>7 DEF joined
<1>8. max' = top /\ mem' = filled /\ queue' = Append(before, EntriesClosure(ids))
  BY Zenon DEF Store, top, padded
<1>9. PICK m \in 0 .. MaxIndex : Advances(filled, top, ids, from, m) /\ last' = m
  BY Zenon DEF Store, top, padded
<1>10. m = top
  <2>1. m \in from .. top /\ (m < top => \A k \in 1 .. n : ids[k][2] # m + 1)
    BY Zenon, <1>1, <1>9 DEF Advances, MayBeNull
  <2>2. ASSUME m < top PROVE FALSE
    <3>1. m + 1 - max \in 1 .. n /\ max + (m + 1 - max) = m + 1
      BY <1>1, <1>2, <2>1, <2>2
    <3>2. ids[m + 1 - max][2] = max + (m + 1 - max)
      BY Zenon, <1>1, <3>1
    <3> QED
      BY Zenon, <2>1, <2>2, <3>1, <3>2
  <2> QED
    BY <1>1, <1>2, <2>1, <2>2
<1>11. waiting' = [w \in Waiter |-> -1]
  BY Zenon DEF Store
<1> QED
  BY Zenon, <1>2, <1>7, <1>8, <1>9, <1>10, <1>11

(* Writing entries of the log that lie behind d puts them on disk.         *)
LEMMA FlushedIs ==
  ASSUME NEW d \in Nat, NEW ids \in Seq(EntryId),
         \A k \in 1 .. Len(ids) : ids[k] = <<log[d + k], d + k>>,
         NEW i \in Nat, NEW t
  PROVE  /\ i > d /\ i <= d + Len(ids) => FlushedTerm(ids, i, t) = log[i]
         /\ ~(i > d /\ i <= d + Len(ids)) => FlushedTerm(ids, i, t) = t
<1> DEFINE hits == {k \in DOMAIN ids : ids[k][2] = i}
           n == Len(ids)
<1>1. DOMAIN ids = 1 .. n /\ n \in Nat
  OBVIOUS
<1>2. \A k \in 1 .. n : ids[k][2] = d + k /\ ids[k][1] = log[d + k]
  OBVIOUS
<1> HIDE DEF n
<1>3. CASE i > d /\ i <= d + n
  <2> DEFINE h == i - d
  <2>1. h \in 1 .. n /\ d + h = i /\ \A k \in 1 .. n : d + k = i => k = h
    BY <1>1, <1>3
  <2> HIDE DEF h
  <2>2. hits = {h}
    BY Zenon, <1>1, <1>2, <2>1
  <2>3. h \in 0 .. n /\ {h} \in SUBSET (0 .. n) /\ {h} # {}
    BY <1>1, <2>1
  <2>4. Max({h}) = h
    BY Zenon, <1>1, <2>3, MaxIsMax
  <2>5. ids[h][1] = log[i]
    BY Zenon, <1>2, <2>1
  <2> QED
    BY Zenon, <1>3, <2>2, <2>4, <2>5 DEF FlushedTerm, n
<1>4. CASE ~(i > d /\ i <= d + n)
  <2>1. \A k \in 1 .. n : d + k # i
    BY <1>1, <1>4
  <2>2. hits = {}
    BY Zenon, <1>1, <1>2, <2>1
  <2> QED
    BY Zenon, <1>4, <2>2 DEF FlushedTerm, n
<1> QED
  BY Zenon, <1>3, <1>4 DEF n

-----------------------------------------------------------------------------
(* Chains of closures.                                                     *)

(* An id is not the empty one, and its index is the one asked for.         *)
LEMMA IdAtIs ==
  ASSUME NEW l, NEW i \in Nat
  PROVE  /\ i # 0 => IdAt(l, i) = <<l[i], i>>
         /\ i = 0 => IdAt(l, i) = <<0, 0>>
         /\ IdAt(l, i)[2] = i /\ IdAt(l, i) # NoId
BY DEF IdAt, NoEntry, NoId

(* A closure queued continues the chain.                                   *)
LEMMA ChainQueued ==
  ASSUME NEW l, NEW q \in Seq(Closures), NEW a \in Nat, NEW b \in Nat, NEW x \in Nat,
         b <= x, NEW c \in Closures, Chain(l, q, a, b), Brings(l, c, b, x)
  PROVE  Chain(l, Append(q, c), a, x)
<1> DEFINE n == Len(q)
           p == Append(q, c)
<1>1. PICK e \in [0 .. n -> 0 .. b] :
        /\ e[0] = a /\ e[n] = b
        /\ \A k \in DOMAIN q : Brings(l, q[k], e[k - 1], e[k])
  BY Zenon DEF Chain
<1> DEFINE f == [k \in 0 .. n + 1 |-> IF k <= n THEN e[k] ELSE x]
<1>2. /\ n \in Nat /\ DOMAIN q = 1 .. n /\ Len(p) = n + 1 /\ DOMAIN p = 1 .. n + 1
      /\ p[n + 1] = c /\ \A k \in 1 .. n : p[k] = q[k]
  OBVIOUS
<1> HIDE DEF p, n
<1>3. f \in [0 .. n + 1 -> 0 .. x] /\ f[0] = a /\ f[n] = b /\ f[n + 1] = x
  BY <1>1, <1>2
<1>4. ASSUME NEW k \in DOMAIN p PROVE Brings(l, p[k], f[k - 1], f[k])
  <2>1. CASE k \in 1 .. n
    <3>1. f[k] = e[k] /\ f[k - 1] = e[k - 1] /\ p[k] = q[k] /\ k \in DOMAIN q
      BY <1>2, <2>1
    <3> QED
      BY Zenon, <1>1, <3>1
  <2>2. CASE k = n + 1
    <3>1. f[k] = x /\ f[k - 1] = b /\ p[k] = c
      BY <1>2, <1>3, <2>2
    <3> QED
      BY Zenon, <3>1
  <2> QED
    BY <1>2, <2>1, <2>2
<1> HIDE DEF f
<1> QED
  BY Zenon, <1>2, <1>3, <1>4 DEF Chain, p

(* Without its first closure the chain starts behind it.                   *)
LEMMA ChainTaken ==
  ASSUME NEW l, NEW q \in Seq(Closures), q # <<>>, NEW a \in Nat, NEW b \in Nat,
         Chain(l, q, a, b)
  PROVE  \E x \in 0 .. b : Brings(l, Head(q), a, x) /\ Chain(l, Tail(q), x, b)
<1> DEFINE n == Len(q)
           p == Tail(q)
<1>1. PICK e \in [0 .. n -> 0 .. b] :
        /\ e[0] = a /\ e[n] = b
        /\ \A k \in DOMAIN q : Brings(l, q[k], e[k - 1], e[k])
  BY Zenon DEF Chain
<1> DEFINE f == [k \in 0 .. n - 1 |-> e[k + 1]]
<1>2. /\ n \in Nat \ {0} /\ DOMAIN q = 1 .. n /\ Len(p) = n - 1 /\ DOMAIN p = 1 .. n - 1
      /\ Head(q) = q[1] /\ \A k \in 1 .. n - 1 : p[k] = q[k + 1]
  OBVIOUS
<1> HIDE DEF p, n
<1>3. f \in [0 .. n - 1 -> 0 .. b] /\ f[0] = e[1] /\ f[n - 1] = b /\ e[1] \in 0 .. b
  BY <1>1, <1>2
<1>4. ASSUME NEW k \in 1 .. n - 1 PROVE Brings(l, p[k], f[k - 1], f[k])
  <2>1. /\ k \in 0 .. n - 1 /\ k - 1 \in 0 .. n - 1 /\ k + 1 \in 1 .. n
        /\ (k - 1) + 1 = (k + 1) - 1
    BY <1>2
  <2>2. f[k] = e[k + 1] /\ f[k - 1] = e[(k - 1) + 1]
    BY Zenon, <2>1
  <2> QED
    BY Zenon, <1>1, <1>2, <2>1, <2>2
<1> HIDE DEF f
<1>5. Chain(l, p, e[1], b)
  BY Zenon, <1>2, <1>3, <1>4 DEF Chain
<1>6. Brings(l, Head(q), a, e[1])
  <2>1. 1 \in DOMAIN q /\ e[1 - 1] = a
    BY <1>1, <1>2
  <2> QED
    BY Zenon, <1>1, <1>2, <2>1
<1> QED
  BY Zenon, <1>3, <1>5, <1>6 DEF p

(* A chain that ends at b does not see the log beyond b.                   *)
LEMMA ChainKept ==
  ASSUME NEW l, NEW m, NEW q \in Seq(Closures), NEW a \in Nat, NEW b \in Nat,
         Chain(l, q, a, b), \A i \in 1 .. b : m[i] = l[i]
  PROVE  Chain(m, q, a, b)
<1>1. PICK e \in [0 .. Len(q) -> 0 .. b] :
        /\ e[0] = a /\ e[Len(q)] = b
        /\ \A k \in DOMAIN q : Brings(l, q[k], e[k - 1], e[k])
  BY Zenon DEF Chain
<1>2. \A i \in 0 .. b : IdAt(m, i) = IdAt(l, i)
  BY DEF IdAt
<1>3. ASSUME NEW k \in DOMAIN q PROVE Brings(m, q[k], e[k - 1], e[k])
  <2> DEFINE c == q[k]
             x == e[k - 1]
             y == e[k]
  <2>1. x \in 0 .. b /\ y \in 0 .. b
    BY <1>1
  <2>2. Brings(l, c, x, y) /\ c \in Closures
    BY <1>1
  <2> HIDE DEF c, x, y
  <2>3. ASSUME c.kind = "append" PROVE c.ids \in Seq(EntryId)
    BY Zenon, <2>2, <2>3 DEF Closures, Appends
  <2>4. ASSUME c.kind = "append", NEW j \in DOMAIN c.ids
        PROVE  c.ids[j] = IdAt(m, x + j)
    <3>1. x + j \in 0 .. b /\ c.ids[j] = IdAt(l, x + j)
      BY <2>1, <2>2, <2>3, <2>4 DEF Brings
    <3> QED
      BY Zenon, <1>2, <3>1
  <2>5. \A i \in 1 .. x : IdAt(m, i) = IdAt(l, i)
    BY <1>2, <2>1
  <2>6. ASSUME c.kind = "last" PROVE y = x /\ c.id = IdAt(m, x)
    BY Zenon, <1>2, <2>1, <2>2, <2>6 DEF Brings
  <2>7. ASSUME c.kind = "append", NEW w \in c.acks, w.dup
        PROVE  c.ids = <<>> /\ \E i \in 1 .. x : w.id = IdAt(m, i)
    BY Zenon, <2>2, <2>5, <2>7 DEF Brings
  <2>8. ASSUME c.kind = "append" PROVE y = x + Len(c.ids)
    BY Zenon, <2>2, <2>8 DEF Brings
  <2>9. Brings(m, c, x, y)
    BY Zenon, <2>4, <2>6, <2>7, <2>8 DEF Brings
  <2> QED
    BY Zenon, <2>9 DEF c, x, y
<1> QED
  BY Zenon, <1>1, <1>3 DEF Chain

(* A chain leads forward.                                                  *)
LEMMA ChainForward ==
  ASSUME NEW l, NEW q \in Seq(Closures), NEW a \in Nat, NEW b \in Nat, Chain(l, q, a, b)
  PROVE  a <= b
<1>1. PICK e \in [0 .. Len(q) -> 0 .. b] : e[0] = a
  BY Zenon DEF Chain
<1> QED
  BY <1>1

(* The closure of accepted entries brings them and reports no duplicate.   *)
LEMMA EntriesBrought ==
  ASSUME NEW ids \in Seq(EntryId), NEW l, NEW a \in Nat,
         \A k \in 1 .. Len(ids) : ids[k] = <<l[a + k], a + k>>
  PROVE  /\ EntriesClosure(ids) \in Closures /\ EntriesClosure(ids).kind = "append"
         /\ Brings(l, EntriesClosure(ids), a, a + Len(ids))
<1> DEFINE c == EntriesClosure(ids)
<1>1. \A j, k \in DOMAIN ids : ids[j][2] = ids[k][2] => j = k
  <2> TAKE j, k \in DOMAIN ids
  <2>1. j \in 1 .. Len(ids) /\ k \in 1 .. Len(ids)
    OBVIOUS
  <2>2. ids[j] = <<l[a + j], a + j>> /\ ids[k] = <<l[a + k], a + k>>
    BY Zenon, <2>1
  <2> QED
    BY <2>1, <2>2
<1>2. c \in Appends /\ c.ids = ids
  BY Zenon, <1>1, EntriesClosureIs
<1>3. c \in Closures /\ c.kind = "append"
  BY Zenon, <1>2 DEF Closures, Appends
<1>4. \A w \in c.acks : ~w.dup
  <2>1. c.acks = {Ack(id, FALSE) : id \in Range(ids)}
    BY Zenon DEF EntriesClosure, AppendClosure
  <2>2. \A id : Ack(id, FALSE).dup = FALSE
    BY Zenon DEF Ack
  <2> QED
    BY Zenon, <2>1, <2>2
<1>5. \A j \in DOMAIN ids : ids[j] = IdAt(l, a + j)
  <2> TAKE j \in DOMAIN ids
  <2>1. j \in 1 .. Len(ids) /\ a + j \in Nat /\ a + j # 0
    OBVIOUS
  <2> QED
    BY Zenon, <2>1, IdAtIs
<1> HIDE DEF c
<1>6. Brings(l, c, a, a + Len(ids))
  BY Zenon, <1>2, <1>3, <1>4, <1>5 DEF Brings
<1> QED
  BY Zenon, <1>3, <1>6 DEF c

(* A later term bounds the terms too, and so does a shorter log.           *)
LEMMA AscendingWeaker ==
  ASSUME NEW s, NEW n \in Nat, NEW m \in Nat, m <= n, NEW t \in Nat, NEW u \in Nat, t <= u,
         \A i \in 1 .. n : s[i] \in Nat, Ascending(s, n, t)
  PROVE  Ascending(s, m, u)
<1>1. \A i \in 1 .. m : i \in 1 .. n
  OBVIOUS
<1>2. \A i, j \in 1 .. m : i <= j => s[i] <= s[j]
  BY Zenon, <1>1 DEF Ascending
<1>3. \A i \in 1 .. m : s[i] \in Nat /\ s[i] <= t
  BY Zenon, <1>1 DEF Ascending
<1>4. \A i \in 1 .. m : s[i] <= u
  BY <1>3
<1> QED
  BY Zenon, <1>2, <1>4 DEF Ascending

=============================================================================
