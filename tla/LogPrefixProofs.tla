--------------------------- MODULE LogPrefixProofs ---------------------------
(***************************************************************************)
(* LogManager in order and without competing leaders: whatever the disk    *)
(* thread, clear_memory_logs, the FSMCaller and restarts do, memory and    *)
(* disk together hold the accepted log, last_log_id answers right and a    *)
(* duplicate reported stable is on disk.                                   *)
(***************************************************************************)
EXTENDS LogManagerLemmas

-----------------------------------------------------------------------------
(* What the invariant says of a state.                                     *)

(* The numbers and entries among its parts.                                *)
LEMMA PrefixFacts ==
  ASSUME PrefixInv
  PROVE  /\ MaxIndex \in Nat /\ last \in Nat /\ last <= MaxIndex /\ max = last
         /\ log \in [Index -> Nat] /\ store \in [Index -> Nat] /\ curTerm \in Nat \ {0}
         /\ leaderLog \in Seq(Nat \ {0})
         /\ \A i \in 1 .. last : i \in Index /\ log[i] \in Nat \ {0}
         /\ mem \in Seq(Nat \X Nat) /\ queue \in Seq(Closures) /\ batch \in Seq(Appends)
         /\ toAppend \in Seq(EntryId)
<1>1. LogTypeOK /\ LogIsPrefix
  BY Zenon DEF PrefixInv
<1>2. MaxIndex \in Nat /\ last \in Nat /\ last <= MaxIndex /\ max = last
  BY Zenon, <1>1, LogNumbers, LogManagerAssumption DEF LogIsPrefix
<1>3. /\ log \in [Index -> Nat] /\ store \in [Index -> Nat] /\ curTerm \in Nat \ {0}
      /\ leaderLog \in Seq(Nat \ {0}) /\ mem \in Seq(Nat \X Nat)
      /\ queue \in Seq(Closures) /\ batch \in Seq(Appends) /\ toAppend \in Seq(EntryId)
  BY Zenon, <1>1 DEF LogTypeOK
<1>4. ASSUME NEW i \in 1 .. last PROVE i \in Index /\ log[i] \in Nat \ {0}
  <2>1. i \in Index
    BY <1>2 DEF Index
  <2>2. log[i] # 0
    BY Zenon, <1>1 DEF LogIsPrefix, LastIsContiguous
  <2> QED
    BY Zenon, <1>3, <2>1, <2>2
<1> QED
  BY Zenon, <1>2, <1>3, <1>4

(* What get_entry_from_memory finds for an index of the log: its entry, or *)
(* nothing, and then the entry is on disk.                                 *)
LEMMA MemoryReads ==
  ASSUME PrefixInv, NEW i \in 1 .. last
  PROVE  \/ EntryFromMemory(mem, i) = <<log[i], i>>
         \/ EntryFromMemory(mem, i) = NoEntry /\ store[i] = log[i]
<1> DEFINE n == Len(mem)
           k == i - mem[n][2] + n
<1>1. /\ last \in Nat /\ mem \in Seq(Nat \X Nat) /\ n \in Nat /\ DOMAIN mem = 1 .. n
      /\ i \in Index
  BY PrefixFacts
<1>2. PICK d \in 0 .. last : OnDisk(d)
  BY Zenon DEF PrefixInv
<1>3. /\ store[i] = IF i <= d THEN log[i] ELSE 0
      /\ n <= last /\ last - n <= d
      /\ \A j \in DOMAIN mem : mem[j] = IdAt(log, last - n + j)
  BY Zenon, <1>1, <1>2 DEF OnDisk
<1>4. CASE mem = <<>>
  BY <1>1, <1>3, <1>4 DEF EntryFromMemory
<1>5. CASE mem # <<>>
  <2>1. n \in 1 .. n /\ last \in Nat \ {0} /\ last - n + n = last
    BY <1>1, <1>5
  <2>2. mem[n] = IdAt(log, last)
    <3> HIDE DEF n
    <3>1. mem[n] = IdAt(log, last - n + n)
      BY Zenon, <1>1, <1>3, <2>1
    <3> QED
      BY Zenon, <2>1, <3>1
  <2>3. mem[n][2] = last
    BY Zenon, <2>1, <2>2, IdAtIs
  <2>4. CASE k \in DOMAIN mem
    <3>1. last - n + k = i /\ i \in Nat \ {0}
      BY <1>1, <2>3
    <3>2. mem[k] = <<log[i], i>>
      BY Zenon, <1>3, <2>4, <3>1, IdAtIs
    <3>3. EntryFromMemory(mem, i) = mem[k]
      BY Zenon, <1>5, <2>4 DEF EntryFromMemory
    <3> QED
      BY Zenon, <3>2, <3>3
  <2>5. CASE k \notin DOMAIN mem
    <3>1. i <= d
      BY <1>1, <1>3, <2>3, <2>5
    <3>2. EntryFromMemory(mem, i) = NoEntry
      BY Zenon, <2>5 DEF EntryFromMemory
    <3> QED
      BY Zenon, <1>3, <3>1, <3>2
  <2> QED
    BY Zenon, <2>4, <2>5
<1> QED
  BY Zenon, <1>4, <1>5

(* So get_term answers the term of the accepted entry.                     *)
LEMMA ReadsLog ==
  ASSUME PrefixInv, NEW i \in 1 .. last
  PROVE  GetTerm(i) = log[i]
<1>1. max = last /\ log[i] # 0
  BY Zenon, PrefixFacts
<1>2. <<log[i], i>> # NoEntry /\ <<log[i], i>>[1] = log[i]
  BY Zenon, <1>1 DEF NoEntry
<1> QED
  BY Zenon, <1>1, <1>2, MemoryReads DEF GetTerm, TermIn

-----------------------------------------------------------------------------
(* append_entries.                                                         *)

(* The node accepts the entries ids, which follow its last one.            *)
Grows(ids) ==
  /\ last' = last + Len(ids) /\ max' = last'
  /\ mem' = mem \o ids /\ queue' = Append(queue, EntriesClosure(ids))
  /\ \A k \in 1 .. Len(ids) : ids[k] = <<log'[last + k], last + k>>
  /\ \A i \in 1 .. last : log'[i] = log[i]
  /\ \A i \in Index : i > last' => log'[i] = 0
  /\ Ascending(log', last', curTerm)
  /\ leader = "other" =>
       last' <= Len(leaderLog) /\ \A i \in 1 .. last' : leaderLog[i] = log'[i]
  /\ UNCHANGED <<envVars, idVars, batch, toAppend, lastId, store, hasError, acked, answered>>

(* Accepting entries keeps the invariant.                                  *)
LEMMA GrowsKeeps ==
  ASSUME PrefixInv, LogTypeOK', NEW ids \in Seq(EntryId), ids # <<>>, Grows(ids)
  PROVE  PrefixInv'
<1> DEFINE n == Len(ids)
           c == EntriesClosure(ids)
<1>1. /\ last \in Nat /\ MaxIndex \in Nat /\ log \in [Index -> Nat]
      /\ mem \in Seq(Nat \X Nat) /\ queue \in Seq(Closures) /\ toAppend \in Seq(EntryId)
      /\ \A i \in 1 .. last : log[i] # 0
  BY Zenon, PrefixFacts
<1>0. /\ last' = last + n /\ max' = last' /\ mem' = mem \o ids
      /\ \A k \in 1 .. n : ids[k] = <<log'[last + k], last + k>>
      /\ \A i \in 1 .. last : log'[i] = log[i]
      /\ \A i \in Index : i > last' => log'[i] = 0
  BY Zenon DEF Grows
<1>2. /\ n \in Nat /\ last' = last + n /\ max' = last' /\ log' \in [Index -> Nat]
      /\ last' \in Nat /\ last' <= MaxIndex
  <2>1. log' \in [Index -> Nat] /\ max' \in 0 .. MaxIndex
    BY Zenon DEF LogTypeOK
  <2> QED
    BY <1>0, <1>1, <2>1
<1>3. PICK d \in 0 .. last : OnDisk(d) /\ (~hasError => ComesNext(d))
  BY Zenon DEF PrefixInv
<1>4. \A i \in 0 .. last : IdAt(log', i) = IdAt(log, i)
  <2> TAKE i \in 0 .. last
  <2>1. i # 0 => i \in 1 .. last
    BY <1>1
  <2> QED
    BY Zenon, <1>0, <2>1 DEF IdAt
<1>5. /\ envVars' = envVars /\ idVars' = idVars /\ batch' = batch /\ toAppend' = toAppend
      /\ lastId' = lastId /\ store' = store /\ hasError' = hasError /\ acked' = acked
      /\ answered' = answered
  BY Zenon DEF Grows
<1>6. LogIsPrefix'
  <2>1. ASSUME NEW i \in 1 .. last' PROVE log'[i] # 0
    <3>1. CASE i <= last
      <4>1. i \in 1 .. last
        BY <1>1, <1>2, <3>1
      <4> QED
        BY Zenon, <1>0, <1>1, <4>1
    <3>2. CASE ~(i <= last)
      <4>1. i - last \in 1 .. n /\ last + (i - last) = i
        BY <1>1, <1>2, <3>2
      <4>2. ids[i - last] = <<log'[i], i>>
        BY Zenon, <1>0, <4>1
      <4>3. ids[i - last] \in EntryId
        BY <1>2, <4>1
      <4> QED
        BY <4>2, <4>3 DEF EntryId
    <3> QED
      BY Zenon, <3>1, <3>2
  <2>2. last' < MaxIndex => log'[last' + 1] = 0
    <3>1. last' < MaxIndex => last' + 1 \in Index /\ last' + 1 > last'
      BY <1>1, <1>2 DEF Index
    <3> QED
      BY Zenon, <1>0, <3>1
  <2>3. LastIsContiguous'
    BY Zenon, <2>1, <2>2 DEF LastIsContiguous
  <2> QED
    BY Zenon, <1>2, <1>5, <2>3 DEF LogIsPrefix, Grows, PrefixInv, envVars
<1>7. c \in Closures /\ c.kind = "append" /\ Brings(log', c, last, last')
  BY Zenon, <1>0, <1>1, EntriesBrought
<1> HIDE DEF c
<1>8. queue' = Append(queue, c)
  BY Zenon DEF Grows, c
<1>9. \A k \in DOMAIN queue' : queue'[k].kind # "truncate"
  <2>1. \A k \in DOMAIN queue : queue[k].kind # "truncate"
    BY Zenon DEF PrefixInv
  <2>2. c.kind # "truncate"
    BY Zenon, <1>7
  <2> QED
    BY <1>1, <1>8, <2>1, <2>2
<1>10. OnDisk(d)'
  <2>1. \A i \in Index : store'[i] = IF i <= d THEN log'[i] ELSE 0
    <3> TAKE i \in Index
    <3>1. store'[i] = IF i <= d THEN log[i] ELSE 0
      BY Zenon, <1>3, <1>5 DEF OnDisk
    <3>2. i <= d => i \in 1 .. last
      BY <1>1 DEF Index
    <3> QED
      BY Zenon, <3>1, <3>2 DEF Grows
  <2>2. /\ mem' = mem \o ids /\ Len(mem) \in Nat /\ Len(mem') = Len(mem) + n
        /\ DOMAIN mem' = 1 .. Len(mem) + n
        /\ \A k \in 1 .. Len(mem) : mem'[k] = mem[k]
        /\ \A j \in 1 .. n : mem'[Len(mem) + j] = ids[j]
    <3>1. ids \in Seq(Nat \X Nat)
      BY DEF EntryId, Index
    <3>2. mem' = mem \o ids
      BY Zenon, <1>0
    <3>3. mem \in Seq(Nat \X Nat)
      BY Zenon, <1>1
    <3>4. /\ Len(mem \o ids) = Len(mem) + Len(ids)
          /\ DOMAIN (mem \o ids) = 1 .. Len(mem) + Len(ids) /\ Len(mem) \in Nat
          /\ \A k \in 1 .. Len(mem) : (mem \o ids)[k] = mem[k]
          /\ \A j \in 1 .. Len(ids) : (mem \o ids)[Len(mem) + j] = ids[j]
      BY <3>1, <3>3, JoinIs
    <3> QED
      BY Zenon, <3>2, <3>4
  <2>3. Len(mem) <= last /\ last - Len(mem) <= d
    BY Zenon, <1>3 DEF OnDisk
  <2>4. Len(mem') <= last' /\ last' - Len(mem') <= d /\ last' - Len(mem') = last - Len(mem)
    BY <1>1, <1>2, <2>2, <2>3
  <2>5. ASSUME NEW k \in 1 .. Len(mem) + n
        PROVE  mem'[k] = IdAt(log', last' - Len(mem') + k)
    <3>1. CASE k <= Len(mem)
      <4>1. k \in 1 .. Len(mem) /\ last - Len(mem) + k \in 0 .. last
        BY <1>1, <2>2, <2>3, <3>1
      <4>2. mem[k] = IdAt(log, last - Len(mem) + k)
        <5>1. k \in DOMAIN mem
          BY <1>1, <4>1
        <5> QED
          BY Zenon, <1>3, <5>1 DEF OnDisk
      <4> QED
        BY Zenon, <1>4, <2>2, <2>4, <4>1, <4>2
    <3>2. CASE ~(k <= Len(mem))
      <4> DEFINE j == k - Len(mem)
      <4>1. /\ j \in 1 .. n /\ Len(mem) + j = k /\ last + j \in Nat /\ last + j # 0
            /\ last' - Len(mem') + k = last + j
        BY <1>1, <1>2, <2>2, <2>4, <3>2
      <4> HIDE DEF j
      <4>2. mem'[k] = ids[j] /\ ids[j] = <<log'[last + j], last + j>>
        BY Zenon, <2>2, <4>1 DEF Grows
      <4> QED
        BY Zenon, <4>1, <4>2, IdAtIs
    <3> QED
      BY Zenon, <3>1, <3>2
  <2>6. \E i \in 0 .. last' : appliedId' = IdAt(log', i)
    <3>1. PICK i \in 0 .. last : appliedId = IdAt(log, i)
      BY Zenon, <1>3 DEF OnDisk
    <3>2. i \in 0 .. last'
      BY <1>1, <1>2
    <3> QED
      BY Zenon, <1>4, <1>5, <3>1, <3>2 DEF idVars
  <2>7. \A i \in 0 .. d : IdAt(log', i) = IdAt(log, i)
    BY <1>1, <1>4
  <2>8. \E i \in 0 .. d : diskId' = IdAt(log', i)
    BY Zenon, <1>3, <1>5, <2>7 DEF OnDisk, idVars
  <2>9. \A id \in {lastId', clearing'["disk"], clearing'["fsm"]} :
          id = NoId \/ \E i \in 0 .. d : id = IdAt(log', i)
    BY Zenon, <1>3, <1>5, <2>7 DEF OnDisk, idVars
  <2> QED
    BY Zenon, <2>1, <2>2, <2>4, <2>5, <2>6, <2>8, <2>9 DEF OnDisk
<1>11. ~hasError' => ComesNext(d)'
  <2> SUFFICES ASSUME ~hasError PROVE ComesNext(d)'
    BY Zenon, <1>5
  <2>1. ComesNext(d)
    BY Zenon, <1>3
  <2>2. Chain(log, queue, d + Len(toAppend), last) /\ d + Len(toAppend) \in Nat
    BY <1>1, <2>1 DEF ComesNext
  <2>3. d + Len(toAppend) <= last
    BY Zenon, <1>1, <2>2, ChainForward
  <2>4. Chain(log', queue', d + Len(toAppend), last')
    <3>1. Chain(log', queue, d + Len(toAppend), last)
      BY Zenon, <1>1, <2>2, ChainKept DEF Grows
    <3>2. last <= last'
      BY <1>1, <1>2
    <3> QED
      BY Zenon, <1>1, <1>2, <1>7, <1>8, <2>2, <3>1, <3>2, ChainQueued
  <2>5. \A k \in DOMAIN toAppend : toAppend[k] = IdAt(log', d + k)
    <3> TAKE k \in DOMAIN toAppend
    <3>1. d + k \in 0 .. last
      BY <1>1, <2>3
    <3> QED
      BY Zenon, <1>4, <2>1, <3>1 DEF ComesNext
  <2>6. CurrentId' = IdAt(log', d)
    BY Zenon, <1>3, <1>4, <1>5, <2>1 DEF ComesNext, CurrentId, idVars
  <2> QED
    BY Zenon, <1>5, <2>1, <2>4, <2>5, <2>6 DEF ComesNext
<1>12. d \in 0 .. last'
  BY <1>1, <1>2
<1> QED
  BY Zenon, <1>5, <1>6, <1>9, <1>10, <1>11, <1>12 DEF PrefixInv, DuplicateIsStored

(* A closure without entries joins the queue: nothing else changes.        *)
Queues(c) ==
  /\ queue' = Append(queue, c)
  /\ UNCHANGED <<envVars, memVars, idVars, batch, toAppend, lastId, store, hasError, histVars>>

(* That keeps the invariant.                                               *)
LEMMA QueuedKeeps ==
  ASSUME PrefixInv, LogTypeOK', NEW c \in Closures, c.kind # "truncate",
         Brings(log, c, last, last), Queues(c)
  PROVE  PrefixInv'
<1>1. /\ curTerm' = curTerm /\ leader' = leader /\ leaderLog' = leaderLog
      /\ elected' = elected /\ last' = last /\ max' = max /\ mem' = mem
      /\ diskId' = diskId /\ appliedId' = appliedId /\ clearing' = clearing
      /\ batch' = batch /\ toAppend' = toAppend /\ lastId' = lastId /\ store' = store
      /\ hasError' = hasError /\ log' = log /\ acked' = acked /\ answered' = answered
  BY Zenon DEF Queues, envVars, memVars, idVars, histVars
<1>2. last \in Nat /\ queue \in Seq(Closures) /\ toAppend \in Seq(EntryId)
  BY Zenon, PrefixFacts
<1>3. LogIsPrefix'
  BY Zenon, <1>1 DEF PrefixInv, LogIsPrefix, LastIsContiguous
<1>4. \A k \in DOMAIN queue' : queue'[k].kind # "truncate"
  <2>1. \A k \in DOMAIN queue : queue[k].kind # "truncate"
    BY Zenon DEF PrefixInv
  <2>2. queue' = Append(queue, c)
    BY Zenon DEF Queues
  <2> QED
    BY <1>2, <2>1, <2>2
<1>5. PICK d \in 0 .. last : OnDisk(d) /\ (~hasError => ComesNext(d))
  BY Zenon DEF PrefixInv
<1>6. OnDisk(d)'
  BY Zenon, <1>1, <1>5 DEF OnDisk
<1>7. ASSUME ~hasError PROVE ComesNext(d)'
  <2>1. ComesNext(d)
    BY Zenon, <1>5, <1>7
  <2>2. d + Len(toAppend) \in Nat
    BY <1>2
  <2>3. last <= last
    BY <1>2
  <2>4. Chain(log, queue', d + Len(toAppend), last)
    BY Zenon, <1>2, <2>1, <2>2, <2>3, ChainQueued DEF ComesNext, Queues
  <2> QED
    BY Zenon, <1>1, <2>1, <2>4 DEF ComesNext, CurrentId
<1>8. last' = last /\ hasError' = hasError /\ answered' = answered
  BY Zenon, <1>1
<1>9. ~hasError' => ComesNext(d)'
  BY Zenon, <1>7, <1>8
<1>10. \E x \in 0 .. last' : OnDisk(x)' /\ (~hasError' => ComesNext(x)')
  BY Zenon, <1>6, <1>8, <1>9
<1>11. acked' = acked /\ store' = store
  BY Zenon, <1>1
<1>12. ~CanFail => ~hasError' /\ DuplicateIsStored'
  BY Zenon, <1>8, <1>11 DEF PrefixInv, DuplicateIsStored
<1>13. answered'
  BY Zenon, <1>8 DEF PrefixInv
<1> QED
  BY Zenon, <1>3, <1>4, <1>10, <1>12, <1>13 DEF PrefixInv

(* A leader's append_entries.                                              *)
LEMMA LeaderKeeps ==
  ASSUME PrefixInv, LogTypeOK', NEW n \in 1 .. MaxIndex, LeaderAppend(n)
  PROVE  PrefixInv'
<1> DEFINE ids == [k \in 1 .. n |-> <<curTerm, last + k>>]
<1>1. /\ last \in Nat /\ MaxIndex \in Nat /\ max = last /\ curTerm \in Nat \ {0}
      /\ queue \in Seq(Closures) /\ log \in [Index -> Nat]
      /\ \A i \in 1 .. last : i \in Index
  BY Zenon, PrefixFacts
<1>2. last + n <= MaxIndex /\ leader = "self"
  BY Zenon DEF LeaderAppend
<1>3. ids \in [1 .. n -> EntryId]
  BY <1>1, <1>2 DEF EntryId, Index
<1>4. n \in Nat /\ n # 0
  BY <1>1
<1>5. ids \in Seq(EntryId) /\ Len(ids) = n /\ DOMAIN ids = 1 .. n
  BY Zenon, <1>3, <1>4, FcnIsSeq
<1>6. /\ Store(mem, max, last + n, ids, queue)
      /\ log' = [i \in Index |-> IF i \in last + 1 .. last + n THEN curTerm ELSE log[i]]
      /\ UNCHANGED <<envVars, idVars, batch, toAppend, lastId, store, hasError, acked,
                     answered>>
  BY Zenon DEF LeaderAppend
<1>7. \A k \in 1 .. n : ids[k] = <<curTerm, last + k>>
  BY Zenon
<1> HIDE DEF ids
<1>8. \A k \in 1 .. n : ids[k][2] = max + k
  BY <1>1, <1>7
<1>9. ids # <<>> /\ last + n \in Nat /\ max <= last + n /\ last + n <= max + Len(ids)
  BY <1>1, <1>4, <1>5
<1>10. LogTypeOK
  BY Zenon DEF PrefixInv
<1>11. /\ max' = max + Len(ids) /\ last' = max' /\ mem' = mem \o ids
       /\ queue' = Append(queue, EntriesClosure(ids))
  BY Zenon, <1>1, <1>5, <1>6, <1>8, <1>9, <1>10, StoreAppends
<1>12. last' = last + n
  BY Zenon, <1>1, <1>5, <1>11
<1>13. /\ \A i \in 1 .. last : log'[i] = log[i]
       /\ \A i \in last + 1 .. last + n : i \in Index /\ log'[i] = curTerm
       /\ \A i \in Index : i > last + n => log'[i] = log[i]
  BY <1>1, <1>2, <1>4, <1>6 DEF Index
<1>14. Grows(ids)
  <2>1. \A k \in 1 .. n : ids[k] = <<log'[last + k], last + k>>
    <3> TAKE k \in 1 .. n
    <3>1. last + k \in last + 1 .. last + n
      BY <1>1
    <3> QED
      BY Zenon, <1>7, <1>13, <3>1
  <2>2. \A i \in Index : i > last' => log'[i] = 0
    <3> TAKE i \in Index
    <3>1. i > last' => i > last + n /\ i > last
      BY <1>1, <1>4, <1>12 DEF Index
    <3> QED
      BY Zenon, <1>13, <3>1 DEF PrefixInv, LogIsPrefix
  <2>3. Ascending(log', last + n, curTerm)
    <3>1. Ascending(log, last, curTerm)
      BY Zenon DEF PrefixInv, LogIsPrefix
    <3>2. ASSUME NEW i \in 1 .. last + n
          PROVE  \/ i \in 1 .. last /\ log'[i] = log[i] /\ log[i] <= curTerm
                 \/ i \in last + 1 .. last + n /\ log'[i] = curTerm
      <4>1. i \in 1 .. last \/ i \in last + 1 .. last + n
        BY <1>1, <1>4
      <4> QED
        BY Zenon, <1>13, <3>1, <4>1 DEF Ascending
    <3>3. curTerm <= curTerm
      BY <1>1
    <3>4. ASSUME NEW i \in 1 .. last + n, NEW j \in 1 .. last + n, i <= j
          PROVE  log'[i] <= log'[j]
      <4>1. CASE j \in 1 .. last
        <5>1. i \in 1 .. last
          BY <1>1, <3>4, <4>1
        <5> QED
          BY Zenon, <1>13, <3>1, <3>4, <4>1, <5>1 DEF Ascending
      <4>2. CASE j \in last + 1 .. last + n
        BY Zenon, <1>13, <3>2, <3>3, <4>2
      <4> QED
        BY Zenon, <3>2, <4>1, <4>2
    <3> QED
      BY Zenon, <3>2, <3>3, <3>4 DEF Ascending
  <2>4. leader # "other"
    BY Zenon, <1>2
  <2> QED
    BY Zenon, <1>1, <1>5, <1>6, <1>11, <1>12, <1>13, <2>1, <2>2, <2>3, <2>4 DEF Grows
<1> QED
  BY Zenon, <1>5, <1>9, <1>14, GrowsKeeps

(* A leader's entry at an index that the node has is the node's own, so it *)
(* is reported as a duplicate.                                             *)
LEMMA FollowerRepeats ==
  ASSUME PrefixInv, ~OORep, NEW i \in Index, FollowerAppend(i), i <= last
  PROVE  Queues(AppendClosure(<<>>, {Ack(<<log[i], i>>, TRUE)}))
<1> DEFINE id == <<leaderLog[i], i>>
<1>1. last \in Nat /\ max = last /\ MaxIndex \in Nat
  BY Zenon, PrefixFacts
<1>2. i \in 1 .. last /\ i <= max
  BY <1>1 DEF Index
<1>3. leader = "other"
  BY Zenon DEF FollowerAppend
<1>4. leaderLog[i] = log[i]
  BY Zenon, <1>2, <1>3 DEF PrefixInv, LogIsPrefix
<1>5. GetTerm(i) = log[i]
  BY Zenon, <1>2, ReadsLog
<1>6. ~Conflicting(id)
  BY Zenon, <1>4, <1>5 DEF Conflicting
<1>7. /\ queue' = Append(queue, AppendClosure(<<>>, {Ack(id, TRUE)}))
      /\ UNCHANGED <<memVars, log>>
      /\ UNCHANGED <<envVars, idVars, batch, toAppend, lastId, store, hasError,
                     stopped, restarts, acked, answered>>
  BY Zenon, <1>2, <1>6 DEF FollowerAppend
<1> QED
  BY Zenon, <1>4, <1>7 DEF Queues, histVars

(* Otherwise it is the next one.                                           *)
LEMMA FollowerGrows ==
  ASSUME PrefixInv, ~OORep, NEW i \in Index, FollowerAppend(i), ~(i <= last)
  PROVE  <<<<leaderLog[i], i>>>> \in Seq(EntryId) /\ Grows(<<<<leaderLog[i], i>>>>)
<1> DEFINE id == <<leaderLog[i], i>>
           ids == <<id>>
<1>1. /\ last \in Nat /\ MaxIndex \in Nat /\ max = last /\ curTerm \in Nat \ {0}
      /\ queue \in Seq(Closures) /\ log \in [Index -> Nat]
      /\ leaderLog \in Seq(Nat \ {0})
  BY Zenon, PrefixFacts
<1>2. leader = "other" /\ i \in DOMAIN leaderLog /\ i <= last + 1
  BY Zenon DEF FollowerAppend
<1>3. i = last + 1 /\ ~(i <= max) /\ i \in Nat /\ i <= MaxIndex
  BY <1>1, <1>2 DEF Index
<1>4. leaderLog[i] \in Nat \ {0} /\ i <= Len(leaderLog)
  BY <1>1, <1>2
<1>5. id \in EntryId
  BY Zenon, <1>4 DEF EntryId
<1>6. /\ ids \in Seq(EntryId) /\ Len(ids) = 1 /\ DOMAIN ids = 1 .. 1 /\ ids # <<>>
      /\ \A k \in 1 .. 1 : ids[k] = id
  BY <1>5
<1>7. /\ Store(mem, max, last, ids, queue)
      /\ log' = [j \in Index |-> IF j = i THEN leaderLog[i] ELSE log[j]]
      /\ UNCHANGED <<envVars, idVars, batch, toAppend, lastId, store, hasError, acked,
                     answered>>
  <2>1. id[1] = leaderLog[i]
    BY Zenon
  <2>2. /\ Store(mem, max, last, ids, queue)
        /\ log' = [j \in Index |-> IF j = i THEN id[1] ELSE log[j]]
        /\ UNCHANGED <<envVars, idVars, batch, toAppend, lastId, store, hasError, acked,
                       answered>>
    BY Zenon, <1>3 DEF FollowerAppend
  <2> QED
    BY Zenon, <2>1, <2>2
<1> HIDE DEF ids
<1>8. \A k \in 1 .. 1 : ids[k][2] = max + k
  BY <1>1, <1>3, <1>6
<1>9. last \in Nat /\ max <= last /\ last <= max + Len(ids)
  BY <1>1, <1>6
<1>10. LogTypeOK
  BY Zenon DEF PrefixInv
<1>11. /\ max' = max + Len(ids) /\ last' = max' /\ mem' = mem \o ids
       /\ queue' = Append(queue, EntriesClosure(ids))
  BY Zenon, <1>1, <1>6, <1>7, <1>8, <1>9, <1>10, StoreAppends
<1>12. last' = last + Len(ids) /\ max' = last' /\ last' = i
  BY Zenon, <1>1, <1>3, <1>6, <1>11
<1>13. /\ \A j \in Index : j # i => log'[j] = log[j]
       /\ log'[i] = leaderLog[i]
  BY Zenon, <1>7
<1>14. \A j \in 1 .. last : j \in Index /\ j # i /\ j \in 1 .. Len(leaderLog)
  BY <1>1, <1>3, <1>4 DEF Index
<1>15. \A j \in 1 .. last : log'[j] = log[j] /\ leaderLog[j] = log[j]
  BY Zenon, <1>2, <1>13, <1>14 DEF PrefixInv, LogIsPrefix
<1>16. \A j \in 1 .. i : j \in 1 .. last \/ j = i
  BY <1>1, <1>3
<1>17. \A j \in 1 .. i : leaderLog[j] = log'[j]
  BY Zenon, <1>13, <1>15, <1>16
<1>18. Ascending(log', i, curTerm)
  <2>1. Ascending(leaderLog, Len(leaderLog), curTerm)
    BY Zenon DEF PrefixInv, LogIsPrefix
  <2>2. \A j \in 1 .. i : j \in 1 .. Len(leaderLog)
    BY <1>1, <1>3, <1>4
  <2> QED
    BY Zenon, <1>17, <2>1, <2>2 DEF Ascending
<1>19. \A j \in Index : j > i => log'[j] = 0
  <2> TAKE j \in Index
  <2>1. j > i => j > last /\ j # i
    BY <1>1, <1>3 DEF Index
  <2> QED
    BY Zenon, <1>13, <2>1 DEF PrefixInv, LogIsPrefix
<1>20. \A k \in 1 .. Len(ids) : ids[k] = <<log'[last + k], last + k>>
  <2> TAKE k \in 1 .. Len(ids)
  <2>1. k \in 1 .. 1 /\ last + k = i
    BY <1>1, <1>3, <1>6
  <2> QED
    BY Zenon, <1>6, <1>13, <2>1
<1>21. Grows(ids)
  BY Zenon, <1>4, <1>7, <1>11, <1>12, <1>15, <1>17, <1>18, <1>19, <1>20 DEF Grows
<1> QED
  BY Zenon, <1>6, <1>21 DEF ids

(* A follower's append_entries.                                            *)
LEMMA FollowerKeeps ==
  ASSUME PrefixInv, LogTypeOK', ~OORep, NEW i \in Index, FollowerAppend(i)
  PROVE  PrefixInv'
<1>1. CASE i <= last
  <2> DEFINE id == <<log[i], i>>
             c == AppendClosure(<<>>, {Ack(id, TRUE)})
  <2>1. last \in Nat /\ i \in 1 .. last /\ log[i] \in Nat \ {0}
    <3>1. last \in Nat /\ i \in 1 .. last
      BY <1>1, PrefixFacts DEF Index
    <3> QED
      BY Zenon, <3>1, PrefixFacts
  <2>2. id \in EntryId /\ id = IdAt(log, i)
    <3>1. i # 0
      BY <2>1
    <3> QED
      BY Zenon, <2>1, <3>1 DEF EntryId, IdAt
  <2> HIDE DEF id
  <2>3. /\ c \in Closures /\ c.kind = "append" /\ c.ids = <<>>
        /\ c.acks = {Ack(id, TRUE)} /\ Len(c.ids) = 0 /\ DOMAIN c.ids = {}
    BY <2>2 DEF AppendClosure, Closures, Appends, Ack, AckOf
  <2>4. Ack(id, TRUE).id = id
    BY Zenon DEF Ack
  <2> HIDE DEF c
  <2>5. last = last + Len(c.ids)
    BY <2>1, <2>3
  <2>6. c.kind # "truncate" /\ c.kind # "last"
    BY Zenon, <2>3
  <2>7. Brings(log, c, last, last)
    BY Zenon, <2>1, <2>2, <2>3, <2>4, <2>5, <2>6 DEF Brings
  <2>8. Queues(c)
    BY Zenon, <1>1, FollowerRepeats DEF c, id
  <2> QED
    BY Zenon, <2>3, <2>6, <2>7, <2>8, QueuedKeeps
<1>2. CASE ~(i <= last)
  <2>1. <<<<leaderLog[i], i>>>> # <<>>
    BY Zenon
  <2> QED
    BY Zenon, <1>2, <2>1, FollowerGrows, GrowsKeeps
<1> QED
  BY Zenon, <1>1, <1>2

(* last_log_id(true).                                                      *)
LEMMA AskKeeps ==
  ASSUME PrefixInv, LogTypeOK', AskLastLogId
  PROVE  PrefixInv'
<1> DEFINE c == [kind |-> "last", id |-> IF last = 0 THEN NoEntry ELSE <<log[last], last>>]
<1>1. last \in Nat /\ (last # 0 => log[last] \in Nat)
  <2>1. last \in Nat /\ \A i \in 1 .. last : log[i] \in Nat
    BY Zenon, PrefixFacts
  <2> QED
    BY <2>1
<1>2. c \in Closures /\ c.kind = "last" /\ c.id = IdAt(log, last)
  BY Zenon, <1>1 DEF Closures, NoEntry, IdAt
<1>3. Queues(c)
  BY Zenon DEF AskLastLogId, Queues, flagVars
<1> HIDE DEF c
<1>4. c.kind # "truncate" /\ c.kind # "append"
  BY Zenon, <1>2
<1>5. Brings(log, c, last, last)
  BY Zenon, <1>2, <1>4 DEF Brings
<1> QED
  BY Zenon, <1>2, <1>3, <1>4, <1>5, QueuedKeeps

-----------------------------------------------------------------------------
(* Steps around memory and disk.                                           *)

(* In an ascending log the older of two ids is the one of the smaller      *)
(* index.                                                                  *)
LEMMA OlderIs ==
  ASSUME PrefixInv, NEW i \in 0 .. last, NEW j \in 0 .. last
  PROVE  Older(IdAt(log, i), IdAt(log, j)) <=> i < j
<1>1. last \in Nat /\ \A k \in 1 .. last : log[k] \in Nat \ {0}
  BY Zenon, PrefixFacts
<1>2. \A x, y \in 1 .. last : x <= y => log[x] <= log[y]
  BY Zenon DEF PrefixInv, LogIsPrefix, Ascending
<1>3. i # 0 => i \in 1 .. last /\ log[i] \in Nat \ {0}
  BY <1>1
<1>4. j # 0 => j \in 1 .. last /\ log[j] \in Nat \ {0}
  BY <1>1
<1>5. CASE i = 0 \/ j = 0
  BY <1>1, <1>3, <1>4, <1>5 DEF Older, IdAt, NoEntry
<1>6. CASE i # 0 /\ j # 0
  <2>1. (i <= j => log[i] <= log[j]) /\ (j <= i => log[j] <= log[i])
    BY Zenon, <1>2, <1>3, <1>4, <1>6
  <2> QED
    BY <1>1, <1>3, <1>4, <1>6, <2>1 DEF Older, IdAt
<1> QED
  BY Zenon, <1>5, <1>6

(* So the smaller of two ids is no later than either.                      *)
LEMMA MinIdIs ==
  ASSUME PrefixInv, NEW i \in 0 .. last, NEW j \in 0 .. last
  PROVE  \E k \in 0 .. last : /\ MinId(IdAt(log, i), IdAt(log, j)) = IdAt(log, k)
                              /\ k <= i /\ k <= j
<1>1. last \in Nat
  BY Zenon, PrefixFacts
<1>2. CASE j < i
  <2>1. MinId(IdAt(log, i), IdAt(log, j)) = IdAt(log, j)
    BY Zenon, <1>2, OlderIs DEF MinId
  <2>2. j <= i /\ j <= j
    BY <1>1, <1>2
  <2> QED
    BY Zenon, <2>1, <2>2
<1>3. CASE ~(j < i)
  <2>1. MinId(IdAt(log, i), IdAt(log, j)) = IdAt(log, i)
    BY Zenon, <1>3, OlderIs DEF MinId
  <2>2. i <= j /\ i <= i
    BY <1>1, <1>3
  <2> QED
    BY Zenon, <2>1, <2>2
<1> QED
  BY Zenon, <1>2, <1>3

(* A step of the disk thread, set_applied_id or clear_memory_logs: the log *)
(* and the cluster stay as they are.                                       *)
SameLog == UNCHANGED <<envVars, last, max, log>>

(* Such a step keeps what the invariant says of the log.                   *)
LEMMA SameLogKeeps ==
  ASSUME LogIsPrefix, SameLog
  PROVE  LogIsPrefix'
BY Zenon DEF SameLog, LogIsPrefix, LastIsContiguous, envVars

(* What such a step has to keep.                                           *)
LEMMA DiskKeeps ==
  ASSUME PrefixInv, LogTypeOK', SameLog, answered',
         \A k \in DOMAIN queue' : queue'[k].kind # "truncate",
         NEW d \in 0 .. last, OnDisk(d)', ~hasError' => ComesNext(d)',
         ~CanFail => ~hasError' /\ DuplicateIsStored'
  PROVE  PrefixInv'
<1>1. LogIsPrefix'
  BY Zenon, SameLogKeeps DEF PrefixInv
<1>2. last' = last
  BY Zenon DEF SameLog
<1>3. \E x \in 0 .. last' : OnDisk(x)' /\ (~hasError' => ComesNext(x)')
  BY Zenon, <1>2
<1> QED
  BY Zenon, <1>1, <1>3 DEF PrefixInv

(* A step of the cluster, of a waiter or of shutdown.                      *)
SameDisk == UNCHANGED <<memVars, idVars, diskVars, hasError, histVars>>

(* Such a step keeps the invariant, if it keeps the log a prefix.          *)
LEMMA SameDiskKeeps ==
  ASSUME PrefixInv, LogTypeOK', LogIsPrefix', SameDisk
  PROVE  PrefixInv'
<1>1. PICK d \in 0 .. last : OnDisk(d) /\ (~hasError => ComesNext(d))
  BY Zenon DEF PrefixInv
<1>2. /\ last' = last /\ hasError' = hasError /\ queue' = queue /\ answered' = answered
      /\ store' = store /\ acked' = acked
  BY Zenon DEF SameDisk, memVars, diskVars, histVars
<1>3. OnDisk(d)'
  BY Zenon, <1>1 DEF SameDisk, memVars, idVars, diskVars, histVars, OnDisk
<1>4. ASSUME ComesNext(d) PROVE ComesNext(d)'
  BY Zenon, <1>4 DEF SameDisk, memVars, idVars, diskVars, histVars, ComesNext, CurrentId
<1>5. \E x \in 0 .. last' : OnDisk(x)' /\ (~hasError' => ComesNext(x)')
  BY Zenon, <1>1, <1>2, <1>3, <1>4
<1> QED
  BY Zenon, <1>2, <1>5 DEF PrefixInv, DuplicateIsStored

(* An iteration's last_id, or _disk_id when there is none yet, is the id   *)
(* of an entry on disk.                                                    *)
LEMMA CurrentOnDisk ==
  ASSUME NEW d, OnDisk(d)
  PROVE  \E i \in 0 .. d : CurrentId = IdAt(log, i)
BY Zenon DEF OnDisk, CurrentId

(* The disk thread takes a closure with entries.                           *)
LEMMA TakeKeeps ==
  ASSUME PrefixInv, LogTypeOK', DiskTake
  PROVE  PrefixInv'
<1> DEFINE c == Head(queue)
<1>1. /\ queue # <<>> /\ c.kind = "append" /\ c.ids # <<>>
      /\ batch' = Append(batch, c) /\ toAppend' = toAppend \o c.ids
      /\ queue' = Tail(queue) /\ lastId' = CurrentId
  BY Zenon DEF DiskTake
<1>2. UNCHANGED <<envVars, memVars, idVars, store, flagVars, histVars>>
  BY Zenon DEF DiskTake
<1>3. SameLog
  BY Zenon, <1>2 DEF SameLog, memVars, histVars
<1>4. last \in Nat /\ queue \in Seq(Closures) /\ toAppend \in Seq(EntryId) /\ batch \in Seq(Appends)
  BY Zenon, PrefixFacts
<1>5. \A k \in DOMAIN queue : queue[k].kind # "truncate"
  BY Zenon DEF PrefixInv
<1>6. /\ c \in Closures /\ \A k \in DOMAIN queue' : queue'[k].kind # "truncate"
  BY Zenon, <1>1, <1>4, <1>5, NoTruncateLeft
<1> HIDE DEF c
<1>7. c.ids \in Seq(EntryId)
  BY Zenon, <1>1, <1>6 DEF Closures, Appends
<1>8. PICK d \in 0 .. last : OnDisk(d) /\ (~hasError => ComesNext(d))
  BY Zenon DEF PrefixInv
<1>9. OnDisk(d)'
  <2>1. \E i \in 0 .. d : lastId' = IdAt(log, i)
    BY Zenon, <1>1, <1>8, CurrentOnDisk
  <2> QED
    BY Zenon, <1>2, <1>8, <2>1 DEF OnDisk, memVars, idVars, histVars
<1>10. /\ hasError' = hasError /\ log' = log /\ last' = last /\ diskId' = diskId
       /\ acked' = acked /\ store' = store /\ answered' = answered
  BY Zenon, <1>2 DEF flagVars, histVars, memVars, idVars
<1>11. ASSUME ComesNext(d) PROVE ComesNext(d)'
  <2> DEFINE a == d + Len(toAppend)
             m == Len(c.ids)
  <2>1. a \in Nat /\ m \in Nat /\ Chain(log, queue, a, last) /\ d \in Nat
    BY <1>4, <1>7, <1>11 DEF ComesNext
  <2>2. PICK x \in 0 .. last : Brings(log, c, a, x) /\ Chain(log, Tail(queue), x, last)
    BY Zenon, <1>1, <1>4, <2>1, ChainTaken DEF c
  <2>3. /\ x = a + m /\ \A j \in DOMAIN c.ids : c.ids[j] = IdAt(log, a + j)
        /\ \A k \in c.acks : ~k.dup
    BY Zenon, <1>1, <2>2 DEF Brings
  <2>4. /\ Len(toAppend') = Len(toAppend) + m /\ DOMAIN toAppend' = 1 .. Len(toAppend) + m
        /\ \A k \in 1 .. Len(toAppend) : toAppend'[k] = toAppend[k]
        /\ \A j \in 1 .. m : toAppend'[Len(toAppend) + j] = c.ids[j]
    BY <1>1, <1>4, <1>7, JoinIs
  <2>5. d + Len(toAppend') = x
    <3>1. Len(toAppend) \in Nat
      BY <1>4
    <3>2. x = (d + Len(toAppend)) + m /\ Len(toAppend') = Len(toAppend) + m
      BY Zenon, <2>3, <2>4
    <3> HIDE DEF m, a
    <3> QED
      BY <2>1, <3>1, <3>2
  <2>6. ASSUME NEW k \in 1 .. Len(toAppend) + m PROVE toAppend'[k] = IdAt(log, d + k)
    <3>1. CASE k <= Len(toAppend)
      <4>1. k \in 1 .. Len(toAppend) /\ k \in DOMAIN toAppend
        BY <1>4, <2>1, <3>1
      <4>2. toAppend[k] = IdAt(log, d + k)
        BY Zenon, <1>11, <4>1 DEF ComesNext
      <4> QED
        BY Zenon, <2>4, <4>1, <4>2
    <3>2. CASE ~(k <= Len(toAppend))
      <4> DEFINE j == k - Len(toAppend)
      <4>1. j \in 1 .. m /\ j \in DOMAIN c.ids /\ Len(toAppend) + j = k /\ a + j = d + k
        BY <1>4, <1>7, <2>1, <3>2
      <4> HIDE DEF j, a, m
      <4>2. toAppend'[k] = c.ids[j] /\ c.ids[j] = IdAt(log, a + j)
        BY Zenon, <2>3, <2>4, <4>1
      <4> QED
        BY Zenon, <4>1, <4>2
    <3> QED
      BY Zenon, <3>1, <3>2
  <2>7. \A k \in DOMAIN toAppend' : toAppend'[k] = IdAt(log, d + k)
    BY Zenon, <2>4, <2>6
  <2>8. \A k \in DOMAIN batch' : \A w \in batch'[k].acks : ~w.dup
    <3>1. \A k \in DOMAIN batch : \A w \in batch[k].acks : ~w.dup
      BY Zenon, <1>11 DEF ComesNext
    <3>2. ASSUME NEW k \in DOMAIN batch' 
          PROVE  (k \in DOMAIN batch /\ batch'[k] = batch[k]) \/ batch'[k] = c
      BY <1>1, <1>4
    <3> QED
      BY Zenon, <2>3, <3>1, <3>2
  <2>9. batch' # <<>>
    <3>1. c \in Appends
      BY Zenon, <1>1, <1>6 DEF Closures
    <3>2. Append(batch, c) # <<>>
      BY <1>4, <3>1
    <3> QED
      BY Zenon, <1>1, <3>2
  <2>10. CurrentId' = IdAt(log, d)
    BY Zenon, <1>1, <1>10, <1>11 DEF ComesNext, CurrentId
  <2> HIDE DEF a, m
  <2> QED
    BY Zenon, <1>1, <1>10, <2>2, <2>5, <2>7, <2>8, <2>9, <2>10 DEF ComesNext
<1>12. ~hasError' => ComesNext(d)'
  BY Zenon, <1>8, <1>10, <1>11
<1>13. ~CanFail => ~hasError' /\ DuplicateIsStored'
  BY Zenon, <1>10 DEF PrefixInv, DuplicateIsStored
<1>14. answered'
  BY Zenon, <1>10 DEF PrefixInv
<1> QED
  BY Zenon, <1>3, <1>6, <1>8, <1>9, <1>12, <1>13, <1>14, DiskKeeps

(* flush, when writing has failed before: nothing is written.              *)
LEMMA FailedFlushKeeps ==
  ASSUME PrefixInv, LogTypeOK', NEW n \in 0 .. Len(toAppend), DiskFlush(n), hasError
  PROVE  PrefixInv'
<1> DEFINE ids == SubSeq(toAppend, 1, n)
<1>1. toAppend \in Seq(EntryId) /\ store \in [Index -> Nat] /\ MaxIndex \in Nat
  BY Zenon, PrefixFacts
<1>2. n = 0 /\ ids \in Seq(EntryId) /\ Len(ids) = 0
  <2>1. n = 0
    BY Zenon DEF DiskFlush
  <2>2. ids \in Seq(EntryId) /\ Len(ids) = n
    BY Zenon, <1>1, StartIs
  <2> QED
    BY Zenon, <2>1, <2>2
<1>3. /\ store' = [i \in Index |-> FlushedTerm(ids, i, store[i])]
      /\ lastId' = (IF n > 0 THEN ids[n] ELSE lastId)
      /\ hasError' = ~FlushOk(n)
      /\ acked' = (IF FlushOk(n) THEN acked \cup UNION {batch[k].acks : k \in DOMAIN batch}
                                 ELSE acked)
      /\ UNCHANGED <<envVars, memVars, idVars, queue, log, answered>>
  BY Zenon DEF DiskFlush
<1> HIDE DEF ids
<1>4. \A i \in Index : FlushedTerm(ids, i, store[i]) = store[i]
  <2> TAKE i \in Index
  <2>1. i \in Nat /\ 0 \in Nat /\ \A k \in 1 .. Len(ids) : ids[k] = <<log[0 + k], 0 + k>>
    BY <1>2 DEF Index
  <2>2. ~(i > 0 /\ i <= 0 + Len(ids))
    BY <1>2, <2>1
  <2> QED
    BY Zenon, <1>2, <2>1, <2>2, FlushedIs
<1>5. store' = store
  <2>1. store' = [i \in Index |-> store[i]]
    BY Zenon, <1>3, <1>4
  <2> QED
    BY Zenon, <1>1, <2>1
<1>6. lastId' = lastId
  <2>1. ~(n > 0)
    BY <1>2
  <2> QED
    BY Zenon, <1>3, <2>1
<1>7. hasError' /\ acked' = acked
  BY Zenon, <1>3 DEF FlushOk
<1>8. CanFail
  BY Zenon DEF PrefixInv
<1>9. SameLog
  BY Zenon, <1>3 DEF SameLog, memVars
<1>10. PICK d \in 0 .. last : OnDisk(d)
  BY Zenon DEF PrefixInv
<1>11. OnDisk(d)'
  BY Zenon, <1>3, <1>5, <1>6, <1>10 DEF OnDisk, memVars, idVars
<1>12. answered' /\ \A k \in DOMAIN queue' : queue'[k].kind # "truncate"
  BY Zenon, <1>3 DEF PrefixInv
<1> QED
  BY Zenon, <1>7, <1>8, <1>9, <1>10, <1>11, <1>12, DiskKeeps

(* Otherwise it writes the entries that come next.                         *)
LEMMA WritingFlushKeeps ==
  ASSUME PrefixInv, LogTypeOK', NEW n \in 0 .. Len(toAppend), DiskFlush(n), ~hasError
  PROVE  PrefixInv'
<1> DEFINE ids == SubSeq(toAppend, 1, n)
<1>1. /\ last \in Nat /\ toAppend \in Seq(EntryId) /\ store \in [Index -> Nat]
      /\ MaxIndex \in Nat /\ queue \in Seq(Closures)
      /\ \A i \in 1 .. last : log[i] \in Nat \ {0}
  BY Zenon, PrefixFacts
<1>2. /\ ids \in Seq(EntryId) /\ Len(ids) = n /\ \A k \in 1 .. n : ids[k] = toAppend[k]
  BY Zenon, <1>1, StartIs
<1>3. /\ store' = [i \in Index |-> FlushedTerm(ids, i, store[i])]
      /\ lastId' = (IF n > 0 THEN ids[n] ELSE lastId)
      /\ hasError' = ~FlushOk(n)
      /\ acked' = (IF FlushOk(n) THEN acked \cup UNION {batch[k].acks : k \in DOMAIN batch}
                                 ELSE acked)
      /\ batch' = <<>> /\ toAppend' = <<>>
      /\ UNCHANGED <<envVars, memVars, idVars, queue, log, answered>>
  BY Zenon DEF DiskFlush
<1> HIDE DEF ids
<1>4. PICK d \in 0 .. last : OnDisk(d) /\ ComesNext(d)
  BY Zenon DEF PrefixInv
<1> DEFINE x == d + n
<1>5. /\ d \in Nat /\ n \in Nat /\ Len(toAppend) \in Nat /\ DOMAIN toAppend = 1 .. Len(toAppend)
      /\ d + Len(toAppend) \in Nat
  BY <1>1
<1>6. Chain(log, queue, d + Len(toAppend), last)
  BY Zenon, <1>4 DEF ComesNext
<1>7. d + Len(toAppend) <= last
  BY Zenon, <1>1, <1>5, <1>6, ChainForward
<1>8. x \in 0 .. last /\ d <= x
  BY <1>1, <1>5, <1>7
<1>9. \A k \in 1 .. n : toAppend[k] = <<log[d + k], d + k>>
  <2> TAKE k \in 1 .. n
  <2>1. k \in DOMAIN toAppend /\ d + k # 0
    BY <1>5
  <2> QED
    BY Zenon, <1>4, <2>1 DEF ComesNext, IdAt
<1>10. \A i \in Index : store'[i] = IF i > d /\ i <= x THEN log[i] ELSE store[i]
  <2> TAKE i \in Index
  <2>1. i \in Nat
    BY DEF Index
  <2>2. \A k \in 1 .. Len(ids) : ids[k] = <<log[d + k], d + k>>
    BY Zenon, <1>2, <1>9
  <2>3. FlushedTerm(ids, i, store[i]) = IF i > d /\ i <= d + Len(ids) THEN log[i] ELSE store[i]
    <3>1. d \in Nat /\ ids \in Seq(EntryId)
      BY Zenon, <1>2, <1>5
    <3>2. /\ i > d /\ i <= d + Len(ids) => FlushedTerm(ids, i, store[i]) = log[i]
          /\ ~(i > d /\ i <= d + Len(ids)) => FlushedTerm(ids, i, store[i]) = store[i]
      BY Zenon, <2>1, <2>2, <3>1, FlushedIs
    <3> QED
      BY Zenon, <3>2
  <2> QED
    BY Zenon, <1>2, <1>3, <2>3
<1>11. lastId' = IF n > 0 THEN IdAt(log, x) ELSE lastId
  <2>1. CASE n > 0
    <3>1. n \in 1 .. n /\ d + n # 0
      BY <1>5, <2>1
    <3>2. ids[n] = IdAt(log, x)
      BY Zenon, <1>2, <1>9, <3>1 DEF IdAt
    <3> QED
      BY Zenon, <1>3, <2>1, <3>2
  <2> QED
    BY Zenon, <1>3, <2>1
<1> HIDE DEF x
<1>12. OnDisk(x)'
  <2>1. \A i \in Index : store'[i] = IF i <= x THEN log[i] ELSE 0
    <3> TAKE i \in Index
    <3>1. store[i] = IF i <= d THEN log[i] ELSE 0
      BY Zenon, <1>4 DEF OnDisk
    <3>2. (i <= d => i <= x) /\ (i > d <=> ~(i <= d))
      BY <1>1, <1>5, <1>8 DEF Index
    <3> QED
      BY Zenon, <1>10, <3>1, <3>2
  <2>2. Len(mem) <= last /\ last - Len(mem) <= d
    BY Zenon, <1>4 DEF OnDisk
  <2>3. last - Len(mem) <= x /\ \A i \in 0 .. d : i \in 0 .. x
    <3>1. mem \in Seq(Nat \X Nat)
      BY Zenon, PrefixFacts
    <3>2. Len(mem) \in Nat
      BY <3>1
    <3> QED
      BY <1>1, <1>5, <1>8, <2>2, <3>2
  <2>4. lastId' = NoId \/ \E i \in 0 .. x : lastId' = IdAt(log, i)
    <3>1. x \in 0 .. x
      BY <1>8
    <3> QED
      BY Zenon, <1>4, <1>11, <2>3, <3>1 DEF OnDisk
  <2>5. /\ \A k \in DOMAIN mem : mem[k] = IdAt(log, last - Len(mem) + k)
        /\ \E i \in 0 .. last : appliedId = IdAt(log, i)
        /\ \E i \in 0 .. x : diskId = IdAt(log, i)
        /\ \A id \in {clearing["disk"], clearing["fsm"]} :
             id = NoId \/ \E i \in 0 .. x : id = IdAt(log, i)
    BY Zenon, <1>4, <2>3 DEF OnDisk
  <2>6. /\ log' = log /\ last' = last /\ mem' = mem /\ diskId' = diskId
        /\ appliedId' = appliedId /\ clearing' = clearing
    BY Zenon, <1>3 DEF memVars, idVars
  <2> QED
    BY Zenon, <2>1, <2>2, <2>3, <2>4, <2>5, <2>6 DEF OnDisk
<1>13. CASE n = Len(toAppend)
  <2>1. ~hasError' /\ acked' = acked \cup UNION {batch[k].acks : k \in DOMAIN batch}
    BY Zenon, <1>3, <1>13 DEF FlushOk
  <2>2. CurrentId' = IdAt(log, x)
    <3>1. diskId' = diskId
      BY Zenon, <1>3 DEF idVars
    <3>2. CASE n > 0
      <4>1. IdAt(log, x) # NoId
        BY <1>8, IdAtIs
      <4> QED
        BY Zenon, <1>11, <3>2, <4>1 DEF CurrentId
    <3>3. CASE ~(n > 0)
      <4>1. x = d
        BY <1>5, <3>3 DEF x
      <4> QED
        BY Zenon, <1>4, <1>11, <3>1, <3>3, <4>1 DEF CurrentId, ComesNext
    <3> QED
      BY Zenon, <3>2, <3>3
  <2>3. x + Len(toAppend') = d + Len(toAppend)
    <3>1. Len(toAppend') = 0
      BY Zenon, <1>3
    <3> QED
      BY <1>5, <1>13, <3>1 DEF x
  <2>4. queue' = queue /\ log' = log /\ last' = last
    BY Zenon, <1>3 DEF memVars
  <2>5. Chain(log', queue', x + Len(toAppend'), last')
    BY Zenon, <1>6, <2>3, <2>4
  <2>6. DOMAIN toAppend' = {} /\ DOMAIN batch' = {}
    BY <1>3
  <2>7. ComesNext(x)'
    BY Zenon, <1>3, <2>2, <2>4, <2>5, <2>6 DEF ComesNext
  <2>8. ASSUME DuplicateIsStored PROVE DuplicateIsStored'
    <3> SUFFICES ASSUME NEW a \in acked', a.dup PROVE store'[a.id[2]] = a.id[1]
      BY Zenon DEF DuplicateIsStored
    <3>1. a \in acked
      BY Zenon, <1>4, <2>1 DEF ComesNext
    <3>2. a.id \in EntryId
      <4>1. acked \in SUBSET AckOf
        BY Zenon DEF PrefixInv, LogTypeOK
      <4> QED
        BY Zenon, <3>1, <4>1 DEF AckOf
    <3>3. a.id[2] \in Index /\ a.id[1] # 0
      BY Zenon, <3>2 DEF EntryId
    <3>4. store[a.id[2]] = a.id[1]
      BY Zenon, <2>8, <3>1 DEF DuplicateIsStored
    <3>5. a.id[2] <= d
      BY Zenon, <1>4, <3>3, <3>4 DEF OnDisk
    <3>6. ~(a.id[2] > d)
      BY <1>5, <3>3, <3>5 DEF Index
    <3> QED
      BY Zenon, <1>10, <3>3, <3>4, <3>6
  <2>9. SameLog
    BY Zenon, <1>3 DEF SameLog, memVars
  <2>10. answered' /\ \A k \in DOMAIN queue' : queue'[k].kind # "truncate"
    BY Zenon, <1>3 DEF PrefixInv
  <2>11. ~CanFail => DuplicateIsStored'
    BY Zenon, <2>8 DEF PrefixInv
  <2> QED
    BY Zenon, <1>8, <1>12, <2>1, <2>7, <2>9, <2>10, <2>11, DiskKeeps
<1>14. CASE n # Len(toAppend)
  <2>1. hasError' /\ CanFail
    BY Zenon, <1>3, <1>14 DEF FlushOk, DiskFlush
  <2>2. SameLog
    BY Zenon, <1>3 DEF SameLog, memVars
  <2>3. answered' /\ \A k \in DOMAIN queue' : queue'[k].kind # "truncate"
    BY Zenon, <1>3 DEF PrefixInv
  <2> QED
    BY Zenon, <1>8, <1>12, <2>1, <2>2, <2>3, DiskKeeps
<1> QED
  BY Zenon, <1>13, <1>14

(* The disk thread runs a closure without entries: a duplicate reported    *)
(* stable is on disk, and last_log_id(true) answers the last id.           *)
LEMMA OtherKeeps ==
  ASSUME PrefixInv, LogTypeOK', DiskOther
  PROVE  PrefixInv'
<1> DEFINE c == Head(queue)
<1>1. /\ queue # <<>> /\ batch = <<>> /\ queue' = Tail(queue)
      /\ c.kind = "append" => c.ids = <<>>
      /\ UNCHANGED <<envVars, memVars, idVars, batch, toAppend, flagVars, log>>
  BY Zenon DEF DiskOther, Flushed
<1>2. last \in Nat /\ queue \in Seq(Closures) /\ toAppend \in Seq(EntryId)
  BY Zenon, PrefixFacts
<1>3. \A k \in DOMAIN queue : queue[k].kind # "truncate"
  BY Zenon DEF PrefixInv
<1>4. /\ c \in Closures /\ c.kind # "truncate"
      /\ \A k \in DOMAIN queue' : queue'[k].kind # "truncate"
  BY Zenon, <1>1, <1>2, <1>3, NoTruncateLeft
<1>5. lastId' = CurrentId /\ store' = store
  <2>1. CASE c.kind = "append"
    BY Zenon, <2>1 DEF DiskOther
  <2>2. CASE c.kind = "last"
    BY Zenon, <2>2 DEF DiskOther
  <2> QED
    BY Zenon, <1>4, <2>1, <2>2 DEF Closures, Appends
<1>6. /\ c.kind = "append" => acked' = acked \cup c.acks /\ answered' = answered
      /\ c.kind = "last" => /\ acked' = acked
                            /\ answered' = (answered /\ (hasError \/ CurrentId = c.id))
      /\ c.kind \in {"append", "last"}
  <2>1. CASE c.kind = "append"
    BY Zenon, <2>1 DEF DiskOther
  <2>2. CASE c.kind = "last"
    BY Zenon, <2>2 DEF DiskOther
  <2> QED
    BY Zenon, <1>4, <2>1, <2>2 DEF Closures, Appends
<1> HIDE DEF c
<1>7. SameLog
  BY Zenon, <1>1 DEF SameLog, memVars
<1>8. PICK d \in 0 .. last : OnDisk(d) /\ (~hasError => ComesNext(d))
  BY Zenon DEF PrefixInv
<1>9. OnDisk(d)'
  <2>1. \E i \in 0 .. d : lastId' = IdAt(log, i)
    BY Zenon, <1>5, <1>8, CurrentOnDisk
  <2> QED
    BY Zenon, <1>1, <1>5, <1>8, <2>1 DEF OnDisk, memVars, idVars
<1>10. hasError' = hasError /\ log' = log /\ last' = last /\ diskId' = diskId
  BY Zenon, <1>1 DEF flagVars, memVars, idVars
<1>11. ASSUME ComesNext(d)
       PROVE  \E x \in 0 .. last : Brings(log, c, d, x) /\ Chain(log, queue', x, last)
  <2>1. toAppend = <<>> /\ Chain(log, queue, d + Len(toAppend), last)
    BY Zenon, <1>1, <1>11 DEF ComesNext
  <2>2. d + Len(toAppend) = d /\ d \in Nat
    BY <2>1, <1>2
  <2> QED
    BY Zenon, <1>1, <1>2, <2>1, <2>2, ChainTaken DEF c
<1>12. ASSUME ComesNext(d) PROVE ComesNext(d)'
  <2>1. PICK x \in 0 .. last : Brings(log, c, d, x) /\ Chain(log, queue', x, last)
    BY Zenon, <1>11, <1>12
  <2>2. x = d
    <3>1. CASE c.kind = "append"
      <4>1. x = d + Len(c.ids) /\ c.ids = <<>>
        BY Zenon, <1>1, <2>1, <3>1 DEF Brings, c
      <4> QED
        BY <1>2, <4>1
    <3>2. CASE c.kind = "last"
      BY Zenon, <2>1, <3>2 DEF Brings
    <3> QED
      BY Zenon, <1>6, <3>1, <3>2
  <2>3. toAppend' = <<>> /\ batch' = <<>> /\ batch = <<>>
    BY Zenon, <1>1, <1>12 DEF ComesNext
  <2>4. d + Len(toAppend') = d
    BY <1>2, <2>3
  <2>5. CurrentId' = IdAt(log, d)
    BY Zenon, <1>5, <1>10, <1>12 DEF ComesNext, CurrentId
  <2>6. DOMAIN toAppend' = {} /\ DOMAIN batch' = {}
    BY <2>3
  <2>7. Chain(log', queue', d + Len(toAppend'), last')
    BY Zenon, <1>10, <2>1, <2>2, <2>4
  <2> QED
    BY Zenon, <1>10, <2>3, <2>5, <2>6, <2>7 DEF ComesNext
<1>13. ~hasError' => ComesNext(d)'
  BY Zenon, <1>8, <1>10, <1>12
<1>14. answered'
  <2>1. answered
    BY Zenon DEF PrefixInv
  <2>2. CASE c.kind = "append"
    BY Zenon, <1>6, <2>1, <2>2
  <2>3. CASE c.kind = "last"
    <3>1. ASSUME ~hasError PROVE CurrentId = c.id
      BY Zenon, <1>8, <1>11, <2>3, <3>1 DEF ComesNext, Brings
    <3> QED
      BY Zenon, <1>6, <2>1, <2>3, <3>1
  <2> QED
    BY Zenon, <1>6, <2>2, <2>3
<1>15. ASSUME ~CanFail PROVE ~hasError' /\ DuplicateIsStored'
  <2>1. ~hasError /\ DuplicateIsStored
    BY Zenon, <1>15 DEF PrefixInv
  <2>2. ASSUME NEW a \in acked', a.dup PROVE store[a.id[2]] = a.id[1]
    <3>1. CASE a \in acked
      BY Zenon, <2>1, <2>2, <3>1 DEF DuplicateIsStored
    <3>2. CASE c.kind = "append" /\ a \in c.acks
      <4>1. PICK x \in 0 .. last : Brings(log, c, d, x)
        BY Zenon, <1>8, <1>11, <2>1
      <4>2. PICK i \in 1 .. d : a.id = IdAt(log, i)
        BY Zenon, <2>2, <3>2, <4>1 DEF Brings
      <4>3. i \in Index /\ i <= d /\ i # 0
        <5>1. last <= MaxIndex /\ MaxIndex \in Nat
          BY Zenon, PrefixFacts
        <5> QED
          BY <1>2, <5>1 DEF Index
      <4>4. store[i] = log[i]
        BY Zenon, <1>8, <4>3 DEF OnDisk
      <4>5. a.id = <<log[i], i>>
        BY Zenon, <4>2, <4>3 DEF IdAt
      <4>6. a.id[1] = log[i] /\ a.id[2] = i
        BY <4>5
      <4> QED
        BY Zenon, <4>4, <4>6
    <3> QED
      BY Zenon, <1>6, <2>2, <3>1, <3>2
  <2>3. DuplicateIsStored'
    BY Zenon, <1>5, <2>2 DEF DuplicateIsStored
  <2> QED
    BY Zenon, <1>10, <2>1, <2>3
<1> QED
  BY Zenon, <1>4, <1>7, <1>8, <1>9, <1>13, <1>14, <1>15, DiskKeeps

(* set_disk_id: the id memory may be cleared up to is on disk.             *)
LEMMA EndKeeps ==
  ASSUME PrefixInv, LogTypeOK', DiskEnd
  PROVE  PrefixInv'
<1>1. /\ lastId # NoId /\ batch = <<>> /\ lastId' = NoId
      /\ UNCHANGED <<envVars, memVars, appliedId, queue, batch, toAppend, store,
                     flagVars, histVars>>
  BY Zenon DEF DiskEnd
<1>2. SameLog
  BY Zenon, <1>1 DEF SameLog, memVars, histVars
<1>3. /\ log' = log /\ last' = last /\ hasError' = hasError /\ queue' = queue
      /\ toAppend' = toAppend /\ batch' = batch /\ store' = store /\ acked' = acked
      /\ answered' = answered /\ mem' = mem /\ appliedId' = appliedId
  BY Zenon, <1>1 DEF memVars, flagVars, histVars
<1>4. PICK d \in 0 .. last : OnDisk(d) /\ (~hasError => ComesNext(d))
  BY Zenon DEF PrefixInv
<1>5. last \in Nat /\ d \in Nat /\ \A i \in 0 .. d : i \in 0 .. last
  <2>1. last \in Nat
    BY Zenon, PrefixFacts
  <2> QED
    BY <2>1
<1>6. PICK i \in 0 .. d : lastId = IdAt(log, i)
  BY Zenon, <1>1, <1>4 DEF OnDisk
<1>7. PICK j \in 0 .. d : diskId = IdAt(log, j)
  BY Zenon, <1>4 DEF OnDisk
<1>8. PICK a \in 0 .. last : appliedId = IdAt(log, a)
  BY Zenon, <1>4 DEF OnDisk
<1>9. /\ \A k \in Index : store[k] = IF k <= d THEN log[k] ELSE 0
      /\ Len(mem) <= last /\ last - Len(mem) <= d
      /\ \A k \in DOMAIN mem : mem[k] = IdAt(log, last - Len(mem) + k)
      /\ \A id \in {clearing["disk"], clearing["fsm"]} :
           id = NoId \/ \E k \in 0 .. d : id = IdAt(log, k)
  BY Zenon, <1>4 DEF OnDisk
<1>10. ~CanFail => ~hasError' /\ DuplicateIsStored'
  BY Zenon, <1>3 DEF PrefixInv, DuplicateIsStored
<1>11. answered' /\ \A k \in DOMAIN queue' : queue'[k].kind # "truncate"
  BY Zenon, <1>3 DEF PrefixInv
<1>12. CASE Older(lastId, diskId)
  <2>1. diskId' = diskId /\ clearing' = clearing
    BY Zenon, <1>12 DEF DiskEnd
  <2>2. OnDisk(d)'
    BY Zenon, <1>1, <1>3, <1>7, <1>8, <1>9, <2>1 DEF OnDisk
  <2>3. hasError
    <3>1. SUFFICES ASSUME ~hasError PROVE FALSE
      BY Zenon
    <3>2. lastId = IdAt(log, d) /\ d \in 0 .. last
      BY Zenon, <1>1, <1>4, <3>1 DEF ComesNext, CurrentId
    <3>3. d < j
      BY Zenon, <1>5, <1>7, <1>12, <3>2, OlderIs
    <3> QED
      BY <1>5, <3>3
  <2> QED
    BY Zenon, <1>2, <1>3, <1>10, <1>11, <2>2, <2>3, DiskKeeps
<1>13. CASE ~Older(lastId, diskId)
  <2>1. /\ diskId' = lastId
        /\ clearing' = [clearing EXCEPT !["disk"] = MinId(lastId, appliedId)]
    BY Zenon, <1>13 DEF DiskEnd
  <2>2. PICK k \in 0 .. last : MinId(lastId, appliedId) = IdAt(log, k) /\ k <= i
    BY Zenon, <1>5, <1>6, <1>8, MinIdIs
  <2>3. k \in 0 .. d
    BY <1>5, <2>2
  <2>4. clearing'["disk"] = IdAt(log, k) /\ clearing'["fsm"] = clearing["fsm"]
    <3>1. clearing \in [Threads -> (Nat \X Nat) \cup {NoId}]
      BY Zenon DEF PrefixInv, LogTypeOK
    <3> QED
      BY <2>1, <2>2, <3>1 DEF Threads
  <2>5. OnDisk(d)'
    <3>1. \A id \in {lastId', clearing'["disk"], clearing'["fsm"]} :
            id = NoId \/ \E h \in 0 .. d : id = IdAt(log, h)
      BY Zenon, <1>1, <1>9, <2>3, <2>4
    <3>2. \E h \in 0 .. d : diskId' = IdAt(log, h)
      BY Zenon, <1>6, <2>1
    <3> QED
      BY Zenon, <1>3, <1>8, <1>9, <3>1, <3>2 DEF OnDisk
  <2>6. ASSUME ComesNext(d) PROVE ComesNext(d)'
    <3>1. CurrentId' = IdAt(log, d)
      BY Zenon, <1>1, <2>1, <2>6 DEF ComesNext, CurrentId
    <3> QED
      BY Zenon, <1>3, <2>6, <3>1 DEF ComesNext
  <2>7. ~hasError' => ComesNext(d)'
    BY Zenon, <1>3, <1>4, <2>6
  <2> QED
    BY Zenon, <1>2, <1>10, <1>11, <2>5, <2>7, DiskKeeps
<1> QED
  BY Zenon, <1>12, <1>13

(* set_applied_id: so is the one the FSMCaller computes.                   *)
LEMMA AppliedKeeps ==
  ASSUME PrefixInv, LogTypeOK', NEW i \in Index, SetAppliedId(i)
  PROVE  PrefixInv'
<1>1. last \in Nat /\ appliedId[2] \in Nat
  <2>1. appliedId \in Nat \X Nat
    BY Zenon DEF PrefixInv, LogTypeOK
  <2>2. last \in Nat
    BY Zenon, PrefixFacts
  <2> QED
    BY Zenon, <2>1, <2>2
<1>2. i \in appliedId[2] + 1 .. last
  BY Zenon DEF SetAppliedId
<1>3. i \in 1 .. last /\ i \in 0 .. last /\ i # 0
  BY <1>1, <1>2
<1>4. <<GetTerm(i), i>> = IdAt(log, i)
  BY Zenon, <1>3, ReadsLog DEF IdAt
<1>5. /\ appliedId' = IdAt(log, i)
      /\ clearing' = [clearing EXCEPT !["fsm"] = MinId(diskId, IdAt(log, i))]
      /\ UNCHANGED <<envVars, memVars, diskId, diskVars, flagVars, histVars>>
  BY Zenon, <1>4 DEF SetAppliedId
<1>6. SameLog
  BY Zenon, <1>5 DEF SameLog, memVars, histVars
<1>7. /\ log' = log /\ last' = last /\ hasError' = hasError /\ queue' = queue
      /\ toAppend' = toAppend /\ batch' = batch /\ store' = store /\ acked' = acked
      /\ answered' = answered /\ mem' = mem /\ diskId' = diskId /\ lastId' = lastId
  BY Zenon, <1>5 DEF memVars, diskVars, flagVars, histVars
<1>8. PICK d \in 0 .. last : OnDisk(d) /\ (~hasError => ComesNext(d))
  BY Zenon DEF PrefixInv
<1>9. PICK j \in 0 .. d : diskId = IdAt(log, j)
  BY Zenon, <1>8 DEF OnDisk
<1>10. j \in 0 .. last
  BY <1>1
<1>11. PICK k \in 0 .. last : MinId(diskId, IdAt(log, i)) = IdAt(log, k) /\ k <= j
  BY Zenon, <1>3, <1>9, <1>10, MinIdIs
<1>12. k \in 0 .. d
  BY <1>1, <1>11
<1>13. clearing'["fsm"] = IdAt(log, k) /\ clearing'["disk"] = clearing["disk"]
  <2>1. clearing \in [Threads -> (Nat \X Nat) \cup {NoId}]
    BY Zenon DEF PrefixInv, LogTypeOK
  <2> QED
    BY <1>5, <1>11, <2>1 DEF Threads
<1>14. /\ \A h \in Index : store[h] = IF h <= d THEN log[h] ELSE 0
       /\ Len(mem) <= last /\ last - Len(mem) <= d
       /\ \A h \in DOMAIN mem : mem[h] = IdAt(log, last - Len(mem) + h)
       /\ \A id \in {lastId, clearing["disk"]} :
            id = NoId \/ \E h \in 0 .. d : id = IdAt(log, h)
  BY Zenon, <1>8 DEF OnDisk
<1>15. OnDisk(d)'
  <2>1. \A id \in {lastId', clearing'["disk"], clearing'["fsm"]} :
          id = NoId \/ \E h \in 0 .. d : id = IdAt(log, h)
    BY Zenon, <1>7, <1>12, <1>13, <1>14
  <2> QED
    BY Zenon, <1>3, <1>5, <1>7, <1>9, <1>14, <2>1 DEF OnDisk
<1>16. ASSUME ComesNext(d) PROVE ComesNext(d)'
  BY Zenon, <1>7, <1>16 DEF ComesNext, CurrentId
<1>17. ~hasError' => ComesNext(d)'
  BY Zenon, <1>7, <1>8, <1>16
<1>18. ~CanFail => ~hasError' /\ DuplicateIsStored'
  BY Zenon, <1>7 DEF PrefixInv, DuplicateIsStored
<1>19. answered' /\ \A h \in DOMAIN queue' : queue'[h].kind # "truncate"
  BY Zenon, <1>7 DEF PrefixInv
<1> QED
  BY Zenon, <1>6, <1>8, <1>15, <1>17, <1>18, <1>19, DiskKeeps

(* clear_memory_logs: what is dropped is on disk.                          *)
LEMMA ClearKeeps ==
  ASSUME PrefixInv, LogTypeOK', NEW t \in Threads, ClearMemoryLogs(t)
  PROVE  PrefixInv'
<1>1. /\ clearing[t] # NoId /\ clearing' = [clearing EXCEPT ![t] = NoId]
      /\ UNCHANGED <<envVars, last, max, bits, diskId, appliedId, diskVars, flagVars,
                     histVars>>
  BY Zenon DEF ClearMemoryLogs
<1>2. PICK n \in 0 .. Len(mem) :
        Droppable(clearing[t], n) /\ mem' = SubSeq(mem, n + 1, Len(mem))
  BY Zenon DEF ClearMemoryLogs
<1>3. SameLog
  BY Zenon, <1>1 DEF SameLog, histVars
<1>4. /\ log' = log /\ last' = last /\ hasError' = hasError /\ queue' = queue
      /\ toAppend' = toAppend /\ batch' = batch /\ store' = store /\ acked' = acked
      /\ answered' = answered /\ diskId' = diskId /\ appliedId' = appliedId
      /\ lastId' = lastId
  BY Zenon, <1>1 DEF diskVars, flagVars, histVars
<1>5. PICK d \in 0 .. last : OnDisk(d) /\ (~hasError => ComesNext(d))
  BY Zenon DEF PrefixInv
<1>6. t = "disk" \/ t = "fsm"
  BY Zenon DEF Threads
<1>7. PICK j \in 0 .. d : clearing[t] = IdAt(log, j)
  BY Zenon, <1>1, <1>5, <1>6 DEF OnDisk
<1>8. /\ last \in Nat /\ mem \in Seq(Nat \X Nat)
  BY Zenon, PrefixFacts
<1> DEFINE m == Len(mem)
<1>9. m \in Nat /\ DOMAIN mem = 1 .. m
  BY <1>8
<1>10. /\ Len(mem') = m - n /\ DOMAIN mem' = 1 .. m - n
       /\ \A k \in 1 .. m - n : mem'[k] = mem[n + k]
  BY Zenon, <1>2, <1>8, EndIs
<1> HIDE DEF m
<1>11. /\ \A h \in Index : store[h] = IF h <= d THEN log[h] ELSE 0
       /\ m <= last /\ last - m <= d
       /\ \A h \in 1 .. m : mem[h] = IdAt(log, last - m + h)
       /\ \E h \in 0 .. last : appliedId = IdAt(log, h)
       /\ \E h \in 0 .. d : diskId = IdAt(log, h)
  BY Zenon, <1>5, <1>9 DEF OnDisk, m
<1>12. n \in 0 .. m
  BY Zenon, <1>2 DEF m
<1>13. last - m + n <= d
  <2>1. CASE n = 0
    BY <1>8, <1>9, <1>11, <2>1
  <2>2. CASE n # 0
    <3>1. n \in 1 .. n /\ n \in 1 .. m /\ last - m + n \in 0 .. last /\ j \in 0 .. last
      BY <1>8, <1>9, <1>11, <1>12, <2>2
    <3>2. ~Older(clearing[t], mem[n])
      BY Zenon, <1>2, <3>1 DEF Droppable
    <3>3. mem[n] = IdAt(log, last - m + n)
      BY Zenon, <1>11, <3>1
    <3>4. ~(j < last - m + n)
      BY Zenon, <1>7, <3>1, <3>2, <3>3, OlderIs
    <3> QED
      BY <1>8, <1>9, <1>12, <3>4
  <2> QED
    BY Zenon, <2>1, <2>2
<1>14. last - Len(mem') = last - m + n /\ Len(mem') <= last
  BY <1>8, <1>9, <1>10, <1>11, <1>12
<1>15. \A k \in DOMAIN mem' : mem'[k] = IdAt(log, last - Len(mem') + k)
  <2>1. ASSUME NEW k \in 1 .. m - n PROVE mem'[k] = IdAt(log, last - Len(mem') + k)
    <3>1. n + k \in 1 .. m /\ last - m + (n + k) = last - m + n + k
      BY <1>8, <1>9, <1>12
    <3>2. mem[n + k] = IdAt(log, last - m + (n + k))
      BY Zenon, <1>11, <3>1
    <3> QED
      BY Zenon, <1>10, <1>14, <3>1, <3>2
  <2> QED
    BY Zenon, <1>10, <2>1
<1>16. \A id \in {lastId', clearing'["disk"], clearing'["fsm"]} :
         id = NoId \/ \E h \in 0 .. d : id = IdAt(log, h)
  <2>1. clearing \in [Threads -> (Nat \X Nat) \cup {NoId}]
    BY Zenon DEF PrefixInv, LogTypeOK
  <2>2. \A s \in {"disk", "fsm"} : clearing'[s] = NoId \/ clearing'[s] = clearing[s]
    BY Zenon, <1>1, <2>1 DEF Threads
  <2> QED
    BY Zenon, <1>4, <1>5, <2>2 DEF OnDisk
<1>17. OnDisk(d)'
  <2>1. last - Len(mem') <= d
    BY Zenon, <1>13, <1>14
  <2> QED
    BY Zenon, <1>4, <1>11, <1>14, <1>15, <1>16, <2>1 DEF OnDisk
<1>18. ASSUME ComesNext(d) PROVE ComesNext(d)'
  BY Zenon, <1>4, <1>18 DEF ComesNext, CurrentId
<1>19. ~hasError' => ComesNext(d)'
  BY Zenon, <1>4, <1>5, <1>18
<1>20. ~CanFail => ~hasError' /\ DuplicateIsStored'
  BY Zenon, <1>4 DEF PrefixInv, DuplicateIsStored
<1>21. answered' /\ \A h \in DOMAIN queue' : queue'[h].kind # "truncate"
  BY Zenon, <1>4 DEF PrefixInv
<1> QED
  BY Zenon, <1>3, <1>5, <1>17, <1>19, <1>20, <1>21, DiskKeeps

(* A restart: the log is what is on disk.                                  *)
LEMMA RestartKeeps ==
  ASSUME PrefixInv, LogTypeOK', ~Conflicts, Restart
  PROVE  PrefixInv'
<1> DEFINE top == Max({0} \cup {i \in Index : store[i] # 0})
<1>1. /\ last' = top /\ max' = top /\ mem' = <<>>
      /\ leader' = (IF leader = "self" THEN "none" ELSE leader)
      /\ elected' = (IF leader = "self" THEN Remembered(OwnLog) ELSE elected)
      /\ diskId' = (IF top = 0 THEN NoEntry ELSE <<store[top], top>>)
      /\ appliedId' = NoEntry /\ clearing' = [s \in Threads |-> NoId]
      /\ queue' = <<>> /\ batch' = <<>> /\ toAppend' = <<>> /\ lastId' = NoId
      /\ hasError' = FALSE /\ log' = store /\ curTerm' = curTerm
      /\ leaderLog' = leaderLog /\ store' = store /\ acked' = acked /\ answered' = answered
  BY Zenon DEF Restart
<1>2. /\ MaxIndex \in Nat /\ last \in Nat /\ last <= MaxIndex /\ store \in [Index -> Nat]
      /\ leaderLog \in Seq(Nat \ {0})
      /\ \A i \in 1 .. last : i \in Index /\ log[i] \in Nat \ {0}
  BY Zenon, PrefixFacts
<1>3. PICK d \in 0 .. last : OnDisk(d)
  BY Zenon DEF PrefixInv
<1>4. \A i \in Index : store[i] = IF i <= d THEN log[i] ELSE 0
  BY Zenon, <1>3 DEF OnDisk
<1>5. \A i \in 1 .. d : i \in 1 .. last /\ i \in Index /\ i <= d
  BY <1>2
<1>6. \A i \in 1 .. d : store[i] = log[i] /\ store[i] # 0
  <2> TAKE i \in 1 .. d
  <2>1. store[i] = log[i]
    BY Zenon, <1>4, <1>5
  <2>2. log[i] # 0
    BY Zenon, <1>2, <1>5
  <2> QED
    BY Zenon, <2>1, <2>2
<1>7. top = d
  <2> DEFINE S == {0} \cup {i \in Index : store[i] # 0}
  <2>1. S \in SUBSET (0 .. MaxIndex) /\ S # {}
    BY <1>2 DEF Index
  <2>2. Max(S) \in S /\ \A y \in S : y <= Max(S)
    BY Zenon, <1>2, <2>1, MaxIsMax
  <2>3. d \in S
    <3>1. d = 0 \/ d \in 1 .. d
      BY <1>2
    <3> QED
      BY Zenon, <1>5, <1>6, <3>1
  <2>4. \A y \in S : y = 0 \/ y <= d
    BY Zenon, <1>4
  <2>5. Max(S) <= d /\ d <= Max(S) /\ Max(S) \in Nat
    BY <1>2, <2>1, <2>2, <2>3, <2>4
  <2>6. Max(S) = d
    <3> HIDE DEF S
    <3> QED
      BY <1>2, <2>5
  <2> QED
    BY Zenon, <2>6
<1> HIDE DEF top
<1>8. LogIsPrefix'
  <2>1. \A i \in Index : i > d => ~(i <= d)
    BY <1>2 DEF Index
  <2>2. \A i \in Index : i > last' => log'[i] = 0
    BY Zenon, <1>1, <1>4, <1>7, <2>1
  <2>3. LastIsContiguous'
    <3>1. last' < MaxIndex => last' + 1 \in Index /\ last' + 1 > last'
      BY <1>1, <1>2, <1>7 DEF Index
    <3>2. last' < MaxIndex => log'[last' + 1] = 0
      BY Zenon, <2>2, <3>1
    <3> QED
      BY Zenon, <1>1, <1>6, <1>7, <3>2 DEF LastIsContiguous
  <2>4. Ascending(log', last', curTerm')
    <3>1. Ascending(log, last, curTerm)
      BY Zenon DEF PrefixInv, LogIsPrefix
    <3>2. Ascending(store, d, curTerm)
      BY Zenon, <1>5, <1>6, <3>1 DEF Ascending
    <3> QED
      BY Zenon, <1>1, <1>7, <3>2
  <2>5. Ascending(leaderLog', Len(leaderLog'), curTerm')
    BY Zenon, <1>1 DEF PrefixInv, LogIsPrefix
  <2>6. elected' = {}
    BY Zenon, <1>1 DEF PrefixInv, LogIsPrefix, Remembered
  <2>7. ASSUME leader' = "other"
        PROVE  last' <= Len(leaderLog') /\ \A i \in 1 .. last' : leaderLog'[i] = log'[i]
    <3>1. leader = "other"
      BY Zenon, <1>1, <2>7
    <3>2. last <= Len(leaderLog) /\ \A i \in 1 .. last : leaderLog[i] = log[i]
      BY Zenon, <3>1 DEF PrefixInv, LogIsPrefix
    <3>3. d <= Len(leaderLog)
      BY <1>2, <3>2
    <3>4. \A i \in 1 .. d : leaderLog[i] = store[i]
      BY Zenon, <1>5, <1>6, <3>2
    <3> QED
      BY Zenon, <1>1, <1>7, <3>3, <3>4
  <2> QED
    BY Zenon, <1>1, <2>2, <2>3, <2>4, <2>5, <2>6, <2>7 DEF LogIsPrefix
<1>9. diskId' = IdAt(log', d) /\ appliedId' = IdAt(log', 0)
  BY Zenon, <1>1, <1>7 DEF IdAt
<1>10. d \in Nat /\ d \in 0 .. d /\ 0 \in 0 .. d /\ d \in 0 .. last' /\ 0 \in 0 .. last'
  BY <1>1, <1>2, <1>7
<1>11. Len(mem') = 0 /\ DOMAIN mem' = {}
  BY <1>1
<1>12. OnDisk(d)'
  <2>1. Len(mem') <= last' /\ last' - Len(mem') <= d
    BY <1>1, <1>7, <1>10, <1>11
  <2>2. clearing'["disk"] = NoId /\ clearing'["fsm"] = NoId
    BY Zenon, <1>1 DEF Threads
  <2>3. \A i \in Index : store'[i] = IF i <= d THEN log'[i] ELSE 0
    BY Zenon, <1>1, <1>4
  <2> QED
    BY Zenon, <1>1, <1>9, <1>10, <1>11, <2>1, <2>2, <2>3 DEF OnDisk
<1>13. ComesNext(d)'
  <2>1. DOMAIN toAppend' = {} /\ DOMAIN batch' = {} /\ DOMAIN queue' = {}
    BY <1>1
  <2>2. d + Len(toAppend') = d /\ last' = d
    BY <1>1, <1>7, <1>10
  <2>3. Chain(log', queue', d, d)
    <3> DEFINE e == [k \in 0 .. 0 |-> d]
    <3>1. Len(queue') = 0
      BY Zenon, <1>1
    <3>2. e \in [0 .. 0 -> 0 .. d] /\ e[0] = d
      BY <1>10
    <3> QED
      BY Zenon, <2>1, <3>1, <3>2 DEF Chain
  <2>4. CurrentId' = IdAt(log', d)
    BY Zenon, <1>1, <1>9 DEF CurrentId
  <2> QED
    BY Zenon, <1>1, <2>1, <2>2, <2>3, <2>4 DEF ComesNext
<1>14. ~CanFail => ~hasError' /\ DuplicateIsStored'
  BY Zenon, <1>1 DEF PrefixInv, DuplicateIsStored
<1>15. answered' /\ \A h \in DOMAIN queue' : queue'[h].kind # "truncate"
  BY <1>1 DEF PrefixInv
<1> QED
  BY Zenon, <1>8, <1>10, <1>12, <1>13, <1>14, <1>15 DEF PrefixInv

-----------------------------------------------------------------------------
(* The cluster.                                                            *)

(* The log stays, and later leaders have nothing to start from but the     *)
(* current log.                                                            *)
LEMMA ClusterPrefix ==
  ASSUME PrefixInv, last' = last, max' = max, log' = log, elected' = {},
         curTerm' \in Nat, curTerm <= curTerm',
         Ascending(leaderLog', Len(leaderLog'), curTerm'),
         leader' = "other" =>
           last <= Len(leaderLog') /\ \A i \in 1 .. last : leaderLog'[i] = log[i]
  PROVE  LogIsPrefix'
<1>1. /\ last \in Nat /\ curTerm \in Nat \ {0} /\ max = last
      /\ \A i \in 1 .. last : log[i] \in Nat \ {0}
  BY Zenon, PrefixFacts
<1>2. LastIsContiguous /\ Ascending(log, last, curTerm) /\ \A i \in Index : i > last => log[i] = 0
  BY Zenon DEF PrefixInv, LogIsPrefix
<1>3. Ascending(log, last, curTerm')
  <2>1. curTerm \in Nat /\ last <= last /\ \A i \in 1 .. last : log[i] \in Nat
    BY <1>1
  <2> QED
    BY Zenon, <1>1, <1>2, <2>1, AscendingWeaker
<1>4. LastIsContiguous'
  BY Zenon, <1>2 DEF LastIsContiguous
<1> QED
  BY Zenon, <1>1, <1>2, <1>3, <1>4 DEF LogIsPrefix

(* This node is elected.                                                   *)
LEMMA LeadKeeps ==
  ASSUME PrefixInv, LogTypeOK', ~Conflicts, Lead
  PROVE  PrefixInv'
<1>1. /\ leader' = "self" /\ curTerm' = curTerm + 1 /\ elected' = {}
      /\ leaderLog' = leaderLog /\ last' = last /\ max' = max /\ log' = log
  BY Zenon DEF Lead, Remembered, memVars, histVars
<1>2. curTerm \in Nat \ {0} /\ leaderLog \in Seq(Nat \ {0})
  BY Zenon, PrefixFacts
<1>3. /\ Len(leaderLog) \in Nat /\ Len(leaderLog) <= Len(leaderLog) /\ curTerm \in Nat
      /\ curTerm' \in Nat /\ curTerm <= curTerm' /\ leader' # "other"
      /\ \A i \in 1 .. Len(leaderLog) : leaderLog[i] \in Nat
  BY <1>1, <1>2
<1>4. Ascending(leaderLog, Len(leaderLog), curTerm)
  BY Zenon DEF PrefixInv, LogIsPrefix
<1>5. Ascending(leaderLog, Len(leaderLog), curTerm')
  BY Zenon, <1>3, <1>4, AscendingWeaker
<1>6. LogIsPrefix'
  BY Zenon, <1>1, <1>3, <1>5, ClusterPrefix
<1>7. SameDisk
  BY Zenon DEF Lead, SameDisk, flagVars
<1> QED
  BY Zenon, <1>6, <1>7, SameDiskKeeps

(* Another node is elected, which has what this one has.                   *)
LEMMA FollowKeeps ==
  ASSUME PrefixInv, LogTypeOK', ~Conflicts, NEW base, NEW k, Follow(base, k)
  PROVE  PrefixInv'
<1>1. /\ leader' = "other" /\ curTerm' = curTerm + 1 /\ elected' = {}
      /\ leaderLog' = SubSeq(base, 1, k) /\ last' = last /\ max' = max /\ log' = log
      /\ k \in 0 .. Len(base)
      /\ \A i \in Index : log[i] # 0 => i <= k /\ base[i] = log[i]
  BY Zenon DEF Follow, Remembered, memVars, histVars
<1>2. /\ curTerm \in Nat \ {0} /\ leaderLog \in Seq(Nat \ {0}) /\ last \in Nat
      /\ log \in [Index -> Nat] /\ MaxIndex \in Nat /\ last <= MaxIndex
      /\ \A i \in 1 .. last : i \in Index /\ log[i] \in Nat \ {0}
  BY Zenon, PrefixFacts
<1>3. base = OwnLog \/ base = leaderLog
  <2>1. elected = {}
    BY Zenon DEF PrefixInv, LogIsPrefix
  <2> QED
    BY Zenon, <2>1 DEF Follow
<1>4. base \in Seq(Nat) /\ Ascending(base, Len(base), curTerm)
  <2>1. CASE base = leaderLog
    <3>1. leaderLog \in Seq(Nat)
      BY <1>2
    <3> QED
      BY Zenon, <2>1, <3>1 DEF PrefixInv, LogIsPrefix
  <2>2. CASE base = OwnLog
    <3>1. log \in Seq(Nat) /\ Len(log) = MaxIndex
      BY Zenon, <1>2, FcnIsSeq DEF Index
    <3>2. last \in 0 .. Len(log)
      BY <1>2, <3>1
    <3>3. /\ OwnLog \in Seq(Nat) /\ Len(OwnLog) = last
          /\ \A i \in 1 .. last : OwnLog[i] = log[i]
      BY Zenon, <3>1, <3>2, StartIs DEF OwnLog
    <3>4. Ascending(log, last, curTerm)
      BY Zenon DEF PrefixInv, LogIsPrefix
    <3>5. Ascending(OwnLog, last, curTerm)
      BY Zenon, <3>3, <3>4 DEF Ascending
    <3> QED
      BY Zenon, <2>2, <3>3, <3>5
  <2> QED
    BY Zenon, <1>3, <2>1, <2>2
<1>5. /\ Len(leaderLog') = k /\ \A i \in 1 .. k : leaderLog'[i] = base[i]
  BY Zenon, <1>1, <1>4, StartIs
<1>6. /\ k \in Nat /\ Len(base) \in Nat /\ k <= Len(base) /\ curTerm \in Nat
      /\ curTerm' \in Nat /\ curTerm <= curTerm' /\ \A i \in 1 .. Len(base) : base[i] \in Nat
  BY <1>1, <1>2, <1>4
<1>7. Ascending(base, k, curTerm')
  BY Zenon, <1>4, <1>6, AscendingWeaker
<1>8. Ascending(leaderLog', Len(leaderLog'), curTerm')
  BY Zenon, <1>5, <1>7 DEF Ascending
<1>9. last <= k
  <2>1. CASE last = 0
    BY <1>6, <2>1
  <2>2. CASE last # 0
    <3>1. last \in 1 .. last
      BY <1>2, <2>2
    <3>2. last \in Index /\ log[last] # 0
      BY Zenon, <1>2, <3>1
    <3> QED
      BY Zenon, <1>1, <3>2
  <2> QED
    BY Zenon, <2>1, <2>2
<1>10. \A i \in 1 .. last : leaderLog'[i] = log[i]
  <2> TAKE i \in 1 .. last
  <2>1. i \in 1 .. k /\ i \in Index /\ log[i] # 0
    BY <1>2, <1>6, <1>9
  <2> QED
    BY Zenon, <1>1, <1>5, <2>1
<1>11. LogIsPrefix'
  BY Zenon, <1>1, <1>5, <1>6, <1>8, <1>9, <1>10, ClusterPrefix
<1>12. SameDisk
  BY Zenon DEF Follow, SameDisk, flagVars
<1> QED
  BY Zenon, <1>11, <1>12, SameDiskKeeps

(* The leader elsewhere gets an entry.                                     *)
LEMMA ExtendsKeeps ==
  ASSUME PrefixInv, LogTypeOK', LeaderExtends
  PROVE  PrefixInv'
<1> DEFINE n == Len(leaderLog)
<1>1. /\ leader = "other" /\ leaderLog' = Append(leaderLog, curTerm) /\ curTerm' = curTerm
      /\ leader' = leader /\ elected' = elected /\ last' = last /\ max' = max /\ log' = log
  BY Zenon DEF LeaderExtends, memVars, histVars
<1>2. curTerm \in Nat \ {0} /\ leaderLog \in Seq(Nat \ {0}) /\ last \in Nat
  BY Zenon, PrefixFacts
<1>3. /\ n \in Nat /\ Len(leaderLog') = n + 1 /\ leaderLog'[n + 1] = curTerm
      /\ \A i \in 1 .. n : leaderLog'[i] = leaderLog[i]
  BY <1>1, <1>2
<1>4. /\ Ascending(leaderLog, n, curTerm) /\ elected = {} /\ last <= n
      /\ \A i \in 1 .. last : leaderLog[i] = log[i]
  BY Zenon, <1>1 DEF PrefixInv, LogIsPrefix
<1> HIDE DEF n
<1>5. curTerm \in Nat /\ curTerm' \in Nat /\ curTerm <= curTerm' /\ curTerm <= curTerm
  BY <1>1, <1>2
<1>6. Ascending(leaderLog', n + 1, curTerm)
  <2>1. \A i \in 1 .. n + 1 : i \in 1 .. n \/ i = n + 1
    BY <1>3
  <2>2. \A i \in 1 .. n + 1 : leaderLog'[i] <= curTerm
    BY Zenon, <1>3, <1>4, <1>5, <2>1 DEF Ascending
  <2>3. ASSUME NEW i \in 1 .. n + 1, NEW j \in 1 .. n + 1, i <= j
        PROVE  leaderLog'[i] <= leaderLog'[j]
    <3>1. CASE j = n + 1
      BY Zenon, <1>3, <2>2, <3>1
    <3>2. CASE j \in 1 .. n
      <4>1. i \in 1 .. n
        BY <1>3, <2>3, <3>2
      <4> QED
        BY Zenon, <1>3, <1>4, <2>3, <3>2, <4>1 DEF Ascending
    <3> QED
      BY Zenon, <2>1, <3>1, <3>2
  <2> QED
    BY Zenon, <2>2, <2>3 DEF Ascending
<1>7. last <= n + 1 /\ \A i \in 1 .. last : i \in 1 .. n
  BY <1>2, <1>3, <1>4
<1>8. LogIsPrefix'
  <2>1. Ascending(leaderLog', Len(leaderLog'), curTerm') /\ last <= Len(leaderLog')
    BY Zenon, <1>1, <1>3, <1>6, <1>7
  <2>2. \A i \in 1 .. last : leaderLog'[i] = log[i]
    BY Zenon, <1>3, <1>4, <1>7
  <2>3. elected' = {}
    BY Zenon, <1>1, <1>4
  <2> QED
    BY Zenon, <1>1, <1>5, <2>1, <2>2, <2>3, ClusterPrefix
<1>9. SameDisk
  BY Zenon DEF LeaderExtends, SameDisk, flagVars
<1> QED
  BY Zenon, <1>8, <1>9, SameDiskKeeps

(* A step of a waiter, a shutdown or no step.                              *)
LEMMA OutsideKeeps ==
  ASSUME PrefixInv, LogTypeOK', UNCHANGED envVars, SameDisk
  PROVE  PrefixInv'
<1>1. SameLog
  BY Zenon DEF SameLog, SameDisk, memVars, histVars
<1>2. LogIsPrefix'
  BY Zenon, <1>1, SameLogKeeps DEF PrefixInv
<1> QED
  BY Zenon, <1>2, SameDiskKeeps

-----------------------------------------------------------------------------
(* The theorems.                                                           *)

(* Initially the log is empty.                                             *)
LEMMA PrefixInit ==
  ASSUME LogInit
  PROVE  PrefixInv
<1>1. LogTypeOK
  BY Zenon, LogManagerAssumption, LogTypeInit
<1>2. MaxIndex \in Nat
  BY Zenon, LogManagerAssumption
<1>3. LogIsPrefix
  BY <1>2 DEF LogInit, LogIsPrefix, LastIsContiguous, Ascending, Index
<1>4. OnDisk(0)
  BY <1>2 DEF LogInit, OnDisk, IdAt, Index, Threads
<1>5. ComesNext(0)
  <2>1. Chain(log, queue, 0, 0)
    <3> DEFINE e == [k \in 0 .. 0 |-> 0]
    <3>1. Len(queue) = 0 /\ DOMAIN queue = {}
      BY DEF LogInit
    <3>2. e \in [0 .. 0 -> 0 .. 0] /\ e[0] = 0
      OBVIOUS
    <3> QED
      BY Zenon, <3>1, <3>2 DEF Chain
  <2>2. CurrentId = IdAt(log, 0)
    BY Zenon DEF LogInit, CurrentId, IdAt
  <2>3. toAppend = <<>> /\ batch = <<>> /\ last = 0
    BY Zenon DEF LogInit
  <2>4. DOMAIN toAppend = {} /\ DOMAIN batch = {} /\ 0 + Len(toAppend) = 0
    BY <2>3
  <2> QED
    BY Zenon, <2>1, <2>2, <2>3, <2>4 DEF ComesNext
<1>6. answered /\ ~hasError /\ last = 0 /\ acked = {} /\ queue = <<>>
  BY Zenon DEF LogInit
<1>7. 0 \in 0 .. last /\ DOMAIN queue = {}
  BY <1>6
<1> QED
  BY Zenon, <1>1, <1>3, <1>4, <1>5, <1>6, <1>7 DEF PrefixInv, DuplicateIsStored

(* Every step keeps the invariant.                                         *)
LEMMA PrefixStep ==
  ASSUME PrefixInv, ~OORep, ~Conflicts, [LogNext]_logVars
  PROVE  PrefixInv'
<1>1. LogTypeOK'
  BY Zenon, LogManagerAssumption, LogTypeStep DEF PrefixInv
<1>2. ASSUME NEW n \in 0 .. Len(toAppend), DiskFlush(n) PROVE PrefixInv'
  BY Zenon, <1>1, <1>2, FailedFlushKeeps, WritingFlushKeeps
<1>3. ASSUME NEW w \in Waiter, NEW i \in 0 .. MaxIndex, Wait(w, i) PROVE PrefixInv'
  <2>1. UNCHANGED envVars /\ SameDisk
    BY Zenon, <1>3 DEF Wait, SameDisk
  <2> QED
    BY Zenon, <1>1, <2>1, OutsideKeeps
<1>4. ASSUME NEW w \in Waiter, RemoveWaiter(w) PROVE PrefixInv'
  <2>1. UNCHANGED envVars /\ SameDisk
    BY Zenon, <1>4 DEF RemoveWaiter, SameDisk
  <2> QED
    BY Zenon, <1>1, <2>1, OutsideKeeps
<1>5. CASE Shutdown
  <2>1. UNCHANGED envVars /\ SameDisk
    BY Zenon, <1>5 DEF Shutdown, SameDisk
  <2> QED
    BY Zenon, <1>1, <2>1, OutsideKeeps
<1>6. CASE UNCHANGED logVars
  <2>1. UNCHANGED envVars /\ SameDisk
    BY Zenon, <1>6 DEF logVars, flagVars, SameDisk
  <2> QED
    BY Zenon, <1>1, <2>1, OutsideKeeps
<1>7. ASSUME NEW n \in 1 .. MaxIndex, LeaderAppend(n) PROVE PrefixInv'
  BY Zenon, <1>1, <1>7, LeaderKeeps
<1>8. ASSUME NEW i \in Index, FollowerAppend(i) PROVE PrefixInv'
  BY Zenon, <1>1, <1>8, FollowerKeeps
<1>9. CASE DiskTake \/ DiskOther \/ DiskEnd \/ AskLastLogId
  BY Zenon, <1>1, <1>9, TakeKeeps, OtherKeeps, EndKeeps, AskKeeps
<1>10. ASSUME NEW i \in Index, SetAppliedId(i) PROVE PrefixInv'
  BY Zenon, <1>1, <1>10, AppliedKeeps
<1>11. ASSUME NEW t \in Threads, ClearMemoryLogs(t) PROVE PrefixInv'
  BY Zenon, <1>1, <1>11, ClearKeeps
<1>12. CASE Restart \/ Lead \/ LeaderExtends
  BY Zenon, <1>1, <1>12, RestartKeeps, LeadKeeps, ExtendsKeeps
<1>13. ASSUME NEW base, NEW k, Follow(base, k) PROVE PrefixInv'
  BY Zenon, <1>1, <1>13, FollowKeeps
<1> QED
  BY Zenon, <1>2, <1>3, <1>4, <1>5, <1>6, <1>7, <1>8, <1>9, <1>10, <1>11, <1>12, <1>13
     DEF LogNext

(* In order and without competing leaders the invariant always holds.      *)
LEMMA PrefixAlways ==
  ASSUME ~OORep, ~Conflicts
  PROVE  LogSpec => []PrefixInv
<1>1. LogInit => PrefixInv
  BY Zenon, PrefixInit
<1>2. PrefixInv /\ [LogNext]_logVars => PrefixInv'
  BY Zenon, PrefixStep
<1> QED
  BY <1>1, <1>2, PTL DEF LogSpec

(* THEOREM.  In order and without competing leaders, get_term and          *)
(* get_entry answer the accepted entry at every index, whatever part of    *)
(* the log the disk thread has written and clear_memory_logs has dropped,  *)
(* after failed writes and restarts too.                                   *)
THEOREM ReadsFindTheLog ==
  ASSUME ~OORep, ~Conflicts
  PROVE  LogSpec => []ReadsAgree
<1>1. PrefixInv => ReadsAgree
  <2> SUFFICES ASSUME PrefixInv PROVE ReadsAgree
    BY Zenon
  <2>1. max = last
    BY Zenon, PrefixFacts
  <2> QED
    BY Zenon, <2>1, ReadsLog DEF ReadsAgree
<1>2. LogSpec => []PrefixInv
  BY Zenon, PrefixAlways
<1> QED
  BY <1>1, <1>2, PTL

(* THEOREM.  Then what get_entry finds in memory has the index asked for:  *)
(* counting back from the last entry in memory is right.                   *)
THEOREM MemoryIsIndexed ==
  ASSUME ~OORep, ~Conflicts
  PROVE  LogSpec => []MemoryIndexed
<1>1. PrefixInv => MemoryIndexed
  <2> SUFFICES ASSUME PrefixInv, NEW i \in 1 .. max
               PROVE  \/ EntryFromMemory(mem, i) = NoEntry
                      \/ EntryFromMemory(mem, i)[2] = i
    BY Zenon DEF MemoryIndexed
  <2>1. max = last
    BY Zenon, PrefixFacts
  <2>2. <<log[i], i>>[2] = i
    OBVIOUS
  <2> QED
    BY Zenon, <2>1, <2>2, MemoryReads
<1>2. LogSpec => []PrefixInv
  BY Zenon, PrefixAlways
<1> QED
  BY <1>1, <1>2, PTL

(* THEOREM.  Then _last_log_index is the largest index up to which nothing *)
(* is missing, after a restart too.                                        *)
THEOREM LastHasNoGap ==
  ASSUME ~OORep, ~Conflicts
  PROVE  LogSpec => []LastIsContiguous
<1>1. PrefixInv => LastIsContiguous
  BY Zenon DEF PrefixInv, LogIsPrefix
<1>2. LogSpec => []PrefixInv
  BY Zenon, PrefixAlways
<1> QED
  BY <1>1, <1>2, PTL

(* THEOREM.  Then last_log_id(true), by which votes are granted, answers   *)
(* the id that was last when it was called, unless writing failed.         *)
THEOREM LastIdIsRight ==
  ASSUME ~OORep, ~Conflicts
  PROVE  LogSpec => []LastIdAnswered
<1>1. PrefixInv => LastIdAnswered
  BY Zenon DEF PrefixInv, LastIdAnswered
<1>2. LogSpec => []PrefixInv
  BY Zenon, PrefixAlways
<1> QED
  BY <1>1, <1>2, PTL

(* THEOREM.  Then, while writing does not fail, a duplicated request is    *)
(* reported stable only when its entry is on disk.                         *)
THEOREM DuplicatesAreStored ==
  ASSUME ~OORep, ~Conflicts, ~CanFail
  PROVE  LogSpec => []DuplicateIsStored
<1>1. PrefixInv => DuplicateIsStored
  BY Zenon DEF PrefixInv
<1>2. LogSpec => []PrefixInv
  BY Zenon, PrefixAlways
<1> QED
  BY <1>1, <1>2, PTL

=============================================================================
