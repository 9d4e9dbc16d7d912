------------------------------ MODULE LogManager ------------------------------
(***************************************************************************)
(* cpp/log_manager.{h,cc}: the log of one node, partly in memory and       *)
(* partly on disk.                                                         *)
(*                                                                         *)
(* append_entries puts entries into _logs_in_memory and queues a closure   *)
(* for the disk thread, both under the mutex.  The disk thread takes the   *)
(* closures in order, writes their entries in batches (AppendBatcher) and  *)
(* runs them; at the end of an iteration it publishes _disk_id.  What is   *)
(* both on disk and applied is dropped from memory by whoever moves        *)
(* _disk_id or _applied_id, in a second critical section.  Replicators     *)
(* wait in _wait_map for the log to grow.                                  *)
(*                                                                         *)
(* An entry is its id <<term, index>>; NULL is NoEntry.  The storage is a  *)
(* function from indexes to terms, 0 where there is no entry; its files    *)
(* are not modelled here.  _first_log_index is 1: truncate_prefix and      *)
(* reset have no caller.  A request carries one entry (max_entries_size).  *)
(*                                                                         *)
(* The cluster around the node is reduced to the logs of the leaders: a    *)
(* new leader has a prefix of an earlier leader's log, including whatever  *)
(* is applied here.                                                        *)
(***************************************************************************)
EXTENDS FiniteSetsExt, Sequences

CONSTANTS
  MaxIndex,     \* bound on log indexes
  MaxTerm,      \* bound on terms
  OORep,        \* flag oo_enabled: entries may arrive out of order
  Conflicts,    \* a new leader may lack entries that this node has
  CanFail,      \* the storage may fail to write
  MaxRestart,   \* bound on restarts
  Waiter        \* the replicators of this node

ASSUME LogManagerAssumption ==
  /\ MaxIndex \in Nat /\ MaxTerm \in Nat \ {0} /\ MaxRestart \in Nat
  /\ OORep \in BOOLEAN /\ Conflicts \in BOOLEAN /\ CanFail \in BOOLEAN

VARIABLES
  curTerm, leader,     \* the term, and who leads in it: "self", "other" or "none"
  leaderLog, elected,  \* the terms of the leader's entries; the earlier leaders' logs
  last, max,           \* _last_log_index, _max_log_index
  mem,                 \* _logs_in_memory
  bits,                \* _dependency_bitmap, as the indexes whose bit is set
  diskId, appliedId,   \* _disk_id, _applied_id
  clearing,            \* per thread: the argument of a clear_memory_logs to come
  queue,               \* _disk_queue
  batch, toAppend,     \* AppendBatcher: the closures not yet flushed, their entries
  lastId,              \* last_id of disk_thread, NoId between iterations
  store,               \* what LogStorage::get_term answers
  hasError, stopped,   \* _has_error, _stopped
  waiting,             \* _wait_map: the index a replicator waits behind, or -1
  restarts,
  log,                 \* history: the entries this node has accepted
  acked,               \* history: the entries reported stable
  answered             \* history: last_log_id(true) was right unless writing failed

envVars  == <<curTerm, leader, leaderLog, elected>>
memVars  == <<last, max, mem, bits>>
idVars   == <<diskId, appliedId, clearing>>
diskVars == <<queue, batch, toAppend, lastId, store>>
flagVars == <<hasError, stopped, waiting, restarts>>
histVars == <<log, acked, answered>>
logVars  == <<envVars, memVars, idVars, diskVars, flagVars, histVars>>

Index   == 1 .. MaxIndex
NoEntry == <<0, 0>>
NoId    == <<0, -1>>
Threads == {"disk", "fsm"}

(* operator< of LogId: by term, then by index.                             *)
Older(a, b) == a[1] < b[1] \/ (a[1] = b[1] /\ a[2] < b[2])
(* Faulty variant of MinId: the newer of the two.                          *)
MinIdNewer(a, b) == IF Older(b, a) THEN a ELSE b
MinId(a, b) == IF Older(b, a) THEN b ELSE a

LogInit ==
  /\ curTerm = 1 /\ leader = "other" /\ leaderLog = <<>> /\ elected = {}
  /\ last = 0 /\ max = 0 /\ mem = <<>> /\ bits = {}
  /\ diskId = NoEntry /\ appliedId = NoEntry
  /\ clearing = [t \in Threads |-> NoId]
  /\ queue = <<>> /\ batch = <<>> /\ toAppend = <<>> /\ lastId = NoId
  /\ store = [i \in Index |-> 0]
  /\ hasError = FALSE /\ stopped = FALSE
  /\ waiting = [w \in Waiter |-> -1] /\ restarts = 0
  /\ log = [i \in Index |-> 0] /\ acked = {} /\ answered = TRUE

-----------------------------------------------------------------------------
(* Reading.  get_entry_from_memory counts back from the last entry in      *)
(* memory; append_entries counts back from _max_log_index.                 *)

EntryFromMemory(q, i) ==
  LET k == i - q[Len(q)][2] + Len(q)
  IN IF q # <<>> /\ k \in DOMAIN q THEN q[k] ELSE NoEntry

(* unsafe_get_term and get_term, for memory q.                             *)
TermIn(q, i) ==
  IF i \notin 1 .. max THEN 0
  ELSE IF EntryFromMemory(q, i) # NoEntry THEN EntryFromMemory(q, i)[1]
  ELSE store[i]

GetTerm(i) == TermIn(mem, i)

(* Position of index i in memory q that ends at index m.                   *)
Slot(q, m, i) == i - m + Len(q)

(* _logs_in_memory[...] = entry; outside the deque the write is lost.      *)
Written(q, m, ids) ==
  [k \in DOMAIN q |->
     IF \E j \in DOMAIN ids : Slot(q, m, ids[j][2]) = k
     THEN CHOOSE e \in Range(ids) : Slot(q, m, e[2]) = k
     ELSE q[k]]

(* The loop that moves _last_log_index to n.  A slot outside the deque may *)
(* read as anything, unless one of ids was written there just before.      *)
MayHold(q, m, i)  == Slot(q, m, i) \in DOMAIN q => q[Slot(q, m, i)] # NoEntry
MayBeNull(q, m, ids, i) ==
  /\ \A k \in DOMAIN ids : ids[k][2] # i
  /\ Slot(q, m, i) \in DOMAIN q => q[Slot(q, m, i)] = NoEntry

(* Faulty variant of Advances: no loop.                                    *)
AdvancesNot(q, m, ids, from, n) == n = from

Advances(q, m, ids, from, n) ==
  /\ n \in from .. m
  /\ \A i \in from + 1 .. n : MayHold(q, m, i)
  /\ n < m => MayBeNull(q, m, ids, n + 1)

(* Faulty variant of Nulls: one slot, however wide the gap.                *)
NullsOne(n) == IF n = 0 THEN <<>> ELSE <<NoEntry>>
Nulls(n) == [k \in 1 .. n |-> NoEntry]

-----------------------------------------------------------------------------
(* append_entries.                                                         *)

AppendClosure(ids, acks) == [kind |-> "append", ids |-> ids, acks |-> acks]
Ack(id, dup)             == [id |-> id, dup |-> dup]
EntriesClosure(ids)      == AppendClosure(ids, {Ack(id, FALSE) : id \in Range(ids)})

(* The common end: the missing slots are filled, the entries are put into  *)
(* memory and queued, and everyone who waits is woken.                     *)
Store(q, m, from, ids, before) ==
  LET top    == Max({m, ids[Len(ids)][2]})
      padded == q \o Nulls(top - m)
      filled == Written(padded, top, ids)
  IN /\ max' = top
     /\ mem' = filled
     /\ bits' = bits \cup {ids[k][2] : k \in DOMAIN ids}
     /\ \E n \in 0 .. MaxIndex : Advances(filled, top, ids, from, n) /\ last' = n
     /\ queue' = Append(before, EntriesClosure(ids))
     /\ waiting' = [w \in Waiter |-> -1]

(* Entries of the user: check_and_resolve_conflict numbers them.           *)
LeaderAppend(n) ==
  LET ids == [k \in 1 .. n |-> <<curTerm, last + k>>]
  IN /\ leader = "self" /\ ~hasError /\ last + n <= MaxIndex
     /\ Store(mem, max, last + n, ids, queue)
     /\ log' = [i \in Index |-> IF i \in last + 1 .. last + n THEN curTerm ELSE log[i]]
     /\ UNCHANGED <<envVars, idVars, batch, toAppend, lastId, store, hasError,
                    stopped, restarts, acked, answered>>

(* unsafe_truncate_suffix: memory is cut from the back, _max_log_index and *)
(* the bitmap are not.                                                     *)
CutMemory(q, kept) ==
  SubSeq(q, 1, Max({0} \cup {k \in DOMAIN q : q[k][2] <= kept}))

(* Faulty variant of TruncateClosure: one entry too many is cut.           *)
TruncateClosureMore(q, kept) ==
  [kind |-> "truncate", id |-> <<TermIn(q, kept), kept - 1>>]

TruncateClosure(q, kept) == [kind |-> "truncate", id |-> <<TermIn(q, kept), kept>>]

(* One entry of the leader, beyond what is applied.  In order, the node    *)
(* has compared the preceding entry with the leader's.                     *)
Conflicting(id) ==
  LET t == GetTerm(id[2]) IN t # id[1] /\ (OORep => t # 0)

PrevMatches(i) == i > 1 => GetTerm(i - 1) = leaderLog[i - 1]

FollowerAppend(i) ==
  LET id   == <<leaderLog[i], i>>
      cut  == Conflicting(id) /\ i <= last
      kept == IF cut THEN CutMemory(mem, i - 1) ELSE mem
  IN /\ leader = "other" /\ ~hasError /\ i \in DOMAIN leaderLog
     /\ i > appliedId[2]
     /\ ~OORep => i <= last + 1 /\ PrevMatches(i)
     /\ IF i <= max /\ ~Conflicting(id) /\ ~OORep
        THEN /\ queue' = Append(queue, AppendClosure(<<>>, {Ack(id, TRUE)}))
             /\ waiting' = [w \in Waiter |-> -1]
             /\ UNCHANGED <<memVars, log>>
        ELSE /\ Store(kept, max, IF cut THEN i - 1 ELSE last, <<id>>,
                      IF cut THEN Append(queue, TruncateClosure(kept, i - 1))
                             ELSE queue)
             /\ log' = [j \in Index |-> IF j = i THEN id[1]
                                        ELSE IF cut /\ j > i THEN 0 ELSE log[j]]
     /\ UNCHANGED <<envVars, idVars, batch, toAppend, lastId, store, hasError,
                    stopped, restarts, acked, answered>>

-----------------------------------------------------------------------------
(* The disk thread.  An iteration starts with last_id = _disk_id.          *)

CurrentId == IF lastId = NoId THEN diskId ELSE lastId

DiskTake ==
  /\ queue # <<>> /\ Head(queue).kind = "append" /\ Head(queue).ids # <<>>
  /\ batch' = Append(batch, Head(queue))
  /\ toAppend' = toAppend \o Head(queue).ids
  /\ queue' = Tail(queue)
  /\ lastId' = CurrentId
  /\ UNCHANGED <<envVars, memVars, idVars, store, flagVars, histVars>>

(* The term of index i when the entries ids are written over term t.       *)
FlushedTerm(ids, i, t) ==
  LET hits == {k \in DOMAIN ids : ids[k][2] = i}
  IN IF hits = {} THEN t ELSE ids[Max(hits)][1]

(* flush: the first n entries are written, and unless that is all of them  *)
(* every closure of the batch fails.  With _has_error nothing is written.  *)
(* Faulty variant of FlushOk: an incomplete write goes unnoticed.          *)
FlushOkAlways(n) == ~hasError
FlushOk(n) == ~hasError /\ n = Len(toAppend)

DiskFlush(n) ==
  LET ids == SubSeq(toAppend, 1, n)
      ok  == FlushOk(n)
  IN /\ batch # <<>>
     /\ IF hasError THEN n = 0 ELSE n = Len(toAppend) \/ CanFail
     /\ store' = [i \in Index |-> FlushedTerm(ids, i, store[i])]
     /\ lastId' = IF n > 0 THEN ids[n] ELSE lastId
     /\ hasError' = ~ok
     /\ acked' = IF ok THEN acked \cup UNION {batch[k].acks : k \in DOMAIN batch}
                       ELSE acked
     /\ batch' = <<>> /\ toAppend' = <<>>
     /\ UNCHANGED <<envVars, memVars, idVars, queue, stopped, waiting, restarts,
                    log, answered>>

(* A closure without entries, after a flush: a duplicated request, a       *)
(* truncation, or last_log_id(true).                                       *)
(* Faulty variant of Flushed: no flush before the closure.                 *)
FlushedNot == TRUE
Flushed == batch = <<>>

DiskOther ==
  LET c == Head(queue)
  IN /\ queue # <<>> /\ Flushed
     /\ c.kind = "append" => c.ids = <<>>
     /\ queue' = Tail(queue)
     /\ CASE c.kind = "append" ->
               /\ acked' = acked \cup c.acks
               /\ lastId' = CurrentId
               /\ UNCHANGED <<store, answered>>
          [] c.kind = "truncate" ->
               /\ store' = [i \in Index |-> IF i > c.id[2] THEN 0 ELSE store[i]]
               /\ acked' = {a \in acked : a.id[2] <= c.id[2]}
               /\ lastId' = c.id
               /\ UNCHANGED answered
          [] c.kind = "last" ->
               /\ lastId' = CurrentId
               /\ answered' = (answered /\ (hasError \/ CurrentId = c.id))
               /\ UNCHANGED <<store, acked>>
     /\ UNCHANGED <<envVars, memVars, idVars, batch, toAppend, flagVars, log>>

(* set_disk_id, at the end of an iteration.                                *)
DiskEnd ==
  /\ lastId # NoId /\ batch = <<>> /\ clearing["disk"] = NoId
  /\ lastId' = NoId
  /\ IF Older(lastId, diskId)
     THEN UNCHANGED <<diskId, clearing>>
     ELSE /\ diskId' = lastId
          /\ clearing' = [clearing EXCEPT !["disk"] = MinId(lastId, appliedId)]
  /\ UNCHANGED <<envVars, memVars, appliedId, queue, batch, toAppend, store,
                 flagVars, histVars>>

(* last_log_id(true) and last_log_index(true), queued under the mutex; the *)
(* id of the last entry at that time is remembered.                        *)
AskLastLogId ==
  /\ \A k \in DOMAIN queue : queue[k].kind # "last"
  /\ queue' = Append(queue, [kind |-> "last",
                             id |-> IF last = 0 THEN NoEntry ELSE <<log[last], last>>])
  /\ UNCHANGED <<envVars, memVars, idVars, batch, toAppend, lastId, store,
                 flagVars, histVars>>

-----------------------------------------------------------------------------
(* The FSMCaller has applied the entries up to i.                          *)
SetAppliedId(i) ==
  LET id == <<GetTerm(i), i>>
  IN /\ i \in appliedId[2] + 1 .. last /\ clearing["fsm"] = NoId
     /\ leader # "self" => i \in DOMAIN leaderLog /\ log[i] = leaderLog[i]
     /\ ~Older(id, appliedId)
     /\ appliedId' = id
     /\ clearing' = [clearing EXCEPT !["fsm"] = MinId(diskId, id)]
     /\ UNCHANGED <<envVars, memVars, diskId, diskVars, flagVars, histVars>>

(* The number of entries at the front of memory that clear_memory_logs     *)
(* may drop.                                                               *)
Droppable(id, n) ==
  /\ n \in 0 .. Len(mem)
  /\ \A k \in 1 .. n : mem[k] # NoEntry /\ ~Older(id, mem[k])
  /\ n < Len(mem) => mem[n + 1] = NoEntry \/ Older(id, mem[n + 1])

ClearMemoryLogs(t) ==
  /\ clearing[t] # NoId
  /\ clearing' = [clearing EXCEPT ![t] = NoId]
  /\ \E n \in 0 .. Len(mem) :
       Droppable(clearing[t], n) /\ mem' = SubSeq(mem, n + 1, Len(mem))
  /\ UNCHANGED <<envVars, last, max, bits, diskId, appliedId, diskVars,
                 flagVars, histVars>>

(* wait: it returns at once when the log has grown or is stopped.          *)
(* Faulty variant of CanWait: the index may have been passed.              *)
CanWaitBehind(i) == i <= last /\ ~stopped
CanWait(i) == i = last /\ ~stopped

Wait(w, i) ==
  /\ waiting[w] = -1 /\ CanWait(i)
  /\ waiting' = [waiting EXCEPT ![w] = i]
  /\ UNCHANGED <<envVars, memVars, idVars, diskVars, hasError, stopped,
                 restarts, histVars>>

RemoveWaiter(w) ==
  /\ waiting[w] # -1
  /\ waiting' = [waiting EXCEPT ![w] = -1]
  /\ UNCHANGED <<envVars, memVars, idVars, diskVars, hasError, stopped,
                 restarts, histVars>>

Shutdown ==
  /\ ~stopped
  /\ stopped' = TRUE
  /\ waiting' = [w \in Waiter |-> -1]
  /\ UNCHANGED <<envVars, memVars, idVars, diskVars, hasError, restarts, histVars>>

(* The logs that later leaders may start from, beside the current one.     *)
Remembered(l) == IF Conflicts THEN elected \cup {l} ELSE {}

(* The entries of this node up to _last_log_index.                         *)
OwnLog == SubSeq(log, 1, last)

(* The process dies; init takes both indexes from the storage.             *)
Restart ==
  LET top == Max({0} \cup {i \in Index : store[i] # 0})
  IN /\ restarts < MaxRestart /\ restarts' = restarts + 1
     /\ leader' = (IF leader = "self" THEN "none" ELSE leader)
     /\ elected' = IF leader = "self" THEN Remembered(OwnLog) ELSE elected
     /\ last' = top /\ max' = top /\ mem' = <<>> /\ bits' = {}
     /\ diskId' = IF top = 0 THEN NoEntry ELSE <<store[top], top>>
     /\ appliedId' = NoEntry /\ clearing' = [t \in Threads |-> NoId]
     /\ queue' = <<>> /\ batch' = <<>> /\ toAppend' = <<>> /\ lastId' = NoId
     /\ hasError' = FALSE /\ stopped' = FALSE
     /\ waiting' = [w \in Waiter |-> -1]
     /\ log' = store
     /\ UNCHANGED <<curTerm, leaderLog, store, acked, answered>>

-----------------------------------------------------------------------------
(* The cluster.                                                            *)

(* This node is elected.                                                   *)
Lead ==
  /\ leader # "self" /\ curTerm < MaxTerm
  /\ leader' = "self" /\ curTerm' = curTerm + 1
  /\ elected' = Remembered(leaderLog)
  /\ UNCHANGED <<leaderLog, memVars, idVars, diskVars, flagVars, histVars>>

(* Another node is elected, whose log is the prefix of length k of base;   *)
(* it has an entry at every index.                                         *)
Follow(base, k) ==
  /\ curTerm < MaxTerm /\ k \in 0 .. Len(base) /\ \A i \in 1 .. k : base[i] # 0
  /\ base \in elected \cup {IF leader = "self" THEN OwnLog ELSE leaderLog}
  /\ k >= appliedId[2] /\ \A i \in 1 .. appliedId[2] : base[i] = log[i]
  /\ ~Conflicts => \A i \in Index : log[i] # 0 => i <= k /\ base[i] = log[i]
  /\ leader' = "other" /\ curTerm' = curTerm + 1
  /\ leaderLog' = SubSeq(base, 1, k)
  /\ elected' = Remembered(IF leader = "self" THEN OwnLog ELSE leaderLog)
  /\ UNCHANGED <<memVars, idVars, diskVars, flagVars, histVars>>

LeaderExtends ==
  /\ leader = "other" /\ Len(leaderLog) < MaxIndex
  /\ leaderLog' = Append(leaderLog, curTerm)
  /\ UNCHANGED <<curTerm, leader, elected, memVars, idVars, diskVars, flagVars,
                 histVars>>

LogNext ==
  \/ \E n \in 1 .. MaxIndex : LeaderAppend(n)
  \/ \E i \in Index : FollowerAppend(i)
  \/ DiskTake \/ DiskOther \/ DiskEnd
  \/ \E n \in 0 .. Len(toAppend) : DiskFlush(n)
  \/ AskLastLogId
  \/ \E i \in Index : SetAppliedId(i)
  \/ \E t \in Threads : ClearMemoryLogs(t)
  \/ \E w \in Waiter, i \in 0 .. MaxIndex : Wait(w, i)
  \/ \E w \in Waiter : RemoveWaiter(w)
  \/ Shutdown \/ Restart \/ Lead \/ LeaderExtends
  \/ \E base \in elected \cup {OwnLog, leaderLog}, k \in 0 .. MaxIndex : Follow(base, k)

LogSpec == LogInit /\ [][LogNext]_logVars

-----------------------------------------------------------------------------
(* Whatever the disk thread has written and clear_memory_logs has dropped, *)
(* get_term and get_entry find every entry the node has accepted.          *)
ReadsAgree == \A i \in 1 .. max : GetTerm(i) = log[i]

(* What get_entry finds in memory is the entry of the index asked for.     *)
MemoryIndexed ==
  \A i \in 1 .. max : LET e == EntryFromMemory(mem, i) IN e = NoEntry \/ e[2] = i

(* _last_log_index is the largest index up to which nothing is missing,    *)
(* as its comment in log_manager.h says.                                   *)
LastIsContiguous ==
  /\ \A i \in 1 .. last : log[i] # 0
  /\ last < MaxIndex => log[last + 1] = 0

(* A closure that append_entries queued with entries reports success only  *)
(* when they are on disk, and they stay there, over a restart too, unless  *)
(* a truncation takes them away.                                           *)
AckedIsStored == \A a \in acked : ~a.dup => store[a.id[2]] = a.id[1]

(* The same for a request whose entry append_entries found to be present   *)
(* already: when it is reported stable, the entry is on disk.              *)
DuplicateIsStored == \A a \in acked : a.dup => store[a.id[2]] = a.id[1]

(* The closures that the disk thread has not carried out yet, in order.    *)
Pending == batch \o queue

(* Closure c writes index i, or cuts it off.                               *)
Writes(c, i) == c.kind = "append" /\ \E j \in DOMAIN c.ids : c.ids[j][2] = i
Cuts(c, i)   == c.kind = "truncate" /\ c.id[2] < i
Touches(c, i) == Writes(c, i) \/ Cuts(c, i)

(* It leaves term t there.                                                 *)
Leaves(c, i, t) ==
  IF c.kind = "append" THEN \E j \in DOMAIN c.ids : c.ids[j] = <<t, i>> ELSE t = 0

(* Once the closures p have been carried out, index i holds term t, if it  *)
(* holds term s now: the last closure that touches it leaves t there.      *)
Yields(p, i, s, t) ==
  \/ s = t /\ \A k \in DOMAIN p : ~Touches(p[k], i)
  \/ \E k \in DOMAIN p :
       /\ Touches(p[k], i) /\ Leaves(p[k], i, t)
       /\ \A m \in DOMAIN p : m > k => ~Touches(p[m], i)

(* The closures of the disk queue carry exactly what is missing on disk:   *)
(* when all of them have run, the storage is the log the node accepted.    *)
DiskReachesLog == hasError \/ \A i \in Index : Yields(Pending, i, store[i], log[i])

(* A replicator waits only while the log has not grown past the index it   *)
(* gave to wait, and never after shutdown: no wakeup is lost.              *)
WaitersAreCurrent == \A w \in Waiter : waiting[w] \in {-1, last} /\ (stopped => waiting[w] = -1)

(* last_log_id(true), which votes are granted by, answers the id of the     *)
(* entry that was last when it was called, unless writing failed.          *)
LastIdAnswered == answered

-----------------------------------------------------------------------------
(* The invariants that LogManagerProofs and LogPrefixProofs rest on.       *)

EntryId  == (Nat \ {0}) \X Index
AckOf    == [id : EntryId, dup : BOOLEAN]
Appends  == [kind : {"append"}, ids : Seq(EntryId), acks : SUBSET AckOf]
Closures == Appends \cup [kind : {"truncate", "last"}, id : Nat \X Nat]

(* The type invariant.  _last_log_index is never beyond _max_log_index.    *)
LogTypeOK ==
  /\ curTerm \in Nat \ {0} /\ leader \in {"self", "other", "none"}
  /\ leaderLog \in Seq(Nat \ {0}) /\ elected \in SUBSET Seq(Nat)
  /\ max \in 0 .. MaxIndex /\ last \in 0 .. max
  /\ mem \in Seq(Nat \X Nat) /\ bits \in SUBSET Index
  /\ diskId \in Nat \X Nat /\ appliedId \in Nat \X Nat
  /\ clearing \in [Threads -> (Nat \X Nat) \cup {NoId}]
  /\ queue \in Seq(Closures) /\ batch \in Seq(Appends) /\ toAppend \in Seq(EntryId)
  /\ lastId \in (Nat \X Nat) \cup {NoId} /\ store \in [Index -> Nat] /\ log \in [Index -> Nat]
  /\ hasError \in BOOLEAN /\ stopped \in BOOLEAN
  /\ waiting \in [Waiter -> -1 .. MaxIndex] /\ restarts \in Nat
  /\ acked \in SUBSET AckOf /\ answered \in BOOLEAN

(* No closure has two entries of one index, and it reports its own entries *)
(* or a duplicate.                                                         *)
WellFormed(c) ==
  c.kind = "append" =>
    /\ \A j, k \in DOMAIN c.ids : c.ids[j][2] = c.ids[k][2] => j = k
    /\ \A a \in c.acks : a.dup \/ \E j \in DOMAIN c.ids : c.ids[j] = a.id

PendingWellFormed == \A k \in DOMAIN Pending : WellFormed(Pending[k])

(* AppendBatcher: the last entry of index i among the entries ta of the    *)
(* batch b belongs to the last closure that writes i.                      *)
LastWrites(b, ta, i) ==
  \/ /\ \A k \in DOMAIN b : ~Writes(b[k], i)
     /\ \A k \in DOMAIN ta : ta[k][2] # i
  \/ \E k \in DOMAIN b, n \in DOMAIN ta :
       /\ ta[n][2] = i /\ \E j \in DOMAIN b[k].ids : b[k].ids[j] = ta[n]
       /\ \A m \in DOMAIN b : m > k => ~Writes(b[m], i)
       /\ \A m \in DOMAIN ta : m > n => ta[m][2] # i

BatchComplete == \A i \in Index : LastWrites(batch, toAppend, i)

(* In order: what lies beyond index l, and what is written again, is cut   *)
(* off in between.  The entries reported stable count as written first.    *)
WrittenAt(p, ak, k, i) ==
  IF k = 0 THEN \E a \in ak : ~a.dup /\ a.id[2] = i ELSE Writes(p[k], i)

CutBetween(p, k, m, i) == \E n \in k + 1 .. m - 1 : Cuts(p[n], i)

InOrder(p, ak, l) ==
  \A k \in 0 .. Len(p), i \in Index :
    WrittenAt(p, ak, k, i) =>
      /\ i > l => CutBetween(p, k, Len(p) + 1, i)
      /\ \A m \in k + 1 .. Len(p) : Writes(p[m], i) => CutBetween(p, k, m, i)

AckInv ==
  /\ LogTypeOK /\ PendingWellFormed /\ BatchComplete
  /\ InOrder(Pending, acked, last) /\ AckedIsStored

(* In order and without competing leaders: the indexes up to last have     *)
(* entries, of ascending terms, and a leader elsewhere has them too.       *)
IdAt(l, i) == IF i = 0 THEN NoEntry ELSE <<l[i], i>>

Ascending(s, n, top) ==
  /\ \A i, j \in 1 .. n : i <= j => s[i] <= s[j]
  /\ \A i \in 1 .. n : s[i] <= top

LogIsPrefix ==
  /\ max = last /\ LastIsContiguous /\ elected = {}
  /\ \A i \in Index : i > last => log[i] = 0
  /\ Ascending(log, last, curTerm) /\ Ascending(leaderLog, Len(leaderLog), curTerm)
  /\ leader = "other" =>
       last <= Len(leaderLog) /\ \A i \in 1 .. last : leaderLog[i] = log[i]

(* The first d entries are on disk, those from d or earlier on in memory,  *)
(* and no id that memory may be cleared up to lies beyond d.               *)
OnDisk(d) ==
  /\ \A i \in Index : store[i] = IF i <= d THEN log[i] ELSE 0
  /\ Len(mem) <= last /\ last - Len(mem) <= d
  /\ \A k \in DOMAIN mem : mem[k] = IdAt(log, last - Len(mem) + k)
  /\ \E i \in 0 .. last : appliedId = IdAt(log, i)
  /\ \E i \in 0 .. d : diskId = IdAt(log, i)
  /\ \A id \in {lastId, clearing["disk"], clearing["fsm"]} :
       id = NoId \/ \E i \in 0 .. d : id = IdAt(log, i)

(* Closure c brings the entries of log l behind a and up to b, reports     *)
(* duplicates of earlier ones, or asks for the last id.                    *)
Brings(l, c, a, b) ==
  /\ c.kind = "append" =>
       /\ b = a + Len(c.ids) /\ \A j \in DOMAIN c.ids : c.ids[j] = IdAt(l, a + j)
       /\ \A k \in c.acks : k.dup => c.ids = <<>> /\ \E i \in 1 .. a : k.id = IdAt(l, i)
  /\ c.kind = "last" => b = a /\ c.id = IdAt(l, a)

(* The closures of q continue each other, from a to b.                     *)
Chain(l, q, a, b) ==
  \E e \in [0 .. Len(q) -> 0 .. b] :
    /\ e[0] = a /\ e[Len(q)] = b
    /\ \A k \in DOMAIN q : Brings(l, q[k], e[k - 1], e[k])

(* Unless writing failed, what is pending leads from d to last.            *)
ComesNext(d) ==
  /\ CurrentId = IdAt(log, d)
  /\ batch = <<>> => toAppend = <<>>
  /\ \A n \in DOMAIN toAppend : toAppend[n] = IdAt(log, d + n)
  /\ \A k \in DOMAIN batch : \A a \in batch[k].acks : ~a.dup
  /\ Chain(log, queue, d + Len(toAppend), last)

PrefixInv ==
  /\ LogTypeOK /\ LogIsPrefix /\ answered
  /\ \A k \in DOMAIN queue : queue[k].kind # "truncate"
  /\ \E d \in 0 .. last : OnDisk(d) /\ (~hasError => ComesNext(d))
  /\ ~CanFail => ~hasError /\ DuplicateIsStored
===============================================================================
