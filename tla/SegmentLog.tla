----------------------------- MODULE SegmentLog -----------------------------
(***************************************************************************)
(* SegmentLogStorage and Segment of cpp/log.{h,cc}: the files behind the   *)
(* log manager.                                                            *)
(*                                                                         *)
(* A segment is a file of records.  It is named log_inprogress_<first>     *)
(* while it is open and log_<first>_<last> once it is closed; here <<f, 0>> *)
(* and <<f, l>>.  A record is <<term, index>>; truncating writes 0 over its *)
(* term.  A write that a crash cuts short leaves Torn.  Files named *.tmp  *)
(* are ignored by whoever reads the directory and are left out.            *)
(*                                                                         *)
(* One thread, the log manager's disk thread, calls the operations.  Each  *)
(* of them is a fold over the directory: the field seen of its result      *)
(* collects the directories after every system call, and the process may   *)
(* die at any of them.  System calls succeed, and the kernel keeps what    *)
(* was written.                                                            *)
(***************************************************************************)
EXTENDS SequencesExt, Integers

CONSTANTS
  MaxIndex,    \* bound on log indexes
  MaxTerm,     \* bound on terms
  MaxBatch,    \* bound on the entries of one append_entries
  MaxSegment,  \* flag raft_max_segment_index_size
  MaxBytes,    \* flag raft_max_segment_size, in records
  OO,          \* flag oo_enabled: entries may come out of order
  Truncates,   \* entries may be truncated
  MaxRestart   \* bound on restarts

ASSUME SegmentLogAssumption ==
  /\ MaxIndex \in Nat /\ MaxTerm \in Nat \ {0} /\ MaxBatch \in Nat \ {0}
  /\ MaxSegment \in Nat \ {0} /\ MaxBytes \in Nat /\ MaxRestart \in Nat
  /\ OO \in BOOLEAN /\ Truncates \in BOOLEAN

VARIABLES
  dir,       \* the directory: the files, and first_log_index in log_meta
  segs,      \* _segments and _open_segment, by first index
  open,      \* first index of _open_segment, 0 for NULL
  first,     \* _first_log_index
  last,      \* _last_log_index
  up,        \* "running", "down", or why init has not returned 0
  restarts,
  must,      \* history: the entries reported as appended and never truncated
  may        \* history: the entries that may be found

storeVars == <<dir, segs, open, first, last>>
segVars   == <<storeVars, up, restarts, must, may>>

Index == 1 .. MaxIndex
Torn  == <<-1, 0>>

-----------------------------------------------------------------------------
(* Segment.                                                                *)

NewSegment(f) ==
  [first |-> f, last |-> f - 1, valid |-> 0, isOpen |-> TRUE, pending |-> FALSE,
   at   |-> [i \in Index |-> 0],    \* offsets of _offset_and_term_array
   term |-> [i \in Index |-> 0]]    \* and its terms

Name(g) == <<g.first, IF g.isOpen THEN 0 ELSE g.last>>

(* A system call that changes the directory to d.                          *)
Called(t, d)  == [t EXCEPT !.dir = d, !.seen = @ \cup {d}]
Put(t, n, rs) == Called(t, [t.dir EXCEPT !.files = (n :> rs) @@ @])
Renamed(t, a, b) ==
  Called(t, [t.dir EXCEPT !.files = (b :> @[a]) @@ Restrict(@, DOMAIN @ \ {a})])

(* is_fullfilled.  Faulty variant: gaps are not looked for.                *)
IsFullfilledAlways(g) == TRUE
IsFullfilled(g) == g.last - g.first + 1 = g.valid

Close(t, f) ==
  LET g == t.segs[f]
      c == [g EXCEPT !.isOpen = FALSE, !.pending = FALSE]
  IN [Renamed(t, Name(g), Name(c)) EXCEPT !.segs[f] = c]

(* Segment::append to an open segment; a write may be torn.  Faulty        *)
(* variant: the offset is taken after _bytes has grown.                    *)
SegmentAppendAfter(t, f, e) ==
  LET g  == t.segs[f]
      rs == t.dir.files[Name(g)]
      a  == [g EXCEPT !.at[e[2]] = Len(rs) + 2, !.term[e[2]] = e[1],
                      !.last = Max({@, e[2]}), !.valid = @ + 1]
      w  == [Put(Put(t, Name(g), Append(rs, Torn)), Name(g), Append(rs, e))
               EXCEPT !.segs[f] = a]
  IN IF a.pending /\ IsFullfilled(a) THEN Close(w, f) ELSE w

SegmentAppend(t, f, e) ==
  LET g  == t.segs[f]
      rs == t.dir.files[Name(g)]
      a  == [g EXCEPT !.at[e[2]] = Len(rs) + 1, !.term[e[2]] = e[1],
                      !.last = Max({@, e[2]}), !.valid = @ + 1]
      w  == [Put(Put(t, Name(g), Append(rs, Torn)), Name(g), Append(rs, e))
               EXCEPT !.segs[f] = a]
  IN IF a.pending /\ IsFullfilled(a) THEN Close(w, f) ELSE w

(* Segment::truncate: only marks the records.                              *)
Invalidated(t, f, i) ==
  LET g == t.segs[f]
  IN IF g.term[i] = 0 THEN t
     ELSE [Put(t, Name(g), [t.dir.files[Name(g)] EXCEPT ![g.at[i]] = <<0, i>>])
             EXCEPT !.segs[f].valid = @ - 1, !.segs[f].term[i] = 0]

SegmentTruncate(t, f, kept) ==
  LET g  == t.segs[f]
      z  == FoldLeft(LAMBDA u, i : Invalidated(u, f, i), t,
                     [k \in 1 .. g.last - kept |-> kept + k])
      r  == IF g.isOpen THEN z ELSE Renamed(z, Name(g), <<f, 0>>)
  IN IF kept >= g.last THEN t
     ELSE [r EXCEPT !.segs[f].isOpen = TRUE, !.segs[f].last = kept]

-----------------------------------------------------------------------------
(* SegmentLogStorage, on a record of its members.                          *)

Now == [dir |-> dir, segs |-> segs, open |-> open, first |-> first,
        last |-> last, seen |-> {dir}]

ClosedOf(t) == DOMAIN t.segs \ {t.open}

(* get_segment, 0 when there is none.  Faulty variant: lower_bound.        *)
GetSegmentBelow(t, i) ==
  IF i \notin t.first .. t.last THEN 0
  ELSE IF t.open # 0 /\ i >= t.open THEN t.open
  ELSE Max({0} \cup {f \in ClosedOf(t) : f < i})
GetSegment(t, i) ==
  IF i \notin t.first .. t.last THEN 0
  ELSE IF t.open # 0 /\ i >= t.open THEN t.open
  ELSE Max({0} \cup {f \in ClosedOf(t) : f <= i})

GetTerm(t, i) ==
  LET f == GetSegment(t, i)
  IN IF f = 0 THEN 0
     ELSE IF i \in f .. t.segs[f].last THEN t.segs[f].term[i] ELSE 0

CreateSegment(t) ==
  LET f == t.last + 1
  IN [Put(t, <<f, 0>>, <<>>) EXCEPT !.open = f, !.segs = (f :> NewSegment(f)) @@ @]

(* open_segment: a segment at its limit is set aside, closed if nothing is *)
(* missing in it, and followed by a new one.                               *)
OpenSegment(t) ==
  LET a == IF t.open = 0 THEN CreateSegment(t) ELSE t
      g == a.segs[a.open]
      b == [a EXCEPT !.segs[a.open].pending = TRUE]
  IN IF \/ Len(a.dir.files[Name(g)]) > MaxBytes
        \/ g.last - g.first > MaxSegment
     THEN CreateSegment(IF IsFullfilled(g) THEN Close(b, a.open) ELSE b)
     ELSE a

(* One entry of append_entries.  A closed segment refuses it (EINVAL).     *)
AppendOne(t, e) ==
  LET o == OpenSegment(t)
      h == IF e[2] < o.open THEN GetSegment(o, e[2]) ELSE 0
      f == IF h = 0 THEN o.open ELSE h
  IN IF o.segs[f].isOpen THEN [SegmentAppend(o, f, e) EXCEPT !.last = Max({@, e[2]})]
     ELSE o

SaveMeta(t, k) == Called(t, [t.dir EXCEPT !.meta = k])

(* Segments fs are taken out of memory.  Faulty variant: _open_segment is  *)
(* not set to NULL.                                                        *)
PoppedKeepsOpen(t, fs) == [t EXCEPT !.segs = Restrict(@, DOMAIN @ \ ToSet(fs))]
Popped(t, fs) == [t EXCEPT !.segs = Restrict(@, DOMAIN @ \ ToSet(fs)),
                           !.open = IF Contains(fs, @) THEN 0 ELSE @]

UnlinkAll(t, names) ==
  FoldLeft(LAMBDA u, n : Called(u, [u.dir EXCEPT !.files = Restrict(@, DOMAIN @ \ {n})]),
           t, names)
NamesOf(t, fs) == [k \in DOMAIN fs |-> Name(t.segs[fs[k]])]

Ascending(S)  == SetToSortSeq(S, LAMBDA a, b : a < b)
Descending(S) == SetToSortSeq(S, LAMBDA a, b : a > b)

(* pop_segments: the segments that lie before k, the open one included     *)
(* when nothing else is left.                                              *)
PoppedFront(t, k) ==
  LET old == {f \in ClosedOf(t) : \A h \in ClosedOf(t) : h <= f => t.segs[h].last < k}
      all == old = ClosedOf(t)
  IN Ascending(old)
       \o (IF all /\ t.open # 0 /\ t.segs[t.open].last < k THEN <<t.open>> ELSE <<>>)

(* truncate_prefix saves log_meta before it unlinks anything.  Faulty      *)
(* variant: the files go first.                                            *)
TruncatePrefixUnlinkFirst(t, k) ==
  LET fs == PoppedFront(t, k)
      p  == SaveMeta(Popped(UnlinkAll(t, NamesOf(t, fs)), fs), k)
  IN [p EXCEPT !.first = k, !.last = IF DOMAIN p.segs = {} THEN k - 1 ELSE @]

TruncatePrefix(t, k) ==
  LET fs == PoppedFront(t, k)
      p  == Popped(SaveMeta(t, k), fs)
      q  == [p EXCEPT !.first = k, !.last = IF DOMAIN p.segs = {} THEN k - 1 ELSE @]
  IN UnlinkAll(q, NamesOf(t, fs))

(* truncate_suffix, with pop_segments_from_back.                           *)
TruncateSuffix(t, k) ==
  LET fs    == Descending({f \in DOMAIN t.segs : f > k})
      p     == [Popped(t, fs) EXCEPT !.last = k]
      keep  == IF p.open # 0 THEN p.open ELSE Max({0} \cup DOMAIN p.segs)
      gone  == NamesOf(t, fs)
  IN IF keep = 0 THEN UnlinkAll([p EXCEPT !.first = k + 1], gone)
     ELSE IF p.first <= k THEN UnlinkAll(SegmentTruncate(p, keep, k), gone)
     ELSE UnlinkAll(Popped(p, <<keep>>), gone \o NamesOf(t, <<keep>>))

Reset(t, n) ==
  LET fs == Ascending(ClosedOf(t)) \o (IF t.open # 0 THEN <<t.open>> ELSE <<>>)
      p  == [Popped(t, fs) EXCEPT !.first = n, !.last = n - 1]
  IN UnlinkAll(SaveMeta(p, n), NamesOf(t, fs))

-----------------------------------------------------------------------------
(* init: list_segments, then load_segments.                                *)

Whole(rs)  == SelectSeq(rs, LAMBDA r : r # Torn)
Dead(rs)   == \E k \in DOMAIN rs : rs[k][1] = 0
LastOf(f, rs) == Max({f - 1} \cup {rs[k][2] : k \in DOMAIN rs})

(* Segment::load; _vaild_entries_counter stays 0.                          *)
Loaded(n, rs) ==
  LET hits(i) == {k \in DOMAIN rs : rs[k][2] = i}
  IN [NewSegment(n[1]) EXCEPT
        !.isOpen = n[2] = 0,
        !.last = IF n[2] = 0 THEN LastOf(n[1], rs) ELSE n[2],
        !.at   = [i \in Index |-> Max({0} \cup hits(i))],
        !.term = [i \in Index |-> IF hits(i) = {} THEN 0 ELSE rs[Max(hits(i))][1]]]

OpenNames(d)   == {n \in DOMAIN d.files : n[2] = 0}
Discarded(d)   ==
  {n \in DOMAIN d.files : n[2] # 0 /\ \A m \in DOMAIN d.files :
                                        m[2] # 0 /\ m[1] <= n[1] => m[2] < d.meta}
ClosedNames(d) == SetToSortSeq((DOMAIN d.files \ OpenNames(d)) \ Discarded(d),
                               LAMBDA a, b : a[1] < b[1])

(* The first reason to give up that init meets, or "running".              *)
Verdict(d) ==
  LET cs == ClosedNames(d)
      os == OpenNames(d)
      rs(n) == d.files[n]
  IN IF Cardinality(os) > 1 THEN "two open segments"
     ELSE IF \E k \in DOMAIN cs : cs[k][1] > cs[k][2] THEN "bad segment"
     ELSE IF cs # <<>> /\ d.meta < cs[1][1] THEN "hole"
     ELSE IF \E k \in 2 .. Len(cs) : cs[k][1] # cs[k - 1][2] + 1 THEN "not in order"
     ELSE IF \E k \in DOMAIN cs : Dead(rs(cs[k])) THEN "looping"
     ELSE IF \E k \in DOMAIN cs : LastOf(cs[k][1], Whole(rs(cs[k]))) < cs[k][2]
          THEN "data lost"
     ELSE IF \E n \in os : Dead(rs(n)) THEN "looping"
     ELSE "running"

(* What init leaves behind when it succeeds: torn records are cut off and  *)
(* what lies before first_log_index is discarded.                          *)
Load(d) ==
  LET whole == [n \in DOMAIN d.files |-> Whole(d.files[n])]
      old   == {n \in OpenNames(d) : LastOf(n[1], whole[n]) < d.meta}
      kept  == (DOMAIN d.files \ Discarded(d)) \ old
      all   == {Loaded(n, whole[n]) : n \in kept}
      top   == {g.last : g \in {h \in all : h.isOpen \/ OpenNames(d) \subseteq old}}
  IN [dir   |-> [d EXCEPT !.files = Restrict(whole, kept)],
      segs  |-> [f \in {g.first : g \in all} |-> CHOOSE g \in all : g.first = f],
      open  |-> Max({0} \cup {n[1] : n \in OpenNames(d) \ old}),
      first |-> d.meta,
      last  |-> IF top = {} THEN d.meta - 1 ELSE Max(top)]

-----------------------------------------------------------------------------
SegInit ==
  /\ dir = [files |-> <<>>, meta |-> 1] /\ segs = <<>> /\ open = 0
  /\ first = 1 /\ last = 0 /\ up = "running" /\ restarts = 0
  /\ must = [i \in Index |-> 0] /\ may = {}

Members(t) ==
  /\ dir' = t.dir /\ segs' = t.segs /\ open' = t.open
  /\ first' = t.first /\ last' = t.last

(* The operation returns, or the process dies in it.                       *)
Returns(t) == up' = "running" /\ Members(t)
Dies(t)    == /\ up' = "down" /\ dir' \in t.seen
              /\ segs' = <<>> /\ open' = 0 /\ first' = 0 /\ last' = 0

Only(S) == [i \in Index |-> IF i \in S THEN must[i] ELSE 0]

(* In order, entries follow the last one; out of order, they may be any    *)
(* that are not stored.                                                    *)
Appendable(ids) ==
  /\ IsInjective([k \in DOMAIN ids |-> ids[k][2]])
  /\ \A k \in DOMAIN ids :
       IF OO THEN ids[k][2] >= first /\ GetTerm(Now, ids[k][2]) = 0
             ELSE ids[k][2] = last + k

AppendEntries(ids) ==
  LET added == ToSet(ids)
      is    == {e[2] : e \in added}
  IN /\ up = "running" /\ Appendable(ids)
     /\ \E t \in {FoldLeft(AppendOne, Now, ids)} :
          \/ /\ Returns(t)
             /\ must' = [i \in Index |-> IF i \in is
                                         THEN (CHOOSE e \in added : e[2] = i)[1]
                                         ELSE must[i]]
             /\ may' = {e \in may : e[2] \notin is} \cup added
          \/ Dies(t) /\ may' = may \cup added /\ UNCHANGED must
     /\ UNCHANGED restarts

TruncateSuffixTo(k) ==
  /\ up = "running" /\ Truncates /\ k \in first - 1 .. last - 1
  /\ must' = Only(1 .. k)
  /\ \E t \in {TruncateSuffix(Now, k)} :
       \/ Returns(t) /\ may' = {e \in may : e[2] <= k}
       \/ Dies(t) /\ UNCHANGED may
  /\ UNCHANGED restarts

TruncatePrefixTo(k) ==
  /\ up = "running" /\ k \in first + 1 .. last + 1
  /\ must' = Only(k .. MaxIndex)
  /\ \E t \in {TruncatePrefix(Now, k)} :
       \/ Returns(t) /\ may' = {e \in may : e[2] >= k}
       \/ Dies(t) /\ UNCHANGED may
  /\ UNCHANGED restarts

ResetTo(n) ==
  /\ up = "running" /\ n \in last + 1 .. MaxIndex
  /\ must' = Only({})
  /\ \E t \in {Reset(Now, n)} :
       \/ Returns(t) /\ may' = {}
       \/ Dies(t) /\ UNCHANGED may
  /\ UNCHANGED restarts

(* The process is started again.                                           *)
StorageInit ==
  /\ up = "down" /\ restarts < MaxRestart /\ restarts' = restarts + 1
  /\ up' = Verdict(dir)
  /\ IF up' = "running"
     THEN \E t \in {Load(dir)} :
            /\ Members(t)
            /\ may' = {<<GetTerm(t, i), i>> : i \in {j \in Index : GetTerm(t, j) # 0}}
     ELSE UNCHANGED <<storeVars, may>>
  /\ UNCHANGED must

Batches == {ids \in BoundedSeq((1 .. MaxTerm) \X Index, MaxBatch) : ids # <<>>}

SegNext ==
  \/ \E ids \in Batches : AppendEntries(ids)
  \/ \E k \in 0 .. MaxIndex : TruncateSuffixTo(k)
  \/ \E k \in Index : TruncatePrefixTo(k) \/ ResetTo(k)
  \/ StorageInit

SegSpec == SegInit /\ [][SegNext]_segVars

-----------------------------------------------------------------------------
(* The types of the members of SegmentLogStorage and its segments: in      *)
(* particular _open_segment is the last segment, it is open and not        *)
(* pending, and no segment reaches past _last_log_index.                   *)
SegTypeOK ==
  /\ up = "running" =>
       /\ first \in 1 .. MaxIndex + 1 /\ last \in first - 1 .. MaxIndex
       /\ open \in {0} \cup DOMAIN segs
       /\ open # 0 => /\ segs[open].isOpen /\ ~segs[open].pending
                      /\ \A f \in DOMAIN segs : f <= open
       /\ \A f \in DOMAIN segs : segs[f].first = f /\ segs[f].last <= last
  /\ must \in [Index -> 0 .. MaxTerm]

(* Whatever was appended, truncated and restarted in between, at whatever  *)
(* system call the process died: a storage whose init succeeds returns     *)
(* every entry that append_entries reported and that was not truncated,    *)
(* and no entry but those it was given.                                    *)
ReadsWhatWasWritten ==
  up = "running" =>
    \A i \in Index :
      /\ must[i] # 0 => GetTerm(Now, i) = must[i]
      /\ GetTerm(Now, i) # 0 => <<GetTerm(Now, i), i>> \in may

(* CHECK_EQ(meta.term, header.term) in Segment::get: where the arrays of a *)
(* segment say there is an entry, its file has that entry.                 *)
IndexMatchesFile ==
  up = "running" =>
    \A f \in DOMAIN segs :
      LET g == segs[f]
      IN /\ Name(g) \in DOMAIN dir.files
         /\ \A i \in f .. g.last :
              g.term[i] # 0 => /\ g.at[i] \in DOMAIN dir.files[Name(g)]
                               /\ dir.files[Name(g)][g.at[i]] = <<g.term[i], i>>

(* A file with a closed name has all the entries its name promises, so     *)
(* that no later entry is sent to a closed segment and refused.            *)
ClosedIsComplete ==
  up = "running" =>
    \A n \in DOMAIN dir.files : n[2] # 0 =>
      \A i \in n[1] .. n[2] : \E k \in DOMAIN dir.files[n] :
         dir.files[n][k][1] # 0 /\ dir.files[n][k][2] = i

(* A directory as the code that reads it expects it: at most one segment   *)
(* in progress, behind the closed ones, and no invalidated record.         *)
Orderly(d) ==
  /\ \A n \in OpenNames(d), m \in DOMAIN d.files : m[1] <= n[1]
  /\ \A n \in DOMAIN d.files : ~Dead(d.files[n])

(* At whatever system call the process dies, nothing else keeps init from  *)
(* succeeding: there is no hole between log_meta and the first segment,    *)
(* none between segments, and no closed segment lacks its last entry.      *)
OrderlyLoads == Orderly(dir) => Verdict(dir) = "running"

(* "ASSERT_EQ(0, storage->init(configuration_manager))" after "reinit"     *)
(* (test_log.cc, append_close_load_append): a storage can be initialised   *)
(* from the files it has left.                                             *)
InitSucceeds == up \in {"running", "down"}
=============================================================================
