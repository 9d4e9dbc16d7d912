---------------------------- MODULE MCSegmentLog ----------------------------
(* Instances of SegmentLog for TLC.                                        *)
EXTENDS SegmentLog

(* Looks at files of a bounded number of records.                          *)
CONSTANT MaxRecords
RecordBound == \A n \in DOMAIN dir.files : Len(dir.files[n]) <= MaxRecords
=============================================================================
