------------------------------- MODULE LogFile -------------------------------
(***************************************************************************)
(* One log file: the framing of records (nobroker/codec.py) and what       *)
(* LogFile (nobroker/logfile.py) does to the bytes.                        *)
(*                                                                         *)
(* A cell is a stretch of bytes that reaches the disk whole or not at all. *)
(* The file header is one cell, a record's header two (its length; its     *)
(* type and checksum), its payload as many as Body gives its type.  Every  *)
(* cell says what it is a part of, which is what a checksum tells: a       *)
(* record is intact when all its cells are its own.                        *)
(***************************************************************************)
EXTENDS Naturals, Sequences, FiniteSetsExt

CONSTANTS
  None,
  Body       \* the cells of a payload, by the record's type

Type == DOMAIN Body

ASSUME BodyAssumption == \A type \in Type : Body[type] \in Nat

HeaderSize == 1
RecordHeaderSize == 2

FileHeader(generation) == [of |-> [generation |-> generation], at |-> 0]

\* What was allocated and never written reads as zeros.
Hole == [of |-> None, at |-> 0]

Encoded(record) ==
  [i \in 1..RecordHeaderSize + Body[record.type] |-> [of |-> record, at |-> i]]

\* op(v), with v evaluated once (also under a prime).
Once(v, op(_)) == CHOOSE r \in {op(x) : x \in {v}} : TRUE

-----------------------------------------------------------------------------
(***************************************************************************)
(* decode_record: what starts at an offset of a buffer.  The zeros of a    *)
(* hole are a length; any other bytes are, read as a length, too large (a  *)
(* payload is JSON text).                                                  *)
(***************************************************************************)
Damaged(why) == [record |-> None, size |-> 0, why |-> why]

SizeAt(cell) == RecordHeaderSize + IF cell = Hole THEN 0 ELSE Body[cell.of.type]

\* Slip: a full-length record is taken for a record.
DecodeUnchecked(buf, offset) ==
  LET left == Len(buf) - offset  first == buf[offset + 1] IN
  IF left < RecordHeaderSize THEN Damaged("TRUNCATED_HEADER")
  ELSE IF first.at > 1 THEN Damaged("OVERSIZE")
  ELSE IF left < SizeAt(first) THEN Damaged("TRUNCATED_BODY")
  ELSE IF first # Hole THEN [record |-> first.of, size |-> SizeAt(first), why |-> "NONE"]
  ELSE Damaged("BAD_CHECKSUM")

Decode(buf, offset) ==
  LET left == Len(buf) - offset  first == buf[offset + 1] IN
  IF left < RecordHeaderSize THEN Damaged("TRUNCATED_HEADER")
  ELSE IF first.at > 1 THEN Damaged("OVERSIZE")
  ELSE IF left < SizeAt(first) THEN Damaged("TRUNCATED_BODY")
  ELSE IF first # Hole /\ SubSeq(buf, offset + 1, offset + SizeAt(first)) = Encoded(first.of)
       THEN [record |-> first.of, size |-> SizeAt(first), why |-> "NONE"]
  ELSE Damaged("BAD_CHECKSUM")

\* The records that can be decoded one after the other from a buffer's start, where
\* they end, and why no other follows (the inner loop of scan).
Decodable(buf) ==
  LET from[offset \in 0..Len(buf)] ==
        Once(Decode(buf, offset), LAMBDA next :
          IF next.why # "NONE" THEN [records |-> <<>>, end |-> offset, why |-> next.why]
          ELSE Once(from[offset + next.size], LAMBDA rest :
                 [rest EXCEPT !.records = <<next.record>> \o @]))
  IN from[0]

Cut == {"TRUNCATED_HEADER", "TRUNCATED_BODY"}

\* Slip: a record cut by the end of a chunk is taken for a torn tail.
ScanNoRefill(cells, start, chunk) ==
  Once(Decodable(SubSeq(cells, start + 1, Min({start + chunk, Len(cells)}))), LAMBDA run :
    [records |-> run.records, end |-> start + run.end,
     why |-> IF run.why \in Cut /\ start + run.end = Len(cells) THEN "NONE" ELSE run.why])

\* scan: the file is read a chunk at a time; a record that the buffer cuts is kept for
\* the next chunk, unless there is none.  A start beyond the end finds nothing there.
Scan(cells, start, chunk) ==
  LET from[at \in (start..Len(cells)) \X (start..Len(cells))] ==
        LET base == at[1]  upto == Min({at[2] + chunk, Len(cells)}) IN
        Once(Decodable(SubSeq(cells, base + 1, upto)), LAMBDA run :
          LET end == base + run.end IN
          IF run.why \in Cut /\ upto < Len(cells)
          THEN Once(from[<<end, upto>>], LAMBDA rest : [rest EXCEPT !.records = run.records \o @])
          ELSE [records |-> run.records, end |-> end,
                why |-> IF run.why \in Cut /\ end = Len(cells) THEN "NONE" ELSE run.why])
  IN IF start > Len(cells) THEN [records |-> <<>>, end |-> start, why |-> "TRUNCATED_HEADER"]
     ELSE from[<<start, start>>]

-----------------------------------------------------------------------------
(***************************************************************************)
(* Writing.  A file is [cells, synced]: of its cells, the first synced are *)
(* on the disk.                                                            *)
(***************************************************************************)
Synced(cells) == [cells |-> cells, synced |-> Len(cells)]

\* A write at an offset, the first n cells of it; without an fsync.
Written(file, offset, blob, n) ==
  [cells |-> [i \in 1..Max({Len(file.cells), offset + n}) |->
                IF i \in offset + 1..offset + n THEN blob[i - offset] ELSE file.cells[i]],
   synced |-> Min({file.synced, offset})]

\* Slip: the cut is not synced, what was cut off counts as on the disk.
TruncatedUnsynced(file, offset) ==
  IF offset >= Len(file.cells) THEN file ELSE [file EXCEPT !.cells = SubSeq(@, 1, offset)]

\* truncate, with its fsync; a cut at or beyond the end does nothing.
Truncated(file, offset) ==
  IF offset >= Len(file.cells) THEN file ELSE Synced(SubSeq(file.cells, 1, offset))

\* What a power cut leaves of a file: at least what was synced, and of the rest some
\* length, with a hole where a page was not written.
AfterPowerCut(file) ==
  {Synced([i \in 1..n |-> IF i \in lost THEN Hole ELSE file.cells[i]]) :
     n \in file.synced..Len(file.cells), lost \in {{}} \cup {{i} : i \in file.synced + 1..Len(file.cells)}}
=============================================================================
