---------------------------- MODULE RecordStream ----------------------------
(***************************************************************************)
(* What every walker of this repository promises about a region of memory  *)
(* that holds variable-length records: it delivers records that lie inside *)
(* the region, one directly after the other, in order, none of them empty, *)
(* and then gives one verdict and delivers nothing more.  A verdict of     *)
(* "End" is given only when the records reach the end of the region, or    *)
(* when the last of them is marked as the final one.                       *)
(*                                                                         *)
(* SmbiosWalk, SmbiosParse and AcpiWalk implement it.                      *)
(***************************************************************************)
EXTENDS Integers, Sequences

VARIABLES
  limit,     \* the size of the region
  cursor,    \* the offset of the next record
  records,   \* the records delivered, as [Offset, Size, Final]
  verdict    \* "open" while records may follow, then the last status

vars == <<limit, cursor, records, verdict>>

Record == [Offset : Nat, Size : Nat, Final : BOOLEAN]

Init ==
  /\ limit \in Nat
  /\ cursor \in Nat
  /\ records = << >>
  /\ verdict = "open"

HasFinal == records # << >> /\ records[Len(records)].Final

Deliver ==
  /\ verdict = "open"
  /\ ~HasFinal
  /\ cursor' \in cursor + 1 .. limit
  /\ \E final \in BOOLEAN :
       records' = Append(records, [ Offset |-> cursor,
                                    Size   |-> cursor' - cursor,
                                    Final  |-> final ])
  /\ UNCHANGED <<limit, verdict>>

Stop ==
  /\ verdict = "open"
  /\ verdict' # "open"
  /\ verdict' = "End" => cursor = limit \/ HasFinal
  /\ HasFinal => verdict' = "End"
  /\ UNCHANGED <<limit, cursor, records>>

Next == Deliver \/ Stop

Spec == Init /\ [][Next]_vars

-----------------------------------------------------------------------------
TypeOK ==
  /\ limit \in Nat
  /\ cursor \in Nat
  /\ records \in Seq(Record)

(* The records are adjacent: each starts where the one before it ends, and *)
(* the cursor stands where the last one ends.                              *)
Adjacent ==
  \A i \in 1 .. Len(records) :
    records[i].Offset + records[i].Size =
      IF i = Len(records) THEN cursor ELSE records[i+1].Offset

(* Every record lies inside the region, and none is empty.                 *)
Inside ==
  \A i \in 1 .. Len(records) :
    /\ records[i].Size > 0
    /\ records[i].Offset + records[i].Size <= limit

(* The records tile the part of the region they cover: no two of them      *)
(* share an index.                                                         *)
Disjoint ==
  \A i, j \in 1 .. Len(records) :
    i < j => records[i].Offset + records[i].Size <= records[j].Offset

(* A final record is the last one.                                         *)
FinalIsLast ==
  \A i \in 1 .. Len(records) : records[i].Final => i = Len(records)

=============================================================================
