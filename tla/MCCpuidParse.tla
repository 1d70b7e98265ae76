---------------------------- MODULE MCCpuidParse ----------------------------
(* CpuidParse on up to MaxRecords records over two leaves and two          *)
(* subleaves, with and without a remainder that is no whole record.        *)
EXTENDS CpuidParse

CONSTANT MaxRecords

MCBit == {"a"}
MCInputs ==
  UNION { { [Size |-> n * RecordSize + x, Records |-> s] :
              s \in [1 .. n -> CpuidRecord], x \in {0, 1, RecordSize - 1} } :
          n \in 0 .. MaxRecords }
=============================================================================
