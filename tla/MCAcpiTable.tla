---------------------------- MODULE MCAcpiTable ----------------------------
(* AcpiTable on every buffer of at most MaxSize bytes of 0..5.  A header   *)
(* is two bytes; signature 1 is known and needs three, signature 0 and the *)
(* others are unknown; an RSDP has signature 0, three legacy bytes with    *)
(* room for a checksum, its length at index 3 and five bytes in all.       *)
EXTENDS AcpiTable

CONSTANT MaxSize

MCByte == 0 .. 5
MCMinimumSize == [s \in {1} |-> 3]
MCBuffers ==
  { b \in UNION { Buffer(n) : n \in 0 .. MaxSize } : b.Valid \/ b.Size <= 2 }
=============================================================================
