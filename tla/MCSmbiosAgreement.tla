------------------------- MODULE MCSmbiosAgreement -------------------------
(* Both decoders on every table of at most MaxSize bytes over a few values:*)
(* a terminator, a length equal to HeaderSize and one byte more than that, *)
(* which is also the type that ends a table.  A NULL Data pointer is tried *)
(* with the small sizes: nothing reads it.                                 *)
EXTENDS SmbiosAgreement

CONSTANTS MaxSize, MaxRaw

MCByte == {0, 2, 3}
MCStarts == {0, SizeMax}
MCTables ==
  { t \in UNION { Buffer(n) : n \in 0 .. MaxSize } : t.Valid \/ t.Size <= 2 }
MCEnveloped == 0 .. MaxRaw
=============================================================================
