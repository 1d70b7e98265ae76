---------------------------- MODULE MCAcpiSource ----------------------------
(* AcpiSource on systems with at most MaxTables tables that claim less     *)
(* than a header, a header or more, and hold less, as much or more.        *)
EXTENDS AcpiSource

CONSTANTS MaxTables, MaxSize

Sized == [Kind : {"regular"}, First : 0 .. MaxSize, Second : 0 .. MaxSize,
          Sound : BOOLEAN]
Unread == [Kind : {"hidden", "other", "nopath"}, First : {0}, Second : {0},
           Sound : {TRUE}]
MCSystems == UNION { [1 .. n -> Sized \cup Unread] : n \in 0 .. MaxTables }
=============================================================================
