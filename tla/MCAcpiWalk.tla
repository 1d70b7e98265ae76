----------------------------- MODULE MCAcpiWalk -----------------------------
(* Subtable walks on every table of at most MaxSize bytes over three       *)
(* values: an illegal length, the smallest legal one and one byte more.    *)
(* Fixed-entry walks do not look at the bytes: one table of each size.     *)
(* SizeMax is the largest table, so that a sum can wrap to 0.              *)
EXTENDS AcpiWalk

CONSTANT MaxSize

MCByte == {0, 2, 3}
MCOffsets == {0, 3, SizeMax}

Sized(n) == { t \in Buffer(n) : t.Valid \/ n <= 2 }
Zeroes(n) == { t \in Sized(n) : \A i \in 0 .. n-1 : t.Data[i] = 0 }

Walks(walker, tables, sizes) ==
  { [Walker |-> walker, Null |-> FALSE, Table |-> t, Start |-> s, EntrySize |-> e] :
    t \in tables, s \in 0 .. SizeMax, e \in sizes }
Some(n) == Walks("subtable", Sized(n), {0})
           \cup Walks("fixed", Zeroes(n), {0, 1, 2, 3, SizeMax})
NullWalks == { [c EXCEPT !.Null = TRUE] : c \in Some(0) }

MCCalls == UNION { Some(n) : n \in 0 .. MaxSize } \cup NullWalks
=============================================================================
