--------------------------- MODULE MCSmbiosSource ---------------------------
(* SmbiosSource with files of a negative size and tables from none to one  *)
(* byte more than a DWORD counts, built with a size_t no larger than a     *)
(* DWORD and with one that any table and its envelope fit in.              *)
EXTENDS SmbiosSource

MCSizes == -1 .. UInt32Max + 1
=============================================================================
