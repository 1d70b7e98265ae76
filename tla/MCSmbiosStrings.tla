-------------------------- MODULE MCSmbiosStrings --------------------------
(* SmbiosStrings on every region of at most MaxSize bytes, each zero or    *)
(* not: MaxSize is enough for more strings than ByteMax + 1 counts.        *)
EXTENDS SmbiosStrings

CONSTANT MaxSize

MCByte == {0, 1}
MCRegions == UNION { { r \in Buffer(n) : r.Valid } : n \in 0 .. MaxSize }
=============================================================================
