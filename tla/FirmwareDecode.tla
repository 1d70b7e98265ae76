--------------------------- MODULE FirmwareDecode ---------------------------
(***************************************************************************)
(* The primitives every decoder is built from (FirmwareDecode.h and        *)
(* FirmwareBinary.cs): decode statuses, a bounds-checked view of memory    *)
(* the caller owns, and size_t arithmetic.                                 *)
(*                                                                         *)
(* A FIRMWARE_BUFFER is a record: Data maps every index below Size to a    *)
(* byte, and Valid says that the Data pointer is not NULL.  Statuses are   *)
(* strings, named as in the code without the FirmwareDecode prefix.        *)
(***************************************************************************)
EXTENDS Integers

CONSTANTS
  Byte,      \* the byte values; 0..255 in the code
  SizeMax    \* SIZE_MAX, the largest size_t

ASSUME FirmwareAssumption ==
  /\ Byte \subseteq Nat
  /\ 0 \in Byte
  /\ SizeMax \in Nat

Statuses ==
  { "Success", "End", "InvalidArgument", "TruncatedHeader", "InvalidLength",
    "TruncatedData", "MissingTerminator", "BadChecksum", "Unsupported" }

(* Sizes and offsets are size_t: an addition that passes SizeMax wraps.    *)
Plus(a, b) == IF a + b <= SizeMax THEN a + b ELSE a + b - (SizeMax + 1)

Buffer(n) == [Data : [0 .. n-1 -> Byte], Size : {n}, Valid : BOOLEAN]

(* FirmwareBuffer_Get returns Data + Offset; what decides is whether that  *)
(* is NULL, so the operator is true exactly when it is not.                *)
FirmwareBuffer_Get(b, offset, length) ==
  /\ b.Valid
  /\ offset <= b.Size
  /\ length <= b.Size - offset

(* A read through a pointer.  The walkers record every index they read,    *)
(* and their MemorySafe invariants show that the second case, a read past  *)
(* the buffer, never happens.                                              *)
ByteAt(b, i) == IF i \in 0 .. b.Size - 1 THEN b.Data[i] ELSE 0

=============================================================================
