------------------------------ MODULE AcpiTable ------------------------------
(***************************************************************************)
(* The three validators of ACPI data on the same bytes, one after the      *)
(* other: AcpiValidateTable and AcpiValidateRsdp (ACPI.Decode.h) and       *)
(* AcpiParser.TryParse (AcpiParser.cs).  Each is a ladder of checks, and   *)
(* the order of the rungs is what keeps the reads inside the buffer.       *)
(*                                                                         *)
(* The layout is scaled down.  Of a table header the signature (index 0)   *)
(* and the length (index 1) are told apart from the rest, of an RSDP the   *)
(* signature (0), the revision (1) and, after the LegacySize bytes of ACPI *)
(* 1.0, the length.                                                        *)
(*                                                                         *)
(* A definition marked "a bug" is no part of the specification: it is a    *)
(* mistake the code could contain in place of the definition after it.     *)
(***************************************************************************)
EXTENDS FirmwareDecode

CONSTANTS
  Buffers,        \* what a caller may pass
  Modulus,        \* what a sum of bytes is kept below, 2^8
  HeaderSize,     \* sizeof(ACPI_DESCRIPTION_HEADER), 36
  MinimumSize,    \* AcpiTableInfo: a function from the known signatures
  RsdpSignature,  \* "RSD PTR "
  LegacySize,     \* the ACPI 1.0 part of the RSDP, 20
  XsdtOffset,     \* offsetof(.., XsdtAddress): the length lies before, 24
  RsdpSize        \* sizeof(ACPI_ROOT_SYSTEM_DESCRIPTION_POINTER), 36

IsBuffer(b) == b.Size \in 0 .. SizeMax /\ b \in Buffer(b.Size)

ASSUME LayoutAssumption ==
  /\ {HeaderSize, LegacySize, XsdtOffset, RsdpSize} \subseteq Nat
  /\ 2 <= HeaderSize
  /\ 2 <= LegacySize /\ LegacySize < XsdtOffset /\ XsdtOffset < RsdpSize
  /\ \A s \in DOMAIN MinimumSize : MinimumSize[s] \in Nat
ASSUME BufferAssumption == \A b \in Buffers : IsBuffer(b)
ASSUME ModulusAssumption == Modulus \in Nat /\ \A v \in Byte : v < Modulus

VARIABLES
  Bytes, ValidateChecksum,    \* the arguments
  Status, View,                 \* AcpiValidateTable; View.Size is Data.Size
  status, table,                \* TryParse
  Answer, Rsdp,                 \* AcpiValidateRsdp; Rsdp: it was written
  reads,                        \* the indices the last call dereferenced
  turn                          \* who is called next, then "done"

vars == <<Bytes, ValidateChecksum, Status, View, status, table, Answer, Rsdp,
          reads, turn>>

(* FirmwareChecksum8 and Checksum8: the bytes are added in a uint8_t, which *)
(* wraps, and the sum of the first n bytes of b has to be zero.            *)
BytePlus(a, v) == IF a + v < Modulus THEN a + v ELSE a + v - Modulus

Sum8(b) ==
  LET sum[n \in Nat] ==
        IF n = 0 THEN 0 ELSE BytePlus(sum[n - 1], ByteAt(b, n - 1))
  IN  sum

SumsButLast(b, n) == n > 0 => Sum8(b)[n - 1] = 0        \* a bug
Sums(b, n) == Sum8(b)[n] = 0

NoView == [Size |-> 0, Known |-> FALSE]

Init ==
  /\ Bytes \in Buffers
  /\ ValidateChecksum \in BOOLEAN
  /\ Status = "Unsupported" /\ View = NoView
  /\ status = "Unsupported" /\ table = NoView
  /\ Answer = "Unsupported" /\ Rsdp = FALSE
  /\ reads = {}
  /\ turn = "table"

-----------------------------------------------------------------------------
(* AcpiValidateTable.  Each check is made only after the ones before it.   *)
Signature == ByteAt(Bytes, 0)
Length == ByteAt(Bytes, 1)
LengthReads == {1}
Known == Signature \in DOMAIN MinimumSize

Get(n) == FirmwareBuffer_Get(Bytes, 0, n)

GotHeader == turn = "table" /\ Get(HeaderSize)
GotTable == GotHeader /\ Length >= HeaderSize /\ Get(Length)
AboveMinimum == TRUE                                    \* a bug
LongEnough == Known => Length >= MinimumSize[Signature]

ReturnTable(result, view, read) ==
  /\ Status' = result
  /\ View' = view
  /\ reads' = read
  /\ turn' = "managed"
  /\ UNCHANGED <<Bytes, ValidateChecksum, status, table, Answer, Rsdp>>

FailTable(result, read) == ReturnTable(result, View, read)

NullArgument == turn = "table" /\ FailTable("InvalidArgument", {})

NoHeader == turn = "table" /\ ~Get(HeaderSize) /\ FailTable("TruncatedHeader", {})

ShortLength ==
  GotHeader /\ Length < HeaderSize /\ FailTable("InvalidLength", LengthReads)

LongLength ==
  /\ GotHeader /\ Length >= HeaderSize
  /\ ~Get(Length)
  /\ FailTable("TruncatedData", LengthReads)

BelowMinimum == GotTable /\ ~LongEnough /\ FailTable("InvalidLength", {0, 1})

BadTable ==
  /\ GotTable /\ LongEnough
  /\ ValidateChecksum
  /\ ~Sums(Bytes, Length)
  /\ FailTable("BadChecksum", 0 .. Length - 1)

DataSize == Length

AcpiValidateTable ==
  /\ GotTable /\ LongEnough
  /\ ValidateChecksum => Sums(Bytes, Length)
  /\ ReturnTable("Success", [Size |-> DataSize, Known |-> Known],
                 IF ValidateChecksum THEN 0 .. Length - 1 ELSE {0, 1})

-----------------------------------------------------------------------------
(* TryParse.  A ReadOnlyMemory is never NULL: the call is skipped then.    *)
ReturnManaged(result, out, read) ==
  /\ status' = result
  /\ table' = out
  /\ reads' = read
  /\ turn' = "rsdp"
  /\ UNCHANGED <<Bytes, ValidateChecksum, Status, View, Answer, Rsdp>>

FailManaged(result, read) == ReturnManaged(result, NoView, read)

Parsing == turn = "managed" /\ Bytes.Valid
HeaderFits == Bytes.Size >= HeaderSize

NoParse == turn = "managed" /\ ~Bytes.Valid /\ FailManaged("Unsupported", {})

NoManagedHeader == Parsing /\ ~HeaderFits /\ FailManaged("TruncatedHeader", {})

ShortManagedLength ==
  /\ Parsing /\ HeaderFits
  /\ Length < HeaderSize
  /\ FailManaged("InvalidLength", LengthReads)

TrailerRefused == Length = Bytes.Size                 \* a bug
LengthFits == Length <= Bytes.Size

LongManagedLength ==
  /\ Parsing /\ HeaderFits /\ Length >= HeaderSize
  /\ ~LengthFits
  /\ FailManaged("TruncatedData", LengthReads)

BadManagedTable ==
  /\ Parsing /\ HeaderFits /\ Length >= HeaderSize /\ LengthFits
  /\ ValidateChecksum
  /\ ~Sums(Bytes, Length)
  /\ FailManaged("BadChecksum", 0 .. Length - 1)

TryParse ==
  /\ Parsing /\ HeaderFits /\ Length >= HeaderSize /\ LengthFits
  /\ ValidateChecksum => Sums(Bytes, Length)
  /\ ReturnManaged("Success", [Size |-> Length, Known |-> Known],
                   0 .. HeaderSize - 1
                   \cup (IF ValidateChecksum THEN 0 .. Length - 1 ELSE {}))

-----------------------------------------------------------------------------
(* AcpiValidateRsdp.                                                       *)
Revision == ByteAt(Bytes, 1)
RsdpLength == ByteAt(Bytes, LegacySize)
LegacyReads == 0 .. LegacySize - 1

ReturnRsdp(result, read) ==
  /\ Answer' = result
  /\ Rsdp' = (result = "Success")
  /\ reads' = read
  /\ turn' = "done"
  /\ UNCHANGED <<Bytes, ValidateChecksum, Status, View, status, table>>

AtRsdp == turn = "rsdp" /\ Get(LegacySize)
IsRsdp == AtRsdp /\ Signature = RsdpSignature
LegacySum == Sums(Bytes, LegacySize)
Legacy == IsRsdp /\ LegacySum
LengthUnchecked == TRUE                                 \* a bug
LengthThere == Get(XsdtOffset)
Extended == Legacy /\ Revision >= 2 /\ LengthThere

NullRsdp == turn = "rsdp" /\ ReturnRsdp("InvalidArgument", {})

NoRsdp == turn = "rsdp" /\ ~Get(LegacySize) /\ ReturnRsdp("TruncatedHeader", {})

OtherSignature ==
  AtRsdp /\ Signature # RsdpSignature /\ ReturnRsdp("InvalidArgument", {0})

BadLegacySum == IsRsdp /\ ~LegacySum /\ ReturnRsdp("BadChecksum", LegacyReads)

AcpiValidateRsdp10 ==
  Legacy /\ Revision < 2 /\ ReturnRsdp("Success", LegacyReads)

NoRsdpLength ==
  /\ Legacy /\ Revision >= 2 /\ ~LengthThere
  /\ ReturnRsdp("TruncatedHeader", LegacyReads)

ExtendedReads == LegacyReads \cup {LegacySize}

ShortRsdp ==
  /\ Extended /\ RsdpLength < RsdpSize
  /\ ReturnRsdp("InvalidLength", ExtendedReads)

LongRsdp ==
  /\ Extended /\ RsdpLength >= RsdpSize
  /\ ~Get(RsdpLength)
  /\ ReturnRsdp("TruncatedData", ExtendedReads)

BadExtendedSum ==
  /\ Extended /\ RsdpLength >= RsdpSize /\ Get(RsdpLength)
  /\ ~Sums(Bytes, RsdpLength)
  /\ ReturnRsdp("BadChecksum", 0 .. RsdpLength - 1)

AcpiValidateRsdp20 ==
  /\ Extended /\ RsdpLength >= RsdpSize /\ Get(RsdpLength)
  /\ Sums(Bytes, RsdpLength)
  /\ ReturnRsdp("Success", 0 .. RsdpLength - 1)

ValidateTable ==
  \/ NullArgument \/ NoHeader \/ ShortLength \/ LongLength \/ BelowMinimum
  \/ BadTable \/ AcpiValidateTable
Parse ==
  \/ NoParse \/ NoManagedHeader \/ ShortManagedLength \/ LongManagedLength
  \/ BadManagedTable \/ TryParse
ValidateRsdp ==
  \/ NullRsdp \/ NoRsdp \/ OtherSignature \/ BadLegacySum
  \/ AcpiValidateRsdp10 \/ NoRsdpLength \/ ShortRsdp \/ LongRsdp
  \/ BadExtendedSum \/ AcpiValidateRsdp20

Next == ValidateTable \/ Parse \/ ValidateRsdp

Spec == Init /\ [][Next]_vars

-----------------------------------------------------------------------------
TypeOK ==
  /\ IsBuffer(Bytes) /\ ValidateChecksum \in BOOLEAN
  /\ {Status, status, Answer} \subseteq Statuses
  /\ {View, table} \subseteq [Size : Nat, Known : BOOLEAN]
  /\ Rsdp \in BOOLEAN
  /\ reads \subseteq Nat
  /\ turn \in {"table", "managed", "rsdp", "done"}

(* No validator reads past the buffer: no field is read before the buffer  *)
(* is known to hold it, no sum runs over more bytes than there are, and no *)
(* size of a View is a difference that has wrapped (TypeOK).               *)
MemorySafe ==
  /\ TypeOK
  /\ \A i \in reads : i < Bytes.Size

(* The View a walker gets of an accepted table lies inside the buffer, and *)
(* is as long as its header says and its signature needs.                  *)
ViewWhole ==
  /\ View.Size <= Bytes.Size
  /\ View.Size = Length
  /\ View.Size >= HeaderSize
  /\ View.Known => View.Size >= MinimumSize[Signature]

(* An RSDP is whole when its ACPI 1.0 part sums to zero, and from revision *)
(* 2 on its length covers every field, lies in the buffer and sums to zero *)
(* too.                                                                    *)
RsdpWhole ==
  /\ Bytes.Valid /\ LegacySize <= Bytes.Size
  /\ Signature = RsdpSignature
  /\ Sums(Bytes, LegacySize)
  /\ Revision >= 2 =>
       /\ XsdtOffset <= Bytes.Size
       /\ RsdpLength \in RsdpSize .. Bytes.Size
       /\ Sums(Bytes, RsdpLength)

(* The call was refused for a NULL argument: another signature answers the *)
(* same but has been read.                                                 *)
NullCall == Answer = "InvalidArgument" /\ reads = {}

(* What AcpiValidateTable accepts is whole, and AcpiValidateRsdp, called   *)
(* with a buffer and a place for the answer, accepts what is whole and     *)
(* nothing else.                                                           *)
AcceptedWhole ==
  /\ turn # "table" /\ Status = "Success" => ViewWhole
  /\ turn = "done" => (Rsdp <=> RsdpWhole /\ ~NullCall)

(* Native and managed code judge every table alike, for the same reason,   *)
(* except that only native code knows the minimum sizes: what it refuses   *)
(* as too short for its signature, the managed parser judges by its sum.   *)
ValidatorsAgree ==
  turn \in {"rsdp", "done"} /\ Bytes.Valid /\ Status # "InvalidArgument" =>
    \/ status = Status /\ table.Size = View.Size
    \/ /\ Status = "InvalidLength" /\ status \in {"Success", "BadChecksum"}
       /\ Known /\ Length >= HeaderSize /\ Length < MinimumSize[Signature]

Changed(b, i, v) == [b EXCEPT !.Data[i] = v]

(* A table accepted with its checksum is refused with any one byte changed *)
(* but a byte of the length, which changes what is summed.                 *)
ChecksumDetects ==
  turn # "table" /\ Status = "Success" /\ ValidateChecksum =>
    \A i \in 0 .. View.Size - 1 : \A v \in Byte \ {Bytes.Data[i]} :
      i # 1 => ~Sums(Changed(Bytes, i, v), View.Size)

=============================================================================
