----------------------------- MODULE CpuidParse -----------------------------
(***************************************************************************)
(* The managed parser of the CPUID transport (CpuidParser.cs): TryParse    *)
(* splits the bytes into records of RecordSize, refuses a second record    *)
(* for a leaf and subleaf, and gives a snapshot of all of them or none;    *)
(* TryGetRecord and IsSupported look into the snapshot.                    *)
(*                                                                         *)
(* The bytes are a number, Size, and the records they hold; the four       *)
(* registers of a record are the set of its bits that are set.             *)
(*                                                                         *)
(* A definition marked "a bug" is no part of the specification: it is a    *)
(* mistake the code could contain in place of the definition after it.     *)
(***************************************************************************)
EXTENDS Integers, Sequences

CONSTANTS
  Inputs,        \* what a caller may pass
  RecordSize,    \* 24
  Word,          \* 2^32, the values of a leaf or subleaf
  Bit            \* the bits of the four registers

TransportKey == (0 .. Word - 1) \X (0 .. Word - 1)
CpuidRecord == [Leaf : 0 .. Word - 1, SubLeaf : 0 .. Word - 1, Bits : SUBSET Bit]

(* The bytes hold as many whole records as fit, and a remainder.           *)
IsInput(in) ==
  /\ in.Size \in Nat
  /\ in.Records \in Seq(CpuidRecord)
  /\ Len(in.Records) = in.Size \div RecordSize

ASSUME ParseAssumption ==
  /\ RecordSize \in Nat \ {0}
  /\ Word \in Nat \ {0}
  /\ Bit # {}
  /\ \A in \in Inputs : IsInput(in)

VARIABLES
  data,       \* the caller's bytes
  offset,
  keys,       \* the packed keys of the records added
  records,
  snapshot,   \* out snapshot: NoSnapshot is null
  status,
  asked, found,   \* a feature looked up in the snapshot, and the answer
  phase

parsevars ==
  <<data, offset, keys, records, snapshot, status, asked, found, phase>>

NoSnapshot == [Null |-> TRUE, Records |-> << >>]
NoFeature == [Key |-> <<0, 0>>, Bit |-> CHOOSE b \in Bit : TRUE]

ParseInit ==
  /\ data \in Inputs
  /\ offset = 0
  /\ keys = {} /\ records = << >>
  /\ snapshot = NoSnapshot
  /\ status = "Success"
  /\ asked = NoFeature /\ found = FALSE
  /\ phase = "enter"

Leave(result, out) ==
  /\ status' = result
  /\ snapshot' = out
  /\ phase' = "returned"
  /\ UNCHANGED <<data, offset, keys, records, asked, found>>

WholeRecords == data.Size # 0 /\ data.Size % RecordSize = 0

BadLength ==
  phase = "enter" /\ ~WholeRecords /\ Leave("InvalidLength", NoSnapshot)

StartParse ==
  /\ phase = "enter"
  /\ WholeRecords
  /\ phase' = "loop"
  /\ UNCHANGED <<data, offset, keys, records, snapshot, status, asked, found>>

-----------------------------------------------------------------------------
Looping == phase = "loop" /\ offset < data.Size
Read == data.Records[offset \div RecordSize + 1]

LeafOnly(r) == r.Leaf * Word                            \* a bug
Pack(r) == r.Leaf * Word + r.SubLeaf

Duplicate ==
  /\ Looping
  /\ Pack(Read) \in keys
  /\ Leave("InvalidArgument", NoSnapshot)

Advance == offset + RecordSize

AddRecord ==
  /\ Looping
  /\ Pack(Read) \notin keys
  /\ keys' = keys \cup {Pack(Read)}
  /\ records' = Append(records, Read)
  /\ offset' = Advance
  /\ UNCHANGED <<data, snapshot, status, asked, found, phase>>

Snapshot == [Null |-> FALSE, Records |-> records]

TryParse ==
  phase = "loop" /\ offset >= data.Size /\ Leave("Success", Snapshot)

-----------------------------------------------------------------------------
KeyOf(r) == <<r.Leaf, r.SubLeaf>>

(* TryGetRecord: the first record in transport order with that key.        *)
SameLeaf(r, key) == r.Leaf = key[1]                     \* a bug
Matches(r, key) == KeyOf(r) = key

HasRecord(key) ==
  \E i \in 1 .. Len(snapshot.Records) : Matches(snapshot.Records[i], key)
FirstRecord(key) ==
  CHOOSE i \in 1 .. Len(snapshot.Records) :
    /\ Matches(snapshot.Records[i], key)
    /\ \A j \in 1 .. i - 1 : ~Matches(snapshot.Records[j], key)

IsSupported ==
  /\ phase = "returned" /\ ~snapshot.Null
  /\ \E key \in TransportKey, bit \in Bit :
       /\ asked' = [Key |-> key, Bit |-> bit]
       /\ found' = (/\ HasRecord(key)
                    /\ bit \in snapshot.Records[FirstRecord(key)].Bits)
  /\ phase' = "asked"
  /\ UNCHANGED <<data, offset, keys, records, snapshot, status>>

ParseNext ==
  \/ BadLength \/ StartParse \/ Duplicate \/ AddRecord \/ TryParse
  \/ IsSupported

ParseSpec == ParseInit /\ [][ParseNext]_parsevars

-----------------------------------------------------------------------------
ParseTypeOK ==
  /\ IsInput(data)
  /\ offset \in 0 .. data.Size
  /\ keys \subseteq 0 .. Word * Word - 1
  /\ records \in Seq(CpuidRecord)
  /\ snapshot.Null \in BOOLEAN /\ snapshot.Records \in Seq(CpuidRecord)
  /\ status \in {"Success", "InvalidLength", "InvalidArgument"}
  /\ asked \in [Key : TransportKey, Bit : Bit] /\ found \in BOOLEAN
  /\ phase \in {"enter", "loop", "returned", "asked"}

Returned == phase \in {"returned", "asked"}
Whole == data.Size > 0 /\ data.Size % RecordSize = 0
Distinct ==
  \A i, j \in 1 .. Len(data.Records) :
    KeyOf(data.Records[i]) = KeyOf(data.Records[j]) => i = j

(* All or nothing: the caller gets every record, in transport order, when  *)
(* the bytes are whole records with different keys, and no snapshot        *)
(* otherwise; no two keys share a packed value, and the offset never passes *)
(* the end of the bytes (ParseTypeOK).                                     *)
SnapshotExact ==
  /\ ParseTypeOK
  /\ Returned =>
       /\ status = IF ~Whole THEN "InvalidLength"
                   ELSE IF Distinct THEN "Success" ELSE "InvalidArgument"
       /\ snapshot = IF Whole /\ Distinct
                     THEN [Null |-> FALSE, Records |-> data.Records]
                     ELSE NoSnapshot

(* A feature is reported exactly when the one record of its leaf and       *)
(* subleaf has the bit: a leaf the collector did not send has none.        *)
FeatureExact ==
  phase = "asked" =>
    (found <=> \E i \in 1 .. Len(data.Records) :
                 /\ KeyOf(data.Records[i]) = asked.Key
                 /\ asked.Bit \in data.Records[i].Bits)

=============================================================================
