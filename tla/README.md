# TLA+ models of KNSoft.FirmwareSpec

KNSoft.FirmwareSpec decodes three kinds of data a program gets from a machine's
firmware: the SMBIOS structure table, ACPI tables and the CPUID leaves. It does
so twice, in C headers that are compiled into an endpoint, and in a .NET package
that a server uses on bytes an endpoint collected. Nothing in it is concurrent
and nothing is stored; what makes it hard to get right is that every length it
follows was written by somebody else, that its arithmetic is on `size_t`, `int`,
`uint8_t` and `DWORD`, that an integer serves as iterator, and that two
implementations of one format must give one answer.

This directory holds TLA+ models of that code, TLC configurations that check them
on small instances or on the real constant tables, and TLAPS proofs of every safety
property those configurations check: of the walkers, the managed SMBIOS parser and its
agreement with the native one, the string lookups, the ACPI validators with their
checksum, the reading of SMBIOS and ACPI fields, the CPUID visitor, transport parser
and feature tables, and the programs around them.

- [Inventory](#inventory): the system and what can go wrong in it
- [Modules](#modules): which module models what
- [Runs](#runs): what TLC checks, with which bounds
- [Proofs](#proofs): what TLAPS proves
- [Limits](#limits): what is abstracted, only model-checked, or not modelled
- [Plan](#plan): what could follow

To repeat the checks: `tlc -config MCSmbiosAgreement.cfg MCSmbiosAgreement` (and
likewise for each `MC*.cfg`; `MCSmbiosComments.cfg` is a second configuration of
`MCSmbiosFields`), `tlapm SmbiosAgreementProofs.tla` (and each `*Proofs.tla`).
`PROJECT.json` maps every definition to the lines it models.


## Inventory

| Component | Source | State | Operations |
|---|---|---|---|
| Decoder primitives | `FirmwareDecode.h` | none | `FirmwareBuffer_Get`, `FirmwareChecksum8`, `FirmwareBuffer_ReadUInt`, `FirmwareExtractBits`, `FirmwareFindEnum` |
| SMBIOS walker, native | `SMBIOS.Decode.h` | the caller's `*Offset` and `*View` | `SmbiosNextStructure`, `SmbiosGetString`, `SmbiosFindTypeInfo` |
| SMBIOS parser, managed | `SmbiosParser.cs`, `FirmwareBinary.cs` | the list being built | `TryParseWindowsRaw`, `TryParse`, `FindStringSetEnd`, `TryGetString`, `TryReadUnsigned` |
| `SmbiosDecode` | `SmbiosDecode.c` | descriptor, buffer, what was read, array of strings | `GetSmbiosTableData` (Windows, Linux), `PrintSmbiosTable`, `main` |
| ACPI, native | `ACPI.Decode.h`, `ACPI.TypeInfo.h` | the caller's `*Offset`, `*View` | `AcpiValidateRsdp`, `AcpiValidateTable`, `AcpiNextSubtable`, `AcpiNextFixedEntry` |
| ACPI parser, managed | `AcpiParser.cs` | none | `TryParse`, `TryReadUnsigned` |
| `AcpiDecode` | `AcpiDecode.c` | directory or id list, file, buffer, exit code | `main`, `DecodeSystemTables`, `DecodeFile`, `DecodeTable` |
| CPUID visitor, native | `CPUID.Decode.h`, `CPUID.TypeInfo.h` | the cached registers, the probed limits | `CpuidExecute`, `CpuidGetVendor`, `CpuidVisitFeatures`, `CpuidDecodeVersion` |
| CPUID transport parser, managed | `CpuidParser.cs`, `CpuidFeatures.cs` | the set of keys, the list of records | `TryParse`, `TryGetRecord`, `IsSupported` |
| `CpuidDecode` | `CpuidDecode.c` | none | `main`, `PrintFeature` |
| Metadata and generator | `SMBIOS.TypeInfo.h`, `ACPI.TypeInfo.h`, `CPUID.TypeInfo.h`, `GenerateSmbiosMetadata.c`, `SmbiosMetadata.g.cs` | none | constant tables, the search of a type or signature, the backing row of a bit-field |
| Layouts | `SMBIOS.h`, `ACPI.h`, `CPUID.h` | none | none |
| Tests, build, publication | `FirmwareSpecTest.c`, `Program.cs`, workflow, MSBuild files | none | none |

How they interact. The sample programs obtain bytes from the operating system
and call the native decoders in a loop, handing the same `*Offset` back until a
call does not return `Success`. The visitor of `CpuidVisitFeatures` is a callback
that may stop it. The managed parsers see the bytes an endpoint sent and share no
state with native code; they are meant to agree with it. The metadata tables of
the SMBIOS side come from the same macros; those of the ACPI and the CPUID side
are written down twice, once in C and once in C#. All of them describe again what
the structs of the layout headers declare.

What makes each component correct:

- *walkers*: no byte is read outside the region the caller gave, whatever the
  length bytes and the offset say; what is delivered is exactly what the format
  defines; the status is the one the bytes deserve; the walk ends;
- *both SMBIOS decoders together*: the same structures and the same verdict, up
  to the end-of-table structure that only the managed parser stops at;
- *string lookup*: the three resolvers of a string index agree, also about a region
  without a terminator;
- *ACPI validators*: accepted means whole; a damaged byte is noticed; native and
  managed code judge alike, except for the minimum sizes only native code knows;
- *ACPI walkers*: the cursor 0 means "start", so a walk must never bring the
  cursor back to 0;
- *CPUID visitor*: a bit is tested only in the registers of its own leaf, although
  one buffer serves three purposes, and all features of a leaf come from one
  execution on one core;
- *CPUID transport*: all records or none;
- *fields*: a field is read only where the firmware made the structure long enough
  for it, a bit-field only from the bytes of the row it belongs to; the printer,
  which goes through the rows in order and carries a value along, and the managed
  readers, which take each row by itself, show the same;
- *metadata*: every member the layout header declares is shown, as what it is
  declared, and nothing else; an enumeration has a name for each of its values;
  tables that are written down twice say the same;
- *programs*: whatever call fails, everything is released, nothing is decoded that
  was not read, and the exit code tells.

The hard behaviours are therefore arithmetic that wraps, sequences of calls
through one cursor, short reads, failing system calls, tables that change between
two calls, a cache that is overwritten behind its back, structures shorter than
their metadata, and agreement of two implementations and of several hundred rows
with the structs they describe. `PROJECT.json` lists each as a hazard at its line, with the
properties that would catch it.


## Modules

| Module | Models |
|---|---|
| `FirmwareDecode` | `FIRMWARE_BUFFER`, `FirmwareBuffer_Get`, statuses, addition in `size_t` |
| `RecordStream` | the abstract specification: adjacent, non-empty records inside a region, then one verdict |
| `SmbiosFormat` | the SMBIOS format as predicates: well-formed structure, its size, the refusal a bad one deserves |
| `SmbiosWalk` | `SmbiosNextStructure`, byte by byte, and the loop that calls it |
| `SmbiosParse` | `TryParseWindowsRaw`, `TryParse`, `FindStringSetEnd` |
| `SmbiosAgreement` | composes `SmbiosWalk` and `SmbiosParse` on the same bytes, bare and in an envelope |
| `SmbiosStrings` | `SmbiosGetString`, managed `TryGetString`, the string array of `PrintSmbiosTable` |
| `AcpiTable` | `AcpiValidateTable`, managed `TryParse`, `AcpiValidateRsdp`, one after the other on the same bytes |
| `AcpiWalk` | `AcpiNextSubtable` and `AcpiNextFixedEntry`, called any number of times, also after the end |
| `CpuidVisit` | `CpuidVisitFeatures` with `CpuidGetVendor` and `CpuidExecute` |
| `CpuidParse` | `CpuidParser.TryParse`, `TryGetRecord`, `IsSupported` |
| `SmbiosSource` | both `GetSmbiosTableData` functions and `main` of `SmbiosDecode.c` |
| `AcpiSource` | `main`, `DecodeSystemTables`, `DecodeFile`, `DecodeTable` of `AcpiDecode.c` |
| `SmbiosFields` | the loop over rows of `PrintSmbiosTable`, managed `TryReadUnsigned` and `TryGetString`, what the generator makes of the rows |
| `SmbiosTypeInfo`, `SmbiosLayout` | the rows and enumerations of `SMBIOS.TypeInfo.h`; the structures of `SMBIOS.h` |
| `AcpiFields` | `AcpiFindTableInfo`, `DecodeTable`, `PrintFields`, managed `GetFields`, and the rows of both |
| `AcpiLayout` | the structs of `ACPI.h` |
| `CpuidDecode` | `main` and `PrintFeature` of `CpuidDecode.c`, `CpuidDecodeVersion`, and the features the managed snapshot reports |
| `CpuidTypeInfo`, `CpuidLayout` | the rows of `CPUID.TypeInfo.h` and of `CpuidFeatures.cs`; the bit-fields of `CPUID.h` |
| `*Proofs` | the theorems about the module they are named after; `AcpiDecodeProofs` about `AcpiSource` and `AcpiFields`, `CpuidProofs` about `CpuidVisit`, `CpuidParse` and `CpuidDecode` |
| `MC*` | the small instances for TLC |

### Correspondence

*Bytes.* A buffer is a record `[Data, Size, Valid]`: a function from indices to
bytes, its size, and whether the pointer is non-NULL. `SizeMax` stands for
`SIZE_MAX` (for `int.MaxValue` in `SmbiosParse`) and every sum of the code is
`Plus`, which wraps. Multi-byte fields are shrunk to one byte and layouts to a few
bytes, keeping their order: a header is a type and a length.

*Reads.* `reads` is the set of indices the last step dereferenced, computed from
the code's order of evaluation: `&&` short-circuits, and a length is read only
behind the check before it. Memory safety is a statement about `reads`.

*Fields.* What is shown of a row is a place: which bytes of the structure, in which
order, and which bits of the number they form. Two readers show the same when
their places are equal, whatever the bytes hold. Layouts, rows and enumerations are
the real ones, with their real offsets and sizes: the layout modules list the
members in the order of the structs and compute the offsets, so that an offset
written down elsewhere is compared with a sum, not with itself. `TypeInfo`, which
the code keeps as a pointer, is the record it points to.

*Steps.* In `SmbiosWalk` and `SmbiosParse` a step is an early return, the checks
up to the scan, or one byte of the scan. In `AcpiWalk` and `AcpiTable` a step is
one call, since nothing in a call repeats except the checksum. In `SmbiosFields`,
`AcpiFields` and `CpuidDecode` a step is a search, one row, or a return. In the two
programs a step is one system call, or a return with all that it releases. In
`CpuidVisit` a step is a `continue`, the probe, an execution of CPUID, or the
test of a bit. Each error path is an action of its own, with the guard that leads there.

*History.* `walked`, `verdict`, `answers`, `visited` and `outcome` remember what
was handed out, `broken` that a directory could not be read to its end. No guard
reads them.

*Bugs.* Definitions marked `a bug` stand in front of the definition they could be
confused with (a dropped bound, an off-by-one, a wrong label). They are not part
of any specification; each property rejects at least one of them, which shows
that the property depends on the code and not on the shape of the model.

### The abstract specification

`RecordStream` says what a caller of any of the walkers relies on: records start
where the last one ended, are not empty, lie inside the region, and are followed
by one verdict; `End` is said only at the end of the region or after a final
record. `SmbiosWalk`, `SmbiosParse` and `AcpiWalk` implement it under these
mappings:

| | `limit` | `cursor` | `records` | `verdict` |
|---|---|---|---|---|
| `SmbiosWalk` | `Table.Size` | `Offset` | `walked` | `Status` once the loop has ended |
| `SmbiosParse`, in `SmbiosAgreement` | what the caller asks to have parsed | `offset` | `structures` | `status` once returned |
| `AcpiWalk` | `Table.Size` | `Position`: `Start` while the cursor is 0 | `walked` | the first status that is not `Success` |

`ImplementsStream` states it for the two native walkers, `ManagedStream` for the
managed parser. The interesting one is `AcpiWalk`: the mapping reads the cursor through its
sentinel value, so that a cursor that came back to 0 would move the abstract
cursor backwards and the refinement would fail.


## Runs

All runs explore their instance completely. The last one ends with a
counterexample: see [Limits](#limits).

| Run | Instance | What it shows |
|---|---|---|
| `smbios_agreement` | every table of at most 8 bytes over {0, 2, 3}, walked from offset 0 and `SIZE_MAX`, then parsed bare and, up to 5 bytes, in raw envelopes that declare fewer, as many or more, among them the first and the last `uint` above `int.MaxValue`; header 2 bytes, `SizeMax` 9; type 3 ends a table | no read outside and no exception; every structure, every refusal is the format's; the parser gives all or nothing; both refine `RecordStream`, agree, and end |
| `smbios_strings` | every region of at most 12 bytes, zero or not; every index; a counter of two bits | lookups right and equal, the printer too, inside the structure and inside its array |
| `acpi_table` | every buffer of at most 6 bytes of 0..5, with and without checksum | validators read inside, also when called with NULL, accept what is whole, notice a changed byte, agree |
| `acpi_walk` | every table of at most 6 bytes over {0, 2, 3}, every start, entry sizes {0, 1, 2, 3, `SIZE_MAX`}, cursors {0, 3, `SIZE_MAX`}; `SizeMax` 6 | both walkers exact, repeatable, refine `RecordStream` |
| `acpi_source` | at most 2 tables that claim and hold 0 to 3 bytes, or cannot be opened; every call fails or not, the next `readdir` too | everything released once, nothing decoded before it is whole, the exit code right, no table forgotten unless the directory cannot be read on |
| `smbios_source` | sizes from -1 to 6 with `DWORD` up to 5 and `SIZE_MAX` 5 or 20; every call fails or not, every split of the reads; envelopes that claim any length | one release on each way out, the buffer never overrun and whole when it is decoded, the version from a fitting entry point; the program ends |
| `cpuid_visit` | the groups (1,0), (7,0), (7,1), (7,2) with two features each; highest leaf 0, 1, 6, 7, highest subleaf 0, 1, 2; every answer of the processor | registers fresh, one answer for each leaf, exact visits |
| `cpuid_parse` | at most 3 records over two leaves and two subleaves, remainders 0, 1 and 23 bytes | all or nothing, features exact |
| `smbios_fields` | every type of `SMBIOS.TypeInfo.h` and one it does not know, each at every length from 4 to one byte more than its struct and at 255, before and since version 2.6 | fields read inside the formatted area, printer and managed readers agree, every member shown, every name there |
| `acpi_fields` | every known signature and `OEM1`, at every length from 0 to 280 | the same fields on both sides, those that are there |
| `cpuid_decode` | each of the 512 bits of leaves 1 and 7 (subleaves 0 to 2) alone; highest leaf 0, 1, 7, highest subleaf 0, 1, 2; 432 versions | the same features under the same names in the program, the snapshot and `CPUID.h`; the version exact |
| `smbios_comments` | as `smbios_fields` | a member whose comment names an enumeration is printed as a number |

### Why the bounds are enough

- *SMBIOS tables.* Eight bytes hold two structures, or one with a formatted area
  longer than the header and strings with a single NUL between them; 0 is a
  terminator and a length that is too short, 2 the smallest legal length, 3 one
  more and the end-of-table type. `SizeMax` is one above the largest table, so
  that the sums of the code come to the value where they would wrap; the offset
  `SIZE_MAX` is the one `FirmwareSpecTest.c` passes.
- *Strings.* A counter of two bits would wrap after three strings, but every index
  fits the counter and is met before that; twelve bytes hold five one-byte strings and
  the terminator, more than an index can name and more than the printer's array of
  three takes.
- *ACPI tables.* Two header bytes, one byte behind them that the minimum size
  of a known signature asks for, three more for trailing data; the RSDP has its
  length behind three legacy bytes. The checksum is taken modulo `Modulus`, 256 in
  the code and here 6, the number of byte values of the instance.
- *ACPI walk.* `SizeMax` equals the largest table, so that `Position + Length`
  can become exactly the value that wraps to the sentinel 0.
- *CPUID.* The groups are the real ones. Two features in each make the cache
  matter; the highest leaf stops below, between and at the groups.
- *Fields.* The tables are the real ones and the lengths are all that make a
  difference: between two ends of members nothing changes, and beyond the last one
  no length does.
- *CPUID features.* A row tests one bit of one register, so that processors with a
  single bit set find every row that tests another bit than its name belongs to,
  and the bits without a row. Versions take the families 5, 6 and 15, on both
  sides of the two rules for extended fields, and the largest value of each field.
- *Programs.* Two tables distinguish "the first failed" from "the last failed".
  Sizes go from a negative `st_size` over nothing, and less than a header, to more than
  was claimed, and one is above `UInt32Max`. With `SIZE_MAX` equal to the largest
  `DWORD`, as in a 32-bit build, table and envelope together no longer fit a `size_t`;
  with one far above, the `DWORD` is the limit.

### Fairness

`smbios_agreement` and `smbios_source` check that the program ends, under weak
fairness of the whole next-state relation and nothing more: one thread that waits for
nothing takes a step when it can, and a system call returns. No fairness is assumed
between the ways a call can end: a read may return one byte each time, and every call
may fail.

### Deadlock

`CHECK_DEADLOCK` is off: every model is of a call, a loop or a program that ends.
That it ends where it should is stated by the properties about the state at the
end, and by the two `Terminates`. `AcpiWalk` alone goes on for ever, since a
caller may call again after the end.

### What the properties say

SMBIOS:
- `MemorySafe`, `NeverThrows`: no index outside the region, no difference of
  `size_t` or sum of `int` that wraps, no slice longer than the payload.
- `ViewExact`: a structure delivered is the one the format defines at that offset,
  ending at the *first* double NUL.
- `VerdictExact`, `RefusalExact`: the status of the walker, and of the parser, is the
  first reason the bytes at the cursor give; no well-formed structure is refused.
- `TableExact`: a managed table exists exactly with `Success`, its structures are
  the format's and its bytes are theirs.
- `SameAnswer`: native and managed decoder, the structures and the verdict, up to
  the first end-of-table structure.
- `LookupExact`, `LookupsAgree`, `PrinterAgrees`, `PrinterStaysInside`: the string
  an index names, in three implementations.
- `CopiesInside`: a structure shorter than its metadata is read only where it is,
  also by the bit-fields that take the value of the row before them.
- `ReadersAgree`: the printer and `TryReadUnsigned`, `TryGetString` show the same rows,
  from the same bytes and bits.
- `DeclaredIsShown`, `NamesExact`: the rows against the structs and enumerations of
  `SMBIOS.h`: nothing missing, nothing that is not declared.
- `Released`, `DataWhole`, `VersionTrusted`: `SmbiosDecode`'s ways out, buffer and
  entry point. `DataWhole` says that the buffer is never written past its end and is
  full when it is decoded. On Linux the length walked is what was read; on Windows it
  is what the envelope claims, and stays inside the buffer on the condition
  `EnvelopeFits`, about the firmware, that no code checks.

ACPI:
- `AcceptedWhole`, `ValidatorsAgree`, `ChecksumDetects`: what a validator's
  `Success` is worth.
- `EntriesExact`, `VerdictExact`, `VerdictRepeats`: a walk, also when it is called
  again after it ended.
- `FieldsAgree`: `AcpiDecode`, the managed parser and the structs of `ACPI.h` give the
  same fields for every length.
- `Released`, `DecodedWhole`, `ResultExact`: `AcpiDecode`. `ResultExact` says that
  the exit code is that of the tables taken up, and that all of them were, unless the
  directory could not be read on.

CPUID:
- `InfoFresh`, `VisitExact`: the cached registers, what is visited, and that all
  features of a leaf come from one execution.
- `SnapshotExact`, `FeatureExact`: the transport.
- `FeaturesAgree`: the two tables of 188 features, `CPUID.h` and the version.

Modules state their types in `TypeOK`; where the range of a variable is itself a
safety claim (nothing released twice, no offset wrapped) `TypeOK` is a conjunct
of the property that makes the claim.


## Proofs

The theorems hold for every value of the constants that satisfies the assumptions the
modules name: for every table, every set of byte values, every `SizeMax` and every
header size; those about strings for every region and every width of the counter;
those about SMBIOS fields for all metadata whose rows are well-formed and every
structure; those about ACPI fields for every set of signatures and tables of every
length; those about the CPUID visitor for every feature table that lists the features
of a leaf together, every processor and whatever it answers; those about the transport
for every number and size of records; those about the features printed for every
processor; those about the programs for every list or size of tables, before and
after, and every answer of the system.

| Theorem | Says |
|---|---|
| `SmbiosAgreementProofs!StreamSafe` | what `RecordStream` promises, read with the walk's cursor and list: records adjacent, inside, pairwise disjoint, none after a final one |
| `SmbiosAgreementProofs!TypeCorrect` | no cursor or size of the native walker leaves its range |
| `SmbiosAgreementProofs!NeverReadsOutside` | `[]MemorySafe` |
| `SmbiosAgreementProofs!ViewsAreExact` | `[]ViewExact` |
| `SmbiosAgreementProofs!VerdictsAreExact` | `[]VerdictExact` |
| `SmbiosAgreementProofs!WalkImplementsStream` | `SmbiosWalk` refines `RecordStream` |
| `SmbiosAgreementProofs!StructuresTile` | the structures delivered lie inside and are disjoint: `StreamSafe` carried over by the refinement |
| `SmbiosAgreementProofs!WalkIsUndisturbed` | the composition of both decoders is a walk like any other, so that the theorems above hold of it |
| `SmbiosAgreementProofs!ParserNeverThrows` | `[]NeverThrows`, for the managed parser |
| `SmbiosAgreementProofs!TablesAreExact`, `RefusalsAreExact` | `[]TableExact`, `[]RefusalExact` |
| `SmbiosAgreementProofs!DecodersAgree` | `[]SameAnswer`: native and managed decoder |
| `SmbiosAgreementProofs!ParserImplementsStream` | the managed parser refines `RecordStream` |
| `SmbiosStringsProofs!LookupIsExact`, `LookupsResolveAlike` | `[]LookupExact`, `[]LookupsAgree` |
| `SmbiosStringsProofs!PrinterShowsTheSame`, `PrinterIsContained` | `[]PrinterAgrees`, `[]PrinterStaysInside` |
| `SmbiosSourceProofs!EverythingIsReleased`, `DataIsWhole`, `VersionIsTrusted` | `[]Released`, `[]DataWhole`, `[]VersionTrusted`: the three invariants of `SmbiosDecode` |
| `AcpiDecodeProofs!NothingStaysHeld`, `OnlyWholeDecoded`, `ExitCodeTells` | `[]Released`, `[]DecodedWhole`, `[]ResultExact`: the three invariants of `AcpiDecode` |
| `AcpiDecodeProofs!AlikeRowsShowTheSame` | `[]FieldsAgree`, when the rows of both sides are alike |
| `SmbiosFieldsProofs!CopiesStayInside` | `[]CopiesInside` |
| `SmbiosFieldsProofs!ReadersShowTheSame` | `[]ReadersAgree` |
| `SmbiosFieldsProofs!CompleteMetadataShowsDeclared` | `[]DeclaredIsShown`, when the rows of each type have a place for each declared member |
| `SmbiosFieldsProofs!EnumeratedMetadataNamesDeclared` | `[]NamesExact`, when the rows of each enumeration have its declared values |
| `AcpiTableProofs!ValidatorsStayInside`, `OnlyWholeAccepted`, `OneVerdict` | `[]MemorySafe`, `[]AcceptedWhole`, `[]ValidatorsAgree` |
| `AcpiTableProofs!ChangesAreDetected` | `[]ChecksumDetects`: one changed byte is always noticed |
| `AcpiWalkProofs!AcpiTypeCorrect`, `AcpiNeverReadsOutside`, `EntriesAreExact`, `AcpiVerdictsAreExact` | the four invariants of the ACPI walkers |
| `AcpiWalkProofs!VerdictsRepeat` | a call after the end gives the same answer |
| `AcpiWalkProofs!AcpiWalkImplementsStream` | `AcpiWalk` refines `RecordStream` |
| `CpuidProofs!RegistersAreFresh` | `[]InfoFresh` |
| `CpuidProofs!VisitsAreExact` | `[]VisitExact` |
| `CpuidProofs!SnapshotsAreExact`, `FeaturesAreExact` | `[]SnapshotExact`, `[]FeatureExact` |
| `CpuidProofs!TablesAreTheSame` | the 188 rows of `CpuidFeatures.cs` are those of `CPUID.TypeInfo.h`, in their order |
| `CpuidProofs!DeclaredFeaturesAgree` | `[]FeaturesAgree`, when a row stands where each bit is declared |

*Assumptions.* Those the modules name; TLC evaluates each of them on the instances.
`SizeMax` and the bytes are naturals, `HeaderSize >= 2` (a header holds a type and a
length), a table's size and a caller's offsets are values of `size_t`. Nothing is
assumed about what the bytes are.

- `AgreementAssumption`: where both decoders see one table, it is smaller than
  `SIZE_MAX` and than `int.MaxValue`. Arrays are.
- `ModulusAssumption`: every byte is below the modulus of the sum (255 < 256).
- `LayoutAssumption`: in `AcpiTable`, the fields of the RSDP stand in the order the
  code relies on; in `AcpiFields`, rows are rows and the header has 36 bytes.
- `RowsAssumption`, `MachineAssumption` of `CpuidDecode`: a row names a bit of a
  register; a version field has the width the layout gives it.
- `SystemAssumption` of `AcpiSource`, `SourceAssumption` of `SmbiosSource`: the lists of
  tables are finite; sizes are integers (`st_size` is signed), a header is not empty, and
  a `size_t` holds at least its size.
- `RegionAssumption`: a region of strings is smaller than `SIZE_MAX`. Only the two
  theorems about the printer are about string sets, which end with two zeros.
- `MetadataAssumption`: no type twice, an integer has a size that can be printed, a
  bit-field lies inside the integer row it follows, ordinary rows in the order of
  their ends. TLC evaluates it on the real rows.

*Hypotheses about the tables.* Four theorems say what the code makes of tables that
agree with what they describe, and name that agreement as a hypothesis: `Complete` and
`Enumerated` of the rows of each type (SMBIOS), `RowsAlike` of each signature (ACPI),
`RowDeclared` of each bit and `FieldsDeclared` (CPUID). An offset or a bit position is a
sum over the members in front, a fold that TLC computes and the provers cannot unfold
a hundred times. The hypotheses range over finite tables, and TLC evaluates them on
all of the real ones: they are conjuncts of `DeclaredIsShown`, `NamesExact`,
`FieldsAgree` and `FeaturesAgree`, and the runs go through every type, signature and
bit. What the runs cannot go through is every length, version and processor, and the
loops that carry values from row to row: that is what the theorems are about.

*Argument for `SmbiosWalk`.* The inductive invariant is

    IInv == TypeOK /\ ReadsInside /\ ScanInv /\ ViewExact /\ VerdictExact

`ScanInv` is needed although it is no property a caller sees: the scan stops at a
double NUL, and only "no double NUL was passed so far" makes that one the first,
and makes `MissingTerminator` true when the scan falls off the end. The bounds
check `FirmwareBuffer_Get` gives `Offset + Length <= Size` without wrapping
(`GetFits`), so that the wrapping sums of the code are plain sums (`PlusFits`) from
there on. One lemma for each action shows that it preserves `IInv`.

*Argument for `SmbiosParse` and for the agreement.* The invariant has three layers:

    BothInv == IInv /\ ManagedInv /\ Chained /\ InTurn /\ Follows

`ManagedInv` is about the parser alone: its scan passed no double NUL (`FindInv`), a
structure of the end-of-table type is the last one (`FinalInv`), and it works on the
bytes the caller asks for (`RegionInv`). `Chained` is about the finished walk: every
structure is well-formed, has the size the format gives it, and ends where the next
one begins. `Follows` relates them: parsing the table the walker walked from offset
0, the parser's list is a prefix of the walk, and its cursor is where the walk's next
structure begins. It is the induction over the structures, told as an invariant. Each
step of the parser keeps it because the format determines the size of a structure
(`SizeUnique`) and a structure that is well-formed is not refused (`NotRefused`).
At the end, the parser has the whole walk and the same verdict, or has stopped at an
end-of-table structure. The parser is an instance, with its own copies of the
definitions of bytes and format; `SameBytes` and `SameFormat` say that both modules
mean the same by them.

*Argument for `SmbiosStrings`.* Three loops go from one string to the next.
`Reached(o)` says that `o` is the start of the region or follows a zero, and that
nothing but strings was passed; `Before(o)` is the number of strings before `o`. A
counter equals `Before + 1` and is at most the index while the lookup goes on, and
the index fits the counter's byte, so that the counter never wraps before it
matches. The printer's array holds at place `k` the string with number `k`, unless the
set begins with a lone zero (`Front`).

*Argument for `AcpiTable`.* `Rung(s)` says why `AcpiValidateTable` answers `s`: the
first check of its ladder that the bytes fail. `Judged`, that the answer is on its
rung, remains true while the managed parser, which climbs almost the same
ladder, is compared with it rung by rung.

For the checksum, `Sum8(b)[n]` adds the first `n` bytes as `uint8_t` does, with a
modulus of any size. `SumsDiffer` says of two buffers that differ in byte `i` alone:
their sums over `n` bytes are equal exactly when `n <= i`. It is proved by least
counterexample (`Least`, from the well-foundedness of the naturals): up to `i` the sums
have the same summands, at `i` they become different (`PlusInjective`: equal sums and
different bytes below the modulus), and from there on adding equal bytes keeps them
different (`PlusInjective` again). That
the recursive definition satisfies its equation (`SumEquation`) is proved in the same
way, from finite runs that exist and are unique (`RunExists`, `RunUnique`).

*Argument for `SmbiosSource` and `AcpiSource`.* `HeldInv` says what is held at each
place of the code: on Linux the descriptor is the table's until the first `close` and
the entry point's from the second `open` on, the buffer exists from its allocation to
the label that frees it. `ReadInv` says that the buffer has room for the envelope and the
size the file had, a sum the guards of `TooLarge` keep in a `size_t`, and that no more
was ever read; on Windows that the buffer has the size of the first answer until the
second one, which must be as large, fills it. For `AcpiDecode`,
`AcpiHeldInv` and `FillInv` say the same of the list, the file and the buffer, and
`TakenInv` that the tables before `Index` have an outcome, the others none yet,
`Result` tells whether one of them failed, and only a directory that cannot be read on
(`broken`) ends the walk between two tables.

*Argument for `AcpiFields`.* `FieldsInv` says that of the rows before `FieldIndex`
exactly those have been printed that can be read (`RowsBefore`), first of the header,
then of the table's own list. The native loop has no early end and the managed one
judges each row alone, so that with rows alike the printed numbers are the managed
fields. What the native reader needs beyond the bounds, a size it has a case for,
comes from `RowsAlike` (1, 2, 4 or 8), and the header's rows are in every table that
is accepted, since none is shorter than 36 bytes.

*Argument for `CpuidParse`.* `TakenInv` says that the loop has taken a prefix of the
records, that `offset` is their number times the size of a record, that `keys` holds
their packed keys, and that no two of them are the same. Packing is injective
(`PackExact`: of two numbers in base `Word` the digits are equal), so that a key in the
set was met before (`KeyMet`) and a refusal means that the transport has it twice.

*Argument for `AcpiWalk`.* `VerdictExact` carries `VerdictRepeats`: a call at a
cursor that deserves a status returns it, at most one status is deserved
(`RefusalUnique`), and a call that fails keeps `Position` although it may write
the cursor (`FailKeepsPosition`).

*Argument for `SmbiosFields`.* The printer and the managed readers take different
ways: the printer keeps the value of a bit-field and stops for good at the first
row beyond the structure; the managed side looks up the backing row the generator
chose and judges each row alone. The inductive invariant ties them together:

    IInv == /\ CopiesInside
            /\ in the loop: Known /\ InReach /\ Carried /\ Agreed
            /\ at the end: nothing shown of an unknown type, or
                           Agreed, and no row from Index on is one the managed side reads

`InReach` says the ordinary rows before `Index` lie inside the structure, so that the
bytes a bit-field takes from the row before it do; `Carried` that `BitField`, when it
holds something, is the row the generator chose; `Agreed` that what was shown so far
is what the managed readers give for the rows before `Index`. When the printer
stops, the rows after it reach at least as far (the order `WellFormed` asks for), so
the managed readers refuse them too, with the bit-fields among them.

`DeclaredIsShown` and `NamesExact` need more: that nothing the structure is long
enough for is missing. `ShowInv` says that what was shown so far are the places of all
rows before `Index`, and that at the end these are exactly the rows whose bytes the
structure has (`Reaches`): the rows before the one the loop stopped at reach less far
(`BeforeReaches`), those behind it as far (`BehindReaches`). `Complete` then turns
places of rows into declared places.

*Argument for `CpuidVisit`.* The probe of leaf 7 overwrites `Info` and leaves `Current`
as it was, so that `Info` belonging to `Current` is not invariant. What is (`Stale`):
either `Info` is the answer fetched last, or no feature from `Index` on is in the leaf
`Current` names. The probe keeps it because the leaf it interrupts needed no probe
itself, hence is another one, and does not come back in a table that lists leaves
together (`Together`). `Fetched` adds that a leaf asked for before is the one in
`Current`, which gives one execution for each leaf (`NotAsked`).

*Argument for `CpuidDecode`.* `DecodeInv` says that the rows printed are those before
`FeatureIndex` whose bit is set and within the leaves reported. A processor shows one
bit, and `RowDeclared` says that one row, if any, has its place, so that at the end
that row is printed and no other (`PrintedAtEnd`); the managed snapshot goes through
its own table, which is the same one (`TablesAreTheSame`). For the version, the six
fields are digits of one number in bases that differ: taking the digits out again
gives the fields back (`Digits`, `DivTwice`, `FieldsComeBack`), and the sums of the
display model and family fit the byte and the word they are kept in (`DisplayFits`).

*Refinement.* A step that delivers maps to `Deliver`, one that returns for the
first time to `Stop`, any other (a byte scanned, a repeated call) to a stutter.

The lemmas about the primitives (what a byte is, when a sum does not wrap, what a
successful `FirmwareBuffer_Get` guarantees) stand at the head of the modules that use
them.

*Model-checked only.*

- `Terminates`, twice: liveness under fairness is beyond TLAPS.
- That the real tables meet the hypotheses above: TLC evaluates them on every row there
  is.


## Limits

Abstractions:

- A field is the bytes and bits it is read from; the number they make and its
  text (hexadecimal, decimal, UUID dashes) are left out. The walkers see bodies as
  bytes without meaning.
- A region is smaller than `SIZE_MAX`, and a managed array shorter than
  `int.MaxValue` (`Memory` in `SmbiosParse`): .NET arrays are. With a length of
  `int.MaxValue` the scan's `index + 1` would wrap.
- On Windows the `Length` of the envelope is any `DWORD`, as in the code, and the walk
  over it is a single step: that it stays inside the buffer is stated of envelopes that
  fit in their own table (`EnvelopeFits`).
- In `CpuidVisit` registers and bits are abstracted to "the features whose bits are
  set", chosen afresh for each execution: the thread may have moved.
- `CpuidVisit` assumes that the table lists the features of one leaf and subleaf
  together; otherwise a leaf would be executed twice. `GroupAssumption` of
  `CpuidDecode` states it of the real table, and TLC evaluates it there.

One thing contradicts a comment of the repository. `CommentedIsNamed` says that a
member whose comment in `SMBIOS.h` names an enumeration is shown with the name of
its value. Run `smbios_comments` refutes it: the rows of type 28 define Location and
Status of a temperature probe as plain integers (`SMBIOS.TypeInfo.h` 1641-1642),
where `SMBIOS.h` 2166-2167 names `SMBIOS_TEMPERATURE_PROBE_LOCATION_*` and
`SMBIOS_PROBE_STATUS_*`. The same holds of Location of type 29 (1656; `SMBIOS.h` 2206)
and Device Chemistry of type 22 (1507; `SMBIOS.h` 1949). The number shown is right;
its name is missing.

What else the models made visible, none of it contradicting a document:

- `GetSmbiosTableData` on Linux leaves the descriptor of the entry point open when
  it succeeds (`SmbiosDecode.c` 173-174); the process ends soon after. `Released`
  says exactly that.
- The printer takes a lone leading zero for an empty string, the lookups for the
  end of the set: the precondition of `PrinterAgrees`.
- A table shorter than the minimum for its signature is refused by native code and
  accepted, given a correct checksum, by managed code: `ValidatorsAgree` states
  the exception.
- The native walker does not stop at an end-of-table structure; what follows it is
  delivered or reported, while the managed parser succeeds: `SameVerdict`.
- On Linux `AcpiDecode` exits with 0 when the directory of tables is missing, and takes
  an error of `readdir` for the end of the directory (`AcpiDecode.c` 220): the tables
  not yet taken up are left out and the exit code is that of the others.
- `SmbiosDecode` on Windows refuses only a table of size 0 (`SmbiosDecode.c` 27-33) and
  walks the `Length` the envelope claims (424-425) without comparing it with the size
  the system returned.

Not modelled, and why:

- the text printed, the descriptions of rows and tables, `PrintSignature` and
  `GetVendorId`: copies and formats without a decision;
- `SmbiosMetadata.g.cs`: the output of the generator, which is modelled by what it
  makes of the native rows;
- the structs of MADT and MCFG entries in `ACPI.h`: no code of the repository uses
  them;
- tests and build files: their inputs are among those the models enumerate.


## Plan

Every component with behaviour is modelled and every safety property the runs check is
proved. What could follow: proving the hypotheses about the tables, which needs provers
that compute offsets; and keeping layouts and rows in step with the headers, where a
new structure, table or feature is a new row of a module here and the runs say whether
it fits.
