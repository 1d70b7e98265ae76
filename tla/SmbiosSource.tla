---------------------------- MODULE SmbiosSource ----------------------------
(***************************************************************************)
(* Where SmbiosDecode.c gets its table from, and main around it.  On Linux *)
(* GetSmbiosTableData reads two sysfs files one after the other through    *)
(* the same variable fd and leaves through the labels _exit_2, _exit_1 and *)
(* _exit_0, which fall into one another; on Windows it asks the firmware   *)
(* twice, for the size and for the bytes.  Every call of the operating     *)
(* system may fail, a read may return less than it was asked for, the      *)
(* table may change between the calls, and the Length in the envelope the  *)
(* Windows firmware fills in may be any DWORD: nothing compares it.        *)
(*                                                                         *)
(* A definition marked "a bug" is no part of the specification: it is a    *)
(* mistake the code could contain in place of the definition after it.     *)
(***************************************************************************)
EXTENDS Integers, FiniteSets

CONSTANTS
  Sizes,        \* the sizes a table, or an entry point's claim, may have;
                \* st_size is signed
  UInt32Max,    \* the largest DWORD
  SizeMaxes,    \* SIZE_MAX of the builds: the largest DWORD, or far more
  Header,       \* sizeof(SMBIOS_RAW_DATA), 8
  AnchorSize    \* the bytes the anchor is recognised by, 5

ASSUME SourceAssumption ==
  /\ Sizes \subseteq Int
  /\ UInt32Max \in Nat
  /\ Header \in Nat \ {0}
  /\ \A max \in SizeMaxes : max \in Nat /\ Header <= max
  /\ AnchorSize \in Nat \ {0}

VARIABLES
  Platform, SizeMax,           \* the build
  Reported, Actual,            \* the size asked for, the size there is
  Anchor, Declared,            \* the entry point: its kind and table size
  Claimed,                     \* the Length in the envelope of Windows
  fds, buffers,                \* descriptors open, buffers allocated
  allocated,                   \* the size of the buffer
  size, i,                     \* the bytes read into it, and by the last read
  position,                    \* file position of the entry point
  Data,                        \* *Data, NoData until it is written
  pc

world == <<Platform, SizeMax, Reported, Actual, Anchor, Declared, Claimed>>
vars == <<world, fds, buffers, allocated, size, i, position, Data, pc>>

NoData == [Null |-> TRUE, Length |-> 0, DmiRevision |-> 0, EntryFrom |-> 0]

(* Linux: off_t, and an entry point.  Windows: UINT, and an envelope.      *)
LinuxWorld ==
  /\ Platform = "linux" /\ SizeMax \in SizeMaxes
  /\ Reported \in Sizes /\ Actual \in Sizes \cap Nat
  /\ Anchor \in {"_SM3_", "_SM_", "other"}
  /\ Declared \in Sizes \cap (0 .. UInt32Max)
  /\ Claimed = 0

WindowsWorld ==
  /\ Platform = "windows" /\ SizeMax \in SizeMaxes
  /\ Reported \in Sizes \cap (0 .. UInt32Max)
  /\ Actual \in Sizes \cap (0 .. UInt32Max)
  /\ Anchor = "other" /\ Declared = 0
  /\ Claimed \in 0 .. UInt32Max

Init ==
  /\ LinuxWorld \/ WindowsWorld
  /\ fds = 0 /\ buffers = 0 /\ allocated = 0
  /\ size = 0 /\ i = 0 /\ position = 0
  /\ Data = NoData
  /\ pc = "start"

Go(next) == pc' = next /\ UNCHANGED <<world, allocated, size, i, position, Data>>

-----------------------------------------------------------------------------
(* The ways out of the Linux function, from the innermost label outwards,  *)
(* and those that release what they hold themselves.                       *)
ReturnFalse == Go("nodata") /\ UNCHANGED <<fds, buffers>>
Exit0 == Go("nodata") /\ fds' = fds - 1 /\ UNCHANGED buffers
Exit1 == Go("nodata") /\ fds' = fds - 1 /\ buffers' = buffers - 1
Exit2 == Exit1
CloseAgain == Exit1                                     \* a bug
FreeOnly == Go("nodata") /\ buffers' = buffers - 1 /\ UNCHANGED fds

Linux(at) == Platform = "linux" /\ pc = at

CannotOpen == Linux("start") /\ ReturnFalse
OpenTable == Linux("start") /\ Go("stat") /\ fds' = fds + 1 /\ UNCHANGED buffers

OnlyDword == Reported < 0 \/ Reported > UInt32Max       \* a bug
TooLarge ==
  Reported < 0 \/ Reported > UInt32Max \/ Reported > SizeMax - Header
CannotStat == Linux("stat") /\ Exit0           \* fstat or malloc fails
RefuseSize == Linux("stat") /\ TooLarge /\ Exit0

(* The sum is a size_t when malloc gets it, wherever it was kept.          *)
Allocate ==
  /\ Linux("stat") /\ ~TooLarge
  /\ buffers' = buffers + 1
  /\ allocated' = (Header + Reported) % (SizeMax + 1)
  /\ pc' = "read"
  /\ UNCHANGED <<world, fds, size, i, position, Data>>

WholeAgain == Reported                                  \* a bug
Request == Reported - size
Remaining == IF size < Actual THEN Actual - size ELSE 0
Readable == 0 .. (IF Request < Remaining THEN Request ELSE Remaining)

CannotRead == Linux("read") /\ Exit1

(* read: at least one byte unless the file, or the request, is at its end. *)
ReadSome ==
  /\ Linux("read")
  /\ i' \in IF Readable = {0} THEN {0} ELSE Readable \ {0}
  /\ size' = size + i'
  /\ pc' = "more"
  /\ UNCHANGED <<world, fds, buffers, allocated, position, Data>>

AgainOnZero == i >= 0                                   \* a bug
Again == i > 0

ReadAgain == Linux("more") /\ Again /\ Go("read") /\ UNCHANGED <<fds, buffers>>

SizeRight == size = Reported

ReadTooLittle == Linux("more") /\ ~Again /\ ~SizeRight /\ Exit1

CloseTable ==
  /\ Linux("more") /\ ~Again /\ SizeRight
  /\ Go("reopen")
  /\ fds' = fds - 1
  /\ UNCHANGED buffers

CannotReopenExit == FreeOnly
CannotReopen == Linux("reopen") /\ CannotReopenExit
OpenEntryPoint ==
  Linux("reopen") /\ Go("anchor") /\ fds' = fds + 1 /\ UNCHANGED buffers

CannotReadAnchor == Linux("anchor") /\ Exit2

ReadAnchor ==
  /\ Linux("anchor")
  /\ i' = AnchorSize /\ position' = AnchorSize
  /\ pc' = "entry"
  /\ UNCHANGED <<world, fds, buffers, allocated, size, Data>>

UnknownAnchor == Linux("entry") /\ Anchor = "other" /\ Exit2
CannotReadEntry == Linux("entry") /\ Anchor # "other" /\ Exit2

NoSeek == position                                      \* a bug
Sought == 0                                    \* lseek(fd, 0, SEEK_SET)

SizeAgrees ==
  IF Anchor = "_SM3_" THEN Reported <= Declared ELSE Reported = Declared

RefuseEntry ==
  Linux("entry") /\ Anchor # "other" /\ ~SizeAgrees /\ Exit2

(* The descriptor of the entry point is not closed on success.             *)
GetSmbiosTableData ==
  /\ Linux("entry") /\ Anchor # "other" /\ SizeAgrees
  /\ Data' = [ Null        |-> FALSE,
               Length      |-> Reported % (UInt32Max + 1),
               DmiRevision |-> IF Anchor = "_SM3_" THEN 3 ELSE 2,
               EntryFrom   |-> Sought ]
  /\ pc' = "decode"
  /\ UNCHANGED <<world, fds, buffers, allocated, size, i, position>>

-----------------------------------------------------------------------------
Windows(at) == Platform = "windows" /\ pc = at

(* GetSystemFirmwareTable reports no table, or malloc fails.               *)
NoTable == Windows("start") /\ ReturnFalse

(* The answer counts the envelope.  Only 0 is refused: a size the envelope *)
(* alone does not fit in is asked for again like any other.                *)
AllocateTable ==
  /\ Windows("start") /\ Reported # 0
  /\ buffers' = buffers + 1
  /\ allocated' = Reported
  /\ pc' = "get"
  /\ UNCHANGED <<world, fds, size, i, position, Data>>

(* The second call fails, or the table is another size by now.             *)
GetNothing == Windows("get") /\ FreeOnly
AnySize == TRUE                                         \* a bug
SameSize == Actual = Reported
GetOther == Windows("get") /\ ~SameSize /\ FreeOnly

(* A table the buffer is too small for is not written at all.              *)
Fetched == IF Actual <= allocated THEN Actual ELSE 0

(* Length is where the envelope is, whatever it says: the firmware's, or   *)
(* what memory holds there when the bytes written do not reach that far.   *)
GetTable ==
  /\ Windows("get") /\ SameSize
  /\ size' = Fetched
  /\ Data' = [Null |-> FALSE, Length |-> Claimed, DmiRevision |-> 0, EntryFrom |-> 0]
  /\ pc' = "decode"
  /\ UNCHANGED <<world, fds, buffers, allocated, i, position>>

-----------------------------------------------------------------------------
(* main: ENODATA, or the walk over Data->Length bytes and free(Data).      *)
ReturnNoData == pc = "nodata" /\ Go("exit") /\ UNCHANGED <<fds, buffers>>

Decode ==
  pc = "decode" /\ Go("exit") /\ buffers' = buffers - 1 /\ UNCHANGED fds

Next ==
  \/ CannotOpen \/ OpenTable \/ CannotStat \/ RefuseSize \/ Allocate
  \/ CannotRead \/ ReadSome \/ ReadAgain \/ ReadTooLittle \/ CloseTable
  \/ CannotReopen \/ OpenEntryPoint
  \/ CannotReadAnchor \/ ReadAnchor
  \/ UnknownAnchor \/ CannotReadEntry \/ RefuseEntry \/ GetSmbiosTableData
  \/ NoTable \/ AllocateTable \/ GetNothing \/ GetOther \/ GetTable
  \/ ReturnNoData \/ Decode

Spec == Init /\ [][Next]_vars

(* One thread; every system call returns.                                  *)
FairSpec == Spec /\ WF_vars(Next)

-----------------------------------------------------------------------------
TypeOK ==
  /\ Platform \in {"linux", "windows"}
  /\ SizeMax \in SizeMaxes
  /\ Reported \in Sizes /\ {Actual, Declared} \subseteq Nat
  /\ Claimed \in 0 .. UInt32Max
  /\ Anchor \in {"_SM3_", "_SM_", "other"}
  /\ fds \in 0 .. 1 /\ buffers \in 0 .. 1
  /\ {allocated, size, i, position} \subseteq Nat
  /\ Data \in [Null : BOOLEAN, Length : 0 .. UInt32Max, DmiRevision : {0, 2, 3},
              EntryFrom : Nat]
  /\ pc \in {"start", "stat", "read", "more", "reopen", "anchor", "entry", "get",
             "nodata", "decode", "exit"}

(* Whatever fails and wherever, the buffer is released; the only           *)
(* descriptor left is the one of the entry point, and only when the table  *)
(* was obtained: it lives until the process ends.  Nothing is released     *)
(* twice (the counts of TypeOK).                                           *)
Released ==
  /\ TypeOK
  /\ pc = "exit" => buffers = 0
  /\ pc \in {"nodata", "exit"} /\ Data = NoData => fds = 0 /\ buffers = 0

(* The bytes written to the buffer.  What Windows returns has the envelope *)
(* in front, what Linux reads is put behind it.                            *)
Written == IF Platform = "linux" THEN Header + size ELSE size

(* The envelope of Windows claims no more than comes with it.              *)
EnvelopeFits == Platform = "windows" => Header + Claimed <= Actual

(* The buffer is filled from the front and never past its end, in however  *)
(* many pieces the table comes, however long the file is or the table has  *)
(* become, and whatever their sum with the envelope is in a size_t.  What  *)
(* main decodes is filled to its last byte; on Linux the length it walks   *)
(* is the number of bytes read, and on Windows, where it walks what the    *)
(* envelope claims, it stays inside what was written if the firmware's own *)
(* envelope fits in the firmware's own table.                              *)
DataWhole ==
  /\ buffers = 1 => Written <= allocated
  /\ pc = "decode" =>
       /\ Written = allocated
       /\ Platform = "linux" => Data.Length = size
       /\ EnvelopeFits => Header + Data.Length <= Written

(* The version comes from an entry point that was recognised, was read     *)
(* from its first byte although the anchor was read before, and claims a   *)
(* table that the one read can be.                                         *)
VersionTrusted ==
  pc = "decode" /\ Platform = "linux" =>
    /\ Anchor # "other"
    /\ Data.EntryFrom = 0
    /\ Data.DmiRevision = 3 <=> Anchor = "_SM3_"
    /\ Reported <= Declared

(* The program ends: a read that returns nothing ends the loop.            *)
Terminates == <>(pc = "exit")

=============================================================================
