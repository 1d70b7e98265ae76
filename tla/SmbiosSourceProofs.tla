------------------------- MODULE SmbiosSourceProofs -------------------------
(***************************************************************************)
(* How SmbiosDecode gets its table from the operating system: all it holds *)
(* is released, whatever fails, it decodes nothing it has not read, and    *)
(* the version it goes by is one it has recognised.                        *)
(*                                                                         *)
(* The invariant says what is held at each place of the code, which is     *)
(* what a reader has to know of the labels _exit_2, _exit_1 and _exit_0:   *)
(* how the code may leave from where.                                      *)
(***************************************************************************)
EXTENDS SmbiosSource, TLAPS

Places == {"start", "stat", "read", "more", "reopen", "anchor", "entry", "get",
           "nodata", "decode", "exit"}

DataType == [Null : BOOLEAN, Length : 0 .. UInt32Max, DmiRevision : {0, 2, 3},
             EntryFrom : Nat]

(* The descriptor is the table's up to the first close and the entry       *)
(* point's from the second open on; it outlives main only with a table.    *)
HeldInv ==
  /\ pc \notin {"decode", "exit"} =>
       fds = IF pc \in {"stat", "read", "more", "anchor", "entry"} THEN 1 ELSE 0
  /\ fds = 1 => Platform = "linux"
  /\ buffers = IF pc \in {"read", "more", "reopen", "anchor", "entry", "get",
                           "decode"} THEN 1 ELSE 0
  /\ pc \in Places \ {"decode", "exit"} => Data = NoData
  /\ pc = "decode" => Data # NoData
  /\ pc = "exit" /\ Data = NoData => fds = 0

(* On Linux the buffer has room for the envelope and the size the file had *)
(* when it was looked at, which with the envelope fits in a size_t, and no *)
(* more than that is ever read.  On Windows it has the size of the first   *)
(* answer until the second one fills it.                                   *)
ReadInv ==
  /\ pc \in {"start", "stat", "get"} => size = 0
  /\ pc \in {"stat", "read", "more", "reopen", "anchor", "entry"} =>
       Platform = "linux"
  /\ pc = "get" => Platform = "windows" /\ allocated = Reported
  /\ Platform = "windows" => Reported \in Nat
  /\ Platform = "linux" /\ buffers = 1 =>
       /\ Reported \in 0 .. UInt32Max /\ Reported <= SizeMax - Header
       /\ allocated = Header + Reported /\ size <= Reported
  /\ Platform = "linux" /\ pc \in {"reopen", "anchor", "entry", "decode"} =>
       size = Reported

IInv == TypeOK /\ HeldInv /\ ReadInv /\ DataWhole /\ VersionTrusted

-----------------------------------------------------------------------------
LEMMA InitIInv == Init => IInv
<1> SUFFICES ASSUME Init PROVE IInv
  OBVIOUS
<1>1. NoData \in DataType
  BY SourceAssumption DEF NoData, DataType
<1>2. /\ Platform \in {"linux", "windows"} /\ SizeMax \in SizeMaxes
      /\ Reported \in Sizes /\ {Actual, Declared} \subseteq Nat
      /\ Claimed \in 0 .. UInt32Max
      /\ Anchor \in {"_SM3_", "_SM_", "other"}
      /\ Platform = "windows" => Reported \in Nat
  BY SourceAssumption DEF Init, LinuxWorld, WindowsWorld
<1>3. TypeOK
  BY <1>1, <1>2 DEF Init, TypeOK, DataType
<1> QED
  BY <1>2, <1>3 DEF Init, IInv, HeldInv, ReadInv, DataWhole, VersionTrusted

LEMMA SizeFacts ==
  ASSUME TypeOK
  PROVE  /\ {Actual, Declared, Claimed, Header, AnchorSize, UInt32Max, SizeMax,
             allocated, size, i, position} \subseteq Nat
         /\ Reported \in Int /\ Header >= 1 /\ Header <= SizeMax
<1>1. /\ {Header, AnchorSize, UInt32Max} \subseteq Nat /\ Header >= 1
      /\ Sizes \subseteq Int
      /\ \A max \in SizeMaxes : max \in Nat /\ Header <= max
  BY SourceAssumption
<1>2. /\ Reported \in Sizes /\ SizeMax \in SizeMaxes
      /\ {Actual, Declared, allocated, size, i, position} \subseteq Nat
      /\ Claimed \in 0 .. UInt32Max
  BY DEF TypeOK
<1>3. Claimed \in Nat
  BY <1>1, <1>2
<1> QED
  BY <1>1, <1>2, <1>3

(* A step to a place where no data is decoded, with what is held there and *)
(* the sizes as they were, keeps the invariant.                            *)
LEMMA GoIInv ==
  ASSUME IInv, NEW next \in Places \ {"decode", "start", "get"}, Go(next),
         fds' \in 0 .. 1, buffers' \in 0 .. 1,
         HeldInv',
         ~(next \in {"stat", "read", "more", "reopen", "anchor", "entry"}
           /\ Platform = "windows"),
         next = "stat" => size = 0,
         buffers' = 1 => buffers = 1,
         next \in {"reopen", "anchor", "entry"} => size = Reported
  PROVE  IInv'
<1>1. pc' = next /\ UNCHANGED <<world, allocated, size, i, position, Data>>
  BY DEF Go
<1>2. UNCHANGED <<Platform, SizeMax, Reported, Actual, Anchor, Declared, Claimed>>
  BY <1>1 DEF world
<1>3. TypeOK'
  BY <1>1, <1>2 DEF IInv, TypeOK, Places
<1>4. ReadInv'
  BY <1>1, <1>2 DEF IInv, TypeOK, ReadInv, Places
<1>5. DataWhole' /\ VersionTrusted'
  BY <1>1, <1>2 DEF IInv, TypeOK, DataWhole, Written, VersionTrusted, Places
<1> QED
  BY <1>3, <1>4, <1>5 DEF IInv

(* The ways out: each is taken from a place where exactly what it releases *)
(* is held.                                                                *)
LEMMA ExitsIInv ==
  ASSUME IInv,
         \/ pc = "start" /\ ReturnFalse
         \/ pc = "stat" /\ Exit0
         \/ pc \in {"read", "more", "anchor", "entry"} /\ Exit1
         \/ pc \in {"reopen", "get"} /\ FreeOnly
  PROVE  IInv'
<1>1. ASSUME NEW f, NEW b, fds' = f, buffers' = b, f = 0, b = 0,
             Go("nodata"), Data = NoData
      PROVE  IInv'
  <2>1. pc' = "nodata" /\ Data' = NoData /\ fds' = 0 /\ buffers' = 0
    BY <1>1 DEF Go
  <2>2. HeldInv'
    BY <2>1 DEF HeldInv
  <2> QED
    BY <1>1, <2>1, <2>2, GoIInv DEF Places
<1>2. fds \in 0 .. 1 /\ buffers \in 0 .. 1
  BY DEF IInv, TypeOK
<1>3. CASE pc = "start" /\ ReturnFalse
  BY <1>1, <1>2, <1>3 DEF ReturnFalse, IInv, HeldInv, Places
<1>4. CASE pc = "stat" /\ Exit0
  BY <1>1, <1>2, <1>4 DEF Exit0, IInv, HeldInv, Places
<1>5. CASE pc \in {"read", "more", "anchor", "entry"} /\ Exit1
  BY <1>1, <1>2, <1>5 DEF Exit1, IInv, HeldInv, Places
<1>6. CASE pc \in {"reopen", "get"} /\ FreeOnly
  BY <1>1, <1>2, <1>6 DEF FreeOnly, IInv, HeldInv, Places
<1> QED
  BY <1>3, <1>4, <1>5, <1>6

LEMMA WaysOutIInv ==
  ASSUME IInv,
         CannotOpen \/ CannotStat \/ RefuseSize \/ CannotRead \/ ReadTooLittle
         \/ CannotReopen \/ CannotReadAnchor \/ UnknownAnchor \/ CannotReadEntry
         \/ RefuseEntry \/ NoTable \/ GetNothing \/ GetOther
  PROVE  IInv'
BY ExitsIInv
   DEF CannotOpen, CannotStat, RefuseSize, CannotRead, ReadTooLittle, CannotReopen,
       CannotReopenExit, CannotReadAnchor, UnknownAnchor, CannotReadEntry,
       RefuseEntry, NoTable, GetNothing, GetOther, Linux, Windows, Exit2

-----------------------------------------------------------------------------
(* The table is opened, read in pieces, and closed.                        *)
LEMMA OpenTableIInv == IInv /\ OpenTable => IInv'
<1> SUFFICES ASSUME IInv, OpenTable PROVE IInv'
  OBVIOUS
<1>1. /\ Platform = "linux" /\ pc = "start" /\ Go("stat")
      /\ fds' = fds + 1 /\ buffers' = buffers
  BY DEF OpenTable, Linux
<1>2. fds = 0 /\ buffers = 0 /\ Data = NoData /\ size = 0
  BY <1>1 DEF IInv, HeldInv, ReadInv, Places
<1>3. HeldInv'
  BY <1>1, <1>2 DEF Go, world, HeldInv, Places
<1> QED
  BY <1>1, <1>2, <1>3, GoIInv DEF Places

LEMMA AllocateIInv == IInv /\ Allocate => IInv'
<1> SUFFICES ASSUME IInv, Allocate PROVE IInv'
  OBVIOUS
<1>1. /\ Platform = "linux" /\ pc = "stat"
      /\ ~(Reported < 0) /\ ~(Reported > UInt32Max) /\ ~(Reported > SizeMax - Header)
      /\ buffers' = buffers + 1 /\ pc' = "read"
      /\ allocated' = (Header + Reported) % (SizeMax + 1)
      /\ UNCHANGED <<Platform, SizeMax, Reported, Actual, Anchor, Declared, Claimed>>
      /\ UNCHANGED <<fds, size, i, position, Data>>
  BY DEF Allocate, Linux, TooLarge, world
<1>2. fds = 1 /\ buffers = 0 /\ Data = NoData /\ size = 0
  BY <1>1 DEF IInv, HeldInv, ReadInv, Places
<1>3. /\ Reported \in 0 .. UInt32Max /\ Header \in Nat /\ SizeMax \in Nat
      /\ Reported <= SizeMax - Header
  BY <1>1, SizeFacts DEF IInv
<1>4. allocated' = Header + Reported /\ allocated' \in Nat
  <2>1. \A m \in Nat : \A x \in 0 .. m : x % (m + 1) = x
    OBVIOUS
  <2>2. Header + Reported \in 0 .. SizeMax
    BY <1>3
  <2> QED
    BY <1>1, <1>3, <2>1, <2>2
<1>5. TypeOK'
  BY <1>1, <1>2, <1>4 DEF IInv, TypeOK
<1>6. HeldInv' /\ ReadInv'
  BY <1>1, <1>2, <1>3, <1>4 DEF HeldInv, ReadInv, Places
<1>7. DataWhole' /\ VersionTrusted'
  BY <1>1, <1>2, <1>3, <1>4 DEF DataWhole, Written, VersionTrusted
<1> QED
  BY <1>5, <1>6, <1>7 DEF IInv

(* A read asks for no more than is missing: Request.                       *)
LEMMA ReadSomeIInv == IInv /\ ReadSome => IInv'
<1> SUFFICES ASSUME IInv, ReadSome PROVE IInv'
  OBVIOUS
<1>1. /\ Platform = "linux" /\ pc = "read" /\ pc' = "more"
      /\ i' \in Readable \cup {0} /\ size' = size + i'
      /\ UNCHANGED <<Platform, SizeMax, Reported, Actual, Anchor, Declared, Claimed>>
      /\ UNCHANGED <<fds, buffers, allocated, position, Data>>
  BY DEF ReadSome, Linux, world
<1>2. /\ fds = 1 /\ buffers = 1 /\ Data = NoData
      /\ Reported \in 0 .. UInt32Max /\ Reported <= SizeMax - Header
      /\ allocated = Header + Reported /\ size <= Reported
  BY <1>1 DEF IInv, HeldInv, ReadInv, Places
<1>3. {Actual, UInt32Max, Header, allocated, size} \subseteq Nat /\ Reported \in Nat
  BY <1>2, SizeFacts DEF IInv
<1>4. i' \in Nat /\ size' \in Nat /\ size' <= Reported
  BY <1>1, <1>2, <1>3 DEF Readable, Request, Remaining
<1>5. TypeOK'
  BY <1>1, <1>4 DEF IInv, TypeOK
<1>6. HeldInv' /\ ReadInv'
  BY <1>1, <1>2, <1>4 DEF HeldInv, ReadInv, Places
<1>7. DataWhole' /\ VersionTrusted'
  BY <1>1, <1>2, <1>3, <1>4 DEF DataWhole, Written, VersionTrusted
<1> QED
  BY <1>5, <1>6, <1>7 DEF IInv

LEMMA ReadAgainIInv == IInv /\ ReadAgain => IInv'
<1> SUFFICES ASSUME IInv, ReadAgain PROVE IInv'
  OBVIOUS
<1>1. /\ Platform = "linux" /\ pc = "more" /\ Go("read")
      /\ fds' = fds /\ buffers' = buffers
  BY DEF ReadAgain, Linux
<1>2. fds = 1 /\ buffers = 1 /\ Data = NoData
  BY <1>1 DEF IInv, HeldInv, Places
<1>3. HeldInv'
  BY <1>1, <1>2 DEF Go, world, HeldInv, Places
<1> QED
  BY <1>1, <1>2, <1>3, GoIInv DEF Places

LEMMA CloseTableIInv == IInv /\ CloseTable => IInv'
<1> SUFFICES ASSUME IInv, CloseTable PROVE IInv'
  OBVIOUS
<1>1. /\ Platform = "linux" /\ pc = "more" /\ size = Reported /\ Go("reopen")
      /\ fds' = fds - 1 /\ buffers' = buffers
  BY DEF CloseTable, Linux, SizeRight
<1>2. fds = 1 /\ buffers = 1 /\ Data = NoData
  BY <1>1 DEF IInv, HeldInv, Places
<1>3. HeldInv'
  BY <1>1, <1>2 DEF Go, world, HeldInv, Places
<1> QED
  BY <1>1, <1>2, <1>3, GoIInv DEF Places

-----------------------------------------------------------------------------
(* The entry point is opened with the same variable and never closed when  *)
(* it is good.                                                             *)
LEMMA OpenEntryPointIInv == IInv /\ OpenEntryPoint => IInv'
<1> SUFFICES ASSUME IInv, OpenEntryPoint PROVE IInv'
  OBVIOUS
<1>1. /\ Platform = "linux" /\ pc = "reopen" /\ Go("anchor")
      /\ fds' = fds + 1 /\ buffers' = buffers
  BY DEF OpenEntryPoint, Linux
<1>2. fds = 0 /\ buffers = 1 /\ Data = NoData /\ size = Reported
  BY <1>1 DEF IInv, HeldInv, ReadInv, Places
<1>3. HeldInv'
  BY <1>1, <1>2 DEF Go, world, HeldInv, Places
<1> QED
  BY <1>1, <1>2, <1>3, GoIInv DEF Places

LEMMA ReadAnchorIInv == IInv /\ ReadAnchor => IInv'
<1> SUFFICES ASSUME IInv, ReadAnchor PROVE IInv'
  OBVIOUS
<1>1. /\ Platform = "linux" /\ pc = "anchor" /\ pc' = "entry"
      /\ i' = AnchorSize /\ position' = AnchorSize
      /\ UNCHANGED <<Platform, SizeMax, Reported, Actual, Anchor, Declared, Claimed>>
      /\ UNCHANGED <<fds, buffers, allocated, size, Data>>
  BY DEF ReadAnchor, Linux, world
<1>2. /\ fds = 1 /\ buffers = 1 /\ Data = NoData /\ size = Reported
      /\ Reported \in 0 .. UInt32Max /\ allocated = Header + Reported
  BY <1>1 DEF IInv, HeldInv, ReadInv, Places
<1>3. TypeOK'
  BY <1>1, SizeFacts DEF IInv, TypeOK
<1>4. HeldInv' /\ ReadInv'
  BY <1>1, <1>2 DEF IInv, HeldInv, ReadInv, Places
<1>5. DataWhole' /\ VersionTrusted'
  BY <1>1, <1>2 DEF IInv, DataWhole, Written, VersionTrusted
<1> QED
  BY <1>3, <1>4, <1>5 DEF IInv

(* Length is a DWORD, which the size was checked to fit.                   *)
LEMMA GetSmbiosTableDataIInv == IInv /\ GetSmbiosTableData => IInv'
<1> SUFFICES ASSUME IInv, GetSmbiosTableData PROVE IInv'
  OBVIOUS
<1> DEFINE length == Reported % (UInt32Max + 1)
           revision == IF Anchor = "_SM3_" THEN 3 ELSE 2
<1>1. /\ Platform = "linux" /\ pc = "entry" /\ Anchor # "other" /\ SizeAgrees
      /\ Data' = [Null |-> FALSE, Length |-> length, DmiRevision |-> revision,
                   EntryFrom |-> 0]
      /\ pc' = "decode"
      /\ UNCHANGED <<Platform, SizeMax, Reported, Actual, Anchor, Declared, Claimed>>
      /\ UNCHANGED <<fds, buffers, allocated, size, i, position>>
  BY DEF GetSmbiosTableData, Linux, world, Sought
<1>2. /\ fds = 1 /\ buffers = 1 /\ size = Reported
      /\ Reported \in 0 .. UInt32Max /\ allocated = Header + Reported
  BY <1>1 DEF IInv, HeldInv, ReadInv, Places
<1>3. {Declared, UInt32Max, Header, allocated, size} \subseteq Nat /\ Reported \in Nat
  BY <1>2, SizeFacts DEF IInv
<1>4. length = Reported
  BY <1>2, <1>3
<1>5. revision \in {2, 3} /\ (revision = 3 <=> Anchor = "_SM3_")
  OBVIOUS
<1>6. /\ Data'.Length = Reported /\ Data'.DmiRevision = revision
      /\ Data'.EntryFrom = 0
      /\ Data' \in DataType /\ Data' # NoData
  BY <1>1, <1>2, <1>3, <1>4, <1>5 DEF DataType, NoData
<1>7. Reported <= Declared
  BY <1>1, <1>3 DEF SizeAgrees
<1> HIDE DEF length, revision
<1>8. TypeOK'
  BY <1>1, <1>6 DEF IInv, TypeOK, DataType
<1>9. HeldInv' /\ ReadInv'
  BY <1>1, <1>2, <1>6 DEF IInv, HeldInv, ReadInv, Places
<1>10. DataWhole' /\ VersionTrusted'
  BY <1>1, <1>2, <1>3, <1>5, <1>6, <1>7 DEF DataWhole, Written, VersionTrusted
<1> QED
  BY <1>8, <1>9, <1>10 DEF IInv

-----------------------------------------------------------------------------
(* Windows: the buffer is as long as the first answer, and the second one  *)
(* fills it or is refused, whatever the envelope claims.                   *)
LEMMA AllocateTableIInv == IInv /\ AllocateTable => IInv'
<1> SUFFICES ASSUME IInv, AllocateTable PROVE IInv'
  OBVIOUS
<1>1. /\ Platform = "windows" /\ pc = "start"
      /\ buffers' = buffers + 1 /\ allocated' = Reported /\ pc' = "get"
      /\ UNCHANGED <<Platform, SizeMax, Reported, Actual, Anchor, Declared, Claimed>>
      /\ UNCHANGED <<fds, size, i, position, Data>>
  BY DEF AllocateTable, Windows, world
<1>2. fds = 0 /\ buffers = 0 /\ Data = NoData /\ size = 0 /\ Reported \in Nat
  BY <1>1 DEF IInv, HeldInv, ReadInv, Places
<1>3. TypeOK'
  BY <1>1, <1>2 DEF IInv, TypeOK
<1>4. HeldInv' /\ ReadInv'
  BY <1>1, <1>2 DEF HeldInv, ReadInv, Places
<1>5. DataWhole' /\ VersionTrusted'
  BY <1>1, <1>2 DEF DataWhole, Written, VersionTrusted
<1> QED
  BY <1>3, <1>4, <1>5 DEF IInv

LEMMA GetTableIInv == IInv /\ GetTable => IInv'
<1> SUFFICES ASSUME IInv, GetTable PROVE IInv'
  OBVIOUS
<1>1. /\ Platform = "windows" /\ pc = "get" /\ Actual = Reported
      /\ size' = Fetched /\ pc' = "decode"
      /\ Data' = [Null |-> FALSE, Length |-> Claimed, DmiRevision |-> 0,
                   EntryFrom |-> 0]
      /\ UNCHANGED <<Platform, SizeMax, Reported, Actual, Anchor, Declared, Claimed>>
      /\ UNCHANGED <<fds, buffers, allocated, i, position>>
  BY DEF GetTable, Windows, SameSize, world
<1>2. fds = 0 /\ buffers = 1 /\ allocated = Reported /\ Reported \in Nat
  BY <1>1 DEF IInv, HeldInv, ReadInv, Places
<1>3. size' = allocated /\ size' = Actual /\ size' \in Nat
  BY <1>1, <1>2 DEF Fetched
<1>4. Claimed \in 0 .. UInt32Max
  BY DEF IInv, TypeOK
<1>5. Data'.Length = Claimed /\ Data' \in DataType /\ Data' # NoData
  BY <1>1, <1>4 DEF DataType, NoData
<1>6. TypeOK'
  BY <1>1, <1>3, <1>5 DEF IInv, TypeOK, DataType
<1>7. HeldInv' /\ ReadInv'
  BY <1>1, <1>2, <1>5 DEF HeldInv, ReadInv, Places
<1>8. DataWhole' /\ VersionTrusted'
  BY <1>1, <1>3, <1>5, SizeFacts
     DEF IInv, DataWhole, Written, EnvelopeFits, VersionTrusted
<1> QED
  BY <1>6, <1>7, <1>8 DEF IInv

-----------------------------------------------------------------------------
(* main.                                                                   *)
LEMMA MainIInv == IInv /\ (ReturnNoData \/ Decode) => IInv'
<1> SUFFICES ASSUME IInv, ReturnNoData \/ Decode PROVE IInv'
  OBVIOUS
<1>1. /\ pc \in {"nodata", "decode"} /\ pc' = "exit" /\ fds' = fds
      /\ UNCHANGED <<Platform, SizeMax, Reported, Actual, Anchor, Declared, Claimed>>
      /\ UNCHANGED <<allocated, size, i, position, Data>>
  BY DEF ReturnNoData, Decode, Go, world
<1>2. fds \in 0 .. 1 /\ buffers' = 0
  BY DEF ReturnNoData, Decode, IInv, TypeOK, HeldInv
<1>3. Data = NoData => fds = 0
  BY <1>1 DEF IInv, HeldInv
<1>4. TypeOK'
  BY <1>1, <1>2 DEF IInv, TypeOK
<1>5. HeldInv'
  BY <1>1, <1>2, <1>3 DEF IInv, HeldInv, Places
<1>6. ReadInv'
  BY <1>1, <1>2 DEF IInv, ReadInv
<1>7. DataWhole' /\ VersionTrusted'
  BY <1>1, <1>2 DEF DataWhole, VersionTrusted
<1> QED
  BY <1>4, <1>5, <1>6, <1>7 DEF IInv

LEMMA NextIInv == IInv /\ [Next]_vars => IInv'
<1> SUFFICES ASSUME IInv, [Next]_vars PROVE IInv'
  OBVIOUS
<1>1. CASE UNCHANGED vars
  BY <1>1 DEF vars, world, IInv, TypeOK, HeldInv, ReadInv, DataWhole, Written,
              EnvelopeFits, VersionTrusted
<1>2. CASE Next
  BY <1>2, WaysOutIInv, OpenTableIInv, AllocateIInv, ReadSomeIInv, ReadAgainIInv,
     CloseTableIInv, OpenEntryPointIInv, ReadAnchorIInv, GetSmbiosTableDataIInv,
     AllocateTableIInv, GetTableIInv, MainIInv
     DEF Next
<1> QED
  BY <1>1, <1>2

-----------------------------------------------------------------------------
(* Every way out of GetSmbiosTableData and main releases the buffer and    *)
(* the descriptors it holds, and nothing twice; only the descriptor of a   *)
(* good entry point stays.                                                 *)
THEOREM EverythingIsReleased == Spec => []Released
<1>1. IInv => Released
  BY DEF IInv, HeldInv, Released, Places
<1> QED
  BY InitIInv, NextIInv, <1>1, PTL DEF Spec

(* However many reads it takes, however the table grows or shrinks and     *)
(* however wide a size_t is, no byte is put behind the buffer and the      *)
(* buffer main decodes is filled to its last byte.  The length walked is   *)
(* the number of bytes read on Linux; on Windows it is the firmware's own, *)
(* which stays inside the buffer if it does in the firmware's own table.   *)
THEOREM DataIsWhole == Spec => []DataWhole
<1>1. IInv => DataWhole
  BY DEF IInv
<1> QED
  BY InitIInv, NextIInv, <1>1, PTL DEF Spec

(* The version main prints comes from an entry point that was recognised,  *)
(* read from its first byte and large enough for the table.                *)
THEOREM VersionIsTrusted == Spec => []VersionTrusted
<1>1. IInv => VersionTrusted
  BY DEF IInv
<1> QED
  BY InitIInv, NextIInv, <1>1, PTL DEF Spec
=============================================================================
