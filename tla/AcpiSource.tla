----------------------------- MODULE AcpiSource -----------------------------
(***************************************************************************)
(* AcpiDecode.c: the program that decodes one ACPI table from a file       *)
(* (DecodeFile), or every table of the system (DecodeSystemTables), which  *)
(* on Linux are the files of a directory and on Windows are asked for by   *)
(* identifier.  Every call of the operating system may fail, a table may   *)
(* change between two calls, and a table that cannot be decoded must stop  *)
(* neither the others nor be forgotten in the exit code.  One failure the  *)
(* code does not tell from the end: a directory that cannot be read on.    *)
(*                                                                         *)
(* Of a table, First is the size it claims: the length of its header, or   *)
(* the answer to the first call of GetSystemFirmwareTable; Second is how   *)
(* many bytes there are when they are read; Sound is whether               *)
(* AcpiValidateTable accepts them.                                         *)
(*                                                                         *)
(* A definition marked "a bug" is no part of the specification: it is a    *)
(* mistake the code could contain in place of the definition after it.     *)
(***************************************************************************)
EXTENDS Integers, Sequences

CONSTANTS
  Systems,       \* the lists of tables a system may have
  HeaderSize     \* sizeof(ACPI_DESCRIPTION_HEADER), 36

Entry(e) ==
  /\ e.Kind \in {"regular", "hidden", "other", "nopath"}
  /\ e.First \in Nat /\ e.Second \in Nat
  /\ e.Sound \in BOOLEAN

ASSUME SystemAssumption ==
  /\ HeaderSize \in Nat \ {0}
  /\ \A s \in Systems : Len(s) \in Nat /\ \A i \in 1 .. Len(s) : Entry(s[i])

VARIABLES
  Mode,                     \* how main was called, and on which platform
  Tables,
  lists, files, buffers,    \* held: Directory or TableIds, File, Data or Table
  allocated, filled,        \* the size of the buffer, and how much is read
  Index,                    \* the table being decoded
  outcome,                  \* history: what became of each table
  broken,                   \* history: readdir failed before the end
  Result,
  pc

world == <<Mode, Tables, broken>>
vars == <<world, lists, files, buffers, allocated, filled, Index, outcome,
          Result, pc>>

Init ==
  /\ Mode \in {"file", "linux", "windows", "usage"}
  /\ Tables \in Systems
  /\ Mode = "file" => Len(Tables) = 1
  /\ lists = 0 /\ files = 0 /\ buffers = 0
  /\ allocated = 0 /\ filled = 0
  /\ Index = 1
  /\ outcome = [i \in 1 .. Len(Tables) |-> "none"]
  /\ broken = FALSE
  /\ Result = 0
  /\ pc = "main"

Table == Tables[Index]

Go(next) ==
  /\ pc' = next
  /\ UNCHANGED <<world, allocated, filled, Index, outcome, Result>>

Exit(result) ==
  /\ pc' = "exit"
  /\ Result' = result
  /\ UNCHANGED <<world, allocated, filled, Index, outcome>>

Replaced(failed) == failed                              \* a bug
Combined(failed) == IF failed = 1 THEN 1 ELSE Result

Following == Index + 1

(* DecodeFile returns, or the loop of DecodeSystemTables continues.        *)
Continue(what) ==
  /\ outcome' = [outcome EXCEPT ![Index] = what]
  /\ Result' = Combined(IF what = "failed" THEN 1 ELSE 0)
  /\ Index' = Following
  /\ pc' = IF Mode = "file" THEN "exit" ELSE "next"
  /\ UNCHANGED <<world, allocated, filled>>

-----------------------------------------------------------------------------
(* main and the listing of the tables.                                     *)
Usage ==
  pc = "main" /\ Mode = "usage" /\ Exit(1) /\ UNCHANGED <<lists, files, buffers>>

DecodeArgument ==
  pc = "main" /\ Mode = "file" /\ Go("open") /\ UNCHANGED <<lists, files, buffers>>

(* No tables are no error on Linux.                                        *)
CannotList ==
  /\ pc = "main" /\ Mode \in {"linux", "windows"}
  /\ Exit(IF Mode = "linux" THEN 0 ELSE 1)
  /\ UNCHANGED <<lists, files, buffers>>

OpenList ==
  /\ pc = "main" /\ Mode \in {"linux", "windows"}
  /\ Mode = "windows" => Tables # << >>
  /\ Go(IF Mode = "linux" THEN "next" ELSE "enumerate")
  /\ lists' = lists + 1
  /\ UNCHANGED <<files, buffers>>

(* The second enumeration fails or has another size.                       *)
CannotEnumerate ==
  /\ pc = "enumerate"
  /\ Exit(1)
  /\ lists' = lists - 1
  /\ UNCHANGED <<files, buffers>>

Enumerate == pc = "enumerate" /\ Go("next") /\ UNCHANGED <<lists, files, buffers>>

Finish ==
  /\ pc = "next" /\ Index > Len(Tables)
  /\ Exit(Result)
  /\ lists' = lists - 1
  /\ UNCHANGED <<files, buffers>>

More(mode) == pc = "next" /\ Mode = mode /\ Index <= Len(Tables)

-----------------------------------------------------------------------------
(* Linux: a directory entry, then DecodeFile.  A NULL of readdir ends the  *)
(* loop, whether there are no more entries or the next one cannot be read. *)
CannotReadDirectory ==
  /\ More("linux")
  /\ broken' = TRUE
  /\ lists' = lists - 1
  /\ pc' = "exit"
  /\ UNCHANGED <<Mode, Tables, files, buffers, allocated, filled, Index, outcome,
                 Result>>

SkipEntry ==
  /\ More("linux")
  /\ Table.Kind \in {"hidden", "other"}
  /\ Continue("skipped")
  /\ UNCHANGED <<lists, files, buffers>>

(* The path is too long, or the file cannot be looked at.                  *)
LoseEntry ==
  /\ More("linux")
  /\ Table.Kind = "nopath"
  /\ Continue("failed")
  /\ UNCHANGED <<lists, files, buffers>>

TakeEntry ==
  /\ More("linux")
  /\ Table.Kind = "regular"
  /\ Go("open")
  /\ UNCHANGED <<lists, files, buffers>>

CannotOpen == pc = "open" /\ Continue("failed") /\ UNCHANGED <<lists, files, buffers>>

OpenFile ==
  pc = "open" /\ Go("header") /\ files' = files + 1 /\ UNCHANGED <<lists, buffers>>

HeaderRead == Table.Second >= HeaderSize /\ Table.First >= HeaderSize

BadHeader ==
  /\ pc = "header"
  /\ ~HeaderRead
  /\ Continue("failed")
  /\ files' = files - 1
  /\ UNCHANGED <<lists, buffers>>

CannotAllocate ==
  /\ pc = "header"
  /\ HeaderRead
  /\ Continue("failed")
  /\ files' = files - 1
  /\ UNCHANGED <<lists, buffers>>

(* The header that was read is copied to the front of the buffer.          *)
CopyHeader ==
  /\ pc = "header"
  /\ HeaderRead
  /\ allocated' = Table.First
  /\ filled' = HeaderSize
  /\ buffers' = buffers + 1
  /\ pc' = "body"
  /\ UNCHANGED <<world, lists, files, Index, outcome, Result>>

(* fread copies the rest of the table, or what there is of it.             *)
Present == IF Table.Second < Table.First THEN Table.Second ELSE Table.First
AnyBody == TRUE                                         \* a bug
BodyThere == Table.Second >= Table.First

Leaked == buffers                                       \* a bug
Freed == buffers - 1

(* The file ends early, or the read fails.                                 *)
ShortBody ==
  /\ pc = "body"
  /\ Continue("failed")
  /\ files' = files - 1
  /\ buffers' = Freed
  /\ UNCHANGED lists

Closed == files - 1

ReadBody ==
  /\ pc = "body"
  /\ BodyThere
  /\ filled' = Present
  /\ files' = Closed
  /\ pc' = "decode"
  /\ UNCHANGED <<world, lists, buffers, allocated, Index, outcome, Result>>

-----------------------------------------------------------------------------
(* Windows: the size of a table, then its bytes.                           *)
NoSize ==
  /\ More("windows")
  /\ Continue("failed")
  /\ UNCHANGED <<lists, files, buffers>>

AllocateTable ==
  /\ More("windows")
  /\ Table.First # 0
  /\ allocated' = Table.First
  /\ filled' = 0
  /\ buffers' = buffers + 1
  /\ pc' = "get"
  /\ UNCHANGED <<world, lists, files, Index, outcome, Result>>

GetOther ==
  /\ pc = "get"
  /\ Continue("failed")
  /\ buffers' = buffers - 1
  /\ UNCHANGED <<lists, files>>

GetTable ==
  /\ pc = "get"
  /\ Table.Second = Table.First
  /\ filled' = Table.Second
  /\ pc' = "decode"
  /\ UNCHANGED <<world, lists, files, buffers, allocated, Index, outcome, Result>>

-----------------------------------------------------------------------------
DecodeTable ==
  /\ pc = "decode"
  /\ Continue(IF Table.Sound THEN "decoded" ELSE "failed")
  /\ buffers' = buffers - 1
  /\ UNCHANGED <<lists, files>>

Next ==
  \/ Usage \/ DecodeArgument \/ CannotList \/ OpenList
  \/ CannotEnumerate \/ Enumerate \/ Finish
  \/ CannotReadDirectory \/ SkipEntry \/ LoseEntry \/ TakeEntry
  \/ CannotOpen \/ OpenFile \/ BadHeader \/ CannotAllocate \/ CopyHeader
  \/ ShortBody \/ ReadBody
  \/ NoSize \/ AllocateTable \/ GetOther \/ GetTable
  \/ DecodeTable

Spec == Init /\ [][Next]_vars

-----------------------------------------------------------------------------
Outcomes == {"none", "skipped", "failed", "decoded"}

TypeOK ==
  /\ Mode \in {"file", "linux", "windows", "usage"}
  /\ \A i \in 1 .. Len(Tables) : Entry(Tables[i])
  /\ {lists, files, buffers, Result} \subseteq 0 .. 1
  /\ {allocated, filled} \subseteq Nat
  /\ Index \in 1 .. Len(Tables) + 1
  /\ outcome \in [1 .. Len(Tables) -> Outcomes]
  /\ broken \in BOOLEAN
  /\ pc \in {"main", "enumerate", "next", "open", "header", "body", "get",
             "decode", "exit"}

(* Whatever fails in one table, its file and its buffer are released       *)
(* before the next table and before the end, and so is the list; nothing   *)
(* is released twice (the counts of TypeOK).                               *)
Released ==
  /\ TypeOK
  /\ pc = "next" => files = 0 /\ buffers = 0
  /\ pc = "exit" => lists = 0 /\ files = 0 /\ buffers = 0

(* A copy never passes the end of the buffer, and what is decoded has been *)
(* read to the last byte, even when the table shrank after its size was    *)
(* known.                                                                  *)
DecodedWhole ==
  /\ pc \in {"body", "get", "decode"} => filled <= allocated
  /\ pc = "decode" => filled = allocated

(* A table that cannot be decoded stops no other, and the exit code says   *)
(* that some table could not be decoded, wherever in the walk it was.  A   *)
(* table the walk ends without taking up is one a directory that could not *)
(* be read on has hidden, with all after it: of those the exit code says   *)
(* nothing.                                                                *)
ResultExact ==
  pc \in {"next", "exit"} /\ (Index > 1 \/ broken) =>
    /\ Result = 1 <=> \E i \in 1 .. Len(Tables) : outcome[i] = "failed"
    /\ pc = "exit" =>
         \A i \in 1 .. Len(Tables) : outcome[i] = "none" => broken /\ i >= Index

=============================================================================
