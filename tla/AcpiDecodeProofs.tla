-------------------------- MODULE AcpiDecodeProofs --------------------------
(***************************************************************************)
(* The program AcpiDecode: which tables it gets and what it says at the    *)
(* end (AcpiSource), and what it shows of one of them (AcpiFields).  The   *)
(* two specifications have no variable in common.                          *)
(*                                                                         *)
(* For the first the invariant says what is held at each place of the      *)
(* code, that is how the early returns may leave it, and what has become   *)
(* of the tables before Index; for the second, that of the rows before     *)
(* FieldIndex exactly those have been printed that can be read.            *)
(***************************************************************************)
EXTENDS AcpiSource, AcpiFields, TLAPS

Taking == {"open", "header", "body", "get", "decode"}

(* What is held at each place of the code.                                 *)
AcpiHeldInv ==
  /\ lists = IF Mode \in {"linux", "windows"} /\ pc \notin {"main", "exit"}
             THEN 1 ELSE 0
  /\ files = IF pc \in {"header", "body"} THEN 1 ELSE 0
  /\ buffers = IF pc \in {"body", "get", "decode"} THEN 1 ELSE 0

(* Who comes where, and that a table is only taken while there is one.     *)
PlaceInv ==
  /\ Len(Tables) \in Nat /\ HeaderSize \in Nat
  /\ Mode = "file" => Len(Tables) = 1
  /\ Mode = "file" => pc \in {"main", "exit"} \cup Taking
  /\ Mode = "usage" => pc \in {"main", "exit"}
  /\ pc \in {"main", "enumerate"} => Index = 1
  /\ pc \in Taking => Index <= Len(Tables)

(* How much of the table is in its buffer.                                 *)
FillInv ==
  /\ pc = "body" => HeaderRead /\ allocated = Table.First /\ filled = HeaderSize
  /\ pc = "get" => allocated = Table.First /\ filled = 0
  /\ pc = "decode" => filled = allocated

(* The tables before Index have been taken up, the others not yet, and     *)
(* Result is about those that have.  Only a directory that cannot be read  *)
(* on ends the walk between two tables.                                    *)
TakenInv ==
  /\ \A k \in 1 .. Len(Tables) : outcome[k] = "none" <=> k >= Index
  /\ pc # "exit" \/ Index > 1 \/ broken =>
       (Result = 1 <=> \E k \in 1 .. Len(Tables) : outcome[k] = "failed")
  /\ pc = "exit" => Index = 1 \/ Index = Len(Tables) + 1 \/ broken
  /\ broken => pc = "exit"

AcpiInv == TypeOK /\ AcpiHeldInv /\ PlaceInv /\ FillInv /\ TakenInv

-----------------------------------------------------------------------------
LEMMA TableFacts ==
  ASSUME AcpiInv
  PROVE  /\ Index \in Nat /\ Len(Tables) \in Nat /\ HeaderSize \in Nat
         /\ {lists, files, buffers, Result} \subseteq {0, 1}
         /\ {allocated, filled} \subseteq Nat
         /\ Index <= Len(Tables) => Table.First \in Nat /\ Table.Second \in Nat
<1>1. Len(Tables) \in Nat /\ Index \in 1 .. Len(Tables) + 1
  BY DEF AcpiInv, TypeOK, PlaceInv
<1>2. Index <= Len(Tables) => Entry(Table)
  BY <1>1 DEF AcpiInv, TypeOK, Table
<1>3. 0 .. 1 = {0, 1}
  OBVIOUS
<1> QED
  BY <1>1, <1>2, <1>3 DEF AcpiInv, TypeOK, Entry, PlaceInv

LEMMA AcpiInitIInv ==
  ASSUME Init
  PROVE  AcpiInv
<1>1. Len(Tables) \in Nat /\ \A k \in 1 .. Len(Tables) : Entry(Tables[k])
  BY SystemAssumption DEF Init
<1>2. TypeOK
  <2>1. broken \in BOOLEAN
    BY DEF Init
  <2> QED
    BY <1>1, <2>1 DEF Init, TypeOK, Outcomes
<1> QED
  BY <1>1, <1>2, SystemAssumption
     DEF Init, AcpiInv, AcpiHeldInv, PlaceInv,
         FillInv, TakenInv, Taking

(* The end of one table: with its file and its buffer released, everything *)
(* is as it has to be for the next.                                        *)
LEMMA ContinueIInv ==
  ASSUME AcpiInv, NEW what \in {"skipped", "failed", "decoded"}, Continue(what),
         Index <= Len(Tables),
         pc \in Taking \cup {"next"},
         files' = 0, buffers' = 0, UNCHANGED lists
  PROVE  AcpiInv'
<1> DEFINE n == Len(Tables)
<1>1. /\ Index \in Nat /\ n \in Nat /\ Index >= 1
      /\ outcome \in [1 .. n -> Outcomes]
      /\ Result \in 0 .. 1
  BY TableFacts DEF AcpiInv, TypeOK
<1>2. /\ outcome' = [outcome EXCEPT ![Index] = what]
      /\ Result' = IF what = "failed" THEN 1 ELSE Result
      /\ Index' = Index + 1
      /\ pc' = IF Mode = "file" THEN "exit" ELSE "next"
      /\ UNCHANGED <<Mode, Tables, broken, allocated, filled>>
  BY DEF Continue, Combined, Following, world
<1>3. pc # "exit" /\ pc # "main" /\ Mode # "usage" /\ ~broken
  BY DEF AcpiInv, PlaceInv, Taking, TakenInv
<1>4. n' = n
  BY <1>2
<1> HIDE DEF n
<1>5. \A k \in 1 .. n : outcome'[k] = IF k = Index THEN what ELSE outcome[k]
  BY <1>1, <1>2
<1>6. TypeOK'
  <2>1. outcome' \in [1 .. n -> Outcomes]
    BY <1>1, <1>2 DEF Outcomes
  <2>2. \A k \in 1 .. n : Entry(Tables[k])
    BY DEF AcpiInv, TypeOK, n
  <2>3. {lists, files, buffers, Result}' \subseteq 0 .. 1
    BY <1>1, <1>2 DEF AcpiInv, TypeOK
  <2>4. /\ Index' \in 1 .. n + 1 /\ pc' \in {"exit", "next"}
        /\ Mode' \in {"file", "linux", "windows", "usage"}
        /\ {allocated, filled}' \subseteq Nat
    BY <1>1, <1>2 DEF AcpiInv, TypeOK, n
  <2>5. broken' \in BOOLEAN
    BY <1>2 DEF AcpiInv, TypeOK
  <2> QED
    BY <1>2, <1>4, <2>1, <2>2, <2>3, <2>4, <2>5 DEF TypeOK, n
<1>7. AcpiHeldInv'
  BY <1>2, <1>3 DEF AcpiInv, TypeOK, AcpiHeldInv
<1>8. PlaceInv'
  BY <1>1, <1>2, <1>3, <1>4 DEF AcpiInv, PlaceInv, Taking, n
<1>9. FillInv'
  BY <1>2 DEF FillInv
<1>10. TakenInv'
  <2>1. \A k \in 1 .. n : outcome'[k] = "none" <=> k >= Index'
    BY <1>1, <1>2, <1>5 DEF AcpiInv, TakenInv, n
  <2>2. Result = 1 <=> \E k \in 1 .. n : outcome[k] = "failed"
    BY <1>3 DEF AcpiInv, TakenInv, n
  <2>3. outcome[Index] = "none"
    BY <1>1 DEF AcpiInv, TakenInv, n
  <2>4. Result' = 1 <=> \E k \in 1 .. n : outcome'[k] = "failed"
    BY <1>1, <1>2, <1>5, <2>2, <2>3 DEF n
  <2>5. pc' = "exit" => Index' = n + 1
    <3>1. Index <= n /\ (Mode = "file" => n = 1)
      BY DEF AcpiInv, PlaceInv, n
    <3> QED
      BY <1>1, <1>2, <3>1
  <2> QED
    BY <1>2, <1>3, <1>4, <2>1, <2>4, <2>5 DEF TakenInv, n
<1> QED
  BY <1>6, <1>7, <1>8, <1>9, <1>10 DEF AcpiInv

(* main returns.                                                           *)
LEMMA ExitIInv ==
  ASSUME AcpiInv, NEW result \in 0 .. 1, Exit(result),
         lists' = 0, UNCHANGED <<files, buffers>>,
         \/ pc \in {"main", "enumerate"}
         \/ pc = "next" /\ Index > Len(Tables) /\ result = Result
  PROVE  AcpiInv'
<1>1. /\ pc' = "exit" /\ Result' = result
      /\ UNCHANGED <<Mode, Tables, broken, allocated, filled, Index, outcome,
                     files, buffers>>
  BY DEF Exit, world
<1>2. Index \in Nat /\ Len(Tables) \in Nat /\ Index \in 1 .. Len(Tables) + 1
  BY TableFacts DEF AcpiInv, TypeOK
<1>3. TypeOK'
  BY <1>1 DEF AcpiInv, TypeOK
<1>4. AcpiHeldInv' /\ PlaceInv' /\ FillInv'
  BY <1>1 DEF AcpiInv, AcpiHeldInv, PlaceInv, FillInv, Taking
<1>5. TakenInv'
  BY <1>1, <1>2 DEF AcpiInv, TakenInv, PlaceInv
<1> QED
  BY <1>3, <1>4, <1>5 DEF AcpiInv

(* A step that ends neither a table nor the program.                       *)
LEMMA StepIInv ==
  ASSUME AcpiInv,
         pc \in {"main", "enumerate", "next"} \cup Taking,
         pc' \in {"enumerate", "next"} \cup Taking,
         UNCHANGED <<Mode, Tables, broken, Index, outcome, Result>>,
         {lists, files, buffers}' \subseteq 0 .. 1,
         {allocated, filled}' \subseteq Nat,
         AcpiHeldInv', FillInv',
         Mode \in {"file", "linux", "windows"},
         Mode = "file" => pc' \in Taking,
         pc' = "enumerate" => pc = "main",
         pc' \in Taking => Index <= Len(Tables)
  PROVE  AcpiInv'
<1>1. TypeOK'
  BY DEF AcpiInv, TypeOK, Taking
<1>2. PlaceInv'
  BY DEF AcpiInv, PlaceInv, Taking
<1>3. TakenInv'
  BY DEF AcpiInv, TakenInv, Taking
<1> QED
  BY <1>1, <1>2, <1>3 DEF AcpiInv

-----------------------------------------------------------------------------
(* main, and the listing of the tables.                                    *)
LEMMA AcpiMainIInv ==
  ASSUME AcpiInv,
         \/ Usage \/ DecodeArgument \/ CannotList \/ OpenList
         \/ CannotEnumerate \/ Enumerate \/ Finish \/ CannotReadDirectory
  PROVE  AcpiInv'
<1> USE DEF AcpiHeldInv, PlaceInv, FillInv, Taking
<1>0. /\ {lists, files, buffers, Result} \subseteq {0, 1} /\ {allocated, filled} \subseteq Nat
      /\ Mode \in {"file", "linux", "windows", "usage"}
      /\ AcpiHeldInv /\ PlaceInv /\ FillInv /\ Result \in 0 .. 1
  BY TableFacts DEF AcpiInv, TypeOK
<1>1. CASE Usage \/ CannotList
  BY <1>0, <1>1, ExitIInv DEF Usage, CannotList
<1>2. CASE CannotEnumerate
  <2>1. Mode \in {"linux", "windows"}
    BY <1>0, <1>2 DEF CannotEnumerate
  <2> QED
    BY <1>0, <1>2, <2>1, ExitIInv DEF CannotEnumerate
<1>3. CASE Finish
  <2>1. Mode \in {"linux", "windows"}
    BY <1>0, <1>3 DEF Finish
  <2> QED
    BY <1>0, <1>3, <2>1, ExitIInv DEF Finish
<1>4. CASE DecodeArgument
  <2>1. /\ pc = "main" /\ pc' = "open" /\ Mode = "file" /\ Index <= Len(Tables)
        /\ UNCHANGED <<Mode, Tables, broken, lists, files, buffers, allocated,
                       filled, Index, outcome, Result>>
    BY <1>0, <1>4 DEF DecodeArgument, Go, world
  <2> QED
    BY <1>0, <2>1, StepIInv
<1>5. CASE OpenList
  <2>1. /\ pc = "main" /\ pc' \in {"next", "enumerate"} /\ Mode \in {"linux", "windows"}
        /\ lists' = lists + 1
        /\ UNCHANGED <<Mode, Tables, broken, files, buffers, allocated, filled,
                       Index, outcome, Result>>
    BY <1>5 DEF OpenList, Go, world
  <2> QED
    BY <1>0, <2>1, StepIInv
<1>6. CASE Enumerate
  <2>1. /\ pc = "enumerate" /\ pc' = "next"
        /\ UNCHANGED <<Mode, Tables, broken, lists, files, buffers, allocated,
                       filled, Index, outcome, Result>>
    BY <1>6 DEF Enumerate, Go, world
  <2>2. Mode \in {"linux", "windows"}
    BY <1>0, <2>1
  <2> QED
    BY <1>0, <2>1, <2>2, StepIInv
<1>7. CASE CannotReadDirectory
  <2>1. /\ pc = "next" /\ Mode = "linux" /\ pc' = "exit" /\ broken' = TRUE
        /\ lists' = lists - 1
        /\ UNCHANGED <<Mode, Tables, files, buffers, allocated, filled, Index,
                       outcome, Result>>
    BY <1>7 DEF CannotReadDirectory, More
  <2>2. TypeOK'
    BY <1>0, <2>1 DEF AcpiInv, TypeOK
  <2>3. AcpiHeldInv' /\ PlaceInv' /\ FillInv'
    BY <1>0, <2>1
  <2>4. TakenInv'
    BY <2>1 DEF AcpiInv, TakenInv
  <2> QED
    BY <2>2, <2>3, <2>4 DEF AcpiInv
<1> QED
  BY <1>1, <1>2, <1>3, <1>4, <1>5, <1>6, <1>7

(* The steps that end a table.                                             *)
LEMMA EndIInv ==
  ASSUME AcpiInv,
         \/ SkipEntry \/ LoseEntry \/ CannotOpen
         \/ BadHeader \/ CannotAllocate
         \/ ShortBody \/ NoSize \/ GetOther \/ DecodeTable
  PROVE  AcpiInv'
<1> USE DEF AcpiHeldInv, PlaceInv, Taking
<1>0. AcpiHeldInv /\ PlaceInv
  BY DEF AcpiInv
<1>1. CASE SkipEntry \/ LoseEntry \/ NoSize
  BY <1>0, <1>1, ContinueIInv DEF SkipEntry, LoseEntry, NoSize, More
<1>2. CASE CannotOpen
  BY <1>0, <1>2, ContinueIInv DEF CannotOpen
<1>3. CASE BadHeader \/ CannotAllocate
  BY <1>0, <1>3, ContinueIInv DEF BadHeader, CannotAllocate
<1>4. CASE ShortBody
  BY <1>0, <1>4, ContinueIInv DEF ShortBody, Freed
<1>5. CASE GetOther
  BY <1>0, <1>5, ContinueIInv DEF GetOther
<1>6. CASE DecodeTable
  <2>1. PICK what \in {"decoded", "failed"} : Continue(what)
    BY <1>6 DEF DecodeTable
  <2> QED
    BY <1>0, <1>6, <2>1, ContinueIInv DEF DecodeTable
<1> QED
  BY <1>1, <1>2, <1>3, <1>4, <1>5, <1>6

(* The steps that lead from a table's name to its bytes.                   *)
LEMMA TakeIInv ==
  ASSUME AcpiInv,
         \/ TakeEntry \/ OpenFile \/ CopyHeader \/ ReadBody
         \/ AllocateTable \/ GetTable
  PROVE  AcpiInv'
<1> USE DEF AcpiHeldInv, PlaceInv, FillInv, Taking
<1>0. /\ AcpiHeldInv /\ PlaceInv /\ FillInv
      /\ {lists, files, buffers} \subseteq {0, 1} /\ {allocated, filled} \subseteq Nat
      /\ Mode \in {"file", "linux", "windows", "usage"}
      /\ HeaderSize \in Nat
      /\ Index <= Len(Tables) => Table.First \in Nat /\ Table.Second \in Nat
  BY TableFacts DEF AcpiInv, TypeOK
<1>1. CASE TakeEntry
  <2>1. /\ pc = "next" /\ pc' = "open" /\ Mode = "linux" /\ Index <= Len(Tables)
        /\ UNCHANGED <<Mode, Tables, broken, lists, files, buffers, allocated,
                       filled, Index, outcome, Result>>
    BY <1>1 DEF TakeEntry, More, Go, world
  <2> QED
    BY <1>0, <2>1, StepIInv
<1>2. CASE OpenFile
  <2>1. /\ pc = "open" /\ pc' = "header" /\ files' = files + 1
        /\ UNCHANGED <<Mode, Tables, broken, lists, buffers, allocated, filled,
                       Index, outcome, Result>>
    BY <1>2 DEF OpenFile, Go, world
  <2> QED
    BY <1>0, <2>1, StepIInv
<1>3. CASE CopyHeader
  <2>1. /\ pc = "header" /\ pc' = "body" /\ HeaderRead
        /\ allocated' = Table.First /\ filled' = HeaderSize /\ buffers' = buffers + 1
        /\ UNCHANGED <<Mode, Tables, broken, lists, files, Index, outcome, Result>>
    BY <1>3 DEF CopyHeader, world
  <2>2. HeaderRead' /\ Table' = Table
    BY <2>1 DEF HeaderRead, Table
  <2> QED
    BY <1>0, <2>1, <2>2, StepIInv
<1>4. CASE ReadBody
  <2>1. /\ pc = "body" /\ pc' = "decode" /\ BodyThere
        /\ filled' = Present /\ files' = files - 1
        /\ UNCHANGED <<Mode, Tables, broken, lists, buffers, allocated, Index,
                       outcome, Result>>
    BY <1>4 DEF ReadBody, Closed, world
  <2>2. Index <= Len(Tables) /\ filled' = allocated
    BY <1>0, <2>1 DEF BodyThere, Present
  <2> QED
    BY <1>0, <2>1, <2>2, StepIInv
<1>5. CASE AllocateTable
  <2>1. /\ pc = "next" /\ pc' = "get" /\ Mode = "windows" /\ Index <= Len(Tables)
        /\ allocated' = Table.First /\ filled' = 0 /\ buffers' = buffers + 1
        /\ UNCHANGED <<Mode, Tables, broken, lists, files, Index, outcome, Result>>
    BY <1>5 DEF AllocateTable, More, world
  <2>2. Table' = Table
    BY <2>1 DEF Table
  <2> QED
    BY <1>0, <2>1, <2>2, StepIInv
<1>6. CASE GetTable
  <2>1. /\ pc = "get" /\ pc' = "decode" /\ filled' = Table.Second
        /\ Table.Second = Table.First
        /\ UNCHANGED <<Mode, Tables, broken, lists, files, buffers, allocated,
                       Index, outcome, Result>>
    BY <1>6 DEF GetTable, world
  <2>2. Index <= Len(Tables) /\ filled' = allocated
    BY <1>0, <2>1
  <2> QED
    BY <1>0, <2>1, <2>2, StepIInv
<1> QED
  BY <1>1, <1>2, <1>3, <1>4, <1>5, <1>6

LEMMA AcpiNextIInv == AcpiInv /\ [Next]_vars => AcpiInv'
<1> SUFFICES ASSUME AcpiInv, [Next]_vars PROVE AcpiInv'
  OBVIOUS
<1>1. CASE Next
  BY <1>1, AcpiMainIInv, EndIInv, TakeIInv DEF Next
<1>2. CASE UNCHANGED vars
  BY <1>2 DEF vars, world, AcpiInv, TypeOK, AcpiHeldInv,
              PlaceInv, FillInv, TakenInv,
              HeaderRead, Table
<1> QED
  BY <1>1, <1>2

-----------------------------------------------------------------------------
(* AcpiDecode holds nothing when it goes on to the next table or returns   *)
(* but what it needs, and releases nothing twice.                          *)
THEOREM NothingStaysHeld == Spec => []Released
<1>1. AcpiInv => Released
  BY DEF AcpiInv, AcpiHeldInv, Released
<1> QED
  BY AcpiInitIInv, AcpiNextIInv, <1>1, PTL DEF Spec

(* A table handed to DecodeTable of AcpiDecode was read to its last byte,  *)
(* and no read went past its buffer, whatever the table became meanwhile.  *)
THEOREM OnlyWholeDecoded == Spec => []DecodedWhole
<1>1. AcpiInv => DecodedWhole
  <2> SUFFICES ASSUME AcpiInv PROVE DecodedWhole
    OBVIOUS
  <2>1. /\ {allocated, filled} \subseteq Nat /\ HeaderSize \in Nat
        /\ FillInv /\ PlaceInv
        /\ Index <= Len(Tables) => Table.First \in Nat /\ Table.Second \in Nat
    BY TableFacts DEF AcpiInv
  <2> QED
    BY <2>1 DEF DecodedWhole, FillInv, PlaceInv, HeaderRead, Taking
<1> QED
  BY AcpiInitIInv, AcpiNextIInv, <1>1, PTL DEF Spec

(* The exit code of AcpiDecode tells of a failure exactly when some table  *)
(* taken up failed, and unless the directory could not be read on, which   *)
(* the code takes for its end, no table was left out.                      *)
THEOREM ExitCodeTells == Spec => []ResultExact
<1>1. AcpiInv => ResultExact
  <2> SUFFICES ASSUME AcpiInv PROVE ResultExact
    OBVIOUS
  <2>1. Index \in Nat /\ Len(Tables) \in Nat /\ TakenInv
    BY TableFacts DEF AcpiInv
  <2> QED
    BY <2>1 DEF ResultExact, TakenInv
<1> QED
  BY AcpiInitIInv, AcpiNextIInv, <1>1, PTL DEF Spec
-----------------------------------------------------------------------------
(* The fields of one table.  Of the rows gone through, those that can be   *)
(* read have been printed, and nothing else.                               *)
RowsBefore(fields, n) ==
  { fields[i] : i \in { j \in 1 .. n - 1 : Readable(fields[j]) } }

HeaderRows == RowsBefore(AcpiHeaderFields, Len(AcpiHeaderFields) + 1)
OwnFields == AcpiTableInfo[Signature].Fields

FieldsInv ==
  /\ FieldsTypeOK
  /\ stage = "validate" =>
       Fields = << >> /\ FieldIndex = 1 /\ printed = {} /\ Status = "Unsupported"
  /\ stage = "header" => /\ Fields = AcpiHeaderFields /\ Status = "Success"
                         /\ printed = RowsBefore(Fields, FieldIndex)
  /\ stage = "table" => /\ Known /\ Fields = OwnFields /\ Status = "Success"
                        /\ printed = HeaderRows \cup RowsBefore(Fields, FieldIndex)
  /\ stage = "done" =>
       printed = IF Status # "Success" THEN {}
                 ELSE IF ~Known THEN HeaderRows
                 ELSE HeaderRows \cup RowsBefore(OwnFields, Len(OwnFields) + 1)
  /\ Status = "Success" => Parses

(* The rows being gone through are rows.                                   *)
LEMMA FieldsAreRows ==
  ASSUME FieldsInv, stage \in {"header", "table"}
  PROVE  Fields \in Seq(FieldRows) /\ Len(Fields) \in Nat
<1>1. Fields \in Seq(FieldRows)
  BY LayoutAssumption DEF FieldsInv, Known, OwnFields
<1> QED
  BY <1>1

(* Which rows can be read does not change while one table is shown.        *)
LEMMA SameRows ==
  ASSUME Length' = Length, Signature' = Signature
  PROVE  /\ \A fields, n : RowsBefore(fields, n)' = RowsBefore(fields, n)
         /\ HeaderRows' = HeaderRows
         /\ OwnFields' = OwnFields
         /\ Known' <=> Known
         /\ Parses' <=> Parses
<1>1. \A r : Readable(r)' <=> Readable(r)
  BY DEF Readable, ReadUInt, Get
<1>2. \A fields, n : RowsBefore(fields, n)' = RowsBefore(fields, n)
  BY <1>1 DEF RowsBefore
<1>3. HeaderRows' = HeaderRows
  BY <1>2 DEF HeaderRows
<1> QED
  BY <1>2, <1>3 DEF OwnFields, Known, Parses

(* One row further.                                                        *)
LEMMA OneMoreRow ==
  ASSUME NEW fields, NEW n \in Nat \ {0}
  PROVE  RowsBefore(fields, n + 1) =
           RowsBefore(fields, n) \cup (IF Readable(fields[n]) THEN {fields[n]} ELSE {})
<1>1. 1 .. (n + 1) - 1 = (1 .. n - 1) \cup {n}
  OBVIOUS
<1> QED
  BY <1>1 DEF RowsBefore

(* At the end of the rows: all that can be read.                           *)
LEMMA AllRows ==
  ASSUME NEW fields \in Seq(FieldRows)
  PROVE  RowsBefore(fields, Len(fields) + 1)
           = { r \in Elements(fields) : Readable(r) }
<1>1. Len(fields) \in Nat /\ DOMAIN fields = 1 .. Len(fields)
  OBVIOUS
<1>2. 1 .. (Len(fields) + 1) - 1 = DOMAIN fields
  BY <1>1
<1> QED
  BY <1>2 DEF RowsBefore, Elements

(* A row is printed or left out.                                           *)
LEMMA RowInv ==
  ASSUME FieldsInv, PrintField \/ SkipField
  PROVE  FieldsInv'
<1>1. /\ Printing /\ FieldIndex' = FieldIndex + 1
      /\ Signature' = Signature /\ Length' = Length /\ Fields' = Fields
      /\ Status' = Status /\ stage' = stage
      /\ printed' = printed \cup
           (IF Readable(Fields[FieldIndex]) THEN {Fields[FieldIndex]} ELSE {})
  BY DEF PrintField, SkipField
<1>2. /\ stage \in {"header", "table"} /\ FieldIndex <= Len(Fields)
      /\ Len(Fields) \in Nat /\ FieldIndex \in Nat \ {0}
  BY <1>1, FieldsAreRows DEF Printing, FieldsInv, FieldsTypeOK
<1>3. RowsBefore(Fields, FieldIndex + 1) = RowsBefore(Fields, FieldIndex) \cup
        (IF Readable(Fields[FieldIndex]) THEN {Fields[FieldIndex]} ELSE {})
  BY <1>2, OneMoreRow
<1>4. FieldsTypeOK'
  BY <1>1, <1>2 DEF FieldsInv, FieldsTypeOK
<1>5. CASE stage = "header"
  <2>1. printed' = RowsBefore(Fields, FieldIndex + 1)
    BY <1>1, <1>3, <1>5 DEF FieldsInv
  <2> QED BY <1>1, <1>4, <1>5, <2>1, SameRows DEF FieldsInv
<1>6. CASE stage = "table"
  <2>1. printed' = HeaderRows \cup RowsBefore(Fields, FieldIndex + 1)
    BY <1>1, <1>3, <1>6 DEF FieldsInv
  <2> QED BY <1>1, <1>4, <1>6, <2>1, SameRows DEF FieldsInv
<1> QED
  BY <1>2, <1>5, <1>6

LEMMA ValidateInv ==
  ASSUME FieldsInv, Validate
  PROVE  FieldsInv'
<1>1. /\ stage = "validate" /\ Status' = Refused /\ Fields' = AcpiHeaderFields
      /\ stage' = IF Refused = "Success" THEN "header" ELSE "done"
      /\ Signature' = Signature /\ Length' = Length
      /\ FieldIndex' = FieldIndex /\ FieldIndex = 1
      /\ printed' = printed /\ printed = {}
  BY DEF Validate, FieldsInv
<1>2. Len(AcpiHeaderFields) \in Nat
  BY LayoutAssumption
<1>3. FieldsTypeOK'
  BY <1>1, <1>2 DEF FieldsInv, FieldsTypeOK, Refused
<1>4. Refused = "Success" => Parses
  BY LayoutAssumption, BoundAssumption
     DEF Refused, Parses, ParserHeaderSize, FieldsInv, FieldsTypeOK
<1>5. RowsBefore(AcpiHeaderFields, 1) = {}
  BY DEF RowsBefore
<1> QED
  BY <1>1, <1>3, <1>4, <1>5, SameRows DEF FieldsInv

LEMMA TableRowsInv ==
  ASSUME FieldsInv, TableRows
  PROVE  FieldsInv'
<1>1. /\ stage = "header" /\ stage' = "table" /\ FieldIndex > Len(Fields) /\ Known
      /\ Fields' = OwnFields /\ FieldIndex' = 1
      /\ Signature' = Signature /\ Length' = Length
      /\ Status' = Status /\ printed' = printed
  BY DEF TableRows, OwnFields
<1>2. /\ Fields = AcpiHeaderFields /\ Len(Fields) \in Nat
      /\ FieldIndex \in 1 .. Len(Fields) + 1
  BY <1>1, FieldsAreRows DEF FieldsInv, FieldsTypeOK
<1>3. FieldIndex = Len(AcpiHeaderFields) + 1
  BY <1>1, <1>2
<1>4. printed = HeaderRows
  BY <1>1, <1>2, <1>3 DEF FieldsInv, HeaderRows
<1>5. Len(OwnFields) \in Nat
  BY <1>1, LayoutAssumption DEF Known, OwnFields
<1>6. FieldsTypeOK'
  BY <1>1, <1>5 DEF FieldsInv, FieldsTypeOK
<1>7. RowsBefore(OwnFields, 1) = {}
  BY DEF RowsBefore
<1> QED
  BY <1>1, <1>4, <1>6, <1>7, SameRows DEF FieldsInv

LEMMA ReturnInv ==
  ASSUME FieldsInv, Return
  PROVE  FieldsInv'
<1>1. /\ stage' = "done" /\ FieldIndex > Len(Fields)
      /\ stage = "table" \/ (stage = "header" /\ ~Known)
      /\ Signature' = Signature /\ Length' = Length /\ Fields' = Fields
      /\ FieldIndex' = FieldIndex /\ Status' = Status /\ printed' = printed
  BY DEF Return
<1>2. Len(Fields) \in Nat /\ FieldIndex \in 1 .. Len(Fields) + 1
  BY <1>1, FieldsAreRows DEF FieldsInv, FieldsTypeOK
<1>3. FieldIndex = Len(Fields) + 1
  BY <1>1, <1>2
<1>4. FieldsTypeOK'
  BY <1>1 DEF FieldsInv, FieldsTypeOK
<1> QED
  BY <1>1, <1>3, <1>4, SameRows DEF FieldsInv, HeaderRows

LEMMA FieldsInvariance == FieldsSpec => []FieldsInv
<1>1. FieldsInit => FieldsInv
  BY DEF FieldsInit, FieldsInv, FieldsTypeOK
<1>2. FieldsInv /\ [FieldsNext]_fieldsvars => FieldsInv'
  <2> SUFFICES ASSUME FieldsInv, [FieldsNext]_fieldsvars PROVE FieldsInv'
    OBVIOUS
  <2>1. CASE UNCHANGED fieldsvars
    BY <2>1, SameRows DEF fieldsvars, FieldsInv, FieldsTypeOK
  <2> QED BY <2>1, RowInv, ValidateInv, TableRowsInv, ReturnInv DEF FieldsNext
<1> QED
  BY <1>1, <1>2, PTL DEF FieldsSpec

(* What can be read lies inside the table, as the managed parser sees it.  *)
LEMMA ReadableRow ==
  ASSUME FieldsInv, NEW r \in FieldRows
  PROVE  /\ Readable(r) => r.Offset + r.Size <= Length
         /\ r.Type = "UInt" /\ r.Size \in {1, 2, 4, 8} => (Readable(r) <=> Inside(r))
<1>1. /\ Length \in Nat /\ r.Offset \in Nat /\ r.Size \in Nat
      /\ r.Type \in {"UInt", "Raw"}
  BY BoundAssumption DEF FieldRows, FieldsInv, FieldsTypeOK
<1> QED
  BY <1>1 DEF Readable, ReadUInt, Get, Inside

LEMMA PrintedAreRows ==
  ASSUME FieldsInv
  PROVE  \A p \in printed : p \in FieldRows /\ Readable(p)
<1>1. ASSUME NEW fields \in Seq(FieldRows), NEW n \in 1 .. Len(fields) + 1
      PROVE  \A p \in RowsBefore(fields, n) : p \in FieldRows /\ Readable(p)
  <2>1. \A i \in 1 .. n - 1 : fields[i] \in FieldRows
    OBVIOUS
  <2> QED BY <2>1 DEF RowsBefore
<1>2. AcpiHeaderFields \in Seq(FieldRows) /\ Len(AcpiHeaderFields) \in Nat
  BY LayoutAssumption
<1>3. \A p \in HeaderRows : p \in FieldRows /\ Readable(p)
  BY <1>1, <1>2 DEF HeaderRows
<1>4. Known => OwnFields \in Seq(FieldRows) /\ Len(OwnFields) \in Nat
  BY LayoutAssumption DEF Known, OwnFields
<1>5. Known => \A p \in RowsBefore(OwnFields, Len(OwnFields) + 1) :
                 p \in FieldRows /\ Readable(p)
  BY <1>1, <1>4
<1>6. stage \in {"header", "table"} =>
        \A p \in RowsBefore(Fields, FieldIndex) : p \in FieldRows /\ Readable(p)
  BY <1>1, FieldsAreRows DEF FieldsInv, FieldsTypeOK
<1>7. CASE stage = "validate"
  BY <1>7 DEF FieldsInv
<1>8. CASE stage \in {"header", "table"}
  BY <1>3, <1>6, <1>8 DEF FieldsInv
<1>9. CASE stage = "done"
  BY <1>3, <1>5, <1>9 DEF FieldsInv
<1> QED
  BY <1>7, <1>8, <1>9 DEF FieldsInv, FieldsTypeOK

(* When the rows of ACPI.TypeInfo.h and of AcpiParser.cs are alike for     *)
(* every table, AcpiDecode and the managed parser give out the same        *)
(* numbers, for every length of the table up to any bound: what one of     *)
(* them finds beyond the end the other does, and none loses a row behind   *)
(* such a one.                                                             *)
THEOREM AlikeRowsShowTheSame ==
  ASSUME \A signature \in Signatures : RowsAlike(signature)
  PROVE  FieldsSpec => []FieldsAgree
<1>1. ASSUME FieldsInv PROVE FieldsAgree
  <2>1. FieldsTypeOK /\ RowsAlike(Signature)
    BY <1>1 DEF FieldsInv, FieldsTypeOK
  <2>2. \A p \in printed : p.Offset + p.Size <= Length
    BY <1>1, PrintedAreRows, ReadableRow
  <2>3. ASSUME stage = "done", Status = "Success"
        PROVE  { Bare(p) : p \in { q \in printed : q.Type = "UInt" } } = ManagedRows
    <3> DEFINE rows == Elements(AcpiHeaderFields) \cup
                       (IF Known THEN Elements(OwnFields) ELSE {})
    <3>1. printed = { r \in rows : Readable(r) }
      <4>1. HeaderRows = { r \in Elements(AcpiHeaderFields) : Readable(r) }
        BY AllRows, LayoutAssumption DEF HeaderRows
      <4>2. Known => RowsBefore(OwnFields, Len(OwnFields) + 1)
                       = { r \in Elements(OwnFields) : Readable(r) }
        BY AllRows, LayoutAssumption DEF Known, OwnFields
      <4> QED BY <1>1, <2>3, <4>1, <4>2 DEF FieldsInv
    <3>2. \A r \in rows : r \in FieldRows
      BY LayoutAssumption DEF Known, OwnFields, Elements
    <3>3. { Bare(r) : r \in { q \in rows : q.Type = "UInt" } }
            = Elements(GetFields(Signature))
      BY <2>1 DEF RowsAlike, Known, OwnFields
    <3>4. \A r \in Elements(GetFields(Signature)) : r.Size \in {1, 2, 4, 8}
      BY <2>1 DEF RowsAlike
    <3> HIDE DEF rows
    <3>5. ASSUME NEW r \in rows, r.Type = "UInt"
          PROVE  /\ Bare(r) \in Elements(GetFields(Signature))
                 /\ Bare(r).Size \in {1, 2, 4, 8}
                 /\ Readable(r) <=> Inside(Bare(r))
      <4>1. Bare(r) \in Elements(GetFields(Signature))
        BY <3>3, <3>5
      <4>2. Bare(r).Size \in {1, 2, 4, 8}
        BY <3>4, <4>1
      <4>3. Bare(r).Size = r.Size /\ Bare(r).Offset = r.Offset
        BY DEF Bare
      <4>4. Readable(r) <=> Inside(r)
        BY <1>1, <3>2, <3>5, <4>2, <4>3, ReadableRow
      <4> QED BY <4>1, <4>2, <4>3, <4>4 DEF Inside
    <3>6. ASSUME NEW p \in printed, p.Type = "UInt" PROVE Bare(p) \in ManagedRows
      BY <3>1, <3>5, <3>6 DEF ManagedRows
    <3>7. ASSUME NEW m \in ManagedRows
          PROVE  \E p \in printed : p.Type = "UInt" /\ m = Bare(p)
      <4>1. m \in Elements(GetFields(Signature)) /\ Inside(m)
        BY DEF ManagedRows
      <4>2. PICK r \in rows : r.Type = "UInt" /\ m = Bare(r)
        BY <3>3, <4>1
      <4> QED BY <3>1, <3>5, <4>1, <4>2
    <3> QED BY <3>6, <3>7
  <2>4. Known <=> Signature \in Descriptions
    BY <2>1 DEF RowsAlike, Known
  <2>5. Status = "Success" => Parses
    BY <1>1 DEF FieldsInv
  <2> QED BY <2>1, <2>2, <2>3, <2>4, <2>5 DEF FieldsAgree
<1> QED
  BY <1>1, FieldsInvariance, PTL
=============================================================================
