------------------------ MODULE SmbiosStringsProofs ------------------------
(***************************************************************************)
(* The two lookups find the string their index names and nothing else, the *)
(* printer shows the same strings and stays inside the region and inside   *)
(* its array: for every region of bytes, every index and every width of    *)
(* the counter.                                                            *)
(*                                                                         *)
(* All three go from one string to the next.  What they have in common is  *)
(* Reached: they stand at the start of the region or after a zero, and     *)
(* have passed nothing but strings.  A counter is exact as long as it is   *)
(* one more than the strings before that place; it never wraps, because    *)
(* the index, which fits a byte, is met first.                             *)
(***************************************************************************)
EXTENDS SmbiosStrings, FiniteSetTheorems, WellFoundedInduction, TLAPS

StartsText(i) == i = 0 \/ Byte1(i - 1) = 0

Reached(o) ==
  /\ o \in 0 .. Strings.Size
  /\ StartsText(o)
  /\ \A j \in 0 .. o - 1 : StartsText(j) => Byte1(j) # 0

Before(o) == Cardinality({ j \in 0 .. o - 1 : IsString(j) })

NativeInv ==
  /\ Reached(Offset) /\ Current = Before(Offset) + 1
  /\ turn = "native" /\ Index # 0 => Current <= Index

ManagedInv ==
  /\ Reached(start) /\ current = Before(start) + 1
  /\ turn \in {"native", "managed"} /\ Index # 0 => current <= Index

(* What an answer that found a string, or found none, says of the region.  *)
Resolved(found, text) ==
  IF found
  THEN /\ IsString(text.Start) /\ Number(text.Start) = Index
       /\ text = Text(text.Start)
  ELSE /\ text = NoText
       /\ \A i \in 0 .. Strings.Size - 1 : ~(IsString(i) /\ Number(i) = Index)

AnswerInv ==
  turn # "native" /\ Answer.Status # "InvalidArgument" =>
    IF Index = 0 THEN Answer = [Status |-> "Success", Text |-> NoText]
                 ELSE Resolved(Answer.Status = "Success", Answer.Text)

ManagedAnswerInv ==
  turn \in {"printer", "done"} =>
    IF Index = 0 THEN answer = [Ok |-> TRUE, Text |-> NoText]
                 ELSE Resolved(answer.Ok, answer.Text)

(* The printer takes a lone first zero for an empty string, which the      *)
(* lookups do not: its array is exact only without one.                    *)
Front == Byte1(0) # 0 \/ Strings.Size = 2

PrinterInv ==
  /\ turn = "printer" => StringSet(Strings)
  /\ StringSet(Strings) /\ Front =>
       /\ Reached(psz) /\ Len(array) = Before(psz)
       /\ \A k \in 1 .. Len(array) : IsString(array[k]) /\ Number(array[k]) = k
       /\ turn # "done" => Strings.Size = 2 \/ Byte1(psz) # 0
       /\ turn = "done" => ArrayFull \/ Byte1(psz) = 0

ReadsInside == \A i \in reads : i < Strings.Size

IInv ==
  /\ TypeOK /\ ReadsInside
  /\ NativeInv /\ ManagedInv /\ AnswerInv /\ ManagedAnswerInv /\ PrinterInv

-----------------------------------------------------------------------------
LEMMA RegionFacts ==
  ASSUME TypeOK
  PROVE  /\ Strings.Size \in Nat /\ SizeMax \in Nat /\ Strings.Size + 1 <= SizeMax
         /\ ByteMax \in Nat /\ ByteMax >= 1 /\ Index \in Nat /\ Index <= ByteMax
BY FirmwareAssumption, WidthAssumption DEF TypeOK, IsRegion

(* A set of natural numbers has a least element.                           *)
LEMMA Least ==
  ASSUME NEW T, T \subseteq Nat, T # {}
  PROVE  \E m \in T : \A k \in T : m <= k
<1> DEFINE R == OpToRel(<, Nat)
<1>1. IsWellFoundedOn(R, Nat)
  BY NatLessThanWellFounded
<1>2. \A k, m \in Nat : k < m => <<k, m>> \in R
  BY DEF OpToRel
<1> HIDE DEF R
<1>3. PICK m \in T : \A k \in T : ~(<<k, m>> \in R)
  BY <1>1, WFMin
<1>4. ASSUME NEW k \in T PROVE m <= k
  <2>1. k \in Nat /\ m \in Nat
    OBVIOUS
  <2>2. ~(k < m)
    BY <1>2, <1>3, <2>1
  <2> QED
    BY <2>1, <2>2
<1> QED
  BY <1>4

(* LengthFrom goes to the first zero and not beyond, or to the end.        *)
LEMMA LengthFacts ==
  ASSUME TypeOK, NEW i \in Nat, i <= Strings.Size
  PROVE  /\ LengthFrom(i) \in Nat /\ i + LengthFrom(i) <= Strings.Size
         /\ \A j \in Nat : i <= j /\ j < i + LengthFrom(i) => Byte1(j) # 0
         /\ Ends(i) => Byte1(i + LengthFrom(i)) = 0
         /\ \A z \in Nat : i <= z /\ z < Strings.Size /\ Byte1(z) = 0 =>
              Ends(i) /\ i + LengthFrom(i) <= z
<1> DEFINE zeroes == { z \in i .. Strings.Size - 1 : Byte1(z) = 0 }
           first == CHOOSE z \in zeroes : \A y \in zeroes : z <= y
<1>0. Strings.Size \in Nat
  BY RegionFacts
<1>1. LengthFrom(i) = IF zeroes = {} THEN Strings.Size - i ELSE first - i
  BY DEF LengthFrom
<1>2. CASE zeroes = {}
  <2>1. LengthFrom(i) = Strings.Size - i
    BY <1>1, <1>2
  <2>2. \A j \in Nat : i <= j /\ j < Strings.Size => Byte1(j) # 0
    BY <1>0, <1>2
  <2> HIDE DEF zeroes
  <2> QED
    BY <1>0, <2>1, <2>2 DEF Ends
<1>3. CASE zeroes # {}
  <2>1. LengthFrom(i) = first - i
    BY <1>1, <1>3
  <2>2. zeroes \subseteq Nat
    BY <1>0
  <2>3. \E z \in zeroes : \A y \in zeroes : z <= y
    BY <1>3, <2>2, Least
  <2>4. first \in zeroes /\ \A y \in zeroes : first <= y
    BY <2>3
  <2> HIDE DEF first
  <2>5. /\ first \in Nat /\ i <= first /\ first < Strings.Size
        /\ Byte1(first) = 0
    BY <1>0, <2>4
  <2>6. \A j \in Nat : i <= j /\ j < Strings.Size /\ Byte1(j) = 0 => first <= j
    BY <1>0, <2>4
  <2> HIDE DEF zeroes
  <2> QED
    BY <1>0, <2>1, <2>5, <2>6 DEF Ends
<1> QED
  BY <1>2, <1>3

-----------------------------------------------------------------------------
(* Counting strings.                                                       *)
LEMMA BeforeFacts ==
  ASSUME NEW o \in Nat
  PROVE  /\ IsFiniteSet({ j \in 0 .. o - 1 : IsString(j) }) /\ Before(o) \in Nat
         /\ \A p \in Nat : p <= o => Before(p) <= Before(o)
<1> DEFINE S(n) == { j \in 0 .. n - 1 : IsString(j) }
<1>1. IsFiniteSet(0 .. o - 1)
  BY FS_Interval
<1>2. IsFiniteSet(S(o))
  <2>1. S(o) \in SUBSET (0 .. o - 1)
    OBVIOUS
  <2> HIDE DEF S
  <2> QED
    BY <1>1, <2>1, FS_Subset
<1>3. ASSUME NEW p \in Nat, p <= o PROVE Cardinality(S(p)) <= Cardinality(S(o))
  <2>1. S(p) \in SUBSET S(o)
    BY <1>3
  <2> HIDE DEF S
  <2> QED
    BY <1>2, <2>1, FS_Subset
<1>4. Cardinality(S(o)) \in Nat
  <2> HIDE DEF S
  <2> QED
    BY <1>2, FS_CardinalityType
<1> QED
  BY <1>2, <1>3, <1>4 DEF Before

(* The number of a string is one more than the strings before it.          *)
LEMMA NumberIs ==
  ASSUME NEW i \in Nat, IsString(i)
  PROVE  Number(i) = Before(i) + 1 /\ Before(i + 1) = Before(i) + 1
<1> DEFINE S == { j \in 0 .. i - 1 : IsString(j) }
<1>1. { j \in 0 .. i : IsString(j) } = S \cup {i}
  OBVIOUS
<1>2. { j \in 0 .. (i + 1) - 1 : IsString(j) } = S \cup {i}
  OBVIOUS
<1>3. i \notin S
  OBVIOUS
<1>4. IsFiniteSet(S) /\ Before(i) = Cardinality(S)
  BY BeforeFacts DEF Before
<1> HIDE DEF S
<1>5. Cardinality(S \cup {i}) = Cardinality(S) + 1
  BY <1>3, <1>4, FS_AddElement
<1> QED
  BY <1>1, <1>2, <1>4, <1>5 DEF Number, Before

(* No two strings have the same number.                                    *)
LEMMA NumberUnique ==
  ASSUME NEW i, IsString(i), NEW k, IsString(k), Number(i) = Number(k), TypeOK
  PROVE  i = k
<1>1. i \in Nat /\ k \in Nat
  BY RegionFacts DEF IsString
<1>2. ASSUME NEW a \in Nat, NEW c \in Nat, IsString(a), IsString(c), a < c
      PROVE  Number(a) # Number(c)
  <2>1. Before(a + 1) <= Before(c) /\ Before(a) \in Nat /\ Before(c) \in Nat
    <3>1. a + 1 \in Nat /\ a + 1 <= c
      BY <1>2
    <3>2. /\ Before(a) \in Nat /\ Before(c) \in Nat
          /\ \A p \in Nat : p <= c => Before(p) <= Before(c)
      BY BeforeFacts
    <3> QED
      BY <3>1, <3>2
  <2>2. /\ Number(a) = Before(a) + 1 /\ Before(a + 1) = Before(a) + 1
        /\ Number(c) = Before(c) + 1
    BY <1>2, NumberIs
  <2> QED
    BY <2>1, <2>2
<1> QED
  BY <1>1, <1>2

(* The number of a string before o is no more than the strings before o.   *)
LEMMA NumberBelow ==
  ASSUME NEW i \in Nat, IsString(i), NEW o \in Nat, i < o
  PROVE  Number(i) <= Before(o) /\ Number(i) \in Nat
<1>1. Before(i + 1) <= Before(o) /\ Before(i) \in Nat
  <2>1. i + 1 \in Nat /\ i + 1 <= o
    OBVIOUS
  <2>2. Before(i) \in Nat /\ \A p \in Nat : p <= o => Before(p) <= Before(o)
    BY BeforeFacts
  <2> QED
    BY <2>1, <2>2
<1> QED
  BY <1>1, NumberIs

LEMMA AtStart ==
  ASSUME TypeOK
  PROVE  Reached(0) /\ Before(0) = 0
<1>1. Reached(0)
  BY RegionFacts DEF Reached, StartsText
<1>2. { j \in 0 .. 0 - 1 : IsString(j) } = {}
  OBVIOUS
<1> QED
  BY <1>1, <1>2, FS_EmptySet DEF Before

(* Where a place is reached and a text there is not empty and ends, that   *)
(* text is a string, and the place after its zero is reached in turn with  *)
(* one more string before it.                                              *)
LEMMA StringHere ==
  ASSUME TypeOK, NEW o \in Nat, Reached(o), o < Strings.Size, Byte1(o) # 0, Ends(o)
  PROVE  IsString(o) /\ Number(o) = Before(o) + 1
<1>1. IsString(o)
  BY RegionFacts DEF Reached, StartsText, IsString
<1> QED
  BY <1>1, NumberIs

LEMMA NextReached ==
  ASSUME TypeOK, NEW o \in Nat, Reached(o), o < Strings.Size, Byte1(o) # 0, Ends(o),
         NEW n, n = o + LengthFrom(o) + 1
  PROVE  /\ n \in Nat /\ n <= Strings.Size /\ Reached(n)
         /\ Before(n) = Before(o) + 1
<1>1. /\ LengthFrom(o) \in Nat /\ o + LengthFrom(o) < Strings.Size
      /\ \A j \in Nat : o <= j /\ j < o + LengthFrom(o) => Byte1(j) # 0
      /\ Byte1(o + LengthFrom(o)) = 0
      /\ Strings.Size \in Nat
  BY LengthFacts, RegionFacts DEF Ends
<1>2. n \in Nat /\ o + 1 <= n /\ n <= Strings.Size /\ n - 1 = o + LengthFrom(o)
  BY <1>1
<1>3. \A j \in Nat : o < j /\ j < n => j # 0 /\ Byte1(j - 1) # 0
  BY <1>1
<1>4. Reached(n)
  <2>1. StartsText(n)
    BY <1>1, <1>2 DEF StartsText
  <2>2. ASSUME NEW j \in 0 .. n - 1, StartsText(j) PROVE Byte1(j) # 0
    <3>1. CASE j < o
      BY <1>2, <2>2, <3>1 DEF Reached
    <3>2. CASE j = o
      BY <3>2
    <3>3. CASE j > o
      BY <1>2, <1>3, <2>2, <3>3 DEF StartsText
    <3> QED
      BY <3>1, <3>2, <3>3
  <2> QED
    BY <1>1, <1>2, <2>1, <2>2 DEF Reached
<1>5. IsString(o)
  BY StringHere
<1>6. { j \in 0 .. n - 1 : IsString(j) } = { j \in 0 .. (o + 1) - 1 : IsString(j) }
  BY <1>2, <1>3 DEF IsString
<1>7. Before(n) = Before(o) + 1
  BY <1>5, <1>6, NumberIs DEF Before
<1> QED
  BY <1>2, <1>4, <1>7

(* Where the text is empty or does not end there are no more strings.      *)
LEMMA NoneBeyond ==
  ASSUME TypeOK, NEW o \in Nat, Reached(o),
         o >= Strings.Size \/ Byte1(o) = 0 \/ ~Ends(o),
         NEW i, IsString(i)
  PROVE  i \in Nat /\ i < o
<1>1. /\ i \in Nat /\ i < Strings.Size /\ o <= Strings.Size
      /\ i # 0 => Byte1(i - 1) = 0
      /\ \A j \in 0 .. i : StartsText(j) => Byte1(j) # 0
      /\ Ends(i) /\ Strings.Size \in Nat
  BY RegionFacts DEF IsString, Reached, StartsText
<1>2. ASSUME o <= i PROVE FALSE
  <2>1. o \in 0 .. i /\ Byte1(o) # 0
    BY <1>1, <1>2 DEF Reached
  <2>2. i # o /\ ~Ends(o)
    BY <1>1, <1>2, <2>1
  <2>3. i - 1 \in Nat /\ o <= i - 1 /\ i - 1 < Strings.Size /\ Byte1(i - 1) = 0
    BY <1>1, <1>2, <2>2
  <2> QED
    BY <1>1, <2>2, <2>3, LengthFacts
<1> QED
  BY <1>1, <1>2

(* A lookup that has come to the string its index names answers with it,   *)
(* and one that finds no more strings has passed none of that number.      *)
LEMMA FoundIsResolved ==
  ASSUME TypeOK, NEW o \in Nat, Reached(o), o < Strings.Size, Byte1(o) # 0, Ends(o),
         Before(o) + 1 = Index
  PROVE  Resolved(TRUE, Text(o))
<1>1. IsString(o) /\ Number(o) = Index
  BY StringHere
<1>2. Text(o).Start = o
  BY DEF Text
<1> QED
  BY <1>1, <1>2 DEF Resolved

LEMMA NoneIsResolved ==
  ASSUME TypeOK, NEW o \in Nat, Reached(o), Before(o) + 1 <= Index,
         o >= Strings.Size \/ Byte1(o) = 0 \/ ~Ends(o)
  PROVE  Resolved(FALSE, NoText)
<1>1. ASSUME NEW i \in 0 .. Strings.Size - 1, IsString(i) PROVE Number(i) # Index
  <2>1. i \in Nat /\ i < o
    BY <1>1, NoneBeyond
  <2> QED
    <3>1. Number(i) <= Before(o) /\ Number(i) \in Nat
      BY <1>1, <2>1, NumberBelow
    <3>2. Before(o) \in Nat
      BY BeforeFacts
    <3> QED
      BY <3>1, <3>2, RegionFacts
<1> QED
  BY <1>1 DEF Resolved

-----------------------------------------------------------------------------
(* What no step changes: the arguments, and what they say.                 *)
LEMMA RegionStays ==
  ASSUME UNCHANGED arguments
  PROVE  /\ Strings' = Strings /\ Index' = Index
         /\ \A i : Byte1(i)' = Byte1(i) /\ Reached(i)' = Reached(i)
         /\ \A i : Before(i)' = Before(i)
         /\ \A i : IsString(i)' = IsString(i) /\ Number(i)' = Number(i)
         /\ Front' = Front
         /\ \A f, t : Resolved(f, t)' = Resolved(f, t)
BY DEF arguments, Byte1, Reached, StartsText, Before, IsString, Number, Ends,
       LengthFrom, Front, Resolved, Text

LEMMA TextType ==
  ASSUME TypeOK, NEW i \in Nat, i <= Strings.Size
  PROVE  Text(i) \in Texts
BY LengthFacts DEF Text, Texts

LEMMA NoTextType == NoText \in Texts
BY DEF NoText, Texts

LEMMA InitIInv == Init => IInv
<1> SUFFICES ASSUME Init PROVE IInv
  OBVIOUS
<1>1. TypeOK
  <2>1. << >> \in Seq(Nat) /\ Len(<< >>) = 0
    OBVIOUS
  <2>2. /\ [Status |-> "Success", Text |-> NoText] \in [Status : Statuses, Text : Texts]
        /\ [Ok |-> FALSE, Text |-> NoText] \in [Ok : BOOLEAN, Text : Texts]
    BY NoTextType DEF Statuses
  <2>3. IsRegion(Strings)
    BY RegionAssumption DEF Init
  <2>4. 0 \in 0 .. SizeMax /\ 1 \in 0 .. ByteMax /\ 0 <= ByteMax
    BY FirmwareAssumption, WidthAssumption
  <2> QED
    BY <2>1, <2>2, <2>3, <2>4 DEF Init, TypeOK
<1>2. Reached(0) /\ Before(0) = 0
  BY <1>1, AtStart
<1>3. ReadsInside
  BY DEF Init, ReadsInside
<1>4. Index # 0 => 1 <= Index
  BY <1>1, RegionFacts
<1>5. NativeInv /\ ManagedInv
  BY <1>2, <1>4 DEF Init, NativeInv, ManagedInv
<1>6. PrinterInv
  <2>1. Front => Strings.Size = 2 \/ Byte1(0) # 0
    BY DEF Front
  <2>2. psz = 0 /\ Len(array) = 0 /\ turn = "native"
    BY DEF Init
  <2> QED
    BY <1>2, <2>1, <2>2 DEF PrinterInv
<1> QED
  BY <1>1, <1>3, <1>5, <1>6 DEF Init, IInv, AnswerInv, ManagedAnswerInv

-----------------------------------------------------------------------------
(* SmbiosGetString.                                                        *)
LEMMA ReturnIInv ==
  ASSUME IInv, turn = "native",
         NEW s \in Statuses, NEW t \in Texts, Return(s, t),
         s # "InvalidArgument" =>
           IF Index = 0 THEN s = "Success" /\ t = NoText
                        ELSE Resolved(s = "Success", t)
  PROVE  IInv'
<1>1. /\ Answer' = [Status |-> s, Text |-> t] /\ turn' = "managed"
      /\ UNCHANGED <<arguments, Offset, Current, managed, printer>>
  BY DEF Return
<1>2. UNCHANGED <<Offset, Current, start, current, answer, psz, array, reads>>
  BY <1>1 DEF managed, printer
<1>3. TypeOK'
  BY <1>1, <1>2 DEF IInv, TypeOK, arguments
<1>4. ReadsInside' /\ NativeInv' /\ ManagedInv' /\ ManagedAnswerInv'
  BY <1>1, <1>2, RegionStays
     DEF IInv, ReadsInside, NativeInv, ManagedInv, ManagedAnswerInv
<1>5. AnswerInv'
  BY <1>1, RegionStays DEF AnswerInv
<1>6. PrinterInv'
  BY <1>1, <1>2, RegionStays DEF IInv, PrinterInv
<1> QED
  BY <1>3, <1>4, <1>5, <1>6 DEF IInv

(* Plus does not wrap: no region is as large as SIZE_MAX.                  *)
LEMMA NativeFacts ==
  ASSUME IInv
  PROVE  /\ TypeOK /\ Offset \in Nat /\ Reached(Offset)
         /\ Offset <= Strings.Size /\ Strings.Size \in Nat
         /\ MoreStrings => Offset < Strings.Size /\ Byte1(Offset) # 0
         /\ ~MoreStrings => \/ Offset >= Strings.Size
                            \/ Byte1(Offset) = 0
                            \/ ~Ends(Offset)
<1>1. TypeOK /\ Reached(Offset)
  BY DEF IInv, NativeInv
<1>2. /\ Offset \in Nat /\ Offset <= Strings.Size /\ Strings.Size \in Nat
      /\ Plus(Offset, 1) = Offset + 1
  BY <1>1, RegionFacts DEF Reached, Plus
<1>3. MoreStrings <=> Offset + 1 < Strings.Size /\ Byte1(Offset) # 0
  BY <1>2 DEF MoreStrings
<1>4. ASSUME Offset + 1 = Strings.Size, Byte1(Offset) # 0 PROVE ~Ends(Offset)
  <2>1. ASSUME Ends(Offset) PROVE FALSE
    <3>1. Byte1(Offset + LengthFrom(Offset)) = 0 /\ LengthFrom(Offset) \in Nat
      BY <1>1, <1>2, <2>1, LengthFacts
    <3>2. LengthFrom(Offset) = 0
      BY <1>2, <1>4, <2>1, <3>1 DEF Ends
    <3> QED
      BY <1>2, <1>4, <3>1, <3>2
  <2> QED
    BY <2>1
<1>5. CASE Offset + 1 = Strings.Size
  BY <1>1, <1>2, <1>3, <1>4, <1>5
<1>6. CASE Offset + 1 # Strings.Size
  BY <1>1, <1>2, <1>3, <1>6
<1> QED
  BY <1>5, <1>6

LEMMA NativeIInv ==
  ASSUME IInv,
         NullArgument \/ EmptyText \/ NoSuchString \/ Unterminated
         \/ SmbiosGetString \/ SkipString
  PROVE  IInv'
<1>0. /\ TypeOK /\ NoText \in Texts /\ Current = Before(Offset) + 1
      /\ Before(Offset) \in Nat
  BY NativeFacts, NoTextType, BeforeFacts DEF IInv, NativeInv
<1>1. CASE NullArgument
  BY <1>0, <1>1, ReturnIInv DEF NullArgument, Statuses
<1>2. CASE EmptyText
  BY <1>0, <1>2, ReturnIInv DEF EmptyText, Statuses
<1>3. CASE NoSuchString \/ Unterminated
  <2>1. PICK s \in {"InvalidLength", "MissingTerminator"} : Return(s, NoText)
    BY <1>3 DEF NoSuchString, Unterminated
  <2>2. /\ turn = "native" /\ Index # 0 /\ Before(Offset) + 1 <= Index
        /\ Offset >= Strings.Size \/ Byte1(Offset) = 0 \/ ~Ends(Offset)
    BY <1>0, <1>3, NativeFacts
       DEF NoSuchString, Unterminated, Searching, IInv, NativeInv
  <2>3. Resolved(FALSE, NoText)
    BY <1>0, <2>2, NativeFacts, NoneIsResolved
  <2>4. s \in Statuses /\ (s = "Success") = FALSE
    BY <2>1 DEF Statuses
  <2>5. Resolved(s = "Success", NoText)
    BY <2>3, <2>4, Zenon
  <2> QED
    BY <1>0, <2>1, <2>2, <2>4, <2>5, ReturnIInv
<1>4. CASE SmbiosGetString
  <2>1. /\ turn = "native" /\ Index # 0 /\ MoreStrings /\ Ends(Offset)
        /\ Current = Index /\ Return("Success", Text(Offset))
    BY <1>4 DEF SmbiosGetString, Searching
  <2>2. Resolved(TRUE, Text(Offset))
    BY <1>0, <2>1, NativeFacts, FoundIsResolved
  <2>3. Text(Offset) \in Texts /\ "Success" \in Statuses
    BY NativeFacts, TextType DEF Statuses
  <2>4. Resolved("Success" = "Success", Text(Offset))
    BY <2>2, Zenon
  <2> QED
    BY <2>1, <2>3, <2>4, ReturnIInv
<1>5. CASE SkipString
  <2>1. /\ turn = "native" /\ Index # 0 /\ MoreStrings /\ Ends(Offset)
        /\ Current # Index /\ Current' = Counted /\ Offset' = NextString
        /\ UNCHANGED <<arguments, Answer, managed, printer, turn>>
    BY <1>5 DEF SkipString, Searching
  <2>2. /\ NextString \in Nat /\ NextString <= Strings.Size /\ Reached(NextString)
        /\ Before(NextString) = Before(Offset) + 1
    BY <1>0, <2>1, NativeFacts, NextReached DEF NextString
  <2>3. Current + 1 <= Index /\ Counted = Current + 1 /\ Current + 1 \in 0 .. ByteMax
    <3>1. Current <= Index
      BY <2>1 DEF IInv, NativeInv
    <3>2. /\ Current \in Nat /\ Index \in Nat /\ Index <= ByteMax /\ ByteMax \in Nat
      BY <1>0, RegionFacts
    <3>3. Current + 1 <= Index /\ Current + 1 <= ByteMax
      BY <2>1, <3>1, <3>2
    <3>4. (Current + 1) % (ByteMax + 1) = Current + 1
      BY <3>2, <3>3
    <3> QED
      BY <3>2, <3>3, <3>4 DEF Counted
  <2>4. UNCHANGED <<start, current, answer, psz, array, reads, Answer, turn>>
    BY <2>1 DEF managed, printer
  <2>5. TypeOK'
    <3>1. NextString \in 0 .. SizeMax
      BY <1>0, <2>2, RegionFacts
    <3> QED
      BY <1>0, <2>1, <2>3, <2>4, <3>1 DEF TypeOK, arguments
  <2>6. NativeInv'
    BY <1>0, <2>1, <2>2, <2>3, RegionStays DEF NativeInv
  <2>7. ReadsInside' /\ ManagedInv' /\ AnswerInv' /\ ManagedAnswerInv'
    BY <2>1, <2>4, RegionStays
       DEF IInv, ReadsInside, ManagedInv, AnswerInv, ManagedAnswerInv
  <2>8. PrinterInv'
    BY <2>1, <2>4, RegionStays DEF IInv, PrinterInv
  <2> QED
    BY <2>5, <2>6, <2>7, <2>8 DEF IInv
<1> QED
  BY <1>1, <1>2, <1>3, <1>4, <1>5

-----------------------------------------------------------------------------
(* TryGetString.                                                           *)
LEMMA ReturnManagedIInv ==
  ASSUME IInv, turn = "managed",
         NEW ok \in BOOLEAN, NEW t \in Texts, ReturnManaged(ok, t),
         IF Index = 0 THEN ok = TRUE /\ t = NoText ELSE Resolved(ok, t)
  PROVE  IInv'
<1>1. /\ answer' = [Ok |-> ok, Text |-> t]
      /\ turn' = IF StringSet(Strings) THEN "printer" ELSE "done"
      /\ UNCHANGED <<arguments, native, start, current, printer>>
  BY DEF ReturnManaged
<1>2. UNCHANGED <<Offset, Current, Answer, psz, array, reads>>
  BY <1>1 DEF native, printer
<1>3. turn' \in {"printer", "done"} /\ (turn' = "printer" <=> StringSet(Strings))
  BY <1>1
<1>4. TypeOK'
  <2>1. answer' \in [Ok : BOOLEAN, Text : Texts]
    BY <1>1, Zenon
  <2> QED
    BY <1>1, <1>2, <1>3, <2>1 DEF IInv, TypeOK, arguments
<1>5. ReadsInside' /\ NativeInv' /\ ManagedInv' /\ AnswerInv'
  BY <1>1, <1>2, <1>3, RegionStays
     DEF IInv, ReadsInside, NativeInv, ManagedInv, AnswerInv
<1>6. ManagedAnswerInv'
  <2>1. answer'.Ok = ok /\ answer'.Text = t
    BY <1>1, Zenon
  <2>2. CASE Index = 0
    BY <1>1, <2>2, RegionStays DEF ManagedAnswerInv
  <2>3. CASE Index # 0
    <3>1. Resolved(ok, t)
      BY <2>3
    <3>2. Resolved(answer'.Ok, answer'.Text)
      BY <2>1, <3>1, Zenon
    <3> QED
      BY <1>1, <2>3, <3>2, RegionStays DEF ManagedAnswerInv
  <2> QED
    BY <2>2, <2>3
<1>7. PrinterInv'
  <2>1. StringSet(Strings)' = StringSet(Strings)
    BY <1>1 DEF arguments, StringSet, DoubleNul
  <2> QED
    BY <1>1, <1>2, <1>3, <2>1, RegionStays DEF IInv, PrinterInv
<1> QED
  BY <1>4, <1>5, <1>6, <1>7 DEF IInv

LEMMA ManagedIInv ==
  ASSUME IInv, NullText \/ NotFound \/ TryGetString \/ SkipManaged
  PROVE  IInv'
<1>0. /\ TypeOK /\ NoText \in Texts /\ current = Before(start) + 1
      /\ Before(start) \in Nat /\ turn = "managed" /\ Index \in Nat
      /\ start \in Nat /\ start <= Strings.Size /\ Strings.Size \in Nat
      /\ Reached(start)
  <2>1. TypeOK /\ Reached(start) /\ current = Before(start) + 1
    BY DEF IInv, ManagedInv
  <2>2. start \in Nat /\ start <= Strings.Size /\ Strings.Size \in Nat /\ Index \in Nat
    BY <2>1, RegionFacts DEF Reached
  <2> QED
    BY <2>1, <2>2, NoTextType, BeforeFacts
       DEF NullText, NotFound, TryGetString, SkipManaged, Resolving
<1>1. CASE NullText
  BY <1>0, <1>1, ReturnManagedIInv DEF NullText
<1>2. CASE NotFound
  <2>1. Index # 0 /\ NoMore /\ ReturnManaged(FALSE, NoText) /\ current <= Index
    BY <1>0, <1>2 DEF NotFound, Resolving, IInv, ManagedInv
  <2>2. Resolved(FALSE, NoText)
    BY <1>0, <2>1, NoneIsResolved DEF NoMore
  <2> QED
    BY <1>0, <2>1, <2>2, ReturnManagedIInv
<1>3. CASE TryGetString
  <2>1. /\ Index # 0 /\ ~NoMore /\ current = Index
        /\ ReturnManaged(TRUE, Text(start))
    BY <1>3 DEF TryGetString, Resolving, IsCurrent
  <2>2. start < Strings.Size /\ Byte1(start) # 0 /\ Ends(start)
    BY <1>0, <2>1 DEF NoMore
  <2>3. Resolved(TRUE, Text(start))
    BY <1>0, <2>1, <2>2, FoundIsResolved
  <2>4. Text(start) \in Texts
    BY <1>0, TextType
  <2> QED
    BY <1>0, <2>1, <2>3, <2>4, ReturnManagedIInv
<1>4. CASE SkipManaged
  <2> DEFINE n == start + LengthFrom(start) + 1
  <2>1. /\ Index # 0 /\ ~NoMore /\ current # Index
        /\ start' = n /\ current' = current + 1
        /\ UNCHANGED <<arguments, native, answer, printer, turn>>
    BY <1>4 DEF SkipManaged, Resolving, IsCurrent
  <2>2. start < Strings.Size /\ Byte1(start) # 0 /\ Ends(start)
    BY <1>0, <2>1 DEF NoMore
  <2>3. /\ n \in Nat /\ n <= Strings.Size /\ Reached(n)
        /\ Before(n) = Before(start) + 1
    BY <1>0, <2>2, NextReached
  <2> HIDE DEF n
  <2>4. UNCHANGED <<Offset, Current, Answer, psz, array, reads>>
    BY <2>1 DEF native, printer
  <2>5. current + 1 <= Index
    <3>1. current <= Index
      BY <1>0, <2>1 DEF IInv, ManagedInv
    <3> QED
      BY <1>0, <2>1, <3>1
  <2>6. TypeOK'
    <3>1. n \in 0 .. SizeMax /\ current + 1 \in Nat \ {0}
      BY <1>0, <2>3, RegionFacts
    <3> QED
      BY <1>0, <2>1, <2>4, <3>1 DEF TypeOK, arguments
  <2>7. ManagedInv'
    BY <1>0, <2>1, <2>3, <2>5, RegionStays DEF ManagedInv
  <2>8. ReadsInside' /\ NativeInv' /\ AnswerInv' /\ ManagedAnswerInv'
    BY <1>0, <2>1, <2>4, RegionStays
       DEF IInv, ReadsInside, NativeInv, AnswerInv, ManagedAnswerInv
  <2>9. PrinterInv'
    <3>1. StringSet(Strings)' = StringSet(Strings)
      BY <2>1 DEF arguments, StringSet, DoubleNul
    <3> QED
      BY <1>0, <2>1, <2>4, <3>1, RegionStays DEF IInv, PrinterInv
  <2> QED
    BY <2>6, <2>7, <2>8, <2>9 DEF IInv
<1> QED
  BY <1>1, <1>2, <1>3, <1>4

-----------------------------------------------------------------------------
(* PrintSmbiosTable.  A string set ends with its first two zeroes in a     *)
(* row, so that a text the printer looks at has another byte behind it.    *)
LEMMA PairFacts ==
  ASSUME IInv, turn = "printer", NEW r, r = PairReads
  PROVE  r \in SUBSET Nat /\ \A i \in r : i < Strings.Size
<1>1. psz \in Nat /\ Strings.Size \in Nat
  BY RegionFacts DEF IInv, TypeOK
<1> QED
  BY <1>1 DEF PairReads

LEMMA AddFacts ==
  ASSUME IInv, turn = "printer", ~Stops
  PROVE  /\ psz \in Nat /\ psz + 2 < Strings.Size /\ Strings.Size \in Nat
         /\ Ends(psz) /\ Following \in Nat /\ Following < Strings.Size
         /\ Len(array) < ByteMax
<1>1. /\ TypeOK /\ StringSet(Strings) /\ psz \in Nat /\ Strings.Size \in Nat
      /\ Len(array) \in Nat /\ Len(array) <= ByteMax /\ ByteMax \in Nat
  BY RegionFacts DEF IInv, TypeOK, PrinterInv
<1>2. /\ psz + 2 <= Strings.Size /\ ~DoubleNul(Strings, psz)
      /\ Ends(psz) /\ Len(array) < ByteMax
  BY <1>1 DEF Stops, ArrayFull
<1>3. DoubleNul(Strings, Strings.Size - 2)
  BY <1>1 DEF StringSet
<1>4. psz + 2 < Strings.Size
  <2>1. psz # Strings.Size - 2
    BY <1>2, <1>3
  <2> QED
    BY <1>1, <1>2, <2>1
<1>5. Byte1(Strings.Size - 2) = 0
  BY <1>3 DEF DoubleNul, Byte1
<1>6. LengthFrom(psz) \in Nat /\ psz + LengthFrom(psz) <= Strings.Size - 2
  <2>1. psz <= Strings.Size /\ Strings.Size - 2 \in Nat /\ psz <= Strings.Size - 2
        /\ Strings.Size - 2 < Strings.Size
    BY <1>1, <1>4
  <2> QED
    BY <1>1, <1>5, <2>1, LengthFacts
<1> QED
  BY <1>1, <1>2, <1>4, <1>6 DEF Following

(* A printer that stops has all strings, or as many as the array holds.    *)
LEMMA PrintStringsIInv ==
  ASSUME IInv, PrintStrings
  PROVE  IInv'
<1>1. /\ turn = "printer" /\ Stops /\ reads' = PairReads /\ turn' = "done"
      /\ UNCHANGED <<arguments, native, managed, psz, array>>
  BY DEF PrintStrings
<1>2. UNCHANGED <<Offset, Current, Answer, start, current, answer>>
  BY <1>1 DEF native, managed
<1>3. reads' \in SUBSET Nat /\ \A i \in reads' : i < Strings.Size
  BY <1>1, PairFacts
<1>4. TypeOK'
  BY <1>1, <1>2, <1>3 DEF IInv, TypeOK, arguments
<1>5. ReadsInside'
  BY <1>1, <1>3 DEF ReadsInside, arguments
<1>6. NativeInv' /\ ManagedInv' /\ AnswerInv' /\ ManagedAnswerInv'
  BY <1>1, <1>2, RegionStays
     DEF IInv, NativeInv, ManagedInv, AnswerInv, ManagedAnswerInv
<1>7. ASSUME StringSet(Strings), Front
      PROVE  ArrayFull \/ Byte1(psz) = 0
  <2>1. /\ TypeOK /\ Strings.Size \in Nat /\ psz \in Nat /\ psz <= Strings.Size
        /\ Strings.Size = 2 \/ Byte1(psz) # 0
    BY <1>1, <1>7, RegionFacts DEF IInv, PrinterInv, Reached
  <2>2. /\ Strings.Size >= 2
        /\ DoubleNul(Strings, Strings.Size - 2)
    BY <1>7, <2>1 DEF StringSet
  <2>3. Byte1(Strings.Size - 2) = 0 /\ Byte1(Strings.Size - 1) = 0
    <3>1. Strings.Size - 2 + 1 = Strings.Size - 1
      BY <2>1
    <3> QED
      BY <2>2, <3>1 DEF DoubleNul, Byte1
  <2>4. CASE Byte1(psz) = 0
    BY <2>4
  <2>5. CASE Byte1(psz) # 0
    <3>1. psz # Strings.Size - 2 /\ psz # Strings.Size - 1
      BY <2>3, <2>5
    <3>2. psz # Strings.Size
      BY <2>1, <2>5 DEF Byte1, ByteAt
    <3>3. Strings.Size - psz >= 2 /\ psz <= Strings.Size - 2
          /\ Strings.Size - 2 < Strings.Size /\ Strings.Size - 2 \in Nat
      BY <2>1, <2>2, <3>1, <3>2
    <3>4. Ends(psz)
      BY <2>1, <2>3, <3>3, LengthFacts
    <3>5. ~DoubleNul(Strings, psz)
      BY <2>5 DEF DoubleNul, Byte1
    <3>6. ~(Strings.Size - psz < 2)
      BY <2>1, <3>3
    <3> QED
      BY <1>1, <3>4, <3>5, <3>6 DEF Stops
  <2> QED
    BY <2>4, <2>5
<1>8. PrinterInv'
  <2>1. StringSet(Strings)' = StringSet(Strings) /\ ArrayFull' = ArrayFull
    BY <1>1 DEF arguments, StringSet, DoubleNul, ArrayFull
  <2>2. \A k : (IsString(array[k]) /\ Number(array[k]) = k)'
               = (IsString(array[k]) /\ Number(array[k]) = k)
    BY <1>1, RegionStays
  <2> QED
    BY <1>1, <1>7, <2>1, <2>2, RegionStays DEF IInv, PrinterInv
<1> QED
  BY <1>4, <1>5, <1>6, <1>8 DEF IInv

LEMMA AddStringIInv ==
  ASSUME IInv, AddString
  PROVE  IInv'
<1>1. /\ turn = "printer" /\ ~Stops /\ array' = Append(array, psz)
      /\ psz' = Following /\ reads' = PairReads \cup {Following}
      /\ turn' = IF Byte1(Following) = 0 THEN "done" ELSE "printer"
      /\ UNCHANGED <<arguments, native, managed>>
  BY DEF AddString
<1>2. UNCHANGED <<Offset, Current, Answer, start, current, answer>>
  BY <1>1 DEF native, managed
<1>3. /\ psz \in Nat /\ psz + 2 < Strings.Size /\ Strings.Size \in Nat
      /\ Ends(psz) /\ Following \in Nat /\ Following < Strings.Size
      /\ Len(array) < ByteMax
  BY <1>1, AddFacts
<1>4. reads' \in SUBSET Nat /\ \A i \in reads' : i < Strings.Size
  BY <1>1, <1>3, PairFacts
<1>5. /\ array \in Seq(Nat) /\ array' \in Seq(Nat) /\ Len(array) \in Nat
      /\ Len(array') = Len(array) + 1 /\ array'[Len(array) + 1] = psz
      /\ \A k \in 1 .. Len(array) : array'[k] = array[k]
  BY <1>1, <1>3 DEF IInv, TypeOK
<1>6. turn' \in {"printer", "done"} /\ (turn' = "done" <=> Byte1(Following) = 0)
  BY <1>1
<1>7. TypeOK'
  <2>1. Len(array') <= ByteMax
    BY <1>3, <1>5, WidthAssumption
  <2> QED
    BY <1>1, <1>2, <1>3, <1>4, <1>5, <1>6, <2>1 DEF IInv, TypeOK, arguments
<1>8. ReadsInside'
  BY <1>1, <1>4 DEF ReadsInside, arguments
<1>9. NativeInv' /\ ManagedInv' /\ AnswerInv' /\ ManagedAnswerInv'
  BY <1>1, <1>2, <1>6, RegionStays
     DEF IInv, NativeInv, ManagedInv, AnswerInv, ManagedAnswerInv
<1>10. PrinterInv'
  <2>1. StringSet(Strings)' = StringSet(Strings)
    BY <1>1 DEF arguments, StringSet, DoubleNul
  <2>2. StringSet(Strings)
    BY <1>1 DEF IInv, PrinterInv
  <2>3. CASE ~Front
    BY <2>1, <2>2, <2>3, <1>1, RegionStays DEF PrinterInv
  <2>4. CASE Front
    <3>1. /\ TypeOK /\ Reached(psz) /\ Len(array) = Before(psz)
          /\ \A k \in 1 .. Len(array) : IsString(array[k]) /\ Number(array[k]) = k
          /\ Byte1(psz) # 0
      BY <1>1, <1>3, <2>2, <2>4 DEF IInv, PrinterInv
    <3>2. psz < Strings.Size
      BY <1>3
    <3>3. IsString(psz) /\ Number(psz) = Before(psz) + 1
      BY <1>3, <3>1, <3>2, StringHere
    <3>4. Reached(Following) /\ Before(Following) = Before(psz) + 1
      BY <1>3, <3>1, <3>2, NextReached DEF Following
    <3>5. ASSUME NEW k \in 1 .. Len(array) + 1
          PROVE  IsString(array'[k]) /\ Number(array'[k]) = k
      <4>1. CASE k = Len(array) + 1
        BY <1>5, <3>1, <3>3, <4>1
      <4>2. CASE k # Len(array) + 1
        <5>1. k \in 1 .. Len(array)
          BY <1>5, <4>2
        <5> QED
          BY <1>5, <3>1, <5>1
      <4> QED
        BY <4>1, <4>2
    <3>6. \A k : /\ IsString(array[k])' = IsString(array'[k])
                 /\ Number(array[k])' = Number(array'[k])
      BY <1>1 DEF arguments, IsString, Number, Ends, LengthFrom, Byte1
    <3>7. Reached(psz)' = Reached(Following) /\ Before(psz)' = Before(Following)
          /\ Byte1(psz)' = Byte1(Following)
      BY <1>1, RegionStays
    <3> QED
      BY <1>1, <1>5, <1>6, <2>1, <2>2, <3>1, <3>4, <3>5, <3>6, <3>7 DEF PrinterInv
  <2> QED
    BY <2>3, <2>4
<1> QED
  BY <1>7, <1>8, <1>9, <1>10 DEF IInv

LEMMA NextIInv == IInv /\ [Next]_vars => IInv'
<1> SUFFICES ASSUME IInv, [Next]_vars PROVE IInv'
  OBVIOUS
<1>1. CASE NullArgument \/ EmptyText \/ NoSuchString \/ Unterminated
           \/ SmbiosGetString \/ SkipString
  BY <1>1, NativeIInv
<1>2. CASE NullText \/ NotFound \/ TryGetString \/ SkipManaged
  BY <1>2, ManagedIInv
<1>3. CASE PrintStrings
  BY <1>3, PrintStringsIInv
<1>4. CASE AddString
  BY <1>4, AddStringIInv
<1>5. CASE UNCHANGED vars
  <2>1. /\ UNCHANGED arguments /\ turn' = turn
        /\ UNCHANGED <<Offset, Current, Answer, start, current, answer>>
        /\ UNCHANGED <<psz, array, reads>>
    BY <1>5 DEF vars, native, managed, printer
  <2>2. TypeOK' /\ ReadsInside'
    BY <2>1 DEF IInv, TypeOK, ReadsInside, arguments
  <2>3. NativeInv' /\ ManagedInv' /\ AnswerInv' /\ ManagedAnswerInv'
    BY <2>1, RegionStays DEF IInv, NativeInv, ManagedInv, AnswerInv, ManagedAnswerInv
  <2>4. PrinterInv'
    <3>1. StringSet(Strings)' = StringSet(Strings) /\ ArrayFull' = ArrayFull
      BY <2>1 DEF arguments, StringSet, DoubleNul, ArrayFull
    <3>2. \A k : (IsString(array[k]) /\ Number(array[k]) = k)'
                 = (IsString(array[k]) /\ Number(array[k]) = k)
      BY <2>1, RegionStays
    <3> QED
      BY <2>1, <3>1, <3>2, RegionStays DEF IInv, PrinterInv
  <2> QED
    BY <2>2, <2>3, <2>4 DEF IInv
<1> QED
  BY <1>1, <1>2, <1>3, <1>4, <1>5 DEF Next

-----------------------------------------------------------------------------
(* SmbiosGetString finds the string its index names, and none where there  *)
(* is none: its one-byte counter never wraps.                              *)
THEOREM LookupIsExact == Spec => []LookupExact
<1>1. IInv => LookupExact
  <2> SUFFICES ASSUME IInv, turn # "native", Answer.Status # "InvalidArgument",
                      Index # 0
               PROVE  IF Answer.Status = "Success"
                      THEN /\ IsString(Answer.Text.Start)
                           /\ Number(Answer.Text.Start) = Index
                           /\ Answer.Text.Length = LengthFrom(Answer.Text.Start)
                      ELSE \A i \in 0 .. Strings.Size - 1 :
                             ~(IsString(i) /\ Number(i) = Index)
    BY DEF LookupExact
  <2>1. Resolved(Answer.Status = "Success", Answer.Text)
    BY DEF IInv, AnswerInv
  <2>2. CASE Answer.Status = "Success"
    <3>1. /\ IsString(Answer.Text.Start) /\ Number(Answer.Text.Start) = Index
          /\ Answer.Text = Text(Answer.Text.Start)
      BY <2>1, <2>2 DEF Resolved
    <3>2. Text(Answer.Text.Start).Length = LengthFrom(Answer.Text.Start)
      BY DEF Text
    <3> QED
      BY <2>2, <3>1, <3>2
  <2>3. CASE Answer.Status # "Success"
    BY <2>1, <2>3 DEF Resolved
  <2> QED
    BY <2>2, <2>3
<1> QED
  BY InitIInv, NextIInv, <1>1, PTL DEF Spec

(* SmbiosGetString and TryGetString resolve every index of every region to *)
(* the same string or to none.                                             *)
THEOREM LookupsResolveAlike == Spec => []LookupsAgree
<1>1. IInv => LookupsAgree
  <2> SUFFICES ASSUME IInv, turn \in {"printer", "done"},
                      Answer.Status # "InvalidArgument"
               PROVE  /\ answer.Ok <=> Answer.Status = "Success"
                      /\ answer.Text = Answer.Text
    BY DEF LookupsAgree
  <2>1. TypeOK
    BY DEF IInv
  <2>2. CASE Index = 0
    <3>1. /\ Answer = [Status |-> "Success", Text |-> NoText]
          /\ answer = [Ok |-> TRUE, Text |-> NoText]
      BY <2>2 DEF IInv, AnswerInv, ManagedAnswerInv
    <3> QED
      BY <3>1
  <2>3. CASE Index # 0
    <3>1. /\ Resolved(Answer.Status = "Success", Answer.Text)
          /\ Resolved(answer.Ok, answer.Text)
      BY <2>3 DEF IInv, AnswerInv, ManagedAnswerInv
    <3>2. \A i : IsString(i) => i \in 0 .. Strings.Size - 1
      BY DEF IsString
    <3>3. CASE Answer.Status = "Success"
      <4>1. /\ IsString(Answer.Text.Start) /\ Number(Answer.Text.Start) = Index
            /\ Answer.Text = Text(Answer.Text.Start)
        BY <3>1, <3>3 DEF Resolved
      <4>2. answer.Ok
        BY <3>1, <3>2, <4>1 DEF Resolved
      <4>3. /\ IsString(answer.Text.Start) /\ Number(answer.Text.Start) = Index
            /\ answer.Text = Text(answer.Text.Start)
        BY <3>1, <4>2 DEF Resolved
      <4>4. answer.Text.Start = Answer.Text.Start
        BY <2>1, <4>1, <4>3, NumberUnique
      <4> QED
        BY <3>3, <4>1, <4>2, <4>3, <4>4
    <3>4. CASE Answer.Status # "Success"
      <4>1. /\ Answer.Text = NoText
            /\ \A i \in 0 .. Strings.Size - 1 : ~(IsString(i) /\ Number(i) = Index)
        BY <3>1, <3>4 DEF Resolved
      <4>2. ~answer.Ok
        BY <3>1, <3>2, <4>1 DEF Resolved
      <4>3. answer.Text = NoText
        BY <3>1, <4>2 DEF Resolved
      <4> QED
        BY <3>4, <4>1, <4>2, <4>3
    <3> QED
      BY <3>3, <3>4
  <2> QED
    BY <2>2, <2>3
<1> QED
  BY InitIInv, NextIInv, <1>1, PTL DEF Spec

(* The array PrintSmbiosTable builds resolves an index as SmbiosGetString  *)
(* does, in every string set whose first byte is not a lone zero.          *)
THEOREM PrinterShowsTheSame == Spec => []PrinterAgrees
<1>1. IInv => PrinterAgrees
  <2> SUFFICES ASSUME IInv, turn = "done", StringSet(Strings), Front, Index # 0,
                      Answer.Status # "InvalidArgument"
               PROVE  IF Index <= Len(array)
                      THEN Answer.Status = "Success" /\ Answer.Text = Text(array[Index])
                      ELSE Answer.Status # "Success"
    BY DEF PrinterAgrees, Front
  <2>1. /\ TypeOK /\ Reached(psz) /\ Len(array) = Before(psz)
        /\ \A k \in 1 .. Len(array) : IsString(array[k]) /\ Number(array[k]) = k
        /\ ArrayFull \/ Byte1(psz) = 0
        /\ psz \in Nat /\ Len(array) \in Nat
    BY DEF IInv, PrinterInv, TypeOK
  <2>2. Index \in Nat /\ Index <= ByteMax /\ ByteMax \in Nat
    BY <2>1, RegionFacts
  <2>3. Resolved(Answer.Status = "Success", Answer.Text)
    BY DEF IInv, AnswerInv
  <2>4. \A i : IsString(i) => i \in 0 .. Strings.Size - 1
    BY DEF IsString
  <2>5. CASE Index <= Len(array)
    <3>1. IsString(array[Index]) /\ Number(array[Index]) = Index
      BY <2>1, <2>2, <2>5
    <3>2. Answer.Status = "Success"
      BY <2>3, <2>4, <3>1 DEF Resolved
    <3>3. /\ IsString(Answer.Text.Start) /\ Number(Answer.Text.Start) = Index
          /\ Answer.Text = Text(Answer.Text.Start)
      BY <2>3, <3>2 DEF Resolved
    <3>4. Answer.Text.Start = array[Index]
      BY <2>1, <3>1, <3>3, NumberUnique
    <3> QED
      BY <2>5, <3>2, <3>3, <3>4
  <2>6. CASE ~(Index <= Len(array))
    <3>1. Byte1(psz) = 0
      BY <2>1, <2>2, <2>6 DEF ArrayFull
    <3>2. ASSUME Answer.Status = "Success" PROVE FALSE
      <4>1. IsString(Answer.Text.Start) /\ Number(Answer.Text.Start) = Index
        BY <2>3, <3>2 DEF Resolved
      <4>2. Answer.Text.Start \in Nat /\ Answer.Text.Start < psz
        BY <2>1, <3>1, <4>1, NoneBeyond
      <4>3. Index <= Len(array)
        BY <2>1, <4>1, <4>2, NumberBelow
      <4> QED
        BY <2>6, <4>3
    <3> QED
      BY <2>6, <3>2
  <2> QED
    BY <2>5, <2>6
<1> QED
  BY InitIInv, NextIInv, <1>1, PTL DEF Spec

(* The printer reads no byte behind the region, although it looks at the   *)
(* byte after a string without a check, and writes no more strings than    *)
(* its array has room for.                                                 *)
THEOREM PrinterIsContained == Spec => []PrinterStaysInside
<1>1. IInv => PrinterStaysInside
  BY DEF IInv, PrinterStaysInside, ReadsInside
<1> QED
  BY InitIInv, NextIInv, <1>1, PTL DEF Spec

=============================================================================
