--------------------------- MODULE SmbiosAgreement ---------------------------
(***************************************************************************)
(* The native and the managed decoder on the same bytes.  The package      *)
(* ships both: an endpoint decodes with SMBIOS.Decode.h, a server decodes  *)
(* the same bytes with SmbiosParser.cs.  The native loop of SmbiosDecode.c *)
(* runs first (SmbiosWalk, whose names are the ones without a prefix),     *)
(* then one call of the managed parser; neither sees the other.            *)
(***************************************************************************)
EXTENDS SmbiosWalk

CONSTANTS
  EndType,     \* the type of the end-of-table structure, 127
  Enveloped    \* the sizes of the tables also tried in a raw envelope

(* A table a server holds is an array, which is shorter than int.MaxValue. *)
ASSUME AgreementAssumption == \A t \in Tables : t.Size < SizeMax

VARIABLES input, data, offset, index, structures, table, status, mreads, mpc

mvars   == <<input, data, offset, index, structures, table, status, mreads, mpc>>
allvars == <<vars, mvars>>

Managed == INSTANCE SmbiosParse WITH
  Inputs <- {}, reads <- mreads, pc <- mpc

(* The ways a server may be handed a table: bare, behind an envelope that  *)
(* declares less, as much or more, also the least and the greatest uint no *)
(* int holds, or nothing that could be an envelope.                        *)
Handed(t) ==
  LET Call(call, declared) ==
        [ Call |-> call, Payload |-> [t EXCEPT !.Valid = TRUE],
          Declared |-> declared ]
      lengths == 0 .. t.Size + 1 \cup {SizeMax + 1, 2 * SizeMax + 1}
  IN  {Call("bare", 0)}
      \cup { Call("raw", d) : d \in IF t.Size \in Enveloped THEN lengths ELSE {} }
      \cup (IF t.Size = 0 THEN {Call("short", 0)} ELSE {})

BothInit == Init /\ \E in \in Handed(Table) : Managed!InitWith(in)

NativeStep == Next /\ UNCHANGED mvars

ManagedStep == pc = "done" /\ Managed!Next /\ UNCHANGED vars

BothNext == NativeStep \/ ManagedStep

(* One thread runs either loop and nothing in it waits, so a step that can *)
(* be taken is taken.                                                      *)
BothSpec == BothInit /\ [][BothNext]_allvars /\ WF_allvars(BothNext)

-----------------------------------------------------------------------------
BothDone == pc = "done" /\ mpc = "returned"

(* Where the native loop began: its first structure, if there is one.      *)
Began == IF walked = << >> THEN Offset ELSE walked[1].Offset

(* The native loop began at 0 with no NULL argument, and the managed       *)
(* parser got to see the same bytes.                                       *)
Compared ==
  /\ BothDone
  /\ Began = 0 /\ Status # "InvalidArgument"
  /\ data = Table
  /\ input.Call = "raw" => input.Declared <= input.Payload.Size
  /\ input.Call # "short"

Extent(s) == [Offset |-> s.Offset, Size |-> s.Size]
NativeList  == [i \in 1 .. Len(walked) |-> Extent(walked[i])]
ManagedList == [i \in 1 .. Len(structures) |-> Extent(structures[i])]

IsFinal(s) == TypeAt(Table, s.Offset) = EndType

(* The managed list is the native one cut after its first end-of-table     *)
(* structure: the native walker knows no end-of-table type and goes on.    *)
SameStructures ==
  /\ Len(ManagedList) <= Len(NativeList)
  /\ \A i \in DOMAIN ManagedList : ManagedList[i] = NativeList[i]
  /\ \A i \in DOMAIN ManagedList :
       IsFinal(ManagedList[i]) => i = Len(ManagedList)
  /\ Len(ManagedList) < Len(NativeList) =>
       ManagedList # << >> /\ IsFinal(ManagedList[Len(ManagedList)])

(* Both refuse the same tables, for the same reason and at the same byte,  *)
(* unless an end-of-table structure comes first: then the managed parser   *)
(* succeeds whatever follows it.                                           *)
SameVerdict ==
  IF structures # << >> /\ structures[Len(structures)].Final
  THEN status = "Success"
  ELSE /\ offset = Offset
       /\ status = (IF Status = "End" THEN "Success" ELSE Status)

(* On the same table both decoders give the same answer, up to the first   *)
(* end-of-table structure: the structures and the verdict.                 *)
SameAnswer == Compared => SameStructures /\ SameVerdict

(* Both loops end, for every table: each structure is scanned in a finite  *)
(* buffer and moves the offset forward, whatever its length byte says.     *)
Terminates == <>BothDone

(* What SmbiosParse says of the managed parser by itself: neither a length *)
(* byte nor the envelope makes it throw,                                   *)
NeverThrows == Managed!NeverThrows

(* it gives all of the structures or none,                                 *)
TableExact == Managed!TableExact

(* it refuses for the reason the bytes or the envelope give,               *)
RefusalExact == Managed!VerdictExact

(* and it delivers its structures as RecordStream allows.                  *)
ManagedStream == Managed!ImplementsStream
=============================================================================
