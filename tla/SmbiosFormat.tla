---------------------------- MODULE SmbiosFormat ----------------------------
(***************************************************************************)
(* What an SMBIOS structure table looks like, as predicates on a buffer:   *)
(* a structure is a header whose second byte is the length of the          *)
(* formatted area, that area, and a string set that ends at the first two  *)
(* zero bytes in a row after it.  Nothing here is executed by the          *)
(* decoders: SmbiosWalk and SmbiosParse are checked against it.            *)
(***************************************************************************)
EXTENDS FirmwareDecode

CONSTANT HeaderSize    \* sizeof(SMBIOS_HEADER), 4 in the code

ASSUME HeaderAssumption == HeaderSize \in Nat /\ HeaderSize >= 2

TypeAt(t, o)   == ByteAt(t, o)
LengthAt(t, o) == ByteAt(t, o + 1)

HasHeader(t, o)    == t.Valid /\ o + HeaderSize <= t.Size
HasFormatted(t, o) == /\ HasHeader(t, o)
                      /\ LengthAt(t, o) >= HeaderSize
                      /\ o + LengthAt(t, o) <= t.Size

(* Two zero bytes at e and e + 1, at or after index s.                     *)
Terminator(t, s, e) ==
  /\ e \in s .. t.Size - 2
  /\ ByteAt(t, e) = 0
  /\ ByteAt(t, e + 1) = 0

Terminated(t, o) ==
  \E e \in 0 .. t.Size - 2 : Terminator(t, o + LengthAt(t, o), e)

WellFormed(t, o) == HasFormatted(t, o) /\ Terminated(t, o)

(* n is the size of the structure at o: the first terminator ends it.      *)
StructureSize(t, o, n) ==
  LET s == o + LengthAt(t, o)
      e == o + n - 2
  IN  /\ Terminator(t, s, e)
      /\ \A d \in s .. e - 1 : ~Terminator(t, s, d)

(* Why no structure can be read at o.                                      *)
Refusal(t, o, status) ==
  \/ status = "End" /\ o = t.Size
  \/ status = "TruncatedHeader" /\ o # t.Size /\ ~HasHeader(t, o)
  \/ status = "InvalidLength" /\ HasHeader(t, o) /\ LengthAt(t, o) < HeaderSize
  \/ /\ status = "TruncatedData"
     /\ HasHeader(t, o)
     /\ LengthAt(t, o) >= HeaderSize
     /\ ~HasFormatted(t, o)
  \/ status = "MissingTerminator" /\ HasFormatted(t, o) /\ ~Terminated(t, o)

=============================================================================
