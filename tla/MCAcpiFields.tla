---------------------------- MODULE MCAcpiFields ----------------------------
(***************************************************************************)
(* Every table that is known and one that is not, at every length up to    *)
(* four bytes more than the longest of them declares.                      *)
(***************************************************************************)
EXTENDS AcpiFields

MCSignatures == DOMAIN AcpiTableInfo \cup Descriptions \cup {"OEM1"}
=============================================================================
