---------------------------- MODULE MCSmbiosFields ---------------------------
(***************************************************************************)
(* Every structure type with its metadata, one that has none, and every    *)
(* length from the bare header to one byte more than the type declares.    *)
(***************************************************************************)
EXTENDS SmbiosFields, SmbiosTypeInfo

MCTypes == { SmbiosTypeInfo[t].Type : t \in DOMAIN SmbiosTypeInfo } \cup {200}
MCLayouts == [type \in MCTypes |-> Layout(type)]

SizeOf(type) ==
  LET ends == { End(m) : m \in Elements(MCLayouts[type]) } \cup {HeaderSize}
  IN  CHOOSE size \in ends : \A e \in ends : e <= size

MCHeaders ==
  UNION { { [Type |-> type, Length |-> length]
              : length \in (HeaderSize .. SizeOf(type) + 1) \cup {255} }
            : type \in MCTypes }
=============================================================================
