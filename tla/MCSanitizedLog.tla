--------------------------- MODULE MCSanitizedLog ---------------------------
(***************************************************************************)
(* An instance of SanitizedLog for TLC: a division by zero, which returns  *)
(* or aborts, and a cast of an unknown type, which meets a CHECK.          *)
(***************************************************************************)
EXTENDS SanitizedLog

Type(kind, bits) == [TypeKind |-> kind, TypeInfo |-> bits]

MCOperations ==
    { [handler |-> "divrem", type |-> Type("TK_Float", 4), rhsType |-> Type("TK_Float", 4),
       a |-> 0, b |-> 0],
      [handler |-> "float_cast", V2 |-> TRUE, type |-> Type("TK_Unknown", 0),
       val |-> [word |-> 3, pointee |-> 7]] }
MCLocations == { [Filename |-> <<115, 114>>, Line |-> 7, Column |-> 0] }
=============================================================================
