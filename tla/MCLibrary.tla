----------------------------- MODULE MCLibrary -----------------------------
(***************************************************************************)
(* The sequential parts of the runtime and of its libraries in one run: a  *)
(* behaviour uses one of them, and the others keep their first state.      *)
(***************************************************************************)
EXTENDS MCNumbers, MCSorting, MCHash, MCImage, Strings, MCPorts, Filenos, MCReadWrite

VARIABLE part    \* the part this behaviour uses

libvars == <<part, calcvars, sortvars, table, image, strvars, portvars, fdvars, datavars>>

Init ==
  /\ part \in {"numbers", "sorting", "tables", "images", "strings", "ports", "filenos", "data"}
  /\ IF part = "sorting" THEN SortInit ELSE SortIdle
  /\ IF part = "tables" THEN TableInit ELSE EmptyTable(<<"eq", "builtin">>)
  /\ IF part = "images" THEN ImageInit ELSE ImageIdle
  /\ IF part = "ports" THEN PortInit ELSE Opened("input")
  /\ CalcInit /\ StrInit /\ FdInit /\ DataInit

Next ==
  /\ UNCHANGED part
  /\ \/ /\ part = "numbers" /\ CalcNext
        /\ UNCHANGED <<sortvars, table, image, strvars, portvars, fdvars, datavars>>
     \/ /\ part = "sorting" /\ Sort
        /\ UNCHANGED <<calcvars, table, image, strvars, portvars, fdvars, datavars>>
     \/ /\ part = "tables" /\ TableNext
        /\ UNCHANGED <<calcvars, sortvars, image, strvars, portvars, fdvars, datavars>>
     \/ /\ part = "images" /\ ImageNext
        /\ UNCHANGED <<calcvars, sortvars, table, strvars, portvars, fdvars, datavars>>
     \/ /\ part = "strings" /\ StrNext
        /\ UNCHANGED <<calcvars, sortvars, table, image, portvars, fdvars, datavars>>
     \/ /\ part = "ports" /\ PortNext
        /\ UNCHANGED <<calcvars, sortvars, table, image, strvars, fdvars, datavars>>
     \/ /\ part = "filenos" /\ FdNext
        /\ UNCHANGED <<calcvars, sortvars, table, image, strvars, portvars, datavars>>
     \/ /\ part = "data" /\ DataNext
        /\ UNCHANGED <<calcvars, sortvars, table, image, strvars, portvars, fdvars>>

Spec == Init /\ [][Next]_libvars
=============================================================================
