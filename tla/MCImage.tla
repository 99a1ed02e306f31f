------------------------------ MODULE MCImage ------------------------------
(***************************************************************************)
(* Two heaps, in either order of their addresses, with a context, its      *)
(* stack, a pair, a bytecode, an opcode with a C function and its library, *)
(* an opcode of the VM without one, a type with a finalizer of the program *)
(* itself, a port with a stream, and one on a descriptor: the four first   *)
(* ones in every order, the pair and the bytecode with several contents,   *)
(* so that objects are shared, cyclic, or garbage.                         *)
(***************************************************************************)
EXTENDS Image
Obj(tag, slots, code, ext) ==
  [tag |-> tag, slots |-> slots, code |-> code, heap |-> 10, open |-> tag = "port", ext |-> ext]
FreeChunk == [tag |-> "free", size |-> 2]

\* The objects by name; car and cdr of the pair and the bytecode's operand vary.
Things == {"ctx", "stack", "pair", "code", "op", "prim", "type", "dl", "port", "fdport", "fileno"}
TagOf(n) == CASE n = "ctx" -> "context" [] n = "code" -> "bytecode" [] n \in {"op", "prim"} -> "opcode"
              [] n = "fdport" -> "port" [] OTHER -> n
ExtOf(n) == IF n \in {"op", "type", "dl", "port", "fileno"} THEN "old" ELSE "none"
Graph(car, cdr, operand) ==
  [n \in Things |-> CASE n = "ctx" -> <<"stack", "pair">> [] n = "stack" -> <<"pair">> [] n = "pair" -> <<car, cdr>>
                      [] n = "code" -> <<operand>> [] n = "op" -> <<"dl">> [] n \in {"prim", "type"} -> <<"nil">>
                      [] n = "fdport" -> <<"fileno">> [] OTHER -> <<>>]
SizeOf(n) == IF n = "free" THEN 2 ELSE Size([tag |-> TagOf(n)])
AddrIn(base, ns, n) ==
  LET i == CHOOSE i \in DOMAIN ns : ns[i] = n
  IN  FoldLeftDomain(LAMBDA s, j : IF j < i THEN s + SizeOf(ns[j]) ELSE s, base, ns)
Build(b1, ns1, b2, ns2, g) ==
  LET addr(n) == IF n = "nil" THEN 0 ELSE IF n \in ToSet(ns1) THEN AddrIn(b1, ns1, n) ELSE AddrIn(b2, ns2, n)
      refs(n) == [j \in DOMAIN g[n] |-> addr(g[n][j])]
      obj(n) == IF n = "free" THEN FreeChunk
                ELSE IF n = "code" THEN Obj("bytecode", <<>>, refs(n), "none") ELSE Obj(TagOf(n), refs(n), <<>>, ExtOf(n))
  IN  {[base |-> b1, chunks |-> [i \in DOMAIN ns1 |-> obj(ns1[i])]],
       [base |-> b2, chunks |-> [i \in DOMAIN ns2 |-> obj(ns2[i])]]}
Orders == {p \in [1 .. 4 -> {"ctx", "stack", "pair", "code"}] : \A i, j \in 1 .. 4 : i # j => p[i] # p[j]}
Heaps ==
  UNION {{Build(b, <<p[1], "free", p[2], "dl", "fdport", "prim">>,
                50, <<p[3], "op", p[4], "fileno", "port", "type">>,
                Graph(car, cdr, operand)) :
            car \in {"code", "ctx", "nil"}, cdr \in {"type", "port", "fdport", "pair"},
            operand \in {"pair", "op", "prim"}, p \in Orders} :
         b \in {20, 80}}
Ctx(hs) ==
  LET all == UNION {ToSet(gc_heap_walk(h)) : h \in hs}
  IN  (CHOOSE x \in all : x.obj.tag = "context").at
=============================================================================
