------------------------------- MODULE Image -------------------------------
(***************************************************************************)
(* Saved heap images (gc_heap.c): sexp_save_image packs the live objects   *)
(* of all heaps into one block and writes it with a header; a later        *)
(* process reads the block at another address and moves every pointer.     *)
(*                                                                         *)
(* A heap is a base address and the chunks it is tiled with, each an       *)
(* object or "free".  An object has a tag, the pointers of its slots and   *)
(* those embedded in its bytecode (0 stands for anything that is not a     *)
(* pointer), and the state that means nothing in another process: a        *)
(* stack's slots, whether a port is open, and ext, what the object has of  *)
(* its process: a port's stream, a library's handle, a descriptor number,  *)
(* the C function of an opcode or of a type's finalizer; "old" if the      *)
(* saving process gave it, "new" if the loading one did, else "none".      *)
(***************************************************************************)
EXTENDS Integers, Sequences, FiniteSets, SequencesExt

CONSTANTS ImageHeaps,  \* the sets of heaps the saving process may have
          ContextOf(_), \* the address of the context among the heaps
          LoadBase,    \* where the loading process gets its heap
          PackBase     \* where the saving process gets the heap it packs into

VARIABLES heaps,   \* the heaps of the saving process
          alive,   \* whether it still runs
          file,    \* what is in the file: <<>>, <<header>> or <<header, body>>
          packed,  \* the packed heap being written, <<>> before and after
          loaded   \* <<>>, or what sexp_load_image returned

image == <<heaps, alive, file, packed, loaded>>

Size(c) == CASE c.tag = "free" -> c.size
             [] c.tag \in {"context", "opcode", "type"} -> 3
             [] c.tag \in {"pair", "stack"} -> 2
             [] OTHER -> 1

\* The objects of the chunks laid out from addr, with their addresses.
RECURSIVE WalkFrom(_, _)
WalkFrom(addr, cs) ==
  IF cs = <<>> THEN <<>>
  ELSE (IF Head(cs).tag = "free" THEN <<>> ELSE <<[at |-> addr, obj |-> Head(cs)]>>)
       \o WalkFrom(addr + Size(Head(cs)), Tail(cs))

gc_heap_walk(h) == WalkFrom(h.base, h.chunks)

(***************************************************************************)
(* Saving.                                                                 *)
(***************************************************************************)

Pointers(o) == {p \in ToSet(o.slots) \cup ToSet(o.code) : p # 0}

RECURSIVE Reach(_, _)
Reach(objs, S) ==
  LET T == S \cup UNION {Pointers(x.obj) : x \in {x \in objs : x.at \in S}}
  IN  IF T = S THEN S ELSE Reach(objs, T)

\* sexp_gc first: what the context does not reach is free.
Collected(hs, ctx) ==
  LET live == Reach(UNION {ToSet(gc_heap_walk(h)) : h \in hs}, {ctx})
      keep(h) == SelectSeq(gc_heap_walk(h), LAMBDA x : x.at \in live)
  IN  [h \in hs |-> keep(h)]


\* The heaps in the order of their addresses.
sorted_heaps(hs) == SetToSortSeq(hs, LAMBDA g, h : g.base < h.base)

\* The live objects of all heaps, and the addresses they move to.
remap(hs, ctx) ==
  LET col == Collected(hs, ctx)
      sorted == sorted_heaps(hs)
      all == FlattenSeq([i \in DOMAIN sorted |-> col[sorted[i]]])
      dst == FoldLeftDomain(LAMBDA s, i : Append(s, s[i] + Size(all[i].obj)), <<PackBase>>, all)
  IN  [i \in DOMAIN all |-> [srcp |-> all[i].at, dstp |-> dst[i], obj |-> all[i].obj]]

\* Binary search for a source address; 0 if it is not found.
RECURSIVE search(_, _, _, _)
search(rm, srcp, imin, imax) ==
  LET imid == (imax - imin) \div 2 + imin
  IN  CASE imin > imax -> 0
        [] imin <= imax /\ rm[imid].srcp = srcp -> rm[imid].dstp
        [] OTHER -> IF rm[imid].srcp < srcp THEN search(rm, srcp, imid + 1, imax)
                                            ELSE search(rm, srcp, imin, imid - 1)

src_to_dst(rm, srcp) == search(rm, srcp, 1, Len(rm))

\* The pointers of an object, in its slots and in its code, become new[pointer].
adjust_fields(o, new) ==
  [o EXCEPT !.slots = [i \in DOMAIN @ |-> IF @[i] = 0 THEN 0 ELSE new[@[i]]]]
adjust_bytecode(o, new) ==
  [o EXCEPT !.code = [i \in DOMAIN @ |-> IF @[i] = 0 THEN 0 ELSE new[@[i]]]]

pack_adjust(o, rm) ==
  LET new == [p \in Pointers(o) |-> src_to_dst(rm, p)]
      a == adjust_fields(o, new)
  IN  CASE o.tag = "context" -> [a EXCEPT !.heap = PackBase]
        [] o.tag = "bytecode" -> adjust_bytecode(a, new)
        [] OTHER -> a

Lost(o, a) == \E i \in DOMAIN o.slots : o.slots[i] # 0 /\ a.slots[i] = 0

\* The packed heap: ok says that every pointer was found.
heap_pack(hs, ctx) ==
  LET rm == remap(hs, ctx)
      objs == [i \in DOMAIN rm |-> pack_adjust(rm[i].obj, rm)]
  IN  [ok   |-> \A i \in DOMAIN rm :
                  /\ ~Lost(rm[i].obj, objs[i])
                  /\ \A j \in DOMAIN objs[i].code : rm[i].obj.code[j] # 0 => objs[i].code[j] # 0,
       ctx  |-> src_to_dst(rm, ctx),
       body |-> objs]

TotalSize(objs) == FoldLeftDomain(LAMBDA n, i : n + Size(objs[i]), 0, objs)

Header(p) == [size |-> TotalSize(p.body), base |-> PackBase, context |-> p.ctx, magic |-> "chibi"]

\* sexp_save_image opens the file, which empties it, and packs the heap.
SaveOpen ==
  /\ alive /\ packed = <<>>
  /\ file' = <<>>
  /\ packed' = <<heap_pack(heaps, ContextOf(heaps))>>
  /\ UNCHANGED <<heaps, alive, loaded>>

\* It writes the header and then the block; the last write ends the save.
SaveWrite ==
  /\ alive /\ packed # <<>> /\ packed[1].ok
  /\ \/ /\ file = <<>>
        /\ file' = <<Header(packed[1])>>
        /\ UNCHANGED packed
     \/ /\ Len(file) = 1
        /\ file' = Append(file, packed[1].body)
        /\ packed' = <<>>
  /\ UNCHANGED <<heaps, alive, loaded>>

\* The saving process ends, with part of the block on disk if it was cut off.
Exit ==
  /\ alive
  /\ alive' = FALSE /\ packed' = <<>>
  /\ \/ UNCHANGED file
     \/ /\ packed # <<>> /\ packed[1].ok /\ Len(file) = 1
        /\ \E n \in 0 .. Len(packed[1].body) - 1 : file' = Append(file, SubSeq(packed[1].body, 1, n))
  /\ UNCHANGED <<heaps, loaded>>

(***************************************************************************)
(* Loading.                                                                *)
(***************************************************************************)

\* First pass: pointers move by the offset; a context gets the new heap, its
\* stack is emptied; ports with a stream are closed, library handles dropped.
\* A port on a descriptor or on a string has no stream and stays as it was.
load_p1(o, offset) ==
  LET new == [p \in Pointers(o) |-> p + offset]
      a == adjust_fields(o, new)
  IN  CASE o.tag = "context" -> [a EXCEPT !.heap = LoadBase]
        [] o.tag = "bytecode" -> adjust_bytecode(a, new)
        [] o.tag = "port" /\ o.ext # "none" -> [a EXCEPT !.open = FALSE, !.ext = "none"]
        [] o.tag = "dl" -> [a EXCEPT !.ext = "none"]
        [] OTHER -> a

\* The first pass over the block in the order of the addresses: a context
\* empties its stack, which lies before or after it.
load_pass1(objs, offset) ==
  LET at == FoldLeftDomain(LAMBDA s, i : Append(s, s[i] + Size(objs[i])), <<LoadBase>>, objs)
      stacks == {load_p1(objs[i], offset).slots[1] : i \in {i \in DOMAIN objs : objs[i].tag = "context"}}
  IN  [i \in DOMAIN objs |->
         IF at[i] \in stacks THEN [load_p1(objs[i], offset) EXCEPT !.slots = <<>>]
                             ELSE load_p1(objs[i], offset)]

\* Second pass: the C functions of opcodes and the finalizers of types are looked
\* up again by name, in the library of their first slot or, without one, in the
\* program.
Linked(o) == o.tag \in {"opcode", "type"} /\ o.ext # "none"
load_p2(o) == IF Linked(o) THEN [o EXCEPT !.ext = "new"] ELSE o

\* load_image_fn opens a library for the first function it looks up there.
load_pass2(objs) ==
  LET at == FoldLeftDomain(LAMBDA s, i : Append(s, s[i] + Size(objs[i])), <<LoadBase>>, objs)
      libraries == {o.slots[1] : o \in {o \in ToSet(objs) : Linked(o)}}
  IN  [i \in DOMAIN objs |->
         IF objs[i].tag = "dl" /\ at[i] \in libraries THEN [objs[i] EXCEPT !.ext = "new"]
                                                      ELSE load_p2(objs[i])]

load_image_header(f) == Len(f) >= 1 /\ f[1].magic = "chibi"

\* A later process: found says that every C function has a name, that its library
\* opens and that it is there; otherwise the load ends.
LoadImage(found) ==
  LET hdr == file[1]
      offset == LoadBase - hdr.base
      objs == load_pass1(file[2], offset)
      ok == /\ load_image_header(file)
            /\ Len(file) = 2 /\ TotalSize(file[2]) = hdr.size
            /\ found \/ \A i \in DOMAIN file[2] : ~Linked(file[2][i])
  IN  /\ ~alive /\ loaded = <<>>
      /\ loaded' = IF ok
                     THEN <<[ok |-> TRUE, ctx |-> hdr.context + offset,
                             objs |-> load_pass2(objs)]>>
                     ELSE <<[ok |-> FALSE, ctx |-> 0, objs |-> <<>>]>>
      /\ UNCHANGED <<heaps, alive, file, packed>>

ImageInit ==
  /\ heaps \in ImageHeaps
  /\ alive = TRUE
  /\ file = <<>> /\ packed = <<>> /\ loaded = <<>>

ImageIdle ==
  /\ heaps = {} /\ alive = FALSE
  /\ file = <<>> /\ packed = <<>> /\ loaded = <<>>

ImageNext == SaveOpen \/ SaveWrite \/ Exit \/ \E found \in BOOLEAN : LoadImage(found)

(***************************************************************************)
(* Properties.                                                             *)
(***************************************************************************)

\* Packing never meets a pointer it cannot map ("Source SEXP not found in
\* src->dst mapping"): the search relies on the order of the remap table.
PackFinds == packed # <<>> => packed[1].ok /\ packed[1].ctx # 0

\* The position of the object at addr among objects with addresses.
IndexOf(xs, addr) == CHOOSE i \in 0 .. Len(xs) : IF i = 0 THEN addr = 0 ELSE xs[i].at = addr

\* What a later process loads is the live graph that was saved, object by
\* object and pointer by pointer: contexts point to the new heap, stacks are
\* empty, no address of the saving process is left, the functions and finalizers
\* it had are bound again and their libraries open, and the only open ports are
\* open ones that had no stream; descriptor numbers stay.  A file cut off by a
\* crash loads as nothing.
LoadedGraph ==
  loaded # <<>> /\ loaded[1].ok =>
    LET rm  == remap(heaps, ContextOf(heaps))
        src == [i \in DOMAIN rm |-> [at |-> rm[i].srcp, obj |-> rm[i].obj]]
        dst == WalkFrom(LoadBase, loaded[1].objs)
        same(p, q) == Len(p) = Len(q) /\ \A j \in DOMAIN p : IndexOf(src, p[j]) = IndexOf(dst, q[j])
    IN  /\ Len(src) = Len(dst)
        /\ IndexOf(src, ContextOf(heaps)) = IndexOf(dst, loaded[1].ctx)
        /\ \A i \in DOMAIN src :
             LET a == src[i].obj
                 b == dst[i].obj
             IN  /\ a.tag = b.tag
                 /\ same(a.code, b.code)
                 /\ IF a.tag = "stack" THEN b.slots = <<>> ELSE same(a.slots, b.slots)
                 /\ a.tag = "context" => b.heap = LoadBase
                 /\ b.ext = "old" => b.tag = "fileno"
                 /\ a.tag \in {"opcode", "type"} => (a.ext = "none" <=> b.ext = "none")
                 /\ Linked(b) /\ b.slots[1] # 0 => dst[IndexOf(dst, b.slots[1])].obj.ext = "new"
                 /\ b.open <=> a.open /\ a.ext = "none"

=============================================================================
