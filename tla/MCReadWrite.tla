---------------------------- MODULE MCReadWrite ----------------------------
(***************************************************************************)
(* Every small structure of pairs and vectors, and every short text, for   *)
(* the list utilities, equal?, the reader and the writers.                 *)
(***************************************************************************)
EXTENDS ReadWrite, Functions, TLC

CONSTANTS
  MaxObjects,   \* bound: objects of a structure
  MaxText,      \* bound: tokens of a text
  EqualDepth,   \* SEXP_DEFAULT_EQUAL_DEPTH
  EqualBound    \* SEXP_DEFAULT_EQUAL_BOUND

VARIABLES
  graph,        \* the objects built so far, the first is the root
  text          \* the tokens typed so far

datavars == <<graph, text>>

Atom == -3
SlotValues == {Null, Atom} \cup 1..MaxObjects
SmallObjects == {Pair(a, d) : a \in SlotValues, d \in SlotValues}
                \cup {Vector(<<>>)} \cup {Vector(<<a>>) : a \in SlotValues}
Tokens(labels) ==
  {Tok("atom", Atom), Tok("open", 0), Tok("close", 0), Tok("dot", 0),
   Tok("quote", 0), Tok("vec", 0), Tok("discard", 0)}
  \cup {Tok(k, n) : k \in {"def", "ref"}, n \in labels}

\* a text that begins with a label has any label there, up to the first one
\* that is too far ahead, and that label and 0 after it
Labels(in) == IF in = <<>> THEN 0..LabelSlack + 1
              ELSE IF in[1].k = "def" THEN {0, in[1].n} ELSE {0}

DataInit == graph = <<>> /\ text = <<>>

\* at most one object of a structure is a vector
AddObject(o) ==
  /\ text = <<>> /\ Len(graph) < MaxObjects
  /\ o.t = "vector" => \A i \in DOMAIN graph : graph[i].t = "pair"
  /\ graph' = Append(graph, o)
  /\ UNCHANGED text

Type(tok) ==
  /\ graph = <<>> /\ Len(text) < MaxText
  /\ text' = Append(text, tok)
  /\ UNCHANGED graph

DataNext == \/ \E o \in SmallObjects : AddObject(o)
            \/ \E tok \in Tokens(Labels(text)) : Type(tok)

----------------------------------------------------------------------------
(* What the structures mean, apart from the code.                          *)

Points(h, x) == {y \in Range(h[x].e) : y > 0}

RECURSIVE ReachFrom(_, _)
ReachFrom(h, s) ==
  LET t == s \cup UNION {Points(h, x) : x \in s} IN IF t = s THEN s ELSE ReachFrom(h, t)
ObjectsBelow(h, v) == IF pointerp(v) THEN ReachFrom(h, {v}) ELSE {}

\* a structure is complete when nothing points past it and all of it is used
Complete(h) == /\ h # <<>>
               /\ \A x \in DOMAIN h : Points(h, x) \subseteq DOMAIN h
               /\ ObjectsBelow(h, 1) = DOMAIN h

Cyclic(h, v) == \E x \in ObjectsBelow(h, v) : x \in ReachFrom(h, Points(h, x))

\* two values unfold to the same tree: the largest relation on the objects
\* that respects kinds, atoms and slots
RECURSIVE Refine(_, _, _)
Alike(R, a, b) == IF pointerp(a) /\ pointerp(b) THEN <<a, b>> \in R ELSE a = b
Refine(h, k, R) ==
  LET S == {<<a, b>> \in R : /\ h[a].t = k[b].t /\ Len(h[a].e) = Len(k[b].e)
                             /\ \A i \in DOMAIN h[a].e : Alike(R, h[a].e[i], k[b].e[i])}
  IN  IF S = R THEN R ELSE Refine(h, k, S)
SameTree(h, a, k, b) == Alike(Refine(h, k, ObjectsBelow(h, a) \X ObjectsBelow(k, b)), a, b)

\* the same sharing as well: the relation is a bijection
SameGraph(h, a, k, b) ==
  /\ SameTree(h, a, k, b)
  /\ Cardinality(ObjectsBelow(h, a)) = Cardinality(ObjectsBelow(k, b))

\* the pairs of a list in order, and its tail; TheCycle where it comes back
RECURSIVE Spine(_, _, _)
Spine(h, v, seen) ==
  IF ~pairp(h, v) THEN [pairs |-> seen, tail |-> v, loops |-> FALSE]
  ELSE IF v \in Range(seen) THEN [pairs |-> seen, tail |-> v, loops |-> TRUE]
  ELSE Spine(h, cdr(h, v), Append(seen, v))

Elements(h, v) == LET s == Spine(h, v, <<>>).pairs IN [i \in 1..Len(s) |-> car(h, s[i])]

\* of seq at the least of the places, or #f
FirstOf(places, seq) ==
  IF places = {} THEN False ELSE seq[CHOOSE i \in places : \A j \in places : i <= j]

----------------------------------------------------------------------------
(* list?, length, reverse, reverse!, append, list-copy, memq and assq on    *)
(* every list shape agree with the elements of the list: the two pointer    *)
(* races stop exactly on the cycles, the destructive reversal keeps all     *)
(* pairs, and the others leave their argument alone.                        *)
ListsAgree(h) ==
  Complete(h) =>
    LET s == Spine(h, 1, <<>>)
        proper == ~s.loops /\ s.tail = Null
        rev == reverse(h, 1)
        nrev == nreverse(h, 1)
        app == append2(h, 1, 1)
        copy == copy_list(h, 1)
        elts == Elements(h, 1)
        Kept(r) == SubSeq(r.h, 1, Len(h)) = h
    IN  /\ listp(h, 1) = proper
        /\ s.loops => length(h, 1) = False
        /\ ~s.loops => /\ length(h, 1) = Len(s.pairs)
                       /\ Elements(rev.h, rev.v) = Reverse(elts) /\ Kept(rev)
                       /\ Elements(app.h, app.v) = elts \o elts /\ Kept(app)
                       /\ SameTree(h, 1, copy.h, copy.v) /\ Kept(copy)
                       /\ ObjectsBelow(copy.h, copy.v) \cap Range(s.pairs)
                            \subseteq UNION {ObjectsBelow(h, x) : x \in Range(elts)}
                                      \cup ObjectsBelow(h, s.tail)
                       /\ pairp(h, 1) =>
                            Spine(nrev.h, nrev.v, <<>>).pairs = Reverse(s.pairs)
                       /\ memq(h, Atom, 1) = FirstOf({i \in DOMAIN elts : elts[i] = Atom}, s.pairs)
                       /\ assq(h, Atom, 1) =
                            FirstOf({i \in DOMAIN elts : pairp(h, elts[i]) /\ car(h, elts[i]) = Atom},
                                  elts)

(* equal? holds of two objects that unfold to the same tree, whatever       *)
(* their cycles, and of no others as long as its limits are not reached     *)
(* (sexp_equalp_bound skips equal slots from the end and counts its bound   *)
(* down through every branch).                                              *)
EqualAgrees(h) ==
  Complete(h) =>
    \A a, b \in DOMAIN h :
      LET tree == SameTree(h, a, h, b)
          answer == equalp(h, a, b, EqualDepth, EqualBound)
      IN  /\ tree => answer
          /\ ~Cyclic(h, a) /\ ~Cyclic(h, b) => answer = tree

(* The list utilities and equal? end on every shared and cyclic structure,  *)
(* and answer by what it contains.                                          *)
StructuresAgree == [][ListsAgree(graph') /\ EqualAgrees(graph')]_graph

(* sexp_write_one ends on every structure; what it writes of one without    *)
(* cycles reads back as the same tree, and it marks a cyclic one with "..." *)
(* instead of leaving a part out silently.                                  *)
PlainRoundTrips(h) ==
  Complete(h) =>
    LET out == write_one(h, 1, 0)
        back == read(out)
        cut == \E i \in DOMAIN out : out[i].k = "dots"
    IN  /\ cut = Cyclic(h, 1)
        /\ ~cut => SameTree(h, 1, back.h, back.v)

\* the text the (srfi 38) writer makes of a shared tail that directly
\* follows a shared tail: a label, and then the dot of its reference
Garbled(out) == \E i \in 1..Len(out) - 1 : out[i].k = "def" /\ out[i + 1].k = "dot"

(* What write-with-shared-structure writes reads back with the same sharing *)
(* and the same cycles (the same tree when only cycles are labelled); the    *)
(* one exception is the garbled text, which the reader refuses.             *)
SharedRoundTrips(h) ==
  Complete(h) =>
    \A cyclic_only \in BOOLEAN :
      LET out == write_with_shared_structure(h, 1, cyclic_only)
          back == read(out)
      IN  IF Garbled(out) THEN back.v = ReadError
          ELSE IF cyclic_only THEN SameTree(h, 1, back.h, back.v)
          ELSE SameGraph(h, 1, back.h, back.v)

(* After a successful read no reader label and no mark is left below the    *)
(* datum, in whatever order labels, references and lists come; only a label *)
(* that was defined inside a discarded datum may be left unfilled.          *)
LabelsFilled(in) ==
  in # <<>> =>
    LET r == read(in)
        discards == \E i, j \in DOMAIN in : i < j /\ in[i].k = "discard" /\ in[j].k = "def"
    IN  /\ r.marks = {}
        /\ r.v # ReadError /\ ~discards =>
             /\ ~reader_labelp(r.v)
             /\ \A x \in ObjectsBelow(r.h, r.v) : \A i \in DOMAIN r.h[x].e : ~reader_labelp(r.h[x].e[i])

(* The label a text begins with may be any that is not too far above 0: the *)
(* datum is the one the same text with label 0 has, and a label too far up  *)
(* is refused although there is no label before it.                         *)
LabelsAreNames(in) ==
  in # <<>> /\ in[1].k = "def" =>
    LET labelled == {i \in DOMAIN in : in[i].k \in {"def", "ref"}}
        r == read(in)
        zero == read([i \in DOMAIN in |-> IF i \in labelled THEN [in[i] EXCEPT !.n = 0] ELSE in[i]])
        discards == \E i \in DOMAIN in : in[i].k = "discard"
    IN  IF in[1].n > LabelSlack THEN r.v = ReadError
        ELSE (\A i \in labelled : in[i].n = in[1].n) /\ ~discards =>
               SameGraph(r.h, r.v, zero.h, zero.v)

(* Reader and writers undo each other on every structure, and the reader    *)
(* leaves none of its own marks and labels in what it returns, nor makes a  *)
(* difference between the names a label may have.                           *)
DataRoundTrips ==
  [][/\ PlainRoundTrips(graph') /\ SharedRoundTrips(graph')
     /\ LabelsFilled(text') /\ LabelsAreNames(text')]_datavars
=============================================================================
