----------------------------- MODULE ReadWrite -----------------------------
(***************************************************************************)
(* The reader of sexp.c and the two writers, sexp_write_one and the writer *)
(* with datum labels of (srfi 38), over token sequences: a token is a kind *)
(* and a number.  How characters make up atoms is left out.                *)
(***************************************************************************)
EXTENDS Lists

CONSTANTS
  LabelTable,   \* the first size of the label table: 24
  LabelSlack,   \* how far a label may be ahead of the largest one: 16
  WriteBound    \* SEXP_DEFAULT_WRITE_BOUND

\* the sizes in the code are 24, 16 and a bound above any depth in use
ASSUME ReadWriteAssumption ==
  LabelTable \in Nat \ {0} /\ LabelSlack \in Nat /\ WriteBound \in Nat \ {0}

QuoteSymbol == -2
Void == -11
Eof == -12
CloseMark == -13
RawDot == -14
ReadError == -15
make_reader_label(n) == -20 - n
reader_labelp(v) == v <= -20
unbox_reader_label(v) == -20 - v

Tok(k, n) == [k |-> k, n |-> n]

----------------------------------------------------------------------------
(* The reader.  r.h is the heap, r.in the tokens that are left, r.shares   *)
(* the label table, whose last cell holds the largest label, and r.v the    *)
(* value.                                                                  *)

Give(r, v) == [r EXCEPT !.v = v]
BuiltBy(r, made) == [r EXCEPT !.h = made.h, !.v = made.v]

\* a number compared with a cell of the table: Void is above the labels
Above(n, cell, slack) == cell # Void /\ n > cell + slack

LastCell(shares) == shares[Len(shares)]
SetCell(shares, i, v) == [j \in 1..Len(shares) |-> IF j = i THEN v ELSE shares[j]]

\* #n# : the object, or while it is still being read its reader label
read_label_ref(r, n) ==
  IF r.shares = <<>> \/ Above(n, LastCell(r.shares), 0) \/ r.shares[n + 1] = Void
  THEN Give(r, ReadError)
  ELSE Give(r, r.shares[n + 1])

\* the first label definition of a datum makes the table, with 0 as its
\* largest label
label_table(shares) ==
  IF shares = <<>> THEN [j \in 1..LabelTable |-> IF j = LabelTable THEN 0 ELSE Void]
  ELSE shares

\* the table t with a cell for the label n, which holds the reader label
open_label(t, n) ==
  LET u == IF n + 1 >= Len(t)
           THEN [j \in 1..2 * Len(t) |-> IF j < Len(t) THEN t[j] ELSE Void] ELSE t
      w == SetCell(u, n + 1, make_reader_label(n))
  IN  IF Above(n, LastCell(w), 0) THEN SetCell(w, Len(w), n) ELSE w

RECURSIVE read_raw(_), read_elements(_, _)

read_one(r) ==
  LET o == read_raw(r) IN IF o.v \in {CloseMark, RawDot} THEN Give(o, ReadError) ELSE o

read_label_def(r, n) ==
  LET t == label_table(r.shares)
  IN  IF Above(n, LastCell(t), LabelSlack)
      THEN Give([r EXCEPT !.shares = t], ReadError)
      ELSE LET o == read_one([r EXCEPT !.shares = open_label(t, n)])
               filled == [o EXCEPT !.shares = SetCell(@, n + 1, o.v)]
           IN  IF reader_labelp(o.v) THEN Give(filled, ReadError) ELSE filled

\* after the dot: one more datum and the parenthesis
read_dotted_tail(r, res) ==
  IF res = Null THEN Give(r, ReadError)
  ELSE LET tail == read_raw(r)
           close == read_raw(tail)
           turned == nreverse(close.h, res)
       IN  IF tail.v \in {Eof, CloseMark, ReadError} THEN Give(tail, ReadError)
           ELSE IF close.v # CloseMark \/ tail.v = RawDot THEN Give(close, ReadError)
           ELSE BuiltBy(close, [h |-> set_cdr(turned.h, res, tail.v), v |-> turned.v])

\* the loop of the case '(': res is the reversed list of the elements so far
read_elements(r, res) ==
  LET o == read_raw(r)
  IN  CASE o.v \in {Eof, ReadError} -> Give(o, ReadError)
        [] o.v = CloseMark -> BuiltBy(o, nreverse(o.h, res))
        [] o.v = RawDot -> read_dotted_tail(o, res)
        [] OTHER -> LET c == cons(o.h, o.v, res) IN read_elements([o EXCEPT !.h = c.h], c.v)

read_quoted(r) ==
  LET o == read_one(r)
      tail == cons(o.h, o.v, Null)
  IN  IF o.v = ReadError THEN o ELSE BuiltBy(o, cons(tail.h, QuoteSymbol, tail.v))

read_vector(r) ==
  LET o == read_elements(r, Null)
  IN  IF o.v = ReadError \/ ~listp(o.h, o.v) THEN Give(o, ReadError)
      ELSE BuiltBy(o, list_to_vector(o.h, o.v))

read_raw(r) ==
  IF r.in = <<>> THEN Give(r, Eof)
  ELSE LET tok == Head(r.in)
           s == [r EXCEPT !.in = Tail(@)]
       IN  CASE tok.k = "atom" -> Give(s, tok.n)
             [] tok.k = "quote" -> read_quoted(s)
             [] tok.k = "open" -> read_elements(s, Null)
             [] tok.k = "close" -> Give(s, CloseMark)
             [] tok.k = "dot" -> Give(s, RawDot)
             [] tok.k = "vec" -> read_vector(s)
             [] tok.k = "def" -> read_label_def(s, tok.n)
             [] tok.k = "ref" -> read_label_ref(s, tok.n)
             [] tok.k = "discard" -> LET o == read_one(s)
                                     IN  IF o.v = ReadError THEN o ELSE read_raw(o)

(***************************************************************************)
(* sexp_fill_reader_labels replaces the labels below x and leaves the mark *)
(* of every object it meets at state; f.marks are the objects marked now.  *)
(***************************************************************************)
RECURSIVE fill_reader_labels(_, _, _, _), fill_slots(_, _, _, _, _)
fill_reader_labels(f, x, shares, state) ==
  IF reader_labelp(x) THEN [f EXCEPT !.v = shares[unbox_reader_label(x) + 1]]
  ELSE IF ~pointerp(x) \/ (x \in f.marks) = state THEN [f EXCEPT !.v = x]
  ELSE LET g == [f EXCEPT !.marks = IF state THEN @ \cup {x} ELSE @ \ {x}]
       IN  [fill_slots(g, x, 1, shares, state) EXCEPT !.v = x]

fill_slots(f, x, i, shares, state) ==
  IF i > Len(f.h[x].e) THEN f
  ELSE LET g == fill_reader_labels(f, f.h[x].e[i], shares, state)
           slots == SetCell(g.h[x].e, i, g.v)
       IN  fill_slots([g EXCEPT !.h[x] = [@ EXCEPT !.e = slots]], x, i + 1, shares, state)

\* A variant with a bug: the marks of the one pass are left.
read_one_pass(text) ==
  LET r == read_one([h |-> <<>>, in |-> text, shares |-> <<>>, v |-> Void])
      start == [h |-> r.h, v |-> r.v, marks |-> {}]
  IN  IF r.v = ReadError \/ r.shares = <<>> THEN start
      ELSE fill_reader_labels(start, r.v, r.shares, TRUE)

\* sexp_read_op: the datum at the front of the text
read(text) ==
  LET r == read_one([h |-> <<>>, in |-> text, shares |-> <<>>, v |-> Void])
      start == [h |-> r.h, v |-> r.v, marks |-> {}]
      once == fill_reader_labels(start, r.v, r.shares, TRUE)
  IN  IF r.v = ReadError \/ r.shares = <<>> THEN start
      ELSE fill_reader_labels(once, once.v, r.shares, FALSE)

----------------------------------------------------------------------------
(* sexp_write_one.  The pairs behind the first are run through by x, and   *)
(* by x2 twice as fast; when they meet the list is cyclic.                 *)

Dots == <<Tok("dots", 0)>>

RECURSIVE write_one(_, _, _), write_rest(_, _, _, _), write_elements(_, _, _)
write_one(h, obj, bound) ==
  IF ~pointerp(obj)
  THEN IF obj = Null THEN <<Tok("open", 0), Tok("close", 0)>> ELSE <<Tok("atom", obj)>>
  ELSE IF bound >= WriteBound THEN Dots
  ELSE IF pairp(h, obj)
       THEN LET x == cdr(h, obj)
            IN  <<Tok("open", 0)>> \o write_one(h, car(h, obj), bound + 1)
                \o write_rest(h, x, IF pairp(h, x) THEN cdr(h, x) ELSE Null, bound)
       ELSE <<Tok("vec", 0)>> \o write_elements(h, h[obj].e, bound) \o <<Tok("close", 0)>>

write_rest(h, x, x2, bound) ==
  IF pairp(h, x)
  THEN IF x = x2 THEN Dots
       ELSE write_one(h, car(h, x), bound + 1)
            \o write_rest(h, cdr(h, x),
                          IF pairp(h, x2) /\ pairp(h, cdr(h, x2)) THEN cdr(h, cdr(h, x2)) ELSE Null,
                          bound)
  ELSE (IF x = Null THEN <<>> ELSE <<Tok("dot", 0)>> \o write_one(h, x, bound + 1))
       \o <<Tok("close", 0)>>

write_elements(h, elts, bound) ==
  FoldLeft(LAMBDA text, x : text \o write_one(h, x, bound + 1), <<>>, elts)

----------------------------------------------------------------------------
(* write-with-shared-structure.  seen counts how often the walk met an     *)
(* object; with cyclic_only the count of an object is forgotten when the    *)
(* walk leaves it unless it was met again inside.                          *)

RECURSIVE find_shared(_, _, _, _)
find_shared(h, seen, x, cyclic_only) ==
  IF ~pointerp(x) THEN seen
  ELSE LET met == [seen EXCEPT ![x] = @ + 1]
           walked == IF met[x] > 1 THEN met
                     ELSE FoldLeft(LAMBDA s, y : find_shared(h, s, y, cyclic_only), met, h[x].e)
       IN  IF cyclic_only /\ walked[x] <= 1 THEN [walked EXCEPT ![x] = 0] ELSE walked

\* of an object in w.index: it is written once, it waits for a label, or
\* (a number) it has one
Plain == -1
Wanted == -2

extract_shared_objects(h, x, cyclic_only) ==
  LET seen == find_shared(h, [y \in 1..Len(h) |-> 0], x, cyclic_only)
  IN  [y \in 1..Len(h) |-> IF seen[y] > 1 THEN Wanted ELSE Plain]

index_of(w, x) == IF pointerp(x) THEN w.index[x] ELSE Plain
Display(w, toks) == [w EXCEPT !.out = @ \o toks]

\* the part of check-shared before cont: the label of x, after the prefix
check_shared(w, x, prefix) ==
  CASE index_of(w, x) >= 0 -> Display(w, prefix \o <<Tok("ref", w.index[x])>>)
    [] index_of(w, x) = Wanted ->
         [Display(w, prefix \o <<Tok("def", w.count)>>)
            EXCEPT !.index[x] = w.count, !.count = @ + 1]
    [] OTHER -> w

RECURSIVE wr(_, _, _), wr_one(_, _, _), wr_tail(_, _, _)
wr(h, w, x) ==
  LET c == check_shared(w, x, <<>>) IN IF index_of(w, x) >= 0 THEN c ELSE wr_one(h, c, x)

wr_one(h, w, x) ==
  IF ~pointerp(x) THEN Display(w, write_one(h, x, 0))
  ELSE IF pairp(h, x)
  THEN Display(wr_tail(h, wr(h, Display(w, <<Tok("open", 0)>>), car(h, x)), cdr(h, x)),
               <<Tok("close", 0)>>)
  ELSE Display(FoldLeft(LAMBDA s, y : wr(h, s, y), Display(w, <<Tok("vec", 0)>>), h[x].e),
               <<Tok("close", 0)>>)

\* lp: what follows an element of a list
wr_tail(h, w, ls) ==
  LET dot == <<Tok("dot", 0)>>
      c == check_shared(w, ls, dot)
      sharedp == index_of(w, ls) = Wanted
  IN  IF index_of(w, ls) >= 0 THEN c
      ELSE IF ls = Null THEN c
      ELSE IF pairp(h, ls)
      THEN IF sharedp
           THEN LET d == wr(h, Display(c, <<Tok("open", 0)>>), car(h, ls))
                    e == check_shared(d, cdr(h, ls), dot)
                IN  Display(IF index_of(d, cdr(h, ls)) >= 0 THEN e
                            ELSE wr_tail(h, e, cdr(h, ls)),
                            <<Tok("close", 0)>>)
           ELSE wr_tail(h, wr(h, c, car(h, ls)), cdr(h, ls))
      ELSE IF sharedp THEN wr_one(h, c, ls)
      ELSE wr(h, Display(c, dot), ls)

write_with_shared_structure(h, x, cyclic_only) ==
  wr(h, [out |-> <<>>, count |-> 0, index |-> extract_shared_objects(h, x, cyclic_only)], x).out
=============================================================================
