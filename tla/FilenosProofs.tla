--------------------------- MODULE FilenosProofs ---------------------------
(***************************************************************************)
(* Filenos and their ports, for any number of addresses and descriptors:   *)
(* through opening, closing, dropping and a collection that finalizes and  *)
(* sweeps one object at a time, no file is closed under its users.         *)
(***************************************************************************)
EXTENDS Filenos, ListLemmas, FiniteSetTheorems, TLAPS

Owner(x) == x.t \in {"fileno", "stream"}
Collecting == phase \in {"gc", "retry"}

\* The objects that a collection under way will free.
Doomed == IF Collecting THEN Dead ELSE {}

Recs == [t : {"free", "fileno", "port", "stream"}, fd : Nat, file : Nat, open : BOOLEAN,
         noclose : BOOLEAN, count : Nat, fileno : Nat, dirty : BOOLEAN, late : BOOLEAN]
Strays == SUBSET ({"closed", "wrote"} \X Nat)

\* Every file has one owner, and a descriptor that stands for an owner's file
\* is the owner's.
OwnersApart(tab, o) ==
  /\ \A a \in Addresses : Owner(o[a]) => o[a].fd \in Fds /\ o[a].file \in 1..files
  /\ \A a, b \in Addresses : Owner(o[a]) /\ Owner(o[b]) /\ o[a].file = o[b].file => a = b
  /\ \A a \in Addresses, fd \in Fds : Owner(o[a]) /\ tab[fd] = o[a].file => fd = o[a].fd
  /\ \A fd \in Fds : tab[fd] <= files

\* A port has a fileno, which is for the same file.
PortsOwned(o) ==
  \A a \in Addresses : o[a].t = "port" =>
    /\ o[a].fileno \in Addresses /\ o[o[a].fileno].t = "fileno"
    /\ o[o[a].fileno].file = o[a].file

\* Only the streams of standard ports are not to be closed.
StandardStays(o) ==
  \A a \in Addresses : o[a].noclose => o[a].t = "stream" /\ o[a].file \in std

OwnersHave(tab, o) ==
  raw = {} => \A a \in Addresses : Owner(o[a]) /\ o[a].open => tab[o[a].fd] = o[a].file

OpenPorts(o, b) == {a \in Addresses : o[a].t = "port" /\ o[a].open /\ o[a].fileno = b}
Covered(o) ==
  \A b \in Addresses : o[b].t = "fileno" /\ o[b].open => Cardinality(OpenPorts(o, b)) <= o[b].count

Owned(tab, o) ==
  \A fd \in Fds : tab[fd] \notin {0} \cup std =>
    \E a \in Addresses : Owner(o[a]) /\ o[a].file = tab[fd] /\ o[a].open

\* An open port has an open fileno, unless both are about to be freed and the
\* fileno came first: then its descriptor is still closed.
PortsOpen(tab, o, D) ==
  \A a \in Addresses : o[a].t = "port" /\ o[a].open /\ ~o[a].late =>
    o[o[a].fileno].open \/ (o[a].fileno \in D /\ (raw = {} => tab[o[o[a].fileno].fd] = 0))

FdOK(tab, o, s, D) ==
  /\ tab \in [Fds -> Nat] /\ o \in [Addresses -> Recs] /\ s \in Strays
  /\ OwnersApart(tab, o) /\ PortsOwned(o) /\ StandardStays(o) /\ OwnersHave(tab, o)
  /\ Covered(o) /\ Owned(tab, o) /\ PortsOpen(tab, o, D)
  /\ raw = {} => s = {}

FdInv ==
  /\ FdOK(fdtab, objs, stray, Doomed)
  /\ files \in Nat /\ std \subseteq 1..files /\ held \subseteq Made
  /\ phase \in {"run", "gc", "retry", "again"} /\ done \subseteq Doomed
  /\ \A a \in done : Owner(objs[a]) => ~objs[a].open

-----------------------------------------------------------------------------

\* The open ports of a fileno can be counted.
LEMMA PortSets ==
  ASSUME NEW o, NEW b
  PROVE  IsFiniteSet(OpenPorts(o, b)) /\ Cardinality(OpenPorts(o, b)) \in Nat
<1>1. IsFiniteSet(OpenPorts(o, b))
  BY FilenosAssumption, FS_Subset DEF OpenPorts
<1>2. QED
  BY <1>1, FS_CardinalityType

\* n is o with the objects of C closed and those of F flushed.
Closed(o, n, C) ==
  /\ n \in [Addresses -> Recs]
  /\ \A a \in Addresses :
       /\ n[a].t = o[a].t /\ n[a].fd = o[a].fd /\ n[a].file = o[a].file /\ n[a].fileno = o[a].fileno
       /\ n[a].noclose = o[a].noclose /\ n[a].late = o[a].late
       /\ n[a].open <=> o[a].open /\ a \notin C

\* The object at a is no longer open.
LEMMA SetClosed ==
  ASSUME NEW o \in [Addresses -> Recs], NEW a \in Addresses
  PROVE  /\ Closed(o, Shut(o, a), {a})
         /\ \A b \in Addresses : Shut(o, a)[b].count = o[b].count
<1>1. PICK x \in Recs : x = o[a]
  OBVIOUS
<1>2. PICK y : y = [x EXCEPT !.open = FALSE]
  OBVIOUS
<1>3. /\ y \in Recs /\ y.t = x.t /\ y.fd = x.fd /\ y.file = x.file /\ y.open = FALSE
      /\ y.noclose = x.noclose /\ y.count = x.count
      /\ y.fileno = x.fileno /\ y.dirty = x.dirty /\ y.late = x.late
  BY <1>2 DEF Recs
<1>4. PICK n : n = [o EXCEPT ![a] = y]
  OBVIOUS
<1>5. n \in [Addresses -> Recs] /\ n[a] = y /\ \A b \in Addresses : b # a => n[b] = o[b]
  BY <1>3, <1>4
<1>6. n = Shut(o, a)
  BY <1>1, <1>2, <1>4 DEF Shut
<1>7. ASSUME NEW b \in Addresses
      PROVE  /\ n[b].t = o[b].t /\ n[b].fd = o[b].fd /\ n[b].file = o[b].file /\ n[b].fileno = o[b].fileno
             /\ n[b].noclose = o[b].noclose /\ n[b].late = o[b].late /\ n[b].count = o[b].count
             /\ n[b].open <=> o[b].open /\ b \notin {a}
  <2>1. CASE b = a
    BY <1>1, <1>3, <1>5, <2>1
  <2>2. CASE b # a
    BY <1>5, <2>2
  <2>3. QED
    BY <2>1, <2>2
<1>8. QED
  BY <1>5, <1>6, <1>7 DEF Closed

\* What does not depend on whether objects are open.
LEMMA ClosedKeeps ==
  ASSUME NEW o \in [Addresses -> Recs], NEW n, NEW C, Closed(o, n, C)
  PROVE  /\ \A b \in Addresses : Owner(n[b]) <=> Owner(o[b])
         /\ PortsOwned(o) => PortsOwned(n)
         /\ StandardStays(o) => StandardStays(n)
         /\ \A b \in Addresses : OpenPorts(n, b) = OpenPorts(o, b) \ C
<1>1. \A b \in Addresses : Owner(n[b]) <=> Owner(o[b])
  BY DEF Closed, Owner
<1>2. PortsOwned(o) => PortsOwned(n)
  BY DEF Closed, PortsOwned
<1>3. StandardStays(o) => StandardStays(n)
  BY DEF Closed, StandardStays
<1>4. \A b \in Addresses : OpenPorts(n, b) = OpenPorts(o, b) \ C
  BY DEF Closed, OpenPorts
<1>5. QED
  BY <1>1, <1>2, <1>3, <1>4

\* The system's close, for an owner that was open and is not now.
LEMMA CloseOK ==
  ASSUME NEW tab, NEW o, NEW s, NEW D, FdOK(tab, o, s, D), files \in Nat,
         NEW a \in Addresses, Owner(o[a]), o[a].open,
         \A c \in OpenPorts(o, a) : o[c].late \/ a \in D,
         NEW n, Closed(o, n, {a}), \A b \in Addresses : n[b].count = o[b].count,
         NEW r, r = Strayed(s, tab, "closed", o[a].fd, o[a].file)
  PROVE  FdOK(Freed(tab, o[a].fd), n, r, D)
<1>1. /\ tab \in [Fds -> Nat] /\ o \in [Addresses -> Recs] /\ s \in Strays
      /\ OwnersApart(tab, o) /\ PortsOwned(o) /\ StandardStays(o) /\ OwnersHave(tab, o)
      /\ Covered(o) /\ Owned(tab, o) /\ PortsOpen(tab, o, D) /\ (raw = {} => s = {})
  BY DEF FdOK
<1>2. PICK f, g : f = o[a].fd /\ g = o[a].file
  OBVIOUS
<1>3. f \in Fds /\ g \in Nat \ {0} /\ tab[f] \in Nat
  BY <1>1, <1>2 DEF OwnersApart
<1>4. PICK t : t = Freed(tab, f)
  OBVIOUS
<1>5. t \in [Fds -> Nat] /\ \A e \in Fds : t[e] = IF e = f THEN 0 ELSE tab[e]
  BY <1>1, <1>3, <1>4 DEF Freed
<1>6. /\ n \in [Addresses -> Recs] /\ (\A b \in Addresses : Owner(n[b]) <=> Owner(o[b]))
      /\ PortsOwned(n) /\ StandardStays(n) /\ \A b \in Addresses : OpenPorts(n, b) = OpenPorts(o, b) \ {a}
  <2>1. n \in [Addresses -> Recs]
    BY DEF Closed
  <2>2. QED
    BY <1>1, <2>1, ClosedKeeps
<1>7. \A b \in Addresses : /\ n[b].t = o[b].t /\ n[b].fd = o[b].fd /\ n[b].file = o[b].file
                            /\ n[b].fileno = o[b].fileno /\ n[b].late = o[b].late
                            /\ (n[b].open <=> o[b].open /\ b # a)
  BY DEF Closed
<1>8. OwnersApart(t, n)
  <2>1. \A b \in Addresses : Owner(o[b]) => o[b].fd \in Fds /\ o[b].file \in 1..files /\ o[b].file # 0
    BY <1>1 DEF OwnersApart
  <2>2. QED
    BY <1>1, <1>5, <1>6, <1>7, <2>1 DEF OwnersApart
<1>9. OwnersHave(t, n)
  <2>1. SUFFICES ASSUME raw = {}, NEW b \in Addresses, Owner(o[b]), o[b].open, b # a
                 PROVE  t[o[b].fd] = o[b].file
    BY <1>6, <1>7 DEF OwnersHave
  <2>2. tab[o[b].fd] = o[b].file /\ tab[f] = g /\ o[b].fd \in Fds
    BY <1>1, <1>2, <2>1 DEF OwnersHave, OwnersApart
  <2>3. g # o[b].file
    BY <1>1, <1>2, <2>1 DEF OwnersApart
  <2>4. QED
    BY <1>5, <2>2, <2>3
<1>10. Covered(n)
  <2>1. ASSUME NEW b \in Addresses PROVE OpenPorts(n, b) = OpenPorts(o, b)
    <3>1. a \notin OpenPorts(o, b)
      BY DEF OpenPorts, Owner
    <3>2. QED
      BY <1>6, <3>1
  <2>2. QED
    BY <1>1, <1>7, <2>1 DEF Covered
<1>11. Owned(t, n)
  <2>1. SUFFICES ASSUME NEW e \in Fds, t[e] \notin {0} \cup std
                 PROVE  \E b \in Addresses : Owner(n[b]) /\ n[b].file = t[e] /\ n[b].open
    BY DEF Owned
  <2>2. e # f /\ t[e] = tab[e]
    BY <1>5, <2>1
  <2>3. PICK b \in Addresses : Owner(o[b]) /\ o[b].file = tab[e] /\ o[b].open
    BY <1>1, <2>1, <2>2 DEF Owned
  <2>4. b # a
    BY <1>1, <1>2, <2>2, <2>3 DEF OwnersApart
  <2>5. QED
    BY <1>6, <1>7, <2>2, <2>3, <2>4
<1>12. PortsOpen(t, n, D)
  <2>1. SUFFICES ASSUME NEW c \in Addresses, n[c].t = "port", n[c].open, ~n[c].late
                 PROVE  \/ n[n[c].fileno].open
                        \/ n[c].fileno \in D /\ (raw = {} => t[n[n[c].fileno].fd] = 0)
    BY DEF PortsOpen
  <2>2. o[c].t = "port" /\ o[c].open /\ ~o[c].late /\ n[c].fileno = o[c].fileno
    BY <1>7, <2>1
  <2>3. PICK b \in Addresses : b = o[c].fileno /\ o[b].t = "fileno"
    BY <1>1, <2>2 DEF PortsOwned
  <2>4. o[b].open \/ (b \in D /\ (raw = {} => tab[o[b].fd] = 0))
    BY <1>1, <2>2, <2>3 DEF PortsOpen
  <2>5. o[b].fd \in Fds
    BY <1>1, <2>3 DEF OwnersApart, Owner
  <2>6. CASE b = a
    <3>1. c \in OpenPorts(o, a)
      BY <2>2, <2>3, <2>6 DEF OpenPorts
    <3>2. a \in D
      BY <2>2, <3>1
    <3>3. QED
      BY <1>2, <1>3, <1>5, <1>7, <2>2, <2>3, <2>6, <3>2
  <2>7. CASE b # a
    BY <1>5, <1>7, <2>2, <2>3, <2>4, <2>5, <2>7
  <2>8. QED
    BY <2>6, <2>7
<1>13. r \in Strays /\ (raw = {} => r = {})
  <2>1. raw = {} => tab[f] = g
    BY <1>1, <1>2 DEF OwnersHave
  <2>2. r \in Strays
    BY <1>1, <1>2, <1>3 DEF Strays, Strayed
  <2>3. QED
    BY <1>1, <1>2, <2>1, <2>2 DEF Strayed
<1>14. QED
  BY <1>2, <1>4, <1>5, <1>6, <1>8, <1>9, <1>10, <1>11, <1>12, <1>13 DEF FdOK

\* A port, or a stream that is not to be closed, that was open and is not now.
LEMMA QuietCloseOK ==
  ASSUME NEW tab, NEW o, NEW s, NEW D, FdOK(tab, o, s, D),
         NEW a \in Addresses, o[a].t = "port" \/ (o[a].t = "stream" /\ o[a].noclose),
         NEW n, Closed(o, n, {a}), \A b \in Addresses : n[b].count = o[b].count
  PROVE  FdOK(tab, n, s, D)
<1>1. /\ tab \in [Fds -> Nat] /\ o \in [Addresses -> Recs] /\ s \in Strays
      /\ OwnersApart(tab, o) /\ PortsOwned(o) /\ StandardStays(o) /\ OwnersHave(tab, o)
      /\ Covered(o) /\ Owned(tab, o) /\ PortsOpen(tab, o, D) /\ (raw = {} => s = {})
  BY DEF FdOK
<1>2. n \in [Addresses -> Recs]
  BY DEF Closed
<1>3. /\ (\A b \in Addresses : Owner(n[b]) <=> Owner(o[b]))
      /\ PortsOwned(n) /\ StandardStays(n) /\ \A b \in Addresses : OpenPorts(n, b) = OpenPorts(o, b) \ {a}
  BY <1>1, ClosedKeeps
<1>4. \A b \in Addresses : /\ n[b].t = o[b].t /\ n[b].fd = o[b].fd /\ n[b].file = o[b].file
                            /\ n[b].fileno = o[b].fileno /\ n[b].late = o[b].late
                            /\ (n[b].open <=> o[b].open /\ b # a)
  BY DEF Closed
<1>5. OwnersApart(tab, n)
  BY <1>1, <1>3, <1>4 DEF OwnersApart
<1>6. OwnersHave(tab, n)
  BY <1>1, <1>3, <1>4 DEF OwnersHave
<1>7. Covered(n)
  <2>1. SUFFICES ASSUME NEW b \in Addresses, n[b].t = "fileno", n[b].open
                 PROVE  Cardinality(OpenPorts(n, b)) <= n[b].count
    BY DEF Covered
  <2>2. Cardinality(OpenPorts(o, b)) <= o[b].count /\ n[b].count = o[b].count /\ o[b].count \in Nat
    BY <1>1, <1>4, <2>1 DEF Covered, Recs
  <2>3. Cardinality(OpenPorts(n, b)) <= Cardinality(OpenPorts(o, b))
    BY <1>3, PortSets, FS_Subset
  <2>4. QED
    BY <2>2, <2>3, PortSets
<1>8. Owned(tab, n)
  <2>1. SUFFICES ASSUME NEW e \in Fds, tab[e] \notin {0} \cup std
                 PROVE  \E b \in Addresses : Owner(n[b]) /\ n[b].file = tab[e] /\ n[b].open
    BY DEF Owned
  <2>2. PICK b \in Addresses : Owner(o[b]) /\ o[b].file = tab[e] /\ o[b].open
    BY <1>1, <2>1 DEF Owned
  <2>3. b # a
    BY <1>1, <2>1, <2>2 DEF StandardStays, Owner
  <2>4. QED
    BY <1>3, <1>4, <2>2, <2>3
<1>9. PortsOpen(tab, n, D)
  <2>1. SUFFICES ASSUME NEW c \in Addresses, n[c].t = "port", n[c].open, ~n[c].late
                 PROVE  \/ n[n[c].fileno].open
                        \/ n[c].fileno \in D /\ (raw = {} => tab[n[n[c].fileno].fd] = 0)
    BY DEF PortsOpen
  <2>2. o[c].t = "port" /\ o[c].open /\ ~o[c].late /\ n[c].fileno = o[c].fileno
    BY <1>4, <2>1
  <2>3. PICK b \in Addresses : b = o[c].fileno /\ o[b].t = "fileno"
    BY <1>1, <2>2 DEF PortsOwned
  <2>4. o[b].open \/ (b \in D /\ (raw = {} => tab[o[b].fd] = 0))
    BY <1>1, <2>2, <2>3 DEF PortsOpen
  <2>5. QED
    BY <1>4, <2>2, <2>3, <2>4
<1>10. QED
  BY <1>1, <1>2, <1>3, <1>5, <1>6, <1>7, <1>8, <1>9 DEF FdOK

\* The count of the fileno at b is k.
LEMMA SetCount ==
  ASSUME NEW o \in [Addresses -> Recs], NEW b \in Addresses, NEW k \in Nat
  PROVE  LET n == Counted(o, b, k)
         IN  /\ Closed(o, n, {})
             /\ \A c \in Addresses : n[c].count = IF c = b THEN k ELSE o[c].count
<1>1. PICK x \in Recs : x = o[b]
  OBVIOUS
<1>2. PICK y : y = [x EXCEPT !.count = k]
  OBVIOUS
<1>3. /\ y \in Recs /\ y.t = x.t /\ y.fd = x.fd /\ y.file = x.file /\ y.open = x.open
      /\ y.noclose = x.noclose /\ y.count = k /\ y.fileno = x.fileno /\ y.late = x.late
  BY <1>2 DEF Recs
<1>4. PICK n : n = [o EXCEPT ![b] = y]
  OBVIOUS
<1>5. n \in [Addresses -> Recs] /\ n[b] = y /\ \A c \in Addresses : c # b => n[c] = o[c]
  BY <1>3, <1>4
<1>6. n = Counted(o, b, k)
  BY <1>1, <1>2, <1>4 DEF Counted
<1>7. \A c \in Addresses :
        /\ n[c].t = o[c].t /\ n[c].fd = o[c].fd /\ n[c].file = o[c].file /\ n[c].fileno = o[c].fileno
        /\ n[c].noclose = o[c].noclose /\ n[c].late = o[c].late /\ (n[c].open <=> o[c].open)
        /\ n[c].count = IF c = b THEN k ELSE o[c].count
  BY <1>1, <1>3, <1>5
<1>8. QED
  BY <1>5, <1>6, <1>7 DEF Closed

\* Counts change, and still cover the open ports.
LEMMA CountOK ==
  ASSUME NEW tab, NEW o, NEW s, NEW D, FdOK(tab, o, s, D), NEW n, Closed(o, n, {}), Covered(n)
  PROVE  FdOK(tab, n, s, D)
<1>1. /\ tab \in [Fds -> Nat] /\ o \in [Addresses -> Recs] /\ s \in Strays
      /\ OwnersApart(tab, o) /\ PortsOwned(o) /\ StandardStays(o) /\ OwnersHave(tab, o)
      /\ Owned(tab, o) /\ PortsOpen(tab, o, D) /\ (raw = {} => s = {})
  BY DEF FdOK
<1>2. n \in [Addresses -> Recs]
  BY DEF Closed
<1>3. (\A c \in Addresses : Owner(n[c]) <=> Owner(o[c])) /\ PortsOwned(n) /\ StandardStays(n)
  BY <1>1, ClosedKeeps
<1>4. \A c \in Addresses :
        /\ n[c].t = o[c].t /\ n[c].fd = o[c].fd /\ n[c].file = o[c].file /\ n[c].fileno = o[c].fileno
        /\ n[c].late = o[c].late /\ (n[c].open <=> o[c].open)
  BY DEF Closed
<1>5. OwnersApart(tab, n)
  BY <1>1, <1>3, <1>4 DEF OwnersApart
<1>6. OwnersHave(tab, n) /\ Owned(tab, n)
  BY <1>1, <1>3, <1>4 DEF OwnersHave, Owned
<1>7. PortsOpen(tab, n, D)
  <2>1. SUFFICES ASSUME NEW c \in Addresses, n[c].t = "port", n[c].open, ~n[c].late
                 PROVE  \/ n[n[c].fileno].open
                        \/ n[c].fileno \in D /\ (raw = {} => tab[n[n[c].fileno].fd] = 0)
    BY DEF PortsOpen
  <2>2. o[c].t = "port" /\ o[c].open /\ ~o[c].late /\ n[c].fileno = o[c].fileno
    BY <1>4, <2>1
  <2>3. PICK e \in Addresses : e = o[c].fileno
    BY <1>1, <2>2 DEF PortsOwned
  <2>4. o[e].open \/ (e \in D /\ (raw = {} => tab[o[e].fd] = 0))
    BY <1>1, <2>2, <2>3 DEF PortsOpen
  <2>5. QED
    BY <1>4, <2>2, <2>3, <2>4
<1>8. QED
  BY <1>1, <1>2, <1>3, <1>5, <1>6, <1>7 DEF FdOK

-----------------------------------------------------------------------------

\* The parts of the record the finalizers work on.
LEMMA StateFields ==
  ASSUME NEW tab, NEW o, NEW s
  PROVE  State(tab, o, s).tab = tab /\ State(tab, o, s).objs = o /\ State(tab, o, s).stray = s
BY DEF State

\* The record with other objects.
LEMMA StateWith ==
  ASSUME NEW tab, NEW o, NEW s, NEW n
  PROVE  With(State(tab, o, s), n) = State(tab, n, s)
BY DEF State, With

\* The record after a close.
LEMMA StateClose ==
  ASSUME NEW tab, NEW o, NEW s, NEW fd, NEW f
  PROVE  close(State(tab, o, s), fd, f)
           = State(Freed(tab, fd), o, Strayed(s, tab, "closed", fd, f))
<1>. DEFINE m == State(tab, o, s)
<1>1. m.tab = tab /\ m.objs = o /\ m.stray = s
  BY StateFields
<1>. HIDE DEF m
<1>2. QED
  BY <1>1, Zenon DEF close, m

\* The record after a write.
LEMMA StateWrite ==
  ASSUME NEW tab, NEW o, NEW s, NEW fd, NEW x
  PROVE  WriteTo(State(tab, o, s), fd, x)
           = State(tab, o, IF x.late THEN s ELSE Strayed(s, tab, "wrote", fd, x.file))
<1>. DEFINE m == State(tab, o, s)
<1>1. m.tab = tab /\ m.objs = o /\ m.stray = s
  BY StateFields
<1>. HIDE DEF m
<1>2. QED
  BY <1>1, Zenon DEF WriteTo, m

\* What a finalizer leaves, given the descriptor table, the objects and the
\* strays before: the invariant, the objects with some of them closed, and the
\* one at a among these.
Final(m, o, a, D) ==
  /\ FdOK(m.tab, m.objs, m.stray, D)
  /\ (\E C : Closed(o, m.objs, C))
  /\ ~m.objs[a].open

\* sexp_finalize_fileno closes its own file or nothing, unless a port would be
\* left with a closed fileno.
LEMMA FilenoFinal ==
  ASSUME NEW tab, NEW o, NEW s, NEW D, FdOK(tab, o, s, D), files \in Nat,
         NEW a \in Addresses, o[a].t = "fileno",
         \A c \in OpenPorts(o, a) : o[c].late \/ a \in D
  PROVE  Final(finalize_fileno(State(tab, o, s), a), o, a, D)
<1>1. o \in [Addresses -> Recs] /\ tab \in [Fds -> Nat] /\ OwnersApart(tab, o) /\ StandardStays(o)
  BY DEF FdOK
<1>2. ~o[a].noclose
  BY <1>1 DEF StandardStays
<1>3. CASE ~o[a].open
  <2>1. \A b \in Addresses : o[b].open <=> o[b].open /\ b \notin {}
    OBVIOUS
  <2>2. Closed(o, o, {})
    BY <1>1, <2>1 DEF Closed
  <2>3. QED
    BY <1>3, <2>2, StateFields DEF Final, finalize_fileno
<1>4. CASE o[a].open
  <2>. DEFINE n == Shut(o, a)
              r == Strayed(s, tab, "closed", o[a].fd, o[a].file)
              m == finalize_fileno(State(tab, o, s), a)
  <2>1. Closed(o, n, {a}) /\ \A b \in Addresses : n[b].count = o[b].count
    BY <1>1, SetClosed
  <2>2. m.tab = Freed(tab, o[a].fd) /\ m.objs = n /\ m.stray = r
    <3>1. State(tab, o, s).objs = o
      BY StateFields
    <3>2. m = close(With(State(tab, o, s), n), o[a].fd, o[a].file)
      BY <1>2, <1>4, <3>1, Zenon DEF finalize_fileno
    <3>3. With(State(tab, o, s), n) = State(tab, n, s)
      BY StateWith
    <3>. HIDE DEF m, n
    <3>6. close(State(tab, n, s), o[a].fd, o[a].file) = State(Freed(tab, o[a].fd), n, r)
      BY StateClose
    <3>. HIDE DEF r
    <3>4. m = State(Freed(tab, o[a].fd), n, r)
      BY <3>2, <3>3, <3>6
    <3>5. QED
      BY <3>4, StateFields
  <2>. HIDE DEF n, r, m
  <2>3. Owner(o[a])
    BY DEF Owner
  <2>4. FdOK(Freed(tab, o[a].fd), n, r, D)
    BY <1>4, <2>1, <2>3, CloseOK DEF r
  <2>5. ~n[a].open
    BY <2>1 DEF Closed
  <2>6. Final(m, o, a, D)
    BY <2>1, <2>2, <2>4, <2>5, Zenon DEF Final
  <2>7. QED
    BY <2>6 DEF m
<1>5. QED
  BY <1>3, <1>4

\* A flush closes nothing and changes no count.
LEMMA SetFlushed ==
  ASSUME NEW o \in [Addresses -> Recs], NEW a \in Addresses
  PROVE  /\ Closed(o, Clean(o, a), {})
         /\ \A b \in Addresses : Clean(o, a)[b].count = o[b].count
<1>1. PICK x \in Recs : x = o[a]
  OBVIOUS
<1>2. PICK y : y = [x EXCEPT !.dirty = FALSE]
  OBVIOUS
<1>3. /\ y \in Recs /\ y.t = x.t /\ y.fd = x.fd /\ y.file = x.file /\ y.open = x.open
      /\ y.noclose = x.noclose /\ y.count = x.count /\ y.fileno = x.fileno /\ y.late = x.late
  BY <1>2 DEF Recs
<1>4. PICK n : n = [o EXCEPT ![a] = y]
  OBVIOUS
<1>5. n \in [Addresses -> Recs] /\ n[a] = y /\ \A b \in Addresses : b # a => n[b] = o[b]
  BY <1>3, <1>4
<1>6. n = Clean(o, a)
  BY <1>1, <1>2, <1>4 DEF Clean
<1>7. \A c \in Addresses :
        /\ n[c].t = o[c].t /\ n[c].fd = o[c].fd /\ n[c].file = o[c].file /\ n[c].fileno = o[c].fileno
        /\ n[c].noclose = o[c].noclose /\ n[c].late = o[c].late /\ (n[c].open <=> o[c].open)
        /\ n[c].count = o[c].count
  BY <1>1, <1>3, <1>5
<1>8. QED
  BY <1>5, <1>6, <1>7 DEF Closed

\* One close after another.
LEMMA ClosedTwice ==
  ASSUME NEW o, NEW n, NEW q, NEW C, NEW E, Closed(o, n, C), Closed(n, q, E)
  PROVE  Closed(o, q, C \cup E)
BY DEF Closed

\* The first part of finalize_port: the flush reaches the port's own file, or
\* nothing.
LEMMA FlushOK ==
  ASSUME NEW tab, NEW o, NEW s, NEW D, FdOK(tab, o, s, D),
         NEW a \in Addresses, o[a].t \in {"port", "stream"}, o[a].open
  PROVE  \E q, r :
           /\ flush_forced(With(State(tab, o, s), Shut(o, a)), a)
                = State(tab, q, r)
           /\ Closed(o, q, {a}) /\ (\A b \in Addresses : q[b].count = o[b].count)
           /\ FdOK(tab, o, r, D)
<1>1. /\ tab \in [Fds -> Nat] /\ o \in [Addresses -> Recs] /\ s \in Strays
      /\ OwnersApart(tab, o) /\ PortsOwned(o) /\ OwnersHave(tab, o)
      /\ PortsOpen(tab, o, D) /\ (raw = {} => s = {})
  BY DEF FdOK
<1>. DEFINE n == Shut(o, a)
            d == IF o[a].t = "port" THEN o[o[a].fileno].fd ELSE o[a].fd
            w == IF o[a].late THEN s ELSE Strayed(s, tab, "wrote", d, o[a].file)
            p == flush_forced(With(State(tab, o, s), Shut(o, a)), a)
<1>2. Closed(o, n, {a}) /\ \A b \in Addresses : n[b].count = o[b].count
  BY <1>1, SetClosed
<1>3. n \in [Addresses -> Recs] /\ n[a].dirty = o[a].dirty /\ n[a].t = o[a].t /\ n[a].fd = o[a].fd
      /\ n[a].fileno = o[a].fileno /\ n[a].file = o[a].file /\ n[a].late = o[a].late
      /\ \A b \in Addresses : n[b].fd = o[b].fd
  <2>1. n[a].dirty = o[a].dirty
    BY <1>1 DEF Shut
  <2>2. QED
    BY <1>2, <2>1 DEF Closed
<1>4. CASE ~o[a].dirty
  <2>1. p = State(tab, n, s)
    <3>1. With(State(tab, o, s), Shut(o, a))
            = State(tab, n, s)
      BY StateWith
    <3>. HIDE DEF n
    <3>2. QED
      BY <1>3, <1>4, <3>1, StateFields DEF flush_forced
  <2>2. QED
    BY <1>2, <2>1
<1>5. CASE o[a].dirty
  <2>1. p = State(tab, Clean(n, a), w)
    <3>1. With(State(tab, o, s), Shut(o, a))
            = State(tab, n, s)
      BY StateWith
    <3>2. o[a].t = "port" => o[a].fileno \in Addresses
      BY <1>1 DEF PortsOwned
    <3>. HIDE DEF n
    <3>3. (IF n[a].t = "port" THEN n[n[a].fileno].fd ELSE n[a].fd) = d
      BY <1>3, <3>2
    <3>4. WriteTo(State(tab, n, s), d, n[a]) = State(tab, n, w)
      <4>1. WriteTo(State(tab, n, s), d, n[a])
              = State(tab, n, IF n[a].late THEN s ELSE Strayed(s, tab, "wrote", d, n[a].file))
        BY StateWrite
      <4>2. QED
        BY <1>3, <4>1
    <3>. HIDE DEF d, w
    <3>5. State(tab, n, s).objs = n
      BY StateFields
    <3>6. flush_forced(State(tab, n, s), a) = With(State(tab, n, w), Clean(n, a))
      BY <1>3, <1>5, <3>3, <3>4, <3>5, Zenon DEF flush_forced
    <3>7. flush_forced(State(tab, n, s), a) = State(tab, Clean(n, a), w)
      BY <3>6, StateWith
    <3>8. QED
      BY <3>1, <3>7, Zenon
  <2>. HIDE DEF n, p
  <2>2. /\ Closed(n, Clean(n, a), {})
        /\ \A b \in Addresses : Clean(n, a)[b].count = n[b].count
    BY <1>3, SetFlushed
  <2>3. Closed(o, Clean(n, a), {a})
    <3>1. {a} \cup {} = {a}
      OBVIOUS
    <3>2. Closed(o, Clean(n, a), {a} \cup {})
      BY <1>2, <2>2, ClosedTwice, Zenon
    <3>3. QED
      BY <3>1, <3>2, Zenon
  <2>4. d \in Fds
    BY <1>1 DEF PortsOwned, OwnersApart, Owner
  <2>5. w \in Strays
    BY <1>1, <2>4 DEF Strays, Strayed
  <2>6. raw = {} => tab[d] \in {0, o[a].file} \/ o[a].late
    <3>1. CASE o[a].t = "stream"
      BY <1>1, <3>1 DEF OwnersHave, Owner
    <3>2. CASE o[a].t = "port" /\ ~o[a].late
      <4>1. PICK b \in Addresses : b = o[a].fileno /\ o[b].t = "fileno" /\ o[b].file = o[a].file
        BY <1>1, <3>2 DEF PortsOwned
      <4>2. o[b].open \/ (raw = {} => tab[o[b].fd] = 0)
        BY <1>1, <3>2, <4>1 DEF PortsOpen
      <4>3. raw = {} => tab[o[b].fd] \in {0, o[b].file}
        BY <1>1, <4>1, <4>2 DEF OwnersHave, Owner
      <4>4. QED
        BY <3>2, <4>1, <4>3
    <3>3. QED
      BY <3>1, <3>2
  <2>7. FdOK(tab, o, w, D)
    BY <1>1, <2>5, <2>6 DEF FdOK, Strayed
  <2>8. QED
    BY <1>2, <2>1, <2>2, <2>3, <2>7 DEF p
<1>6. QED
  BY <1>4, <1>5

\* The last port of a fileno closes it, and an earlier one leaves the count
\* above the number of those that remain.
LEMMA UncountFinal ==
  ASSUME NEW tab, NEW q, NEW r, NEW D, FdOK(tab, q, r, D), files \in Nat,
         NEW b \in Addresses, q[b].t = "fileno", q[b].open,
         Cardinality(OpenPorts(q, b)) + 1 <= q[b].count
  PROVE  LET m == Uncount(State(tab, q, r), b)
         IN  FdOK(m.tab, m.objs, m.stray, D) /\ \E C : Closed(q, m.objs, C)
<1>1. q \in [Addresses -> Recs] /\ Covered(q)
  BY DEF FdOK
<1>2. PICK k \in Nat : k = q[b].count - 1 /\ Cardinality(OpenPorts(q, b)) <= k
  <2>1. q[b].count \in Nat /\ Cardinality(OpenPorts(q, b)) \in Nat
    BY <1>1, PortSets DEF Recs
  <2>2. QED
    BY <2>1
<1>. DEFINE n == Counted(q, b, k)
            m == Uncount(State(tab, q, r), b)
<1>3. Closed(q, n, {}) /\ \A c \in Addresses : n[c].count = IF c = b THEN k ELSE q[c].count
  BY <1>1, SetCount
<1>4. m = IF n[b].count = 0 THEN finalize_fileno(State(tab, n, r), b) ELSE State(tab, n, r)
  <2>1. State(tab, q, r).objs = q /\ State(tab, n, r).objs = n
    BY StateFields
  <2>2. With(State(tab, q, r), n) = State(tab, n, r)
    BY StateWith
  <2>3. QED
    BY <1>2, <2>1, <2>2, Zenon DEF Uncount
<1>. HIDE DEF n, m
<1>5. \A c \in Addresses : OpenPorts(n, c) = OpenPorts(q, c)
  BY <1>3 DEF Closed, OpenPorts
<1>6. Covered(n)
  <2>1. SUFFICES ASSUME NEW c \in Addresses, n[c].t = "fileno", n[c].open
                 PROVE  Cardinality(OpenPorts(n, c)) <= n[c].count
    BY DEF Covered
  <2>2. q[c].t = "fileno" /\ q[c].open
    BY <1>3, <2>1 DEF Closed
  <2>3. Cardinality(OpenPorts(q, c)) <= q[c].count
    BY <1>1, <2>2 DEF Covered
  <2>4. QED
    BY <1>2, <1>3, <1>5, <2>3
<1>7. FdOK(tab, n, r, D)
  BY <1>3, <1>6, CountOK
<1>8. CASE n[b].count = 0
  <2>1. OpenPorts(n, b) = {}
    <3>1. Cardinality(OpenPorts(n, b)) = 0
      BY <1>2, <1>3, <1>5, <1>8, PortSets
    <3>2. QED
      BY <3>1, PortSets, FS_EmptySet
  <2>2. n[b].t = "fileno"
    BY <1>3 DEF Closed
  <2>3. Final(m, n, b, D)
    BY <1>4, <1>7, <1>8, <2>1, <2>2, FilenoFinal
  <2>4. PICK C : Closed(n, m.objs, C)
    BY <2>3 DEF Final
  <2>5. Closed(q, m.objs, {} \cup C)
    BY <1>3, <2>4, ClosedTwice, Zenon
  <2>6. QED
    BY <2>3, <2>5, Zenon DEF Final, m
<1>9. CASE n[b].count # 0
  <2>1. m.tab = tab /\ m.objs = n /\ m.stray = r
    BY <1>4, <1>9, StateFields
  <2>2. QED
    BY <1>3, <1>7, <2>1, Zenon DEF m
<1>10. QED
  BY <1>8, <1>9, Zenon

\* sexp_finalize_port, of a port on a fileno and of a stream, open or not.
LEMMA PortFinal ==
  ASSUME NEW tab, NEW o, NEW s, NEW D, FdOK(tab, o, s, D), files \in Nat,
         NEW a \in Addresses, o[a].t \in {"port", "stream"}
  PROVE  Final(finalize_port(State(tab, o, s), a), o, a, D)
<1>1. /\ o \in [Addresses -> Recs] /\ tab \in [Fds -> Nat] /\ OwnersApart(tab, o)
      /\ PortsOwned(o) /\ Covered(o)
  BY DEF FdOK
<1>. DEFINE m == finalize_port(State(tab, o, s), a)
            p == flush_forced(With(State(tab, o, s), Shut(o, a)), a)
<1>2. m = IF ~o[a].open THEN State(tab, o, s)
          ELSE IF o[a].t = "port" /\ p.objs[o[a].fileno].open THEN Uncount(p, o[a].fileno)
          ELSE IF o[a].t = "stream" /\ ~o[a].noclose THEN close(p, o[a].fd, o[a].file)
          ELSE p
  <2>1. State(tab, o, s).objs = o
    BY StateFields
  <2>2. QED
    BY <2>1, Zenon DEF finalize_port
<1>. HIDE DEF m
<1>3. CASE ~o[a].open
  <2>1. \A b \in Addresses : o[b].open <=> o[b].open /\ b \notin {}
    OBVIOUS
  <2>2. Closed(o, o, {})
    BY <1>1, <2>1 DEF Closed
  <2>3. m.tab = tab /\ m.objs = o /\ m.stray = s
    BY <1>2, <1>3, StateFields
  <2>4. QED
    BY <1>3, <2>2, <2>3, Zenon DEF Final, m
<1>4. CASE o[a].open
  <2>1. PICK q, r : /\ p = State(tab, q, r)
                    /\ Closed(o, q, {a}) /\ (\A b \in Addresses : q[b].count = o[b].count)
                    /\ FdOK(tab, o, r, D)
    BY <1>4, FlushOK
  <2>. HIDE DEF p
  <2>2. p.tab = tab /\ p.objs = q /\ p.stray = r
    BY <2>1, StateFields
  <2>3. ~q[a].open
    BY <2>1 DEF Closed
  <2>4. CASE o[a].t = "stream" /\ ~o[a].noclose
    <3>1. m = State(Freed(tab, o[a].fd), q, Strayed(r, tab, "closed", o[a].fd, o[a].file))
      <4>1. m = close(State(tab, q, r), o[a].fd, o[a].file)
        BY <1>2, <1>4, <2>1, <2>4
      <4>2. QED
        BY <4>1, StateClose
    <3>2. OpenPorts(o, a) = {}
      BY <1>1, <2>4 DEF OpenPorts, PortsOwned
    <3>3. Owner(o[a])
      BY <2>4 DEF Owner
    <3>4. FdOK(Freed(tab, o[a].fd), q, Strayed(r, tab, "closed", o[a].fd, o[a].file), D)
      BY <1>4, <2>1, <3>2, <3>3, CloseOK
    <3>5. /\ m.tab = Freed(tab, o[a].fd) /\ m.objs = q
          /\ m.stray = Strayed(r, tab, "closed", o[a].fd, o[a].file)
      BY <3>1, StateFields
    <3>6. QED
      BY <2>1, <2>3, <3>4, <3>5, Zenon DEF Final, m
  <2>5. CASE o[a].t = "port" \/ (o[a].t = "stream" /\ o[a].noclose)
    <3>1. FdOK(tab, q, r, D)
      BY <2>1, <2>5, QuietCloseOK
    <3>2. CASE o[a].t = "port" /\ q[o[a].fileno].open
      <4>1. PICK b \in Addresses : b = o[a].fileno /\ o[b].t = "fileno"
        BY <1>1, <3>2 DEF PortsOwned
      <4>2. q[b].t = "fileno" /\ o[b].open
        BY <2>1, <3>2, <4>1 DEF Closed
      <4>3. OpenPorts(q, b) = OpenPorts(o, b) \ {a}
        BY <1>1, <2>1, ClosedKeeps
      <4>4. a \in OpenPorts(o, b)
        BY <1>4, <3>2, <4>1 DEF OpenPorts
      <4>5. Cardinality(OpenPorts(q, b)) = Cardinality(OpenPorts(o, b)) - 1
        BY <4>3, <4>4, PortSets, FS_RemoveElement
      <4>6. Cardinality(OpenPorts(o, b)) <= o[b].count
        BY <1>1, <4>1, <4>2 DEF Covered
      <4>7. Cardinality(OpenPorts(q, b)) + 1 <= q[b].count
        BY <2>1, <4>5, <4>6, PortSets
      <4>8. m = Uncount(State(tab, q, r), b)
        BY <1>2, <1>4, <2>1, <2>2, <3>2, <4>1
      <4>9. q[b].open
        BY <3>2, <4>1
      <4>10. FdOK(m.tab, m.objs, m.stray, D) /\ \E C : Closed(q, m.objs, C)
        BY <3>1, <4>2, <4>7, <4>8, <4>9, UncountFinal
      <4>11. PICK C : Closed(q, m.objs, C)
        BY <4>10
      <4>12. Closed(o, m.objs, {a} \cup C)
        BY <2>1, <4>11, ClosedTwice, Zenon
      <4>13. ~m.objs[a].open
        BY <2>3, <4>11 DEF Closed
      <4>14. QED
        BY <4>10, <4>12, <4>13, Zenon DEF Final, m
    <3>3. CASE ~(o[a].t = "port" /\ q[o[a].fileno].open)
      <4>1. m = p
        BY <1>2, <1>4, <2>2, <2>5, <3>3
      <4>2. QED
        BY <2>1, <2>2, <2>3, <3>1, <4>1, Zenon DEF Final, m
    <3>4. QED
      BY <3>2, <3>3
  <2>6. QED
    BY <2>4, <2>5
<1>5. QED
  BY <1>3, <1>4 DEF m

-----------------------------------------------------------------------------
(* The steps.                                                              *)

\* The invariant of the descriptor table and the objects after a step that
\* opens no file and closes none behind its fileno's back.
LEMMA Steady ==
  ASSUME UNCHANGED <<files, raw, std>>, FdOK(fdtab', objs', stray', Doomed')
  PROVE  FdOK(fdtab, objs, stray, Doomed)'
<1>1. /\ fdtab' \in [Fds -> Nat] /\ objs' \in [Addresses -> Recs] /\ stray' \in Strays
      /\ OwnersApart(fdtab', objs') /\ PortsOwned(objs') /\ StandardStays(objs')
      /\ OwnersHave(fdtab', objs') /\ Covered(objs') /\ Owned(fdtab', objs')
      /\ PortsOpen(fdtab', objs', Doomed') /\ (raw = {} => stray' = {})
  BY Zenon DEF FdOK
<1>2. OwnersApart(fdtab, objs)'
  BY <1>1, Zenon DEF OwnersApart
<1>3. PortsOwned(objs)'
  BY <1>1, Zenon DEF PortsOwned
<1>4. StandardStays(objs)'
  BY <1>1, Zenon DEF StandardStays
<1>5. OwnersHave(fdtab, objs)'
  BY <1>1, Zenon DEF OwnersHave
<1>6. Covered(objs)'
  BY <1>1, Zenon DEF Covered, OpenPorts
<1>7. Owned(fdtab, objs)'
  BY <1>1, Zenon DEF Owned
<1>8. PortsOpen(fdtab, objs, Doomed)'
  BY <1>1, Zenon DEF PortsOpen
<1>9. (raw = {} => stray = {})'
  BY <1>1
<1>10. QED
  BY <1>1, <1>2, <1>3, <1>4, <1>5, <1>6, <1>7, <1>8, <1>9, Zenon DEF FdOK, Strays

\* A larger set of doomed objects asks for less.
LEMMA MoreDoomed ==
  ASSUME NEW tab, NEW o, NEW s, NEW D, FdOK(tab, o, s, {})
  PROVE  FdOK(tab, o, s, D)
<1>1. PortsOpen(tab, o, D)
  BY DEF FdOK, PortsOpen
<1>2. QED
  BY <1>1 DEF FdOK

\* Closing objects changes nothing about which are reachable.
LEMMA DeadSame ==
  ASSUME objs \in [Addresses -> Recs], held \subseteq Made, held' = held, \E C : Closed(objs, objs', C)
  PROVE  Made' = Made /\ Dead' = Dead
<1>1. \A b \in Addresses : objs'[b].t = objs[b].t /\ objs'[b].fileno = objs[b].fileno
  BY DEF Closed
<1>2. Made' = Made
  BY <1>1 DEF Made
<1>3. Reached' = Reached
  <2>1. \A x \in held : x \in Addresses
    BY DEF Made
  <2>2. QED
    BY <1>1, <2>1 DEF Reached
<1>4. QED
  BY <1>2, <1>3 DEF Dead

\* A finalizer's step.
LEMMA FinalStep ==
  ASSUME FdInv, NEW m, NEW a \in Addresses, Final(m, objs, a, Doomed), Becomes(m),
         UNCHANGED <<files, held, phase, raw, std>>,
         done' = done \/ (Collecting /\ a \in Dead /\ done' = done \cup {a})
  PROVE  FdInv'
<1>1. /\ FdOK(fdtab', objs', stray', Doomed) /\ (\E C : Closed(objs, objs', C)) /\ ~objs'[a].open
  BY Zenon DEF Final, Becomes
<1>2. objs \in [Addresses -> Recs] /\ held \subseteq Made /\ done \subseteq Doomed
  BY DEF FdInv, FdOK
<1>3. Made' = Made /\ Dead' = Dead
  BY <1>1, <1>2, DeadSame
<1>4. Doomed' = Doomed
  BY <1>3 DEF Doomed, Collecting
<1>5. FdOK(fdtab, objs, stray, Doomed)'
  BY <1>1, <1>4, Steady
<1>6. \A b \in done' : Owner(objs'[b]) => ~objs'[b].open
  <2>1. PICK C : Closed(objs, objs', C)
    BY <1>1
  <2>2. \A b \in done : b \in Addresses
    BY <1>2 DEF Doomed, Dead, Made
  <2>3. \A b \in done : Owner(objs'[b]) => ~objs'[b].open
    <3>1. \A b \in done : Owner(objs[b]) => ~objs[b].open
      BY DEF FdInv
    <3>2. QED
      BY <2>1, <2>2, <3>1 DEF Closed, Owner
  <2>4. QED
    BY <1>1, <2>3
<1>7. done' \subseteq Doomed'
  BY <1>2, <1>4 DEF Doomed
<1>8. QED
  BY <1>2, <1>3, <1>5, <1>6, <1>7 DEF FdInv

\* close-port keeps the invariant.
LEMMA ClosePortStep ==
  ASSUME FdInv, NEW a \in Addresses, close_port(a)
  PROVE  FdInv'
<1>1. FdOK(fdtab, objs, stray, Doomed) /\ files \in Nat
  BY DEF FdInv
<1>2. objs[a].t \in {"port", "stream"} /\ Becomes(finalize_port(Now, a))
  BY DEF close_port
<1>3. Final(finalize_port(Now, a), objs, a, Doomed)
  BY <1>1, <1>2, PortFinal DEF Now
<1>4. QED
  BY <1>2, <1>3, FinalStep DEF close_port

\* A finalizer that the collector runs keeps the invariant.
LEMMA FinalizeStep ==
  ASSUME FdInv, NEW a \in Addresses, Finalize(a)
  PROVE  FdInv'
<1>1. FdOK(fdtab, objs, stray, Doomed) /\ files \in Nat /\ objs \in [Addresses -> Recs]
  BY DEF FdInv, FdOK
<1>2. /\ Collecting /\ a \in Dead /\ Becomes(finalize(Now, a)) /\ done' = done \cup {a}
      /\ UNCHANGED <<files, held, phase, raw, std>>
  BY DEF Finalize, Collecting
<1>3. a \in Doomed /\ objs[a].t \in {"fileno", "port", "stream"}
  BY <1>1, <1>2 DEF Doomed, Dead, Made, Recs
<1>4. Now.objs = objs
  BY StateFields DEF Now
<1>5. Final(finalize(Now, a), objs, a, Doomed)
  <2>1. CASE objs[a].t = "fileno"
    <3>1. Final(finalize_fileno(Now, a), objs, a, Doomed)
      BY <1>1, <1>3, <2>1, FilenoFinal DEF Now
    <3>2. QED
      BY <1>4, <2>1, <3>1 DEF finalize
  <2>2. CASE objs[a].t # "fileno"
    <3>1. Final(finalize_port(Now, a), objs, a, Doomed)
      BY <1>1, <1>3, <2>2, PortFinal DEF Now
    <3>2. QED
      BY <1>4, <2>2, <3>1 DEF finalize
  <2>3. QED
    BY <2>1, <2>2
<1>6. QED
  BY <1>2, <1>5, FinalStep

\* A write to a buffer keeps the invariant.
LEMMA WriteStep ==
  ASSUME FdInv, NEW a \in Addresses, WritePort(a)
  PROVE  FdInv'
<1>1. /\ FdOK(fdtab, objs, stray, Doomed) /\ files \in Nat /\ objs \in [Addresses -> Recs]
      /\ Covered(objs) /\ held \subseteq Made
  BY DEF FdInv, FdOK
<1>2. /\ objs' = [objs EXCEPT ![a].dirty = TRUE] /\ phase = "run"
      /\ UNCHANGED <<fdtab, files, held, phase, done, raw, std, stray>>
  BY DEF WritePort
<1>3. PICK x \in Recs : x = objs[a]
  BY <1>1
<1>4. PICK y : y = [x EXCEPT !.dirty = TRUE]
  OBVIOUS
<1>5. /\ y \in Recs /\ y.t = x.t /\ y.fd = x.fd /\ y.file = x.file /\ y.open = x.open
      /\ y.noclose = x.noclose /\ y.count = x.count /\ y.fileno = x.fileno /\ y.late = x.late
  BY <1>4 DEF Recs
<1>6. objs' = [objs EXCEPT ![a] = y]
  BY <1>2, <1>3, <1>4
<1>7. objs' \in [Addresses -> Recs] /\ objs'[a] = y /\ \A b \in Addresses : b # a => objs'[b] = objs[b]
  BY <1>1, <1>5, <1>6
<1>8. \A c \in Addresses :
        /\ objs'[c].t = objs[c].t /\ objs'[c].fd = objs[c].fd /\ objs'[c].file = objs[c].file
        /\ objs'[c].fileno = objs[c].fileno /\ objs'[c].noclose = objs[c].noclose
        /\ objs'[c].late = objs[c].late /\ (objs'[c].open <=> objs[c].open)
        /\ objs'[c].count = objs[c].count
  BY <1>3, <1>5, <1>7
<1>9. Closed(objs, objs', {})
  BY <1>7, <1>8 DEF Closed
<1>10. \A b \in Addresses : OpenPorts(objs', b) = OpenPorts(objs, b)
  BY <1>8 DEF OpenPorts
<1>11. Covered(objs')
  BY <1>1, <1>8, <1>10 DEF Covered
<1>12. FdOK(fdtab', objs', stray', Doomed)
  BY <1>1, <1>2, <1>9, <1>11, CountOK
<1>13. Made' = Made /\ Doomed = {} /\ Doomed' = {}
  BY <1>2, <1>8 DEF Made, Doomed, Collecting
<1>14. FdOK(fdtab, objs, stray, Doomed)'
  BY <1>2, <1>12, <1>13, Steady
<1>15. QED
  BY <1>2, <1>13, <1>14 DEF FdInv

\* Steps that leave the descriptor table and the objects alone.
LEMMA QuietStep ==
  ASSUME FdInv, phase \in {"run", "again"}, held' \subseteq held,
         phase' \in {"run", "gc", "retry", "again"},
         UNCHANGED <<fdtab, files, objs, done, raw, std, stray>>
  PROVE  FdInv'
<1>1. Doomed = {} /\ done = {}
  BY DEF FdInv, Doomed, Collecting
<1>2. FdOK(fdtab', objs', stray', Doomed')
  BY <1>1, MoreDoomed DEF FdInv
<1>3. FdOK(fdtab, objs, stray, Doomed)'
  BY <1>2, Steady
<1>4. Made' = Made
  BY DEF Made
<1>5. QED
  BY <1>1, <1>3, <1>4 DEF FdInv

\* close-file-descriptor keeps what the invariant says in spite of it.
LEMMA CloseDescriptorStep ==
  ASSUME FdInv, NEW a \in Addresses, close_file_descriptor(a)
  PROVE  FdInv'
<1>1. /\ fdtab \in [Fds -> Nat] /\ objs \in [Addresses -> Recs] /\ stray \in Strays
      /\ OwnersApart(fdtab, objs) /\ PortsOwned(objs) /\ StandardStays(objs)
      /\ Covered(objs) /\ Owned(fdtab, objs) /\ PortsOpen(fdtab, objs, Doomed)
      /\ files \in Nat
  BY DEF FdInv, FdOK
<1>2. /\ phase = "run" /\ objs[a].t = "fileno" /\ Becomes(close(Now, objs[a].fd, objs[a].file))
      /\ raw' = raw \cup {objs[a].fd} /\ UNCHANGED <<files, held, phase, done, std>>
  BY DEF close_file_descriptor
<1>3. PICK f, g : f = objs[a].fd /\ g = objs[a].file
  OBVIOUS
<1>4. f \in Fds /\ g \in Nat /\ fdtab[f] \in Nat
  BY <1>1, <1>2, <1>3 DEF OwnersApart, Owner
<1>5. fdtab' = Freed(fdtab, f) /\ objs' = objs /\ stray' = Strayed(stray, fdtab, "closed", f, g)
  BY <1>2, <1>3, StateClose, StateFields DEF Becomes, Now
<1>6. fdtab' \in [Fds -> Nat] /\ \A e \in Fds : fdtab'[e] = IF e = f THEN 0 ELSE fdtab[e]
  BY <1>1, <1>4, <1>5 DEF Freed
<1>7. raw' # {} /\ Doomed = {} /\ Doomed' = {} /\ Made' = Made
  BY <1>2, <1>5 DEF Doomed, Collecting, Made
<1>8. OwnersApart(fdtab, objs)'
  <2>1. \A b \in Addresses : Owner(objs[b]) => objs[b].file # 0
    BY <1>1 DEF OwnersApart
  <2>2. QED
    BY <1>1, <1>2, <1>5, <1>6, <2>1 DEF OwnersApart
<1>9. Owned(fdtab, objs)'
  <2>1. SUFFICES ASSUME NEW e \in Fds, fdtab'[e] \notin {0} \cup std
                 PROVE  \E b \in Addresses : Owner(objs[b]) /\ objs[b].file = fdtab'[e] /\ objs[b].open
    BY <1>2, <1>5 DEF Owned
  <2>2. fdtab'[e] = fdtab[e]
    BY <1>6, <2>1
  <2>3. QED
    BY <1>1, <2>1, <2>2 DEF Owned
<1>10. PortsOpen(fdtab, objs, Doomed)'
  BY <1>1, <1>5, <1>7 DEF PortsOpen
<1>11. PortsOwned(objs)' /\ StandardStays(objs)' /\ Covered(objs)' /\ OwnersHave(fdtab, objs)'
  BY <1>1, <1>2, <1>5, <1>7 DEF PortsOwned, StandardStays, Covered, OpenPorts, OwnersHave
<1>12. stray' \in Strays
  BY <1>1, <1>4, <1>5 DEF Strays, Strayed
<1>13. (objs \in [Addresses -> Recs])' /\ (stray \in Strays)'
  BY <1>1, <1>5, <1>12 DEF Strays
<1>14. FdOK(fdtab, objs, stray, Doomed)'
  BY <1>6, <1>7, <1>8, <1>9, <1>10, <1>11, <1>13 DEF FdOK
<1>15. QED
  BY <1>2, <1>5, <1>7, <1>14 DEF FdInv

\* What the collector frees is closed, and no object that stays refers to it.
LEMMA SweepStep ==
  ASSUME FdInv, Sweep
  PROVE  FdInv'
<1>1. /\ fdtab \in [Fds -> Nat] /\ objs \in [Addresses -> Recs] /\ stray \in Strays
      /\ OwnersApart(fdtab, objs) /\ PortsOwned(objs) /\ StandardStays(objs) /\ OwnersHave(fdtab, objs)
      /\ Covered(objs) /\ Owned(fdtab, objs) /\ PortsOpen(fdtab, objs, Doomed)
      /\ (raw = {} => stray = {}) /\ held \subseteq Made
      /\ \A b \in done : Owner(objs[b]) => ~objs[b].open
  BY DEF FdInv, FdOK
<1>2. /\ objs' = [b \in Addresses |-> IF b \in Dead THEN NoObject ELSE objs[b]]
      /\ Dead \subseteq done /\ Doomed = Dead /\ Doomed' = {} /\ done' = {} /\ phase' \in {"run", "again"}
      /\ UNCHANGED <<fdtab, files, held, raw, std, stray>>
  BY DEF Sweep, Doomed, Collecting
<1>3. NoObject \in Recs /\ NoObject.t = "free" /\ ~NoObject.noclose
  BY DEF NoObject, Recs
<1>4. /\ objs' \in [Addresses -> Recs]
      /\ \A b \in Addresses : (b \in Dead => objs'[b] = NoObject) /\ (b \notin Dead => objs'[b] = objs[b])
  BY <1>1, <1>2, <1>3
<1>. HIDE DEF NoObject
<1>5. \A b \in Addresses : objs'[b].t # "free" => b \notin Dead /\ objs'[b] = objs[b]
  BY <1>3, <1>4
<1>6. \A b \in Addresses : Owner(objs'[b]) => b \notin Dead /\ objs'[b] = objs[b] /\ Owner(objs[b])
  BY <1>5 DEF Owner
<1>7. ASSUME NEW c \in Addresses, objs'[c].t = "port"
      PROVE  /\ objs'[c] = objs[c] /\ objs[c].fileno \in Addresses \ Dead
             /\ objs'[objs[c].fileno] = objs[objs[c].fileno]
  <2>1. c \notin Dead /\ objs'[c] = objs[c] /\ objs[c].t = "port"
    BY <1>5, <1>7
  <2>2. c \in Made
    BY <2>1 DEF Made
  <2>3. c \in Reached
    BY <2>1, <2>2 DEF Dead
  <2>4. c \in held
    <3>1. SUFFICES ASSUME c \notin held PROVE FALSE
      OBVIOUS
    <3>2. PICK e \in held : objs[e].t = "port" /\ c = objs[e].fileno
      BY <2>3, <3>1 DEF Reached
    <3>3. e \in Addresses
      BY <1>1 DEF Made
    <3>4. QED
      BY <1>1, <2>1, <3>2, <3>3 DEF PortsOwned
  <2>5. objs[c].fileno \in Reached
    BY <2>1, <2>4 DEF Reached
  <2>6. objs[c].fileno \in Addresses
    BY <1>1, <2>1 DEF PortsOwned
  <2>7. objs[c].fileno \in Addresses \ Dead
    BY <2>5, <2>6 DEF Dead
  <2>8. QED
    BY <1>4, <2>1, <2>7
<1>8. OwnersApart(fdtab, objs')
  BY <1>1, <1>6 DEF OwnersApart
<1>9. PortsOwned(objs')
  BY <1>1, <1>7 DEF PortsOwned
<1>10. StandardStays(objs')
  BY <1>1, <1>3, <1>4 DEF StandardStays
<1>11. OwnersHave(fdtab, objs')
  BY <1>1, <1>6 DEF OwnersHave
<1>12. Covered(objs')
  <2>1. SUFFICES ASSUME NEW b \in Addresses, objs'[b].t = "fileno", objs'[b].open
                 PROVE  Cardinality(OpenPorts(objs', b)) <= objs'[b].count
    BY DEF Covered
  <2>2. objs'[b] = objs[b]
    BY <1>5, <2>1
  <2>3. OpenPorts(objs', b) \subseteq OpenPorts(objs, b)
    BY <1>5 DEF OpenPorts
  <2>4. Cardinality(OpenPorts(objs', b)) <= Cardinality(OpenPorts(objs, b))
    BY <2>3, PortSets, FS_Subset
  <2>5. Cardinality(OpenPorts(objs, b)) <= objs[b].count /\ objs[b].count \in Nat
    BY <1>1, <2>1, <2>2 DEF Covered, Recs
  <2>6. QED
    BY <2>2, <2>4, <2>5, PortSets
<1>13. Owned(fdtab, objs')
  <2>1. SUFFICES ASSUME NEW e \in Fds, fdtab[e] \notin {0} \cup std
                 PROVE  \E b \in Addresses : Owner(objs'[b]) /\ objs'[b].file = fdtab[e] /\ objs'[b].open
    BY DEF Owned
  <2>2. PICK b \in Addresses : Owner(objs[b]) /\ objs[b].file = fdtab[e] /\ objs[b].open
    BY <1>1, <2>1 DEF Owned
  <2>3. b \notin Dead
    BY <1>1, <1>2, <2>2
  <2>4. QED
    BY <1>4, <2>2, <2>3
<1>14. PortsOpen(fdtab, objs', {})
  <2>1. SUFFICES ASSUME NEW c \in Addresses, objs'[c].t = "port", objs'[c].open, ~objs'[c].late
                 PROVE  objs'[objs'[c].fileno].open
    BY DEF PortsOpen
  <2>2. /\ objs'[c] = objs[c] /\ objs[c].fileno \in Addresses \ Dead
        /\ objs'[objs[c].fileno] = objs[objs[c].fileno]
    BY <1>7, <2>1
  <2>3. objs[objs[c].fileno].open
    BY <1>1, <1>2, <2>1, <2>2 DEF PortsOpen
  <2>4. QED
    BY <2>2, <2>3
<1>15. FdOK(fdtab', objs', stray', Doomed')
  BY <1>1, <1>2, <1>4, <1>8, <1>9, <1>10, <1>11, <1>12, <1>13, <1>14 DEF FdOK
<1>16. FdOK(fdtab, objs, stray, Doomed)'
  BY <1>2, <1>15, Steady
<1>17. held' \subseteq Made'
  <2>1. \A x \in held : x \in Addresses /\ objs[x].t # "free" /\ x \notin Dead
    BY <1>1 DEF Made, Dead, Reached
  <2>2. QED
    BY <1>2, <1>4, <2>1 DEF Made
<1>18. QED
  BY <1>2, <1>16, <1>17 DEF FdInv

\* The lowest free descriptor is free.
LEMMA LowestFree ==
  ASSUME fdtab \in [Fds -> Nat], ~Full(fdtab)
  PROVE  Lowest(fdtab) \in Fds /\ fdtab[Lowest(fdtab)] = 0
<1>. DEFINE S == {fd \in Fds : fdtab[fd] = 0}
<1>1. S \subseteq Nat /\ S # {}
  BY FilenosAssumption DEF Full
<1>2. PICK x : x \in S /\ \A y \in S : x <= y
  BY <1>1, MinInSet
<1>3. \E fd \in Fds : fdtab[fd] = 0 /\ \A e \in Fds : fdtab[e] = 0 => fd <= e
  BY <1>2
<1>4. QED
  BY <1>3 DEF Lowest

\* A new file, with a new fileno or stream for it.
LEMMA OpenStep ==
  ASSUME FdInv, phase \in {"run", "again"}, phase' = "run", NEW a \in Addresses \ Made, ~Full(fdtab),
         NEW x \in Recs, Owner(x), x.fd = Lowest(fdtab), x.file = files + 1, x.open,
         x.noclose => x.t = "stream" /\ files + 1 \in std',
         std \subseteq std', std' \subseteq 1..(files + 1),
         Open(a, files + 1, Lowest(fdtab), x), UNCHANGED <<done, raw, stray>>
  PROVE  FdInv'
<1>1. /\ fdtab \in [Fds -> Nat] /\ objs \in [Addresses -> Recs] /\ stray \in Strays
      /\ OwnersApart(fdtab, objs) /\ PortsOwned(objs) /\ StandardStays(objs) /\ OwnersHave(fdtab, objs)
      /\ Covered(objs) /\ Owned(fdtab, objs) /\ PortsOpen(fdtab, objs, Doomed)
      /\ (raw = {} => stray = {}) /\ held \subseteq Made /\ files \in Nat /\ done \subseteq Doomed
  BY DEF FdInv, FdOK
<1>2. Doomed = {} /\ Doomed' = {} /\ done = {}
  BY <1>1 DEF Doomed, Collecting
<1>3. PICK f : f = Lowest(fdtab) /\ f \in Fds /\ fdtab[f] = 0
  BY <1>1, LowestFree
<1>4. PICK k : k = files + 1 /\ k \in Nat
  BY <1>1
<1>5. files' = k /\ fdtab' = [fdtab EXCEPT ![f] = k] /\ objs' = [objs EXCEPT ![a] = x] /\ held' = held \cup {a}
  BY <1>3, <1>4 DEF Open
<1>6. fdtab' \in [Fds -> Nat] /\ \A e \in Fds : fdtab'[e] = IF e = f THEN k ELSE fdtab[e]
  BY <1>1, <1>3, <1>4, <1>5
<1>7. objs' \in [Addresses -> Recs] /\ objs'[a] = x /\ \A b \in Addresses : b # a => objs'[b] = objs[b]
  BY <1>1, <1>5
<1>8. objs[a].t = "free" /\ ~Owner(objs[a])
  BY DEF Made, Owner
<1>9. OwnersApart(fdtab, objs)'
  <2>1. \A b \in Addresses : b # a /\ Owner(objs[b]) =>
          objs[b].fd \in Fds /\ objs[b].file \in 1..files /\ objs[b].file # k
    BY <1>1, <1>4 DEF OwnersApart
  <2>2. ASSUME NEW b \in Addresses, Owner(objs'[b])
        PROVE  objs'[b].fd \in Fds /\ objs'[b].file \in 1..k /\ (objs'[b].file = k <=> b = a)
    BY <1>1, <1>3, <1>4, <1>7, <2>1, <2>2
  <2>3. ASSUME NEW b \in Addresses, NEW c \in Addresses, Owner(objs'[b]), Owner(objs'[c]),
               objs'[b].file = objs'[c].file
        PROVE  b = c
    <3>1. CASE b = a \/ c = a
      BY <2>2, <2>3, <3>1
    <3>2. CASE b # a /\ c # a
      BY <1>1, <1>7, <2>3, <3>2 DEF OwnersApart
    <3>3. QED
      BY <3>1, <3>2
  <2>4. ASSUME NEW b \in Addresses, NEW e \in Fds, Owner(objs'[b]), fdtab'[e] = objs'[b].file
        PROVE  e = objs'[b].fd
    <3>1. fdtab[e] <= files /\ fdtab[e] \in Nat
      BY <1>1 DEF OwnersApart
    <3>2. CASE b = a
      BY <1>1, <1>3, <1>4, <1>6, <1>7, <2>4, <3>1, <3>2
    <3>3. CASE b # a
      <4>1. e # f /\ fdtab[e] = objs[b].file /\ Owner(objs[b])
        BY <1>6, <1>7, <2>2, <2>4, <3>3
      <4>2. QED
        BY <1>1, <1>7, <3>3, <4>1 DEF OwnersApart
    <3>4. QED
      BY <3>2, <3>3
  <2>5. \A e \in Fds : fdtab'[e] <= k
    <3>1. \A e \in Fds : fdtab[e] <= files /\ fdtab[e] \in Nat
      BY <1>1 DEF OwnersApart
    <3>2. QED
      BY <1>1, <1>4, <1>6, <3>1
  <2>6. QED
    BY <1>5, <2>2, <2>3, <2>4, <2>5 DEF OwnersApart
<1>10. PortsOwned(objs)'
  <2>1. SUFFICES ASSUME NEW c \in Addresses, objs'[c].t = "port"
                 PROVE  /\ objs'[c].fileno \in Addresses /\ objs'[objs'[c].fileno].t = "fileno"
                        /\ objs'[objs'[c].fileno].file = objs'[c].file
    BY DEF PortsOwned
  <2>2. c # a /\ objs'[c] = objs[c]
    BY <1>7, <2>1 DEF Owner
  <2>3. objs[c].fileno # a
    BY <1>1, <1>8, <2>1, <2>2 DEF PortsOwned
  <2>4. QED
    BY <1>1, <1>7, <2>1, <2>2, <2>3 DEF PortsOwned
<1>11. StandardStays(objs)'
  BY <1>1, <1>7 DEF StandardStays
<1>12. OwnersHave(fdtab, objs)'
  <2>1. SUFFICES ASSUME raw = {}, NEW b \in Addresses, Owner(objs'[b]), objs'[b].open
                 PROVE  fdtab'[objs'[b].fd] = objs'[b].file
    BY DEF OwnersHave
  <2>2. CASE b = a
    BY <1>3, <1>4, <1>6, <1>7, <2>2
  <2>3. CASE b # a
    <3>1. objs'[b] = objs[b] /\ fdtab[objs[b].fd] = objs[b].file /\ objs[b].fd \in Fds /\ objs[b].file # 0
      BY <1>1, <1>7, <2>1, <2>3 DEF OwnersHave, OwnersApart
    <3>2. QED
      BY <1>3, <1>6, <3>1
  <2>4. QED
    BY <2>2, <2>3
<1>13. Covered(objs)'
  <2>1. SUFFICES ASSUME NEW b \in Addresses, objs'[b].t = "fileno", objs'[b].open
                 PROVE  Cardinality(OpenPorts(objs', b)) <= objs'[b].count
    BY DEF Covered, OpenPorts
  <2>2. OpenPorts(objs', b) = OpenPorts(objs, b)
    <3>1. objs[a].t # "port" /\ objs'[a].t # "port"
      BY <1>7, <1>8 DEF Owner
    <3>2. QED
      BY <1>7, <3>1 DEF OpenPorts
  <2>3. CASE b = a
    <3>1. OpenPorts(objs, a) = {}
      BY <1>1, <1>8 DEF OpenPorts, PortsOwned
    <3>2. Cardinality(OpenPorts(objs', b)) = 0
      BY <2>2, <2>3, <3>1, FS_EmptySet
    <3>3. objs'[b].count \in Nat
      BY <1>7 DEF Recs
    <3>4. QED
      BY <3>2, <3>3
  <2>4. CASE b # a
    BY <1>1, <1>7, <2>1, <2>2, <2>4 DEF Covered
  <2>5. QED
    BY <2>3, <2>4
<1>14. Owned(fdtab, objs)'
  <2>1. SUFFICES ASSUME NEW e \in Fds, fdtab'[e] \notin {0} \cup std'
                 PROVE  \E b \in Addresses : Owner(objs'[b]) /\ objs'[b].file = fdtab'[e] /\ objs'[b].open
    BY DEF Owned
  <2>2. CASE e = f
    BY <1>4, <1>6, <1>7, <2>2
  <2>3. CASE e # f
    <3>1. fdtab'[e] = fdtab[e] /\ fdtab[e] \notin {0} \cup std
      BY <1>6, <2>1, <2>3
    <3>2. PICK b \in Addresses : Owner(objs[b]) /\ objs[b].file = fdtab[e] /\ objs[b].open
      BY <1>1, <3>1 DEF Owned
    <3>3. b # a
      BY <1>8, <3>2
    <3>4. QED
      BY <1>7, <3>1, <3>2, <3>3
  <2>4. QED
    BY <2>2, <2>3
<1>15. PortsOpen(fdtab, objs, Doomed)'
  <2>1. SUFFICES ASSUME NEW c \in Addresses, objs'[c].t = "port", objs'[c].open, ~objs'[c].late
                 PROVE  objs'[objs'[c].fileno].open
    BY <1>2 DEF PortsOpen
  <2>2. c # a /\ objs'[c] = objs[c]
    BY <1>7, <2>1 DEF Owner
  <2>3. objs[c].fileno # a /\ objs[c].fileno \in Addresses
    BY <1>1, <1>8, <2>1, <2>2 DEF PortsOwned
  <2>4. QED
    BY <1>1, <1>2, <1>7, <2>1, <2>2, <2>3 DEF PortsOpen
<1>16. FdOK(fdtab, objs, stray, Doomed)'
  BY <1>1, <1>6, <1>7, <1>9, <1>10, <1>11, <1>12, <1>13, <1>14, <1>15 DEF FdOK, Strays, Recs
<1>17. held' \subseteq Made'
  <2>1. a \in Made'
    BY <1>7 DEF Made, Owner
  <2>2. \A b \in held : b \in Made'
    BY <1>1, <1>7, <1>8 DEF Made
  <2>3. QED
    BY <1>5, <2>1, <2>2
<1>18. QED
  BY <1>2, <1>4, <1>5, <1>16, <1>17 DEF FdInv

\* A new fileno has a new file and a descriptor of its own.
LEMMA MakeFilenoStep ==
  ASSUME FdInv, NEW a \in Addresses, make_fileno(a)
  PROVE  FdInv'
<1>1. fdtab \in [Fds -> Nat] /\ files \in Nat /\ std \subseteq 1..files
  BY DEF FdInv, FdOK
<1>2. PICK f \in Nat : f = Lowest(fdtab)
  BY <1>1, LowestFree, FilenosAssumption DEF make_fileno
<1>3. PICK k \in Nat : k = files + 1
  BY <1>1
<1>4. PICK x : x = Fileno(f, k)
  OBVIOUS
<1>5. /\ x \in Recs /\ x.t = "fileno" /\ x.fd = f /\ x.file = files + 1 /\ x.open /\ ~x.noclose
  BY <1>2, <1>4, <1>3 DEF Fileno, NoObject, Recs
<1>6. /\ a \in Addresses \ Made /\ ~Full(fdtab) /\ Open(a, files + 1, Lowest(fdtab), x)
      /\ phase = "run" /\ phase' = "run" /\ std' = std /\ UNCHANGED <<done, raw, stray>>
  BY <1>2, <1>4, <1>3 DEF make_fileno
<1>7. Owner(x)
  BY <1>5 DEF Owner
<1>8. std' \subseteq 1..(files + 1)
  BY <1>1, <1>6
<1>9. QED
  BY <1>2, <1>5, <1>6, <1>7, <1>8, OpenStep

\* A new stream has a new file and a descriptor of its own.
LEMMA OpenFileStep ==
  ASSUME FdInv, NEW a \in Addresses, NEW nc \in BOOLEAN, open_file(a, nc)
  PROVE  FdInv'
<1>1. fdtab \in [Fds -> Nat] /\ files \in Nat /\ std \subseteq 1..files
  BY DEF FdInv, FdOK
<1>2. PICK f \in Nat : f = Lowest(fdtab)
  BY <1>1, LowestFree, FilenosAssumption DEF open_file
<1>3. PICK k \in Nat : k = files + 1
  BY <1>1
<1>4. PICK x : x = Stream(f, k, nc)
  OBVIOUS
<1>5. /\ x \in Recs /\ x.t = "stream" /\ x.fd = f /\ x.file = files + 1 /\ x.open /\ x.noclose = nc
  BY <1>2, <1>4, <1>3 DEF Stream, NoObject, Recs
<1>6. /\ a \in Addresses \ Made /\ ~Full(fdtab) /\ Open(a, files + 1, Lowest(fdtab), x)
      /\ phase \in {"run", "again"} /\ phase' = "run" /\ UNCHANGED <<done, raw, stray>>
      /\ std' = IF nc THEN std \cup {files + 1} ELSE std
  BY <1>2, <1>4, <1>3 DEF open_file
<1>7. Owner(x)
  BY <1>5 DEF Owner
<1>8. std \subseteq std' /\ std' \subseteq 1..(files + 1) /\ (x.noclose => files + 1 \in std')
  BY <1>1, <1>5, <1>6
<1>9. QED
  BY <1>2, <1>5, <1>6, <1>7, <1>8, OpenStep

\* One more port on a fileno, and one more in its count.
LEMMA OpenDescriptorStep ==
  ASSUME FdInv, NEW a \in Addresses, NEW b \in Addresses, open_file_descriptor(a, b)
  PROVE  FdInv'
<1>1. /\ fdtab \in [Fds -> Nat] /\ objs \in [Addresses -> Recs] /\ stray \in Strays
      /\ OwnersApart(fdtab, objs) /\ PortsOwned(objs) /\ StandardStays(objs) /\ OwnersHave(fdtab, objs)
      /\ Covered(objs) /\ Owned(fdtab, objs) /\ PortsOpen(fdtab, objs, Doomed)
      /\ (raw = {} => stray = {}) /\ held \subseteq Made /\ done \subseteq Doomed
  BY DEF FdInv, FdOK
<1>2. /\ phase = "run" /\ a \in Addresses \ Made /\ b \in held /\ objs[b].t = "fileno"
      /\ objs' = [objs EXCEPT ![a] = Port(b), ![b].count = @ + 1] /\ held' = held \cup {a}
      /\ UNCHANGED <<fdtab, files, phase, done, raw, std, stray>>
  BY DEF open_file_descriptor
<1>3. objs[a].t = "free" /\ a # b
  BY <1>1, <1>2 DEF Made
<1>4. PICK x : x = Port(b)
  OBVIOUS
<1>5. /\ x \in Recs /\ x.t = "port" /\ x.fileno = b /\ x.file = objs[b].file /\ x.open /\ ~x.noclose
      /\ (x.late <=> ~objs[b].open)
  BY <1>1, <1>4, FilenosAssumption DEF Port, NoObject, Recs
<1>6. PICK y \in Recs : y = objs[b]
  BY <1>1
<1>7. PICK z : z = [y EXCEPT !.count = y.count + 1]
  OBVIOUS
<1>8. /\ z \in Recs /\ z.t = y.t /\ z.fd = y.fd /\ z.file = y.file /\ z.open = y.open
      /\ z.noclose = y.noclose /\ z.count = y.count + 1 /\ z.fileno = y.fileno /\ z.late = y.late
  BY <1>7 DEF Recs
<1>9. objs' = [objs EXCEPT ![a] = x, ![b] = z]
  BY <1>1, <1>2, <1>3, <1>4, <1>6, <1>7
<1>10. /\ objs' \in [Addresses -> Recs] /\ objs'[a] = x /\ objs'[b] = z
       /\ \A c \in Addresses : c # a /\ c # b => objs'[c] = objs[c]
  BY <1>1, <1>3, <1>5, <1>8, <1>9
<1>11. \A c \in Addresses : c # a =>
         /\ objs'[c].t = objs[c].t /\ objs'[c].fd = objs[c].fd /\ objs'[c].file = objs[c].file
         /\ objs'[c].fileno = objs[c].fileno /\ objs'[c].noclose = objs[c].noclose
         /\ objs'[c].late = objs[c].late /\ (objs'[c].open <=> objs[c].open)
         /\ objs'[c].count = IF c = b THEN objs[c].count + 1 ELSE objs[c].count
  BY <1>6, <1>8, <1>10
<1>12. \A c \in Addresses : Owner(objs'[c]) <=> Owner(objs[c])
  BY <1>3, <1>5, <1>10, <1>11 DEF Owner
<1>13. \A c \in Addresses : Owner(objs'[c]) => c # a
  BY <1>5, <1>10 DEF Owner
<1>14. OwnersApart(fdtab, objs')
  BY <1>1, <1>11, <1>12, <1>13 DEF OwnersApart
<1>15. PortsOwned(objs')
  <2>1. SUFFICES ASSUME NEW c \in Addresses, objs'[c].t = "port"
                 PROVE  /\ objs'[c].fileno \in Addresses /\ objs'[objs'[c].fileno].t = "fileno"
                        /\ objs'[objs'[c].fileno].file = objs'[c].file
    BY DEF PortsOwned
  <2>2. CASE c = a
    BY <1>2, <1>3, <1>5, <1>10, <1>11, <2>2
  <2>3. CASE c # a
    <3>1. PICK e \in Addresses : e = objs[c].fileno /\ objs[e].t = "fileno" /\ objs[e].file = objs[c].file
      BY <1>1, <1>11, <2>1, <2>3 DEF PortsOwned
    <3>2. QED
      BY <1>3, <1>11, <2>3, <3>1
  <2>4. QED
    BY <2>2, <2>3
<1>16. StandardStays(objs')
  BY <1>1, <1>5, <1>10, <1>11 DEF StandardStays
<1>17. OwnersHave(fdtab, objs') /\ Owned(fdtab, objs')
  <2>1. OwnersHave(fdtab, objs')
    BY <1>1, <1>11, <1>12, <1>13 DEF OwnersHave
  <2>2. SUFFICES ASSUME NEW e \in Fds, fdtab[e] \notin {0} \cup std
                 PROVE  \E c \in Addresses : Owner(objs'[c]) /\ objs'[c].file = fdtab[e] /\ objs'[c].open
    BY <2>1 DEF Owned
  <2>3. PICK c \in Addresses : Owner(objs[c]) /\ objs[c].file = fdtab[e] /\ objs[c].open
    BY <1>1, <2>2 DEF Owned
  <2>4. QED
    BY <1>11, <1>12, <1>13, <2>3
<1>18. Covered(objs')
  <2>1. SUFFICES ASSUME NEW c \in Addresses, objs'[c].t = "fileno", objs'[c].open
                 PROVE  Cardinality(OpenPorts(objs', c)) <= objs'[c].count
    BY DEF Covered
  <2>2. c # a /\ objs[c].t = "fileno" /\ objs[c].open
    BY <1>5, <1>10, <1>11, <2>1
  <2>3. Cardinality(OpenPorts(objs, c)) <= objs[c].count /\ objs[c].count \in Nat
    BY <1>1, <2>2 DEF Covered, Recs
  <2>4. CASE c = b
    <3>1. OpenPorts(objs', c) = OpenPorts(objs, c) \cup {a}
      BY <1>5, <1>10, <1>11, <2>4 DEF OpenPorts
    <3>2. a \notin OpenPorts(objs, c)
      BY <1>3 DEF OpenPorts
    <3>3. Cardinality(OpenPorts(objs', c)) = Cardinality(OpenPorts(objs, c)) + 1
      BY <3>1, <3>2, PortSets, FS_AddElement
    <3>4. QED
      BY <1>11, <2>2, <2>3, <2>4, <3>3, PortSets
  <2>5. CASE c # b
    <3>1. OpenPorts(objs', c) = OpenPorts(objs, c)
      BY <1>3, <1>5, <1>10, <1>11, <2>5 DEF OpenPorts
    <3>2. QED
      BY <1>11, <2>2, <2>3, <2>5, <3>1
  <2>6. QED
    BY <2>4, <2>5
<1>19. Doomed = {} /\ Doomed' = {} /\ done = {}
  BY <1>1, <1>2 DEF Doomed, Collecting
<1>20. PortsOpen(fdtab, objs', {})
  <2>1. SUFFICES ASSUME NEW c \in Addresses, objs'[c].t = "port", objs'[c].open, ~objs'[c].late
                 PROVE  objs'[objs'[c].fileno].open
    BY DEF PortsOpen
  <2>2. CASE c = a
    BY <1>3, <1>5, <1>10, <1>11, <2>1, <2>2
  <2>3. CASE c # a
    <3>1. PICK e \in Addresses : e = objs[c].fileno /\ objs[e].t = "fileno"
      BY <1>1, <1>11, <2>1, <2>3 DEF PortsOwned
    <3>2. objs[e].open
      BY <1>1, <1>11, <1>19, <2>1, <2>3, <3>1 DEF PortsOpen
    <3>3. QED
      BY <1>3, <1>11, <2>3, <3>1, <3>2
  <2>4. QED
    BY <2>2, <2>3
<1>21. FdOK(fdtab', objs', stray', Doomed')
  BY <1>1, <1>2, <1>10, <1>14, <1>15, <1>16, <1>17, <1>18, <1>19, <1>20 DEF FdOK
<1>22. FdOK(fdtab, objs, stray, Doomed)'
  BY <1>2, <1>21, Steady
<1>23. held' \subseteq Made'
  <2>1. a \in Made'
    BY <1>5, <1>10 DEF Made
  <2>2. \A c \in held : c \in Made'
    BY <1>1, <1>3, <1>11 DEF Made
  <2>3. QED
    BY <1>2, <2>1, <2>2
<1>24. QED
  BY <1>2, <1>19, <1>22, <1>23 DEF FdInv

\* The invariant holds when nothing is open.
LEMMA FdInitInv ==
  ASSUME FdInit
  PROVE  FdInv
<1>1. NoObject \in Recs /\ NoObject.t = "free" /\ ~NoObject.noclose
  BY DEF NoObject, Recs
<1>. HIDE DEF NoObject
<1>2. fdtab \in [Fds -> Nat] /\ objs \in [Addresses -> Recs] /\ stray \in Strays
  BY <1>1 DEF FdInit, Strays
<1>3. \A a \in Addresses : objs[a] = NoObject /\ ~Owner(objs[a])
  BY <1>1 DEF FdInit, Owner
<1>4. \A fd \in Fds : fdtab[fd] = 0
  BY DEF FdInit
<1>5. OwnersApart(fdtab, objs) /\ PortsOwned(objs) /\ StandardStays(objs) /\ OwnersHave(fdtab, objs)
  BY <1>1, <1>3, <1>4 DEF FdInit, OwnersApart, PortsOwned, StandardStays, OwnersHave
<1>6. Covered(objs) /\ Owned(fdtab, objs) /\ PortsOpen(fdtab, objs, Doomed)
  BY <1>1, <1>3, <1>4 DEF Covered, Owned, PortsOpen
<1>7. QED
  BY <1>2, <1>5, <1>6 DEF FdInit, FdInv, FdOK, Made, Doomed, Collecting

\* Every step keeps the invariant.
LEMMA FdStepInv ==
  ASSUME FdInv, [FdNext]_fdvars
  PROVE  FdInv'
<1>1. ASSUME NEW a \in Addresses, make_fileno(a) PROVE FdInv'
  BY <1>1, MakeFilenoStep
<1>2. ASSUME NEW a \in Addresses, NEW nc \in BOOLEAN, open_file(a, nc) PROVE FdInv'
  BY <1>2, OpenFileStep
<1>3. ASSUME NEW a \in Addresses, WritePort(a) PROVE FdInv'
  BY <1>3, WriteStep
<1>4. ASSUME NEW a \in Addresses, close_port(a) PROVE FdInv'
  BY <1>4, ClosePortStep
<1>5. ASSUME NEW a \in Addresses, close_file_descriptor(a) PROVE FdInv'
  BY <1>5, CloseDescriptorStep
<1>6. ASSUME NEW a \in Addresses, Drop(a) PROVE FdInv'
  BY <1>6, QuietStep DEF Drop
<1>7. ASSUME NEW a \in Addresses, NEW b \in Addresses, open_file_descriptor(a, b) PROVE FdInv'
  BY <1>7, OpenDescriptorStep
<1>8. ASSUME NEW a \in Addresses, Finalize(a) PROVE FdInv'
  BY <1>8, FinalizeStep
<1>9. CASE out_of_descriptors
  BY <1>9, QuietStep DEF out_of_descriptors
<1>10. CASE StartGc
  BY <1>10, QuietStep DEF StartGc
<1>11. CASE Sweep
  BY <1>11, SweepStep
<1>12. CASE UNCHANGED fdvars
  <2>1. UNCHANGED <<fdtab, files, objs, held, phase, done, raw, std, stray>>
    BY <1>12 DEF fdvars
  <2>2. Made' = Made /\ Dead' = Dead
    BY <2>1 DEF Made, Dead, Reached
  <2>3. Doomed' = Doomed
    BY <2>1, <2>2 DEF Doomed, Collecting
  <2>4. FdOK(fdtab', objs', stray', Doomed')
    BY <2>1, <2>3 DEF FdInv
  <2>5. FdOK(fdtab, objs, stray, Doomed)'
    BY <2>1, <2>4, Steady
  <2>6. QED
    BY <2>1, <2>2, <2>3, <2>5 DEF FdInv
<1>13. QED
  BY <1>1, <1>2, <1>3, <1>4, <1>5, <1>6, <1>7, <1>8, <1>9, <1>10, <1>11, <1>12 DEF FdNext

\* The invariant implies the property.
LEMMA FdInvSound ==
  ASSUME FdInv
  PROVE  FilenosSound
<1>1. /\ OwnersHave(fdtab, objs) /\ Covered(objs) /\ Owned(fdtab, objs) /\ (raw = {} => stray = {})
  BY DEF FdInv, FdOK
<1>2. NoStray
  BY <1>1 DEF NoStray
<1>3. OpenMeansOpen
  BY <1>1 DEF OpenMeansOpen, OwnersHave, Owner, Made
<1>4. CountCovers
  <2>1. \A b : {a \in Made : objs[a].t = "port" /\ objs[a].open /\ objs[a].fileno = b} = OpenPorts(objs, b)
    BY DEF Made, OpenPorts
  <2>2. QED
    BY <1>1, <2>1 DEF CountCovers, Covered, Made
<1>5. NoLeak
  <2>1. \A a \in Addresses : Owner(objs[a]) => a \in Made
    BY DEF Owner, Made
  <2>2. QED
    BY <1>1, <2>1 DEF NoLeak, Owned, Owner
<1>6. QED
  BY <1>2, <1>3, <1>4, <1>5 DEF FilenosSound

(* Whatever the program opens, closes and drops, and whatever order the      *)
(* collector finalizes in: no descriptor of another file is closed or        *)
(* written to, an open fileno or stream has its file, its count covers its   *)
(* open ports, and no open descriptor is without an owner (sexp.c            *)
(* sexp_finalize_port and sexp_finalize_fileno, gc.c sexp_finalize).         *)
THEOREM FilenosAlwaysSound == FdSpec => []FilenosSound
<1>1. FdInit => FdInv
  BY FdInitInv
<1>2. FdInv /\ [FdNext]_fdvars => FdInv'
  BY FdStepInv
<1>3. FdInv => FilenosSound
  BY FdInvSound
<1>4. QED
  BY <1>1, <1>2, <1>3, PTL DEF FdSpec
=============================================================================
