------------------------------ MODULE Filenos ------------------------------
(***************************************************************************)
(* Who closes a file descriptor (sexp.c, eval.c).  A fileno object stands  *)
(* for a descriptor and counts the ports that were opened on it; a file    *)
(* port holds a stream of its own.  close-port and the collector run the   *)
(* same finalizers: the collector runs those of every object it finds      *)
(* unreachable, one by one in the order of their addresses, before any of  *)
(* them is freed, and the program stands still.  The system gives out the  *)
(* lowest free descriptor, so that the number of a closed file soon        *)
(* belongs to another one.                                                 *)
(*                                                                         *)
(* Every opened file has a number of its own, for the history: the         *)
(* descriptor table maps a descriptor to the file it now stands for.       *)
(***************************************************************************)
EXTENDS Integers, FiniteSets

CONSTANTS Fds,         \* the descriptors of the process
          MaxFiles,    \* files opened
          MaxPorts,    \* the count of ports a fileno reaches
          Addresses    \* the addresses of the objects

\* the system and the allocator choose by the order of the numbers
ASSUME FilenosAssumption ==
  /\ IsFiniteSet(Fds) /\ Fds \subseteq Nat /\ IsFiniteSet(Addresses) /\ Addresses \subseteq Nat
  /\ MaxFiles \in Nat /\ MaxPorts \in Nat

VARIABLES
  fdtab,    \* fdtab[fd]: the file fd stands for, 0 when it is closed
  files,    \* the number of files opened so far
  objs,     \* objs[a]: the object at address a
  held,     \* the addresses the program can reach by itself
  phase,    \* "run"; "gc" while the collector works, "retry" while it does so
            \* for want of a descriptor, and "again" when open is tried again
  done,     \* the objects this collection has finalized
  raw,      \* history: the descriptors closed behind their fileno's back
  std,      \* history: the files of the standard ports, which stay open
  stray     \* history: what was written or closed that belongs to another

fdvars == <<fdtab, files, objs, held, phase, done, raw, std, stray>>

NoObject == [t |-> "free", fd |-> 0, file |-> 0, open |-> FALSE, noclose |-> FALSE,
         count |-> 0, fileno |-> 0, dirty |-> FALSE, late |-> FALSE]

\* a fileno, a port on the fileno at a, a port on a stream.  Filenos are
\* made to be closed; the streams of the standard ports may be made not to.
\* "late" is history: the fileno was closed when the port was opened.
Fileno(fd, f) == [NoObject EXCEPT !.t = "fileno", !.fd = fd, !.file = f, !.open = TRUE]
Port(a) == [NoObject EXCEPT !.t = "port", !.fileno = a, !.file = objs[a].file, !.open = TRUE,
                        !.late = ~objs[a].open]
Stream(fd, f, nc) == [NoObject EXCEPT !.t = "stream", !.fd = fd, !.file = f, !.open = TRUE,
                                  !.noclose = nc]

Made == {a \in Addresses : objs[a].t # "free"}

\* a port refers to its fileno
Reached == held \cup {objs[a].fileno : a \in {x \in held : objs[x].t = "port"}}
Dead == Made \ Reached

FdInit ==
  /\ fdtab = [fd \in Fds |-> 0] /\ files = 0
  /\ objs = [a \in Addresses |-> NoObject] /\ held = {}
  /\ phase = "run" /\ done = {}
  /\ raw = {} /\ std = {} /\ stray = {}

(***************************************************************************)
(* The finalizers.  They work on a record of the descriptor table, the     *)
(* objects and the strays, because one calls another.                      *)
(***************************************************************************)
State(tab, o, s) == [tab |-> tab, objs |-> o, stray |-> s]
Now == State(fdtab, objs, stray)

With(m, o) == [m EXCEPT !.objs = o]
Freed(tab, fd) == [tab EXCEPT ![fd] = 0]
Shut(o, a) == [o EXCEPT ![a].open = FALSE]
Clean(o, a) == [o EXCEPT ![a].dirty = FALSE]
Counted(o, b, k) == [o EXCEPT ![b].count = k]

\* what is done to fd, and is meant for the file f
Strayed(s, tab, what, fd, f) == IF tab[fd] \in {0, f} THEN s ELSE s \cup {<<what, tab[fd]>>}

\* the system's close of fd
close(m, fd, f) ==
  State(Freed(m.tab, fd), m.objs, Strayed(m.stray, m.tab, "closed", fd, f))

\* a write to fd by the port x; one to a closed descriptor fails
WriteTo(m, fd, x) ==
  IF x.late THEN m ELSE State(m.tab, m.objs, Strayed(m.stray, m.tab, "wrote", fd, x.file))

\* A variant with a bug: the fileno still counts as open.
finalize_fileno_open(m, a) ==
  IF m.objs[a].open /\ ~m.objs[a].noclose THEN close(m, m.objs[a].fd, m.objs[a].file) ELSE m

finalize_fileno(m, a) ==
  LET x == m.objs[a]
  IN  IF x.open /\ ~x.noclose
      THEN close(With(m, Shut(m.objs, a)), x.fd, x.file)
      ELSE m

\* the flush of a port that is being closed: whether or not its fileno is
\* still open
flush_forced(m, a) ==
  LET x == m.objs[a]
      fd == IF x.t = "port" THEN m.objs[x.fileno].fd ELSE x.fd
  IN  IF x.dirty THEN With(WriteTo(m, fd, x), Clean(m.objs, a)) ELSE m

\* the port's count on its fileno; the last one closes it
Uncount(m, b) ==
  LET n == With(m, Counted(m.objs, b, m.objs[b].count - 1))
  IN  IF n.objs[b].count = 0 THEN finalize_fileno(n, b) ELSE n

finalize_port(m, a) ==
  LET x == m.objs[a]
      p == flush_forced(With(m, Shut(m.objs, a)), a)
  IN  IF ~x.open THEN m
      ELSE IF x.t = "port" /\ p.objs[x.fileno].open THEN Uncount(p, x.fileno)
      ELSE IF x.t = "stream" /\ ~x.noclose THEN close(p, x.fd, x.file)
      ELSE p

finalize(m, a) == IF m.objs[a].t = "fileno" THEN finalize_fileno(m, a) ELSE finalize_port(m, a)

Becomes(m) == fdtab' = m.tab /\ objs' = m.objs /\ stray' = m.stray

(***************************************************************************)
(* The operations                                                          *)
(***************************************************************************)
Lowest(tab) == CHOOSE fd \in Fds : tab[fd] = 0 /\ \A e \in Fds : tab[e] = 0 => fd <= e
Full(tab) == \A fd \in Fds : tab[fd] # 0

Open(a, f, fd, x) ==
  /\ files' = f
  /\ fdtab' = [fdtab EXCEPT ![fd] = f]
  /\ objs' = [objs EXCEPT ![a] = x]
  /\ held' = held \cup {a}

\* open, socket, accept or pipe: a new fileno for a new descriptor.  The
\* address is any free one.
make_fileno(a) ==
  /\ phase = "run" /\ a \in Addresses \ Made /\ files < MaxFiles /\ ~Full(fdtab)
  /\ LET fd == Lowest(fdtab) IN Open(a, files + 1, fd, Fileno(fd, files + 1))
  /\ UNCHANGED <<phase, done, raw, std, stray>>

\* sexp_open_input_file_op and sexp_open_output_file_op, the first try and
\* the second
open_file(a, nc) ==
  /\ phase \in {"run", "again"} /\ a \in Addresses \ Made /\ files < MaxFiles /\ ~Full(fdtab)
  /\ LET fd == Lowest(fdtab) IN Open(a, files + 1, fd, Stream(fd, files + 1, nc))
  /\ std' = IF nc THEN std \cup {files + 1} ELSE std
  /\ phase' = "run"
  /\ UNCHANGED <<done, raw, stray>>

\* when the process has no descriptor left they collect and try once more
out_of_descriptors ==
  /\ phase \in {"run", "again"} /\ Made # Addresses /\ files < MaxFiles /\ Full(fdtab)
  /\ phase' = IF phase = "run" THEN "retry" ELSE "run"
  /\ UNCHANGED <<fdtab, files, objs, held, done, raw, std, stray>>

\* sexp_open_input_file_descriptor and sexp_open_output_file_descriptor:
\* they do not ask whether the fileno is open
open_file_descriptor(a, b) ==
  /\ phase = "run" /\ a \in Addresses \ Made
  /\ b \in held /\ objs[b].t = "fileno" /\ objs[b].count < MaxPorts
  /\ objs' = [objs EXCEPT ![a] = Port(b), ![b].count = @ + 1]
  /\ held' = held \cup {a}
  /\ UNCHANGED <<fdtab, files, phase, done, raw, std, stray>>

\* something is written and stays in the buffer
WritePort(a) ==
  /\ phase = "run" /\ a \in held
  /\ objs[a].t \in {"port", "stream"} /\ objs[a].open /\ ~objs[a].dirty
  /\ objs' = [objs EXCEPT ![a].dirty = TRUE]
  /\ UNCHANGED <<fdtab, files, held, phase, done, raw, std, stray>>

close_port(a) ==
  /\ phase = "run" /\ a \in held /\ objs[a].t \in {"port", "stream"}
  /\ Becomes(finalize_port(Now, a))
  /\ UNCHANGED <<files, held, phase, done, raw, std>>

\* close-file-descriptor: close(2), and the fileno does not hear of it
close_file_descriptor(a) ==
  /\ phase = "run" /\ a \in held /\ objs[a].t = "fileno"
  /\ Becomes(close(Now, objs[a].fd, objs[a].file))
  /\ raw' = raw \cup {objs[a].fd}
  /\ UNCHANGED <<files, held, phase, done, std>>

Drop(a) ==
  /\ phase = "run" /\ a \in held
  /\ held' = held \ {a}
  /\ UNCHANGED <<fdtab, files, objs, phase, done, raw, std, stray>>

StartGc ==
  /\ phase = "run" /\ Dead # {}
  /\ phase' = "gc"
  /\ UNCHANGED <<fdtab, files, objs, held, done, raw, std, stray>>

\* sexp_finalize: the next object in the order of addresses...
Finalize(a) ==
  /\ phase \in {"gc", "retry"} /\ a \in Dead \ done /\ \A b \in Dead \ done : a <= b
  /\ Becomes(finalize(Now, a))
  /\ done' = done \cup {a}
  /\ UNCHANGED <<files, held, phase, raw, std>>

\* ...and sexp_sweep, after the last one
Sweep ==
  /\ phase \in {"gc", "retry"} /\ Dead \subseteq done
  /\ objs' = [a \in Addresses |-> IF a \in Dead THEN NoObject ELSE objs[a]]
  /\ done' = {}
  /\ phase' = IF phase = "gc" THEN "run" ELSE "again"
  /\ UNCHANGED <<fdtab, files, held, raw, std, stray>>

FdNext ==
  \/ \E a \in Addresses : \/ make_fileno(a) \/ \E nc \in BOOLEAN : open_file(a, nc)
                      \/ WritePort(a) \/ close_port(a)
                      \/ close_file_descriptor(a) \/ Drop(a)
                      \/ \E b \in Addresses : open_file_descriptor(a, b)
                      \/ Finalize(a)
  \/ out_of_descriptors \/ StartGc \/ Sweep

FdSpec == FdInit /\ [][FdNext]_fdvars

-----------------------------------------------------------------------------
(* No finalizer closes a descriptor that has come to stand for another      *)
(* file, and none flushes into one, in whatever order the collector meets   *)
(* a port and its fileno: as long as the program leaves closing to ports,   *)
(* and opens no port on a fileno that is closed.                            *)
NoStray == raw = {} => stray = {}

(* An open fileno and an open stream still stand for the file they were     *)
(* opened for.                                                              *)
OpenMeansOpen ==
  raw = {} => \A a \in Made :
                objs[a].t \in {"fileno", "stream"} /\ objs[a].open
                  => fdtab[objs[a].fd] = objs[a].file

(* The count of an open fileno is never below the number of its open ports, *)
(* so that the descriptor is closed under none of them.                     *)
CountCovers ==
  \A b \in Made : objs[b].t = "fileno" /\ objs[b].open =>
    Cardinality({a \in Made : objs[a].t = "port" /\ objs[a].open /\ objs[a].fileno = b})
      <= objs[b].count

(* No descriptor leaks: one that is in use belongs to an object that will   *)
(* close it or was told not to, so that a program which drops its ports     *)
(* can open files again.                                                    *)
NoLeak ==
  \A fd \in Fds : fdtab[fd] \notin {0} \cup std =>
    \E a \in Made : /\ objs[a].t \in {"fileno", "stream"}
                    /\ objs[a].file = fdtab[fd] /\ objs[a].open

(* The four together: a descriptor is closed once, by its last owner.       *)
FilenosSound == NoStray /\ OpenMeansOpen /\ CountCovers /\ NoLeak
=============================================================================
