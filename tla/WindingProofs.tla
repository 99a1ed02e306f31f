---------------------------- MODULE WindingProofs ----------------------------
(***************************************************************************)
(* Proofs, for any number of threads, extents and continuations, that the  *)
(* extents a thread is in match its stack, and that a handler is called    *)
(* only inside its extent and with a handler further out in force.         *)
(***************************************************************************)
EXTENDS Winding, ListLemmas

Points == 1..Len(point)
Made == Points \ Threads
Around(q) == {path[q][i] : i \in 1..Len(path[q])}

\* The tree of points: a path goes through the parent's, and the handler in
\* force outside of an extent is the one in force in its parent.
Tree ==
  /\ \A q \in Threads : point[q] = Root /\ path[q] = <<>>
  /\ \A q \in Made :
       /\ point[q].parent \in Points /\ point[q].parent < q
       /\ path[q] = Append(path[point[q].parent], q)
       /\ point[q].depth > 0
       /\ point[q].old = point[point[q].parent].new
       /\ ~point[q].sets => point[q].new = point[q].old

\* The extents around a point are a chain.
Chain(q) ==
  \A r \in Around(q) :
    /\ r \in Made /\ r <= q
    /\ Around(r) \subseteq Around(q)
    /\ \A s \in Around(q) : s < r => s \in Around(r)

\* The handler in force at a point was installed around it, and inside the call
\* of a handler it is either newer than the call or older than that handler.
Outward(q) ==
  /\ point[q].new # NoHandler => point[q].new \in Around(q)
  /\ \A r \in Around(q) : point[r].runs # NoHandler =>
       point[r].runs < r /\ (point[q].new > r \/ point[q].new < point[r].runs)

\* The stack s has the frames of the extents around q.
Matches(s, q) ==
  /\ q \in Points
  /\ Len(s) = Len(path[q])
  /\ \A i \in 1..Len(s) : s[i].point = path[q][i] /\ s[i].here = point[s[i].point].parent

\* Where thread t is: at %dk, or on the way, with the in thunks to be called
\* leading from the target to the point of the continuation.
Place(t) == IF phase[t] = "travel" THEN trip[t].here ELSE dk[t]
Located(t) ==
  phase[t] # "error" =>
    /\ Place(t) \in Points
    /\ active[t] = path[Place(t)]
    /\ handler[t] = point[Place(t)].new
Leads(ins, target, k) ==
  /\ target \in Points
  /\ ins = <<>> => target = conts[k].point
  /\ ins # <<>> => ins[1] = conts[k].point /\ point[ins[Len(ins)]].parent = target
  /\ \A i \in 1..Len(ins) : ins[i] \in Made
  /\ \A i \in 1..(Len(ins) - 1) : point[ins[i]].parent = ins[i + 1]
OnStack(t) ==
  /\ phase[t] \in {"run", "end"} => Matches(stack[t], dk[t])
  /\ phase[t] = "travel" =>
       /\ trip[t].cont \in DOMAIN conts
       /\ Leads(trip[t].ins, trip[t].target, trip[t].cont)

Inv ==
  /\ TypeOK
  /\ Tree
  /\ \A q \in Points : Chain(q) /\ Outward(q)
  /\ \A k \in DOMAIN conts : Matches(conts[k].stack, conts[k].point)
  /\ \A t \in Threads : Located(t) /\ OnStack(t)

-----------------------------------------------------------------------------
(* Entering an extent.                                                     *)

\* The extents around a point made are those around its parent, and itself.
LEMMA AroundMade ==
  ASSUME TypeOK, Tree, NEW q \in Made
  PROVE  Around(q) = Around(point[q].parent) \cup {q}
<1>. DEFINE p == point[q].parent
<1>1. p \in Points /\ path[q] = Append(path[p], q) /\ q \in Nat
  BY DEF Tree, Made, Points
<1>2. path[p] \in Seq(Nat)
  BY <1>1 DEF TypeOK, Points
<1>3. /\ Len(path[q]) = Len(path[p]) + 1 /\ Len(path[p]) \in Nat
      /\ \A i \in 1..Len(path[p]) : path[q][i] = path[p][i]
      /\ path[q][Len(path[p]) + 1] = q
  BY <1>1, <1>2, AppendCells
<1>4. Around(q) \subseteq Around(p) \cup {q}
  <2>1. SUFFICES ASSUME NEW i \in 1..Len(path[q]) PROVE path[q][i] \in Around(p) \cup {q}
    BY Zenon DEF Around
  <2>2. i \in 1..Len(path[p]) \/ i = Len(path[p]) + 1
    BY <1>3
  <2>3. CASE i = Len(path[p]) + 1
    BY <1>3, <2>3
  <2>4. CASE i \in 1..Len(path[p])
    <3>1. path[q][i] = path[p][i]
      BY <1>3, <2>4
    <3>. QED
      BY <2>4, <3>1, Zenon DEF Around
  <2>. QED
    BY <2>2, <2>3, <2>4
<1>5. Around(p) \subseteq Around(q)
  <2>1. SUFFICES ASSUME NEW i \in 1..Len(path[p]) PROVE path[p][i] \in Around(q)
    BY DEF Around
  <2>2. i \in 1..Len(path[q]) /\ path[q][i] = path[p][i]
    BY <1>3
  <2>. QED
    BY <2>2 DEF Around
<1>6. q \in Around(q)
  <2>1. Len(path[p]) + 1 \in 1..Len(path[q])
    BY <1>3
  <2>. QED
    BY <1>3, <2>1 DEF Around
<1>. QED
  BY <1>4, <1>5, <1>6

\* What is around a point, as a set of points.
LEMMA AroundPoints ==
  ASSUME Inv, NEW q \in Points
  PROVE  \A r \in Around(q) : r \in Made /\ r \in Nat /\ r <= q
BY DEF Inv, Chain, Made, Points

\* What the invariant says of a thread that runs.
LEMMA RunningThread ==
  ASSUME Inv, NEW t \in Threads, phase[t] \in {"run", "end"}
  PROVE  /\ dk[t] \in Points /\ path[dk[t]] \in Seq(Nat)
         /\ active[t] = path[dk[t]] /\ handler[t] = point[dk[t]].new
         /\ Matches(stack[t], dk[t])
<1>1. TypeOK /\ Located(t) /\ OnStack(t)
  BY DEF Inv
<1>2. dk[t] \in Points /\ path[dk[t]] \in Seq(Nat)
  BY <1>1 DEF TypeOK, Points
<1>. QED
  BY <1>1, <1>2 DEF Located, OnStack, Place

\* A new extent with handler new, called for handler runs.
LEMMA EnterInv ==
  ASSUME Inv, NEW t \in Threads, NEW sets \in BOOLEAN, NEW new \in Nat, NEW runs \in Nat,
         Enter(t, sets, new, runs),
         ~sets => new = handler[t],
         new # NoHandler => new \in Around(dk[t]) \cup {Len(point) + 1},
         runs # NoHandler => runs <= Len(point) /\ new < runs,
         \A r \in Around(dk[t]) : point[r].runs # NoHandler => new > r \/ new < point[r].runs
  PROVE  Inv'
<1>1. TypeOK /\ Tree /\ phase[t] = "run"
  BY DEF Inv, Enter, Running
<1>p. PICK p \in Points : p = dk[t]
  BY <1>1, RunningThread
<1>q. PICK q \in Nat : q = Len(point) + 1
  BY <1>1 DEF TypeOK
<1>. DEFINE rec == [depth |-> point[p].depth + 1, parent |-> p, sets |-> sets, new |-> new,
                    old |-> handler[t], runs |-> runs]
<1>2. /\ p \in Points /\ path[p] \in Seq(Nat)
      /\ active[t] = path[p] /\ handler[t] = point[p].new /\ Matches(stack[t], p)
  BY <1>1, <1>p, RunningThread
<1>3. Len(point) \in Nat /\ q = Len(point) + 1 /\ q \in Nat /\ q \notin Points /\ NumThreads \in Nat /\ q \notin Threads
      /\ Threads \subseteq Points
  <2>1. Len(point) \in Nat /\ NumThreads \in Nat /\ Len(point) >= NumThreads
    BY <1>1, WindingAssumption DEF TypeOK
  <2>. QED
    BY <1>q, <2>1 DEF Points, Threads
<1>4. rec \in PointRecs
  <2>1. point[p] \in PointRecs /\ handler[t] \in Nat /\ p \in Nat
    BY <1>1, <1>2, SMTT(30) DEF TypeOK, Points
  <2>2. point[p].depth + 1 \in Nat
    BY <2>1 DEF PointRecs
  <2>. QED
    BY <2>1, <2>2, Zenon DEF PointRecs
<1>5. /\ point' = Append(point, rec) /\ path' = Append(path, Append(path[p], q))
      /\ active' = [active EXCEPT ![t] = Append(@, q)]
      /\ dk' = [dk EXCEPT ![t] = q]
      /\ stack' = [stack EXCEPT ![t] = Append(@, [here |-> p, point |-> q])]
      /\ conts' = conts /\ phase' = phase /\ trip' = trip
  BY <1>p, <1>q DEF Enter, RunIn
<1>6. /\ point' \in Seq(PointRecs) /\ Len(point') = q
      /\ \A i \in Points : point'[i] = point[i]
      /\ point'[q] = rec
  <2>1. point \in Seq(PointRecs)
    BY <1>1 DEF TypeOK
  <2>. HIDE DEF rec
  <2>. QED
    BY <1>3, <1>4, <1>5, <2>1, AppendCells DEF Points
<1>7. /\ path' \in Seq(Seq(Nat)) /\ Len(path') = q
      /\ \A i \in Points : path'[i] = path[i]
      /\ path'[q] = Append(path[p], q) /\ path'[q] \in Seq(Nat)
  <2>1. path \in Seq(Seq(Nat)) /\ Len(path) = Len(point) /\ Append(path[p], q) \in Seq(Nat)
    BY <1>1, <1>2, <1>3 DEF TypeOK
  <2>. DEFINE new_path == Append(path[p], q)
  <2>. HIDE DEF new_path
  <2>2. /\ Append(path, new_path) \in Seq(Seq(Nat))
        /\ Len(Append(path, new_path)) = Len(path) + 1
        /\ \A i \in 1..Len(path) : Append(path, new_path)[i] = path[i]
        /\ Append(path, new_path)[Len(path) + 1] = new_path
    BY <2>1, AppendCells DEF new_path
  <2>. QED
    BY <1>3, <1>5, <2>1, <2>2 DEF Points, new_path
<1>8. handler' = [handler EXCEPT ![t] = new]
  <2>3. point'[q].sets = sets /\ point'[q].new = new
    <3>1. rec.sets = sets /\ rec.new = new
      OBVIOUS
    <3>. HIDE DEF rec
    <3>. QED
      BY <1>6, <3>1
  <2>4. handler' = IF point'[q].sets THEN [handler EXCEPT ![t] = point'[q].new] ELSE handler
    BY <1>q DEF Enter, RunIn
  <2>1. CASE sets
    BY <2>1, <2>3, <2>4, Zenon
  <2>2. CASE ~sets
    <3>1. handler' = handler /\ new = handler[t]
      BY <2>2, <2>3, <2>4, Zenon
    <3>. QED
      BY <1>1, <3>1 DEF TypeOK
  <2>. QED
    BY <2>1, <2>2
<1>9. TypeOK'
  <2>1. dk' \in [Threads -> 1..Len(point')]
    <3>1. q \in 1..Len(point') /\ 1..Len(point) \subseteq 1..Len(point')
      BY <1>3, <1>6
    <3>2. dk \in [Threads -> 1..Len(point)]
      BY <1>1 DEF TypeOK
    <3>. QED
      BY <1>5, <3>1, <3>2
  <2>2. stack' \in [Threads -> Seq(Frames)]
    <3>1. [here |-> p, point |-> q] \in Frames
      BY <1>2, <1>3 DEF Frames, Points
    <3>2. stack[t] \in Seq(Frames) /\ Append(stack[t], [here |-> p, point |-> q]) \in Seq(Frames)
      BY <1>1, <3>1 DEF TypeOK
    <3>. QED
      BY <1>1, <1>5, <3>2 DEF TypeOK
  <2>3. active' \in [Threads -> Seq(Int)]
    <3>1. active[t] \in Seq(Int) /\ Append(active[t], q) \in Seq(Int)
      BY <1>1, <1>3 DEF TypeOK
    <3>. QED
      BY <1>1, <1>5, <3>1 DEF TypeOK
  <2>4. handler' \in [Threads -> Nat]
    BY <1>1, <1>8 DEF TypeOK
  <2>5. Len(point') >= NumThreads
    BY <1>1, <1>3, <1>6 DEF TypeOK
  <2>. QED
    BY <1>1, <1>5, <1>6, <1>7, <2>1, <2>2, <2>3, <2>4, <2>5 DEF TypeOK
<1>10. Points' = Points \cup {q} /\ Made' = Made \cup {q}
  BY <1>3, <1>6 DEF Points, Made
<1>11. Tree'
  <2>1. \A x \in Threads : (point[x] = Root /\ path[x] = <<>>)'
    BY <1>1, <1>3, <1>6, <1>7 DEF Tree
  <2>2. ASSUME NEW x \in Made'
        PROVE  /\ point'[x].parent \in Points' /\ point'[x].parent < x
               /\ path'[x] = Append(path'[point'[x].parent], x)
               /\ point'[x].depth > 0
               /\ point'[x].old = point'[point'[x].parent].new
               /\ ~point'[x].sets => point'[x].new = point'[x].old
    <3>1. CASE x \in Made
      <4>. DEFINE y == point[x].parent
      <4>1. /\ y \in Points /\ y < x /\ path[x] = Append(path[y], x) /\ point[x].depth > 0
            /\ point[x].old = point[y].new
            /\ ~point[x].sets => point[x].new = point[x].old
        BY <1>1, <3>1, Zenon DEF Tree
      <4>2. x \in Points /\ y \in Points'
        BY <1>10, <3>1, <4>1 DEF Made
      <4>3. point'[x] = point[x] /\ point'[y] = point[y] /\ path'[x] = path[x] /\ path'[y] = path[y]
        BY <1>6, <1>7, <4>1, <4>2
      <4>. QED
        BY <4>1, <4>2, <4>3, Zenon
    <3>2. CASE x = q
      <4>1. point'[x] = rec /\ point'[p] = point[p] /\ path'[p] = path[p]
        BY <1>2, <1>6, <1>7, <3>2
      <4>2. p < q /\ p \in Points' /\ point[p].depth + 1 > 0
        <5>1. point[p] \in PointRecs /\ p < q
          BY <1>1, <1>2, <1>3 DEF Points, TypeOK
        <5>. QED
          BY <1>2, <1>10, <5>1 DEF PointRecs
      <4>3. /\ rec.parent = p /\ rec.depth = point[p].depth + 1 /\ rec.old = point[p].new
            /\ ~rec.sets => rec.new = rec.old
        BY <1>2
      <4>4. path'[x] = Append(path[p], x)
        BY <1>7, <3>2
      <4>. HIDE DEF rec
      <4>5. /\ point'[x].parent = p /\ point'[x].depth = point[p].depth + 1
            /\ point'[x].old = point'[p].new
            /\ ~point'[x].sets => point'[x].new = point'[x].old
        BY <4>1, <4>3, Zenon
      <4>. QED
        BY <3>2, <4>1, <4>2, <4>4, <4>5, Zenon
    <3>. QED
      BY <1>10, <2>2, <3>1, <3>2
  <2>. QED
    BY <2>1, <2>2 DEF Tree
<1>12. \A x \in Points : Around(x)' = Around(x)
  BY <1>7 DEF Around
<1>13. Around(q)' = Around(p) \cup {q}
  <2>1. /\ Len(path'[q]) = Len(path[p]) + 1 /\ Len(path[p]) \in Nat
        /\ \A i \in 1..Len(path[p]) : path'[q][i] = path[p][i]
        /\ path'[q][Len(path[p]) + 1] = q
    BY <1>2, <1>3, <1>7, AppendCells
  <2>2. Around(q)' \subseteq Around(p) \cup {q}
    <3>1. SUFFICES ASSUME NEW i \in 1..Len(path'[q]) PROVE path'[q][i] \in Around(p) \cup {q}
      BY Zenon DEF Around
    <3>2. i \in 1..Len(path[p]) \/ i = Len(path[p]) + 1
      BY <2>1
    <3>3. CASE i = Len(path[p]) + 1
      BY <2>1, <3>3
    <3>4. CASE i \in 1..Len(path[p])
      <4>1. path'[q][i] = path[p][i]
        BY <2>1, <3>4
      <4>. QED
        BY <3>4, <4>1, Zenon DEF Around
    <3>. QED
      BY <3>2, <3>3, <3>4
  <2>3. ASSUME NEW i \in 1..Len(path[p]) PROVE path[p][i] \in Around(q)'
    <3>1. i \in 1..Len(path'[q]) /\ path'[q][i] = path[p][i]
      BY <2>1
    <3>. QED
      BY <3>1 DEF Around
  <2>4. q \in Around(q)'
    <3>1. Len(path[p]) + 1 \in 1..Len(path'[q])
      BY <2>1
    <3>. QED
      BY <2>1, <3>1 DEF Around
  <2>. QED
    BY <2>2, <2>3, <2>4 DEF Around
<1>14. \A x \in Points : Chain(x) /\ Outward(x)
  BY DEF Inv
<1>15. \A x \in Points : \A r \in Around(x) : r \in Points /\ r \in Made /\ r \in Nat /\ r <= x
  BY AroundPoints DEF Made
<1>16. ASSUME NEW x \in Points' PROVE Chain(x)'
  <2>1. CASE x \in Points
    BY <1>10, <1>12, <1>14, <1>15, <2>1 DEF Chain
  <2>2. CASE x = q
    <3>1. SUFFICES ASSUME NEW r \in Around(q)'
                   PROVE  /\ r \in Made' /\ r <= q /\ Around(r)' \subseteq Around(q)'
                          /\ \A s \in Around(q)' : s < r => s \in Around(r)'
      BY <2>2 DEF Chain
    <3>2. CASE r = q
      BY <1>3, <1>10, <1>13, <3>2
    <3>3. CASE r \in Around(p)
      <4>1. r \in Points /\ r \in Made /\ r \in Nat /\ r <= p /\ p < q
        BY <1>2, <1>3, <1>15, <3>3 DEF Points
      <4>2. Around(r) \subseteq Around(p) /\ \A s \in Around(p) : s < r => s \in Around(r)
        BY <1>2, <1>14, <3>3 DEF Chain
      <4>3. ~(q < r) /\ r <= q
        BY <1>2, <1>3, <4>1 DEF Points
      <4>. QED
        BY <1>10, <1>12, <1>13, <4>1, <4>2, <4>3
    <3>. QED
      BY <1>13, <3>1, <3>2, <3>3
  <2>. QED
    BY <1>10, <2>1, <2>2
<1>17. ASSUME NEW x \in Points' PROVE Outward(x)'
  <2>1. CASE x \in Points
    BY <1>6, <1>12, <1>14, <1>15, <2>1 DEF Outward
  <2>2. CASE x = q
    <3>1. point'[q].new = new /\ point'[q].runs = runs
      BY <1>6
    <3>2. point'[q].new # NoHandler => point'[q].new \in Around(q)'
      BY <1>p, <1>q, <1>13, <3>1
    <3>3. ASSUME NEW r \in Around(q)', point'[r].runs # NoHandler
          PROVE  point'[r].runs < r /\ (new > r \/ new < point'[r].runs)
      <4>1. CASE r = q
        BY <1>3, <3>1, <3>3, <4>1
      <4>2. CASE r \in Around(p)
        <5>1. r \in Points /\ point'[r] = point[r]
          BY <1>2, <1>6, <1>15, <4>2
        <5>2. point[r].runs < r
          BY <1>2, <1>14, <3>3, <4>2, <5>1 DEF Outward
        <5>. QED
          BY <1>p, <3>3, <4>2, <5>1, <5>2
      <4>. QED
        BY <1>13, <3>3, <4>1, <4>2
    <3>. QED
      BY <2>2, <3>1, <3>2, <3>3 DEF Outward
  <2>. QED
    BY <1>10, <2>1, <2>2
<1>18. ASSUME NEW s, NEW x, Matches(s, x) PROVE Matches(s, x)'
  <2>1. x \in Points /\ path'[x] = path[x]
    BY <1>7, <1>18 DEF Matches
  <2>2. \A i \in 1..Len(s) : s[i].point \in Points
    <3>1. ASSUME NEW i \in 1..Len(s) PROVE path[x][i] \in Around(x)
      BY <1>18, <3>1 DEF Matches, Around
    <3>. QED
      BY <1>15, <1>18, <2>1, <3>1 DEF Matches
  <2>. QED
    BY <1>6, <1>10, <1>18, <2>1, <2>2 DEF Matches
<1>19. \A k \in DOMAIN conts' : Matches(conts[k].stack, conts[k].point)'
  <2>1. \A k \in DOMAIN conts : Matches(conts[k].stack, conts[k].point)
    BY DEF Inv
  <2>. QED
    BY <1>5, <1>18, <2>1
<1>20. ASSUME NEW u \in Threads PROVE Located(u)' /\ OnStack(u)'
  <2>1. CASE u = t
    <3>1. Located(u)'
      <4>1. /\ dk'[u] = q /\ active'[u] = Append(path[p], q) /\ handler'[u] = new
            /\ phase'[u] = "run"
        BY <1>1, <1>2, <1>5, <1>8, <2>1 DEF TypeOK
      <4>2. point'[q].new = new
        BY <1>6
      <4>. QED
        BY <1>7, <1>10, <4>1, <4>2 DEF Located, Place
    <3>2. Matches(stack[u], dk[u])'
      <4>. DEFINE f == [here |-> p, point |-> q]
      <4>1. stack'[u] = Append(stack[t], f) /\ dk'[u] = q
        BY <1>1, <1>5, <2>1 DEF TypeOK
      <4>2. stack[t] \in Seq(Frames) /\ f \in Frames
        BY <1>1, <1>2, <1>3 DEF TypeOK, Frames, Points
      <4>3. /\ Len(stack'[u]) = Len(stack[t]) + 1 /\ Len(stack[t]) \in Nat
            /\ \A i \in 1..Len(stack[t]) : stack'[u][i] = stack[t][i]
            /\ stack'[u][Len(stack[t]) + 1] = f
        <5>. HIDE DEF f
        <5>. QED
          BY <4>1, <4>2, AppendCells
      <4>4. /\ Len(path'[q]) = Len(path[p]) + 1 /\ Len(path[p]) = Len(stack[t])
            /\ \A i \in 1..Len(path[p]) : path'[q][i] = path[p][i]
            /\ path'[q][Len(path[p]) + 1] = q
        BY <1>2, <1>3, <1>7, AppendCells, SMTT(30) DEF Matches
      <4>5. \A s, x : Matches(s, x) => \A i \in 1..Len(s) : s[i].here = point'[s[i].point].parent
        BY <1>18 DEF Matches
      <4>6. \A i \in 1..Len(stack[t]) : stack[t][i].point = path[p][i]
                                       /\ stack[t][i].here = point'[stack[t][i].point].parent
        BY <1>2, <4>5, ZenonT(60) DEF Matches
      <4>7. f.point = q /\ f.here = point'[f.point].parent
        BY <1>6
      <4>8. ASSUME NEW i \in 1..Len(stack'[u])
            PROVE  stack'[u][i].point = path'[q][i]
                   /\ stack'[u][i].here = point'[stack'[u][i].point].parent
        <5>1. CASE i \in 1..Len(stack[t])
          BY <4>3, <4>4, <4>6, <5>1
        <5>2. CASE i = Len(stack[t]) + 1
          BY <4>3, <4>4, <4>7, <5>2
        <5>. QED
          BY <4>3, <4>8, <5>1, <5>2
      <4>. QED
        BY <1>10, <4>1, <4>3, <4>4, <4>8 DEF Matches
    <3>. QED
      BY <1>1, <1>5, <2>1, <3>2, <3>1 DEF OnStack
  <2>2. CASE u # t
    <3>1. Located(u) /\ OnStack(u)
      BY DEF Inv
    <3>2. /\ stack'[u] = stack[u] /\ dk'[u] = dk[u] /\ trip'[u] = trip[u]
          /\ phase'[u] = phase[u] /\ active'[u] = active[u] /\ handler'[u] = handler[u]
      BY <1>1, <1>5, <1>8, <2>2 DEF TypeOK
    <3>3. Located(u)'
      BY <1>6, <1>7, <1>10, <3>1, <3>2 DEF Located, Place
    <3>4. phase[u] \in {"run", "end"} => Matches(stack[u], dk[u])'
      BY <1>18, <3>1, <3>2 DEF OnStack
    <3>5. Leads(trip[u].ins, trip[u].target, trip[u].cont) =>
            Leads(trip[u].ins, trip[u].target, trip[u].cont)'
      <4>1. \A i \in Made : point'[i] = point[i] /\ i \in Made'
        BY <1>6, <1>10 DEF Made
      <4>2. ASSUME NEW ins \in Seq(Nat), NEW target, NEW k, Leads(ins, target, k)
            PROVE  Leads(ins, target, k)'
        <5>1. ins # <<>> => Len(ins) \in 1..Len(ins)
          OBVIOUS
        <5>2. \A i \in 1..Len(ins) : ins[i] \in Made /\ point'[ins[i]] = point[ins[i]]
                                         /\ ins[i] \in Made'
          BY <4>1, <4>2 DEF Leads
        <5>3. target \in Points' /\ (ins = <<>> => target = conts'[k].point)
          BY <1>5, <1>10, <4>2 DEF Leads
        <5>4. ins # <<>> => ins[1] = conts'[k].point /\ point'[ins[Len(ins)]].parent = target
          BY <1>5, <4>2, <5>1, <5>2 DEF Leads
        <5>5. ASSUME NEW i \in 1..(Len(ins) - 1) PROVE point'[ins[i]].parent = ins[i + 1]
          <6>1. i \in 1..Len(ins)
            OBVIOUS
          <6>. QED
            BY <4>2, <5>2, <6>1 DEF Leads
        <5>. QED
          BY <5>2, <5>3, <5>4, <5>5 DEF Leads
      <4>3. trip[u].ins \in Seq(Nat)
        BY <1>1 DEF TypeOK
      <4>. QED
        BY <3>2, <4>2, <4>3
    <3>. QED
      BY <1>5, <3>1, <3>2, <3>3, <3>4, <3>5 DEF OnStack
  <2>. QED
    BY <2>1, <2>2
<1>. QED
  BY <1>9, <1>11, <1>16, <1>17, <1>19, <1>20 DEF Inv

\* dynamic-wind, with-exception-handler and raise enter an extent.
LEMMA CallsInv ==
  ASSUME Inv, NEW t \in Threads,
         DynamicWind(t) \/ WithExceptionHandler(t) \/ Raise(t)
  PROVE  Inv'
<1>1. TypeOK /\ Tree /\ phase[t] = "run"
  BY DEF Inv, DynamicWind, WithExceptionHandler, Raise, Enter, Running
<1>p. PICK p \in Points : p = dk[t]
  BY <1>1, RunningThread
<1>2. handler[t] = point[p].new /\ handler[t] \in Nat /\ Chain(p) /\ Outward(p)
  BY <1>1, <1>p, RunningThread DEF Inv, TypeOK
<1>3. \A r \in Around(p) : r \in Made /\ r \in Nat /\ r <= p
  BY AroundPoints
<1>4. Len(point) \in Nat /\ p \in Nat /\ p <= Len(point)
  BY <1>1 DEF TypeOK, Points
<1>5. \A r \in Points : point[r].runs \in Nat /\ point[r].new \in Nat
  <2>1. \A r \in Points : point[r] \in PointRecs
    BY <1>1 DEF TypeOK, Points
  <2>. QED
    BY <2>1 DEF PointRecs
<1>6. CASE DynamicWind(t)
  <2>h. PICK h \in Nat : h = handler[t]
    BY <1>2
  <2>1. Enter(t, FALSE, h, NoHandler)
    BY <1>6, <2>h DEF DynamicWind
  <2>2. /\ h # NoHandler => h \in Around(dk[t]) \cup {Len(point) + 1}
        /\ \A r \in Around(dk[t]) : point[r].runs # NoHandler =>
             h > r \/ h < point[r].runs
    BY <1>p, <1>2, <2>h DEF Outward
  <2>3. NoHandler \in Nat
    BY DEF NoHandler
  <2>. QED
    BY <2>h, <2>1, <2>2, <2>3, EnterInv
<1>7. CASE WithExceptionHandler(t)
  <2>1. PICK q \in Nat : q = Len(point) + 1
    BY <1>4
  <2>2. Enter(t, TRUE, q, NoHandler)
    BY <1>7, <2>1 DEF WithExceptionHandler
  <2>3. \A r \in Around(dk[t]) : q > r
    BY <1>p, <1>3, <1>4, <2>1
  <2>4. NoHandler \in Nat /\ q \in Around(dk[t]) \cup {Len(point) + 1}
    BY <2>1 DEF NoHandler
  <2>. QED
    BY <2>2, <2>3, <2>4, EnterInv
<1>8. CASE Raise(t)
  <2>h. PICK h \in Made : h = handler[t] /\ h \in Around(p) /\ h \in Nat /\ h <= p
    BY <1>8, <1>2, <1>3 DEF Raise, Outward
  <2>o. PICK o \in Points : o = point[h].parent /\ o < h /\ point[h].old = point[o].new
    BY <1>1 DEF Tree
  <2>x. PICK x \in Nat : x = point[h].old
    BY <1>5, <2>o
  <2>1. Enter(t, TRUE, x, h)
    BY <1>8, <2>h, <2>x DEF Raise
  <2>2. Around(h) = Around(o) \cup {h} /\ Around(h) \subseteq Around(p)
    BY <1>1, <1>2, <2>h, <2>o, AroundMade DEF Chain
  <2>3. Outward(o) /\ \A r \in Around(o) : r \in Nat /\ r <= o
    BY <2>o, AroundPoints DEF Inv
  <2>4. x # NoHandler => x \in Around(o) /\ x <= o
    BY <2>o, <2>x, <2>3 DEF Outward
  <2>5. x < h
    BY <2>4, <2>h, <2>o DEF NoHandler, Points, Made
  <2>6. ASSUME NEW r \in Around(p), point[r].runs # NoHandler
        PROVE  x > r \/ x < point[r].runs
    <3>1. r \in Nat /\ r \in Points /\ point[r].runs \in Nat
      BY <1>3, <1>5 DEF Made
    <3>2. h > r \/ h < point[r].runs
      BY <1>2, <2>6, <2>h DEF Outward
    <3>3. CASE h > r
      <4>1. r \in Around(h)
        BY <1>2, <2>h, <3>3 DEF Chain
      <4>2. r \in Around(o)
        BY <2>2, <2>h, <3>1, <3>3, <4>1
      <4>. QED
        BY <2>3, <2>6, <2>o, <2>x, <4>2 DEF Outward
    <3>4. CASE h < point[r].runs
      BY <2>5, <2>h, <3>1, <3>4
    <3>. QED
      BY <3>2, <3>3, <3>4
  <2>7. x # NoHandler => x \in Around(dk[t]) \cup {Len(point) + 1}
    BY <1>p, <2>2, <2>4
  <2>8. h <= Len(point)
    BY <1>4, <2>h
  <2>. QED
    BY <1>p, <2>h, <2>1, <2>5, <2>6, <2>7, <2>8, EnterInv
<1>. QED
  BY <1>6, <1>7, <1>8

-----------------------------------------------------------------------------
(* The steps that make no point.                                           *)

\* What is said of the points alone stays true.
LEMMA SamePoints ==
  ASSUME point' = point, path' = path
  PROVE  /\ Points' = Points /\ Made' = Made
         /\ \A q : Around(q)' = Around(q)
         /\ Tree => Tree'
         /\ \A q : Chain(q) /\ Outward(q) => Chain(q)' /\ Outward(q)'
         /\ \A s, q : Matches(s, q) => Matches(s, q)'
<1>1. Points' = Points /\ Made' = Made
  BY DEF Points, Made
<1>2. \A q : Around(q)' = Around(q)
  BY DEF Around
<1>3. Tree => Tree'
  BY <1>1, Zenon DEF Tree
<1>4. ASSUME NEW q, Chain(q), Outward(q) PROVE Chain(q)' /\ Outward(q)'
  BY <1>1, <1>2, <1>4 DEF Chain, Outward
<1>5. ASSUME NEW s, NEW q, Matches(s, q) PROVE Matches(s, q)'
  BY <1>1, <1>5 DEF Matches
<1>. QED
  BY <1>1, <1>2, <1>3, <1>4, <1>5

\* A step of one thread that makes neither points nor continuations.
LEMMA ThreadStep ==
  ASSUME Inv, TypeOK', point' = point, path' = path, conts' = conts, NEW t \in Threads,
         \A u \in Threads : u # t =>
           /\ stack'[u] = stack[u] /\ dk'[u] = dk[u] /\ trip'[u] = trip[u]
           /\ phase'[u] = phase[u] /\ active'[u] = active[u] /\ handler'[u] = handler[u],
         Located(t)', OnStack(t)'
  PROVE  Inv'
<1>1. /\ Points' = Points /\ Made' = Made /\ Tree'
      /\ \A q \in Points : Chain(q)' /\ Outward(q)'
      /\ \A s, q : Matches(s, q) => Matches(s, q)'
  BY SamePoints DEF Inv
<1>2. \A k \in DOMAIN conts' : Matches(conts[k].stack, conts[k].point)'
  <2>1. \A k \in DOMAIN conts : Matches(conts[k].stack, conts[k].point)
    BY DEF Inv
  <2>. QED
    BY <1>1, <2>1
<1>3. ASSUME NEW u \in Threads, u # t PROVE Located(u)' /\ OnStack(u)'
  <2>1. Located(u) /\ OnStack(u)
    BY DEF Inv
  <2>2. Located(u)'
    BY <1>1, <1>3, <2>1 DEF Located, Place
  <2>3. phase[u] \in {"run", "end"} => Matches(stack[u], dk[u])'
    BY <1>1, <1>3, <2>1 DEF OnStack
  <2>4. \A ins, target, k : Leads(ins, target, k) => Leads(ins, target, k)'
    BY <1>1 DEF Leads
  <2>5. Leads(trip[u].ins, trip[u].target, trip[u].cont) =>
          Leads(trip[u].ins, trip[u].target, trip[u].cont)'
    BY <1>3, <2>4
  <2>. QED
    BY <1>3, <2>1, <2>2, <2>3, <2>5 DEF OnStack
<1>. QED
  BY <1>1, <1>2, <1>3 DEF Inv

\* call-with-current-continuation keeps the stack and the point.
LEMMA CallCCInv ==
  ASSUME Inv, NEW t \in Threads, CallCC(t)
  PROVE  Inv'
<1>1. TypeOK /\ phase[t] = "run"
  BY DEF Inv, CallCC, Running
<1>2. dk[t] \in Points /\ Matches(stack[t], dk[t])
  BY <1>1, RunningThread
<1>k. PICK k : k = [stack |-> stack[t], point |-> dk[t], thread |-> t]
  OBVIOUS
<1>3. /\ conts' = Append(conts, k) /\ point' = point /\ path' = path
      /\ UNCHANGED <<dk, stack, handler, phase, trip, active>>
  BY <1>k DEF CallCC
<1>4. k \in [stack : Seq(Frames), point : Nat, thread : Threads]
  BY <1>1, <1>2, <1>k DEF TypeOK, Points
<1>5. /\ conts' \in Seq([stack : Seq(Frames), point : Nat, thread : Threads])
      /\ Len(conts') = Len(conts) + 1 /\ Len(conts) \in Nat
      /\ \A j \in 1..Len(conts) : conts'[j] = conts[j]
      /\ conts'[Len(conts) + 1] = k
  <2>1. PICK S : S = [stack : Seq(Frames), point : Nat, thread : Threads]
    OBVIOUS
  <2>2. conts \in Seq(S) /\ k \in S
    BY <1>1, <1>4, <2>1, Zenon DEF TypeOK
  <2>. QED
    BY <1>3, <2>1, <2>2, AppendCells
<1>6. TypeOK'
  BY <1>1, <1>3, <1>5 DEF TypeOK
<1>7. /\ Points' = Points /\ Made' = Made /\ Tree'
      /\ \A q \in Points : Chain(q)' /\ Outward(q)'
      /\ \A s, q : Matches(s, q) => Matches(s, q)'
  BY <1>3, SamePoints DEF Inv
<1>8. DOMAIN conts = 1..Len(conts) /\ DOMAIN conts' = 1..(Len(conts) + 1)
  BY <1>1, <1>5 DEF TypeOK
<1>9. ASSUME NEW j \in DOMAIN conts' PROVE Matches(conts[j].stack, conts[j].point)'
  <2>1. PICK s, q : s = conts'[j].stack /\ q = conts'[j].point
    OBVIOUS
  <2>2. Matches(s, q)
    <3>1. CASE j \in DOMAIN conts
      BY <1>5, <1>8, <2>1, <3>1 DEF Inv
    <3>2. CASE j = Len(conts) + 1
      BY <1>2, <1>5, <1>k, <2>1, <3>2
    <3>. QED
      BY <1>5, <1>8, <3>1, <3>2
  <2>. QED
    BY <1>7, <2>1, <2>2
<1>10. ASSUME NEW u \in Threads PROVE Located(u)' /\ OnStack(u)'
  <2>1. Located(u) /\ OnStack(u)
    BY DEF Inv
  <2>2. Located(u)'
    BY <1>3, <1>7, <2>1 DEF Located, Place
  <2>3. phase[u] \in {"run", "end"} => Matches(stack[u], dk[u])'
    BY <1>3, <1>7, <2>1 DEF OnStack
  <2>4. ASSUME NEW ins, NEW target, NEW j \in DOMAIN conts, Leads(ins, target, j)
        PROVE  Leads(ins, target, j)'
    BY <1>3, <1>5, <1>7, <1>8, <2>4 DEF Leads
  <2>5. trip[u].cont \in DOMAIN conts /\ Leads(trip[u].ins, trip[u].target, trip[u].cont) =>
          /\ trip[u].cont \in DOMAIN conts'
          /\ Leads(trip[u].ins, trip[u].target, trip[u].cont)'
    BY <1>3, <1>5, <1>8, <2>4
  <2>. QED
    BY <1>3, <2>1, <2>2, <2>3, <2>5 DEF OnStack
<1>. QED
  BY <1>6, <1>7, <1>9, <1>10 DEF Inv

\* What is left is the path of the parent, and its handler is in force again.
LEMMA LeavePoint ==
  ASSUME Inv, NEW t \in Threads, NEW q \in Made, active[t] = path[q], handler[t] = point[q].new,
         RunOut(t, q)
  PROVE  /\ active' = [active EXCEPT ![t] = path[point[q].parent]]
         /\ handler' = [handler EXCEPT ![t] = point[point[q].parent].new]
<1>p. PICK p \in Points : p = point[q].parent
  BY DEF Inv, Tree
<1>1. /\ TypeOK /\ q \in Nat /\ path[p] \in Seq(Nat) /\ path[q] = Append(path[p], q)
      /\ point[q].old = point[p].new
      /\ ~point[q].sets => point[q].new = point[q].old
  <2>1. TypeOK /\ Tree
    BY DEF Inv
  <2>2. q \in Nat /\ path[p] \in Seq(Nat)
    BY <2>1 DEF Made, Points, TypeOK
  <2>. QED
    BY <1>p, <2>1, <2>2, Zenon DEF Tree
<1>2. Append(path[p], q) # <<>> /\ Last(Append(path[p], q)) = q /\ Front(Append(path[p], q)) = path[p]
  BY <1>1, FrontOfAppend
<1>3. active' = [active EXCEPT ![t] = path[p]]
  BY <1>1, <1>2 DEF RunOut
<1>4. handler' = [handler EXCEPT ![t] = point[p].new]
  <2>1. handler' = IF point[q].sets THEN [handler EXCEPT ![t] = point[q].old] ELSE handler
    BY DEF RunOut
  <2>2. CASE point[q].sets
    BY <1>1, <2>1, <2>2, Zenon
  <2>3. CASE ~point[q].sets
    <3>1. handler' = handler /\ handler[t] = point[p].new
      BY <1>1, <2>1, <2>3, Zenon
    <3>. QED
      BY <1>1, <3>1 DEF TypeOK
  <2>. QED
    BY <2>2, <2>3
<1>. QED
  BY <1>p, <1>3, <1>4

\* The body of a dynamic-wind returns.
LEMMA ReturnInv ==
  ASSUME Inv, NEW t \in Threads, Return(t)
  PROVE  Inv'
<1>1. TypeOK /\ Tree /\ phase[t] = "run"
  BY DEF Inv, Return, Running
<1>q. PICK q \in Points : q = dk[t]
  BY <1>1, RunningThread
<1>2. /\ path[q] \in Seq(Nat) /\ active[t] = path[q] /\ handler[t] = point[q].new
      /\ Matches(stack[t], q)
  BY <1>1, <1>q, RunningThread
<1>3. stack[t] \in Seq(Frames) /\ stack[t] # <<>>
  BY <1>1 DEF TypeOK, Return
<1>4. /\ Front(stack[t]) \in Seq(Frames) /\ Len(Front(stack[t])) = Len(stack[t]) - 1
      /\ Len(stack[t]) \in Nat \ {0}
      /\ \A i \in 1..(Len(stack[t]) - 1) : Front(stack[t])[i] = stack[t][i]
      /\ Last(stack[t]) = stack[t][Len(stack[t])]
  BY <1>3, FrontCells
<1>5. q \in Made
  <2>1. Len(path[q]) # 0
    BY <1>2, <1>4 DEF Matches
  <2>2. q \notin Threads
    BY <1>1, <2>1 DEF Tree
  <2>. QED
    BY <2>2 DEF Made
<1>p. PICK p \in Points : p = point[q].parent /\ path[q] = Append(path[p], q)
  BY <1>1, <1>5 DEF Tree
<1>6. /\ path[p] \in Seq(Nat) /\ Len(path[q]) = Len(path[p]) + 1 /\ Len(path[p]) \in Nat
      /\ \A i \in 1..Len(path[p]) : path[q][i] = path[p][i]
      /\ path[q][Len(path[p]) + 1] = q
  <2>1. path[p] \in Seq(Nat) /\ q \in Nat
    BY <1>1 DEF TypeOK, Points
  <2>. QED
    BY <1>p, <2>1, AppendCells
<1>7. Last(stack[t]).point = q /\ Last(stack[t]).here = p
  <2>1. Len(stack[t]) \in 1..Len(stack[t]) /\ Len(stack[t]) = Len(path[p]) + 1
    BY <1>2, <1>4, <1>6 DEF Matches
  <2>. QED
    BY <1>2, <1>4, <1>6, <1>p, <2>1, ZenonT(60) DEF Matches
<1>8. /\ dk' = [dk EXCEPT ![t] = p] /\ stack' = [stack EXCEPT ![t] = Front(@)]
      /\ point' = point /\ path' = path /\ conts' = conts /\ phase' = phase /\ trip' = trip
      /\ RunOut(t, q)
  BY <1>7 DEF Return
<1>9. /\ active' = [active EXCEPT ![t] = path[p]]
      /\ handler' = [handler EXCEPT ![t] = point[p].new]
  BY <1>2, <1>5, <1>8, <1>p, LeavePoint
<1>10. Points' = Points /\ \A s, x : Matches(s, x) => Matches(s, x)'
  BY <1>8, SamePoints
<1>11. Matches(Front(stack[t]), p)
  <2>1. Len(Front(stack[t])) = Len(path[p])
    BY <1>2, <1>4, <1>6 DEF Matches
  <2>2. ASSUME NEW i \in 1..Len(Front(stack[t]))
        PROVE  /\ Front(stack[t])[i].point = path[p][i]
               /\ Front(stack[t])[i].here = point[Front(stack[t])[i].point].parent
    <3>1. i \in 1..Len(stack[t]) /\ Front(stack[t])[i] = stack[t][i] /\ path[q][i] = path[p][i]
      BY <1>4, <1>6, <2>1
    <3>. QED
      BY <1>2, <3>1 DEF Matches
  <2>. QED
    BY <2>1, <2>2 DEF Matches
<1>12. /\ dk'[t] = p /\ stack'[t] = Front(stack[t]) /\ phase'[t] = "run"
       /\ active'[t] = path[p] /\ handler'[t] = point[p].new
  BY <1>1, <1>8, <1>9 DEF TypeOK
<1>13. Located(t)'
  BY <1>8, <1>10, <1>12 DEF Located, Place
<1>14. OnStack(t)'
  <2>1. Matches(stack[t], dk[t])'
    BY <1>8, <1>10, <1>11, <1>12 DEF Matches
  <2>. QED
    BY <1>12, <2>1 DEF OnStack
<1>15. TypeOK'
  <2>1. path[p] \in Seq(Int) /\ point[p].new \in Nat
    <3>1. point[p] \in PointRecs
      BY <1>1 DEF TypeOK, Points
    <3>. QED
      BY <1>6, <3>1 DEF PointRecs
  <2>2. dk' \in [Threads -> 1..Len(point)] /\ stack' \in [Threads -> Seq(Frames)]
    BY <1>1, <1>4, <1>8 DEF TypeOK, Points
  <2>3. active' \in [Threads -> Seq(Int)] /\ handler' \in [Threads -> Nat]
    BY <1>1, <1>9, <2>1 DEF TypeOK
  <2>. QED
    BY <1>1, <1>8, <2>2, <2>3 DEF TypeOK
<1>. QED
  BY <1>1, <1>8, <1>9, <1>13, <1>14, <1>15, ThreadStep DEF TypeOK

\* A continuation is called, and the thread travels to its point.
LEMMA TravelInv ==
  ASSUME Inv, NEW t \in Threads, (\E k \in DOMAIN conts : Throw(t, k)) \/ Travel(t)
  PROVE  Inv'
<1>1. TypeOK /\ Tree /\ Located(t) /\ OnStack(t)
  BY DEF Inv
<1>2. /\ point' = point /\ path' = path /\ conts' = conts
      /\ Points' = Points /\ Made' = Made
      /\ \A s, x : Matches(s, x) => Matches(s, x)'
  <2>1. point' = point /\ path' = path /\ conts' = conts
    BY DEF Throw, Travel, TravelToParent, TravelOut, TravelIn, Arrive
  <2>. QED
    BY <2>1, SamePoints
<1>3. \A ins, target, k : Leads(ins, target, k) => Leads(ins, target, k)'
  BY <1>2 DEF Leads
<1>4. trip[t] \in [here : Nat, target : Nat, ins : Seq(Nat), cont : Nat]
  BY <1>1 DEF TypeOK
<1>k. DOMAIN conts \subseteq Nat
  <2>1. PICK S : S = [stack : Seq(Frames), point : Nat, thread : Threads]
    OBVIOUS
  <2>2. conts \in Seq(S)
    BY <1>1, <2>1, Zenon DEF TypeOK
  <2>. QED
    BY <2>2
<1>5. ASSUME NEW k \in DOMAIN conts, Throw(t, k) PROVE Inv'
  <2>d. PICK d \in Points : d = dk[t]
    BY <1>1, <1>5, RunningThread DEF Throw, Running
  <2>c. PICK c \in Points : c = conts[k].point
    BY DEF Inv, Matches
  <2>1. /\ phase' = [phase EXCEPT ![t] = "travel"]
        /\ trip' = [trip EXCEPT ![t] = [here |-> d, target |-> c, ins |-> <<>>, cont |-> k]]
        /\ UNCHANGED <<dk, stack, handler, active>>
        /\ active[t] = path[d] /\ handler[t] = point[d].new
    BY <1>1, <1>5, <2>c, <2>d, RunningThread DEF Throw, Running
  <2>2. /\ phase'[t] = "travel" /\ trip'[t].here = d /\ trip'[t].target = c
        /\ trip'[t].ins = <<>> /\ trip'[t].cont = k
    BY <1>1, <2>1 DEF TypeOK
  <2>3. TypeOK'
    <3>1. d \in Nat /\ c \in Nat /\ k \in Nat
      BY <1>k DEF Points
    <3>2. [here |-> d, target |-> c, ins |-> <<>>, cont |-> k]
             \in [here : Nat, target : Nat, ins : Seq(Nat), cont : Nat]
      BY <3>1
    <3>3. trip' \in [Threads -> [here : Nat, target : Nat, ins : Seq(Nat), cont : Nat]]
      BY <1>1, <2>1, <3>2 DEF TypeOK
    <3>4. phase' \in [Threads -> {"run", "travel", "end", "error"}]
      BY <1>1, <2>1 DEF TypeOK
    <3>. QED
      BY <1>1, <1>2, <2>1, <3>3, <3>4 DEF TypeOK
  <2>4. Located(t)'
    BY <1>2, <2>1, <2>2 DEF Located, Place
  <2>5. OnStack(t)'
    BY <1>2, <2>c, <2>2 DEF OnStack, Leads
  <2>. QED
    BY <1>1, <1>2, <2>1, <2>3, <2>4, <2>5, ThreadStep DEF TypeOK
<1>6. CASE phase[t] = "travel" /\ Travel(t)
  <2>h. PICK h \in Points : h = trip[t].here
    BY <1>1, <1>6 DEF Located, Place
  <2>g. PICK g \in Points : g = trip[t].target
    BY <1>1, <1>6 DEF OnStack, Leads
  <2>k. PICK k \in DOMAIN conts : k = trip[t].cont
    BY <1>1, <1>6 DEF OnStack
  <2>i. PICK ins \in Seq(Nat) : ins = trip[t].ins
    BY <1>4
  <2>1. active[t] = path[h] /\ handler[t] = point[h].new /\ Leads(ins, g, k)
    BY <1>1, <1>6, <2>h, <2>g, <2>k, <2>i DEF Located, OnStack, Place
  <2>2. h \in Nat /\ g \in Nat /\ k \in Nat /\ Len(ins) \in Nat
    BY <1>k DEF Points
  <2>3. \A q \in Points : path[q] \in Seq(Int) /\ point[q].new \in Nat /\ point[q].depth \in Nat
    <3>1. \A q \in Points : point[q] \in PointRecs /\ path[q] \in Seq(Nat)
      BY <1>1, SMTT(30) DEF TypeOK, Points
    <3>2. \A q \in Points : point[q].new \in Nat /\ point[q].depth \in Nat
      BY <3>1 DEF PointRecs
    <3>. QED
      BY <3>1, <3>2
  <2>4. CASE TravelToParent(t)
    <3>1. g \in Made
      <4>1. point[h].depth < point[g].depth
        BY <2>4, <2>g, <2>h DEF TravelToParent, Deeper, Here, Target
      <4>2. point[g].depth # 0
        BY <2>3, <4>1
      <4>. QED
        BY <1>1, <4>2 DEF Tree, Made, Root
    <3>p. PICK p \in Points : p = point[g].parent
      BY <1>1, <3>1 DEF Tree
    <3>2. /\ trip' = [trip EXCEPT ![t].target = point[@].parent, ![t].ins = Append(@, g)]
          /\ UNCHANGED <<dk, stack, handler, phase, active>>
      BY <2>4, <2>g DEF TravelToParent, Target
    <3>3. /\ trip'[t] = [here |-> h, target |-> p, ins |-> Append(ins, g), cont |-> k]
          /\ trip' = [trip EXCEPT ![t] = trip'[t]]
      BY <1>1, <2>g, <2>h, <2>i, <2>k, <3>2, <3>p, ZenonT(60) DEF TypeOK
    <3>4. /\ Append(ins, g) \in Seq(Nat) /\ Len(Append(ins, g)) = Len(ins) + 1
          /\ \A i \in 1..Len(ins) : Append(ins, g)[i] = ins[i]
          /\ Append(ins, g)[Len(ins) + 1] = g
      BY <2>2, AppendCells
    <3>j. PICK jns \in Seq(Nat) : jns = Append(ins, g)
      BY <3>4
    <3>5. Leads(jns, p, k)
      <4>1. jns # <<>>
        BY <2>2, <3>4, <3>j
      <4>2. jns[1] = conts[k].point
        <5>1. CASE ins = <<>>
          BY <2>1, <3>4, <3>j, <5>1 DEF Leads
        <5>2. CASE ins # <<>>
          <6>1. 1 \in 1..Len(ins)
            BY <2>2, <5>2
          <6>. QED
            BY <2>1, <3>4, <3>j, <5>2, <6>1 DEF Leads
        <5>. QED
          BY <5>1, <5>2
      <4>3. point[jns[Len(jns)]].parent = p
        BY <3>4, <3>j, <3>p
      <4>4. \A i \in 1..Len(jns) : jns[i] \in Made
        BY <2>1, <2>2, <3>1, <3>4, <3>j DEF Leads
      <4>5. ASSUME NEW i \in 1..(Len(jns) - 1) PROVE point[jns[i]].parent = jns[i + 1]
        <5>1. i \in 1..Len(ins) /\ jns[i] = ins[i]
          BY <2>2, <3>4, <3>j
        <5>2. CASE i = Len(ins)
          <6>1. ins # <<>>
            BY <5>1
          <6>. QED
            BY <2>1, <3>4, <3>j, <5>1, <5>2, <6>1 DEF Leads
        <5>3. CASE i < Len(ins)
          <6>1. i \in 1..(Len(ins) - 1) /\ i + 1 \in 1..Len(ins)
            BY <2>2, <5>1, <5>3
          <6>. QED
            BY <2>1, <3>4, <3>j, <5>1, <6>1 DEF Leads
        <5>. QED
          BY <2>2, <5>1, <5>2, <5>3
      <4>. QED
        BY <3>p, <4>1, <4>2, <4>3, <4>4, <4>5 DEF Leads
    <3>6. /\ trip'[t].here = h /\ trip'[t].target = p /\ trip'[t].ins = jns /\ trip'[t].cont = k
          /\ phase'[t] = "travel"
      <4>1. trip'[t] = [here |-> h, target |-> p, ins |-> jns, cont |-> k]
        BY <3>3, <3>j, Zenon
      <4>2. phase'[t] = "travel"
        BY <1>6, <3>2
      <4>. QED
        BY <4>1, <4>2
    <3>7. TypeOK'
      <4>1. p \in Nat
        BY DEF Points
      <4>2. trip'[t] \in [here : Nat, target : Nat, ins : Seq(Nat), cont : Nat]
        BY <2>2, <3>3, <3>4, <4>1
      <4>. HIDE <3>3
      <4>3. trip' \in [Threads -> [here : Nat, target : Nat, ins : Seq(Nat), cont : Nat]]
        BY <1>1, <3>3, <4>2 DEF TypeOK
      <4>. QED
        BY <1>1, <1>2, <3>2, <4>3 DEF TypeOK
    <3>8. Located(t)'
      BY <1>2, <2>1, <3>2, <3>6 DEF Located, Place
    <3>9. OnStack(t)'
      BY <1>2, <1>3, <3>5, <3>6 DEF OnStack
    <3>10. \A u \in Threads : u # t => trip'[u] = trip[u]
      BY <1>1, <3>2 DEF TypeOK
    <3>. QED
      BY <1>2, <3>2, <3>7, <3>8, <3>9, <3>10, ThreadStep
  <2>5. CASE TravelOut(t) /\ h \in Threads
    <3>1. phase' = [phase EXCEPT ![t] = "error"] /\ UNCHANGED <<dk, stack, active, handler, trip>>
      BY <2>5, <2>h DEF TravelOut, Here
    <3>2. phase'[t] = "error"
      BY <1>1, <3>1 DEF TypeOK
    <3>3. TypeOK'
      <4>1. phase' \in [Threads -> {"run", "travel", "end", "error"}]
        BY <1>1, <3>1 DEF TypeOK
      <4>. QED
        BY <1>1, <1>2, <3>1, <4>1 DEF TypeOK
    <3>4. Located(t)' /\ OnStack(t)'
      BY <3>2 DEF Located, OnStack
    <3>5. \A u \in Threads : u # t => phase'[u] = phase[u]
      BY <1>1, <3>1 DEF TypeOK
    <3>. QED
      BY <1>2, <3>1, <3>3, <3>4, <3>5, ThreadStep
  <2>6. CASE TravelOut(t) /\ h \notin Threads
    <3>1. h \in Made
      BY <2>6 DEF Made
    <3>p. PICK p \in Points : p = point[h].parent
      BY <1>1, <3>1 DEF Tree
    <3>2. /\ RunOut(t, h) /\ trip' = [trip EXCEPT ![t].here = point[@].parent]
          /\ UNCHANGED <<dk, stack, phase>>
      BY <2>6, <2>h DEF TravelOut, Here
    <3>3. /\ active' = [active EXCEPT ![t] = path[p]]
          /\ handler' = [handler EXCEPT ![t] = point[p].new]
      BY <2>1, <3>1, <3>2, <3>p, LeavePoint
    <3>4. /\ trip'[t] = [here |-> p, target |-> g, ins |-> ins, cont |-> k]
          /\ \A u \in Threads : u # t => trip'[u] = trip[u]
      BY <1>1, <2>g, <2>h, <2>i, <2>k, <3>2, <3>p DEF TypeOK
    <3>5. /\ trip'[t].here = p /\ trip'[t].target = g /\ trip'[t].ins = ins /\ trip'[t].cont = k
          /\ phase'[t] = "travel" /\ active'[t] = path[p] /\ handler'[t] = point[p].new
      <4>1. active'[t] = path[p] /\ handler'[t] = point[p].new
        BY <1>1, <3>3 DEF TypeOK
      <4>2. trip'[t] = [here |-> p, target |-> g, ins |-> ins, cont |-> k]
        BY <3>4
      <4>. QED
        BY <1>6, <3>2, <4>1, <4>2
    <3>6. TypeOK'
      <4>1. p \in Nat
        BY DEF Points
      <4>2. trip'[t] \in [here : Nat, target : Nat, ins : Seq(Nat), cont : Nat]
        BY <2>2, <3>4, <4>1
      <4>3. trip' \in [Threads -> [here : Nat, target : Nat, ins : Seq(Nat), cont : Nat]]
        BY <1>1, <3>2, <4>1, <3>p, <2>h DEF TypeOK
      <4>4. active' \in [Threads -> Seq(Int)] /\ handler' \in [Threads -> Nat]
        BY <1>1, <2>3, <3>3 DEF TypeOK
      <4>. QED
        BY <1>1, <1>2, <3>2, <4>3, <4>4 DEF TypeOK
    <3>7. Located(t)'
      BY <1>2, <3>5 DEF Located, Place
    <3>8. OnStack(t)'
      BY <1>2, <1>3, <2>1, <3>5 DEF OnStack
    <3>9. \A u \in Threads : u # t => active'[u] = active[u] /\ handler'[u] = handler[u]
      BY <1>1, <3>3 DEF TypeOK
    <3>. QED
      BY <1>2, <3>2, <3>4, <3>6, <3>7, <3>8, <3>9, ThreadStep
  <2>7. CASE TravelIn(t)
    <3>0. h = g /\ ins # <<>>
      BY <2>7, <2>g, <2>h, <2>i DEF TravelIn, Here, Target
    <3>1. h = g /\ ins # <<>> /\ Last(ins) = ins[Len(ins)] /\ Len(ins) \in 1..Len(ins)
      <4>1. Len(ins) \in 1..Len(ins)
        BY <3>0
      <4>2. Last(ins) = ins[Len(ins)]
        BY <3>0, FrontCells, Zenon
      <4>. QED
        BY <3>0, <4>1, <4>2
    <3>q. PICK q \in Made : q = Last(ins) /\ point[q].parent = h
      BY <2>1, <3>1 DEF Leads
    <3>2. /\ RunIn(t, q) /\ UNCHANGED <<dk, stack, phase>>
          /\ trip' = [trip EXCEPT ![t].here = q, ![t].target = q, ![t].ins = Front(@)]
      BY <2>7, <2>i, <3>q DEF TravelIn
    <3>3. /\ q \in Points /\ q \in Nat /\ path[q] = Append(path[h], q)
          /\ point[q].old = point[h].new
          /\ ~point[q].sets => point[q].new = point[q].old
      <4>1. q \in Points /\ q \in Nat
        BY DEF Made, Points
      <4>. QED
        BY <1>1, <3>q, <4>1, Zenon DEF Tree
    <3>4. active' = [active EXCEPT ![t] = path[q]]
      BY <2>1, <3>2, <3>3 DEF RunIn
    <3>5. handler' = [handler EXCEPT ![t] = point[q].new]
      <4>1. handler' = IF point[q].sets THEN [handler EXCEPT ![t] = point[q].new] ELSE handler
        BY <1>2, <3>2 DEF RunIn
      <4>2. CASE point[q].sets
        BY <4>1, <4>2, Zenon
      <4>3. CASE ~point[q].sets
        <5>1. handler' = handler /\ handler[t] = point[q].new
          BY <2>1, <3>3, <4>1, <4>3, Zenon
        <5>. QED
          BY <1>1, <5>1 DEF TypeOK
      <4>. QED
        BY <4>2, <4>3
    <3>j. PICK jns \in Seq(Nat) :
            /\ jns = Front(ins) /\ Len(jns) = Len(ins) - 1
            /\ \A i \in 1..(Len(ins) - 1) : jns[i] = ins[i]
      BY <3>1, FrontCells
    <3>6. /\ trip'[t] = [here |-> q, target |-> q, ins |-> jns, cont |-> k]
          /\ \A u \in Threads : u # t => trip'[u] = trip[u]
      <4>1. trip[t].ins = ins /\ trip[t].cont = k
        BY <2>i, <2>k
      <4>2. trip'[t] = [here |-> q, target |-> q, ins |-> Front(ins), cont |-> k]
        BY <1>1, <3>2, <4>1 DEF TypeOK
      <4>3. \A u \in Threads : u # t => trip'[u] = trip[u]
        BY <1>1, <3>2 DEF TypeOK
      <4>. QED
        BY <3>j, <4>2, <4>3, Zenon
    <3>7. Leads(jns, q, k)
      <4>1. ASSUME jns = <<>> PROVE q = conts[k].point
        <5>1. Len(ins) = 1
          BY <2>2, <3>j, <4>1
        <5>. QED
          BY <2>1, <3>1, <3>q, <5>1 DEF Leads
      <4>2. ASSUME jns # <<>>
            PROVE  jns[1] = conts[k].point /\ point[jns[Len(jns)]].parent = q
        <5>1. 1 \in 1..(Len(ins) - 1) /\ Len(ins) - 1 \in 1..(Len(ins) - 1)
          BY <2>2, <3>1, <3>j, <4>2
        <5>2. point[ins[Len(ins) - 1]].parent = ins[Len(ins) - 1 + 1]
          BY <2>1, <5>1 DEF Leads
        <5>3. Len(ins) - 1 + 1 = Len(ins)
          BY <2>2
        <5>. QED
          BY <2>1, <3>1, <3>j, <3>q, <5>1, <5>2, <5>3 DEF Leads
      <4>3. \A i \in 1..Len(jns) : jns[i] \in Made
        <5>1. \A i \in 1..Len(jns) : i \in 1..Len(ins) /\ jns[i] = ins[i]
          <6>1. Len(ins) \in Nat /\ Len(jns) = Len(ins) - 1
            BY <2>2, <3>j
          <6>2. \A i \in 1..Len(jns) : i \in 1..(Len(ins) - 1) /\ i \in 1..Len(ins)
            BY <6>1
          <6>. QED
            BY <3>j, <6>2, Zenon
        <5>. QED
          BY <2>1, <5>1 DEF Leads
      <4>4. ASSUME NEW i \in 1..(Len(jns) - 1) PROVE point[jns[i]].parent = jns[i + 1]
        <5>1. i \in 1..(Len(ins) - 1) /\ i + 1 \in 1..(Len(ins) - 1)
          BY <2>2, <3>j
        <5>. QED
          BY <2>1, <3>j, <5>1 DEF Leads
      <4>. QED
        BY <3>3, <4>1, <4>2, <4>3, <4>4 DEF Leads
    <3>8. /\ trip'[t].here = q /\ trip'[t].target = q /\ trip'[t].ins = jns /\ trip'[t].cont = k
          /\ phase'[t] = "travel" /\ active'[t] = path[q] /\ handler'[t] = point[q].new
      <4>1. active'[t] = path[q] /\ handler'[t] = point[q].new
        BY <1>1, <3>4, <3>5 DEF TypeOK
      <4>2. trip'[t] = [here |-> q, target |-> q, ins |-> jns, cont |-> k]
        BY <3>6
      <4>3. phase'[t] = "travel"
        BY <1>6, <3>2
      <4>. QED
        BY <4>1, <4>2, <4>3
    <3>9. TypeOK'
      <4>1. trip' \in [Threads -> [here : Nat, target : Nat, ins : Seq(Nat), cont : Nat]]
        <5>1. trip'[t] \in [here : Nat, target : Nat, ins : Seq(Nat), cont : Nat]
          BY <2>2, <3>3, <3>6
        <5>2. trip' = [u \in Threads |-> trip'[u]]
          BY <1>1, <3>2 DEF TypeOK
        <5>3. \A u \in Threads : trip'[u] \in [here : Nat, target : Nat, ins : Seq(Nat), cont : Nat]
          BY <1>1, <3>6, <5>1, Zenon DEF TypeOK
        <5>. QED
          BY <5>2, <5>3, Zenon
      <4>2. active' \in [Threads -> Seq(Int)] /\ handler' \in [Threads -> Nat]
        BY <1>1, <2>3, <3>3, <3>4, <3>5 DEF TypeOK
      <4>. QED
        BY <1>1, <1>2, <3>2, <4>1, <4>2 DEF TypeOK
    <3>10. Located(t)'
      BY <1>2, <3>3, <3>8 DEF Located, Place
    <3>11. OnStack(t)'
      BY <1>2, <1>3, <3>7, <3>8 DEF OnStack
    <3>12. \A u \in Threads : u # t => active'[u] = active[u] /\ handler'[u] = handler[u]
      BY <1>1, <3>4, <3>5 DEF TypeOK
    <3>. QED
      BY <1>2, <3>2, <3>6, <3>9, <3>10, <3>11, <3>12, ThreadStep
  <2>8. CASE Arrive(t)
    <3>1. h = g /\ ins = <<>> /\ h = conts[k].point
      BY <2>1, <2>8, <2>g, <2>h, <2>i DEF Arrive, Here, Target, Leads
    <3>s. PICK s : s = conts[k].stack
      OBVIOUS
    <3>2. Matches(s, h)
      BY <3>1, <3>s DEF Inv
    <3>3. /\ dk' = [dk EXCEPT ![t] = h] /\ stack' = [stack EXCEPT ![t] = s]
          /\ phase' = [phase EXCEPT ![t] = "run"] /\ trip' = [trip EXCEPT ![t] = NoTrip]
          /\ UNCHANGED <<handler, active>>
      BY <2>8, <2>k, <3>1, <3>s DEF Arrive
    <3>4. dk'[t] = h /\ stack'[t] = s /\ phase'[t] = "run"
      BY <1>1, <3>3 DEF TypeOK
    <3>5. TypeOK'
      <4>1. s \in Seq(Frames)
        <5>1. PICK S : S = [stack : Seq(Frames), point : Nat, thread : Threads]
          OBVIOUS
        <5>2. conts \in Seq(S)
          BY <1>1, <5>1, Zenon DEF TypeOK
        <5>3. conts[k] \in S
          BY <5>2
        <5>. QED
          BY <3>s, <5>1, <5>3
      <4>2. NoTrip \in [here : Nat, target : Nat, ins : Seq(Nat), cont : Nat]
        BY DEF NoTrip
      <4>3. dk' \in [Threads -> 1..Len(point)] /\ stack' \in [Threads -> Seq(Frames)]
        BY <1>1, <3>3, <4>1 DEF TypeOK, Points
      <4>4. trip' \in [Threads -> [here : Nat, target : Nat, ins : Seq(Nat), cont : Nat]]
        BY <1>1, <3>3, <4>2 DEF TypeOK
      <4>5. phase' \in [Threads -> {"run", "travel", "end", "error"}]
        BY <1>1, <3>3 DEF TypeOK
      <4>. QED
        BY <1>1, <1>2, <3>3, <4>3, <4>4, <4>5 DEF TypeOK
    <3>6. Located(t)'
      BY <1>2, <2>1, <3>3, <3>4 DEF Located, Place
    <3>7. OnStack(t)'
      <4>1. Matches(stack[t], dk[t])'
        BY <1>2, <3>2, <3>4
      <4>. QED
        BY <3>4, <4>1 DEF OnStack
    <3>8. \A u \in Threads : u # t =>
            stack'[u] = stack[u] /\ dk'[u] = dk[u] /\ phase'[u] = phase[u] /\ trip'[u] = trip[u]
      BY <1>1, <3>3 DEF TypeOK
    <3>. QED
      BY <1>2, <3>3, <3>5, <3>6, <3>7, <3>8, ThreadStep
  <2>. QED
    BY <1>6, <2>4, <2>5, <2>6, <2>7, <2>8 DEF Travel
<1>7. Travel(t) => phase[t] = "travel"
  BY DEF Travel, TravelToParent, TravelOut, TravelIn, Arrive
<1>. QED
  BY <1>5, <1>6, <1>7

-----------------------------------------------------------------------------
(* The theorems.                                                           *)

\* No extent is entered yet.
LEMMA InitInv == Init => Inv
<1>. SUFFICES ASSUME Init PROVE Inv
  OBVIOUS
<1>n. PICK n \in Nat : n = NumThreads /\ n > 0
  BY WindingAssumption
<1>1. Len(point) = n /\ Len(path) = n /\ Points = Threads /\ Made = {}
  BY <1>n DEF Init, Points, Made, Threads
<1>2. TypeOK
  <2>1. Root \in PointRecs
    BY DEF Root, PointRecs, NoHandler
  <2>2. point = [t \in 1..n |-> Root] /\ path = [t \in 1..n |-> <<>>]
    BY <1>n DEF Init, Threads
  <2>3. point \in Seq(PointRecs)
    BY <2>1, <2>2
  <2>4. path \in Seq(Seq(Nat))
    BY <2>2
  <2>5. conts \in Seq([stack : Seq(Frames), point : Nat, thread : Threads])
    BY DEF Init
  <2>6. trip \in [Threads -> [here : Nat, target : Nat, ins : Seq(Nat), cont : Nat]]
    BY DEF Init, NoTrip
  <2>7. dk \in [Threads -> 1..Len(point)]
    BY <1>1, <1>n DEF Init, Threads
  <2>8. /\ stack \in [Threads -> Seq(Frames)] /\ handler \in [Threads -> Nat]
        /\ phase \in [Threads -> {"run", "travel", "end", "error"}]
        /\ active \in [Threads -> Seq(Int)]
    BY DEF Init, NoHandler
  <2>9. Len(path) = Len(point) /\ Len(point) >= NumThreads
    BY <1>1, <1>n
  <2>. QED
    BY <2>3, <2>4, <2>5, <2>6, <2>7, <2>8, <2>9 DEF TypeOK
<1>3. Tree /\ \A q \in Points : Chain(q) /\ Outward(q)
  BY <1>1 DEF Init, Tree, Chain, Outward, Around, Root
<1>4. \A t \in Threads : Located(t) /\ OnStack(t)
  BY <1>1 DEF Init, Located, OnStack, Place, Matches, Root
<1>5. \A k \in DOMAIN conts : Matches(conts[k].stack, conts[k].point)
  BY DEF Init
<1>. QED
  BY <1>2, <1>3, <1>4, <1>5 DEF Inv

\* An exception that nothing handles ends the thread where it is.
LEMMA UncaughtInv ==
  ASSUME Inv, NEW t \in Threads, Uncaught(t)
  PROVE  Inv'
<1>1. TypeOK /\ phase[t] = "run" /\ Located(t) /\ OnStack(t)
  BY DEF Inv, Uncaught, Running
<1>2. /\ point' = point /\ path' = path /\ conts' = conts
      /\ phase' = [phase EXCEPT ![t] = "end"]
      /\ UNCHANGED <<dk, stack, handler, trip, active>>
  BY DEF Uncaught
<1>3. phase'[t] = "end" /\ \A u \in Threads : u # t => phase'[u] = phase[u]
  BY <1>1, <1>2 DEF TypeOK
<1>4. TypeOK'
  <2>1. phase' \in [Threads -> {"run", "travel", "end", "error"}]
    BY <1>1, <1>2 DEF TypeOK
  <2>. QED
    BY <1>1, <1>2, <2>1 DEF TypeOK
<1>5. Points' = Points /\ \A s, q : Matches(s, q) => Matches(s, q)'
  BY <1>2, SamePoints
<1>6. Located(t)'
  BY <1>1, <1>2, <1>3, <1>5 DEF Located, Place
<1>7. OnStack(t)'
  <2>1. Matches(stack[t], dk[t])'
    BY <1>1, <1>2, <1>5 DEF OnStack
  <2>. QED
    BY <1>3, <2>1 DEF OnStack
<1>. QED
  BY <1>2, <1>3, <1>4, <1>6, <1>7, ThreadStep

\* The invariant is inductive.
LEMMA NextInv == Inv /\ [Next]_vars => Inv'
<1>1. ASSUME Inv, Next PROVE Inv'
  BY <1>1, CallsInv, UncaughtInv, ReturnInv, CallCCInv, TravelInv DEF Next
<1>2. ASSUME Inv, UNCHANGED vars PROVE Inv'
  <2>1. /\ UNCHANGED <<point, path, conts>>
        /\ UNCHANGED <<dk, stack, handler, phase, trip, active>>
    BY <1>2 DEF vars
  <2>2. PICK t \in Threads : TRUE
    BY WindingAssumption DEF Threads
  <2>3. TypeOK'
    BY <1>2, <2>1 DEF Inv, TypeOK
  <2>4. Located(t) /\ OnStack(t)
    BY <1>2 DEF Inv
  <2>5. /\ Points' = Points /\ Made' = Made
        /\ \A s, q : Matches(s, q) => Matches(s, q)'
    BY <2>1, SamePoints
  <2>6. Located(t)'
    BY <2>1, <2>4, <2>5 DEF Located, Place
  <2>7. \A ins, target, k : Leads(ins, target, k) => Leads(ins, target, k)'
    BY <2>1, <2>5 DEF Leads
  <2>8. OnStack(t)'
    BY <2>1, <2>4, <2>5, <2>7 DEF OnStack
  <2>. QED
    BY <1>2, <2>1, <2>3, <2>6, <2>8, ThreadStep
<1>. QED
  BY <1>1, <1>2

\* In every behaviour the invariant holds.
LEMMA InvHolds == Spec => []Inv
BY InitInv, NextInv, PTL DEF Spec

\* dynamic-wind and continuations, for any number of threads, extents and
\* continuations: a thread that runs is in the extents on its stack, in that
\* order, and %dk is the innermost of them.
THEOREM ExtentsOnStack == Spec => []ExtentsMatchStack
<1>1. Inv => ExtentsMatchStack
  <2>. SUFFICES ASSUME Inv, NEW t \in Threads, phase[t] \in {"run", "end"}
                PROVE  /\ active[t] = [i \in DOMAIN stack[t] |-> stack[t][i].point]
                       /\ dk[t] \in IF stack[t] = <<>> THEN Threads ELSE {Last(active[t])}
    BY DEF ExtentsMatchStack
  <2>1. TypeOK /\ Tree
    BY DEF Inv
  <2>q. PICK q \in Points : q = dk[t]
    BY RunningThread
  <2>2. path[q] \in Seq(Nat) /\ active[t] = path[q] /\ Matches(stack[t], q)
    BY <2>q, RunningThread
  <2>3. stack[t] \in Seq(Frames)
    BY <2>1 DEF TypeOK
  <2>4. active[t] = [i \in DOMAIN stack[t] |-> stack[t][i].point]
    <3>1. DOMAIN stack[t] = 1..Len(stack[t]) /\ DOMAIN path[q] = 1..Len(path[q])
      BY <2>2, <2>3
    <3>2. DOMAIN path[q] = DOMAIN stack[t]
          /\ \A i \in DOMAIN stack[t] : path[q][i] = stack[t][i].point
      BY <2>2, <3>1 DEF Matches
    <3>3. path[q] = [i \in DOMAIN path[q] |-> path[q][i]]
      BY <2>2
    <3>. QED
      BY <2>2, <3>2, <3>3, Zenon
  <2>5. CASE q \in Threads
    <3>1. Len(stack[t]) = 0
      BY <2>1, <2>2, <2>5 DEF Matches, Tree
    <3>. QED
      BY <2>3, <2>4, <2>5, <2>q, <3>1
  <2>6. CASE q \in Made
    <3>1. PICK p \in Points : path[q] = Append(path[p], q)
      BY <2>1, <2>6 DEF Tree
    <3>2. path[p] \in Seq(Nat) /\ q \in Nat
      BY <2>1 DEF TypeOK, Points
    <3>3. path[q] # <<>> /\ Last(path[q]) = q
      BY <3>1, <3>2, FrontOfAppend
    <3>4. stack[t] # <<>>
      <4>1. Len(path[q]) # 0
        BY <2>2, <3>3
      <4>. QED
        BY <2>2, <4>1 DEF Matches
    <3>. QED
      BY <2>2, <2>4, <2>q, <3>3, <3>4
  <2>. QED
    BY <2>5, <2>6 DEF Made
<1>. QED
  BY <1>1, InvHolds, PTL

\* Exception handlers, however they are installed, left and raised in: the one
\* in force belongs to an extent the thread is in, and is not itself running.
THEOREM HandlersGoOutward == Spec => []HandlerInForce
<1>1. Inv => HandlerInForce
  <2>. SUFFICES ASSUME Inv, NEW t \in Threads, Running(t), handler[t] # NoHandler
                PROVE  /\ handler[t] \in ToSet(active[t])
                       /\ \A q \in ToSet(active[t]) : point[q].runs # handler[t]
    BY DEF HandlerInForce
  <2>1. phase[t] = "run" /\ TypeOK
    BY DEF Running, Inv
  <2>q. PICK q \in Points : q = dk[t]
    BY <2>1, RunningThread
  <2>2. /\ path[q] \in Seq(Nat) /\ active[t] = path[q] /\ handler[t] = point[q].new
        /\ Outward(q)
    BY <2>1, <2>q, RunningThread DEF Inv
  <2>3. ToSet(active[t]) = Around(q)
    BY <2>2 DEF ToSet, Around
  <2>4. handler[t] \in Around(q)
    BY <2>2 DEF Outward
  <2>5. ASSUME NEW r \in Around(q), point[r].runs = handler[t] PROVE FALSE
    <3>1. handler[t] \in Nat /\ r \in Nat
      BY <2>1, AroundPoints DEF TypeOK
    <3>2. point[r].runs < r /\ (handler[t] > r \/ handler[t] < point[r].runs)
      BY <2>2, <2>5 DEF Outward
    <3>. QED
      BY <2>5, <3>1, <3>2
  <2>. QED
    BY <2>3, <2>4, <2>5
<1>. QED
  BY <1>1, InvHolds, PTL

-----------------------------------------------------------------------------
(* Extents nest.                                                           *)

\* What a step may do to the extents that thread u is in.
Nested(u) ==
  \/ active'[u] = active[u]
  \/ active[u] # <<>> /\ active'[u] = Front(active[u])
  \/ /\ active'[u] = Append(active[u], Last(active'[u])) /\ Last(active'[u]) > 0
     /\ point'[Last(active'[u])].parent
          \in IF active[u] = <<>> THEN Threads ELSE {Last(active[u])}

\* The innermost extent around a point is the point, and a root is in none.
LEMMA InnermostAround ==
  ASSUME TypeOK, Tree, NEW q \in Points
  PROVE  q \in IF path[q] = <<>> THEN Threads ELSE {Last(path[q])}
<1>1. CASE q \in Threads
  BY <1>1 DEF Tree
<1>2. CASE q \in Made
  <2>1. PICK p \in Points : path[q] = Append(path[p], q)
    BY <1>2 DEF Tree
  <2>2. path[p] \in Seq(Nat) /\ q \in Nat
    BY DEF TypeOK, Points
  <2>3. path[q] # <<>> /\ Last(path[q]) = q
    BY <2>1, <2>2, FrontOfAppend, ZenonT(60)
  <2>. QED
    BY <2>3
<1>. QED
  BY <1>1, <1>2 DEF Made

\* The in thunk of q is called where its parent is the innermost extent.
LEMMA InNests ==
  ASSUME TypeOK, Tree, NEW t \in Threads, NEW p \in Points, NEW q \in Nat \ {0},
         active[t] = path[p], active' = [active EXCEPT ![t] = Append(@, q)],
         point'[q].parent = p
  PROVE  \A u \in Threads : Nested(u)
<1>1. path[p] \in Seq(Nat)
  BY DEF TypeOK, Points
<1>2. active'[t] = Append(path[p], q) /\ \A u \in Threads : u # t => active'[u] = active[u]
  BY DEF TypeOK
<1>3. Last(active'[t]) = q
  BY <1>1, <1>2, FrontOfAppend
<1>4. p \in IF active[t] = <<>> THEN Threads ELSE {Last(active[t])}
  BY InnermostAround
<1>5. active'[t] = Append(active[t], Last(active'[t])) /\ Last(active'[t]) > 0
  BY <1>2, <1>3
<1>6. Nested(t)
  BY <1>3, <1>4, <1>5, Zenon DEF Nested
<1>. QED
  BY <1>2, <1>6 DEF Nested

\* The out thunk of q is called where q is the innermost extent.
LEMMA OutNests ==
  ASSUME Inv, NEW t \in Threads, NEW q \in Made, active[t] = path[q], handler[t] = point[q].new,
         RunOut(t, q)
  PROVE  \A u \in Threads : Nested(u)
<1>1. TypeOK /\ Tree
  BY DEF Inv
<1>p. PICK p \in Points : p = point[q].parent /\ path[q] = Append(path[p], q)
  BY <1>1 DEF Tree
<1>2. path[p] \in Seq(Nat) /\ q \in Nat
  BY <1>1 DEF TypeOK, Points, Made
<1>3. active' = [active EXCEPT ![t] = path[p]]
  BY <1>p, LeavePoint
<1>4. active'[t] = path[p] /\ \A u \in Threads : u # t => active'[u] = active[u]
  BY <1>1, <1>3 DEF TypeOK
<1>5. active[t] # <<>> /\ Front(active[t]) = path[p]
  <2>1. Append(path[p], q) # <<>> /\ Front(Append(path[p], q)) = path[p]
    BY <1>2, FrontOfAppend
  <2>. QED
    BY <1>p, <2>1
<1>. QED
  BY <1>4, <1>5 DEF Nested

\* dynamic-wind enters a new extent, in the one where the thread is.
LEMMA EnterNests ==
  ASSUME Inv, NEW t \in Threads, NEW sets, NEW new, NEW runs, Enter(t, sets, new, runs)
  PROVE  \A u \in Threads : Nested(u)
<1>1. TypeOK /\ Tree /\ phase[t] = "run"
  BY DEF Inv, Enter, Running
<1>p. PICK p \in Points : p = dk[t]
  BY <1>1, RunningThread
<1>q. PICK q \in Nat \ {0} : q = Len(point) + 1
  BY <1>1 DEF TypeOK
<1>2. active[t] = path[p]
  BY <1>1, <1>p, RunningThread
<1>. DEFINE rec == [depth |-> point[p].depth + 1, parent |-> p, sets |-> sets, new |-> new,
                    old |-> handler[t], runs |-> runs]
<1>3. point' = Append(point, rec) /\ active' = [active EXCEPT ![t] = Append(@, q)]
  BY <1>p, <1>q DEF Enter, RunIn
<1>4. point'[q].parent = p
  <2>1. point \in Seq(PointRecs) /\ rec.parent = p
    BY <1>1 DEF TypeOK
  <2>. HIDE DEF rec
  <2>2. Append(point, rec)[Len(point) + 1] = rec
    BY <2>1
  <2>. QED
    BY <1>3, <1>q, <2>1, <2>2
<1>. QED
  BY <1>1, <1>2, <1>3, <1>4, InNests

\* The body of a dynamic-wind returns from the innermost extent.
LEMMA ReturnNests ==
  ASSUME Inv, NEW t \in Threads, Return(t)
  PROVE  \A u \in Threads : Nested(u)
<1>1. TypeOK /\ Tree /\ phase[t] = "run"
  BY DEF Inv, Return, Running
<1>q. PICK q \in Points : q = dk[t]
  BY <1>1, RunningThread
<1>2. /\ path[q] \in Seq(Nat) /\ active[t] = path[q] /\ handler[t] = point[q].new
      /\ Matches(stack[t], q)
  BY <1>1, <1>q, RunningThread
<1>3. stack[t] \in Seq(Frames) /\ stack[t] # <<>>
  BY <1>1 DEF TypeOK, Return
<1>4. Len(stack[t]) \in Nat \ {0} /\ Last(stack[t]) = stack[t][Len(stack[t])]
  BY <1>3, FrontCells
<1>5. Len(path[q]) = Len(stack[t]) /\ path[q][Len(path[q])] = Last(stack[t]).point
  BY <1>2, <1>4 DEF Matches
<1>6. q \in Made
  <2>1. q \notin Threads
    BY <1>1, <1>4, <1>5 DEF Tree
  <2>. QED
    BY <2>1 DEF Made
<1>7. Last(stack[t]).point = q
  <2>1. PICK p \in Points : path[q] = Append(path[p], q)
    BY <1>1, <1>6 DEF Tree
  <2>2. path[p] \in Seq(Nat) /\ q \in Nat
    BY <1>1 DEF TypeOK, Points
  <2>3. path[q][Len(path[q])] = q
    BY <2>1, <2>2, AppendCells
  <2>. QED
    BY <1>5, <2>3
<1>. QED
  BY <1>2, <1>6, <1>7, OutNests DEF Return

\* A continuation leaves the innermost extent or enters one inside of it.
LEMMA TravelNests ==
  ASSUME Inv, NEW t \in Threads, Travel(t)
  PROVE  \A u \in Threads : Nested(u)
<1>1. TypeOK /\ Tree /\ phase[t] = "travel" /\ Located(t) /\ OnStack(t)
  BY DEF Inv, Travel, TravelToParent, TravelOut, TravelIn, Arrive
<1>h. PICK h \in Points : h = trip[t].here
  BY <1>1 DEF Located, Place
<1>2. active[t] = path[h] /\ handler[t] = point[h].new
  BY <1>1, <1>h DEF Located, Place
<1>3. CASE TravelToParent(t) \/ Arrive(t) \/ (TravelOut(t) /\ h \in Threads)
  BY <1>3, <1>h DEF TravelToParent, Arrive, TravelOut, Here, Nested
<1>4. CASE TravelOut(t) /\ h \notin Threads
  BY <1>2, <1>4, <1>h, OutNests DEF TravelOut, Here, Made
<1>5. CASE TravelIn(t)
  <2>i. PICK ins \in Seq(Nat) : ins = trip[t].ins
    <3>1. trip[t] \in [here : Nat, target : Nat, ins : Seq(Nat), cont : Nat]
      BY <1>1 DEF TypeOK
    <3>. QED
      BY <3>1
  <2>1. /\ h = trip[t].target /\ ins # <<>> /\ RunIn(t, Last(ins)) /\ point' = point
        /\ Leads(ins, h, trip[t].cont)
    BY <1>1, <1>5, <1>h, <2>i DEF TravelIn, Here, Target, OnStack
  <2>2. Len(ins) \in 1..Len(ins) /\ Last(ins) = ins[Len(ins)]
    <3>1. Len(ins) \in 1..Len(ins)
      BY <2>1
    <3>2. Last(ins) = ins[Len(ins)]
      BY <2>1, FrontCells, Zenon
    <3>. QED
      BY <3>1, <3>2
  <2>q. PICK q \in Made : q = Last(ins) /\ point[q].parent = h
    BY <2>1, <2>2 DEF Leads
  <2>3. q \in Nat \ {0}
    BY DEF Made, Points
  <2>4. active' = [active EXCEPT ![t] = Append(@, q)]
    BY <2>1, <2>q DEF RunIn
  <2>. QED
    BY <1>1, <1>2, <2>1, <2>3, <2>4, <2>q, InNests
<1>. QED
  BY <1>3, <1>4, <1>5 DEF Travel

\* dynamic-wind and travel-to-point!, however continuations jump between
\* extents and threads: an out thunk is called only when its extent is the
\* innermost, an in thunk only when the extent's parent is.
THEOREM ExtentsAlwaysNest == Spec => ExtentsNest
<1>1. ASSUME Inv, Next PROVE \A u \in Threads : Nested(u)
  <2>. PICK t \in Threads :
         \/ DynamicWind(t) \/ WithExceptionHandler(t) \/ Raise(t) \/ Uncaught(t) \/ Return(t)
         \/ CallCC(t) \/ (\E k \in DOMAIN conts : Throw(t, k)) \/ Travel(t)
    BY <1>1 DEF Next
  <2>1. CASE DynamicWind(t) \/ WithExceptionHandler(t) \/ Raise(t)
    BY <1>1, <2>1, EnterNests DEF DynamicWind, WithExceptionHandler, Raise
  <2>2. CASE Uncaught(t) \/ CallCC(t) \/ (\E k \in DOMAIN conts : Throw(t, k))
    BY <2>2 DEF Uncaught, CallCC, Throw, Nested
  <2>. QED
    BY <1>1, <2>1, <2>2, ReturnNests, TravelNests
<1>2. Inv /\ [Next]_vars =>
        [\A t \in Threads :
           \/ active'[t] = active[t]
           \/ active[t] # <<>> /\ active'[t] = Front(active[t])
           \/ /\ active'[t] = Append(active[t], Last(active'[t])) /\ Last(active'[t]) > 0
              /\ point'[Last(active'[t])].parent
                   \in IF active[t] = <<>> THEN Threads ELSE {Last(active[t])}]_vars
  BY <1>1, Zenon DEF Nested
<1>. QED
  BY <1>2, InvHolds, PTL DEF Spec, ExtentsNest
=============================================================================
