------------------------- MODULE FileLibraryProofs --------------------------
(***************************************************************************)
(* What the library keeps, for any tree to start with, any clients and     *)
(* requests, any tapes and any names.                                      *)
(***************************************************************************)
EXTENDS LibraryTrim, FiniteSetTheorems, SequenceTheorems, WellFoundedInduction, TLAPS

(* Induction, as statements about sets of natural numbers. *)
LEMMA LeastNat ==
    ASSUME NEW T \in SUBSET Nat, T # {}
    PROVE  \E x \in T : \A y \in T : x <= y
  <1> DEFINE R == OpToRel(<, Nat)
  <1>1. IsWellFoundedOn(R, Nat)
    BY NatLessThanWellFounded
  <1> HIDE DEF R
  <1>2. \E x \in T : \A y \in T : ~(<<y, x>> \in R)
    BY <1>1, WFMin
  <1>3. PICK x \in T : \A y \in T : ~(<<y, x>> \in R)
    BY <1>2
  <1>4. \A y \in T : y < x => <<y, x>> \in R
    BY DEF R, OpToRel
  <1>5. \A y \in T : ~(y < x)
    BY <1>3, <1>4
  <1> QED
    BY <1>5

LEMMA UpTo ==
    ASSUME NEW N \in Nat, NEW S, 0 \in S, \A n \in 0..N : n \in S /\ n < N => n + 1 \in S
    PROVE  0..N \subseteq S
  <1> DEFINE T == (0..N) \ S
  <1>1. SUFFICES ASSUME T # {} PROVE FALSE
    OBVIOUS
  <1>0. T \in SUBSET Nat
    OBVIOUS
  <1>2. PICK x \in T : \A y \in T : x <= y
    BY <1>0, <1>1, LeastNat
  <1>3. x # 0 /\ x - 1 \in 0..N /\ x - 1 < N /\ x - 1 \notin T
    BY <1>2
  <1>4. (x - 1) + 1 \in S
    BY <1>3
  <1> QED
    BY <1>4

(* A function that takes one step after another exists. *)
Iterates(g, start, F, N) == g = [n \in 0..N |-> IF n = 0 THEN start ELSE F[g[n - 1]]]

LEMMA Iteration ==
    ASSUME NEW X, NEW start \in X, NEW F \in [X -> X], NEW N \in Nat
    PROVE  \E g \in [0..N -> X] : Iterates(g, start, F, N)
  <1> DEFINE Runs(m, g) == g = [n \in 0..m |-> IF n = 0 THEN start ELSE F[g[n - 1]]]
             S == {m \in 0..N : \E g \in [0..m -> X] : Runs(m, g)}
  <1>1. 0 \in S
    <2> DEFINE g == [n \in 0..0 |-> start]
    <2>1. g \in [0..0 -> X] /\ Runs(0, g)
      OBVIOUS
    <2> HIDE DEF g, Runs
    <2> QED
      BY <2>1
  <1>2. ASSUME NEW m \in 0..N, m \in S, m < N
        PROVE  m + 1 \in S
    <2>1. PICK g \in [0..m -> X] : Runs(m, g)
      BY <1>2
    <2> DEFINE h == [n \in 0..(m + 1) |-> IF n <= m THEN g[n] ELSE F[g[m]]]
    <2>2. h \in [0..(m + 1) -> X]
      OBVIOUS
    <2>3. ASSUME NEW n \in 0..(m + 1)
          PROVE  h[n] = IF n = 0 THEN start ELSE F[h[n - 1]]
      <3>1. CASE n = 0
        BY <3>1, <2>1
      <3>2. CASE n > 0 /\ n <= m
        <4>1. h[n] = g[n] /\ h[n - 1] = g[n - 1]
          BY <3>2
        <4>2. g[n] = F[g[n - 1]]
          BY <2>1, <3>2
        <4> QED
          BY <4>1, <4>2, <3>2
      <3>3. CASE n = m + 1
        BY <3>3
      <3> QED
        BY <3>1, <3>2, <3>3
    <2>4. Runs(m + 1, h)
      BY <2>3
    <2> HIDE DEF h, Runs
    <2> QED
      BY <2>2, <2>4, <1>2
  <1> HIDE DEF S
  <1>3. N \in S
    BY <1>1, <1>2, UpTo
  <1> QED
    BY <1>3 DEF S, Iterates
-----------------------------------------------------------------------------
(* Tables of rows, and which ids are directories in them. *)
Rows == [parent : Int, name : Nat, dir : BOOLEAN, sign : Nat]
Tables(R) == UNION {[S -> R] : S \in SUBSET Int}
Kinded(table, kind) == \A id \in DOMAIN table : id \in DOMAIN kind /\ table[id].dir = kind[id]

LEMMA TableIs ==
    ASSUME NEW R, NEW t
    PROVE  t \in Tables(R) <=> /\ t = [i \in DOMAIN t |-> t[i]]
                               /\ DOMAIN t \subseteq Int
                               /\ \A i \in DOMAIN t : t[i] \in R
  <1>1. ASSUME t \in Tables(R)
        PROVE  t = [i \in DOMAIN t |-> t[i]] /\ DOMAIN t \subseteq Int /\ \A i \in DOMAIN t : t[i] \in R
    <2>1. PICK S \in SUBSET Int : t \in [S -> R]
      BY <1>1 DEF Tables
    <2> QED
      BY <2>1
  <1>2. ASSUME t = [i \in DOMAIN t |-> t[i]], DOMAIN t \subseteq Int, \A i \in DOMAIN t : t[i] \in R
        PROVE  t \in Tables(R)
    <2>1. t \in [DOMAIN t -> R]
      BY <1>2
    <2> QED
      BY <1>2, <2>1 DEF Tables
  <1> QED
    BY <1>1, <1>2

LEMMA WithIn ==
    ASSUME NEW R, NEW t \in Tables(R), NEW id \in Int, NEW r \in R
    PROVE  With(t, id, r) \in Tables(R)
  <1> DEFINE w == With(t, id, r)
  <1>1. w = [i \in DOMAIN w |-> w[i]]
    BY DEF With
  <1>2. DOMAIN w = DOMAIN t \cup {id} /\ w[id] = r /\ \A i \in DOMAIN t : i # id => w[i] = t[i]
    BY DEF With
  <1>3. DOMAIN t \subseteq Int /\ \A i \in DOMAIN t : t[i] \in R
    BY TableIs
  <1> HIDE DEF w
  <1>5. DOMAIN w \subseteq Int /\ \A i \in DOMAIN w : w[i] \in R
    BY <1>2, <1>3
  <1>4. w \in Tables(R)
    BY <1>1, <1>5, TableIs
  <1> QED
    BY <1>4 DEF w

LEMMA WithoutIs ==
    ASSUME NEW t, NEW gone
    PROVE  /\ DOMAIN Without(t, gone) = DOMAIN t \ gone
           /\ \A i \in DOMAIN Without(t, gone) : Without(t, gone)[i] = t[i]
  BY DEF Without

LEMMA WithoutIn ==
    ASSUME NEW R, NEW t \in Tables(R), NEW gone
    PROVE  Without(t, gone) \in Tables(R)
  <1> DEFINE w == Without(t, gone)
  <1>1. w = [i \in DOMAIN w |-> w[i]]
    BY DEF Without
  <1>2. DOMAIN w = DOMAIN t \ gone /\ \A i \in DOMAIN w : w[i] = t[i]
    BY WithoutIs
  <1>3. DOMAIN t \subseteq Int /\ \A i \in DOMAIN t : t[i] \in R
    BY TableIs
  <1> HIDE DEF w
  <1>5. DOMAIN w \subseteq Int /\ \A i \in DOMAIN w : w[i] \in R
    BY <1>2, <1>3
  <1>4. w \in Tables(R)
    BY <1>1, <1>5, TableIs
  <1> QED
    BY <1>4 DEF w

(* What moveFile holds while it runs: rows of kinds it was given, and every  *)
(* file that is to be kept.                                                  *)
Plain(ids, kind) == \A id \in ids : id \in DOMAIN kind /\ ~kind[id]

MoveCalls(kind) ==
    {call \in [at : {"name", "children"}, id : Int, row : Rows, left : Tables(Rows)] :
        /\ call.id \in DOMAIN kind /\ call.row.dir = kind[call.id]
        /\ call.at = "children" => call.row.dir
        /\ Kinded(call.left, kind)}

Movings(kind, kept) ==
    {s \in [ok : BOOLEAN, files : Tables(Rows), calls : Seq(MoveCalls(kind))] :
        Kinded(s.files, kind) /\ kept \subseteq DOMAIN s.files}

LEMMA ContentsOf ==
    ASSUME NEW t \in Tables(Rows), NEW id, NEW parent \in Int
    PROVE  /\ Contents(t, id, parent) \in Tables(Rows)
           /\ \A kind : Kinded(t, kind) => Kinded(Contents(t, id, parent), kind)
  <1> DEFINE C == Contents(t, id, parent)
  <1>1. DOMAIN t \subseteq Int /\ \A i \in DOMAIN t : t[i] \in Rows
    BY TableIs
  <1>2. DOMAIN C \subseteq DOMAIN t /\ \A i \in DOMAIN C : C[i] = [t[i] EXCEPT !.parent = parent]
    BY DEF Contents
  <1>3. \A i \in DOMAIN C : C[i] \in Rows /\ C[i].dir = t[i].dir
    BY <1>1, <1>2 DEF Rows
  <1>4. C = [i \in DOMAIN C |-> C[i]]
    BY DEF Contents
  <1>5. C \in Tables(Rows)
    <2> HIDE DEF C
    <2> QED
      BY <1>1, <1>2, <1>3, <1>4, TableIs
  <1> QED
    BY <1>2, <1>3, <1>5 DEF Kinded

LEMMA LeastName ==
    ASSUME NEW t \in Tables(Rows), DOMAIN t # {}
    PROVE  \E c \in DOMAIN t : \A d \in DOMAIN t : t[c].name <= t[d].name
  <1> DEFINE T == {t[c].name : c \in DOMAIN t}
  <1>0. \A c \in DOMAIN t : t[c] \in Rows
    BY TableIs
  <1>1. T \in SUBSET Nat /\ T # {}
    BY <1>0 DEF Rows
  <1>2. PICK x \in T : \A y \in T : x <= y
    BY <1>1, LeastNat
  <1>3. PICK c \in DOMAIN t : x = t[c].name
    BY <1>2
  <1>4. \A d \in DOMAIN t : t[d].name \in T
    OBVIOUS
  <1> QED
    BY <1>2, <1>3, <1>4

LEMMA MoveStepKeeps ==
    ASSUME NEW kind, NEW kept, NEW s \in Movings(kind, kept),
           Plain(kept, kind)
    PROVE  MoveStep(s) \in Movings(kind, kept)
  <1> DEFINE call == Head(s.calls)
             outer == Tail(s.calls)
             there == getByName(s.files, call.row.parent, call.row.name)
             origin == CHOOSE o \in there : TRUE
             child == CHOOSE c \in DOMAIN call.left :
                         \A d \in DOMAIN call.left : call.left[c].name <= call.left[d].name
  <1>1. /\ s \in [ok : BOOLEAN, files : Tables(Rows), calls : Seq(MoveCalls(kind))]
        /\ Kinded(s.files, kind) /\ kept \subseteq DOMAIN s.files
    BY DEF Movings
  <1>2. CASE ~s.ok \/ s.calls = <<>>
    BY <1>2 DEF MoveStep
  <1>3. CASE s.ok /\ s.calls # <<>>
    <2>1. call \in MoveCalls(kind) /\ outer \in Seq(MoveCalls(kind))
      BY <1>1, <1>3
    <2>2. /\ call \in [at : {"name", "children"}, id : Int, row : Rows, left : Tables(Rows)]
          /\ call.id \in DOMAIN kind /\ call.row.dir = kind[call.id]
          /\ call.at = "children" => call.row.dir
          /\ Kinded(call.left, kind)
      BY <2>1 DEF MoveCalls
    <2> DEFINE table == s.files
               id == call.id
               row == call.row
    <2>0. table \in Tables(Rows)
      BY <1>1
    <2> HIDE DEF call, outer, there, origin, child, table, id, row
    <2>9. id \in Int /\ row \in Rows
      BY <2>2 DEF id, row
    <2>10. call.left \in Tables(Rows)
      BY <2>2
    <2>3. there \subseteq DOMAIN s.files
      BY DEF there, getByName
    <2>4. CASE call.at = "name" /\ there = {}
      <3> DEFINE f == With(table, id, row)
      <3>1. MoveStep(s) = [s EXCEPT !.files = f, !.calls = outer]
        BY <1>3, <2>4 DEF MoveStep, call, outer, there, table, id, row
      <3>2. DOMAIN f = DOMAIN table \cup {id} /\ f[id] = row /\ \A i \in DOMAIN table : i # id => f[i] = table[i]
        BY DEF With
      <3>4. f \in Tables(Rows)
        BY <2>0, <2>9, WithIn
      <3> HIDE DEF f
      <3>3. Kinded(f, kind)
        BY <1>1, <2>2, <3>2 DEF Kinded, table, id, row
      <3> QED
        BY <1>1, <2>1, <3>1, <3>2, <3>3, <3>4 DEF Movings, table
    <2>5. CASE call.at = "name" /\ there # {} /\ s.files[origin].dir /\ call.row.dir
      <3> DEFINE left == Contents(s.files, call.id, origin)
                 next == Merges(call.id, call.row, left)
      <3>1. MoveStep(s) = [s EXCEPT !.calls = <<next>> \o outer]
        BY <1>3, <2>5 DEF MoveStep, call, outer, there, origin
      <3>2. origin \in DOMAIN s.files
        BY <2>3, <2>5 DEF origin
      <3>3. origin \in Int
        BY <1>1, <3>2, TableIs
      <3>4. left \in Tables(Rows) /\ Kinded(left, kind)
        BY <1>1, <3>3, ContentsOf
      <3>5. next \in MoveCalls(kind)
        <4> HIDE DEF left
        <4> QED
          BY <1>1, <2>2, <2>5, <3>4 DEF MoveCalls, Merges
      <3> HIDE DEF next
      <3>6. <<next>> \o outer \in Seq(MoveCalls(kind))
        BY <2>1, <3>5
      <3> QED
        BY <1>1, <3>1, <3>6 DEF Movings
    <2>6. CASE call.at = "name" /\ there # {} /\ ~(s.files[origin].dir /\ call.row.dir)
      <3>1. MoveStep(s) = [s EXCEPT !.ok = FALSE]
        BY <1>3, <2>6 DEF MoveStep, call, there, origin
      <3> QED
        BY <1>1, <3>1 DEF Movings
    <2>7. CASE call.at = "children" /\ DOMAIN call.left = {}
      <3> DEFINE f == Without(table, {id})
      <3>1. MoveStep(s) = [s EXCEPT !.files = f, !.calls = outer]
        BY <1>3, <2>7 DEF MoveStep, call, outer, table, id
      <3>2. /\ f \in Tables(Rows) /\ DOMAIN f = DOMAIN table \ {id}
            /\ \A i \in DOMAIN f : f[i] = table[i]
        BY <2>0, WithoutIs, WithoutIn
      <3> HIDE DEF f
      <3>3. Kinded(f, kind)
        BY <1>1, <3>2 DEF Kinded, table
      <3>4. call.id \notin kept
        BY <2>2, <2>7 DEF Plain
      <3> QED
        BY <1>1, <2>1, <3>1, <3>2, <3>3, <3>4 DEF Movings, table, id
    <2>8. CASE call.at = "children" /\ DOMAIN call.left # {}
      <3> DEFINE look == Looks(child, call.left[child])
                 rest == Merges(call.id, call.row, Without(call.left, {child}))
      <3>1. MoveStep(s) = [s EXCEPT !.calls = <<look, rest>> \o outer]
        BY <1>3, <2>8 DEF MoveStep, call, outer, child
      <3>2. child \in DOMAIN call.left
        BY <2>2, <2>8, LeastName DEF child
      <3>3. child \in Int /\ call.left[child] \in Rows /\ child \in DOMAIN kind /\ call.left[child].dir = kind[child]
        BY <2>2, <3>2, TableIs DEF Kinded
      <3>4. look \in MoveCalls(kind)
        <4>1. <<>> \in Tables(Rows) /\ Kinded(<<>>, kind)
          BY <<>> \in [{} -> Rows] DEF Kinded, Tables
        <4> QED
          BY <3>3, <4>1 DEF MoveCalls, Looks
      <3>5. rest \in MoveCalls(kind)
        <4> DEFINE w == Without(call.left, {child})
        <4>1. /\ w \in Tables(Rows) /\ DOMAIN w = DOMAIN call.left \ {child}
              /\ \A i \in DOMAIN w : w[i] = call.left[i]
          BY <2>10, WithoutIs, WithoutIn
        <4>2. Kinded(w, kind)
          BY <2>2, <4>1 DEF Kinded
        <4> HIDE DEF w
        <4>3. Merges(call.id, call.row, w) \in MoveCalls(kind)
          BY <2>2, <2>8, <4>1, <4>2 DEF MoveCalls, Merges
        <4> QED
          BY <4>3 DEF w
      <3> HIDE DEF look, rest
      <3>6. <<look, rest>> \o outer \in Seq(MoveCalls(kind))
        BY <2>1, <3>4, <3>5
      <3> QED
        BY <1>1, <3>1, <3>6 DEF Movings
    <2> QED
      BY <2>2, <2>4, <2>5, <2>6, <2>7, <2>8
  <1> QED
    BY <1>1, <1>2, <1>3

(* A move ends with rows of kinds it was given, and every file that is to be *)
(* kept, whether it ends well or not.                                        *)
LEMMA MoveKeeps ==
    ASSUME NEW kind, NEW kept, Plain(kept, kind),
           NEW table \in Tables(Rows), IsFiniteSet(DOMAIN table), Kinded(table, kind), kept \subseteq DOMAIN table,
           NEW id \in Int, NEW row \in Rows, id \in DOMAIN kind, row.dir = kind[id]
    PROVE  /\ moveFile(table, id, row).files \in Tables(Rows)
           /\ Kinded(moveFile(table, id, row).files, kind)
           /\ kept \subseteq DOMAIN moveFile(table, id, row).files
  <1> DEFINE N == MaxSteps(table)
             start == [ok |-> TRUE, files |-> table, calls |-> <<Looks(id, row)>>]
             Runs(run) == run = [n \in 0..N |-> IF n = 0 THEN {start} ELSE {MoveStep(s) : s \in run[n - 1]}]
             run == CHOOSE run : Runs(run)
             end == CHOOSE s \in run[N] : TRUE
             X == {{s} : s \in Movings(kind, kept)}
             F == [T \in X |-> {MoveStep(s) : s \in T}]
             first == {start}
  <1>1. N \in Nat
    BY FS_CardinalityType DEF MaxSteps
  <1>2. start \in Movings(kind, kept)
    <2>1. <<>> \in Tables(Rows) /\ Kinded(<<>>, kind)
      BY <<>> \in [{} -> Rows] DEF Kinded, Tables
    <2> DEFINE call == Looks(id, row)
    <2>2. call \in MoveCalls(kind)
      BY <2>1 DEF MoveCalls, Looks
    <2> HIDE DEF call
    <2>3. <<call>> \in Seq(MoveCalls(kind))
      BY <2>2
    <2> QED
      BY <2>3 DEF Movings, call
  <1>3. \A T \in X : {MoveStep(s) : s \in T} \in X
    <2> TAKE T \in X
    <2>1. PICK s \in Movings(kind, kept) : T = {s}
      OBVIOUS
    <2>2. MoveStep(s) \in Movings(kind, kept)
      BY MoveStepKeeps
    <2>3. {MoveStep(r) : r \in T} = {MoveStep(s)}
      BY <2>1
    <2> QED
      BY <2>2, <2>3
  <1>4. {start} \in X
    BY <1>2
  <1>5. F \in [X -> X]
    BY <1>3
  <1> HIDE DEF N, start, X
  <1>6. \E r : Runs(r)
    <2>1. PICK g \in [0..N -> X] : Iterates(g, first, F, N)
      <3> HIDE DEF F, first
      <3>1. first \in X
        BY <1>4 DEF first
      <3> QED
        BY <1>1, <1>5, <3>1, Iteration
    <2>2. \A n \in 0..N : n # 0 => F[g[n - 1]] = {MoveStep(s) : s \in g[n - 1]}
      BY <1>1
    <2>3. Runs(g)
      BY <2>1, <2>2 DEF Iterates
    <2> HIDE DEF Runs
    <2> QED
      BY <2>3
  <1>7. Runs(run)
    <2> HIDE DEF Runs
    <2> QED
      BY <1>6
  <1> HIDE DEF run
  <1>8. run[0] = {start} /\ \A n \in 0..N : n < N => run[n + 1] = {MoveStep(s) : s \in run[n]}
    BY <1>1, <1>7
  <1>9. run[N] \in X
    <2> DEFINE S == {n \in 0..N : run[n] \in X}
    <2>0. run[0] = {start} /\ 0 \in 0..N
      BY <1>1, <1>8
    <2>1. 0 \in S
      BY <1>4, <2>0
    <2>2. \A n \in 0..N : n \in S /\ n < N => n + 1 \in S
      BY <1>1, <1>3, <1>8
    <2> HIDE DEF S
    <2>3. 0..N \subseteq S
      BY <1>1, <2>1, <2>2, UpTo
    <2> QED
      BY <1>1, <2>3 DEF S
  <1>10. end \in Movings(kind, kept)
    BY <1>9 DEF X
  <1>11. moveFile(table, id, row) = IF end.ok /\ end.calls = <<>> THEN Done(end.files) ELSE Fails(table)
    BY DEF moveFile, run, end, N, start
  <1> HIDE DEF end
  <1>12. moveFile(table, id, row).files = end.files \/ moveFile(table, id, row).files = table
    BY <1>11 DEF Done, Fails
  <1> QED
    BY <1>10, <1>12 DEF Movings

(* What is below a directory is in the table, and what is found empty has no *)
(* plain file below it.                                                      *)
LEMMA GenerationsBelow ==
    ASSUME NEW table, IsFiniteSet(DOMAIN table), NEW current
    PROVE  /\ Generations(table, current).ids \subseteq current \cup DOMAIN table
           /\ Generations(table, current).empty =>
                \A id \in Generations(table, current).ids \ current : table[id].dir
  <1> DEFINE N == Cardinality(DOMAIN table)
             Next(T) == UNION {{id \in DOMAIN table : table[id].parent = p} : p \in T}
             Runs(run) == run = [n \in 0..N |-> IF n = 0 THEN current ELSE Next(run[n - 1])]
             run == CHOOSE run : Runs(run)
             below == UNION {run[n] : n \in 1..N}
             X == SUBSET (current \cup DOMAIN table)
             F == [T \in X |-> Next(T)]
  <1>1. N \in Nat
    BY FS_CardinalityType
  <1>2. \A T : Next(T) \subseteq DOMAIN table
    OBVIOUS
  <1> HIDE DEF N, Next
  <1>3. F \in [X -> X]
    BY <1>2
  <1>4. \E r : Runs(r)
    <2>1. PICK g \in [0..N -> X] : Iterates(g, current, F, N)
      <3>1. current \in X
        OBVIOUS
      <3> HIDE DEF F, X
      <3> QED
        BY <1>1, <1>3, <3>1, Iteration
    <2>2. \A n \in 0..N : n # 0 => F[g[n - 1]] = Next(g[n - 1])
      BY <1>1
    <2>3. Runs(g)
      BY <2>1, <2>2 DEF Iterates
    <2> HIDE DEF Runs
    <2> QED
      BY <2>3
  <1>5. Runs(run)
    <2> HIDE DEF Runs
    <2> QED
      BY <1>4
  <1>6. Generations(table, current) = [empty |-> \A id \in below : table[id].dir, ids |-> current \cup below]
    BY DEF Generations, below, run, N, Next
  <1> HIDE DEF run
  <1>7. below \subseteq DOMAIN table
    BY <1>1, <1>2, <1>5
  <1> HIDE DEF below
  <1> QED
    BY <1>6, <1>7
-----------------------------------------------------------------------------
(* What requests hold while they run. *)
Posis == [tape : Int, path : Nat, sign : Nat, file : Int]

Waits == [pc : {"idle", "read", "scan"}]
Movers == [pc : {"move"}, id : Int, row : Rows]
Intos == [pc : {"into"}, id : Int, row : Rows, name : Nat]
Mkdirs == {r \in [pc : {"mkdir"}, at : Int, path : Seq(Nat)] : r.path # <<>>}
Deletes ==
    {r \in [pc : {"look", "put"}, rows : Tables(Rows), left : SUBSET Int, doomed : SUBSET Int,
            trash : Seq(Int), dir : Int] :
        /\ r.left \subseteq DOMAIN r.rows
        /\ \A k \in DOMAIN r.trash : r.trash[k] \in DOMAIN r.rows
        /\ r.pc = "put" => r.trash # <<>>}
Matches == [pc : {"match"}, batch : Tables(Posis)]
Links ==
    {r \in [pc : {"link"}, batch : Tables(Posis), found : Tables(Int)] : DOMAIN r.found \subseteq DOMAIN r.batch}
Creates == [pc : {"create"}, batch : Tables(Posis), tapes : Tables(Nat)]
News ==
    {r \in [pc : {"new"}, batch : Tables(Posis), tapes : Tables(Nat), p : Int, dir : Int] : r.p \in DOMAIN r.batch}
Trims == [pc : {"drop", "dropfiles"}, ids : SUBSET Int]

Requests ==
    Waits \cup Movers \cup Intos \cup Mkdirs \cup Deletes \cup Matches \cup Links \cup Creates \cup News \cup Trims

LEMMA RequestIs ==
    ASSUME NEW r \in Requests
    PROVE  /\ r.pc = "move" => r \in Movers
           /\ r.pc = "into" => r \in Intos
           /\ r.pc = "mkdir" => r \in Mkdirs
           /\ r.pc \in {"look", "put"} => r \in Deletes
           /\ r.pc = "match" => r \in Matches
           /\ r.pc = "link" => r \in Links
           /\ r.pc = "create" => r \in Creates
           /\ r.pc = "new" => r \in News
           /\ r.pc \in {"drop", "dropfiles"} => r \in Trims
  BY DEF Requests, Waits, Movers, Intos, Mkdirs, Deletes, Matches, Links, Creates, News, Trims

TreeTyped ==
    /\ files \in Tables(Rows) /\ made \in Nat /\ DOMAIN files \subseteq Ids
    /\ second \in DOMAIN Stamps
    /\ request \in [Clients -> Requests]

TapesTyped ==
    /\ tapes \in Tables(Nat) /\ tapesMade \in Nat
    /\ positions \in Tables(Posis) /\ posMade \in Nat

(* An id is that of a directory or of a plain file once and for all: every   *)
(* row anybody holds says the same, and what is doomed is a directory.       *)
Holds(r, kind) ==
    /\ r.pc \in {"move", "into"} => r.id \in DOMAIN kind /\ r.row.dir = kind[r.id]
    /\ r.pc \in {"look", "put"} => /\ Kinded(r.rows, kind)
                                   /\ \A id \in r.doomed : id \in DOMAIN kind /\ kind[id]

Tells(kind) ==
    /\ kind \in [Ids -> BOOLEAN] /\ kind[TrashFileID]
    /\ Kinded(files, kind)
    /\ \A c \in Clients : Holds(request[c], kind)

KindsStay == \E kind : Tells(kind)

LibraryInv == TreeTyped /\ TapesTyped /\ KindsStay

(* A position is on one tape, whoever remembers it, and the tape of one that *)
(* is about to be dropped has gone; ids of tapes do not come again.          *)
Placed(table, tapeOf) == \A p \in DOMAIN table : p \in DOMAIN tapeOf /\ table[p].tape = tapeOf[p]

Recalls(r, tapeOf) ==
    /\ r.pc \in {"match", "link", "create", "new"} => Placed(r.batch, tapeOf)
    /\ r.pc = "drop" => \A p \in r.ids : p \in DOMAIN tapeOf /\ tapeOf[p] \notin DOMAIN tapes

Places(tapeOf) ==
    /\ tapeOf \in [1..posMade -> 1..tapesMade]
    /\ DOMAIN tapes \subseteq 1..tapesMade
    /\ Placed(positions, tapeOf)
    /\ \A c \in Clients : Recalls(request[c], tapeOf)

TapesStay == \E tapeOf : Places(tapeOf)
-----------------------------------------------------------------------------
LEMMA FiniteBound ==
    ASSUME NEW S, IsFiniteSet(S), S \subseteq Int
    PROVE  \E b \in Nat : \A y \in S : y <= b
  <1>1. PICK n \in Nat : ExistsSurjection(1..n, S)
    BY FS_NatSurjection
  <1>2. PICK f \in [1..n -> S] : \A y \in S : \E i \in 1..n : f[i] = y
    BY <1>1 DEF ExistsSurjection, Surjection
  <1>0. \A i \in 1..n : f[i] \in Int
    BY <1>2
  <1> DEFINE T == {m \in 0..n : \E b \in Nat : \A i \in 1..m : f[i] <= b}
  <1>3. 0 \in T
    OBVIOUS
  <1>4. ASSUME NEW m \in 0..n, m \in T, m < n
        PROVE  m + 1 \in T
    <2>1. PICK b \in Nat : \A i \in 1..m : f[i] <= b
      BY <1>4
    <2> DEFINE x == f[m + 1]
               d == IF x <= b THEN b ELSE x
    <2>2. x \in Int
      BY <1>0, <1>4
    <2>3. d \in Nat /\ b <= d /\ x <= d
      BY <2>2
    <2>4. \A i \in 1..m : f[i] \in Int
      BY <1>0
    <2> HIDE DEF d
    <2>5. \A i \in 1..m : f[i] <= d
      BY <2>1, <2>3, <2>4
    <2>6. \A i \in 1..(m + 1) : i \in 1..m \/ i = m + 1
      OBVIOUS
    <2>7. \A i \in 1..(m + 1) : f[i] <= d
      BY <2>3, <2>5, <2>6
    <2> QED
      BY <1>4, <2>3, <2>7
  <1> HIDE DEF T
  <1>8. 0..n \subseteq T
    BY <1>3, <1>4, UpTo
  <1>5. n \in T
    BY <1>8
  <1>6. PICK b \in Nat : \A i \in 1..n : f[i] <= b
    BY <1>5 DEF T
  <1>7. \A y \in S : y <= b
    BY <1>2, <1>6
  <1> QED
    BY <1>7

LEMMA MaxIs ==
    ASSUME NEW S, IsFiniteSet(S), S \subseteq Int, 0 \in S
    PROVE  Max(S) \in Nat /\ \A y \in S : y <= Max(S)
  <1> DEFINE B == {b \in Nat : \A y \in S : y <= b}
  <1>1. B \in SUBSET Nat /\ B # {}
    BY FiniteBound
  <1>2. PICK b \in B : \A d \in B : b <= d
    BY <1>1, LeastNat
  <1>3. b \in S
    <2>1. SUFFICES ASSUME b \notin S PROVE FALSE
      OBVIOUS
    <2>2. b # 0 /\ b - 1 \in Nat
      BY <2>1
    <2>3. \A y \in S : y <= b - 1
      BY <2>1
    <2>4. b - 1 \in B
      BY <2>2, <2>3
    <2> QED
      BY <1>2, <2>4
  <1>4. b \in Nat /\ \A y \in S : y \in Int /\ b >= y
    BY <1>2
  <1>5. \E x \in S : \A y \in S : x >= y
    BY <1>3, <1>4
  <1>6. Max(S) \in S /\ \A y \in S : Max(S) >= y
    BY <1>5 DEF Max
  <1> DEFINE max == Max(S)
  <1> HIDE DEF max
  <1>7. max \in S /\ \A y \in S : max >= y
    BY <1>6 DEF max
  <1>8. max \in Nat /\ \A y \in S : y <= max
    BY <1>3, <1>4, <1>7
  <1> QED
    BY <1>8 DEF max

LEMMA MinIs ==
    ASSUME NEW S, S \subseteq Ids, S # {}
    PROVE  Min(S) \in S
  <1> DEFINE T == {y + 1 : y \in S}
  <1>1. \A y \in S : y \in Int /\ y >= -1
    BY DEF Ids, TrashFileID
  <1>2. T \in SUBSET Nat /\ T # {}
    BY <1>1
  <1>3. PICK x \in T : \A y \in T : x <= y
    BY <1>2, LeastNat
  <1>4. PICK m \in S : x = m + 1
    BY <1>3
  <1>5. \A y \in S : y + 1 \in T
    OBVIOUS
  <1>6. \A y \in S : m =< y
    <2> TAKE y \in S
    <2>1. x <= y + 1 /\ y \in Int /\ m \in Int
      BY <1>1, <1>3, <1>5
    <2> QED
      BY <1>4, <2>1
  <1>7. \E a \in S : \A y \in S : a =< y
    BY <1>6
  <1> QED
    BY <1>7 DEF Min

LEMMA LibraryStarts == TrimInit => LibraryInv /\ TapesStay
  <1> SUFFICES ASSUME TrimInit PROVE LibraryInv /\ TapesStay
    OBVIOUS
  <1>1. /\ files \in InitialTrees /\ made = Max(DOMAIN files \cup {0}) /\ second = 1
        /\ request = [c \in Clients |-> Idle]
        /\ tapes = <<>> /\ tapesMade = 0 /\ positions = <<>> /\ posMade = 0
    BY DEF TrimInit, TreeInit
  <1>2. IsLibrary(files)
    BY <1>1, LibraryAssumption
  <1> DEFINE S == DOMAIN files \cup {0}
  <1>3. IsFiniteSet(S) /\ S \subseteq Int /\ 0 \in S
    BY <1>2, FS_AddElement DEF IsLibrary, TrashFileID
  <1>4. Max(S) \in Nat /\ \A y \in S : y <= Max(S)
    <2> HIDE DEF S
    <2> QED
      BY <1>3, MaxIs
  <1>12. made \in Nat /\ \A y \in DOMAIN files : y <= made
    <2> HIDE DEF S
    <2> QED
      BY <1>1, <1>4 DEF S
  <1>5. made \in Nat /\ DOMAIN files \subseteq Ids
    BY <1>2, <1>12 DEF IsLibrary, Ids, Root
  <1>6. files \in Tables(Rows)
    BY <1>2, <1>3 DEF IsLibrary, Tables, Rows
  <1>7. Idle \in Requests /\ Idle.pc = "idle"
    BY DEF Idle, Requests, Waits
  <1>8. TreeTyped
    BY <1>1, <1>5, <1>6, <1>7, LibraryAssumption DEF TreeTyped
  <1>9. TapesTyped
    BY <1>1, <<>> \in [{} -> Nat], <<>> \in [{} -> Posis] DEF TapesTyped, Tables
  <1>10. KindsStay
    <2> DEFINE kind == [id \in Ids |-> IF id \in DOMAIN files THEN files[id].dir ELSE TRUE]
    <2>0. \A id \in DOMAIN files : files[id] \in Rows
      BY <1>6, TableIs
    <2>1. \A id \in DOMAIN files : files[id].dir \in BOOLEAN
      BY <2>0 DEF Rows
    <2>2. kind \in [Ids -> BOOLEAN] /\ kind[TrashFileID]
      BY <1>2, <2>1 DEF IsLibrary, Ids
    <2>3. Kinded(files, kind)
      BY <1>5 DEF Kinded
    <2>4. \A c \in Clients : Holds(request[c], kind)
      BY <1>1, <1>7 DEF Holds
    <2> HIDE DEF kind
    <2> QED
      BY <2>2, <2>3, <2>4 DEF KindsStay, Tells
  <1>11. TapesStay
    <2> DEFINE tapeOf == [p \in 1..0 |-> p]
    <2>1. tapeOf \in [1..posMade -> 1..tapesMade]
      BY <1>1
    <2>2. \A c \in Clients : Recalls(request[c], tapeOf)
      BY <1>1, <1>7 DEF Recalls
    <2>3. Places(tapeOf)
      BY <1>1, <2>1, <2>2 DEF Places, Placed
    <2> QED
      BY <2>3 DEF TapesStay
  <1> QED
    BY <1>8, <1>9, <1>10, <1>11 DEF LibraryInv
-----------------------------------------------------------------------------
(* A handler goes on, and the others stay where they are. *)
LEMMA OthersStay ==
    ASSUME request \in [Clients -> Requests], NEW c \in Clients, NEW to \in Requests, Goes(c, to)
    PROVE  /\ request' \in [Clients -> Requests]
           /\ request'[c] = to
           /\ \A d \in Clients : d # c => request'[d] = request[d]
  BY DEF Goes

(* The table changes, and says the same of every id. *)
LEMMA TreeStays ==
    ASSUME TreeTyped, NEW kind, Tells(kind), NEW c \in Clients, NEW to \in Requests, Goes(c, to), Holds(to, kind),
           files' \in Tables(Rows), Kinded(files', kind), made' = made, second' = second
    PROVE  TreeTyped' /\ KindsStay'
  <1>1. /\ request' \in [Clients -> Requests] /\ request'[c] = to
        /\ \A d \in Clients : d # c => request'[d] = request[d]
    BY OthersStay DEF TreeTyped
  <1>2. Ids' = Ids
    BY DEF Ids
  <1>3. DOMAIN files' \subseteq Ids
    BY DEF Tells, Kinded
  <1>4. \A d \in Clients : Holds(request'[d], kind)
    BY <1>1 DEF Tells
  <1>5. Tells(kind)'
    BY <1>2, <1>4 DEF Tells
  <1>6. TreeTyped'
    BY <1>1, <1>2, <1>3 DEF TreeTyped
  <1> QED
    BY <1>5, <1>6 DEF KindsStay

LEMMA FilesUnchanged ==
    ASSUME TreeTyped, NEW kind, Tells(kind), NEW c \in Clients, NEW to \in Requests, Goes(c, to), Holds(to, kind),
           UNCHANGED <<files, made, second>>
    PROVE  TreeTyped' /\ KindsStay'
  <1>1. files' \in Tables(Rows) /\ Kinded(files', kind)
    BY DEF TreeTyped, Tells
  <1> QED
    BY <1>1, TreeStays

(* A row gets a new id. *)
LEMMA TreeGrows ==
    ASSUME TreeTyped, NEW kind, Tells(kind), NEW c \in Clients, NEW to \in Requests, Goes(c, to), Holds(to, kind),
           NEW table \in Tables(Rows), Kinded(table, kind), NEW row \in Rows,
           files' = With(table, made + 1, row), made' = made + 1, second' = second
    PROVE  TreeTyped' /\ KindsStay'
  <1> DEFINE new == made + 1
  <1>0. PICK more : more = [id \in Ids \cup {new} |-> IF id = new THEN row.dir ELSE kind[id]]
    OBVIOUS
  <1>1. /\ request' \in [Clients -> Requests] /\ request'[c] = to
        /\ \A d \in Clients : d # c => request'[d] = request[d]
    BY OthersStay DEF TreeTyped
  <1>2. made \in Nat /\ new \notin Ids /\ Ids' = Ids \cup {new} /\ new \in Int /\ TrashFileID \in Ids
    BY DEF Ids, TreeTyped, TrashFileID
  <1>3. /\ more \in [Ids' -> BOOLEAN] /\ DOMAIN more = Ids \cup {new} /\ more[new] = row.dir
        /\ \A id \in Ids : more[id] = kind[id]
        /\ DOMAIN kind = Ids
    BY <1>0, <1>2 DEF Rows, Tells
  <1>4. \A t : Kinded(t, kind) => Kinded(t, more)
    BY <1>3 DEF Kinded
  <1>5. \A r : Holds(r, kind) => Holds(r, more)
    BY <1>3, <1>4 DEF Holds
  <1>6. \A d \in Clients : Holds(request'[d], more)
    BY <1>1, <1>5 DEF Tells
  <1>7. DOMAIN files' = DOMAIN table \cup {new} /\ files'[new] = row /\ \A i \in DOMAIN table : i # new => files'[i] = table[i]
    BY DEF With
  <1>8. Kinded(files', more)
    BY <1>3, <1>4, <1>7 DEF Kinded
  <1>9. files' \in Tables(Rows)
    BY <1>2, WithIn
  <1>12. more[TrashFileID]
    BY <1>2, <1>3 DEF Tells
  <1>10. Tells(more)'
    BY <1>3, <1>6, <1>8, <1>12 DEF Tells
  <1>11. TreeTyped'
    BY <1>1, <1>2, <1>3, <1>8, <1>9 DEF TreeTyped, Kinded
  <1> QED
    BY <1>10, <1>11 DEF KindsStay

(* The same for what is remembered of tapes. *)
LEMMA TapesUnchanged ==
    ASSUME TreeTyped, TapesTyped, NEW tapeOf, Places(tapeOf),
           NEW c \in Clients, NEW to \in Requests, Goes(c, to), Recalls(to, tapeOf),
           UNCHANGED tapeVars
    PROVE  TapesTyped' /\ TapesStay'
  <1>1. /\ request' \in [Clients -> Requests] /\ request'[c] = to
        /\ \A d \in Clients : d # c => request'[d] = request[d]
    BY OthersStay DEF TreeTyped
  <1>2. UNCHANGED <<tapes, tapesMade, positions, posMade>>
    BY DEF tapeVars
  <1>3. \A d \in Clients : Recalls(request'[d], tapeOf)
    BY <1>1 DEF Places
  <1>4. \A r : Recalls(r, tapeOf) => Recalls(r, tapeOf)'
    BY <1>2 DEF Recalls
  <1>5. Places(tapeOf)'
    BY <1>2, <1>3 DEF Places, Recalls
  <1> QED
    BY <1>2, <1>5 DEF TapesTyped, TapesStay

(* Plain files stay in the table. *)
PlainStay == \A id \in DOMAIN files : ~files[id].dir => id \in DOMAIN files'

Good == TreeTyped' /\ KindsStay' /\ TapesTyped' /\ TapesStay' /\ PlainStay

(* The handlers that write no row. *)
LEMMA OnlyGoes ==
    ASSUME TreeTyped, TapesTyped, NEW kind, Tells(kind), NEW tapeOf, Places(tapeOf),
           NEW c \in Clients, NEW to \in Requests, Goes(c, to), Holds(to, kind), Recalls(to, tapeOf),
           UNCHANGED <<files, made, second, tapeVars>>
    PROVE  Good
  BY FilesUnchanged, TapesUnchanged DEF Good, PlainStay

LEMMA IdleIs == Idle \in Requests /\ Idle.pc = "idle"
  BY DEF Idle, Requests, Waits

LEMMA RowOf ==
    ASSUME TreeTyped, NEW kind, Tells(kind), NEW id \in DOMAIN files
    PROVE  /\ files[id] \in Rows /\ id \in Int /\ id \in Ids
           /\ id \in DOMAIN kind /\ files[id].dir = kind[id]
  BY TableIs DEF TreeTyped, Tells, Kinded

LEMMA EditGetGood ==
    ASSUME TreeTyped, TapesTyped, NEW kind, Tells(kind), NEW tapeOf, Places(tapeOf),
           NEW c \in Clients, NEW id, NEW parent \in Targets, EditGet(c, id, parent), UNCHANGED tapeVars
    PROVE  Good
  <1> DEFINE row == [files[id] EXCEPT !.parent = parent]
             to == [pc |-> "move", id |-> id, row |-> row]
  <1>1. /\ id \in DOMAIN files /\ Goes(c, to) /\ UNCHANGED <<files, made, second>>
    BY DEF EditGet, Starts
  <1>2. parent \in Int
    BY DEF Targets, Root, TreeTyped
  <1>3. files[id] \in Rows /\ id \in Int /\ id \in DOMAIN kind /\ files[id].dir = kind[id]
    BY <1>1, RowOf
  <1>4. row \in Rows /\ row.dir = kind[id]
    BY <1>2, <1>3 DEF Rows
  <1> HIDE DEF row
  <1>5. to \in Requests /\ Holds(to, kind) /\ Recalls(to, tapeOf)
    BY <1>3, <1>4 DEF Requests, Movers, Holds, Recalls
  <1> HIDE DEF to
  <1> QED
    BY <1>1, <1>5, OnlyGoes

LEMMA EditNameGood ==
    ASSUME TreeTyped, TapesTyped, NEW kind, Tells(kind), NEW tapeOf, Places(tapeOf),
           NEW c \in Clients, NEW id, NEW name \in Names, EditName(c, id, name), UNCHANGED tapeVars
    PROVE  Good
  <1> DEFINE row == [files[id] EXCEPT !.name = name]
             to == [pc |-> "move", id |-> id, row |-> row]
  <1>1. /\ id \in DOMAIN files /\ Goes(c, to) /\ UNCHANGED <<files, made, second>>
    BY DEF EditName, Starts
  <1>2. name \in Nat
    BY LibraryAssumption
  <1>3. files[id] \in Rows /\ id \in Int /\ id \in DOMAIN kind /\ files[id].dir = kind[id]
    BY <1>1, RowOf
  <1>4. row \in Rows /\ row.dir = kind[id]
    BY <1>2, <1>3 DEF Rows
  <1> HIDE DEF row
  <1>5. to \in Requests /\ Holds(to, kind) /\ Recalls(to, tapeOf)
    BY <1>3, <1>4 DEF Requests, Movers, Holds, Recalls
  <1> HIDE DEF to
  <1> QED
    BY <1>1, <1>5, OnlyGoes

LEMMA EditPathGood ==
    ASSUME TreeTyped, TapesTyped, NEW kind, Tells(kind), NEW tapeOf, Places(tapeOf),
           NEW c \in Clients, NEW id, NEW name \in Names, EditPath(c, id, name), UNCHANGED tapeVars
    PROVE  Good
  <1> DEFINE row == files[id]
             to == [pc |-> "into", id |-> id, row |-> row, name |-> name]
  <1>1. /\ id \in DOMAIN files /\ Goes(c, to) /\ UNCHANGED <<files, made, second>>
    BY DEF EditPath, Starts
  <1>2. name \in Nat
    BY LibraryAssumption
  <1>3. row \in Rows /\ id \in Int /\ id \in DOMAIN kind /\ row.dir = kind[id]
    BY <1>1, RowOf
  <1> HIDE DEF row
  <1>5. to \in Requests /\ Holds(to, kind) /\ Recalls(to, tapeOf)
    BY <1>2, <1>3 DEF Requests, Intos, Holds, Recalls
  <1> HIDE DEF to
  <1> QED
    BY <1>1, <1>5, OnlyGoes

(* One directory of a path: the one that is there, or one of the new id. *)
Makes(dir, table, new, row) ==
    /\ dir.ok \in BOOLEAN /\ dir.exists \in BOOLEAN /\ dir.id \in Int
    /\ dir.exists => dir.files = table
    /\ dir.exists \/ dir.files = With(table, new, row)

LEMMA MkdirIs ==
    ASSUME NEW table \in Tables(Rows), NEW parent, NEW name, NEW new \in Int
    PROVE  Makes(mkdir(table, parent, name, new), table, new, Row(parent, name, TRUE, 0))
  <1> DEFINE there == getByName(table, parent, name)
  <1>1. there \subseteq Int
    BY TableIs DEF getByName
  <1>2. there # {} => (CHOOSE id \in there : TRUE) \in Int
    BY <1>1
  <1> QED
    BY <1>2 DEF mkdir, Makes

LEMMA EditIntoGood ==
    ASSUME TreeTyped, TapesTyped, NEW kind, Tells(kind), NEW tapeOf, Places(tapeOf),
           NEW c \in Clients, EditInto(c), UNCHANGED tapeVars
    PROVE  Good
  <1> DEFINE r == request[c]
             at == r.row.parent
             name == r.name
             next == made + 1
             dir == mkdir(files, at, name, next)
             row == [r.row EXCEPT !.parent = dir.id]
             moving == [pc |-> "move", id |-> r.id, row |-> row]
             to == IF dir.ok THEN moving ELSE Idle
             new == Row(at, name, TRUE, 0)
  <1>1. /\ r.pc = "into" /\ files' = dir.files /\ made' = (IF dir.exists THEN made ELSE made + 1)
        /\ Goes(c, to) /\ second' = second
    BY DEF EditInto, Ends
  <1>2. r \in Intos
    BY <1>1, RequestIs DEF TreeTyped
  <1>3. r.row \in Rows /\ r.id \in Int /\ name \in Nat /\ at \in Int
    BY <1>2 DEF Intos, Rows
  <1>4. r.id \in DOMAIN kind /\ r.row.dir = kind[r.id]
    BY <1>1 DEF Tells, Holds
  <1>5. files \in Tables(Rows) /\ next \in Int
    BY DEF TreeTyped
  <1> HIDE DEF at, name, next
  <1>made. Makes(dir, files, next, new)
    BY <1>5, MkdirIs
  <1> HIDE DEF dir, new
  <1>6. /\ dir.ok \in BOOLEAN /\ dir.exists \in BOOLEAN /\ dir.id \in Int
        /\ dir.exists => dir.files = files
        /\ dir.exists \/ dir.files = With(files, next, new)
    BY <1>made DEF Makes
  <1>7. row \in Rows /\ row.dir = kind[r.id]
    BY <1>3, <1>4, <1>6 DEF Rows
  <1>8. new \in Rows
    BY <1>3 DEF new, Rows, Row
  <1> HIDE DEF r, row, new
  <1>9. to \in Requests /\ Holds(to, kind) /\ Recalls(to, tapeOf)
    <2>1. moving \in Requests /\ Holds(moving, kind) /\ Recalls(moving, tapeOf)
      BY <1>3, <1>4, <1>7 DEF Requests, Movers, Holds, Recalls
    <2>2. Idle \in Requests /\ Holds(Idle, kind) /\ Recalls(Idle, tapeOf)
      BY IdleIs DEF Holds, Recalls
    <2> QED
      BY <2>1, <2>2
  <1> HIDE DEF to
  <1>10. TapesTyped' /\ TapesStay'
    BY <1>1, <1>9, TapesUnchanged
  <1>11. files \in Tables(Rows) /\ Kinded(files, kind)
    BY DEF TreeTyped, Tells
  <1>12. CASE dir.exists
    BY <1>1, <1>6, <1>9, <1>10, <1>12, FilesUnchanged DEF Good, PlainStay
  <1>13. CASE ~dir.exists
    <2>1. files' = With(files, made + 1, new) /\ made' = made + 1
      BY <1>1, <1>6, <1>13 DEF next
    <2>2. TreeTyped' /\ KindsStay'
      BY <1>1, <1>8, <1>9, <1>11, <2>1, TreeGrows
    <2>3. PlainStay
      BY <2>1 DEF PlainStay, With
    <2> QED
      BY <1>10, <2>2, <2>3 DEF Good
  <1> QED
    BY <1>6, <1>12, <1>13

LEMMA TreeFinite == TreeTyped => IsFiniteSet(DOMAIN files)
  <1> SUFFICES ASSUME TreeTyped PROVE IsFiniteSet(DOMAIN files)
    OBVIOUS
  <1>1. IsFiniteSet(1..made)
    BY FS_Interval DEF TreeTyped
  <1>2. IsFiniteSet(Ids)
    BY <1>1, FS_AddElement DEF Ids
  <1> QED
    BY <1>2, FS_Subset DEF TreeTyped

(* A move leaves a table that says the same, with every plain file. *)
LEMMA MoveStays ==
    ASSUME TreeTyped, NEW kind, Tells(kind), NEW id \in DOMAIN kind, NEW row \in Rows, row.dir = kind[id],
           NEW table, table = moveFile(files, id, row).files
    PROVE  /\ table \in Tables(Rows) /\ Kinded(table, kind)
           /\ \A i \in DOMAIN files : ~files[i].dir => i \in DOMAIN table
  <1> DEFINE kept == {i \in DOMAIN files : ~files[i].dir}
  <1>1. IsFiniteSet(DOMAIN files)
    BY TreeFinite
  <1>2. id \in Int
    BY DEF Tells, Ids, TreeTyped, TrashFileID
  <1>3. files \in Tables(Rows) /\ Kinded(files, kind)
    BY DEF TreeTyped, Tells
  <1>4. Plain(kept, kind) /\ kept \subseteq DOMAIN files
    BY <1>3 DEF Plain, Kinded
  <1> HIDE DEF kept
  <1>5. table \in Tables(Rows) /\ Kinded(table, kind) /\ kept \subseteq DOMAIN table
    BY <1>1, <1>2, <1>3, <1>4, MoveKeeps
  <1> QED
    BY <1>5 DEF kept

LEMMA EditMoveGood ==
    ASSUME TreeTyped, TapesTyped, NEW kind, Tells(kind), NEW tapeOf, Places(tapeOf),
           NEW c \in Clients, EditMove(c), UNCHANGED tapeVars
    PROVE  Good
  <1> DEFINE id == request[c].id
             row == request[c].row
  <1>1. /\ request[c].pc = "move" /\ files' = moveFile(files, id, row).files
        /\ made' = made /\ second' = second /\ Goes(c, Idle)
    BY DEF EditMove, Ends
  <1>2. row \in Rows
    BY <1>1, RequestIs DEF TreeTyped, Movers
  <1>3. id \in DOMAIN kind /\ row.dir = kind[id]
    BY <1>1 DEF Tells, Holds
  <1> HIDE DEF id, row
  <1>4. /\ files' \in Tables(Rows) /\ Kinded(files', kind)
        /\ \A i \in DOMAIN files : ~files[i].dir => i \in DOMAIN files'
    BY <1>1, <1>2, <1>3, MoveStays
  <1>5. Idle \in Requests /\ Holds(Idle, kind) /\ Recalls(Idle, tapeOf)
    BY IdleIs DEF Holds, Recalls
  <1>6. TreeTyped' /\ KindsStay'
    BY <1>1, <1>4, <1>5, TreeStays
  <1>7. TapesTyped' /\ TapesStay'
    BY <1>1, <1>5, TapesUnchanged
  <1> QED
    BY <1>4, <1>6, <1>7 DEF Good, PlainStay

LEMMA MkdirGetGood ==
    ASSUME TreeTyped, TapesTyped, NEW kind, Tells(kind), NEW tapeOf, Places(tapeOf),
           NEW c \in Clients, NEW parent \in Targets, NEW a \in Names, NEW b \in Names,
           MkdirGet(c, parent, <<a, b>>), UNCHANGED tapeVars
    PROVE  Good
  <1> DEFINE path == <<a, b>>
             to == [pc |-> "mkdir", at |-> parent, path |-> path]
  <1>1. Goes(c, to) /\ UNCHANGED <<files, made, second>>
    BY DEF MkdirGet, Starts
  <1>2. parent \in Int /\ path \in Seq(Nat) /\ path # <<>>
    BY LibraryAssumption DEF Targets, Root, TreeTyped
  <1> HIDE DEF path
  <1>3. to \in Requests /\ Holds(to, kind) /\ Recalls(to, tapeOf)
    BY <1>2 DEF Requests, Mkdirs, Holds, Recalls
  <1> HIDE DEF to
  <1> QED
    BY <1>1, <1>3, OnlyGoes

LEMMA MkdirGood ==
    ASSUME TreeTyped, TapesTyped, NEW kind, Tells(kind), NEW tapeOf, Places(tapeOf),
           NEW c \in Clients, Mkdir(c), UNCHANGED tapeVars
    PROVE  Good
  <1> DEFINE r == request[c]
             at == r.at
             name == Head(r.path)
             rest == Tail(r.path)
             next == made + 1
             dir == mkdir(files, at, name, next)
             on == [r EXCEPT !.at = dir.id, !.path = rest]
             to == IF dir.ok /\ rest # <<>> THEN on ELSE Idle
             new == Row(at, name, TRUE, 0)
  <1>1. /\ r.pc = "mkdir" /\ files' = dir.files /\ made' = (IF dir.exists THEN made ELSE made + 1)
        /\ Goes(c, to) /\ second' = second
    BY DEF Mkdir, Ends
  <1>2. r \in Mkdirs
    BY <1>1, RequestIs DEF TreeTyped
  <1>3. name \in Nat /\ rest \in Seq(Nat) /\ at \in Int
    BY <1>2 DEF Mkdirs
  <1>5. files \in Tables(Rows) /\ next \in Int
    BY DEF TreeTyped
  <1> HIDE DEF at, name, next
  <1>made. Makes(dir, files, next, new)
    BY <1>5, MkdirIs
  <1> HIDE DEF dir, rest, new
  <1>6. /\ dir.ok \in BOOLEAN /\ dir.exists \in BOOLEAN /\ dir.id \in Int
        /\ dir.exists => dir.files = files
        /\ dir.exists \/ dir.files = With(files, next, new)
    BY <1>made DEF Makes
  <1>7. rest # <<>> => /\ on \in Requests /\ Holds(on, kind) /\ Recalls(on, tapeOf)
    <2>1. rest # <<>> => on \in Mkdirs /\ on.pc = "mkdir"
      BY <1>2, <1>3, <1>6 DEF Mkdirs
    <2> HIDE DEF on
    <2> QED
      BY <2>1 DEF Requests, Holds, Recalls
  <1>8. new \in Rows
    BY <1>3 DEF new, Rows, Row
  <1> HIDE DEF r, on, new
  <1>9. to \in Requests /\ Holds(to, kind) /\ Recalls(to, tapeOf)
    <2>2. Idle \in Requests /\ Holds(Idle, kind) /\ Recalls(Idle, tapeOf)
      BY IdleIs DEF Holds, Recalls
    <2> QED
      BY <1>7, <2>2
  <1> HIDE DEF to
  <1>10. TapesTyped' /\ TapesStay'
    BY <1>1, <1>9, TapesUnchanged
  <1>11. files \in Tables(Rows) /\ Kinded(files, kind)
    BY DEF TreeTyped, Tells
  <1>12. CASE dir.exists
    BY <1>1, <1>6, <1>9, <1>10, <1>12, FilesUnchanged DEF Good, PlainStay
  <1>13. CASE ~dir.exists
    <2>1. files' = With(files, made + 1, new) /\ made' = made + 1
      BY <1>1, <1>6, <1>13 DEF next
    <2>2. TreeTyped' /\ KindsStay'
      BY <1>1, <1>8, <1>9, <1>11, <2>1, TreeGrows
    <2>3. PlainStay
      BY <2>1 DEF PlainStay, With
    <2> QED
      BY <1>10, <2>2, <2>3 DEF Good
  <1> QED
    BY <1>6, <1>12, <1>13

LEMMA DeleteGetGood ==
    ASSUME TreeTyped, TapesTyped, NEW kind, Tells(kind), NEW tapeOf, Places(tapeOf),
           NEW c \in Clients, NEW ids, DeleteGet(c, ids), UNCHANGED tapeVars
    PROVE  Good
  <1> DEFINE rows == [id \in ids \cap DOMAIN files |-> files[id]]
             to == [pc |-> "look", rows |-> rows, left |-> DOMAIN rows \ {TrashFileID},
                    doomed |-> {}, trash |-> <<>>, dir |-> Root]
  <1>1. Goes(c, to) /\ UNCHANGED <<files, made, second>>
    BY DEF DeleteGet, Starts
  <1>2. DOMAIN rows \subseteq DOMAIN files /\ \A id \in DOMAIN rows : rows[id] = files[id]
    OBVIOUS
  <1>3. rows = [id \in DOMAIN rows |-> rows[id]]
    OBVIOUS
  <1> HIDE DEF rows
  <1>4. DOMAIN files \subseteq Int /\ \A id \in DOMAIN files : files[id] \in Rows
    BY TableIs DEF TreeTyped
  <1>5. DOMAIN rows \subseteq Int /\ \A id \in DOMAIN rows : rows[id] \in Rows
    BY <1>2, <1>4
  <1>6. rows \in Tables(Rows)
    BY <1>3, <1>5, TableIs
  <1>7. Kinded(rows, kind)
    BY <1>2 DEF Tells, Kinded
  <1>8. to \in Deletes
    BY <1>5, <1>6 DEF Deletes, Root
  <1>9. to.pc = "look" /\ to.rows = rows /\ to.doomed = {}
    OBVIOUS
  <1> HIDE DEF to
  <1>10. to \in Requests /\ Holds(to, kind) /\ Recalls(to, tapeOf)
    BY <1>7, <1>8, <1>9 DEF Requests, Holds, Recalls
  <1> QED
    BY <1>1, <1>10, OnlyGoes

LEMMA DeleteLookGood ==
    ASSUME TreeTyped, TapesTyped, NEW kind, Tells(kind), NEW tapeOf, Places(tapeOf),
           NEW c \in Clients, NEW id, DeleteLook(c, id), UNCHANGED tapeVars
    PROVE  Good
  <1> DEFINE r == request[c]
             below == Generations(files, {id})
             on == [r EXCEPT !.left = @ \ {id}]
             trashing == [on EXCEPT !.trash = Append(@, id)]
             dooming == [on EXCEPT !.doomed = below.ids]
  <1>1. /\ r.pc = "look" /\ r.doomed = {} /\ id \in r.left
        /\ UNCHANGED <<files, made, second>>
        /\ \/ Goes(c, Idle) \/ Goes(c, trashing)
           \/ r.rows[id].dir /\ below.empty /\ Goes(c, dooming)
           \/ Goes(c, on)
    BY DEF DeleteLook, Ends
  <1>2. r \in Deletes
    BY <1>1, RequestIs DEF TreeTyped
  <1>3. /\ r \in [pc : {"look", "put"}, rows : Tables(Rows), left : SUBSET Int, doomed : SUBSET Int,
                  trash : Seq(Int), dir : Int]
        /\ r.left \subseteq DOMAIN r.rows
        /\ \A k \in DOMAIN r.trash : r.trash[k] \in DOMAIN r.rows
    BY <1>2 DEF Deletes
  <1>4. Kinded(r.rows, kind) /\ id \in Int /\ id \in DOMAIN r.rows
    BY <1>1, <1>3 DEF Tells, Holds
  <1> HIDE DEF r
  <1>5. /\ on.pc = "look" /\ on.rows = r.rows /\ on.doomed = {} /\ on.trash = r.trash
        /\ on \in [pc : {"look", "put"}, rows : Tables(Rows), left : SUBSET Int, doomed : SUBSET Int,
                   trash : Seq(Int), dir : Int]
        /\ on.left \subseteq DOMAIN r.rows
    BY <1>1, <1>3
  <1> HIDE DEF on
  <1>6. on \in Requests /\ Holds(on, kind) /\ Recalls(on, tapeOf)
    <2>1. on \in Deletes
      BY <1>3, <1>5 DEF Deletes
    <2> QED
      BY <1>4, <1>5, <2>1 DEF Requests, Holds, Recalls
  <1>7. trashing \in Requests /\ Holds(trashing, kind) /\ Recalls(trashing, tapeOf)
    <2> DEFINE more == Append(r.trash, id)
    <2>0. more \in Seq(Int) /\ trashing = [on EXCEPT !.trash = more]
      BY <1>3, <1>4, <1>5
    <2> HIDE DEF trashing, more
    <2>1. /\ trashing.pc = "look" /\ trashing.rows = r.rows /\ trashing.doomed = {}
          /\ trashing.left = on.left /\ trashing.trash = more
          /\ trashing \in [pc : {"look", "put"}, rows : Tables(Rows), left : SUBSET Int, doomed : SUBSET Int,
                           trash : Seq(Int), dir : Int]
      BY <1>5, <2>0
    <2>2. \A k \in DOMAIN more : more[k] \in DOMAIN r.rows
      <3>1. r.trash \in Seq(Int) /\ Len(r.trash) \in Nat /\ DOMAIN r.trash = 1..Len(r.trash)
        BY <1>3
      <3>2. DOMAIN more = 1..(Len(r.trash) + 1)
        BY <1>4, <3>1 DEF more
      <3>3. \A k \in DOMAIN more : more[k] = id \/ (k \in DOMAIN r.trash /\ more[k] = r.trash[k])
        BY <1>4, <3>1, <3>2 DEF more
      <3> QED
        BY <1>3, <1>4, <3>3
    <2>3. trashing \in Deletes
      BY <1>5, <2>1, <2>2 DEF Deletes
    <2> QED
      BY <1>4, <2>1, <2>3 DEF Requests, Holds, Recalls
  <1>8. r.rows[id].dir /\ below.empty =>
            dooming \in Requests /\ Holds(dooming, kind) /\ Recalls(dooming, tapeOf)
    <2> SUFFICES ASSUME r.rows[id].dir, below.empty
                 PROVE  dooming \in Requests /\ Holds(dooming, kind) /\ Recalls(dooming, tapeOf)
      OBVIOUS
    <2>1. IsFiniteSet(DOMAIN files)
      BY TreeFinite
    <2>2. /\ below.ids \subseteq {id} \cup DOMAIN files
          /\ below.empty => \A i \in below.ids \ {id} : files[i].dir
      BY <2>1, GenerationsBelow
    <2>3. DOMAIN files \subseteq Int /\ Kinded(files, kind)
      BY TableIs DEF TreeTyped, Tells
    <2> HIDE DEF below
    <2>4. \A i \in below.ids : i \in Int /\ i \in DOMAIN kind /\ kind[i]
      BY <1>4, <2>2, <2>3 DEF Kinded
    <2>5. /\ dooming.pc = "look" /\ dooming.rows = r.rows /\ dooming.doomed = below.ids
          /\ dooming.left = on.left /\ dooming.trash = r.trash
          /\ dooming \in [pc : {"look", "put"}, rows : Tables(Rows), left : SUBSET Int, doomed : SUBSET Int,
                          trash : Seq(Int), dir : Int]
      BY <1>5, <2>4
    <2> HIDE DEF dooming
    <2>6. dooming \in Deletes
      BY <1>3, <1>5, <2>5 DEF Deletes
    <2> QED
      BY <1>4, <2>4, <2>5, <2>6 DEF Requests, Holds, Recalls
  <1>9. Idle \in Requests /\ Holds(Idle, kind) /\ Recalls(Idle, tapeOf)
    BY IdleIs DEF Holds, Recalls
  <1> HIDE DEF trashing, dooming, below
  <1>10. PICK to \in Requests : Goes(c, to) /\ Holds(to, kind) /\ Recalls(to, tapeOf)
    BY <1>1, <1>6, <1>7, <1>8, <1>9
  <1> QED
    BY <1>1, <1>10, OnlyGoes

LEMMA DeletePurgeGood ==
    ASSUME TreeTyped, TapesTyped, NEW kind, Tells(kind), NEW tapeOf, Places(tapeOf),
           NEW c \in Clients, DeletePurge(c), UNCHANGED tapeVars
    PROVE  Good
  <1> DEFINE r == request[c]
             to == [r EXCEPT !.doomed = {}]
             gone == r.doomed
  <1>1. /\ r.pc = "look" /\ files' = Without(files, gone) /\ Goes(c, to)
        /\ made' = made /\ second' = second
    BY DEF DeletePurge
  <1>2. r \in Deletes
    BY <1>1, RequestIs DEF TreeTyped
  <1>3. Kinded(r.rows, kind) /\ \A id \in gone : id \in DOMAIN kind /\ kind[id]
    BY <1>1 DEF Tells, Holds
  <1>4. to \in Deletes /\ to.pc = "look" /\ to.rows = r.rows /\ to.doomed = {}
    BY <1>1, <1>2 DEF Deletes
  <1> HIDE DEF r, to, gone
  <1>5. to \in Requests /\ Holds(to, kind) /\ Recalls(to, tapeOf)
    BY <1>3, <1>4 DEF Requests, Holds, Recalls
  <1>6. files \in Tables(Rows) /\ Kinded(files, kind)
    BY DEF TreeTyped, Tells
  <1>7. DOMAIN files' = DOMAIN files \ gone /\ \A i \in DOMAIN files' : files'[i] = files[i]
    BY <1>1 DEF Without
  <1>8. files' \in Tables(Rows)
    BY <1>1, <1>6, WithoutIn
  <1>9. Kinded(files', kind) /\ PlainStay
    BY <1>3, <1>6, <1>7 DEF Kinded, PlainStay
  <1>10. TreeTyped' /\ KindsStay'
    BY <1>1, <1>5, <1>8, <1>9, TreeStays
  <1> QED
    BY <1>1, <1>5, <1>9, <1>10, TapesUnchanged DEF Good

(* The trash is saved; then a directory for this second is made in it. *)
LEMMA TrashSaved ==
    ASSUME TreeTyped, NEW kind, Tells(kind)
    PROVE  LET trash == Save(files, TrashFileID, Row(Root, TrashName, TRUE, 0))
           IN  /\ trash.files \in Tables(Rows) /\ Kinded(trash.files, kind)
               /\ DOMAIN files \subseteq DOMAIN trash.files
  <1> DEFINE row == Row(Root, TrashName, TRUE, 0)
             id == TrashFileID
             t == Save(files, id, row).files
  <1>1. row \in Rows /\ row.dir = TRUE /\ id \in Int
    BY DEF Row, Root, TrashName, Rows, TrashFileID
  <1>2. id \in DOMAIN kind /\ kind[id]
    BY DEF Tells, Ids
  <1>3. files \in Tables(Rows) /\ Kinded(files, kind)
    BY DEF TreeTyped, Tells
  <1> HIDE DEF row, id
  <1>4. t = files \/ t = With(files, id, row)
    BY DEF Save, Fails, Done, With
  <1>5. With(files, id, row) \in Tables(Rows)
    BY <1>1, <1>3, WithIn
  <1>6. Kinded(With(files, id, row), kind) /\ DOMAIN files \subseteq DOMAIN With(files, id, row)
    BY <1>1, <1>2, <1>3 DEF With, Kinded
  <1>7. t \in Tables(Rows) /\ Kinded(t, kind) /\ DOMAIN files \subseteq DOMAIN t
    BY <1>3, <1>4, <1>5, <1>6
  <1> QED
    BY <1>7 DEF id, row

LEMMA DeleteTrashGood ==
    ASSUME TreeTyped, TapesTyped, NEW kind, Tells(kind), NEW tapeOf, Places(tapeOf),
           NEW c \in Clients, DeleteTrash(c), UNCHANGED tapeVars
    PROVE  Good
  <1> DEFINE r == request[c]
             trash == Save(files, TrashFileID, Row(Root, TrashName, TRUE, 0))
             table == trash.files
             at == TrashFileID
             name == Stamps[second]
             next == made + 1
             dir == mkdir(table, at, name, next)
             new == Row(at, name, TRUE, 0)
             to == [r EXCEPT !.pc = "put", !.dir = next]
  <1>1. /\ r.pc = "look" /\ second' = second
        /\ \/ UNCHANGED <<files, made>> /\ Goes(c, Idle)
           \/ /\ r.trash # <<>> /\ dir.ok /\ ~dir.exists
              /\ files' = dir.files /\ made' = made + 1 /\ Goes(c, to)
           \/ files' = table /\ made' = made /\ Goes(c, Idle)
    BY DEF DeleteTrash, Ends
  <1>2. r \in Deletes
    BY <1>1, RequestIs DEF TreeTyped
  <1>3. /\ table \in Tables(Rows) /\ Kinded(table, kind) /\ DOMAIN files \subseteq DOMAIN table
    BY TrashSaved
  <1>4. Kinded(r.rows, kind) /\ \A id \in r.doomed : id \in DOMAIN kind /\ kind[id]
    BY <1>1 DEF Tells, Holds
  <1>5. next \in Int /\ name \in Nat /\ at \in Int
    BY LibraryAssumption DEF TreeTyped, TrashFileID
  <1>6. r.trash # <<>> => to \in Deletes /\ to.pc = "put" /\ to.rows = r.rows /\ to.doomed = r.doomed
    BY <1>2, <1>5 DEF Deletes
  <1>7. new \in Rows
    BY <1>5 DEF Rows, Row
  <1> HIDE DEF r, to, table, at, name, next
  <1>made. Makes(dir, table, next, new)
    BY <1>3, <1>5, MkdirIs
  <1> HIDE DEF dir, new
  <1>8. /\ dir.exists \in BOOLEAN
        /\ dir.exists \/ dir.files = With(table, next, new)
    BY <1>made DEF Makes
  <1>9. r.trash # <<>> => to \in Requests /\ Holds(to, kind) /\ Recalls(to, tapeOf)
    BY <1>4, <1>6 DEF Requests, Holds, Recalls
  <1>10. Idle \in Requests /\ Holds(Idle, kind) /\ Recalls(Idle, tapeOf)
    BY IdleIs DEF Holds, Recalls
  <1>11. CASE UNCHANGED <<files, made>> /\ Goes(c, Idle)
    BY <1>1, <1>10, <1>11, OnlyGoes
  <1>12. CASE /\ r.trash # <<>> /\ dir.ok /\ ~dir.exists
              /\ files' = dir.files /\ made' = made + 1 /\ Goes(c, to)
    <2>1. files' = With(table, made + 1, new)
      BY <1>8, <1>12 DEF next
    <2>2. TreeTyped' /\ KindsStay'
      BY <1>1, <1>3, <1>7, <1>9, <1>12, <2>1, TreeGrows
    <2>3. TapesTyped' /\ TapesStay'
      BY <1>9, <1>12, TapesUnchanged
    <2>4. PlainStay
      BY <1>3, <2>1 DEF PlainStay, With
    <2> QED
      BY <2>2, <2>3, <2>4 DEF Good
  <1>13. CASE files' = table /\ made' = made /\ Goes(c, Idle)
    <2>2. TreeTyped' /\ KindsStay'
      BY <1>1, <1>3, <1>10, <1>13, TreeStays
    <2>3. TapesTyped' /\ TapesStay'
      BY <1>10, <1>13, TapesUnchanged
    <2> QED
      BY <1>3, <1>13, <2>2, <2>3 DEF Good, PlainStay
  <1> QED
    BY <1>1, <1>11, <1>12, <1>13

LEMMA DeletePutGood ==
    ASSUME TreeTyped, TapesTyped, NEW kind, Tells(kind), NEW tapeOf, Places(tapeOf),
           NEW c \in Clients, DeletePut(c), UNCHANGED tapeVars
    PROVE  Good
  <1> DEFINE r == request[c]
             id == Head(r.trash)
             rest == Tail(r.trash)
             row == [r.rows[id] EXCEPT !.parent = r.dir]
             put == moveFile(files, id, row)
             on == [r EXCEPT !.trash = rest]
             to == IF put.ok /\ rest # <<>> THEN on ELSE Idle
  <1>1. r.pc = "put" /\ files' = put.files /\ Goes(c, to) /\ made' = made /\ second' = second
    BY DEF DeletePut, Ends
  <1>2. r \in Deletes
    BY <1>1, RequestIs DEF TreeTyped
  <1>3. /\ Kinded(r.rows, kind) /\ \A i \in r.doomed : i \in DOMAIN kind /\ kind[i]
    BY <1>1 DEF Tells, Holds
  <1>4. /\ r.trash \in Seq(Int) /\ r.trash # <<>> /\ r.rows \in Tables(Rows) /\ r.dir \in Int
        /\ \A k \in DOMAIN r.trash : r.trash[k] \in DOMAIN r.rows
    BY <1>1, <1>2 DEF Deletes
  <1>5. id \in DOMAIN r.rows /\ rest \in Seq(Int)
    BY <1>4
  <1>6. \A k \in DOMAIN rest : rest[k] \in DOMAIN r.rows
    <2>1. \A k \in DOMAIN rest : rest[k] = r.trash[k + 1] /\ k + 1 \in DOMAIN r.trash
      BY <1>4
    <2> QED
      BY <1>4, <2>1
  <1> HIDE DEF id, rest
  <1>7. r.rows[id] \in Rows /\ id \in DOMAIN kind /\ r.rows[id].dir = kind[id]
    BY <1>3, <1>4, <1>5, TableIs DEF Kinded
  <1>8. row \in Rows /\ row.dir = kind[id]
    BY <1>4, <1>7 DEF Rows
  <1>9. rest # <<>> => on \in Deletes /\ on.pc = "put" /\ on.rows = r.rows /\ on.doomed = r.doomed
    BY <1>1, <1>2, <1>5, <1>6 DEF Deletes
  <1> HIDE DEF r, row, on
  <1>10. /\ files' \in Tables(Rows) /\ Kinded(files', kind)
         /\ \A i \in DOMAIN files : ~files[i].dir => i \in DOMAIN files'
    BY <1>1, <1>7, <1>8, MoveStays
  <1> HIDE DEF put
  <1>11. to \in Requests /\ Holds(to, kind) /\ Recalls(to, tapeOf)
    <2>1. rest # <<>> => on \in Requests /\ Holds(on, kind) /\ Recalls(on, tapeOf)
      BY <1>3, <1>9 DEF Requests, Holds, Recalls
    <2>2. Idle \in Requests /\ Holds(Idle, kind) /\ Recalls(Idle, tapeOf)
      BY IdleIs DEF Holds, Recalls
    <2> QED
      BY <2>1, <2>2
  <1> HIDE DEF to
  <1>12. TreeTyped' /\ KindsStay'
    BY <1>1, <1>10, <1>11, TreeStays
  <1>13. TapesTyped' /\ TapesStay'
    BY <1>1, <1>11, TapesUnchanged
  <1> QED
    BY <1>10, <1>12, <1>13 DEF Good, PlainStay

(* Nobody goes on: the clock ticks, tapes are deleted, or nothing happens. *)
LEMMA NobodyGoes ==
    ASSUME TreeTyped, TapesTyped, NEW kind, Tells(kind), NEW tapeOf, Places(tapeOf),
           UNCHANGED <<files, made, request, tapesMade, positions, posMade>>,
           second' \in DOMAIN Stamps, tapes' \in Tables(Nat), DOMAIN tapes' \subseteq DOMAIN tapes
    PROVE  Good
  <1>1. Ids' = Ids
    BY DEF Ids
  <1>2. Tells(kind)' /\ TreeTyped'
    BY <1>1 DEF Tells, TreeTyped, Holds
  <1>3. \A c \in Clients : Recalls(request[c], tapeOf)'
    BY DEF Places, Recalls
  <1>4. Places(tapeOf)' /\ TapesTyped'
    BY <1>3 DEF Places, TapesTyped
  <1> QED
    BY <1>2, <1>4 DEF Good, KindsStay, TapesStay, PlainStay

LEMMA TickGood ==
    ASSUME TreeTyped, TapesTyped, NEW kind, Tells(kind), NEW tapeOf, Places(tapeOf), Tick, UNCHANGED tapeVars
    PROVE  Good
  <1>1. second' \in DOMAIN Stamps
    BY LibraryAssumption DEF Tick, TreeTyped
  <1>2. tapes' \in Tables(Nat) /\ DOMAIN tapes' \subseteq DOMAIN tapes
    BY DEF tapeVars, TapesTyped
  <1> QED
    BY <1>1, <1>2, NobodyGoes DEF Tick, tapeVars

LEMMA TreeGood ==
    ASSUME TreeTyped, TapesTyped, NEW kind, Tells(kind), NEW tapeOf, Places(tapeOf), TreeNext, UNCHANGED tapeVars
    PROVE  Good
  <1>1. ASSUME NEW c \in Clients, TreeHandler(c) PROVE Good
    BY <1>1, EditIntoGood, EditMoveGood, MkdirGood, DeleteLookGood, DeletePurgeGood, DeleteTrashGood,
       DeletePutGood DEF TreeHandler
  <1>2. ASSUME NEW c \in Clients, TreeRequest(c) PROVE Good
    BY <1>2, EditGetGood, EditNameGood, EditPathGood, MkdirGetGood, DeleteGetGood DEF TreeRequest
  <1> QED
    BY <1>1, <1>2, TickGood DEF TreeNext
-----------------------------------------------------------------------------
(* The positions change, and each row is of the same tape as before. *)
LEMMA PositionsStay ==
    ASSUME TreeTyped, TapesTyped, NEW tapeOf, Places(tapeOf),
           NEW c \in Clients, NEW to \in Requests, Goes(c, to), Recalls(to, tapeOf),
           UNCHANGED <<tapes, tapesMade, posMade>>, positions' \in Tables(Posis), Placed(positions', tapeOf)
    PROVE  TapesTyped' /\ TapesStay'
  <1>1. /\ request' \in [Clients -> Requests] /\ request'[c] = to
        /\ \A d \in Clients : d # c => request'[d] = request[d]
    BY OthersStay DEF TreeTyped
  <1>3. \A d \in Clients : Recalls(request'[d], tapeOf)
    BY <1>1 DEF Places
  <1>4. \A r : Recalls(r, tapeOf) => Recalls(r, tapeOf)'
    BY DEF Recalls
  <1>5. Places(tapeOf)'
    BY <1>3, <1>4 DEF Places, Recalls
  <1> QED
    BY <1>5 DEF TapesTyped, TapesStay

(* The rows of some positions, as they are read. *)
LEMMA BatchOf ==
    ASSUME TapesTyped, NEW tapeOf, Places(tapeOf), NEW S \in SUBSET DOMAIN positions
    PROVE  [p \in S |-> positions[p]] \in Tables(Posis) /\ Placed([p \in S |-> positions[p]], tapeOf)
  <1> DEFINE batch == [p \in S |-> positions[p]]
  <1>1. DOMAIN batch = S /\ (\A p \in S : batch[p] = positions[p]) /\ batch = [p \in DOMAIN batch |-> batch[p]]
    OBVIOUS
  <1>2. DOMAIN positions \subseteq Int /\ \A p \in DOMAIN positions : positions[p] \in Posis
    BY TableIs DEF TapesTyped
  <1> HIDE DEF batch
  <1>3. DOMAIN batch \subseteq Int /\ \A p \in DOMAIN batch : batch[p] \in Posis
    BY <1>1, <1>2
  <1>4. batch \in Tables(Posis)
    BY <1>1, <1>3, TableIs
  <1>5. Placed(batch, tapeOf)
    BY <1>1 DEF Places, Placed
  <1> QED
    BY <1>4, <1>5 DEF batch

LEMMA TrimReadGood ==
    ASSUME TreeTyped, TapesTyped, NEW kind, Tells(kind), NEW tapeOf, Places(tapeOf),
           NEW c \in Clients, TrimRead(c)
    PROVE  Good
  <1> DEFINE batch == [p \in Latest(Unlinked) |-> positions[p]]
             matching == [pc |-> "match", batch |-> batch]
             to == IF Unlinked = {} THEN Idle ELSE matching
  <1>1. Goes(c, to) /\ UNCHANGED <<files, made, second, tapeVars>>
    BY DEF TrimRead, Ends
  <1>2. Latest(Unlinked) \in SUBSET DOMAIN positions
    BY DEF Latest, Unlinked
  <1>3. batch \in Tables(Posis) /\ Placed(batch, tapeOf)
    BY <1>2, BatchOf
  <1> HIDE DEF batch
  <1>4. matching \in Requests /\ Holds(matching, kind) /\ Recalls(matching, tapeOf)
    BY <1>3 DEF Requests, Matches, Holds, Recalls
  <1>5. Idle \in Requests /\ Holds(Idle, kind) /\ Recalls(Idle, tapeOf)
    BY IdleIs DEF Holds, Recalls
  <1>6. to \in Requests /\ Holds(to, kind) /\ Recalls(to, tapeOf)
    BY <1>4, <1>5
  <1> HIDE DEF to
  <1> QED
    BY <1>1, <1>6, OnlyGoes

LEMMA TrimMatchGood ==
    ASSUME TreeTyped, TapesTyped, NEW kind, Tells(kind), NEW tapeOf, Places(tapeOf),
           NEW c \in Clients, TrimMatch(c)
    PROVE  Good
  <1> DEFINE batch == request[c].batch
             Same(p) == {id \in DOMAIN files : ~files[id].dir /\ files[id].sign = batch[p].sign}
             some == {q \in DOMAIN batch : Same(q) # {}}
             found == [p \in some |-> Min(Same(p))]
             to == [pc |-> "link", batch |-> batch, found |-> found]
  <1>1. request[c].pc = "match" /\ Goes(c, to) /\ UNCHANGED <<files, made, second, tapeVars>>
    BY DEF TrimMatch
  <1>2. batch \in Tables(Posis)
    BY <1>1, RequestIs DEF TreeTyped, Matches
  <1>3. Placed(batch, tapeOf)
    BY <1>1 DEF Places, Recalls
  <1>4. \A p \in some : Same(p) \subseteq Ids /\ Same(p) # {}
    BY DEF TreeTyped
  <1> HIDE DEF batch, Same
  <1>5. \A p \in some : Min(Same(p)) \in Int
    <2> TAKE p \in some
    <2>1. Min(Same(p)) \in Same(p)
      BY <1>4, MinIs
    <2> QED
      BY <1>4, <2>1 DEF Ids, TrashFileID, TreeTyped
  <1>6. some \subseteq DOMAIN batch /\ DOMAIN batch \subseteq Int
    BY <1>2, TableIs
  <1> HIDE DEF some
  <1>7. DOMAIN found = some /\ (\A p \in some : found[p] \in Int) /\ found = [p \in DOMAIN found |-> found[p]]
    BY <1>5
  <1> HIDE DEF found
  <1>8. found \in Tables(Int) /\ DOMAIN found \subseteq DOMAIN batch
    BY <1>6, <1>7, TableIs
  <1>9. to \in Requests /\ Holds(to, kind) /\ Recalls(to, tapeOf)
    BY <1>2, <1>3, <1>8 DEF Requests, Links, Holds, Recalls
  <1> HIDE DEF to
  <1> QED
    BY <1>1, <1>9, OnlyGoes

LEMMA TrimLinkGood ==
    ASSUME TreeTyped, TapesTyped, NEW kind, Tells(kind), NEW tapeOf, Places(tapeOf),
           NEW c \in Clients, NEW p, TrimLink(c, p)
    PROVE  Good
  <1> DEFINE r == request[c]
             file == r.found[p]
             row == [r.batch[p] EXCEPT !.file = file]
             rest == Without(r.found, {p})
             others == Without(r.batch, {p})
             to == [r EXCEPT !.found = rest, !.batch = others]
  <1>1. /\ r.pc = "link" /\ p \in DOMAIN r.found /\ positions' = With(positions, p, row) /\ Goes(c, to)
        /\ UNCHANGED <<files, made, second>> /\ UNCHANGED <<tapes, tapesMade, posMade>>
    BY DEF TrimLink
  <1>2. r \in Links
    BY <1>1, RequestIs DEF TreeTyped
  <1>3. r.batch \in Tables(Posis) /\ r.found \in Tables(Int) /\ DOMAIN r.found \subseteq DOMAIN r.batch
    BY <1>2 DEF Links
  <1>4. Placed(r.batch, tapeOf)
    BY <1>1 DEF Places, Recalls
  <1>5. file \in Int /\ p \in Int /\ r.batch[p] \in Posis
    BY <1>1, <1>3, TableIs
  <1>6. p \in DOMAIN tapeOf /\ r.batch[p].tape = tapeOf[p]
    BY <1>1, <1>3, <1>4 DEF Placed
  <1> HIDE DEF file
  <1>7. row \in Posis /\ row.tape = tapeOf[p]
    BY <1>5, <1>6 DEF Posis
  <1>8. /\ rest \in Tables(Int) /\ others \in Tables(Posis)
        /\ DOMAIN rest \subseteq DOMAIN others
        /\ \A q \in DOMAIN others : q \in DOMAIN r.batch /\ others[q] = r.batch[q]
    <2>1. DOMAIN rest = DOMAIN r.found \ {p} /\ DOMAIN others = DOMAIN r.batch \ {p}
          /\ \A q \in DOMAIN others : others[q] = r.batch[q]
      BY WithoutIs
    <2>2. rest \in Tables(Int) /\ others \in Tables(Posis)
      BY <1>3, WithoutIn
    <2> QED
      BY <1>3, <2>1, <2>2
  <1> HIDE DEF rest, others, row
  <1>9. Placed(others, tapeOf)
    BY <1>4, <1>8 DEF Placed
  <1>10. to \in Links /\ to.pc = "link" /\ to.batch = others
    BY <1>2, <1>8 DEF Links
  <1> HIDE DEF to, r
  <1>11. to \in Requests /\ Holds(to, kind) /\ Recalls(to, tapeOf)
    BY <1>9, <1>10 DEF Requests, Holds, Recalls
  <1>12. positions \in Tables(Posis) /\ Placed(positions, tapeOf)
    BY DEF TapesTyped, Places
  <1>13. positions' \in Tables(Posis)
    BY <1>1, <1>5, <1>7, <1>12, WithIn
  <1>14. Placed(positions', tapeOf)
    BY <1>1, <1>6, <1>7, <1>12 DEF Placed, With
  <1>15. TapesTyped' /\ TapesStay'
    BY <1>1, <1>11, <1>13, <1>14, PositionsStay
  <1>16. TreeTyped' /\ KindsStay'
    BY <1>1, <1>11, FilesUnchanged
  <1> QED
    BY <1>1, <1>15, <1>16 DEF Good, PlainStay

LEMMA TrimTapesGood ==
    ASSUME TreeTyped, TapesTyped, NEW kind, Tells(kind), NEW tapeOf, Places(tapeOf),
           NEW c \in Clients, TrimTapes(c)
    PROVE  Good
  <1> DEFINE batch == request[c].batch
             to == [pc |-> "create", batch |-> batch, tapes |-> tapes]
  <1>1. request[c].pc = "link" /\ Goes(c, to) /\ UNCHANGED <<files, made, second, tapeVars>>
    BY DEF TrimTapes
  <1>2. batch \in Tables(Posis)
    BY <1>1, RequestIs DEF TreeTyped, Links
  <1>3. Placed(batch, tapeOf) /\ tapes \in Tables(Nat)
    BY <1>1 DEF Places, Recalls, TapesTyped
  <1> HIDE DEF batch
  <1>4. to \in Requests /\ Holds(to, kind) /\ Recalls(to, tapeOf)
    BY <1>2, <1>3 DEF Requests, Creates, Holds, Recalls
  <1> HIDE DEF to
  <1> QED
    BY <1>1, <1>4, OnlyGoes

LEMMA TrimMkdirGood ==
    ASSUME TreeTyped, TapesTyped, NEW kind, Tells(kind), NEW tapeOf, Places(tapeOf),
           NEW c \in Clients, NEW p, TrimMkdir(c, p)
    PROVE  Good
  <1> DEFINE r == request[c]
             name == Unforged(r.tapes[r.batch[p].tape])
             next == made + 1
             dir == mkdir(files, Root, name, next)
             making == [pc |-> "new", batch |-> r.batch, tapes |-> r.tapes, p |-> p, dir |-> dir.id]
             to == IF dir.ok THEN making ELSE Idle
             new == Row(Root, name, TRUE, 0)
  <1>1. /\ r.pc = "create" /\ p \in DOMAIN r.batch /\ r.batch[p].tape \in DOMAIN r.tapes
        /\ files' = dir.files /\ made' = (IF dir.exists THEN made ELSE made + 1)
        /\ Goes(c, to) /\ second' = second /\ UNCHANGED tapeVars
    BY DEF TrimMkdir, Ends, Remaining
  <1>2. r \in Creates
    BY <1>1, RequestIs DEF TreeTyped
  <1>14. r.batch \in Tables(Posis) /\ r.tapes \in Tables(Nat)
    BY <1>2 DEF Creates
  <1>3. r.batch \in Tables(Posis) /\ r.tapes \in Tables(Nat) /\ p \in Int
    BY <1>1, <1>14, TableIs
  <1>4. Placed(r.batch, tapeOf)
    BY <1>1 DEF Places, Recalls
  <1>5. name \in Nat
    <2> DEFINE barcode == r.tapes[r.batch[p].tape]
    <2>1. barcode \in Nat
      BY <1>1, <1>3, TableIs
    <2> HIDE DEF barcode
    <2>2. Unforged(barcode) \in Nat
      BY <2>1 DEF Unforged
    <2> QED
      BY <2>2 DEF barcode
  <1>6. files \in Tables(Rows) /\ Kinded(files, kind) /\ next \in Int
    BY DEF TreeTyped, Tells
  <1> HIDE DEF name, next
  <1>made. Makes(dir, files, next, new)
    BY <1>6, MkdirIs
  <1> HIDE DEF dir, new
  <1>7. /\ dir.ok \in BOOLEAN /\ dir.exists \in BOOLEAN /\ dir.id \in Int
        /\ dir.exists => dir.files = files
        /\ dir.exists \/ dir.files = With(files, next, new)
    BY <1>made DEF Makes
  <1>8. new \in Rows
    BY <1>5 DEF new, Rows, Row, Root
  <1> HIDE DEF r, new
  <1>9. to \in Requests /\ Holds(to, kind) /\ Recalls(to, tapeOf)
    <2>1. making \in Requests /\ Holds(making, kind) /\ Recalls(making, tapeOf)
      BY <1>1, <1>3, <1>4, <1>7 DEF Requests, News, Holds, Recalls
    <2>2. Idle \in Requests /\ Holds(Idle, kind) /\ Recalls(Idle, tapeOf)
      BY IdleIs DEF Holds, Recalls
    <2> QED
      BY <2>1, <2>2
  <1> HIDE DEF to
  <1>10. TapesTyped' /\ TapesStay'
    BY <1>1, <1>9, TapesUnchanged
  <1>12. CASE dir.exists
    BY <1>1, <1>7, <1>9, <1>10, <1>12, FilesUnchanged DEF Good, PlainStay
  <1>13. CASE ~dir.exists
    <2>1. files' = With(files, made + 1, new) /\ made' = made + 1
      BY <1>1, <1>7, <1>13 DEF next
    <2>2. TreeTyped' /\ KindsStay'
      BY <1>1, <1>8, <1>9, <1>6, <2>1, TreeGrows
    <2>3. PlainStay
      BY <2>1 DEF PlainStay, With
    <2> QED
      BY <1>10, <2>2, <2>3 DEF Good
  <1> QED
    BY <1>7, <1>12, <1>13

LEMMA TrimCreateGood ==
    ASSUME TreeTyped, TapesTyped, NEW kind, Tells(kind), NEW tapeOf, Places(tapeOf),
           NEW c \in Clients, TrimCreate(c)
    PROVE  Good
  <1> DEFINE r == request[c]
             posi == r.batch[r.p]
             new == Row(r.dir, posi.path, FALSE, posi.sign)
             others == Without(r.batch, {r.p})
             on == [pc |-> "create", tapes |-> r.tapes, batch |-> others]
  <1>1. /\ r.pc = "new" /\ second' = second /\ UNCHANGED tapeVars
        /\ \/ Goes(c, Idle) /\ UNCHANGED <<files, made>>
           \/ files' = With(files, made + 1, new) /\ made' = made + 1 /\ Goes(c, on)
    BY DEF TrimCreate, Ends
  <1>2. r \in News
    BY <1>1, RequestIs DEF TreeTyped
  <1>3. r.batch \in Tables(Posis) /\ r.tapes \in Tables(Nat) /\ r.p \in DOMAIN r.batch /\ r.dir \in Int
    BY <1>2 DEF News
  <1>4. Placed(r.batch, tapeOf)
    BY <1>1 DEF Places, Recalls
  <1>5. posi \in Posis
    BY <1>3, TableIs
  <1> HIDE DEF posi
  <1>6. new \in Rows
    BY <1>3, <1>5 DEF Rows, Row, Posis
  <1>7. others \in Tables(Posis)
    BY <1>3, WithoutIn
  <1>8. Placed(others, tapeOf)
    BY <1>4 DEF Placed, Without
  <1> HIDE DEF r, new, others
  <1>9. on \in Requests /\ Holds(on, kind) /\ Recalls(on, tapeOf)
    BY <1>3, <1>7, <1>8 DEF Requests, Creates, Holds, Recalls
  <1> HIDE DEF on
  <1>10. Idle \in Requests /\ Holds(Idle, kind) /\ Recalls(Idle, tapeOf)
    BY IdleIs DEF Holds, Recalls
  <1>11. files \in Tables(Rows) /\ Kinded(files, kind)
    BY DEF TreeTyped, Tells
  <1>12. CASE Goes(c, Idle) /\ UNCHANGED <<files, made>>
    BY <1>1, <1>10, <1>12, OnlyGoes
  <1>13. CASE files' = With(files, made + 1, new) /\ made' = made + 1 /\ Goes(c, on)
    <2>1. TreeTyped' /\ KindsStay'
      BY <1>1, <1>6, <1>9, <1>11, <1>13, TreeGrows
    <2>2. TapesTyped' /\ TapesStay'
      BY <1>1, <1>9, <1>13, TapesUnchanged
    <2>3. PlainStay
      BY <1>13 DEF PlainStay, With
    <2> QED
      BY <2>1, <2>2, <2>3 DEF Good
  <1> QED
    BY <1>1, <1>12, <1>13

(* The steps that only wait for the next, and those that read what they will *)
(* drop.                                                                     *)
LEMMA TrimAgainGood ==
    ASSUME TreeTyped, TapesTyped, NEW kind, Tells(kind), NEW tapeOf, Places(tapeOf),
           NEW c \in Clients, TrimAgain(c)
    PROVE  Good
  <1> DEFINE to == [pc |-> "read"]
  <1>1. Goes(c, to) /\ UNCHANGED <<files, made, second, tapeVars>>
    BY DEF TrimAgain
  <1>2. to \in Requests /\ Holds(to, kind) /\ Recalls(to, tapeOf)
    BY DEF Requests, Waits, Holds, Recalls
  <1> HIDE DEF to
  <1> QED
    BY <1>1, <1>2, OnlyGoes

LEMMA TrimScanGood ==
    ASSUME TreeTyped, TapesTyped, NEW kind, Tells(kind), NEW tapeOf, Places(tapeOf),
           NEW c \in Clients, TrimScan(c)
    PROVE  Good
  <1> DEFINE to == [pc |-> "drop", ids |-> Dropped]
  <1>1. Goes(c, to) /\ UNCHANGED <<files, made, second, tapeVars>>
    BY DEF TrimScan, Starts
  <1>2. Dropped \subseteq Int
    BY TableIs DEF Dropped, TapesTyped
  <1>3. \A p \in Dropped : p \in DOMAIN tapeOf /\ tapeOf[p] \notin DOMAIN tapes
    BY DEF Dropped, Places, Placed
  <1>4. to \in Requests /\ Holds(to, kind) /\ Recalls(to, tapeOf)
    BY <1>2, <1>3 DEF Requests, Trims, Holds, Recalls
  <1> HIDE DEF to
  <1> QED
    BY <1>1, <1>4, OnlyGoes

LEMMA TrimScanFilesGood ==
    ASSUME TreeTyped, TapesTyped, NEW kind, Tells(kind), NEW tapeOf, Places(tapeOf),
           NEW c \in Clients, TrimScanFiles(c)
    PROVE  Good
  <1> DEFINE ids == {id \in DOMAIN files : ~files[id].dir /\ \A p \in DOMAIN positions : positions[p].file # id}
             to == [pc |-> "dropfiles", ids |-> ids]
  <1>1. Goes(c, to) /\ UNCHANGED <<files, made, second, tapeVars>>
    BY DEF TrimScanFiles
  <1>2. ids \subseteq Int
    BY TableIs DEF TreeTyped
  <1> HIDE DEF ids
  <1>3. to \in Requests /\ Holds(to, kind) /\ Recalls(to, tapeOf)
    BY <1>2 DEF Requests, Trims, Holds, Recalls
  <1> HIDE DEF to
  <1> QED
    BY <1>1, <1>3, OnlyGoes

LEMMA TrimDropGood ==
    ASSUME TreeTyped, TapesTyped, NEW kind, Tells(kind), NEW tapeOf, Places(tapeOf),
           NEW c \in Clients, TrimDrop(c)
    PROVE  Good
  <1> DEFINE gone == request[c].ids
             to == [pc |-> "scan"]
  <1>1. /\ positions' = Without(positions, gone) /\ Goes(c, to)
        /\ UNCHANGED <<files, made, second>> /\ UNCHANGED <<tapes, tapesMade, posMade>>
    BY DEF TrimDrop
  <1>2. to \in Requests /\ Holds(to, kind) /\ Recalls(to, tapeOf)
    BY DEF Requests, Waits, Holds, Recalls
  <1> HIDE DEF to, gone
  <1>3. positions \in Tables(Posis) /\ Placed(positions, tapeOf)
    BY DEF TapesTyped, Places
  <1>4. positions' \in Tables(Posis)
    BY <1>1, <1>3, WithoutIn
  <1>5. Placed(positions', tapeOf)
    BY <1>1, <1>3 DEF Placed, Without
  <1>6. TapesTyped' /\ TapesStay'
    BY <1>1, <1>2, <1>4, <1>5, PositionsStay
  <1>7. TreeTyped' /\ KindsStay'
    BY <1>1, <1>2, FilesUnchanged
  <1> QED
    BY <1>1, <1>6, <1>7 DEF Good, PlainStay

(* The only step that takes plain files. *)
LEMMA TrimDropFilesGood ==
    ASSUME TreeTyped, TapesTyped, NEW kind, Tells(kind), NEW tapeOf, Places(tapeOf),
           NEW c \in Clients, TrimDropFiles(c)
    PROVE  TreeTyped' /\ KindsStay' /\ TapesTyped' /\ TapesStay'
  <1> DEFINE gone == request[c].ids
  <1>1. /\ files' = Without(files, gone) /\ Goes(c, Idle)
        /\ made' = made /\ second' = second /\ UNCHANGED tapeVars
    BY DEF TrimDropFiles, Ends
  <1> HIDE DEF gone
  <1>2. Idle \in Requests /\ Holds(Idle, kind) /\ Recalls(Idle, tapeOf)
    BY IdleIs DEF Holds, Recalls
  <1>3. files \in Tables(Rows) /\ Kinded(files, kind)
    BY DEF TreeTyped, Tells
  <1>4. files' \in Tables(Rows)
    BY <1>1, <1>3, WithoutIn
  <1>5. Kinded(files', kind)
    BY <1>1, <1>3 DEF Kinded, Without
  <1>6. TreeTyped' /\ KindsStay'
    BY <1>1, <1>2, <1>4, <1>5, TreeStays
  <1> QED
    BY <1>1, <1>2, <1>6, TapesUnchanged

(* A new tape and its position: no position had that id, and no tape. *)
LEMMA CreateTapeGood ==
    ASSUME TreeTyped, TapesTyped, NEW kind, Tells(kind), NEW tapeOf, Places(tapeOf),
           NEW c \in Clients, NEW barcode \in Barcodes, NEW sign \in Signs, CreateTape(c, barcode, sign)
    PROVE  Good
  <1> DEFINE to == [pc |-> "read"]
             t == tapesMade + 1
             n == posMade + 1
             row == [tape |-> t, path |-> 1, sign |-> sign, file |-> 0]
  <1>1. /\ Goes(c, to) /\ tapesMade' = t /\ posMade' = n
        /\ tapes' = With(tapes, t, barcode) /\ positions' = With(positions, n, row)
        /\ UNCHANGED <<files, made, second>>
    BY DEF CreateTape, Starts
  <1>2. to \in Requests /\ to.pc = "read" /\ Holds(to, kind)
    BY DEF Requests, Waits, Holds
  <1> HIDE DEF to
  <1>3. barcode \in Nat /\ sign \in Nat /\ tapesMade \in Nat /\ posMade \in Nat
    BY TrimAssumption DEF TapesTyped
  <1>4. t \in Nat /\ n \in Nat /\ t \notin 1..tapesMade /\ n \notin 1..posMade
        /\ 1..t = (1..tapesMade) \cup {t} /\ 1..n = (1..posMade) \cup {n}
    BY <1>3
  <1>5. row \in Posis /\ row.tape = t
    BY <1>3 DEF Posis
  <1> HIDE DEF t, n, row
  <1>6. PICK more : more = [p \in (1..posMade) \cup {n} |-> IF p = n THEN t ELSE tapeOf[p]]
    OBVIOUS
  <1>7. /\ tapeOf \in [1..posMade -> 1..tapesMade] /\ DOMAIN tapes \subseteq 1..tapesMade
        /\ Placed(positions, tapeOf)
    BY DEF Places
  <1>8. /\ more \in [1..n -> 1..t] /\ DOMAIN more = (1..posMade) \cup {n} /\ more[n] = t
        /\ \A p \in 1..posMade : more[p] = tapeOf[p]
    BY <1>4, <1>6, <1>7
  <1>9. \A table : Placed(table, tapeOf) => Placed(table, more)
    BY <1>7, <1>8 DEF Placed
  <1>10. DOMAIN tapes' = DOMAIN tapes \cup {t}
    BY <1>1 DEF With
  <1>11. \A p \in DOMAIN tapeOf : tapeOf[p] # t
    BY <1>4, <1>7
  <1>12. \A r : Recalls(r, tapeOf) => Recalls(r, more)'
    BY <1>7, <1>8, <1>9, <1>10, <1>11 DEF Recalls
  <1>13. /\ request' \in [Clients -> Requests] /\ request'[c] = to
         /\ \A d \in Clients : d # c => request'[d] = request[d]
    BY <1>1, <1>2, OthersStay DEF TreeTyped
  <1>14. \A d \in Clients : Recalls(request[d], more)'
    <2> TAKE d \in Clients
    <2>1. CASE d = c
      BY <1>2, <1>13, <2>1 DEF Recalls
    <2>2. CASE d # c
      <3>1. Recalls(request[d], tapeOf)
        BY DEF Places
      <3> DEFINE r == request[d]
      <3>2. PICK same : same = r
        OBVIOUS
      <3>3. Recalls(same, more)' /\ same = request'[d]
        BY <1>12, <1>13, <2>2, <3>1, <3>2
      <3> QED
        BY <3>3
    <2> QED
      BY <2>1, <2>2
  <1>15. Placed(positions, more)
    BY <1>7, <1>9
  <1>16. Placed(positions', more)
    BY <1>1, <1>5, <1>8, <1>15 DEF Placed, With
  <1>17. DOMAIN tapes' \subseteq 1..t
    BY <1>4, <1>7, <1>10
  <1>18. Places(more)'
    BY <1>1, <1>8, <1>14, <1>16, <1>17 DEF Places
  <1>19. TapesTyped'
    <2>1. tapes \in Tables(Nat) /\ positions \in Tables(Posis) /\ t \in Int /\ n \in Int
      BY <1>4 DEF TapesTyped
    <2>2. tapes' \in Tables(Nat)
      BY <1>1, <1>3, <2>1, WithIn
    <2>3. positions' \in Tables(Posis)
      BY <1>1, <1>5, <2>1, WithIn
    <2> QED
      BY <1>1, <1>4, <2>2, <2>3 DEF TapesTyped
  <1>20. TreeTyped' /\ KindsStay'
    BY <1>1, <1>2, FilesUnchanged
  <1> QED
    BY <1>1, <1>18, <1>19, <1>20 DEF Good, PlainStay, TapesStay

LEMMA DeleteTapesGood ==
    ASSUME TreeTyped, TapesTyped, NEW kind, Tells(kind), NEW tapeOf, Places(tapeOf),
           NEW c, NEW t, DeleteTapes(c, t)
    PROVE  Good
  <1> DEFINE gone == {t}
  <1>1. tapes' = Without(tapes, gone) /\ UNCHANGED <<files, made, second, request, tapesMade, positions, posMade>>
    BY DEF DeleteTapes
  <1> HIDE DEF gone
  <1>2. tapes \in Tables(Nat)
    BY DEF TapesTyped
  <1>3. tapes' \in Tables(Nat) /\ DOMAIN tapes' \subseteq DOMAIN tapes
    <2>1. DOMAIN tapes' \subseteq DOMAIN tapes
      BY <1>1 DEF Without
    <2>2. tapes' \in Tables(Nat)
      BY <1>1, <1>2, WithoutIn
    <2> QED
      BY <2>1, <2>2
  <1>4. second' \in DOMAIN Stamps
    BY <1>1 DEF TreeTyped
  <1> QED
    BY <1>1, <1>3, <1>4, NobodyGoes
-----------------------------------------------------------------------------
(* Every step keeps what the library keeps; all but the last of a trim keep *)
(* the plain files too.                                                     *)
Dropping == \E c \in Clients : TrimDropFiles(c)

LEMMA StepIsGood ==
    ASSUME TreeTyped, TapesTyped, NEW kind, Tells(kind), NEW tapeOf, Places(tapeOf), TrimNext
    PROVE  Good \/ Dropping
  <1>1. CASE TreeNext /\ UNCHANGED tapeVars
    BY <1>1, TreeGood
  <1>2. ASSUME NEW c \in Clients, TrimHandler(c)
        PROVE  Good \/ Dropping
    BY <1>2, TrimReadGood, TrimMatchGood, TrimCreateGood, TrimTapesGood, TrimAgainGood, TrimLinkGood,
       TrimMkdirGood, TrimDropGood, TrimScanFilesGood DEF TrimHandler, Dropping
  <1>3. ASSUME NEW c \in Clients, TrimScan(c) PROVE Good
    BY <1>3, TrimScanGood
  <1>4. ASSUME NEW c \in Clients, NEW barcode \in Barcodes, NEW sign \in Signs, CreateTape(c, barcode, sign)
        PROVE  Good
    BY <1>4, CreateTapeGood
  <1>5. ASSUME NEW c \in Clients, NEW t \in 1..tapesMade, DeleteTapes(c, t) PROVE Good
    BY <1>5, DeleteTapesGood
  <1> QED
    BY <1>1, <1>2, <1>3, <1>4, <1>5 DEF TrimNext

LEMMA StepKeeps ==
    LibraryInv /\ TapesStay /\ [TrimNext]_trimVars => LibraryInv' /\ TapesStay'
  <1> SUFFICES ASSUME LibraryInv, TapesStay, [TrimNext]_trimVars
               PROVE  LibraryInv' /\ TapesStay'
    OBVIOUS
  <1>1. TreeTyped /\ TapesTyped /\ (\E kind : Tells(kind)) /\ \E tapeOf : Places(tapeOf)
    BY DEF LibraryInv, KindsStay, TapesStay
  <1>2. PICK kind : Tells(kind)
    BY <1>1
  <1>3. PICK tapeOf : Places(tapeOf)
    BY <1>1
  <1>4. CASE TrimNext
    <2>1. CASE Good
      BY <2>1 DEF Good, LibraryInv
    <2>2. ASSUME NEW c \in Clients, TrimDropFiles(c)
          PROVE  LibraryInv' /\ TapesStay'
      BY <1>1, <1>2, <1>3, <2>2, TrimDropFilesGood DEF LibraryInv
    <2>3. Good \/ Dropping
      BY <1>1, <1>2, <1>3, <1>4, StepIsGood
    <2> QED
      BY <2>1, <2>2, <2>3 DEF Dropping
  <1>5. CASE UNCHANGED trimVars
    <2>1. UNCHANGED <<files, made, second, request, tapes, tapesMade, positions, posMade>>
      BY <1>5 DEF trimVars, treeVars
    <2>2. TapesTyped => tapes' \in Tables(Nat) /\ DOMAIN tapes' \subseteq DOMAIN tapes
      BY <2>1 DEF TapesTyped
    <2>3. second' \in DOMAIN Stamps
      BY <1>1, <2>1 DEF TreeTyped
    <2>4. Good
      BY <1>1, <1>2, <1>3, <2>1, <2>2, <2>3, NobodyGoes
    <2> QED
      BY <2>4 DEF Good, LibraryInv
  <1> QED
    BY <1>4, <1>5

(* Ids of files mean a directory or a plain file for ever, rows and requests *)
(* have their types, and a position is on one tape (library/file.go, tape.go,*)
(* position.go).                                                             *)
THEOREM LibraryKeeps == LibrarySpec => [](LibraryInv /\ TapesStay)
  <1> QED
    BY LibraryStarts, StepKeeps, PTL DEF LibrarySpec

(* Whatever runs beside it, a plain file leaves the table only with the trim *)
(* a user asked for, which had found it: no move, merge, rename, deletion or *)
(* purge of the trash takes one (library/file.go:132-236).                   *)
THEOREM FilesStayInTable == LibrarySpec => FilesAreKept
  <1>1. ASSUME LibraryInv, TapesStay, TrimNext
        PROVE  \A id \in DOMAIN files : ~files[id].dir /\ id \notin DOMAIN files' =>
                 \E c \in Clients : request[c].pc = "dropfiles" /\ id \in request[c].ids
    <2>1. TreeTyped /\ TapesTyped /\ (\E kind : Tells(kind)) /\ \E tapeOf : Places(tapeOf)
      BY <1>1 DEF LibraryInv, KindsStay, TapesStay
    <2>2. PICK kind : Tells(kind)
      BY <2>1
    <2>3. PICK tapeOf : Places(tapeOf)
      BY <2>1
    <2>4. Good \/ Dropping
      BY <1>1, <2>1, <2>2, <2>3, StepIsGood
    <2>5. CASE Good
      BY <2>5 DEF Good, PlainStay
    <2>6. ASSUME NEW c \in Clients, TrimDropFiles(c), NEW id \in DOMAIN files, id \notin DOMAIN files'
          PROVE  request[c].pc = "dropfiles" /\ id \in request[c].ids
      BY <2>6 DEF TrimDropFiles, Without
    <2> QED
      BY <2>4, <2>5, <2>6 DEF Dropping
  <1>2. LibraryInv /\ TapesStay /\ [TrimNext]_trimVars =>
          [\A id \in DOMAIN files : ~files[id].dir /\ id \notin DOMAIN files' =>
             \E c \in Clients : request[c].pc = "dropfiles" /\ id \in request[c].ids]_trimVars
    BY <1>1
  <1> QED
    BY <1>2, LibraryKeeps, PTL DEF LibrarySpec, FilesAreKept

(* A trim takes no position of a tape that is there, although it reads the   *)
(* tapes long before it deletes and others come and go meanwhile: their ids  *)
(* do not come again (library/library.go:103-140).                           *)
THEOREM PositionsStayInTable == LibrarySpec => PositionsAreKept
  <1>1. ASSUME LibraryInv, TapesStay, TrimNext
        PROVE  \A p \in DOMAIN positions : p \notin DOMAIN positions' => positions[p].tape \notin DOMAIN tapes
    <2>1. \E tapeOf : Places(tapeOf)
      BY <1>1 DEF TapesStay
    <2>2. PICK tapeOf : Places(tapeOf)
      BY <2>1
    <2>3. ASSUME NEW c \in Clients, TrimDrop(c), NEW p \in DOMAIN positions, p \notin DOMAIN positions'
          PROVE  positions[p].tape \notin DOMAIN tapes
      <3>1. request[c].pc = "drop" /\ p \in request[c].ids
        BY <2>3 DEF TrimDrop, Without
      <3> QED
        BY <2>2, <3>1 DEF Places, Placed, Recalls
    <2>4. (\E c \in Clients : TrimDrop(c)) \/ DOMAIN positions \subseteq DOMAIN positions'
      <3>1. CASE TreeNext /\ UNCHANGED tapeVars
        BY <3>1 DEF tapeVars
      <3>2. ASSUME NEW c \in Clients, TrimHandler(c)
            PROVE  TrimDrop(c) \/ DOMAIN positions \subseteq DOMAIN positions'
        BY <3>2 DEF TrimHandler, TrimRead, TrimMatch, TrimCreate, TrimTapes, TrimAgain, TrimLink, TrimMkdir,
           TrimScanFiles, TrimDropFiles, tapeVars, With
      <3>3. ASSUME NEW c \in Clients, TrimScan(c) PROVE DOMAIN positions \subseteq DOMAIN positions'
        BY <3>3 DEF TrimScan, tapeVars
      <3>4. ASSUME NEW c \in Clients, NEW barcode, NEW sign, CreateTape(c, barcode, sign)
            PROVE  DOMAIN positions \subseteq DOMAIN positions'
        BY <3>4 DEF CreateTape, With
      <3>5. ASSUME NEW c \in Clients, NEW t, DeleteTapes(c, t) PROVE DOMAIN positions \subseteq DOMAIN positions'
        BY <3>5 DEF DeleteTapes
      <3> QED
        BY <1>1, <3>1, <3>2, <3>3, <3>4, <3>5 DEF TrimNext
    <2> QED
      BY <2>3, <2>4
  <1>2. LibraryInv /\ TapesStay /\ [TrimNext]_trimVars =>
          [\A p \in DOMAIN positions : p \notin DOMAIN positions' => positions[p].tape \notin DOMAIN tapes]_trimVars
    BY <1>1
  <1> QED
    BY <1>2, LibraryKeeps, PTL DEF LibrarySpec, PositionsAreKept
-----------------------------------------------------------------------------
(* What a row lies in: with every row its parent, and nothing more.         *)
UpClosed(t, A) == \A a \in A : t[a].parent \in DOMAIN t => t[a].parent \in A

LEMMA AncestorsAre ==
    ASSUME NEW t, IsFiniteSet(DOMAIN t), NEW x
    PROVE  /\ Ancestors(t, x) \subseteq DOMAIN t
           /\ x \in DOMAIN t => x \in Ancestors(t, x) /\ UpClosed(t, Ancestors(t, x))
           /\ x \notin DOMAIN t => Ancestors(t, x) = {}
           /\ \A A : UpClosed(t, A) /\ x \in A => Ancestors(t, x) \subseteq A
  <1> DEFINE N == Cardinality(DOMAIN t)
             Next(T) == (UNION {{a, t[a].parent} : a \in T}) \cap DOMAIN t
             start == {x} \cap DOMAIN t
             Runs(run) == run = [n \in 0..N |-> IF n = 0 THEN start ELSE Next(run[n - 1])]
             run == CHOOSE run : Runs(run)
             X == SUBSET DOMAIN t
             F == [T \in X |-> Next(T)]
  <1>1. N \in Nat
    BY FS_CardinalityType
  <1>2. start \subseteq DOMAIN t /\ (x \in DOMAIN t => start = {x}) /\ \A A : x \in A => start \subseteq A
    OBVIOUS
  <1>0. \A T : \A y : y \in Next(T) <=> y \in DOMAIN t /\ \E a \in T : y = a \/ y = t[a].parent
    OBVIOUS
  <1>8. Ancestors(t, x) = run[N]
    BY DEF Ancestors, run, N, Next, start
  <1>22. x \notin DOMAIN t => start = {}
    OBVIOUS
  <1>20. x \in DOMAIN t => IsFiniteSet(start) /\ Cardinality(start) = 1
    <2> HIDE DEF start
    <2> QED
      BY <1>2, FS_Singleton
  <1>21. x \in DOMAIN t => x \in start
    BY <1>2
  <1> HIDE DEF N, Next
  <1>3. \A T \in X : Next(T) \in X /\ T \subseteq Next(T)
    BY <1>0
  <1>4. \A T \in X : Next(T) = T => UpClosed(t, T)
    <2> SUFFICES ASSUME NEW T \in X, Next(T) = T, NEW a \in T, t[a].parent \in DOMAIN t
                 PROVE  t[a].parent \in T
      BY DEF UpClosed
    <2>1. t[a].parent \in Next(T)
      BY <1>0
    <2> QED
      BY <2>1
  <1>5. \A T \in X : UpClosed(t, T) => Next(T) = T
    <2> SUFFICES ASSUME NEW T \in X, UpClosed(t, T), NEW y \in Next(T)
                 PROVE  y \in T
      BY <1>3
    <2>1. PICK a \in T : (y = a \/ y = t[a].parent) /\ y \in DOMAIN t
      BY <1>0
    <2> QED
      BY <2>1 DEF UpClosed
  <1>6. \A T \in X : \A A : UpClosed(t, A) /\ T \subseteq A => Next(T) \subseteq A
    <2> SUFFICES ASSUME NEW T \in X, NEW A, UpClosed(t, A), T \subseteq A, NEW y \in Next(T)
                 PROVE  y \in A
      OBVIOUS
    <2>1. PICK a \in T : (y = a \/ y = t[a].parent) /\ y \in DOMAIN t
      BY <1>0
    <2> QED
      BY <2>1 DEF UpClosed
  <1>7. F \in [X -> X] /\ start \in X
    BY <1>3
  <1> HIDE DEF start
  <1>9. \E r : Runs(r)
    <2>1. PICK g \in [0..N -> X] : Iterates(g, start, F, N)
      <3> HIDE DEF F, X
      <3> QED
        BY <1>1, <1>7, Iteration
    <2>2. \A n \in 0..N : n # 0 => F[g[n - 1]] = Next(g[n - 1])
      BY <1>1
    <2>3. Runs(g)
      BY <2>1, <2>2 DEF Iterates
    <2> HIDE DEF Runs
    <2> QED
      BY <2>3
  <1>10. Runs(run)
    <2> HIDE DEF Runs
    <2> QED
      BY <1>9
  <1> HIDE DEF run, F
  <1>11. run[0] = start /\ \A n \in 0..N : n < N => run[n + 1] = Next(run[n])
    BY <1>1, <1>10
  <1>12. \A n \in 0..N : run[n] \in X /\ (x \in DOMAIN t => x \in run[n])
    <2> DEFINE S == {n \in 0..N : run[n] \in X /\ (x \in DOMAIN t => x \in run[n])}
    <2>1. 0 \in S
      BY <1>1, <1>7, <1>11, <1>21
    <2>2. ASSUME NEW n \in 0..N, n \in S, n < N
          PROVE  n + 1 \in S
      <3>1. run[n + 1] = Next(run[n]) /\ run[n] \in X /\ (x \in DOMAIN t => x \in run[n]) /\ n + 1 \in 0..N
        BY <1>1, <1>11, <2>2
      <3>2. Next(run[n]) \in X /\ (x \in DOMAIN t => x \in Next(run[n]))
        BY <1>3, <3>1
      <3> QED
        BY <3>1, <3>2
    <2> HIDE DEF S
    <2>3. 0..N \subseteq S
      BY <1>1, <2>1, <2>2, UpTo
    <2> QED
      BY <2>3 DEF S
  <1>13. \A A : UpClosed(t, A) /\ start \subseteq A => run[N] \subseteq A
    <2> SUFFICES ASSUME NEW A, UpClosed(t, A), start \subseteq A PROVE run[N] \subseteq A
      OBVIOUS
    <2> DEFINE S == {n \in 0..N : run[n] \subseteq A}
    <2>1. 0 \in S
      BY <1>1, <1>2, <1>11
    <2>2. ASSUME NEW n \in 0..N, n \in S, n < N
          PROVE  n + 1 \in S
      <3>1. run[n + 1] = Next(run[n]) /\ run[n] \in X /\ n + 1 \in 0..N
        BY <1>1, <1>11, <1>12, <2>2
      <3>2. Next(run[n]) \subseteq A
        BY <1>6, <2>2, <3>1
      <3> QED
        BY <3>1, <3>2
    <2> HIDE DEF S
    <2>3. 0..N \subseteq S
      BY <1>1, <2>1, <2>2, UpTo
    <2> QED
      BY <1>1, <2>3 DEF S
  <1>14. \A n \in 0..N : IsFiniteSet(run[n]) /\ Cardinality(run[n]) \in Nat /\ Cardinality(run[n]) <= N
    BY <1>12, FS_Subset, FS_CardinalityType DEF N
  <1>15. ASSUME x \in DOMAIN t PROVE UpClosed(t, run[N])
    <2> DEFINE S == {n \in 0..N : UpClosed(t, run[n]) \/ n + 1 <= Cardinality(run[n])}
    <2>1. 0 \in S
      BY <1>1, <1>11, <1>15, <1>20
    <2>2. ASSUME NEW n \in 0..N, n \in S, n < N
          PROVE  n + 1 \in S
      <3>1. run[n + 1] = Next(run[n]) /\ run[n] \in X /\ n + 1 \in 0..N
        BY <1>1, <1>11, <1>12, <2>2
      <3>2. CASE Next(run[n]) = run[n]
        <4>1. UpClosed(t, run[n + 1])
          BY <1>4, <3>1, <3>2
        <4> QED
          BY <3>1, <4>1
      <3>3. CASE Next(run[n]) # run[n]
        <4>1. n + 1 <= Cardinality(run[n])
          BY <1>5, <2>2, <3>1, <3>3
        <4>2. run[n] \in SUBSET run[n + 1]
          BY <1>3, <3>1
        <4>3. Cardinality(run[n]) <= Cardinality(run[n + 1]) /\ Cardinality(run[n]) # Cardinality(run[n + 1])
          BY <1>14, <3>1, <3>3, <4>2, FS_Subset
        <4>4. n + 2 <= Cardinality(run[n + 1])
          BY <1>14, <3>1, <4>1, <4>3
        <4> QED
          BY <3>1, <4>4
      <3> QED
        BY <3>2, <3>3
    <2> HIDE DEF S
    <2>3. 0..N \subseteq S
      BY <1>1, <2>1, <2>2, UpTo
    <2>4. N \in 0..N
      BY <1>1
    <2>5. UpClosed(t, run[N]) \/ N + 1 <= Cardinality(run[N])
      BY <2>3, <2>4 DEF S
    <2> QED
      BY <1>1, <1>14, <2>4, <2>5
  <1>16. N \in 0..N
    BY <1>1
  <1>17. x \notin DOMAIN t => run[N] = {}
    <2>1. UpClosed(t, {})
      BY DEF UpClosed
    <2> QED
      BY <1>13, <1>22, <2>1
  <1> QED
    BY <1>2, <1>8, <1>12, <1>13, <1>15, <1>16, <1>17

IsTable(t) == IsFiniteSet(DOMAIN t) /\ Root \notin DOMAIN t

LEMMA AncestorsOfParent ==
    ASSUME NEW t, IsTable(t), NEW x \in DOMAIN t, t[x].parent \in DOMAIN t
    PROVE  Ancestors(t, x) = {x} \cup Ancestors(t, t[x].parent)
  <1> DEFINE p == t[x].parent
             A == {x} \cup Ancestors(t, p)
  <1>1. p \in Ancestors(t, p) /\ UpClosed(t, Ancestors(t, p)) /\ x \in Ancestors(t, x) /\ UpClosed(t, Ancestors(t, x))
    BY AncestorsAre DEF IsTable
  <1>2. UpClosed(t, A)
    BY <1>1 DEF UpClosed
  <1>3. Ancestors(t, x) \subseteq A
    BY <1>2, AncestorsAre DEF IsTable
  <1>4. p \in Ancestors(t, x)
    BY <1>1 DEF UpClosed
  <1>5. Ancestors(t, p) \subseteq Ancestors(t, x)
    BY <1>1, <1>4, AncestorsAre DEF IsTable
  <1> QED
    BY <1>1, <1>3, <1>5

LEMMA AncestorsOfTop ==
    ASSUME NEW t, IsTable(t), NEW x \in DOMAIN t, t[x].parent \notin DOMAIN t
    PROVE  Ancestors(t, x) = {x}
  <1>1. UpClosed(t, {x})
    BY DEF UpClosed
  <1>2. Ancestors(t, x) \subseteq {x}
    BY <1>1, AncestorsAre DEF IsTable
  <1> QED
    BY <1>2, AncestorsAre DEF IsTable

LEMMA AncestorsNest ==
    ASSUME NEW t, IsTable(t), NEW y \in DOMAIN t, NEW a \in Ancestors(t, y)
    PROVE  a \in DOMAIN t /\ Ancestors(t, a) \subseteq Ancestors(t, y)
  BY AncestorsAre DEF IsTable

(* Of two that something lies in, one lies in the other.                    *)
LEMMA AncestorsChain ==
    ASSUME NEW t, IsTable(t), NEW y \in DOMAIN t, NEW a \in Ancestors(t, y), NEW b \in Ancestors(t, y)
    PROVE  a \in Ancestors(t, b) \/ b \in Ancestors(t, a)
  <1> DEFINE Y == {z \in DOMAIN t : a \in Ancestors(t, z)} \cup Ancestors(t, a)
  <1>1. a \in DOMAIN t /\ UpClosed(t, Ancestors(t, a)) /\ a \in Ancestors(t, a)
    BY AncestorsAre DEF IsTable
  <1>2. ASSUME NEW z \in Y, t[z].parent \in DOMAIN t
        PROVE  t[z].parent \in Y
    <2>1. CASE z \in Ancestors(t, a)
      BY <1>1, <1>2, <2>1 DEF UpClosed
    <2>2. CASE z \in DOMAIN t /\ a \in Ancestors(t, z) /\ z # a
      BY <1>2, <2>2, AncestorsOfParent
    <2> QED
      BY <1>1, <1>2, <2>1, <2>2
  <1>3. UpClosed(t, Y)
    BY <1>2 DEF UpClosed
  <1>4. y \in Y
    OBVIOUS
  <1> HIDE DEF Y
  <1>5. Ancestors(t, y) \subseteq Y
    BY <1>3, <1>4, AncestorsAre DEF IsTable
  <1> QED
    BY <1>5 DEF Y
-----------------------------------------------------------------------------
(* What can be come to from the root is closed upwards, and the least set   *)
(* that has a row with its parent.                                          *)
Reached(t) == {x \in DOMAIN t : Reachable(t, x)}

LEMMA ReachableIs ==
    ASSUME NEW t, IsTable(t), NEW x
    PROVE  Reachable(t, x) <=> x \in Reached(t)
  BY AncestorsAre DEF IsTable, Reachable, Reached

(* A user comes to a row from the root or from a row that he comes to.      *)
LEMMA ReachedGrows ==
    ASSUME NEW t, IsTable(t), NEW x \in DOMAIN t
    PROVE  x \in Reached(t) <=> t[x].parent = Root \/ t[x].parent \in Reached(t)
  <1> DEFINE p == t[x].parent
  <1>1. CASE p \in DOMAIN t
    <2>1. Ancestors(t, x) = {x} \cup Ancestors(t, p)
      BY <1>1, AncestorsOfParent
    <2>2. p # Root
      BY <1>1 DEF IsTable
    <2> QED
      BY <1>1, <2>1, <2>2 DEF Reached, Reachable
  <1>2. CASE p \notin DOMAIN t
    <2>1. Ancestors(t, x) = {x}
      BY <1>2, AncestorsOfTop
    <2> QED
      BY <1>2, <2>1 DEF Reached, Reachable
  <1> QED
    BY <1>1, <1>2

Downward(t, Z) == \A x \in Reached(t) : t[x].parent = Root \/ t[x].parent \in Z => x \in Z

(* Induction down the tree.                                                 *)
LEMMA ReachedLeast ==
    ASSUME NEW t, IsTable(t), NEW Z, Downward(t, Z)
    PROVE  Reached(t) \subseteq Z
  <1> DEFINE Y == Reached(t) \ Z
  <1>1. SUFFICES ASSUME NEW x \in Y PROVE FALSE
    OBVIOUS
  <1>2. UpClosed(t, Y)
    <2> SUFFICES ASSUME NEW y \in Y, t[y].parent \in DOMAIN t PROVE t[y].parent \in Y
      BY DEF UpClosed
    <2>1. y \in Reached(t) /\ y \notin Z /\ y \in DOMAIN t
      BY DEF Reached
    <2>2. t[y].parent # Root /\ t[y].parent \notin Z
      BY <2>1 DEF Downward
    <2> QED
      BY <2>1, <2>2, ReachedGrows
  <1>3. Ancestors(t, x) \subseteq Y
    <2> HIDE DEF Y
    <2> QED
      BY <1>2, AncestorsAre DEF IsTable
  <1>4. PICK a \in Ancestors(t, x) : t[a].parent = Root
    BY DEF Reached, Reachable
  <1> QED
    BY <1>3, <1>4 DEF Downward

(* What is reached lies in nothing that lies in it.                         *)
LEMMA ReachedOnce ==
    ASSUME NEW t, IsTable(t), NEW x \in Reached(t)
    PROVE  x \notin Ancestors(t, t[x].parent)
  <1> DEFINE Z == {z \in Reached(t) : z \notin Ancestors(t, t[z].parent)}
  <1>1. ASSUME NEW z \in Reached(t), t[z].parent = Root \/ t[z].parent \in Z
        PROVE  z \in Z
    <2> DEFINE p == t[z].parent
    <2>0. z \in DOMAIN t
      BY DEF Reached
    <2>1. CASE p \notin DOMAIN t
      BY <2>1, AncestorsAre DEF IsTable
    <2>2. CASE p \in DOMAIN t /\ z \in Ancestors(t, p)
      <3>1. p \in Z
        BY <1>1, <2>2 DEF IsTable
      <3>2. p # z
        BY <2>2, <3>1
      <3>3. t[p].parent \in DOMAIN t /\ z \in Ancestors(t, t[p].parent)
        BY <2>2, <3>2, AncestorsOfParent, AncestorsOfTop
      <3>4. Ancestors(t, z) \subseteq Ancestors(t, t[p].parent)
        BY <3>3, AncestorsNest
      <3>5. p \in Ancestors(t, z)
        BY <2>0, <2>2, AncestorsOfParent, AncestorsAre DEF IsTable
      <3> QED
        BY <3>1, <3>4, <3>5
    <2> QED
      BY <2>1, <2>2
  <1>2. Downward(t, Z)
    BY <1>1 DEF Downward
  <1> HIDE DEF Z
  <1>3. Reached(t) \subseteq Z
    BY <1>2, ReachedLeast
  <1> QED
    BY <1>3 DEF Z
-----------------------------------------------------------------------------
(* A set of states that a step of moveFile does not leave has its last.     *)
StepsWithin(X) == \A s \in X : MoveStep(s) \in X
Ended(table, end) == IF end.ok /\ end.calls = <<>> THEN Done(end.files) ELSE Fails(table)
Start(table, id, row) == [ok |-> TRUE, files |-> table, calls |-> <<Looks(id, row)>>]

LEMMA MoveRuns ==
    ASSUME NEW X, StepsWithin(X), NEW table, IsFiniteSet(DOMAIN table), NEW id, NEW row, Start(table, id, row) \in X
    PROVE  \E end \in X : moveFile(table, id, row) = Ended(table, end)
  <1> DEFINE N == MaxSteps(table)
             start == Start(table, id, row)
             Runs(run) == run = [n \in 0..N |-> IF n = 0 THEN {start} ELSE {MoveStep(s) : s \in run[n - 1]}]
             run == CHOOSE run : Runs(run)
             end == CHOOSE s \in run[N] : TRUE
             Y == {{s} : s \in X}
             F == [T \in Y |-> {MoveStep(s) : s \in T}]
             first == {start}
  <1>1. N \in Nat
    BY FS_CardinalityType DEF MaxSteps
  <1>3. \A T \in Y : {MoveStep(s) : s \in T} \in Y
    <2> TAKE T \in Y
    <2>1. PICK s \in X : T = {s}
      OBVIOUS
    <2>2. MoveStep(s) \in X
      BY DEF StepsWithin
    <2>3. {MoveStep(r) : r \in T} = {MoveStep(s)}
      BY <2>1
    <2> QED
      BY <2>2, <2>3
  <1>4. {start} \in Y
    OBVIOUS
  <1>5. F \in [Y -> Y]
    BY <1>3
  <1>11. moveFile(table, id, row) = Ended(table, end)
    BY DEF moveFile, Ended, Start
  <1> HIDE DEF N, start, Y
  <1>6. \E r : Runs(r)
    <2>1. PICK g \in [0..N -> Y] : Iterates(g, first, F, N)
      <3> HIDE DEF F, first
      <3>1. first \in Y
        BY <1>4 DEF first
      <3> QED
        BY <1>1, <1>5, <3>1, Iteration
    <2>2. \A n \in 0..N : n # 0 => F[g[n - 1]] = {MoveStep(s) : s \in g[n - 1]}
      BY <1>1
    <2>3. Runs(g)
      BY <2>1, <2>2 DEF Iterates
    <2> HIDE DEF Runs
    <2> QED
      BY <2>3
  <1>7. Runs(run)
    <2> HIDE DEF Runs
    <2> QED
      BY <1>6
  <1> HIDE DEF run
  <1>8. run[0] = {start} /\ \A n \in 0..N : n < N => run[n + 1] = {MoveStep(s) : s \in run[n]}
    BY <1>1, <1>7
  <1>9. run[N] \in Y
    <2> DEFINE S == {n \in 0..N : run[n] \in Y}
    <2>0. run[0] = {start} /\ 0 \in 0..N
      BY <1>1, <1>8
    <2>1. 0 \in S
      BY <1>4, <2>0
    <2>2. \A n \in 0..N : n \in S /\ n < N => n + 1 \in S
      BY <1>1, <1>3, <1>8
    <2> HIDE DEF S
    <2>3. 0..N \subseteq S
      BY <1>1, <2>1, <2>2, UpTo
    <2> QED
      BY <1>1, <2>3 DEF S
  <1>10. end \in X
    BY <1>9 DEF Y
  <1> QED
    BY <1>10, <1>11
-----------------------------------------------------------------------------
(* What is reached stays so when all keep their parent, or are moved, all    *)
(* that lies below them with them, to what is reached and lies outside.      *)
Outward(t, S) == \A x \in DOMAIN t : t[x].parent \in S => x \in S
Settles(t, u, S) ==
    \A x \in Reached(t) : x \in DOMAIN u =>
        /\ u[x].parent = Root \/ u[x].parent \in DOMAIN u
        /\ \/ u[x].parent = t[x].parent
           \/ x \in S /\ u[x].parent \notin S /\ (u[x].parent = Root \/ u[x].parent \in Reached(t))
StaysReached(t, u) == Reached(t) \cap DOMAIN u \subseteq Reached(u)

LEMMA SettledStays ==
    ASSUME NEW t, IsTable(t), NEW u, IsTable(u), NEW S, Outward(t, S), Settles(t, u, S)
    PROVE  StaysReached(t, u)
  <1> DEFINE Stays(x) == x \in DOMAIN u => x \in Reached(u)
             Outer == {x \in Reached(t) : x \notin S => Stays(x)}
             All == {x \in Reached(t) : Stays(x)}
  <1>0. Reached(t) \subseteq DOMAIN t
    BY DEF Reached
  <1>1. ASSUME NEW x \in Reached(t), t[x].parent = Root \/ t[x].parent \in Outer, x \notin S, x \in DOMAIN u
        PROVE  x \in Reached(u)
    <2>1. u[x].parent = t[x].parent /\ (u[x].parent = Root \/ u[x].parent \in DOMAIN u)
      BY <1>1 DEF Settles
    <2>2. t[x].parent \notin S
      BY <1>0, <1>1 DEF Outward
    <2>3. u[x].parent = Root \/ u[x].parent \in Reached(u)
      BY <1>1, <2>1, <2>2
    <2> QED
      BY <1>1, <2>3, ReachedGrows
  <1>2. Downward(t, Outer)
    BY <1>1 DEF Downward
  <1> HIDE DEF Outer
  <1>3. Reached(t) \subseteq Outer
    BY <1>2, ReachedLeast
  <1>4. ASSUME NEW x \in Reached(t), t[x].parent = Root \/ t[x].parent \in All, x \in DOMAIN u
        PROVE  x \in Reached(u)
    <2>1. /\ u[x].parent = Root \/ u[x].parent \in DOMAIN u
          /\ \/ u[x].parent = t[x].parent
             \/ x \in S /\ u[x].parent \notin S /\ (u[x].parent = Root \/ u[x].parent \in Reached(t))
      BY <1>4 DEF Settles
    <2>3. u[x].parent = Root \/ u[x].parent \in Reached(u)
      BY <1>3, <1>4, <2>1 DEF Outer
    <2> QED
      BY <1>4, <2>3, ReachedGrows
  <1>5. Downward(t, All)
    BY <1>4 DEF Downward
  <1> HIDE DEF All
  <1>6. Reached(t) \subseteq All
    BY <1>5, ReachedLeast
  <1> QED
    BY <1>6 DEF All, StaysReached

(* The simplest case: nothing is moved, and nothing loses its parent.        *)
LEMMA UnmovedStays ==
    ASSUME NEW t, IsTable(t), NEW u, IsTable(u),
           \A x \in Reached(t) : x \in DOMAIN u =>
               u[x].parent = t[x].parent /\ (u[x].parent = Root \/ u[x].parent \in DOMAIN u)
    PROVE  StaysReached(t, u)
  <1>1. Outward(t, {}) /\ Settles(t, u, {})
    BY DEF Outward, Settles
  <1> QED
    BY <1>1, SettledStays

Below(t, r) == {y \in DOMAIN t : r \in Ancestors(t, y)}

LEMMA BelowIs ==
    ASSUME NEW t, IsTable(t), NEW r
    PROVE  /\ Outward(t, Below(t, r))
           /\ r \in DOMAIN t => r \in Below(t, r)
           /\ r \in Reached(t) => Below(t, r) \subseteq Reached(t)
           /\ \A y \in Below(t, r) : y = r \/ t[y].parent \in Below(t, r)
  <1>1. ASSUME NEW x \in DOMAIN t, t[x].parent \in Below(t, r)
        PROVE  x \in Below(t, r)
    BY <1>1, AncestorsOfParent DEF Below
  <1>2. r \in DOMAIN t => r \in Below(t, r)
    BY AncestorsAre DEF IsTable, Below
  <1>3. ASSUME r \in Reached(t), NEW y \in Below(t, r)
        PROVE  y \in Reached(t)
    <2>1. y \in DOMAIN t /\ Ancestors(t, r) \subseteq Ancestors(t, y)
      BY AncestorsNest DEF Below
    <2> QED
      BY <1>3, <2>1 DEF Reached, Reachable
  <1>4. ASSUME NEW y \in Below(t, r), y # r
        PROVE  t[y].parent \in Below(t, r)
    <2>1. y \in DOMAIN t /\ r \in Ancestors(t, y)
      BY DEF Below
    <2>2. CASE t[y].parent \notin DOMAIN t
      BY <1>4, <2>1, <2>2, AncestorsOfTop
    <2> QED
      BY <1>4, <2>1, <2>2, AncestorsOfParent DEF Below
  <1> QED
    BY <1>1, <1>2, <1>3, <1>4 DEF Outward
-----------------------------------------------------------------------------
UniqueNames(t) == \A a, b \in DOMAIN t : t[a].parent = t[b].parent /\ t[a].name = t[b].name => a = b

(* Two directories meet: neither lies in the other, unless it is one.       *)
Meets(t, a0, o0) ==
    /\ t \in Tables(Rows) /\ IsTable(t) /\ UniqueNames(t)
    /\ a0 \in Reached(t) /\ o0 \in Reached(t)
    /\ a0 = o0 \/ (a0 \notin Ancestors(t, o0) /\ o0 \notin Ancestors(t, a0))

(* What a merge of the first into the second may put together: what has the *)
(* same names from either down.                                             *)
Pairs(t) == (DOMAIN t) \X (DOMAIN t)
SameNames(t, a, o, b, p) == t[b].parent = a /\ t[p].parent = o /\ t[b].name = t[p].name
TwinClosed(t, Z) ==
    \A a, o, b, p \in DOMAIN t : <<a, o>> \in Z /\ SameNames(t, a, o, b, p) => <<b, p>> \in Z
Twins(t, a0, o0) == {z \in Pairs(t) : \A Z \in SUBSET Pairs(t) : <<a0, o0>> \in Z /\ TwinClosed(t, Z) => z \in Z}
Twin(t, a0, o0, a, o) == <<a, o>> \in Twins(t, a0, o0)

LEMMA TwinsAre ==
    ASSUME NEW t, NEW a0 \in DOMAIN t, NEW o0 \in DOMAIN t
    PROVE  /\ Twins(t, a0, o0) \in SUBSET Pairs(t)
           /\ Twin(t, a0, o0, a0, o0)
           /\ TwinClosed(t, Twins(t, a0, o0))
           /\ \A Z \in SUBSET Pairs(t) : <<a0, o0>> \in Z /\ TwinClosed(t, Z) => Twins(t, a0, o0) \subseteq Z
  <1> DEFINE T == Twins(t, a0, o0)
  <1>1. T \in SUBSET Pairs(t)
    BY DEF Twins
  <1>2. \A Z \in SUBSET Pairs(t) : <<a0, o0>> \in Z /\ TwinClosed(t, Z) => T \subseteq Z
    BY DEF Twins
  <1>3. <<a0, o0>> \in T
    BY DEF Twins, Pairs
  <1>4. ASSUME NEW a \in DOMAIN t, NEW o \in DOMAIN t, NEW b \in DOMAIN t, NEW p \in DOMAIN t,
               <<a, o>> \in T, SameNames(t, a, o, b, p)
        PROVE  <<b, p>> \in T
    <2>1. ASSUME NEW Z \in SUBSET Pairs(t), <<a0, o0>> \in Z, TwinClosed(t, Z)
          PROVE  <<b, p>> \in Z
      <3>1. <<a, o>> \in Z
        BY <1>2, <1>4, <2>1
      <3> QED
        BY <1>4, <2>1, <3>1 DEF TwinClosed
    <2>2. <<b, p>> \in Pairs(t)
      BY DEF Pairs
    <2> QED
      BY <2>1, <2>2 DEF Twins
  <1> QED
    BY <1>1, <1>2, <1>3, <1>4 DEF Twin, TwinClosed

(* A property of pairs that the first has, and with a pair those below it.  *)
TwinStep(t, a0, o0, Z) ==
    \A a, o, b, p \in DOMAIN t :
        <<a, o>> \in Z /\ Twin(t, a0, o0, a, o) /\ Twin(t, a0, o0, b, p) /\ SameNames(t, a, o, b, p) => <<b, p>> \in Z

(* Induction over the pairs.                                                *)
LEMMA TwinInduction ==
    ASSUME NEW t, NEW a0 \in DOMAIN t, NEW o0 \in DOMAIN t, NEW Z, <<a0, o0>> \in Z, TwinStep(t, a0, o0, Z)
    PROVE  \A a, o : Twin(t, a0, o0, a, o) => a \in DOMAIN t /\ o \in DOMAIN t /\ <<a, o>> \in Z
  <1> DEFINE T == Twins(t, a0, o0)
             Y == T \cap Z
  <1>1. /\ T \in SUBSET Pairs(t) /\ <<a0, o0>> \in T /\ TwinClosed(t, T)
        /\ \A A \in SUBSET Pairs(t) : <<a0, o0>> \in A /\ TwinClosed(t, A) => T \subseteq A
    BY TwinsAre DEF Twin
  <1>2. TwinClosed(t, Y)
    BY <1>1 DEF TwinClosed, TwinStep, Twin
  <1>3. T \subseteq Y
    BY <1>1, <1>2
  <1> QED
    BY <1>1, <1>3 DEF Twin, Pairs

LEMMA TwinsFrom ==
    ASSUME NEW t, NEW a0 \in DOMAIN t, NEW o0 \in DOMAIN t, NEW b, NEW p, Twin(t, a0, o0, b, p)
    PROVE  /\ b \in DOMAIN t /\ p \in DOMAIN t
           /\ \/ b = a0 /\ p = o0
              \/ Twin(t, a0, o0, t[b].parent, t[p].parent) /\ t[b].name = t[p].name
  <1> DEFINE Z == {z \in Pairs(t) : \/ z = <<a0, o0>>
                                    \/ Twin(t, a0, o0, t[z[1]].parent, t[z[2]].parent) /\ t[z[1]].name = t[z[2]].name}
  <1>1. <<a0, o0>> \in Z
    BY DEF Pairs
  <1>2. TwinStep(t, a0, o0, Z)
    BY DEF TwinStep, SameNames, Pairs
  <1>3. \A a, o \in DOMAIN t : <<a, o>> \in Z =>
          \/ a = a0 /\ o = o0
          \/ Twin(t, a0, o0, t[a].parent, t[o].parent) /\ t[a].name = t[o].name
    OBVIOUS
  <1> HIDE DEF Z
  <1>4. b \in DOMAIN t /\ p \in DOMAIN t /\ <<b, p>> \in Z
    BY <1>1, <1>2, TwinInduction
  <1> QED
    BY <1>3, <1>4

LEMMA TwinsBelow ==
    ASSUME NEW t, NEW a0, NEW o0, Meets(t, a0, o0), NEW a, NEW o, Twin(t, a0, o0, a, o)
    PROVE  a \in Below(t, a0) /\ o \in Below(t, o0)
  <1> DEFINE Z == Below(t, a0) \X Below(t, o0)
  <1>1. a0 \in DOMAIN t /\ o0 \in DOMAIN t /\ IsTable(t)
    BY DEF Meets, Reached
  <1>2. /\ Outward(t, Below(t, a0)) /\ a0 \in Below(t, a0)
        /\ Outward(t, Below(t, o0)) /\ o0 \in Below(t, o0)
    BY <1>1, BelowIs
  <1>3. TwinStep(t, a0, o0, Z)
    BY <1>2 DEF TwinStep, Outward, SameNames
  <1>4. <<a0, o0>> \in Z
    BY <1>2
  <1>5. <<a, o>> \in Z
    <2> HIDE DEF Z
    <2> QED
      BY <1>1, <1>3, <1>4, TwinInduction
  <1> QED
    BY <1>5

(* Below one directory and below the other is nothing twice.                *)
LEMMA MeetsApart ==
    ASSUME NEW t, NEW a0, NEW o0, Meets(t, a0, o0)
    PROVE  /\ a0 # o0 => Below(t, a0) \cap Below(t, o0) = {}
           /\ a0 = o0 => \A a, o : Twin(t, a0, o0, a, o) => a = o
  <1>1. a0 \in DOMAIN t /\ o0 \in DOMAIN t /\ IsTable(t) /\ UniqueNames(t)
    BY DEF Meets, Reached
  <1>2. ASSUME a0 # o0, NEW y \in Below(t, a0), y \in Below(t, o0)
        PROVE  FALSE
    BY <1>1, <1>2, AncestorsChain DEF Below, Meets
  <1>3. ASSUME a0 = o0, NEW a, NEW o, Twin(t, a0, o0, a, o)
        PROVE  a = o
    <2> DEFINE Z == {z \in Pairs(t) : z[1] = z[2]}
    <2>1. <<a0, o0>> \in Z
      BY <1>1, <1>3 DEF Pairs
    <2>2. TwinStep(t, a0, o0, Z)
      BY <1>1 DEF TwinStep, SameNames, UniqueNames, Pairs
    <2>3. \A x, y : <<x, y>> \in Z => x = y
      OBVIOUS
    <2> HIDE DEF Z
    <2> QED
      BY <1>1, <1>3, <2>1, <2>2, <2>3, TwinInduction
  <1> QED
    BY <1>2, <1>3

(* No two rows are put together with the same one.                          *)
LEMMA TwinsOne ==
    ASSUME NEW t, NEW a0, NEW o0, Meets(t, a0, o0),
           NEW a, NEW b, NEW o, Twin(t, a0, o0, a, o), Twin(t, a0, o0, b, o)
    PROVE  a = b
  <1>1. a0 \in DOMAIN t /\ o0 \in DOMAIN t /\ IsTable(t) /\ UniqueNames(t) /\ o0 \in Reached(t)
    BY DEF Meets, Reached
  <1>2. \A x, y : Twin(t, a0, o0, x, y) => y \in Below(t, o0)
    BY TwinsBelow
  <1>3. t[o0].parent \notin Below(t, o0)
    BY <1>1, ReachedOnce DEF Below
  <1> DEFINE Z == {z \in Pairs(t) : \A c : Twin(t, a0, o0, c, z[2]) => c = z[1]}
  <1>4. \A c : Twin(t, a0, o0, c, o0) => c = a0
    BY <1>1, <1>2, <1>3, TwinsFrom
  <1>5. \A x, y \in DOMAIN t : <<x, y>> \in Z <=> \A c : Twin(t, a0, o0, c, y) => c = x
    BY DEF Pairs
  <1>6. <<a0, o0>> \in Z
    BY <1>1, <1>4, <1>5
  <1> HIDE DEF Z
  <1>7. ASSUME NEW x \in DOMAIN t, NEW y \in DOMAIN t, NEW d \in DOMAIN t, NEW p \in DOMAIN t,
               <<x, y>> \in Z, Twin(t, a0, o0, x, y), SameNames(t, x, y, d, p), NEW c, Twin(t, a0, o0, c, p)
        PROVE  c = d
    <2>1. t[p].parent = y /\ y \in Below(t, o0)
      BY <1>2, <1>7 DEF SameNames
    <2>2. p # o0
      BY <1>3, <2>1
    <2>3. c \in DOMAIN t /\ Twin(t, a0, o0, t[c].parent, y) /\ t[c].name = t[p].name
      BY <1>1, <1>7, <2>1, <2>2, TwinsFrom
    <2>4. t[c].parent = x
      BY <1>5, <1>7, <2>3
    <2> QED
      BY <1>1, <1>7, <2>3, <2>4 DEF SameNames, UniqueNames
  <1>8. TwinStep(t, a0, o0, Z)
    BY <1>5, <1>7 DEF TwinStep
  <1>9. a \in DOMAIN t /\ o \in DOMAIN t /\ <<a, o>> \in Z
    BY <1>1, <1>6, <1>8, TwinInduction
  <1> QED
    BY <1>5, <1>9
-----------------------------------------------------------------------------
(* The table in a merge: rows are as they were, or have the twin of their   *)
(* parent for a parent, and nothing is left alone.                          *)
Moved(t0, a0, o0, t, x) ==
    /\ t[x].name = t0[x].name /\ t[x].parent # t0[x].parent
    /\ Twin(t0, a0, o0, t0[x].parent, t[x].parent)
MergeTable(t0, a0, o0, t) ==
    /\ t \in Tables(Rows)
    /\ \A x \in DOMAIN t : x \in DOMAIN t0 /\ (t[x] = t0[x] \/ Moved(t0, a0, o0, t, x))
    /\ \A x \in DOMAIN t : x \in Reached(t0) => t[x].parent = Root \/ t[x].parent \in DOMAIN t

(* A call that moves the children of a directory: those it has yet to come  *)
(* to, and the one that is moved now, are all there are, and where they were.*)
Untouched(t0, t, id, x) == x \in DOMAIN t0 /\ x \in DOMAIN t /\ t[x] = t0[x] /\ t0[x].parent = id
Leads(t0, a0, o0, t, call, o) ==
    /\ o \in DOMAIN t /\ Twin(t0, a0, o0, call.id, o)
    /\ \A x \in DOMAIN call.left : call.left[x] = [t0[x] EXCEPT !.parent = o]
Frame(t0, a0, o0, t, call, above) ==
    /\ call.id \in DOMAIN t /\ t[call.id] = t0[call.id]
    /\ above \cap DOMAIN call.left = {}
    /\ \A x \in DOMAIN call.left \cup above : Untouched(t0, t, call.id, x)
    /\ \A x \in DOMAIN t : t[x].parent = call.id => x \in DOMAIN call.left \cup above
    /\ \E o : Leads(t0, a0, o0, t, call, o)

(* A call that looks for a name: below the twin of the old parent.          *)
Onto(t0, a0, o0, t, call) ==
    \E o \in DOMAIN t : /\ Twin(t0, a0, o0, t0[call.id].parent, o)
                        /\ call.row = [t0[call.id] EXCEPT !.parent = o]

LEMMA RowMoved ==
    ASSUME NEW r \in Rows, NEW o \in Int
    PROVE  LET n == [r EXCEPT !.parent = o]
           IN  n \in Rows /\ n.parent = o /\ n.name = r.name /\ n.dir = r.dir /\ (r.parent = o => n = r)
  BY DEF Rows

LEMMA MeetsFacts ==
    ASSUME NEW t0, NEW a0, NEW o0, Meets(t0, a0, o0)
    PROVE  /\ IsTable(t0) /\ UniqueNames(t0) /\ DOMAIN t0 \subseteq Int /\ \A x \in DOMAIN t0 : t0[x] \in Rows
           /\ a0 \in DOMAIN t0 /\ o0 \in DOMAIN t0
           /\ \A a, o : Twin(t0, a0, o0, a, o) =>
                /\ a \in Below(t0, a0) /\ o \in Below(t0, o0)
                /\ a \in Reached(t0) /\ o \in Reached(t0) /\ a \in DOMAIN t0 /\ o \in DOMAIN t0
                /\ a = o <=> a0 = o0
           /\ a0 # o0 => \A x \in Below(t0, a0) : x \notin Below(t0, o0)
  <1>1. IsTable(t0) /\ UniqueNames(t0) /\ DOMAIN t0 \subseteq Int /\ \A x \in DOMAIN t0 : t0[x] \in Rows
    BY TableIs DEF Meets
  <1>2. a0 \in DOMAIN t0 /\ o0 \in DOMAIN t0 /\ a0 \in Reached(t0) /\ o0 \in Reached(t0)
    BY DEF Meets, Reached
  <1>3. a0 # o0 => \A x \in Below(t0, a0) : x \notin Below(t0, o0)
    BY MeetsApart
  <1>4. ASSUME NEW a, NEW o, Twin(t0, a0, o0, a, o)
        PROVE  /\ a \in Below(t0, a0) /\ o \in Below(t0, o0)
               /\ a \in Reached(t0) /\ o \in Reached(t0) /\ a \in DOMAIN t0 /\ o \in DOMAIN t0
               /\ a = o <=> a0 = o0
    <2>1. a \in Below(t0, a0) /\ o \in Below(t0, o0)
      BY <1>4, TwinsBelow
    <2>2. a \in Reached(t0) /\ o \in Reached(t0)
      BY <1>1, <1>2, <2>1, BelowIs
    <2>3. a0 = o0 => a = o
      BY <1>4, MeetsApart
    <2> QED
      BY <1>3, <2>1, <2>2, <2>3 DEF Reached
  <1> QED
    BY <1>1, <1>2, <1>3, <1>4

(* What is found under the name is the twin of what is moved.               *)
LEMMA FoundIsTwin ==
    ASSUME NEW t0, NEW a0, NEW o0, Meets(t0, a0, o0), NEW t, MergeTable(t0, a0, o0, t),
           NEW c, Untouched(t0, t, t0[c].parent, c), NEW o, Twin(t0, a0, o0, t0[c].parent, o),
           NEW found \in DOMAIN t, t[found].parent = o, t[found].name = t0[c].name
    PROVE  Twin(t0, a0, o0, c, found)
  <1>1. c \in DOMAIN t0 /\ c \in DOMAIN t /\ t[c] = t0[c]
    BY DEF Untouched
  <1>2. found \in DOMAIN t0 /\ (t[found] = t0[found] \/ Moved(t0, a0, o0, t, found))
    BY DEF MergeTable
  <1>3. UniqueNames(t0) /\ a0 \in DOMAIN t0 /\ o0 \in DOMAIN t0
    BY MeetsFacts
  <1>4. t0[c].parent \in DOMAIN t0 /\ o \in DOMAIN t0
    BY MeetsFacts
  <1>5. CASE t[found] = t0[found]
    <2>1. SameNames(t0, t0[c].parent, o, c, found)
      BY <1>5 DEF SameNames
    <2>2. TwinClosed(t0, Twins(t0, a0, o0))
      BY <1>3, TwinsAre
    <2> QED
      BY <1>1, <1>2, <1>4, <2>1, <2>2 DEF Twin, TwinClosed
  <1>6. CASE Moved(t0, a0, o0, t, found)
    <2>1. t0[found].parent = t0[c].parent
      BY <1>6, TwinsOne DEF Moved
    <2>2. found = c
      BY <1>1, <1>2, <1>3, <1>6, <2>1 DEF Moved, UniqueNames
    <2> QED
      BY <1>1, <1>6, <2>2 DEF Moved
  <1> QED
    BY <1>2, <1>5, <1>6

(* What a merged directory has when it is come to, it always had.           *)
LEMMA ContentsUntouched ==
    ASSUME NEW t0, NEW a0, NEW o0, Meets(t0, a0, o0), NEW t, MergeTable(t0, a0, o0, t),
           NEW c \in Below(t0, a0), NEW x \in DOMAIN t, t[x].parent = c
    PROVE  Untouched(t0, t, c, x)
  <1>1. x \in DOMAIN t0 /\ (t[x] = t0[x] \/ Moved(t0, a0, o0, t, x))
    BY DEF MergeTable
  <1>2. ~Moved(t0, a0, o0, t, x)
    BY MeetsFacts DEF Moved
  <1> QED
    BY <1>1, <1>2 DEF Untouched

LEMMA FrameBegins ==
    ASSUME NEW t0, NEW a0, NEW o0, Meets(t0, a0, o0), NEW t, MergeTable(t0, a0, o0, t),
           NEW c \in DOMAIN t, t[c] = t0[c], NEW o \in DOMAIN t, Twin(t0, a0, o0, c, o), NEW row
    PROVE  Frame(t0, a0, o0, t, Merges(c, row, Contents(t, c, o)), {})
  <1> DEFINE left == Contents(t, c, o)
             call == Merges(c, row, left)
  <1>1. call.id = c /\ call.left = left
    BY DEF Merges
  <1>2. /\ DOMAIN left = {x \in DOMAIN t : t[x].parent = c}
        /\ \A x \in DOMAIN left : left[x] = [t[x] EXCEPT !.parent = o]
    BY DEF Contents
  <1> HIDE DEF left, call
  <1>3. c \in Below(t0, a0)
    BY MeetsFacts
  <1>4. \A x \in DOMAIN left : Untouched(t0, t, c, x)
    BY <1>2, <1>3, ContentsUntouched
  <1>5. Leads(t0, a0, o0, t, call, o)
    BY <1>1, <1>2, <1>4 DEF Leads, Untouched
  <1>6. Frame(t0, a0, o0, t, call, {})
    BY <1>1, <1>2, <1>4, <1>5 DEF Frame
  <1> QED
    BY <1>6 DEF call, left

LEMMA FrameGoesOn ==
    ASSUME NEW t0, NEW a0, NEW o0, NEW t, NEW call, Frame(t0, a0, o0, t, call, {}), NEW child \in DOMAIN call.left
    PROVE  /\ Frame(t0, a0, o0, t, Merges(call.id, call.row, Without(call.left, {child})), {child})
           /\ Onto(t0, a0, o0, t, Looks(child, call.left[child]))
  <1> DEFINE rest == Without(call.left, {child})
             next == Merges(call.id, call.row, rest)
             look == Looks(child, call.left[child])
  <1>1. next.id = call.id /\ next.left = rest /\ look.id = child /\ look.row = call.left[child]
    BY DEF Merges, Looks
  <1>2. DOMAIN rest = DOMAIN call.left \ {child} /\ \A x \in DOMAIN rest : rest[x] = call.left[x]
    BY WithoutIs
  <1> HIDE DEF rest, next, look
  <1>3. PICK o : Leads(t0, a0, o0, t, call, o)
    BY DEF Frame
  <1>4. Leads(t0, a0, o0, t, next, o)
    BY <1>1, <1>2, <1>3 DEF Leads
  <1>5. Frame(t0, a0, o0, t, next, {child})
    BY <1>1, <1>2, <1>4 DEF Frame
  <1>6. t0[child].parent = call.id
    BY DEF Frame, Untouched
  <1>7. Onto(t0, a0, o0, t, look)
    BY <1>1, <1>3, <1>6 DEF Onto, Leads
  <1> QED
    BY <1>5, <1>7 DEF next, look, rest

(* A child finds no one of its name, and gets its new parent.               *)
LEMMA ChildMoves ==
    ASSUME NEW t0, NEW a0, NEW o0, Meets(t0, a0, o0), NEW t, MergeTable(t0, a0, o0, t),
           NEW c, Untouched(t0, t, t0[c].parent, c), NEW o \in DOMAIN t, Twin(t0, a0, o0, t0[c].parent, o),
           NEW row, row = [t0[c] EXCEPT !.parent = o], getByName(t, row.parent, row.name) = {}
    PROVE  /\ MergeTable(t0, a0, o0, With(t, c, row)) /\ a0 # o0
           /\ \A call, above : /\ Frame(t0, a0, o0, t, call, above)
                               /\ call.id # c /\ c \notin DOMAIN call.left
                               => Frame(t0, a0, o0, With(t, c, row), call, above \ {c})
  <1> DEFINE u == With(t, c, row)
             p == t0[c].parent
  <1>1. c \in DOMAIN t0 /\ c \in DOMAIN t /\ t[c] = t0[c] /\ t0[c] \in Rows /\ o \in Int /\ c \in Int /\ t \in Tables(Rows)
    BY MeetsFacts, TableIs DEF Untouched, MergeTable
  <1>2. row \in Rows /\ row.parent = o /\ row.name = t0[c].name
    BY <1>1, RowMoved
  <1>3. p # o
    BY <1>1, <1>2 DEF getByName
  <1>4. p \in Below(t0, a0) /\ o \in Below(t0, o0) /\ a0 # o0
    BY <1>3, MeetsFacts
  <1>5. DOMAIN u = DOMAIN t /\ u[c] = row /\ \A x \in DOMAIN t : x # c => u[x] = t[x]
    BY <1>1 DEF With
  <1>6. u \in Tables(Rows)
    BY <1>1, <1>2, WithIn
  <1> HIDE DEF u
  <1>7. Moved(t0, a0, o0, u, c)
    BY <1>2, <1>3, <1>5 DEF Moved
  <1>8. \A x \in DOMAIN u : x \in DOMAIN t0 /\ (u[x] = t0[x] \/ Moved(t0, a0, o0, u, x))
    BY <1>5, <1>7 DEF MergeTable, Moved
  <1>9. \A x \in DOMAIN u : x \in Reached(t0) => u[x].parent = Root \/ u[x].parent \in DOMAIN u
    BY <1>2, <1>5 DEF MergeTable
  <1>10. MergeTable(t0, a0, o0, u)
    BY <1>6, <1>8, <1>9 DEF MergeTable
  <1>11. ASSUME NEW call, NEW above, Frame(t0, a0, o0, t, call, above), call.id # c, c \notin DOMAIN call.left
         PROVE  Frame(t0, a0, o0, u, call, above \ {c})
    <2>1. PICK q : Leads(t0, a0, o0, t, call, q)
      BY <1>11 DEF Frame
    <2>2. Leads(t0, a0, o0, u, call, q)
      BY <1>5, <2>1 DEF Leads
    <2>3. call.id \in Below(t0, a0)
      BY <2>1, MeetsFacts DEF Leads
    <2>4. o # call.id
      BY <1>4, <2>3, MeetsFacts
    <2>5. \A x \in DOMAIN u : u[x].parent = call.id => x \in DOMAIN call.left \cup (above \ {c})
      BY <1>2, <1>5, <1>11, <2>4 DEF Frame
    <2>6. \A x \in DOMAIN call.left \cup (above \ {c}) : Untouched(t0, u, call.id, x)
      BY <1>5, <1>11 DEF Frame, Untouched
    <2> QED
      BY <1>5, <1>11, <2>2, <2>5, <2>6 DEF Frame
  <1> QED
    BY <1>4, <1>10, <1>11 DEF u

(* A directory without children goes.                                       *)
LEMMA EmptyGoes ==
    ASSUME NEW t0, NEW a0, NEW o0, Meets(t0, a0, o0), NEW t, MergeTable(t0, a0, o0, t),
           NEW done, Frame(t0, a0, o0, t, done, {}), DOMAIN done.left = {}
    PROVE  /\ MergeTable(t0, a0, o0, Without(t, {done.id}))
           /\ \A call, above : /\ Frame(t0, a0, o0, t, call, above)
                               /\ call.id # done.id /\ done.id \notin DOMAIN call.left
                               => Frame(t0, a0, o0, Without(t, {done.id}), call, above \ {done.id})
  <1> DEFINE d == done.id
             u == Without(t, {d})
  <1>1. DOMAIN u = DOMAIN t \ {d} /\ \A x \in DOMAIN u : u[x] = t[x]
    BY WithoutIs
  <1>2. u \in Tables(Rows)
    BY WithoutIn DEF MergeTable
  <1> HIDE DEF u
  <1>3. \A x \in DOMAIN t : t[x].parent # d
    BY DEF Frame
  <1>4. \A x \in DOMAIN u : x \in DOMAIN t0 /\ (u[x] = t0[x] \/ Moved(t0, a0, o0, u, x))
    BY <1>1 DEF MergeTable, Moved
  <1>5. MergeTable(t0, a0, o0, u)
    BY <1>1, <1>2, <1>3, <1>4 DEF MergeTable
  <1>6. d \in Below(t0, a0)
    <2>1. PICK q : Leads(t0, a0, o0, t, done, q)
      BY DEF Frame
    <2> QED
      BY <2>1, MeetsFacts DEF Leads
  <1>7. ASSUME NEW call, NEW above, Frame(t0, a0, o0, t, call, above), call.id # d, d \notin DOMAIN call.left
        PROVE  Frame(t0, a0, o0, u, call, above \ {d})
    <2>1. PICK q : Leads(t0, a0, o0, t, call, q)
      BY <1>7 DEF Frame
    <2>2. q # d
      BY <1>6, <1>7, <2>1, MeetsFacts DEF Leads
    <2>3. Leads(t0, a0, o0, u, call, q)
      BY <1>1, <2>1, <2>2 DEF Leads
    <2>4. \A x \in DOMAIN call.left \cup (above \ {d}) : Untouched(t0, u, call.id, x)
      BY <1>1, <1>7 DEF Frame, Untouched
    <2> QED
      BY <1>1, <1>7, <2>3, <2>4 DEF Frame
  <1> QED
    BY <1>5, <1>7 DEF u
-----------------------------------------------------------------------------
(* The stack of a merge: each call lies below those that it is called from. *)
AboveOf(calls, k) == IF k = 1 THEN {} ELSE {calls[k - 1].id}
Nested(t0, calls) ==
    \A i, j \in DOMAIN calls : i < j => calls[i].id # calls[j].id /\ calls[j].id \in Ancestors(t0, calls[i].id)
Frames(t0, a0, o0, t, calls) ==
    \A k \in DOMAIN calls : calls[k].at = "children" => Frame(t0, a0, o0, t, calls[k], AboveOf(calls, k))
Stack(t0, a0, o0, t, calls) ==
    /\ Nested(t0, calls)
    /\ Frames(t0, a0, o0, t, calls)
    /\ \A k \in DOMAIN calls : k # 1 => calls[k].at = "children"
    /\ 1 \in DOMAIN calls /\ calls[1].at = "name" => 2 \in DOMAIN calls /\ Onto(t0, a0, o0, t, calls[1])

PassesOn(t0, a0, o0, t, u, c) ==
    \A call, above : /\ Frame(t0, a0, o0, t, call, above)
                     /\ call.id # c /\ c \notin DOMAIN call.left
                     => Frame(t0, a0, o0, u, call, above \ {c})

LEMMA StackIs ==
    ASSUME NEW C, NEW calls \in Seq(C), calls # <<>>
    PROVE  /\ DOMAIN calls = 1..Len(calls) /\ Len(calls) \in Nat \ {0} /\ Head(calls) = calls[1]
           /\ \A k \in DOMAIN calls : calls[k] \in C
           /\ Tail(calls) \in Seq(C) /\ DOMAIN Tail(calls) = 1..(Len(calls) - 1)
           /\ \A k \in DOMAIN Tail(calls) : Tail(calls)[k] = calls[k + 1]
  OBVIOUS

LEMMA PutIs ==
    ASSUME NEW C, NEW calls \in Seq(C), calls # <<>>, NEW a \in C, NEW b \in C
    PROVE  /\ DOMAIN (<<a>> \o Tail(calls)) = 1..Len(calls)
           /\ (<<a>> \o Tail(calls))[1] = a
           /\ \A k \in 2..Len(calls) : (<<a>> \o Tail(calls))[k] = calls[k]
           /\ DOMAIN (<<a, b>> \o Tail(calls)) = 1..(Len(calls) + 1)
           /\ (<<a, b>> \o Tail(calls))[1] = a /\ (<<a, b>> \o Tail(calls))[2] = b
           /\ \A k \in 3..(Len(calls) + 1) : (<<a, b>> \o Tail(calls))[k] = calls[k - 1]
  <1> DEFINE outer == Tail(calls)
  <1>1. outer \in Seq(C) /\ Len(outer) = Len(calls) - 1 /\ \A k \in 1..Len(outer) : outer[k] = calls[k + 1]
    OBVIOUS
  <1>2. <<a>> \in Seq(C) /\ Len(<<a>>) = 1 /\ <<a, b>> \in Seq(C) /\ Len(<<a, b>>) = 2
    OBVIOUS
  <1>3. Len(calls) \in Nat \ {0}
    OBVIOUS
  <1> HIDE DEF outer
  <1>4. /\ Len(<<a>> \o outer) = Len(calls)
        /\ \A k \in 1..Len(calls) : (<<a>> \o outer)[k] = IF k <= 1 THEN <<a>>[k] ELSE outer[k - 1]
    BY <1>1, <1>2, <1>3, ConcatProperties
  <1>5. /\ Len(<<a, b>> \o outer) = Len(calls) + 1
        /\ \A k \in 1..(Len(calls) + 1) : (<<a, b>> \o outer)[k] = IF k <= 2 THEN <<a, b>>[k] ELSE outer[k - 2]
    BY <1>1, <1>2, <1>3, ConcatProperties
  <1>6. DOMAIN (<<a>> \o outer) = 1..Len(calls) /\ DOMAIN (<<a, b>> \o outer) = 1..(Len(calls) + 1)
    BY <1>1, <1>2, <1>4, <1>5, ConcatProperties
  <1>7. \A k \in 2..Len(calls) : (<<a>> \o outer)[k] = calls[k]
    BY <1>1, <1>3, <1>4
  <1>8. \A k \in 3..(Len(calls) + 1) : (<<a, b>> \o outer)[k] = calls[k - 1]
    BY <1>1, <1>3, <1>5
  <1>9. (<<a>> \o outer)[1] = a /\ (<<a, b>> \o outer)[1] = a /\ (<<a, b>> \o outer)[2] = b
    BY <1>3, <1>4, <1>5
  <1> QED
    BY <1>6, <1>7, <1>8, <1>9 DEF outer

(* A call that has ended leaves those it was called from as they were.      *)
LEMMA StackReturns ==
    ASSUME NEW t0, NEW a0, NEW o0, NEW t, NEW u, NEW C, NEW calls \in Seq(C), calls # <<>>,
           Stack(t0, a0, o0, t, calls), NEW c, c = calls[1].id, PassesOn(t0, a0, o0, t, u, c)
    PROVE  Stack(t0, a0, o0, u, Tail(calls))
  <1> DEFINE outer == Tail(calls)
  <1>1. /\ DOMAIN calls = 1..Len(calls) /\ Len(calls) \in Nat \ {0}
        /\ DOMAIN outer = 1..(Len(calls) - 1)
        /\ \A k \in DOMAIN outer : outer[k] = calls[k + 1]
    BY StackIs
  <1> HIDE DEF outer
  <1>2. \A k \in DOMAIN outer : k + 1 \in DOMAIN calls /\ k + 1 # 1 /\ k \in DOMAIN calls /\ k \in Nat
    BY <1>1
  <1>3. Nested(t0, outer)
    BY <1>1, <1>2 DEF Stack, Nested
  <1>4. \A k \in DOMAIN outer : outer[k].at = "children"
    BY <1>1, <1>2 DEF Stack
  <1>5. ASSUME NEW k \in DOMAIN outer
        PROVE  Frame(t0, a0, o0, u, outer[k], AboveOf(outer, k))
    <2>1. /\ outer[k] = calls[k + 1] /\ k + 1 \in DOMAIN calls /\ k \in DOMAIN calls /\ k \in 1..(Len(calls) - 1)
          /\ calls[k + 1].at = "children"
      BY <1>1, <1>2, <1>4
    <2>2. AboveOf(calls, k + 1) = {calls[k].id}
      BY <2>1 DEF AboveOf
    <2>3. Frame(t0, a0, o0, t, outer[k], {calls[k].id})
      BY <2>1, <2>2 DEF Stack, Frames
    <2>4. outer[k].id # c
      BY <1>1, <2>1 DEF Stack, Nested
    <2>5. c \notin DOMAIN outer[k].left
      <3>1. CASE k = 1
        BY <2>3, <3>1 DEF Frame
      <3>2. CASE k # 1
        <4>1. 2 \in DOMAIN calls /\ 1 \in DOMAIN calls /\ 2 < k + 1 /\ calls[2].at = "children"
          BY <1>1, <2>1, <3>2 DEF Stack
        <4>2. AboveOf(calls, 2) = {c}
          BY DEF AboveOf
        <4>3. Frame(t0, a0, o0, t, calls[2], {c})
          BY <4>1, <4>2 DEF Stack, Frames
        <4>4. t0[c].parent = calls[2].id
          BY <4>3 DEF Frame, Untouched
        <4>5. calls[2].id # calls[k + 1].id
          BY <2>1, <4>1 DEF Stack, Nested
        <4> QED
          BY <2>1, <2>3, <4>4, <4>5 DEF Frame, Untouched
      <3> QED
        BY <3>1, <3>2
    <2>6. Frame(t0, a0, o0, u, outer[k], {calls[k].id} \ {c})
      BY <2>3, <2>4, <2>5 DEF PassesOn
    <2>7. {calls[k].id} \ {c} = AboveOf(outer, k)
      <3>1. CASE k = 1
        BY <3>1 DEF AboveOf
      <3>2. CASE k # 1
        <4>1. k - 1 \in DOMAIN outer /\ outer[k - 1] = calls[k]
          BY <1>1, <2>1, <3>2
        <4>2. calls[k].id # c
          BY <1>1, <2>1, <3>2 DEF Stack, Nested
        <4> QED
          BY <3>2, <4>1, <4>2 DEF AboveOf
      <3> QED
        BY <3>1, <3>2
    <2> QED
      BY <2>6, <2>7
  <1>6. Frames(t0, a0, o0, u, outer)
    BY <1>5 DEF Frames
  <1>7. Stack(t0, a0, o0, u, outer)
    BY <1>3, <1>4, <1>6 DEF Stack
  <1> QED
    BY <1>7 DEF outer

(* The call that has looked for a name, of one id, becomes one that merges. *)
LEMMA StackMerges ==
    ASSUME NEW t0, NEW a0, NEW o0, NEW t, NEW C, NEW calls \in Seq(C), calls # <<>>,
           Stack(t0, a0, o0, t, calls), NEW next \in C, next.id = calls[1].id, next.at = "children",
           Frame(t0, a0, o0, t, next, {})
    PROVE  Stack(t0, a0, o0, t, <<next>> \o Tail(calls))
  <1> DEFINE now == <<next>> \o Tail(calls)
  <1>1. /\ DOMAIN calls = 1..Len(calls) /\ Len(calls) \in Nat \ {0}
        /\ DOMAIN now = 1..Len(calls) /\ now[1] = next
        /\ \A k \in 2..Len(calls) : now[k] = calls[k]
    BY StackIs, PutIs
  <1> HIDE DEF now
  <1>2. \A k \in DOMAIN now : now[k].id = calls[k].id /\ k \in DOMAIN calls /\ (k # 1 => now[k] = calls[k])
    BY <1>1
  <1>3. Nested(t0, now)
    BY <1>2 DEF Stack, Nested
  <1>4. \A k \in DOMAIN now : AboveOf(now, k) = AboveOf(calls, k)
    <2> SUFFICES ASSUME NEW k \in DOMAIN now, k # 1
                 PROVE  {now[k - 1].id} = {calls[k - 1].id}
      BY DEF AboveOf
    <2>1. k - 1 \in DOMAIN now
      BY <1>1
    <2> QED
      BY <1>2, <2>1
  <1>5. Frames(t0, a0, o0, t, now)
    <2> SUFFICES ASSUME NEW k \in DOMAIN now, now[k].at = "children"
                 PROVE  Frame(t0, a0, o0, t, now[k], AboveOf(now, k))
      BY DEF Frames
    <2>1. CASE k = 1
      BY <1>1, <2>1 DEF AboveOf
    <2>2. CASE k # 1
      <3>1. now[k] = calls[k] /\ AboveOf(now, k) = AboveOf(calls, k) /\ k \in DOMAIN calls
        BY <1>2, <1>4, <2>2
      <3>2. Frame(t0, a0, o0, t, calls[k], AboveOf(calls, k))
        BY <3>1 DEF Stack, Frames
      <3> QED
        BY <3>1, <3>2
    <2> QED
      BY <2>1, <2>2
  <1>6. \A k \in DOMAIN now : now[k].at = "children"
    BY <1>1, <1>2 DEF Stack
  <1>7. Stack(t0, a0, o0, t, now)
    BY <1>1, <1>3, <1>5, <1>6 DEF Stack
  <1> QED
    BY <1>7 DEF now

(* A call that merges calls for a child.                                    *)
LEMMA StackCalls ==
    ASSUME NEW t0, NEW a0, NEW o0, Meets(t0, a0, o0), NEW t, NEW C, NEW calls \in Seq(C), calls # <<>>,
           Stack(t0, a0, o0, t, calls), calls[1].at = "children",
           NEW look \in C, look.at = "name", Onto(t0, a0, o0, t, look), look.id \in DOMAIN calls[1].left,
           NEW rest \in C, rest.at = "children", rest.id = calls[1].id, Frame(t0, a0, o0, t, rest, {look.id})
    PROVE  Stack(t0, a0, o0, t, <<look, rest>> \o Tail(calls))
  <1> DEFINE now == <<look, rest>> \o Tail(calls)
             child == look.id
             above == calls[1].id
  <1>1. /\ DOMAIN calls = 1..Len(calls) /\ Len(calls) \in Nat \ {0}
        /\ DOMAIN now = 1..(Len(calls) + 1) /\ now[1] = look /\ now[2] = rest
        /\ \A k \in 3..(Len(calls) + 1) : now[k] = calls[k - 1]
    BY StackIs, PutIs
  <1> HIDE DEF now
  <1>2. \A k \in DOMAIN now : k # 1 => k - 1 \in DOMAIN calls /\ now[k].id = calls[k - 1].id /\ k \in Nat
    BY <1>1
  <1>3. Frame(t0, a0, o0, t, calls[1], {})
    <2>1. 1 \in DOMAIN calls /\ AboveOf(calls, 1) = {}
      BY <1>1 DEF AboveOf
    <2>2. Frame(t0, a0, o0, t, calls[1], AboveOf(calls, 1))
      BY <2>1 DEF Stack, Frames
    <2> QED
      BY <2>1, <2>2
  <1>4. child \in DOMAIN t0 /\ t0[child].parent = above
    BY <1>3 DEF Frame, Untouched
  <1>5. above \in Reached(t0) /\ above \in DOMAIN t0 /\ IsTable(t0)
    <2>1. PICK o : Leads(t0, a0, o0, t, calls[1], o)
      BY <1>3 DEF Frame
    <2> QED
      BY <2>1, MeetsFacts DEF Leads
  <1>6. Ancestors(t0, child) = {child} \cup Ancestors(t0, above) /\ above \in Ancestors(t0, above)
    BY <1>4, <1>5, AncestorsOfParent, AncestorsAre DEF IsTable
  <1>7. child \notin Ancestors(t0, above)
    BY <1>4, <1>5, ReachedGrows, ReachedOnce
  <1>8. \A m \in DOMAIN calls : calls[m].id \in Ancestors(t0, above)
    BY <1>1, <1>6 DEF Stack, Nested
  <1>9. Nested(t0, now)
    <2> SUFFICES ASSUME NEW i \in DOMAIN now, NEW j \in DOMAIN now, i < j
                 PROVE  now[i].id # now[j].id /\ now[j].id \in Ancestors(t0, now[i].id)
      BY DEF Nested
    <2>1. j # 1 /\ j - 1 \in DOMAIN calls /\ now[j].id = calls[j - 1].id
      BY <1>1, <1>2
    <2>2. CASE i = 1
      BY <1>1, <1>6, <1>7, <1>8, <2>1, <2>2
    <2>3. CASE i # 1
      BY <1>1, <1>2, <2>1, <2>3 DEF Stack, Nested
    <2> QED
      BY <2>2, <2>3
  <1>10. Frames(t0, a0, o0, t, now)
    <2> SUFFICES ASSUME NEW k \in DOMAIN now, now[k].at = "children"
                 PROVE  Frame(t0, a0, o0, t, now[k], AboveOf(now, k))
      BY DEF Frames
    <2>1. CASE k = 1
      BY <1>1, <2>1
    <2>2. CASE k = 2
      <3>1. AboveOf(now, 2) = {now[1].id}
        BY DEF AboveOf
      <3> QED
        BY <1>1, <2>2, <3>1
    <2>3. CASE k # 1 /\ k # 2
      <3>1. k - 1 \in DOMAIN calls /\ k - 1 # 1 /\ now[k] = calls[k - 1] /\ k - 1 \in DOMAIN now
        BY <1>1, <2>3
      <3>2. AboveOf(now, k) = {calls[k - 2].id} /\ AboveOf(calls, k - 1) = {calls[k - 2].id}
        BY <1>1, <1>2, <2>3, <3>1 DEF AboveOf
      <3> QED
        BY <3>1, <3>2 DEF Stack, Frames
    <2> QED
      BY <2>1, <2>2, <2>3
  <1>11. \A k \in DOMAIN now : k # 1 => now[k].at = "children"
    BY <1>1 DEF Stack
  <1>12. Stack(t0, a0, o0, t, now)
    BY <1>1, <1>9, <1>10, <1>11 DEF Stack
  <1> QED
    BY <1>12 DEF now
-----------------------------------------------------------------------------
CallStates == [at : {"name", "children"}, id : Int, row : Rows, left : Tables(Rows)]
MoveStates == [ok : BOOLEAN, files : Tables(Rows), calls : Seq(CallStates)]

LEMMA CallsAre ==
    ASSUME NEW id \in Int, NEW row \in Rows, NEW left \in Tables(Rows)
    PROVE  Looks(id, row) \in CallStates /\ Merges(id, row, left) \in CallStates
  <1>1. <<>> \in Tables(Rows)
    BY <<>> \in [{} -> Rows] DEF Tables
  <1> QED
    BY <1>1 DEF CallStates, Looks, Merges

(* The steps of moveFile. *)
StepIs(s, next) ==
    LET call == s.calls[1]
        outer == Tail(s.calls)
    IN  \/ (~s.ok \/ s.calls = <<>>) /\ next = s
        \/ next = [s EXCEPT !.ok = FALSE]
        \/ /\ s.calls # <<>> /\ call.at = "name" /\ getByName(s.files, call.row.parent, call.row.name) = {}
           /\ next = [s EXCEPT !.files = With(s.files, call.id, call.row), !.calls = outer]
        \/ /\ s.calls # <<>> /\ call.at = "name"
           /\ \E o \in DOMAIN s.files :
                 /\ s.files[o].parent = call.row.parent /\ s.files[o].name = call.row.name
                 /\ next = [s EXCEPT !.calls = <<Merges(call.id, call.row, Contents(s.files, call.id, o))>> \o outer]
        \/ /\ s.calls # <<>> /\ call.at = "children" /\ DOMAIN call.left = {}
           /\ next = [s EXCEPT !.files = Without(s.files, {call.id}), !.calls = outer]
        \/ /\ s.calls # <<>> /\ call.at = "children"
           /\ \E child \in DOMAIN call.left :
                 next = [s EXCEPT !.calls = <<Looks(child, call.left[child]),
                                              Merges(call.id, call.row, Without(call.left, {child}))>> \o outer]

LEMMA MoveStepIs ==
    ASSUME NEW s \in MoveStates
    PROVE  StepIs(s, MoveStep(s))
  <1> DEFINE call == Head(s.calls)
             outer == Tail(s.calls)
             there == getByName(s.files, call.row.parent, call.row.name)
             origin == CHOOSE o \in there : TRUE
             child == CHOOSE c \in DOMAIN call.left :
                         \A d \in DOMAIN call.left : call.left[c].name <= call.left[d].name
             next == MoveStep(s)
  <1>1. s.ok \in BOOLEAN /\ s.calls \in Seq(CallStates)
    BY DEF MoveStates
  <1>2. CASE ~s.ok \/ s.calls = <<>>
    BY <1>2 DEF MoveStep, StepIs
  <1>3. CASE s.ok /\ s.calls # <<>>
    <2>1. call = s.calls[1] /\ call \in CallStates
      BY <1>1, <1>3, StackIs
    <2>2. call.at \in {"name", "children"} /\ call.left \in Tables(Rows)
      BY <2>1 DEF CallStates
    <2>3. CASE call.at = "name" /\ there = {}
      <3>1. next = [s EXCEPT !.files = With(s.files, call.id, call.row), !.calls = outer]
        BY <1>3, <2>3 DEF MoveStep
      <3> HIDE DEF next
      <3>2. StepIs(s, next)
        BY <1>3, <2>1, <2>3, <3>1 DEF StepIs
      <3> QED
        BY <3>2 DEF next
    <2>4. CASE call.at = "name" /\ there # {} /\ s.files[origin].dir /\ call.row.dir
      <3>1. next = [s EXCEPT !.calls = <<Merges(call.id, call.row, Contents(s.files, call.id, origin))>> \o outer]
        BY <1>3, <2>4 DEF MoveStep
      <3>2. origin \in there
        BY <2>4
      <3> HIDE DEF origin, next
      <3>3. /\ origin \in DOMAIN s.files
            /\ s.files[origin].parent = call.row.parent /\ s.files[origin].name = call.row.name
        BY <3>2 DEF getByName
      <3> HIDE DEF there
      <3>4. StepIs(s, next)
        BY <1>3, <2>1, <2>4, <3>1, <3>3 DEF StepIs
      <3> QED
        BY <3>4 DEF next
    <2>5. CASE call.at = "name" /\ there # {} /\ ~(s.files[origin].dir /\ call.row.dir)
      <3>1. next = [s EXCEPT !.ok = FALSE]
        BY <1>3, <2>5 DEF MoveStep
      <3> HIDE DEF next
      <3>3. StepIs(s, next)
        BY <3>1 DEF StepIs
      <3> QED
        BY <3>3 DEF next
    <2>6. CASE call.at = "children" /\ DOMAIN call.left = {}
      <3>1. next = [s EXCEPT !.files = Without(s.files, {call.id}), !.calls = outer]
        BY <1>3, <2>6 DEF MoveStep
      <3> HIDE DEF next
      <3>2. StepIs(s, next)
        BY <1>3, <2>1, <2>6, <3>1 DEF StepIs
      <3> QED
        BY <3>2 DEF next
    <2>7. CASE call.at = "children" /\ DOMAIN call.left # {}
      <3>1. next = [s EXCEPT !.calls = <<Looks(child, call.left[child]),
                                         Merges(call.id, call.row, Without(call.left, {child}))>> \o outer]
        BY <1>3, <2>7 DEF MoveStep
      <3>2. child \in DOMAIN call.left
        BY <2>2, <2>7, LeastName
      <3> HIDE DEF child, next
      <3>3. StepIs(s, next)
        BY <1>3, <2>1, <2>7, <3>1, <3>2 DEF StepIs
      <3> QED
        BY <3>3 DEF next
    <2> QED
      BY <2>2, <2>3, <2>4, <2>5, <2>6, <2>7
  <1> QED
    BY <1>1, <1>2, <1>3

LEMMA MoveStepTyped ==
    ASSUME NEW s \in MoveStates
    PROVE  MoveStep(s) \in MoveStates
  <1> DEFINE call == s.calls[1]
             outer == Tail(s.calls)
             next == MoveStep(s)
  <1>1. s.ok \in BOOLEAN /\ s.calls \in Seq(CallStates) /\ s.files \in Tables(Rows)
    BY DEF MoveStates
  <1>2. StepIs(s, next)
    BY MoveStepIs
  <1> HIDE DEF next
  <1>3. CASE (~s.ok \/ s.calls = <<>>) /\ next = s
    BY <1>3 DEF next
  <1>4. CASE next = [s EXCEPT !.ok = FALSE]
    BY <1>1, <1>4 DEF MoveStates, next
  <1>5. CASE s.calls # <<>>
    <2>1. call \in CallStates /\ outer \in Seq(CallStates)
      BY <1>1, <1>5, StackIs
    <2>2. call.id \in Int /\ call.row \in Rows /\ call.left \in Tables(Rows)
      BY <2>1 DEF CallStates
    <2> HIDE DEF call, outer
    <2>3. CASE next = [s EXCEPT !.files = With(s.files, call.id, call.row), !.calls = outer]
      <3>1. With(s.files, call.id, call.row) \in Tables(Rows)
        BY <1>1, <2>2, WithIn
      <3> QED
        BY <1>1, <2>1, <2>3, <3>1 DEF MoveStates, next
    <2>4. ASSUME NEW o \in DOMAIN s.files,
                 next = [s EXCEPT !.calls = <<Merges(call.id, call.row, Contents(s.files, call.id, o))>> \o outer]
          PROVE  next \in MoveStates
      <3> DEFINE to == Merges(call.id, call.row, Contents(s.files, call.id, o))
      <3>1. o \in Int
        BY <1>1, TableIs
      <3>2. to \in CallStates
        BY <1>1, <2>2, <3>1, ContentsOf, CallsAre
      <3> HIDE DEF to
      <3>3. <<to>> \o outer \in Seq(CallStates)
        BY <2>1, <3>2
      <3> QED
        BY <1>1, <2>4, <3>3 DEF MoveStates, to
    <2>5. CASE next = [s EXCEPT !.files = Without(s.files, {call.id}), !.calls = outer]
      <3>1. Without(s.files, {call.id}) \in Tables(Rows)
        BY <1>1, WithoutIn
      <3> QED
        BY <1>1, <2>1, <2>5, <3>1 DEF MoveStates, next
    <2>6. ASSUME NEW child \in DOMAIN call.left,
                 next = [s EXCEPT !.calls = <<Looks(child, call.left[child]),
                                              Merges(call.id, call.row, Without(call.left, {child}))>> \o outer]
          PROVE  next \in MoveStates
      <3> DEFINE look == Looks(child, call.left[child])
                 rest == Merges(call.id, call.row, Without(call.left, {child}))
      <3>1. child \in Int /\ call.left[child] \in Rows /\ Without(call.left, {child}) \in Tables(Rows)
        BY <2>2, TableIs, WithoutIn
      <3>2. look \in CallStates /\ rest \in CallStates
        BY <2>2, <3>1, CallsAre
      <3> HIDE DEF look, rest
      <3>3. <<look, rest>> \o outer \in Seq(CallStates)
        BY <2>1, <3>2
      <3> QED
        BY <1>1, <2>6, <3>3 DEF MoveStates, look, rest
    <2> QED
      BY <1>2, <1>3, <1>4, <1>5, <2>3, <2>4, <2>5, <2>6 DEF StepIs, call, outer, next
  <1> QED
    BY <1>2, <1>3, <1>4, <1>5 DEF StepIs, next
-----------------------------------------------------------------------------
Merging(t0, a0, o0, s) == MergeTable(t0, a0, o0, s.files) /\ Stack(t0, a0, o0, s.files, s.calls)

(* Every step of moveFile keeps the merge in order, or gives up.            *)
LEMMA MergeGoesOn ==
    ASSUME NEW t0, NEW a0, NEW o0, Meets(t0, a0, o0), NEW s \in MoveStates, Merging(t0, a0, o0, s)
    PROVE  Merging(t0, a0, o0, MoveStep(s)) \/ ~MoveStep(s).ok
  <1> DEFINE call == s.calls[1]
             outer == Tail(s.calls)
             next == MoveStep(s)
             t == s.files
             c == call.id
  <1>1. s.ok \in BOOLEAN /\ s.calls \in Seq(CallStates) /\ t \in Tables(Rows)
    BY DEF MoveStates
  <1>2. StepIs(s, next) /\ next \in MoveStates
    BY MoveStepIs, MoveStepTyped
  <1>3. MergeTable(t0, a0, o0, t) /\ Stack(t0, a0, o0, t, s.calls)
    BY DEF Merging
  <1> HIDE DEF next, t
  <1>4. CASE next = s
    BY <1>3, <1>4 DEF Merging, next, t
  <1>5. CASE next = [s EXCEPT !.ok = FALSE]
    BY <1>5 DEF MoveStates, next
  <1>6. CASE s.calls # <<>>
    <2>1. /\ call \in CallStates /\ outer \in Seq(CallStates) /\ 1 \in DOMAIN s.calls
          /\ \A k \in DOMAIN s.calls : s.calls[k] \in CallStates
      BY <1>1, <1>6, StackIs
    <2>2. call.id \in Int /\ call.row \in Rows /\ call.left \in Tables(Rows)
      BY <2>1 DEF CallStates
    <2>3. ASSUME call.at = "name"
          PROVE  /\ Untouched(t0, t, t0[c].parent, c)
                 /\ Onto(t0, a0, o0, t, call)
      <3>1. 2 \in DOMAIN s.calls /\ s.calls[2].at = "children" /\ Onto(t0, a0, o0, t, call)
        BY <1>3, <2>1, <2>3 DEF Stack
      <3>2. AboveOf(s.calls, 2) = {c}
        BY DEF AboveOf
      <3>3. Frame(t0, a0, o0, t, s.calls[2], {c})
        BY <1>3, <3>1, <3>2 DEF Stack, Frames
      <3>4. Untouched(t0, t, s.calls[2].id, c)
        BY <3>3 DEF Frame
      <3>5. t0[c].parent = s.calls[2].id
        BY <3>4 DEF Untouched
      <3> QED
        BY <3>1, <3>4, <3>5
    <2>4. ASSUME call.at = "children"
          PROVE  Frame(t0, a0, o0, t, call, {})
      <3>1. AboveOf(s.calls, 1) = {}
        BY DEF AboveOf
      <3> QED
        BY <1>3, <2>1, <2>4, <3>1 DEF Stack, Frames
    <2>5. ASSUME call.at = "name", getByName(t, call.row.parent, call.row.name) = {},
                 next = [s EXCEPT !.files = With(t, c, call.row), !.calls = outer]
          PROVE  Merging(t0, a0, o0, next)
      <3> DEFINE row == call.row
                 u == With(t, c, row)
      <3>1. PICK o \in DOMAIN t : Twin(t0, a0, o0, t0[c].parent, o) /\ row = [t0[c] EXCEPT !.parent = o]
        BY <2>3, <2>5 DEF Onto
      <3>2. Untouched(t0, t, t0[c].parent, c) /\ getByName(t, row.parent, row.name) = {}
        BY <2>3, <2>5
      <3> HIDE DEF row, c
      <3>3. MergeTable(t0, a0, o0, u) /\ PassesOn(t0, a0, o0, t, u, c)
        BY <1>3, <3>1, <3>2, ChildMoves DEF PassesOn
      <3> HIDE DEF u
      <3>4. Stack(t0, a0, o0, u, outer)
        BY <1>1, <1>3, <1>6, <3>3, StackReturns DEF c
      <3>5. next.files = u /\ next.calls = outer
        BY <2>5 DEF u, row, MoveStates
      <3> QED
        BY <3>3, <3>4, <3>5 DEF Merging
    <2>6. ASSUME call.at = "name", NEW f \in DOMAIN t, t[f].parent = call.row.parent, t[f].name = call.row.name,
                 next = [s EXCEPT !.calls = <<Merges(c, call.row, Contents(t, c, f))>> \o outer]
          PROVE  Merging(t0, a0, o0, next)
      <3> DEFINE row == call.row
                 to == Merges(c, row, Contents(t, c, f))
      <3>1. PICK o \in DOMAIN t : Twin(t0, a0, o0, t0[c].parent, o) /\ row = [t0[c] EXCEPT !.parent = o]
        BY <2>3, <2>6 DEF Onto
      <3>2. Untouched(t0, t, t0[c].parent, c)
        BY <2>3, <2>6
      <3>3. c \in DOMAIN t0 /\ c \in DOMAIN t /\ t[c] = t0[c]
        BY <3>2 DEF Untouched
      <3>4. t0[c] \in Rows /\ o \in Int /\ f \in Int
        BY <1>1, <3>3, MeetsFacts, TableIs
      <3>5. t[f].parent = o /\ t[f].name = t0[c].name
        BY <2>6, <3>1, <3>4, RowMoved
      <3>6. to \in CallStates /\ to.id = c /\ to.at = "children"
        <4>1. to \in CallStates
          BY <1>1, <2>2, <3>4, ContentsOf, CallsAre
        <4> QED
          BY <4>1 DEF Merges
      <3>7. Twin(t0, a0, o0, c, f)
        <4> HIDE DEF c
        <4> QED
          BY <1>3, <3>1, <3>2, <3>5, FoundIsTwin
      <3>8. Frame(t0, a0, o0, t, to, {})
        <4> HIDE DEF c, row
        <4> QED
          BY <1>3, <3>3, <3>7, FrameBegins
      <3> HIDE DEF to
      <3>9. Stack(t0, a0, o0, t, <<to>> \o outer)
        BY <1>1, <1>3, <1>6, <3>6, <3>8, StackMerges
      <3>10. next.files = t /\ next.calls = <<to>> \o outer
        BY <2>6 DEF to, row, MoveStates, t
      <3> QED
        BY <1>3, <3>9, <3>10 DEF Merging
    <2>7. ASSUME call.at = "children", DOMAIN call.left = {},
                 next = [s EXCEPT !.files = Without(t, {c}), !.calls = outer]
          PROVE  Merging(t0, a0, o0, next)
      <3> DEFINE u == Without(t, {c})
      <3>1. MergeTable(t0, a0, o0, u) /\ PassesOn(t0, a0, o0, t, u, c)
        <4> HIDE DEF call
        <4> QED
          BY <1>3, <2>4, <2>7, EmptyGoes DEF PassesOn
      <3> HIDE DEF u
      <3>2. Stack(t0, a0, o0, u, outer)
        BY <1>1, <1>3, <1>6, <3>1, StackReturns
      <3>3. next.files = u /\ next.calls = outer
        BY <2>7 DEF u, MoveStates
      <3> QED
        BY <3>1, <3>2, <3>3 DEF Merging
    <2>8. ASSUME call.at = "children", NEW child \in DOMAIN call.left,
                 next = [s EXCEPT !.calls = <<Looks(child, call.left[child]),
                                              Merges(c, call.row, Without(call.left, {child}))>> \o outer]
          PROVE  Merging(t0, a0, o0, next)
      <3> DEFINE look == Looks(child, call.left[child])
                 rest == Merges(c, call.row, Without(call.left, {child}))
      <3>1. child \in Int /\ call.left[child] \in Rows /\ Without(call.left, {child}) \in Tables(Rows)
        BY <2>2, TableIs, WithoutIn
      <3>2. look \in CallStates /\ rest \in CallStates
        BY <2>2, <3>1, CallsAre
      <3>3. look.at = "name" /\ look.id = child /\ rest.at = "children" /\ rest.id = c
        BY DEF Looks, Merges
      <3>4. Frame(t0, a0, o0, t, rest, {child}) /\ Onto(t0, a0, o0, t, look)
        <4> HIDE DEF call
        <4> QED
          BY <2>4, <2>8, FrameGoesOn
      <3> HIDE DEF look, rest
      <3>5. Stack(t0, a0, o0, t, <<look, rest>> \o outer)
        BY <1>1, <1>3, <1>6, <2>8, <3>2, <3>3, <3>4, StackCalls
      <3>6. next.files = t /\ next.calls = <<look, rest>> \o outer
        BY <2>8 DEF look, rest, MoveStates, t
      <3> QED
        BY <1>3, <3>5, <3>6 DEF Merging
    <2> HIDE DEF Merging
    <2> QED
      BY <1>2, <1>4, <1>5, <1>6, <2>5, <2>6, <2>7, <2>8 DEF StepIs, next, t
  <1> QED
    BY <1>2, <1>4, <1>5, <1>6 DEF StepIs, next
-----------------------------------------------------------------------------
(* A directory that meets another begins to be merged with it.              *)
LEMMA MergeBegins ==
    ASSUME NEW t0, NEW a0, NEW o0, Meets(t0, a0, o0), NEW row, NEW s \in MoveStates, s.files = t0,
           s.calls = <<Merges(a0, row, Contents(t0, a0, o0))>>
    PROVE  Merging(t0, a0, o0, s)
  <1> DEFINE to == Merges(a0, row, Contents(t0, a0, o0))
  <1>1. /\ IsTable(t0) /\ UniqueNames(t0) /\ \A x \in DOMAIN t0 : t0[x] \in Rows
        /\ a0 \in DOMAIN t0 /\ o0 \in DOMAIN t0
    BY MeetsFacts
  <1>2. \A x \in DOMAIN t0 : x \in Reached(t0) => t0[x].parent = Root \/ t0[x].parent \in DOMAIN t0
    BY <1>1, ReachedGrows DEF Reached
  <1>3. MergeTable(t0, a0, o0, t0)
    BY <1>2 DEF MergeTable, Meets
  <1>4. Twin(t0, a0, o0, a0, o0)
    BY <1>1, TwinsAre
  <1>5. Frame(t0, a0, o0, t0, to, {})
    BY <1>1, <1>3, <1>4, FrameBegins
  <1>6. to.at = "children"
    BY DEF Merges
  <1> HIDE DEF to
  <1>7. s.calls = <<to>>
    BY DEF to
  <1>8. Stack(t0, a0, o0, t0, s.calls)
    BY <1>5, <1>6, <1>7 DEF Stack, Nested, Frames, AboveOf
  <1> QED
    BY <1>3, <1>8 DEF Merging

(* What is merged is where its twin is.                                     *)
LEMMA MergedStays ==
    ASSUME NEW t0, NEW a0, NEW o0, Meets(t0, a0, o0), NEW t, MergeTable(t0, a0, o0, t)
    PROVE  StaysReached(t0, t)
  <1> DEFINE S == Below(t0, a0)
  <1>1. /\ IsTable(t0) /\ a0 \in DOMAIN t0 /\ o0 \in DOMAIN t0
        /\ \A a, o : Twin(t0, a0, o0, a, o) => /\ a \in Below(t0, a0) /\ o \in Below(t0, o0)
                                               /\ o \in Reached(t0) /\ (a = o <=> a0 = o0)
        /\ a0 # o0 => \A x \in Below(t0, a0) : x \notin Below(t0, o0)
    BY MeetsFacts
  <1>2. Outward(t0, S)
    BY <1>1, BelowIs
  <1>3. IsTable(t)
    <2>1. DOMAIN t \subseteq DOMAIN t0
      BY DEF MergeTable
    <2> QED
      BY <1>1, <2>1, FS_Subset DEF IsTable
  <1>4. ASSUME NEW x \in Reached(t0), x \in DOMAIN t
        PROVE  /\ t[x].parent = Root \/ t[x].parent \in DOMAIN t
               /\ \/ t[x].parent = t0[x].parent
                  \/ x \in S /\ t[x].parent \notin S /\ (t[x].parent = Root \/ t[x].parent \in Reached(t0))
    <2>1. x \in DOMAIN t0 /\ (t[x] = t0[x] \/ Moved(t0, a0, o0, t, x))
      BY <1>4 DEF MergeTable
    <2>2. t[x].parent = Root \/ t[x].parent \in DOMAIN t
      BY <1>4 DEF MergeTable
    <2>3. CASE Moved(t0, a0, o0, t, x)
      <3>1. t0[x].parent \in S /\ t[x].parent \notin S /\ t[x].parent \in Reached(t0)
        BY <1>1, <2>3 DEF Moved
      <3>2. x \in S
        BY <1>2, <2>1, <3>1 DEF Outward
      <3> QED
        BY <2>2, <3>1, <3>2
    <2> QED
      BY <2>1, <2>2, <2>3
  <1>5. Settles(t0, t, S)
    BY <1>4 DEF Settles
  <1> HIDE DEF S
  <1> QED
    BY <1>1, <1>2, <1>3, <1>5, SettledStays

LEMMA WithTable ==
    ASSUME NEW t, IsTable(t), NEW id, id # Root, NEW row
    PROVE  IsTable(With(t, id, row))
  <1>1. DOMAIN With(t, id, row) = DOMAIN t \cup {id}
    BY DEF With
  <1> QED
    BY <1>1, FS_AddElement DEF IsTable

(* A move to where nothing has the name takes all along that lies below.    *)
LEMMA MovedStays ==
    ASSUME NEW t, IsTable(t), NEW id \in DOMAIN t, NEW row,
           row.parent = Root \/ row.parent \in Reached(t), id \notin Ancestors(t, row.parent)
    PROVE  StaysReached(t, With(t, id, row))
  <1> DEFINE u == With(t, id, row)
             S == Below(t, id)
  <1>1. DOMAIN u = DOMAIN t /\ u[id] = row /\ \A x \in DOMAIN t : x # id => u[x] = t[x]
    BY DEF With
  <1>2. IsTable(u)
    BY WithTable DEF IsTable
  <1>3. Outward(t, S) /\ id \in S /\ Root \notin S
    BY BelowIs DEF Below, IsTable
  <1>4. row.parent \notin S
    BY DEF Below
  <1>5. \A x \in Reached(t) : x \in DOMAIN t /\ (t[x].parent = Root \/ t[x].parent \in DOMAIN t)
    BY ReachedGrows DEF Reached
  <1>6. row.parent = Root \/ row.parent \in DOMAIN t
    BY DEF Reached
  <1> HIDE DEF u, S
  <1>7. Settles(t, u, S)
    BY <1>1, <1>3, <1>4, <1>5, <1>6 DEF Settles
  <1>8. StaysReached(t, u)
    BY <1>2, <1>3, <1>7, SettledStays
  <1> QED
    BY <1>8 DEF u

(* What nobody could come to is moved: only what lies below it changes.     *)
Elsewhere(t0, S, s) ==
    /\ s.calls \in Seq({call \in CallStates : call.id \in S /\ DOMAIN call.left \subseteq S})
    /\ DOMAIN s.files \subseteq DOMAIN t0 \cup S
    /\ \A x \in DOMAIN t0 : x \notin S => x \in DOMAIN s.files /\ s.files[x] = t0[x]

LEMMA ElsewhereGoesOn ==
    ASSUME NEW t0, NEW S, Outward(t0, S), NEW s \in MoveStates, Elsewhere(t0, S, s)
    PROVE  Elsewhere(t0, S, MoveStep(s))
  <1> DEFINE C == {call \in CallStates : call.id \in S /\ DOMAIN call.left \subseteq S}
             call == s.calls[1]
             outer == Tail(s.calls)
             next == MoveStep(s)
             t == s.files
             c == call.id
  <1>1. s.ok \in BOOLEAN /\ s.calls \in Seq(C) /\ t \in Tables(Rows)
    BY DEF MoveStates, Elsewhere
  <1>2. StepIs(s, next)
    BY MoveStepIs
  <1>3. /\ DOMAIN t \subseteq DOMAIN t0 \cup S
        /\ \A x \in DOMAIN t0 : x \notin S => x \in DOMAIN t /\ t[x] = t0[x]
    BY DEF Elsewhere
  <1>4. \A calls, u : /\ calls \in Seq(C) /\ DOMAIN u \subseteq DOMAIN t0 \cup S
                      /\ \A x \in DOMAIN t0 : x \notin S => x \in DOMAIN u /\ u[x] = t0[x]
                      /\ next.calls = calls /\ next.files = u
                      => Elsewhere(t0, S, next)
    BY DEF Elsewhere
  <1> HIDE DEF next, t, C
  <1>5. CASE next = s \/ next = [s EXCEPT !.ok = FALSE]
    <2>1. next.calls = s.calls /\ next.files = t
      BY <1>5 DEF MoveStates, t
    <2> QED
      BY <1>1, <1>3, <1>4, <2>1 DEF next
  <1>6. CASE s.calls # <<>>
    <2>1. call \in C /\ outer \in Seq(C)
      BY <1>1, <1>6, StackIs
    <2>2. call.id \in Int /\ call.row \in Rows /\ call.left \in Tables(Rows) /\ c \in S /\ DOMAIN call.left \subseteq S
      BY <2>1 DEF CallStates, C
    <2>3. ASSUME next = [s EXCEPT !.files = With(t, c, call.row), !.calls = outer]
          PROVE  Elsewhere(t0, S, next)
      <3> DEFINE u == With(t, c, call.row)
      <3>1. DOMAIN u = DOMAIN t \cup {c} /\ \A x \in DOMAIN t : x # c => u[x] = t[x]
        BY DEF With
      <3> HIDE DEF u
      <3>2. next.calls = outer /\ next.files = u
        BY <2>3 DEF MoveStates, u
      <3> QED
        <4> HIDE DEF next, call, outer, c, t
        <4>1. DOMAIN u \subseteq DOMAIN t0 \cup S
          BY <1>3, <2>2, <3>1
        <4>2. \A x \in DOMAIN t0 : x \notin S => x \in DOMAIN u /\ u[x] = t0[x]
          BY <1>3, <2>2, <3>1
        <4>3. outer \in Seq(C)
          BY <2>1
        <4> QED
          BY <1>4, <3>2, <4>1, <4>2, <4>3
    <2>4. ASSUME NEW f \in DOMAIN t,
                 next = [s EXCEPT !.calls = <<Merges(c, call.row, Contents(t, c, f))>> \o outer]
          PROVE  Elsewhere(t0, S, next)
      <3> DEFINE left == Contents(t, c, f)
                 to == Merges(c, call.row, left)
      <3>1. f \in Int
        BY <1>1, TableIs
      <3>2. left \in Tables(Rows)
        BY <1>1, <3>1, ContentsOf
      <3>3. DOMAIN left \subseteq S
        <4>1. \A x \in DOMAIN left : x \in DOMAIN t /\ t[x].parent = c
          BY DEF Contents
        <4> HIDE DEF left
        <4> QED
          BY <1>3, <2>2, <4>1 DEF Outward
      <3> HIDE DEF left
      <3>4. to \in CallStates /\ to.id = c /\ to.left = left
        BY <2>2, <3>2, CallsAre DEF Merges
      <3>5. to \in C
        BY <2>2, <3>3, <3>4 DEF C
      <3> HIDE DEF to
      <3>6. <<to>> \o outer \in Seq(C)
        BY <2>1, <3>5
      <3>7. next.calls = <<to>> \o outer /\ next.files = t
        BY <2>4 DEF MoveStates, to, left, t
      <3> QED
        BY <1>3, <1>4, <3>6, <3>7
    <2>5. ASSUME next = [s EXCEPT !.files = Without(t, {c}), !.calls = outer]
          PROVE  Elsewhere(t0, S, next)
      <3> DEFINE u == Without(t, {c})
      <3>1. DOMAIN u = DOMAIN t \ {c} /\ \A x \in DOMAIN u : u[x] = t[x]
        BY WithoutIs
      <3> HIDE DEF u
      <3>2. next.calls = outer /\ next.files = u
        BY <2>5 DEF MoveStates, u
      <3> QED
        <4> HIDE DEF next, call, outer, c, t
        <4>1. DOMAIN u \subseteq DOMAIN t0 \cup S
          BY <1>3, <2>2, <3>1
        <4>2. \A x \in DOMAIN t0 : x \notin S => x \in DOMAIN u /\ u[x] = t0[x]
          BY <1>3, <2>2, <3>1
        <4>3. outer \in Seq(C)
          BY <2>1
        <4> QED
          BY <1>4, <3>2, <4>1, <4>2, <4>3
    <2>6. ASSUME NEW child \in DOMAIN call.left,
                 next = [s EXCEPT !.calls = <<Looks(child, call.left[child]),
                                              Merges(c, call.row, Without(call.left, {child}))>> \o outer]
          PROVE  Elsewhere(t0, S, next)
      <3> DEFINE look == Looks(child, call.left[child])
                 left == Without(call.left, {child})
                 rest == Merges(c, call.row, left)
      <3>1. /\ child \in Int /\ call.left[child] \in Rows
            /\ left \in Tables(Rows) /\ DOMAIN left \subseteq S /\ child \in S
        <4> DEFINE all == call.left
        <4>1. all \in Tables(Rows) /\ DOMAIN all \subseteq S /\ child \in DOMAIN all
          BY <2>2
        <4> HIDE DEF all
        <4>2. child \in Int /\ all[child] \in Rows
          BY <4>1, TableIs
        <4>3. Without(all, {child}) \in Tables(Rows)
          BY <4>1, WithoutIn
        <4>4. DOMAIN Without(all, {child}) \subseteq S
          BY <4>1 DEF Without
        <4> QED
          BY <4>1, <4>2, <4>3, <4>4 DEF all
      <3> HIDE DEF left
      <3>2. look \in CallStates /\ rest \in CallStates
        BY <2>2, <3>1, CallsAre
      <3>3. look.id = child /\ DOMAIN look.left = {} /\ rest.id = c /\ rest.left = left
        BY DEF Looks, Merges
      <3> HIDE DEF look, rest
      <3>4. look \in C /\ rest \in C
        BY <2>2, <3>1, <3>2, <3>3 DEF C
      <3>5. <<look, rest>> \o outer \in Seq(C)
        BY <2>1, <3>4
      <3>6. next.calls = <<look, rest>> \o outer /\ next.files = t
        BY <2>6 DEF MoveStates, look, rest, left, t
      <3> QED
        BY <1>3, <1>4, <3>5, <3>6
    <2> QED
      BY <1>2, <1>5, <1>6, <2>3, <2>4, <2>5, <2>6 DEF StepIs, next, t
  <1> QED
    BY <1>2, <1>5, <1>6 DEF StepIs, next
-----------------------------------------------------------------------------
(* Names stay unique below a parent, and what is reached stays so, when a   *)
(* row is made, deleted or moved.                                           *)
LEMMA WithUnique ==
    ASSUME NEW t, UniqueNames(t), NEW id, NEW row, getByName(t, row.parent, row.name) \ {id} = {}
    PROVE  UniqueNames(With(t, id, row))
  <1> DEFINE u == With(t, id, row)
  <1>1. DOMAIN u = DOMAIN t \cup {id} /\ u[id] = row /\ \A x \in DOMAIN t : x # id => u[x] = t[x]
    BY DEF With
  <1>2. \A x \in DOMAIN t : x # id => t[x].parent # row.parent \/ t[x].name # row.name
    BY DEF getByName
  <1> HIDE DEF u
  <1>3. UniqueNames(u)
    BY <1>1, <1>2 DEF UniqueNames
  <1> QED
    BY <1>3 DEF u

LEMMA WithoutUnique ==
    ASSUME NEW t, UniqueNames(t), NEW ids
    PROVE  UniqueNames(Without(t, ids))
  <1> DEFINE u == Without(t, ids)
  <1>1. DOMAIN u = DOMAIN t \ ids /\ \A x \in DOMAIN u : u[x] = t[x]
    BY WithoutIs
  <1> HIDE DEF u
  <1>2. UniqueNames(u)
    BY <1>1 DEF UniqueNames
  <1> QED
    BY <1>2 DEF u

LEMMA NewStays ==
    ASSUME NEW t, IsTable(t), NEW id, id \notin DOMAIN t, id # Root, NEW row
    PROVE  StaysReached(t, With(t, id, row))
  <1> DEFINE u == With(t, id, row)
  <1>1. DOMAIN u = DOMAIN t \cup {id} /\ \A x \in DOMAIN t : u[x] = t[x]
    BY DEF With
  <1>2. IsTable(u)
    BY WithTable
  <1>3. \A x \in Reached(t) : x \in DOMAIN t /\ (t[x].parent = Root \/ t[x].parent \in DOMAIN t)
    BY ReachedGrows DEF Reached
  <1> HIDE DEF u
  <1>4. StaysReached(t, u)
    BY <1>1, <1>2, <1>3, UnmovedStays
  <1> QED
    BY <1>4 DEF u

LEMMA LessStays ==
    ASSUME NEW t, IsTable(t), NEW ids, \A x \in DOMAIN t : t[x].parent \in ids => x \in ids
    PROVE  StaysReached(t, Without(t, ids))
  <1> DEFINE u == Without(t, ids)
  <1>1. DOMAIN u = DOMAIN t \ ids /\ \A x \in DOMAIN u : u[x] = t[x]
    BY WithoutIs
  <1>2. IsTable(u)
    BY <1>1, FS_Subset DEF IsTable
  <1>3. \A x \in Reached(t) : x \in DOMAIN t /\ (t[x].parent = Root \/ t[x].parent \in DOMAIN t)
    BY ReachedGrows DEF Reached
  <1> HIDE DEF u
  <1>4. StaysReached(t, u)
    BY <1>1, <1>2, <1>3, UnmovedStays
  <1> QED
    BY <1>4 DEF u

LEMMA StartTyped ==
    ASSUME NEW t \in Tables(Rows), NEW id \in Int, NEW row \in Rows
    PROVE  Start(t, id, row) \in MoveStates
  <1> DEFINE look == Looks(id, row)
  <1>1. look \in CallStates
    <2>1. <<>> \in Tables(Rows)
      BY <<>> \in [{} -> Rows] DEF Tables
    <2> QED
      BY <2>1, CallsAre
  <1> HIDE DEF look
  <1>2. <<look>> \in Seq(CallStates)
    BY <1>1
  <1> QED
    BY <1>2 DEF MoveStates, Start, look

(* A move only puts a row where its name is free.                           *)
LEMMA MoveUnique ==
    ASSUME NEW t \in Tables(Rows), IsFiniteSet(DOMAIN t), UniqueNames(t), NEW id \in Int, NEW row \in Rows
    PROVE  UniqueNames(moveFile(t, id, row).files)
  <1> DEFINE X == {s \in MoveStates : UniqueNames(s.files)}
  <1>1. ASSUME NEW s \in X
        PROVE  MoveStep(s) \in X
    <2> DEFINE next == MoveStep(s)
               call == s.calls[1]
               outer == Tail(s.calls)
               f == s.files
    <2>1. s \in MoveStates /\ UniqueNames(f) /\ next \in MoveStates /\ StepIs(s, next)
      BY MoveStepIs, MoveStepTyped
    <2> HIDE DEF next, call, outer
    <2>2. ASSUME next = s \/ next = [s EXCEPT !.ok = FALSE]
          PROVE  UniqueNames(next.files)
      BY <2>1, <2>2 DEF MoveStates
    <2>3. ASSUME getByName(f, call.row.parent, call.row.name) = {},
                 next = [s EXCEPT !.files = With(f, call.id, call.row), !.calls = outer]
          PROVE  UniqueNames(next.files)
      <3>1. next.files = With(f, call.id, call.row)
        BY <2>1, <2>3 DEF MoveStates
      <3> DEFINE row1 == call.row
                 id1 == call.id
      <3>2. getByName(f, row1.parent, row1.name) \ {id1} = {}
        BY <2>3
      <3> HIDE DEF row1, id1
      <3>3. UniqueNames(With(f, id1, row1))
        BY <2>1, <3>2, WithUnique
      <3> QED
        BY <3>1, <3>3 DEF row1, id1
    <2>4. ASSUME next = [s EXCEPT !.files = Without(f, {call.id}), !.calls = outer]
          PROVE  UniqueNames(next.files)
      <3>1. next.files = Without(f, {call.id})
        BY <2>1, <2>4 DEF MoveStates
      <3> QED
        BY <2>1, <3>1, WithoutUnique
    <2>5. ASSUME NEW o, next = [s EXCEPT !.calls = <<Merges(call.id, call.row, Contents(f, call.id, o))>> \o outer]
          PROVE  UniqueNames(next.files)
      BY <2>1, <2>5 DEF MoveStates
    <2>6. ASSUME NEW child,
                 next = [s EXCEPT !.calls = <<Looks(child, call.left[child]),
                                              Merges(call.id, call.row, Without(call.left, {child}))>> \o outer]
          PROVE  UniqueNames(next.files)
      BY <2>1, <2>6 DEF MoveStates
    <2>7. UniqueNames(next.files)
      BY <2>1, <2>2, <2>3, <2>4, <2>5, <2>6 DEF StepIs, call, outer
    <2> QED
      BY <2>1, <2>7 DEF next
  <1>2. StepsWithin(X)
    BY <1>1 DEF StepsWithin
  <1>3. Start(t, id, row) \in X
    BY StartTyped DEF Start
  <1>4. \A s \in X : UniqueNames(s.files)
    OBVIOUS
  <1> HIDE DEF X
  <1>5. PICK end \in X : moveFile(t, id, row) = Ended(t, end)
    BY <1>2, <1>3, MoveRuns
  <1> QED
    BY <1>4, <1>5 DEF Ended, Done, Fails

(* What nobody comes to may be moved anywhere: the rest stays as it is.     *)
LEMMA LostMoves ==
    ASSUME NEW t \in Tables(Rows), IsTable(t), NEW id \in Int, id # Root, id \notin Reached(t), NEW row \in Rows
    PROVE  StaysReached(t, moveFile(t, id, row).files)
  <1> DEFINE S == (DOMAIN t \cup {id}) \ Reached(t)
             X == {s \in MoveStates : Elsewhere(t, S, s)}
             u == moveFile(t, id, row).files
  <1>1. Outward(t, S)
    BY ReachedGrows DEF Outward, IsTable
  <1>2. id \in S /\ S \subseteq DOMAIN t \cup {id} /\ \A x \in Reached(t) : x \notin S
    OBVIOUS
  <1>3. \A x \in Reached(t) : x \in DOMAIN t /\ (t[x].parent = Root \/ t[x].parent \in Reached(t))
    BY ReachedGrows DEF Reached
  <1> HIDE DEF S
  <1>4. StepsWithin(X)
    BY <1>1, ElsewhereGoesOn, MoveStepTyped DEF StepsWithin
  <1>5. Start(t, id, row) \in X
    <2> DEFINE look == Looks(id, row)
               C == {call \in CallStates : call.id \in S /\ DOMAIN call.left \subseteq S}
    <2>1. look \in CallStates /\ look.id = id /\ DOMAIN look.left = {}
      <3>1. <<>> \in Tables(Rows)
        BY <<>> \in [{} -> Rows] DEF Tables
      <3> QED
        BY <3>1, CallsAre DEF Looks
    <2> HIDE DEF look
    <2>2. look \in C
      BY <1>2, <2>1
    <2> HIDE DEF C
    <2>3. <<look>> \in Seq(C)
      BY <2>2
    <2>4. Elsewhere(t, S, Start(t, id, row))
      BY <2>3 DEF Elsewhere, Start, look, C
    <2> QED
      BY <2>4, StartTyped
  <1>6. \A s \in X : Elsewhere(t, S, s)
    OBVIOUS
  <1> HIDE DEF X
  <1>7. PICK end \in X : moveFile(t, id, row) = Ended(t, end)
    BY <1>4, <1>5, MoveRuns DEF IsTable
  <1>8. u = t \/ u = end.files
    BY <1>7 DEF Ended, Done, Fails
  <1>9. CASE u = t
    BY <1>9 DEF StaysReached
  <1>10. CASE u = end.files
    <2> HIDE DEF u
    <2>1. DOMAIN u \subseteq DOMAIN t \cup {id} /\ \A x \in Reached(t) : x \in DOMAIN u /\ u[x] = t[x]
      BY <1>2, <1>3, <1>6, <1>7, <1>10 DEF Elsewhere
    <2>2. IsTable(u)
      BY <2>1, FS_AddElement, FS_Subset DEF IsTable
    <2>3. \A x \in Reached(t) : x \in DOMAIN u =>
             u[x].parent = t[x].parent /\ (u[x].parent = Root \/ u[x].parent \in DOMAIN u)
      BY <1>3, <2>1
    <2>4. StaysReached(t, u)
      BY <2>2, <2>3, UnmovedStays
    <2> QED
      BY <2>4 DEF u
  <1> QED
    BY <1>8, <1>9, <1>10
-----------------------------------------------------------------------------
(* A move to a directory that is there and not below what is moved, which   *)
(* meets no directory that it lies in.                                      *)
Fits(t, id, row) ==
    /\ row.parent = Root \/ row.parent \in Reached(t)
    /\ id \notin Ancestors(t, row.parent)
    /\ getByName(t, row.parent, row.name) \cap (Ancestors(t, id) \ {id}) = {}

LEMMA FitsMeets ==
    ASSUME NEW t \in Tables(Rows), IsTable(t), UniqueNames(t), NEW id, id \in Reached(t),
           NEW row, Fits(t, id, row), NEW o \in DOMAIN t, t[o].parent = row.parent, t[o].name = row.name
    PROVE  Meets(t, id, o)
  <1>1. o \in Reached(t)
    BY ReachedGrows DEF Fits
  <1>2. o # id => id \notin Ancestors(t, o)
    <2>1. CASE row.parent \in DOMAIN t
      BY <2>1, AncestorsOfParent DEF Fits
    <2>2. CASE row.parent \notin DOMAIN t
      BY <2>2, AncestorsOfTop
    <2> QED
      BY <2>1, <2>2
  <1>3. o # id => o \notin Ancestors(t, id)
    BY DEF Fits, getByName
  <1> QED
    BY <1>1, <1>2, <1>3 DEF Meets

(* The states of a move of what is reached: it has not begun, has failed,   *)
(* is done at once, or merges.                                              *)
MoveOf(t, id, row) ==
    {s \in MoveStates :
        \/ s = Start(t, id, row)
        \/ ~s.ok
        \/ s.calls = <<>> /\ s.files = With(t, id, row)
        \/ \E o : Meets(t, id, o) /\ Merging(t, id, o, s)}

LEMMA FitBegins ==
    ASSUME NEW t \in Tables(Rows), IsTable(t), UniqueNames(t), NEW id \in Int, id \in Reached(t),
           NEW row \in Rows, Fits(t, id, row)
    PROVE  MoveStep(Start(t, id, row)) \in MoveOf(t, id, row)
  <1> DEFINE s == Start(t, id, row)
             look == Looks(id, row)
             next == MoveStep(s)
             f == s.files
             call == s.calls[1]
             outer == Tail(s.calls)
  <1>1. s \in MoveStates
    BY StartTyped
  <1>2. next \in MoveStates /\ StepIs(s, next)
    BY <1>1, MoveStepIs, MoveStepTyped
  <1>3. f = t /\ s.calls = <<look>> /\ look.at = "name" /\ look.id = id /\ look.row = row
    BY DEF Start, Looks
  <1> HIDE DEF look, next
  <1>4. call = look /\ outer = <<>> /\ s.calls # <<>>
    BY <1>3
  <1> HIDE DEF call, outer, f
  <1>5. call.at = "name" /\ call.id = id /\ call.row = row
    BY <1>3, <1>4
  <1>6. ASSUME next = s \/ next = [s EXCEPT !.ok = FALSE]
        PROVE  next = s \/ ~next.ok
    BY <1>1, <1>6 DEF MoveStates
  <1>7. ASSUME next = [s EXCEPT !.files = With(f, call.id, call.row), !.calls = outer]
        PROVE  next.calls = <<>> /\ next.files = With(t, id, row)
    BY <1>1, <1>3, <1>4, <1>5, <1>7 DEF MoveStates
  <1>8. ASSUME NEW o \in DOMAIN f, f[o].parent = call.row.parent, f[o].name = call.row.name,
               next = [s EXCEPT !.calls = <<Merges(call.id, call.row, Contents(f, call.id, o))>> \o outer]
        PROVE  Meets(t, id, o) /\ Merging(t, id, o, next)
    <2>1. o \in DOMAIN t /\ t[o].parent = row.parent /\ t[o].name = row.name
      BY <1>3, <1>5, <1>8
    <2>2. Meets(t, id, o)
      BY <2>1, FitsMeets
    <2> DEFINE to == Merges(id, row, Contents(t, id, o))
    <2>3. next = [s EXCEPT !.calls = <<to>> \o outer]
      BY <1>3, <1>5, <1>8
    <2> HIDE DEF to
    <2>4. next.files = t /\ next.calls = <<to>> \o <<>>
      BY <1>1, <1>3, <1>4, <2>3 DEF MoveStates, f
    <2>5. next.calls = <<to>>
      BY <2>4
    <2> QED
      BY <1>2, <2>2, <2>4, <2>5, MergeBegins DEF to
  <1>9. \/ next = s \/ ~next.ok
        \/ next.calls = <<>> /\ next.files = With(t, id, row)
        \/ \E o : Meets(t, id, o) /\ Merging(t, id, o, next)
    <2> HIDE DEF s
    <2> QED
      BY <1>2, <1>4, <1>5, <1>6, <1>7, <1>8 DEF StepIs, f, call, outer
  <1>10. next \in MoveOf(t, id, row)
    BY <1>2, <1>9 DEF MoveOf
  <1> QED
    BY <1>10 DEF next

LEMMA FitGoesOn ==
    ASSUME NEW t \in Tables(Rows), IsTable(t), UniqueNames(t), NEW id \in Int, id \in Reached(t),
           NEW row \in Rows, Fits(t, id, row)
    PROVE  StepsWithin(MoveOf(t, id, row))
  <1> SUFFICES ASSUME NEW s \in MoveOf(t, id, row)
               PROVE  MoveStep(s) \in MoveOf(t, id, row)
    BY DEF StepsWithin
  <1>1. s \in MoveStates /\ MoveStep(s) \in MoveStates
    BY MoveStepTyped DEF MoveOf
  <1>2. CASE s = Start(t, id, row)
    BY <1>2, FitBegins
  <1>3. CASE ~s.ok \/ s.calls = <<>>
    BY <1>3 DEF MoveStep
  <1>4. ASSUME NEW o, Meets(t, id, o), Merging(t, id, o, s)
        PROVE  MoveStep(s) \in MoveOf(t, id, row)
    <2>1. Merging(t, id, o, MoveStep(s)) \/ ~MoveStep(s).ok
      BY <1>1, <1>4, MergeGoesOn
    <2> QED
      BY <1>1, <1>4, <2>1 DEF MoveOf
  <1> QED
    BY <1>2, <1>3, <1>4 DEF MoveOf

(* Where it fits, all that was reached and is still there is reached.       *)
LEMMA FitMoves ==
    ASSUME NEW t \in Tables(Rows), IsTable(t), UniqueNames(t), NEW id \in Int, id \in Reached(t),
           NEW row \in Rows, Fits(t, id, row)
    PROVE  StaysReached(t, moveFile(t, id, row).files)
  <1> DEFINE X == MoveOf(t, id, row)
             u == moveFile(t, id, row).files
  <1>1. StepsWithin(X)
    BY FitGoesOn
  <1>2. Start(t, id, row) \in X
    BY StartTyped DEF MoveOf
  <1> HIDE DEF X
  <1>3. PICK end \in X : moveFile(t, id, row) = Ended(t, end)
    BY <1>1, <1>2, MoveRuns DEF IsTable
  <1>4. CASE ~(end.ok /\ end.calls = <<>>)
    <2>1. u = t
      BY <1>3, <1>4 DEF Ended, Fails
    <2> HIDE DEF u
    <2>2. StaysReached(t, u)
      BY <2>1 DEF StaysReached
    <2> QED
      BY <2>2 DEF u
  <1>5. CASE end.ok /\ end.calls = <<>>
    <2>1. u = end.files
      BY <1>3, <1>5 DEF Ended, Done
    <2>2. end # Start(t, id, row)
      BY <1>5 DEF Start
    <2>3. \/ u = With(t, id, row)
          \/ \E o : Meets(t, id, o) /\ MergeTable(t, id, o, u)
      BY <1>5, <2>1, <2>2 DEF X, MoveOf, Merging
    <2> HIDE DEF u
    <2>4. id \in DOMAIN t
      BY DEF Reached
    <2>5. StaysReached(t, u)
      BY <2>3, <2>4, MovedStays, MergedStays DEF Fits
    <2> QED
      BY <2>5 DEF u
  <1> QED
    BY <1>4, <1>5
-----------------------------------------------------------------------------
(* A step that keeps names unique, and takes nothing out of the tree unless *)
(* it is one of those that may.                                             *)
Quiet(t, u) == UniqueNames(u) /\ StaysReached(t, u)

Misplaces(c) == Moves(c) /\ LET m == Moving(c) IN ToNowhere(m) \/ BelowItself(m) \/ WithAncestor(m)
Excused == \E c \in Clients : PurgesTooMuch(c) \/ TrimsParent(c) \/ Misplaces(c)
Steady == UniqueNames(files') /\ (Excused \/ StaysReached(files, files'))
TreeUnique == UniqueNames(files)

LEMMA SameIsQuiet ==
    ASSUME NEW t, UniqueNames(t)
    PROVE  Quiet(t, t)
  BY DEF Quiet, StaysReached

LEMMA MkdirQuiet ==
    ASSUME NEW t, IsTable(t), UniqueNames(t), NEW parent, NEW name, NEW new, new \notin DOMAIN t, new # Root
    PROVE  Quiet(t, mkdir(t, parent, name, new).files)
  <1> DEFINE row == Row(parent, name, TRUE, 0)
             there == getByName(t, parent, name)
             u == mkdir(t, parent, name, new).files
  <1>1. row.parent = parent /\ row.name = name
    BY DEF Row
  <1>2. u = IF there = {} THEN With(t, new, row) ELSE t
    BY DEF mkdir
  <1> HIDE DEF u, row
  <1>3. CASE there = {}
    <2>1. getByName(t, row.parent, row.name) \ {new} = {}
      BY <1>1, <1>3
    <2>2. UniqueNames(With(t, new, row))
      BY <2>1, WithUnique
    <2>3. StaysReached(t, With(t, new, row))
      BY NewStays
    <2>4. Quiet(t, u)
      BY <1>2, <1>3, <2>2, <2>3 DEF Quiet
    <2> QED
      BY <2>4 DEF u
  <1>4. CASE there # {}
    BY <1>2, <1>4, SameIsQuiet DEF u
  <1> QED
    BY <1>3, <1>4

LEMMA TreeIsTable ==
    ASSUME TreeTyped
    PROVE  /\ files \in Tables(Rows) /\ IsTable(files)
           /\ made + 1 \notin DOMAIN files /\ made + 1 # Root /\ made + 1 # TrashFileID /\ Root \notin Ids /\ Ids \subseteq Int
  <1>1. IsFiniteSet(DOMAIN files)
    BY TreeFinite
  <1>2. made + 1 \notin Ids /\ made + 1 # Root /\ Root \notin Ids /\ made + 1 # TrashFileID /\ Ids \subseteq Int
    BY DEF TreeTyped, Ids, Root, TrashFileID
  <1> QED
    BY <1>1, <1>2 DEF TreeTyped, IsTable

LEMMA QuietIsSteady ==
    ASSUME Quiet(files, files')
    PROVE  Steady
  BY DEF Quiet, Steady

LEMMA IdleSteady ==
    ASSUME TreeUnique, UNCHANGED files
    PROVE  Steady
  BY DEF TreeUnique, Steady, StaysReached

LEMMA MakeSteady ==
    ASSUME TreeTyped, TreeUnique, NEW parent, NEW name, files' = mkdir(files, parent, name, made + 1).files
    PROVE  Steady
  <1>1. Quiet(files, mkdir(files, parent, name, made + 1).files)
    BY TreeIsTable, MkdirQuiet DEF TreeUnique
  <1> QED
    BY <1>1, QuietIsSteady

LEMMA EditIntoSteady ==
    ASSUME TreeTyped, TreeUnique, NEW c \in Clients, EditInto(c)
    PROVE  Steady
  <1>1. files' = mkdir(files, request[c].row.parent, request[c].name, made + 1).files
    BY DEF EditInto
  <1> QED
    BY <1>1, MakeSteady

LEMMA MkdirSteady ==
    ASSUME TreeTyped, TreeUnique, NEW c \in Clients, Mkdir(c)
    PROVE  Steady
  <1>1. files' = mkdir(files, request[c].at, Head(request[c].path), made + 1).files
    BY DEF Mkdir
  <1> QED
    BY <1>1, MakeSteady

LEMMA TrimMkdirSteady ==
    ASSUME TreeTyped, TreeUnique, NEW c \in Clients, NEW p, TrimMkdir(c, p)
    PROVE  Steady
  <1> DEFINE name == Unforged(request[c].tapes[request[c].batch[p].tape])
  <1>1. files' = mkdir(files, Root, name, made + 1).files
    BY DEF TrimMkdir
  <1> HIDE DEF name
  <1> QED
    BY <1>1, MakeSteady

LEMMA TrimCreateSteady ==
    ASSUME TreeTyped, TreeUnique, NEW c \in Clients, TrimCreate(c)
    PROVE  Steady
  <1> DEFINE posi == request[c].batch[request[c].p]
             row == Row(request[c].dir, posi.path, FALSE, posi.sign)
  <1>1. \/ UNCHANGED files
        \/ getByName(files, request[c].dir, posi.path) = {} /\ files' = With(files, made + 1, row)
    BY DEF TrimCreate
  <1>2. row.parent = request[c].dir /\ row.name = posi.path
    BY DEF Row
  <1> HIDE DEF posi, row
  <1>3. ASSUME getByName(files, request[c].dir, posi.path) = {}, files' = With(files, made + 1, row)
        PROVE  Steady
    <2>1. getByName(files, row.parent, row.name) \ {made + 1} = {}
      BY <1>2, <1>3
    <2>2. Quiet(files, With(files, made + 1, row))
      BY <2>1, TreeIsTable, WithUnique, NewStays DEF Quiet, TreeUnique
    <2> QED
      BY <1>3, <2>2, QuietIsSteady
  <1> QED
    BY <1>1, <1>3, IdleSteady

(* A deletion leaves what it is excused for: what lay in what it takes.     *)
LEMMA LessSteady ==
    ASSUME TreeTyped, TreeUnique, NEW ids, files' = Without(files, ids),
           Excused \/ \A x \in DOMAIN files : files[x].parent \in ids => x \in ids
    PROVE  Steady
  <1>1. UniqueNames(Without(files, ids))
    BY WithoutUnique DEF TreeUnique
  <1>2. ASSUME \A x \in DOMAIN files : files[x].parent \in ids => x \in ids
        PROVE  StaysReached(files, Without(files, ids))
    BY <1>2, TreeIsTable, LessStays
  <1> QED
    BY <1>1, <1>2 DEF Steady

LEMMA DeletePurgeSteady ==
    ASSUME TreeTyped, TreeUnique, NEW c \in Clients, DeletePurge(c)
    PROVE  Steady
  <1> DEFINE ids == request[c].doomed
  <1>1. /\ request[c].pc = "look" /\ ids # {} /\ files' = Without(files, ids)
        /\ Goes(c, [request[c] EXCEPT !.doomed = {}])
    BY DEF DeletePurge
  <1>2. request[c] \in Deletes
    BY <1>1, RequestIs DEF TreeTyped
  <1>3. request'[c] # request[c]
    BY <1>1, <1>2 DEF Goes, TreeTyped, Deletes
  <1>4. PurgesTooMuch(c) \/ \A x \in DOMAIN files : files[x].parent \in ids => x \in ids
    BY <1>1, <1>3 DEF PurgesTooMuch
  <1>5. Excused \/ \A x \in DOMAIN files : files[x].parent \in ids => x \in ids
    BY <1>4 DEF Excused
  <1> HIDE DEF ids
  <1> QED
    BY <1>1, <1>5, LessSteady

LEMMA TrimDropFilesSteady ==
    ASSUME TreeTyped, TreeUnique, NEW c \in Clients, TrimDropFiles(c)
    PROVE  Steady
  <1> DEFINE ids == request[c].ids
  <1>1. request[c].pc = "dropfiles" /\ files' = Without(files, ids) /\ Goes(c, Idle)
    BY DEF TrimDropFiles, Ends
  <1>3. request'[c] # request[c]
    BY <1>1, IdleIs DEF Goes, TreeTyped
  <1>4. TrimsParent(c) \/ \A x \in DOMAIN files : files[x].parent \in ids => x \in ids
    BY <1>1, <1>3 DEF TrimsParent
  <1>5. Excused \/ \A x \in DOMAIN files : files[x].parent \in ids => x \in ids
    BY <1>4 DEF Excused
  <1> HIDE DEF ids
  <1> QED
    BY <1>1, <1>5, LessSteady

(* EditMove and DeletePut: a move that fits, or one that is excused.        *)
LEMMA MoveSteady ==
    ASSUME TreeTyped, TreeUnique, NEW c \in Clients, NEW id \in Ids, NEW row \in Rows,
           files' = moveFile(files, id, row).files, Moves(c), Moving(c) = [id |-> id, row |-> row]
    PROVE  Steady
  <1> DEFINE u == moveFile(files, id, row).files
  <1>1. files \in Tables(Rows) /\ IsTable(files) /\ IsFiniteSet(DOMAIN files) /\ id \in Int /\ id # Root /\ UniqueNames(files)
    BY TreeIsTable DEF IsTable, TreeUnique
  <1>2. UniqueNames(u)
    BY <1>1, MoveUnique
  <1>3. Misplaces(c) \/ Fits(files, id, row)
    <2> DEFINE m == [id |-> id, row |-> row]
    <2>1. m.id = id /\ m.row = row /\ Moving(c) = m
      OBVIOUS
    <2> HIDE DEF m
    <2>2. ToNowhere(m) \/ BelowItself(m) \/ WithAncestor(m) \/ Fits(files, id, row)
      BY <1>1, <2>1, ReachableIs DEF ToNowhere, BelowItself, WithAncestor, Fits
    <2> QED
      BY <2>1, <2>2 DEF Misplaces
  <1>4. ASSUME Fits(files, id, row)
        PROVE  StaysReached(files, u)
    <2>1. CASE id \in Reached(files)
      BY <1>1, <1>4, <2>1, FitMoves
    <2>2. CASE id \notin Reached(files)
      BY <1>1, <2>2, LostMoves
    <2> QED
      BY <2>1, <2>2
  <1> QED
    BY <1>2, <1>3, <1>4 DEF Steady, Excused

LEMMA EditMoveSteady ==
    ASSUME TreeTyped, TreeUnique, NEW kind, Tells(kind), NEW c \in Clients, EditMove(c)
    PROVE  Steady
  <1> DEFINE id == request[c].id
             row == request[c].row
  <1>1. request[c].pc = "move" /\ files' = moveFile(files, id, row).files /\ Goes(c, Idle)
    BY DEF EditMove, Ends
  <1>2. row \in Rows
    BY <1>1, RequestIs DEF TreeTyped, Movers
  <1>3. id \in Ids
    BY <1>1 DEF Tells, Holds
  <1>4. request'[c] # request[c]
    BY <1>1, IdleIs DEF Goes, TreeTyped
  <1>5. Moves(c) /\ Moving(c) = [id |-> id, row |-> row]
    BY <1>1, <1>4 DEF Moves, Moving
  <1> HIDE DEF id, row
  <1> QED
    BY <1>1, <1>2, <1>3, <1>5, MoveSteady

LEMMA DeletePutSteady ==
    ASSUME TreeTyped, TreeUnique, NEW kind, Tells(kind), NEW c \in Clients, DeletePut(c)
    PROVE  Steady
  <1> DEFINE r == request[c]
             id == Head(r.trash)
             rest == Tail(r.trash)
             row == [r.rows[id] EXCEPT !.parent = r.dir]
             on == [r EXCEPT !.trash = rest]
  <1>1. r.pc = "put" /\ files' = moveFile(files, id, row).files /\ (Goes(c, on) \/ Goes(c, Idle))
    BY DEF DeletePut, Ends
  <1>2. r \in Deletes
    BY <1>1, RequestIs DEF TreeTyped
  <1>3. /\ r.trash \in Seq(Int) /\ r.trash # <<>> /\ r.rows \in Tables(Rows) /\ r.dir \in Int
        /\ \A k \in DOMAIN r.trash : r.trash[k] \in DOMAIN r.rows
    BY <1>1, <1>2 DEF Deletes
  <1>4. id \in DOMAIN r.rows /\ Len(rest) # Len(r.trash)
    BY <1>3
  <1>5. Kinded(r.rows, kind)
    BY <1>1 DEF Tells, Holds
  <1>6. id \in Ids
    BY <1>4, <1>5 DEF Kinded, Tells
  <1>7. row \in Rows
    <2>1. r.rows[id] \in Rows
      BY <1>3, <1>4, TableIs
    <2> QED
      BY <1>3, <2>1 DEF Rows
  <1>8. request'[c] # request[c]
    <2>1. on # r
      BY <1>2, <1>4 DEF Deletes
    <2>2. Idle # r
      BY <1>1, IdleIs
    <2>3. request'[c] = on \/ request'[c] = Idle
      BY <1>1 DEF Goes, TreeTyped
    <2> QED
      BY <2>1, <2>2, <2>3
  <1>9. Moves(c) /\ Moving(c) = [id |-> id, row |-> row]
    BY <1>1, <1>8 DEF Moves, Moving
  <1> HIDE DEF id, row, r
  <1> QED
    BY <1>1, <1>6, <1>7, <1>9, MoveSteady

(* The trash is saved where it always is, and gets a new directory.         *)
LEMMA TrashQuiet ==
    ASSUME TreeTyped, TreeUnique
    PROVE  LET u == Save(files, TrashFileID, Row(Root, TrashName, TRUE, 0)).files
           IN  /\ Quiet(files, u) /\ IsTable(u) /\ DOMAIN files \subseteq DOMAIN u
               /\ made + 1 \notin DOMAIN u /\ made + 1 # Root
  <1> DEFINE row == Row(Root, TrashName, TRUE, 0)
             id == TrashFileID
             u == Save(files, id, row).files
  <1>1. row.parent = Root /\ id # Root /\ made + 1 # id
    BY TreeIsTable DEF Row, Root, TrashFileID
  <1>2. IsTable(files) /\ UniqueNames(files) /\ made + 1 \notin DOMAIN files /\ made + 1 # Root
    BY TreeIsTable DEF TreeUnique
  <1> HIDE DEF row, id
  <1>3. u = files \/ (getByName(files, row.parent, row.name) \ {id} = {} /\ u = With(files, id, row))
    BY DEF Save, Fails, Done, With
  <1> HIDE DEF u
  <1>4. CASE u = files
    BY <1>2, <1>4, SameIsQuiet DEF u, id, row
  <1>5. CASE getByName(files, row.parent, row.name) \ {id} = {} /\ u = With(files, id, row)
    <2>1. UniqueNames(u)
      BY <1>2, <1>5, WithUnique
    <2>2. IsTable(u)
      BY <1>1, <1>2, <1>5, WithTable
    <2>3. DOMAIN u = DOMAIN files \cup {id}
      BY <1>5 DEF With
    <2>4. CASE id \in DOMAIN files
      <3>1. Ancestors(files, row.parent) = {}
        BY <1>1, <1>2, AncestorsAre DEF IsTable
      <3>2. StaysReached(files, u)
        BY <1>1, <1>2, <1>5, <2>4, <3>1, MovedStays
      <3> QED
        BY <1>1, <1>2, <2>1, <2>2, <2>3, <3>2 DEF Quiet, u, id, row
    <2>5. CASE id \notin DOMAIN files
      <3>2. StaysReached(files, u)
        BY <1>1, <1>2, <1>5, <2>5, NewStays
      <3> QED
        BY <1>1, <1>2, <2>1, <2>2, <2>3, <3>2 DEF Quiet, u, id, row
    <2> QED
      BY <2>4, <2>5
  <1> QED
    BY <1>3, <1>4, <1>5

LEMMA DeleteTrashSteady ==
    ASSUME TreeTyped, TreeUnique, NEW c \in Clients, DeleteTrash(c)
    PROVE  Steady
  <1> DEFINE u == Save(files, TrashFileID, Row(Root, TrashName, TRUE, 0)).files
             name == Stamps[second]
             v == mkdir(u, TrashFileID, name, made + 1).files
  <1>1. files' = files \/ files' = u \/ files' = v
    BY DEF DeleteTrash
  <1>2. /\ Quiet(files, u) /\ IsTable(u) /\ DOMAIN files \subseteq DOMAIN u
        /\ made + 1 \notin DOMAIN u /\ made + 1 # Root
    BY TrashQuiet
  <1> HIDE DEF u, name
  <1>3. Quiet(u, v)
    BY <1>2, MkdirQuiet DEF Quiet
  <1> HIDE DEF v
  <1>4. Quiet(files, v)
    BY <1>2, <1>3 DEF Quiet, StaysReached, Reached
  <1> QED
    BY <1>1, <1>2, <1>4, IdleSteady, QuietIsSteady
-----------------------------------------------------------------------------
LEMMA TreeSteady ==
    ASSUME TreeTyped, TreeUnique, NEW kind, Tells(kind), TreeNext
    PROVE  Steady
  <1>1. ASSUME NEW c \in Clients, TreeHandler(c)
        PROVE  Steady
    <2>1. ASSUME NEW id, DeleteLook(c, id) PROVE Steady
      BY <2>1, IdleSteady DEF DeleteLook
    <2> QED
      BY <1>1, <2>1, EditIntoSteady, EditMoveSteady, MkdirSteady, DeletePurgeSteady, DeleteTrashSteady,
         DeletePutSteady DEF TreeHandler
  <1>2. ASSUME NEW c \in Clients, TreeRequest(c)
        PROVE  Steady
    <2>1. UNCHANGED files
      BY <1>2 DEF TreeRequest, EditGet, EditName, EditPath, MkdirGet, DeleteGet
    <2> QED
      BY <2>1, IdleSteady
  <1>3. CASE Tick
    BY <1>3, IdleSteady DEF Tick
  <1> QED
    BY <1>1, <1>2, <1>3 DEF TreeNext

(* Every step, whatever requests it is of.                                  *)
LEMMA StepIsSteady ==
    ASSUME TreeTyped, TreeUnique, NEW kind, Tells(kind), TrimNext
    PROVE  Steady
  <1>1. CASE TreeNext
    BY <1>1, TreeSteady
  <1>2. ASSUME NEW c \in Clients, TrimHandler(c)
        PROVE  Steady
    <2>1. ASSUME NEW p, TrimLink(c, p) PROVE Steady
      BY <2>1, IdleSteady DEF TrimLink
    <2>2. ASSUME TrimRead(c) \/ TrimMatch(c) \/ TrimTapes(c) \/ TrimAgain(c) \/ TrimDrop(c) \/ TrimScanFiles(c)
          PROVE  Steady
      BY <2>2, IdleSteady DEF TrimRead, TrimMatch, TrimTapes, TrimAgain, TrimDrop, TrimScanFiles
    <2> QED
      BY <1>2, <2>1, <2>2, TrimMkdirSteady, TrimCreateSteady, TrimDropFilesSteady DEF TrimHandler
  <1>3. ASSUME NEW c \in Clients, TrimScan(c) PROVE Steady
    BY <1>3, IdleSteady DEF TrimScan
  <1>4. ASSUME NEW c, NEW barcode, NEW sign, CreateTape(c, barcode, sign) PROVE Steady
    BY <1>4, IdleSteady DEF CreateTape
  <1>5. ASSUME NEW c, NEW t, DeleteTapes(c, t) PROVE Steady
    BY <1>5, IdleSteady DEF DeleteTapes
  <1> QED
    BY <1>1, <1>2, <1>3, <1>4, <1>5 DEF TrimNext

LEMMA UniqueStarts == TrimInit => TreeUnique
  <1> SUFFICES ASSUME TrimInit PROVE TreeUnique
    OBVIOUS
  <1>1. IsLibrary(files)
    BY LibraryAssumption DEF TrimInit, TreeInit
  <1> QED
    BY <1>1 DEF IsLibrary, TreeUnique, UniqueNames

LEMMA UniqueStays == LibraryInv /\ TreeUnique /\ [TrimNext]_trimVars => TreeUnique'
  <1> SUFFICES ASSUME LibraryInv, TreeUnique, [TrimNext]_trimVars
               PROVE  TreeUnique'
    OBVIOUS
  <1>1. TreeTyped /\ \E kind : Tells(kind)
    BY DEF LibraryInv, KindsStay
  <1>2. PICK kind : Tells(kind)
    BY <1>1
  <1>3. CASE TrimNext
    <2>1. Steady
      BY <1>1, <1>2, <1>3, StepIsSteady
    <2> QED
      BY <2>1 DEF Steady, TreeUnique
  <1>4. CASE UNCHANGED trimVars
    BY <1>4 DEF trimVars, treeVars, TreeUnique, UniqueNames
  <1> QED
    BY <1>3, <1>4

(* A name is that of one row below a parent, whatever requests run side by  *)
(* side: all that makes or moves a row, a merge of directories at any depth *)
(* included, finds the name free or leaves the rows alone (library/file.go).*)
THEOREM NamesStayUnique == LibrarySpec => []TreeUnique
  <1> QED
    BY UniqueStarts, UniqueStays, LibraryKeeps, PTL DEF LibrarySpec

(* Whatever requests run side by side, a plain file that a user could come  *)
(* to leaves the tree only with a step that may take it: a move to a parent *)
(* that has gone or lies below what is moved, a merge with a directory that *)
(* it lies in, a purge of what came into the trash meanwhile, or a trim of  *)
(* what something was moved below (library/file.go:132-236).                *)
THEOREM NothingElseLeavesTheTree == LibrarySpec => NothingElseDetaches
  <1> DEFINE Lets(c) == \/ PurgesTooMuch(c) \/ TrimsParent(c)
                        \/ Moves(c) /\ LET m == Moving(c)
                                       IN  ToNowhere(m) \/ BelowItself(m) \/ WithAncestor(m)
             Kept == \A id \in DOMAIN files : Detached(id) => \E c \in Clients : Lets(c)
  <1>1. ASSUME LibraryInv, LibraryInv', TreeUnique, TrimNext
        PROVE  Kept
    <2>1. TreeTyped /\ \E kind : Tells(kind)
      BY <1>1 DEF LibraryInv, KindsStay
    <2>2. PICK kind : Tells(kind)
      BY <2>1
    <2>3. Steady
      BY <1>1, <2>1, <2>2, StepIsSteady
    <2>4. CASE Excused
      BY <2>4 DEF Excused, Misplaces
    <2>5. CASE StaysReached(files, files')
      <3>1. IsTable(files)
        BY <2>1, TreeIsTable
      <3>2. IsTable(files')
        <4>1. files' \in Tables(Rows) /\ made' \in Nat /\ DOMAIN files' \subseteq (1..made') \cup {TrashFileID}
          BY <1>1 DEF LibraryInv, TreeTyped, Ids
        <4>2. IsFiniteSet((1..made') \cup {TrashFileID})
          <5>1. IsFiniteSet(1..made')
            BY <4>1, FS_Interval
          <5> QED
            BY <5>1, FS_AddElement
        <4>3. Root \notin (1..made') \cup {TrashFileID}
          BY <4>1 DEF Root, TrashFileID
        <4> QED
          BY <4>1, <4>2, <4>3, FS_Subset DEF IsTable
      <3>3. ASSUME NEW id \in DOMAIN files, Reachable(files, id), id \in DOMAIN files'
            PROVE  Reachable(files', id)
        <4>1. id \in Reached(files)
          BY <3>1, <3>3, ReachableIs
        <4>2. id \in Reached(files')
          BY <2>5, <3>3, <4>1 DEF StaysReached
        <4> QED
          BY <4>2 DEF Reached
      <3> QED
        BY <3>3 DEF Detached
    <2> QED
      BY <2>3, <2>4, <2>5 DEF Steady
  <1>2. LibraryInv /\ LibraryInv' /\ TreeUnique /\ [TrimNext]_trimVars => [Kept]_treeVars
    <2>1. UNCHANGED trimVars => UNCHANGED treeVars
      BY DEF trimVars
    <2> HIDE DEF Kept
    <2> QED
      BY <1>1, <2>1
  <1> QED
    BY <1>2, LibraryKeeps, NamesStayUnique, PTL DEF LibrarySpec, NothingElseDetaches
=============================================================================
