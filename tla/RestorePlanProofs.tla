------------------------- MODULE RestorePlanProofs --------------------------
(***************************************************************************)
(* The plan of a restore job is sound, complete and greedy for any library *)
(* and any set of files, and it has nearly as few tapes as can be.         *)
(***************************************************************************)
EXTENDS RestorePlan, FiniteSetTheorems, WellFoundedInduction, TLAPS

(* What is still wanted from a tape lies on it and is not planned yet, a    *)
(* tape in the mapping is not planned yet, and nothing is forgotten.        *)
Pending ==
    /\ \A t \in DOMAIN mapping :
            /\ mapping[t] \subseteq on[t]
            /\ \A k \in DOMAIN plan : plan[k].tape # t /\ plan[k].files \cap mapping[t] = {}
    /\ \A f \in Wanted : f \in Planned \/ \E t \in DOMAIN mapping : f \in mapping[t]

(* No tape in the mapping gives more than the last planned one.             *)
Shrinking ==
    plan # <<>> => \A t \in DOMAIN mapping :
        Cardinality(plan[Len(plan)].files) >= Cardinality(mapping[t])

PlanInv == TypeOK /\ PlanIsSound /\ Pending /\ PlanIsGreedy /\ Shrinking

LEMMA PlanStarts == Init => PlanInv
  <1> SUFFICES ASSUME Init PROVE PlanInv
    OBVIOUS
  <1> USE DEF Init, Found
  <1>1. TypeOK
    BY DEF TypeOK
  <1>2. DOMAIN plan = {} /\ plan = <<>>
    OBVIOUS
  <1>3. Pending
    BY <1>2 DEF Pending, Wanted, Planned
  <1> QED
    BY <1>1, <1>2, <1>3 DEF PlanInv, PlanIsSound, PlanIsGreedy, Shrinking

(* What the files of a plan become when a round adds a tape.                *)
LEMMA ExtendedPlan ==
    ASSUME PlanInv, NEW t \in DOMAIN mapping, Pick(t), mapping[t] # {}
    PROVE  /\ plan' \in Seq([tape : known, files : SUBSET FileIds])
           /\ Len(plan') = Len(plan) + 1
           /\ DOMAIN plan = 1..Len(plan) /\ DOMAIN plan' = 1..Len(plan) + 1
           /\ \A k \in DOMAIN plan : plan'[k] = plan[k]
           /\ plan'[Len(plan) + 1] = [tape |-> t, files |-> mapping[t]]
  <1>1. [tape |-> t, files |-> mapping[t]] \in [tape : known, files : SUBSET FileIds]
    BY DEF PlanInv, TypeOK
  <1>2. plan' = Append(plan, [tape |-> t, files |-> mapping[t]])
    BY DEF Pick, Extended
  <1> QED
    BY <1>1, <1>2 DEF PlanInv, TypeOK

LEMMA PlanGoesOn ==
    ASSUME PlanInv, NEW t \in TapeIds, Pick(t)
    PROVE  PlanInv'
  <1>1. /\ t \in DOMAIN mapping
        /\ mapping' = [s \in DOMAIN mapping \ {t} |-> mapping[s] \ mapping[t]]
        /\ DOMAIN mapping' = DOMAIN mapping \ {t}
        /\ \A s \in DOMAIN mapping' : mapping'[s] = mapping[s] \ mapping[t]
        /\ UNCHANGED <<on, known>>
    BY DEF Pick, Rest
  <1>2. plan \in Seq([tape : known, files : SUBSET FileIds]) /\ DOMAIN plan = 1..Len(plan) /\ Len(plan) \in Nat
    BY DEF PlanInv, TypeOK
  <1>3. mapping' \in [DOMAIN mapping' -> SUBSET FileIds] /\ DOMAIN mapping' \subseteq known
    BY <1>1 DEF PlanInv, TypeOK
  <1>4. \A s \in DOMAIN mapping : IsFiniteSet(mapping[s]) /\ Cardinality(mapping[s]) \in Nat
    <2> TAKE s \in DOMAIN mapping
    <2>1. mapping[s] \subseteq FileIds
      BY DEF PlanInv, TypeOK
    <2> QED
      BY <2>1, PlanAssumption, FS_Subset, FS_CardinalityType
  <1>5. \A s \in DOMAIN mapping' :
            /\ Cardinality(mapping'[s]) \in Nat
            /\ Cardinality(mapping'[s]) <= Cardinality(mapping[s])
            /\ Cardinality(mapping[s]) <= Cardinality(mapping[t])
    <2> TAKE s \in DOMAIN mapping'
    <2>1. /\ IsFiniteSet(mapping'[s])
          /\ Cardinality(mapping'[s]) <= Cardinality(mapping[s])
      BY <1>1, <1>4, FS_Subset
    <2>2. Before(t, s)
      BY <1>1 DEF Pick
    <2> QED
      BY <1>1, <1>4, <2>1, <2>2, FS_CardinalityType DEF Before
  <1>6. CASE mapping[t] = {}
    <2>1. plan' = plan
      BY <1>6 DEF Pick, Extended
    <2>2. TypeOK'
      BY <1>1, <1>2, <1>3, <2>1 DEF PlanInv, TypeOK
    <2>3. PlanIsSound' /\ PlanIsGreedy'
      BY <1>1, <2>1 DEF PlanInv, PlanIsSound, PlanIsGreedy
    <2>4. Pending'
      BY <1>1, <1>6, <2>1 DEF PlanInv, Pending, Wanted, Planned
    <2>5. Shrinking'
      <3> SUFFICES ASSUME plan # <<>>, NEW s \in DOMAIN mapping'
                   PROVE  Cardinality(plan[Len(plan)].files) >= Cardinality(mapping'[s])
        BY <2>1 DEF Shrinking
      <3>1. mapping'[s] = mapping[s]
        BY <1>1, <1>6
      <3> QED
        BY <1>1, <3>1 DEF PlanInv, Shrinking
    <2> QED
      BY <2>2, <2>3, <2>4, <2>5 DEF PlanInv
  <1>7. CASE mapping[t] # {}
    <2> DEFINE n == Len(plan) + 1
    <2>1. /\ plan' \in Seq([tape : known, files : SUBSET FileIds])
          /\ Len(plan') = n
          /\ DOMAIN plan' = 1..n
          /\ \A k \in DOMAIN plan : plan'[k] = plan[k]
          /\ plan'[n] = [tape |-> t, files |-> mapping[t]]
      BY <1>1, <1>7, ExtendedPlan
    <2>2. TypeOK'
      BY <1>1, <1>3, <2>1 DEF PlanInv, TypeOK
    <2>3. \A k \in DOMAIN plan' : k \in DOMAIN plan \/ k = n
      BY <1>2, <2>1
    <2>4. /\ t \in known
          /\ mapping[t] \subseteq on[t]
          /\ \A k \in DOMAIN plan : plan[k].tape # t /\ plan[k].files \cap mapping[t] = {}
      BY <1>1 DEF PlanInv, Pending, TypeOK
    <2>5. PlanIsSound'
      <3>1. \A k \in DOMAIN plan' :
                /\ plan'[k].tape \in known
                /\ plan'[k].files # {}
                /\ plan'[k].files \subseteq on[plan'[k].tape]
        BY <1>7, <2>1, <2>3, <2>4 DEF PlanInv, PlanIsSound
      <3>2. \A k, l \in DOMAIN plan' : k # l =>
                plan'[k].tape # plan'[l].tape /\ plan'[k].files \cap plan'[l].files = {}
        <4> TAKE k, l \in DOMAIN plan'
        <4>1. CASE k \in DOMAIN plan /\ l \in DOMAIN plan
          BY <4>1, <2>1 DEF PlanInv, PlanIsSound
        <4>2. CASE k \in DOMAIN plan /\ l = n
          BY <4>2, <2>1, <2>4
        <4>3. CASE k = n /\ l \in DOMAIN plan
          BY <4>3, <2>1, <2>4
        <4> QED
          BY <4>1, <4>2, <4>3, <2>3
      <3> QED
        BY <1>1, <3>1, <3>2 DEF PlanIsSound
    <2>6. Pending'
      <3>1. ASSUME NEW s \in DOMAIN mapping'
            PROVE  /\ mapping'[s] \subseteq on'[s]
                   /\ \A k \in DOMAIN plan' : plan'[k].tape # s /\ plan'[k].files \cap mapping'[s] = {}
        BY <1>1, <2>1, <2>3 DEF PlanInv, Pending
      <3>2. \A f \in Planned \cup mapping[t] : f \in Planned'
        BY <1>2, <2>1 DEF Planned
      <3>3. ASSUME NEW f \in Wanted'
            PROVE  f \in Planned' \/ \E s \in DOMAIN mapping' : f \in mapping'[s]
        <4>1. f \in Wanted
          BY <1>1 DEF Wanted
        <4>2. CASE f \in Planned \cup mapping[t]
          BY <4>2, <3>2
        <4>3. CASE f \notin Planned \cup mapping[t]
          <5>1. PICK s \in DOMAIN mapping : f \in mapping[s]
            BY <4>1, <4>3 DEF PlanInv, Pending
          <5> QED
            BY <5>1, <4>3, <1>1
        <4> QED
          BY <4>2, <4>3
      <3> QED
        BY <3>1, <3>3 DEF Pending
    <2>7. Shrinking'
      BY <1>1, <1>4, <1>5, <2>1 DEF Shrinking
    <2>8. PlanIsGreedy'
      <3> SUFFICES ASSUME NEW k \in DOMAIN plan', k + 1 \in DOMAIN plan'
                   PROVE  Cardinality(plan'[k].files) >= Cardinality(plan'[k + 1].files)
        BY DEF PlanIsGreedy
      <3>1. k \in DOMAIN plan
        BY <1>2, <2>1
      <3>2. CASE k + 1 \in DOMAIN plan
        BY <3>1, <3>2, <2>1 DEF PlanInv, PlanIsGreedy
      <3>3. CASE k + 1 = n
        <4>1. plan # <<>> /\ k = Len(plan)
          BY <1>2, <3>1, <3>3
        <4> QED
          BY <1>1, <3>1, <3>3, <4>1, <2>1 DEF PlanInv, Shrinking
      <3> QED
        BY <2>3, <3>2, <3>3
    <2> QED
      BY <2>2, <2>5, <2>6, <2>7, <2>8 DEF PlanInv
  <1> QED
    BY <1>6, <1>7

LEMMA PlanInductive == Spec => []PlanInv
  <1>1. ASSUME PlanInv, [Next]_vars PROVE PlanInv'
    <2>1. CASE Next
      BY <1>1, <2>1, PlanGoesOn DEF Next
    <2>2. CASE UNCHANGED vars
      BY <1>1, <2>2 DEF vars, PlanInv, TypeOK, PlanIsSound, Pending, PlanIsGreedy, Shrinking, Wanted, Planned
    <2> QED
      BY <1>1, <2>1, <2>2
  <1> QED
    BY <1>1, PlanStarts, PTL DEF Spec

-----------------------------------------------------------------------------
(* Each file is planned on one tape that has it, each tape comes once.      *)
THEOREM RestorePlanIsSound == Spec => []PlanIsSound
  BY PlanInductive, PTL DEF PlanInv

(* When the loop ends, everything that lies on a known tape is planned, and *)
(* nothing else.                                                            *)
THEOREM RestorePlanIsComplete == Spec => []PlanIsComplete
  <1>1. PlanInv => PlanIsComplete
    <2> SUFFICES ASSUME PlanInv, Ready PROVE Planned = Wanted
      BY DEF PlanIsComplete
    <2>1. DOMAIN mapping = {}
      BY DEF Ready
    <2>2. Wanted \subseteq Planned
      BY <2>1 DEF PlanInv, Pending
    <2>3. Planned \subseteq Wanted
      BY DEF PlanInv, PlanIsSound, Planned, Wanted
    <2> QED
      BY <2>2, <2>3
  <1> QED
    BY <1>1, PlanInductive, PTL

(* The tapes come in the order of what they give. *)
THEOREM RestorePlanIsGreedy == Spec => []PlanIsGreedy
  BY PlanInductive, PTL DEF PlanInv

-----------------------------------------------------------------------------
(* Induction, as statements about sets of natural numbers. *)
LEMMA LeastNat ==
    ASSUME NEW T \in SUBSET Nat, T # {}
    PROVE  \E x \in T : \A y \in T : x <= y
  <1> DEFINE R == OpToRel(<, Nat)
  <1>1. IsWellFoundedOn(R, Nat)
    BY NatLessThanWellFounded
  <1> HIDE DEF R
  <1>2. \E x \in T : \A y \in T : ~(<<y, x>> \in R)
    BY <1>1, WFMin
  <1>3. PICK x \in T : \A y \in T : ~(<<y, x>> \in R)
    BY <1>2
  <1>4. \A y \in T : y < x => <<y, x>> \in R
    BY DEF R, OpToRel
  <1>5. \A y \in T : ~(y < x)
    BY <1>3, <1>4
  <1> QED
    BY <1>5

LEMMA UpTo ==
    ASSUME NEW N \in Nat, NEW S, 0 \in S, \A n \in 0..N : n \in S /\ n < N => n + 1 \in S
    PROVE  N \in S
  <1> DEFINE T == (0..N) \ S
  <1>1. SUFFICES ASSUME T # {} PROVE FALSE
    OBVIOUS
  <1>0. T \in SUBSET Nat
    OBVIOUS
  <1>2. PICK x \in T : \A y \in T : x <= y
    BY <1>0, <1>1, LeastNat
  <1>3. x # 0 /\ x - 1 \in 0..N /\ x - 1 < N /\ x - 1 \notin T
    BY <1>2
  <1>4. (x - 1) + 1 \in S
    BY <1>3
  <1> QED
    BY <1>4

(* s holds the sums of f, from 0 up to n terms. *)
Sums(s, f, n) ==
    /\ s \in [0..n -> Nat] /\ s[0] = 0
    /\ \A i \in 0..n : i < n => s[i + 1] = s[i] + f[i + 1]

LEMMA SumsExist ==
    ASSUME NEW n \in Nat, NEW f \in [1..n -> Nat]
    PROVE  \E s : Sums(s, f, n)
  <1> DEFINE S == {m \in 0..n : \E s : Sums(s, f, m)}
  <1>1. 0 \in S
    <2> DEFINE s == [i \in 0..0 |-> 0]
    <2>1. Sums(s, f, 0)
      BY DEF Sums
    <2> HIDE DEF s
    <2> QED
      BY <2>1
  <1>2. ASSUME NEW m \in 0..n, m \in S, m < n
        PROVE  m + 1 \in S
    <2>1. PICK s : Sums(s, f, m)
      BY <1>2
    <2> DEFINE x == s[m] + f[m + 1]
    <2>2. s \in [0..m -> Nat] /\ f[m + 1] \in Nat
      BY <1>2, <2>1 DEF Sums
    <2>3. x \in Nat
      BY <1>2, <2>2
    <2> DEFINE t == [i \in 0..(m + 1) |-> IF i <= m THEN s[i] ELSE x]
    <2>4. t \in [0..(m + 1) -> Nat] /\ t[m + 1] = x /\ \A i \in 0..m : t[i] = s[i]
      BY <1>2, <2>2, <2>3
    <2> HIDE DEF t
    <2>5. ASSUME NEW i \in 0..(m + 1), i < m + 1
          PROVE  t[i + 1] = t[i] + f[i + 1]
      <3>1. CASE i < m
        <4>1. i \in 0..m /\ i + 1 \in 0..m
          BY <1>2, <3>1
        <4> QED
          BY <2>1, <2>4, <3>1, <4>1 DEF Sums
      <3>2. CASE i = m
        BY <1>2, <2>4, <3>2
      <3> QED
        BY <1>2, <2>5, <3>1, <3>2
    <2>6. Sums(t, f, m + 1)
      BY <1>2, <2>1, <2>4, <2>5 DEF Sums
    <2> QED
      BY <1>2, <2>6
  <1> HIDE DEF S
  <1>3. n \in S
    BY <1>1, <1>2, UpTo
  <1> QED
    BY <1>3 DEF S

(* Terms that are each at most b. *)
LEMMA SumIsBounded ==
    ASSUME NEW n \in Nat, NEW b \in Nat, NEW f \in [1..n -> Nat], NEW s, Sums(s, f, n),
           \A i \in 1..n : f[i] <= b
    PROVE  s[n] <= b * n
  <1> DEFINE S == {m \in 0..n : s[m] <= b * m}
  <1>0. s \in [0..n -> Nat] /\ s[0] = 0
    BY DEF Sums
  <1>1. 0 \in S
    BY <1>0
  <1>2. ASSUME NEW m \in 0..n, m \in S, m < n
        PROVE  m + 1 \in S
    <2>1. s[m + 1] = s[m] + f[m + 1] /\ m + 1 \in 1..n
      BY <1>2 DEF Sums
    <2>2. f[m + 1] <= b /\ f[m + 1] \in Nat /\ s[m] \in Nat /\ s[m] <= b * m
      BY <1>0, <1>2, <2>1
    <2>3. b * (m + 1) = b * m + b
      BY <1>2
    <2> DEFINE p == b * m
    <2>4. p \in Nat
      BY <1>2
    <2>5. s[m] + f[m + 1] <= p + b
      <3> HIDE DEF p
      <3> QED
        BY <2>2, <2>4 DEF p
    <2> QED
      BY <1>2, <2>1, <2>3, <2>5
  <1> HIDE DEF S
  <1>3. n \in S
    BY <1>1, <1>2, UpTo
  <1> QED
    BY <1>3 DEF S

LEMMA TwoGoDown ==
    ASSUME NEW g \in Nat, NEW c \in Nat, NEW a1 \in Nat, NEW a2 \in Nat,
           NEW b1 \in Nat, NEW b2 \in Nat, NEW c1 \in Nat, NEW c2 \in Nat,
           g * a1 >= g * b1 + c * c1, g * a2 >= g * b2 + c * c2
    PROVE  g * (a1 + a2) >= g * (b1 + b2) + c * (c1 + c2)
  <1>1. g * (a1 + a2) = g * a1 + g * a2 /\ g * (b1 + b2) = g * b1 + g * b2 /\ c * (c1 + c2) = c * c1 + c * c2
    OBVIOUS
  <1> DEFINE x1 == g * a1
             x2 == g * a2
             y1 == g * b1
             y2 == g * b2
             z1 == c * c1
             z2 == c * c2
  <1>2. x1 \in Nat /\ x2 \in Nat /\ y1 \in Nat /\ y2 \in Nat /\ z1 \in Nat /\ z2 \in Nat
    OBVIOUS
  <1>3. x1 + x2 >= (y1 + y2) + (z1 + z2)
    <2>1. x1 >= y1 + z1 /\ x2 >= y2 + z2
      OBVIOUS
    <2> HIDE DEF x1, x2, y1, y2, z1, z2
    <2> QED
      BY <1>2, <2>1
  <1> QED
    BY <1>1, <1>3

(* Terms that each go down by so much for every unit of another. *)
LEMMA SumGoesDown ==
    ASSUME NEW n \in Nat, NEW g \in Nat, NEW c \in Nat,
           NEW f \in [1..n -> Nat], NEW h \in [1..n -> Nat], NEW b \in [1..n -> Nat],
           NEW s, Sums(s, f, n), NEW t, Sums(t, h, n), NEW u, Sums(u, b, n),
           \A i \in 1..n : g * f[i] >= g * h[i] + c * b[i]
    PROVE  g * s[n] >= g * t[n] + c * u[n]
  <1> DEFINE S == {m \in 0..n : g * s[m] >= g * t[m] + c * u[m]}
  <1>0. /\ s \in [0..n -> Nat] /\ s[0] = 0 /\ t \in [0..n -> Nat] /\ t[0] = 0
        /\ u \in [0..n -> Nat] /\ u[0] = 0
    BY DEF Sums
  <1>1. 0 \in S
    BY <1>0
  <1>2. ASSUME NEW m \in 0..n, m \in S, m < n
        PROVE  m + 1 \in S
    <2>1. /\ s[m + 1] = s[m] + f[m + 1] /\ t[m + 1] = t[m] + h[m + 1] /\ u[m + 1] = u[m] + b[m + 1]
          /\ m + 1 \in 1..n
      BY <1>2 DEF Sums
    <2>2. /\ s[m] \in Nat /\ f[m + 1] \in Nat /\ t[m] \in Nat /\ h[m + 1] \in Nat
          /\ u[m] \in Nat /\ b[m + 1] \in Nat
          /\ g * s[m] >= g * t[m] + c * u[m]
          /\ g * f[m + 1] >= g * h[m + 1] + c * b[m + 1]
      BY <1>0, <1>2, <2>1
    <2>3. g * (s[m] + f[m + 1]) >= g * (t[m] + h[m + 1]) + c * (u[m] + b[m + 1])
      BY <2>2, TwoGoDown
    <2>4. g * s[m + 1] >= g * t[m + 1] + c * u[m + 1]
      BY <2>1, <2>3
    <2>5. m + 1 \in 0..n
      BY <1>2
    <2> QED
      BY <2>4, <2>5
  <1> HIDE DEF S
  <1>3. n \in S
    BY <1>1, <1>2, UpTo
  <1> QED
    BY <1>3 DEF S

(* What sets have together is not more than what each has. *)
LEMMA UnionIsBounded ==
    ASSUME NEW n \in Nat, NEW A, NEW f \in [1..n -> Nat], NEW s, Sums(s, f, n),
           \A i \in 1..n : IsFiniteSet(A[i]) /\ Cardinality(A[i]) = f[i]
    PROVE  IsFiniteSet(UNION {A[i] : i \in 1..n}) /\ Cardinality(UNION {A[i] : i \in 1..n}) <= s[n]
  <1> DEFINE U(m) == UNION {A[i] : i \in 1..m}
             S == {m \in 0..n : IsFiniteSet(U(m)) /\ Cardinality(U(m)) <= s[m]}
  <1>0. s \in [0..n -> Nat] /\ s[0] = 0
    BY DEF Sums
  <1>1. 0 \in S
    <2>1. U(0) = {}
      OBVIOUS
    <2> HIDE DEF U
    <2> QED
      BY <1>0, <2>1, FS_EmptySet
  <1>2. ASSUME NEW m \in 0..n, m \in S, m < n
        PROVE  m + 1 \in S
    <2>1. s[m + 1] = s[m] + f[m + 1] /\ m + 1 \in 1..n
      BY <1>2 DEF Sums
    <2>2. U(m + 1) = U(m) \cup A[m + 1]
      <3>1. \A i : i \in 1..(m + 1) <=> i \in 1..m \/ i = m + 1
        BY <1>2
      <3> QED
        BY <3>1
    <2> DEFINE X == U(m)
               Y == A[m + 1]
    <2>3. IsFiniteSet(X) /\ Cardinality(X) <= s[m] /\ IsFiniteSet(Y) /\ Cardinality(Y) = f[m + 1]
      BY <1>2, <2>1
    <2> HIDE DEF X, Y
    <2>4. /\ IsFiniteSet(X \cup Y) /\ IsFiniteSet(X \cap Y)
          /\ Cardinality(X \cup Y) = Cardinality(X) + Cardinality(Y) - Cardinality(X \cap Y)
      BY <2>3, FS_Union, FS_Intersection
    <2>5. Cardinality(X) \in Nat /\ Cardinality(Y) \in Nat /\ Cardinality(X \cap Y) \in Nat
      BY <2>3, <2>4, FS_CardinalityType
    <2>6. Cardinality(X \cup Y) <= s[m + 1]
      BY <1>0, <2>1, <2>3, <2>4, <2>5
    <2>7. m + 1 \in 0..n
      BY <1>2
    <2>8. U(m + 1) = X \cup Y
      BY <2>2 DEF X, Y
    <2>9. IsFiniteSet(U(m + 1)) /\ Cardinality(U(m + 1)) <= s[m + 1]
      BY <2>4, <2>6, <2>8
    <2> HIDE DEF U
    <2> QED
      BY <2>7, <2>9
  <1> HIDE DEF S, U
  <1>3. n \in S
    BY <1>1, <1>2, UpTo
  <1>4. IsFiniteSet(U(n)) /\ Cardinality(U(n)) <= s[n]
    BY <1>3 DEF S
  <1> QED
    BY <1>4 DEF U

-----------------------------------------------------------------------------
(* Weights W for the numbers 0..m that pay L for a tape: the i-th unit of a *)
(* weight, taken i times, is worth L.                                       *)
Weights(L, W, m) ==
    /\ W \in [0..m -> Nat]
    /\ \A i \in 1..m : \E d \in Nat : W[i] = W[i - 1] + d /\ i * d >= L

LEMMA WeightsPay ==
    ASSUME NEW L \in Nat, NEW m \in Nat, NEW W, Weights(L, W, m),
           NEW g \in Nat, NEW r \in 0..m, NEW q \in 0..m, q <= r, r <= g
    PROVE  W[q] <= W[r] /\ g * W[r] >= g * W[q] + L * (r - q)
  <1> DEFINE S == {k \in 0..(r - q) : W[q] <= W[q + k] /\ g * W[q + k] >= g * W[q] + L * k}
  <1>0. r - q \in Nat /\ W \in [0..m -> Nat] /\ q + (r - q) = r
    BY DEF Weights
  <1>1. 0 \in S
    <2>1. W[q] \in Nat /\ W[q + 0] = W[q]
      BY <1>0
    <2>2. g * W[q] \in Nat /\ L * 0 = 0
      BY <2>1
    <2> QED
      BY <1>0, <2>1, <2>2
  <1>2. ASSUME NEW k \in 0..(r - q), k \in S, k < r - q
        PROVE  k + 1 \in S
    <2> DEFINE i == q + k + 1
    <2>1. i \in 1..m /\ i - 1 = q + k /\ i = q + (k + 1) /\ i <= g /\ i - 1 \in 0..m /\ i \in 0..m
      BY <1>2
    <2>2. PICK d \in Nat : W[i] = W[i - 1] + d /\ i * d >= L
      BY <2>1 DEF Weights
    <2>3. g * d >= i * d
      <3>1. PICK e \in Nat : g = i + e
        <4>1. g - i \in Nat /\ g = i + (g - i)
          BY <2>1
        <4> QED
          BY <4>1
      <3>2. (i + e) * d = i * d + e * d /\ i * d \in Nat /\ e * d \in Nat
        BY <2>1, <2>2, <3>1
      <3> QED
        BY <3>1, <3>2
    <2> DEFINE a == W[i - 1]
               b == W[q]
    <2>4. a \in Nat /\ b \in Nat /\ b <= a /\ g * a >= g * b + L * k
      BY <1>0, <1>2, <2>1
    <2> HIDE DEF a, b, i
    <2>5. g * (a + d) = g * a + g * d /\ L * (k + 1) = L * k + L
      BY <1>2, <2>2, <2>4
    <2>6. g * a \in Nat /\ g * d \in Nat /\ g * b \in Nat /\ L * k \in Nat /\ i * d \in Nat
      BY <1>2, <2>1, <2>2, <2>4
    <2>7. g * a + g * d >= g * b + (L * k + L)
      <3> DEFINE x1 == g * a
                 x2 == g * d
                 x3 == g * b
                 x4 == L * k
                 x5 == i * d
      <3>1. /\ x1 \in Nat /\ x2 \in Nat /\ x3 \in Nat /\ x4 \in Nat /\ x5 \in Nat
            /\ x2 >= x5 /\ x5 >= L /\ x1 >= x3 + x4
        BY <2>2, <2>3, <2>4, <2>6
      <3> HIDE DEF x1, x2, x3, x4, x5
      <3>2. x1 + x2 >= x3 + (x4 + L)
        BY <3>1
      <3> QED
        BY <3>2 DEF x1, x2, x3, x4
    <2>8. W[i] = a + d
      BY <2>2 DEF a
    <2>9. b <= W[i] /\ g * W[i] >= g * b + L * (k + 1)
      BY <2>2, <2>4, <2>5, <2>7, <2>8
    <2>10. W[q] <= W[q + (k + 1)] /\ g * W[q + (k + 1)] >= g * W[q] + L * (k + 1)
      BY <2>1, <2>9 DEF b
    <2> QED
      BY <1>2, <2>10
  <1> HIDE DEF S
  <1>3. r - q \in S
    BY <1>0, <1>1, <1>2, UpTo
  <1> QED
    BY <1>0, <1>3 DEF S

-----------------------------------------------------------------------------
(* What of a tape's files is not planned yet; the mapping holds just that.  *)
Left(t) == on[t] \ Planned

LeftInv == \A s \in known :
    /\ s \in DOMAIN mapping => mapping[s] = Left(s)
    /\ s \notin DOMAIN mapping => Left(s) = {}

LEMMA LeftStarts == Init => LeftInv
  <1> SUFFICES ASSUME Init PROVE LeftInv
    OBVIOUS
  <1>1. Planned = {}
    BY DEF Init, Planned
  <1> QED
    BY <1>1 DEF Init, Found, LeftInv, Left

LEMMA LeftShrinks ==
    ASSUME PlanInv, NEW t \in TapeIds, Pick(t)
    PROVE  Planned' = Planned \cup mapping[t] /\ \A s : Left(s)' = Left(s) \ mapping[t]
  <1>0. t \in DOMAIN mapping /\ on' = on
    BY DEF Pick
  <1>1. CASE mapping[t] = {}
    <2>1. plan' = plan
      BY <1>1 DEF Pick, Extended
    <2> QED
      BY <1>0, <1>1, <2>1 DEF Left, Planned
  <1>2. CASE mapping[t] # {}
    <2> DEFINE n == Len(plan) + 1
    <2>1. /\ DOMAIN plan = 1..Len(plan) /\ DOMAIN plan' = 1..n
          /\ \A k \in DOMAIN plan : plan'[k] = plan[k]
          /\ plan'[n] = [tape |-> t, files |-> mapping[t]]
      BY <1>0, <1>2, ExtendedPlan
    <2>2. Len(plan) \in Nat
      BY DEF PlanInv, TypeOK
    <2>3. \A k \in DOMAIN plan' : k \in DOMAIN plan \/ k = n
      BY <2>1, <2>2
    <2>4. n \in DOMAIN plan' /\ \A k \in DOMAIN plan : k \in DOMAIN plan'
      BY <2>1, <2>2
    <2>5. Planned' = Planned \cup mapping[t]
      <3> HIDE DEF n
      <3> QED
        BY <2>1, <2>3, <2>4 DEF Planned
    <2> QED
      BY <1>0, <2>5 DEF Left
  <1> QED
    BY <1>1, <1>2

LEMMA LeftGoesOn ==
    ASSUME PlanInv, LeftInv, NEW t \in TapeIds, Pick(t)
    PROVE  LeftInv'
  <1>1. /\ t \in DOMAIN mapping /\ known' = known
        /\ DOMAIN mapping' = DOMAIN mapping \ {t}
        /\ \A s \in DOMAIN mapping' : mapping'[s] = mapping[s] \ mapping[t]
    BY DEF Pick, Rest
  <1>2. \A s : Left(s)' = Left(s) \ mapping[t]
    BY LeftShrinks
  <1> SUFFICES ASSUME NEW s \in known
               PROVE  /\ s \in DOMAIN mapping' => mapping'[s] = Left(s)'
                      /\ s \notin DOMAIN mapping' => Left(s)' = {}
    BY <1>1 DEF LeftInv
  <1>3. /\ s \in DOMAIN mapping => mapping[s] = Left(s)
        /\ s \notin DOMAIN mapping => Left(s) = {}
    BY DEF LeftInv
  <1> QED
    BY <1>1, <1>2, <1>3

(* No tape has more than m of the files.                                    *)
FewFiles(m) == \A t \in TapeIds : Cardinality(on[t]) <= m

(* A cover given as a list of tapes, and what its tapes still weigh.        *)
CoverOf(c, n) == c \in [1..n -> known] /\ UNION {on[c[i]] : i \in 1..n} = Wanted

Weight(W, t) == W[Cardinality(Left(t))]

Pays(L, W, m, c, n) ==
    \E s : /\ Sums(s, [i \in 1..n |-> Weight(W, c[i])], n)
           /\ L * Len(plan) + s[n] <= W[m] * n

NearInv(L, W, m) == \A n \in Nat : \A c : CoverOf(c, n) => Pays(L, W, m, c, n)

LEMMA LeftIsSmall ==
    ASSUME PlanInv, NEW m \in Nat, FewFiles(m), NEW t \in known
    PROVE  IsFiniteSet(Left(t)) /\ Cardinality(Left(t)) \in 0..m
  <1>1. t \in TapeIds /\ on[t] \subseteq FileIds
    BY DEF PlanInv, TypeOK
  <1>2. IsFiniteSet(on[t]) /\ Cardinality(on[t]) \in Nat
    BY <1>1, PlanAssumption, FS_Subset, FS_CardinalityType
  <1>3. Left(t) \subseteq on[t]
    BY DEF Left
  <1>4. IsFiniteSet(Left(t)) /\ Cardinality(Left(t)) <= Cardinality(on[t]) /\ Cardinality(Left(t)) \in Nat
    BY <1>2, <1>3, FS_Subset, FS_CardinalityType
  <1>5. Cardinality(on[t]) <= m
    BY <1>1 DEF FewFiles
  <1> QED
    BY <1>2, <1>4, <1>5

LEMMA NearStarts ==
    ASSUME NEW L \in Nat, NEW m \in Nat, NEW W, Weights(L, W, m), Init, FewFiles(m)
    PROVE  NearInv(L, W, m)
  <1>1. PlanInv
    BY PlanStarts
  <1> SUFFICES ASSUME NEW n \in Nat, NEW c, CoverOf(c, n)
               PROVE  Pays(L, W, m, c, n)
    BY DEF NearInv
  <1> DEFINE f == [i \in 1..n |-> Weight(W, c[i])]
  <1>2. ASSUME NEW i \in 1..n
        PROVE  f[i] \in Nat /\ f[i] <= W[m] /\ W[m] \in Nat
    <2>1. c[i] \in known
      BY DEF CoverOf
    <2> DEFINE q == Cardinality(Left(c[i]))
    <2>2. q \in 0..m
      BY <1>1, <2>1, LeftIsSmall
    <2>3. f[i] = W[q]
      BY DEF Weight
    <2> HIDE DEF q, f
    <2>4. q <= m /\ m <= m /\ m \in 0..m
      BY <2>2
    <2>5. W[q] <= W[m]
      BY <2>2, <2>4, WeightsPay
    <2> QED
      BY <2>2, <2>3, <2>4, <2>5 DEF Weights
  <1>3. W[m] \in Nat /\ f \in [1..n -> Nat]
    BY <1>2 DEF Weights
  <1>4. \A i \in 1..n : f[i] <= W[m]
    BY <1>2
  <1> HIDE DEF f
  <1>5. PICK s : Sums(s, f, n)
    BY <1>3, SumsExist
  <1>6. s[n] <= W[m] * n
    BY <1>3, <1>4, <1>5, SumIsBounded
  <1>7. L * Len(plan) = 0 /\ s[n] \in Nat
    BY <1>5 DEF Init, Sums
  <1>8. L * Len(plan) + s[n] = s[n]
    BY <1>7
  <1>9. L * Len(plan) + s[n] <= W[m] * n
    BY <1>6, <1>8
  <1> QED
    BY <1>5, <1>9 DEF Pays, f

(* What the tape that is picked takes from the others of a cover is at      *)
(* least all its files.                                                     *)
LEMMA CoverGives ==
    ASSUME PlanInv, LeftInv, NEW t \in DOMAIN mapping, NEW n \in Nat, NEW c, CoverOf(c, n),
           NEW b \in [1..n -> Nat], NEW u, Sums(u, b, n),
           \A i \in 1..n : b[i] = Cardinality(Left(c[i]) \cap mapping[t])
    PROVE  Cardinality(mapping[t]) <= u[n]
  <1> DEFINE A == [i \in 1..n |-> Left(c[i]) \cap mapping[t]]
             U == UNION {A[i] : i \in 1..n}
  <1>1. IsFiniteSet(mapping[t])
    <2>1. mapping[t] \subseteq FileIds
      BY DEF PlanInv, TypeOK
    <2> QED
      BY <2>1, PlanAssumption, FS_Subset
  <1>2. \A i \in 1..n : IsFiniteSet(A[i]) /\ Cardinality(A[i]) = b[i]
    BY <1>1, FS_Subset
  <1>3. mapping[t] \subseteq U
    <2>1. t \in known /\ mapping[t] = Left(t)
      BY DEF PlanInv, TypeOK, LeftInv
    <2> SUFFICES ASSUME NEW f \in mapping[t] PROVE f \in U
      OBVIOUS
    <2>2. f \in on[t] /\ f \notin Planned
      BY <2>1 DEF Left
    <2>3. f \in Wanted
      BY <2>1, <2>2 DEF Wanted
    <2>4. PICK i \in 1..n : f \in on[c[i]]
      BY <2>3 DEF CoverOf
    <2>5. f \in A[i]
      BY <2>2, <2>4 DEF Left
    <2> QED
      BY <2>5
  <1> HIDE DEF A
  <1>4. IsFiniteSet(U) /\ Cardinality(U) <= u[n]
    BY <1>2, UnionIsBounded
  <1>5. Cardinality(mapping[t]) <= Cardinality(U) /\ Cardinality(mapping[t]) \in Nat /\ Cardinality(U) \in Nat
    BY <1>1, <1>3, <1>4, FS_Subset, FS_CardinalityType
  <1>6. u[n] \in Nat
    BY DEF Sums
  <1> QED
    BY <1>4, <1>5, <1>6

(* The tape that is picked has no fewer files than any other still has, so  *)
(* what it takes from a tape is paid for by the weight that tape loses.     *)
LEMMA WeightPaysPick ==
    ASSUME NEW L \in Nat, NEW m \in Nat, NEW W, Weights(L, W, m), PlanInv, LeftInv, FewFiles(m),
           NEW t \in TapeIds, Pick(t), NEW s \in known
    PROVE  /\ W[Cardinality(Left(s))] \in Nat /\ W[Cardinality(Left(s) \ mapping[t])] \in Nat
           /\ Cardinality(Left(s) \cap mapping[t]) \in Nat
           /\ Cardinality(mapping[t]) * W[Cardinality(Left(s))] >=
                Cardinality(mapping[t]) * W[Cardinality(Left(s) \ mapping[t])]
                + L * Cardinality(Left(s) \cap mapping[t])
  <1> DEFINE G == mapping[t]
             X == Left(s)
             r == Cardinality(X)
             q == Cardinality(X \ G)
             b == Cardinality(X \cap G)
             g == Cardinality(G)
  <1>1. t \in DOMAIN mapping /\ t \in known /\ G = Left(t)
    BY DEF Pick, PlanInv, TypeOK, LeftInv
  <1>2. IsFiniteSet(X) /\ r \in 0..m /\ IsFiniteSet(G) /\ g \in 0..m
    BY <1>1, LeftIsSmall
  <1>3. r <= g
    <2>1. CASE s = t
      BY <1>1, <1>2, <2>1
    <2>2. CASE s \in DOMAIN mapping /\ s # t
      <3>1. mapping[s] = X /\ Before(t, s)
        BY <2>2 DEF Pick, LeftInv
      <3> QED
        BY <1>2, <3>1 DEF Before
    <2>3. CASE s \notin DOMAIN mapping
      <3>1. X = {}
        BY <2>3 DEF LeftInv
      <3>2. r = 0
        BY <3>1, FS_EmptySet
      <3> QED
        BY <1>2, <3>2
    <2> QED
      BY <2>1, <2>2, <2>3
  <1> HIDE DEF G, X
  <1>4. IsFiniteSet(X \ G) /\ IsFiniteSet(X \cap G) /\ q = r - b
    BY <1>2, FS_Difference, FS_Intersection
  <1>5. q \in Nat /\ b \in Nat
    BY <1>4, FS_CardinalityType
  <1>6. q \in 0..m /\ q <= r /\ r - q = b
    BY <1>2, <1>4, <1>5
  <1> HIDE DEF q, b, r, g
  <1>7. g * W[r] >= g * W[q] + L * (r - q)
    <2>1. g \in Nat
      BY <1>2
    <2> QED
      BY <1>2, <1>3, <1>6, <2>1, WeightsPay
  <1>8. g * W[r] >= g * W[q] + L * b
    BY <1>6, <1>7
  <1>9. W[r] \in Nat /\ W[q] \in Nat
    BY <1>2, <1>6 DEF Weights
  <1> QED
    BY <1>5, <1>8, <1>9 DEF G, X, r, q, b, g

LEMMA OneTapeIsPaid ==
    ASSUME NEW g \in Nat, g # 0, NEW L \in Nat, NEW x \in Nat, NEW y \in Nat, NEW u \in Nat,
           g * x >= g * y + L * u, g <= u
    PROVE  x >= y + L
  <1>1. PICK e \in Nat : u = g + e
    <2>1. u - g \in Nat /\ u = g + (u - g)
      OBVIOUS
    <2> QED
      BY <2>1
  <1>2. L * u = g * L + L * e /\ L * e \in Nat /\ g * L \in Nat /\ g * y \in Nat /\ g * x \in Nat
    BY <1>1
  <1>3. g * x >= g * y + g * L
    BY <1>2
  <1>4. g * y + g * L = g * (y + L)
    OBVIOUS
  <1>5. SUFFICES ASSUME y + L > x PROVE FALSE
    OBVIOUS
  <1>6. PICK d \in Nat : y + L = x + d /\ d # 0
    <2>1. (y + L) - x \in Nat /\ y + L = x + ((y + L) - x) /\ (y + L) - x # 0
      BY <1>5
    <2> QED
      BY <2>1
  <1>7. g * (x + d) = g * x + g * d /\ g * d \in Nat
    BY <1>6
  <1>8. g * d # 0
    BY <1>6
  <1> QED
    BY <1>2, <1>3, <1>4, <1>6, <1>7, <1>8

LEMMA NearGoesOn ==
    ASSUME NEW L \in Nat, NEW m \in Nat, NEW W, Weights(L, W, m), PlanInv, LeftInv, FewFiles(m),
           NearInv(L, W, m), NEW t \in TapeIds, Pick(t), NEW n \in Nat, NEW c, CoverOf(c, n)
    PROVE  Pays(L, W, m, c, n)'
  <1>0. t \in DOMAIN mapping /\ \A s : Left(s)' = Left(s) \ mapping[t]
    BY LeftShrinks DEF Pick
  <1> DEFINE f == [i \in 1..n |-> Weight(W, c[i])]
             h == [i \in 1..n |-> W[Cardinality(Left(c[i]) \ mapping[t])]]
             b == [i \in 1..n |-> Cardinality(Left(c[i]) \cap mapping[t])]
             g == Cardinality(mapping[t])
  <1>1. \A i \in 1..n : c[i] \in known
    BY DEF CoverOf
  <1>2. \A i \in 1..n : /\ f[i] \in Nat /\ h[i] \in Nat /\ b[i] \in Nat
                        /\ g * f[i] >= g * h[i] + L * b[i]
    <2> TAKE i \in 1..n
    <2>1. /\ f[i] = W[Cardinality(Left(c[i]))]
          /\ h[i] = W[Cardinality(Left(c[i]) \ mapping[t])]
          /\ b[i] = Cardinality(Left(c[i]) \cap mapping[t])
      BY DEF Weight
    <2> HIDE DEF f, h, b, g
    <2>2. c[i] \in known
      BY <1>1
    <2>3. /\ W[Cardinality(Left(c[i]))] \in Nat /\ W[Cardinality(Left(c[i]) \ mapping[t])] \in Nat
          /\ Cardinality(Left(c[i]) \cap mapping[t]) \in Nat
          /\ g * W[Cardinality(Left(c[i]))] >=
               g * W[Cardinality(Left(c[i]) \ mapping[t])] + L * Cardinality(Left(c[i]) \cap mapping[t])
      BY <2>2, WeightPaysPick DEF g
    <2> QED
      BY <2>1, <2>3
  <1>3. f \in [1..n -> Nat] /\ h \in [1..n -> Nat] /\ b \in [1..n -> Nat]
    BY <1>2
  <1>4. \A i \in 1..n : b[i] = Cardinality(Left(c[i]) \cap mapping[t])
    OBVIOUS
  <1>5. f = [i \in 1..n |-> Weight(W, c[i])] /\ h = [i \in 1..n |-> Weight(W, c[i])]'
    BY <1>0 DEF Weight
  <1>6. g \in Nat
    <2>1. mapping[t] \subseteq FileIds
      BY <1>0 DEF PlanInv, TypeOK
    <2> QED
      BY <2>1, PlanAssumption, FS_Subset, FS_CardinalityType
  <1> HIDE DEF f, h, b
  <1>7. PICK s : Sums(s, f, n) /\ L * Len(plan) + s[n] <= W[m] * n
    BY <1>5 DEF NearInv, Pays
  <1>8. PICK r : Sums(r, h, n)
    BY <1>3, SumsExist
  <1>9. PICK u : Sums(u, b, n)
    BY <1>3, SumsExist
  <1>10. g <= u[n]
    BY <1>0, <1>3, <1>4, <1>9, CoverGives
  <1>11. s[n] \in Nat /\ r[n] \in Nat /\ u[n] \in Nat
    BY <1>7, <1>8, <1>9 DEF Sums
  <1> HIDE DEF g
  <1>12. g * s[n] >= g * r[n] + L * u[n]
    BY <1>2, <1>3, <1>6, <1>7, <1>8, <1>9, SumGoesDown
  <1>13. Len(plan) \in Nat /\ W[m] \in Nat
    BY DEF PlanInv, TypeOK, Weights
  <1>14. CASE mapping[t] = {}
    <2>1. plan' = plan
      BY <1>14 DEF Pick, Extended
    <2>2. h = f
      BY <1>14 DEF h, f, Weight
    <2> QED
      BY <1>5, <1>7, <2>1, <2>2 DEF Pays
  <1>15. CASE mapping[t] # {}
    <2>1. g # 0
      <3>1. mapping[t] \subseteq FileIds
        BY <1>0 DEF PlanInv, TypeOK
      <3> QED
        BY <1>15, <3>1, PlanAssumption, FS_Subset, FS_EmptySet DEF g
    <2>2. s[n] >= r[n] + L
      BY <1>6, <1>10, <1>11, <1>12, <2>1, OneTapeIsPaid
    <2>3. Len(plan)' = Len(plan) + 1
      BY <1>0, <1>15, ExtendedPlan
    <2>4. L * (Len(plan) + 1) = L * Len(plan) + L /\ L * Len(plan) \in Nat /\ W[m] * n \in Nat
      BY <1>13
    <2>5. L * Len(plan)' + r[n] <= W[m] * n
      BY <1>7, <1>11, <2>2, <2>3, <2>4
    <2> QED
      BY <1>5, <1>8, <2>5 DEF Pays
  <1> QED
    BY <1>14, <1>15

NearlyInv(L, W, m) == PlanInv /\ LeftInv /\ FewFiles(m) /\ NearInv(L, W, m)

LEMMA NearlyStep ==
    ASSUME NEW L \in Nat, NEW m \in Nat, NEW W, Weights(L, W, m),
           NearlyInv(L, W, m), [Next]_vars
    PROVE  NearlyInv(L, W, m)'
  <1>0. PlanInv /\ LeftInv /\ FewFiles(m) /\ NearInv(L, W, m)
    BY DEF NearlyInv
  <1>1. CASE Next
    <2>1. PICK t \in TapeIds : Pick(t)
      BY <1>1 DEF Next
    <2>2. PlanInv' /\ LeftInv'
      BY <1>0, <2>1, PlanGoesOn, LeftGoesOn
    <2>3. on' = on /\ known' = known
      BY <2>1 DEF Pick
    <2>4. FewFiles(m)'
      BY <1>0, <2>3 DEF FewFiles
    <2>5. ASSUME NEW n \in Nat, NEW c, CoverOf(c, n)'
          PROVE  Pays(L, W, m, c, n)'
      <3>1. CoverOf(c, n)
        BY <2>3, <2>5 DEF CoverOf, Wanted
      <3> QED
        BY <1>0, <2>1, <3>1, NearGoesOn
    <2>6. NearInv(L, W, m)'
      BY <2>5 DEF NearInv
    <2> QED
      BY <2>2, <2>4, <2>6 DEF NearlyInv
  <1>2. CASE UNCHANGED vars
    <2>1. on' = on /\ known' = known /\ mapping' = mapping /\ plan' = plan
      BY <1>2 DEF vars
    <2>2. PlanInv'
      BY <1>0, <2>1 DEF PlanInv, TypeOK, PlanIsSound, Pending, PlanIsGreedy, Shrinking, Wanted, Planned
    <2>3. LeftInv' /\ FewFiles(m)'
      BY <1>0, <2>1 DEF LeftInv, Left, Planned, FewFiles
    <2>4. ASSUME NEW n \in Nat, NEW c, CoverOf(c, n)'
          PROVE  Pays(L, W, m, c, n)'
      <3>1. CoverOf(c, n)
        BY <2>1, <2>4 DEF CoverOf, Wanted
      <3>2. Pays(L, W, m, c, n)
        BY <1>0, <3>1 DEF NearInv
      <3> QED
        BY <2>1, <3>2 DEF Pays, Weight, Left, Planned
    <2>5. NearInv(L, W, m)'
      BY <2>4 DEF NearInv
    <2> QED
      BY <2>2, <2>3, <2>5 DEF NearlyInv
  <1> QED
    BY <1>1, <1>2

(* F[i] is the factorial of i, and H[i] is that of i times                  *)
(* 1 + 1/2 + ... + 1/i.                                                     *)
Harmonic(F, H, m) ==
    /\ F \in [0..m -> Nat] /\ F[0] = 1 /\ \A i \in 1..m : F[i] = i * F[i - 1]
    /\ H \in [0..m -> Nat] /\ H[0] = 0 /\ \A i \in 1..m : H[i] = i * H[i - 1] + F[i - 1]

LEMMA HarmonicWeighs ==
    ASSUME NEW m \in Nat, NEW F, NEW H, Harmonic(F, H, m)
    PROVE  \E W : Weights(F[m], W, m) /\ W[m] = H[m]
  <1> DEFINE S == {k \in 0..m : \E W : Weights(F[k], W, k) /\ W[k] = H[k]}
  <1>0. F \in [0..m -> Nat] /\ H \in [0..m -> Nat] /\ H[0] = 0
    BY DEF Harmonic
  <1>1. 0 \in S
    <2> DEFINE W == [i \in 0..0 |-> 0]
    <2>1. Weights(F[0], W, 0) /\ W[0] = H[0]
      BY <1>0 DEF Weights
    <2> HIDE DEF W
    <2> QED
      BY <2>1
  <1>2. ASSUME NEW k \in 0..m, k \in S, k < m
        PROVE  k + 1 \in S
    <2>1. PICK W : Weights(F[k], W, k) /\ W[k] = H[k]
      BY <1>2
    <2> DEFINE j == k + 1
    <2>2. j \in 1..m /\ j - 1 = k /\ j \in 0..m
      BY <1>2
    <2>3. F[j] = j * F[k] /\ H[j] = j * H[k] + F[k] /\ F[k] \in Nat /\ H[k] \in Nat
      BY <1>0, <2>2 DEF Harmonic
    <2>4. W \in [0..k -> Nat]
      BY <2>1 DEF Weights
    <2> HIDE DEF j
    <2>5. j \in Nat
      BY <2>2
    <2> DEFINE V == [i \in 0..j |-> IF i <= k THEN j * W[i] ELSE j * W[k] + F[k]]
    <2>6. V \in [0..j -> Nat]
      <3>1. \A i \in 0..j : i <= k => i \in 0..k
        BY <2>5
      <3>2. \A i \in 0..k : j * W[i] \in Nat
        BY <2>4, <2>5
      <3>3. k \in 0..k
        BY <1>2
      <3> QED
        BY <2>3, <3>1, <3>2, <3>3
    <2>7. V[j] = j * W[k] + F[k] /\ \A i \in 0..k : V[i] = j * W[i]
      BY <1>2, <2>2, <2>5
    <2> HIDE DEF V
    <2>8. ASSUME NEW i \in 1..j
          PROVE  \E d \in Nat : V[i] = V[i - 1] + d /\ i * d >= F[j]
      <3>1. CASE i = j
        <4>1. V[i - 1] = j * W[k] /\ V[i] = V[i - 1] + F[k]
          BY <1>2, <2>2, <2>7, <3>1
        <4>2. i * F[k] >= F[j]
          BY <2>3, <2>5, <3>1
        <4> QED
          BY <2>3, <4>1, <4>2
      <3>2. CASE i # j
        <4>1. i \in 1..k /\ i \in 0..k /\ i - 1 \in 0..k
          BY <1>2, <2>2, <3>2
        <4>2. PICK d \in Nat : W[i] = W[i - 1] + d /\ i * d >= F[k]
          BY <2>1, <4>1 DEF Weights
        <4>3. V[i] = j * W[i] /\ V[i - 1] = j * W[i - 1] /\ W[i - 1] \in Nat
          BY <2>4, <2>7, <4>1
        <4>4. V[i] = V[i - 1] + j * d /\ j * d \in Nat
          BY <2>5, <4>2, <4>3
        <4>5. i * (j * d) >= F[j]
          <5>1. i * (j * d) = j * (i * d) /\ i * d \in Nat
            BY <2>5, <4>1, <4>2
          <5> DEFINE x == i * d
          <5>2. PICK e \in Nat : x = F[k] + e
            <6>1. x - F[k] \in Nat /\ x = F[k] + (x - F[k])
              BY <2>3, <4>2, <5>1
            <6> QED
              BY <6>1
          <5> HIDE DEF x
          <5>3. j * x = j * F[k] + j * e /\ j * e \in Nat /\ j * F[k] \in Nat
            BY <2>3, <2>5, <5>2
          <5> QED
            BY <2>3, <5>1, <5>3 DEF x
        <4> QED
          BY <4>4, <4>5
      <3> QED
        BY <3>1, <3>2
    <2>9. Weights(F[j], V, j) /\ V[j] = H[j]
      BY <2>1, <2>3, <2>6, <2>7, <2>8 DEF Weights
    <2>10. j \in S
      BY <2>2, <2>9
    <2> QED
      BY <2>10 DEF j
  <1> HIDE DEF S
  <1>3. m \in S
    BY <1>1, <1>2, UpTo
  <1> QED
    BY <1>3 DEF S

(* There are such numbers for every m.                                      *)
LEMMA HarmonicExists ==
    ASSUME NEW m \in Nat
    PROVE  \E F, H : Harmonic(F, H, m)
  <1> DEFINE S == {k \in 0..m : \E F, H : Harmonic(F, H, k)}
  <1>1. 0 \in S
    <2> DEFINE F == [i \in 0..0 |-> 1]
               H == [i \in 0..0 |-> 0]
    <2>1. Harmonic(F, H, 0)
      BY DEF Harmonic
    <2> HIDE DEF F, H
    <2> QED
      BY <2>1
  <1>2. ASSUME NEW k \in 0..m, k \in S, k < m
        PROVE  k + 1 \in S
    <2>1. PICK F, H : Harmonic(F, H, k)
      BY <1>2
    <2> DEFINE j == k + 1
               x == j * F[k]
               y == j * H[k] + F[k]
    <2>2. F[k] \in Nat /\ H[k] \in Nat /\ j \in Nat
      BY <1>2, <2>1 DEF Harmonic
    <2>3. x \in Nat /\ y \in Nat
      BY <2>2
    <2> DEFINE G == [i \in 0..j |-> IF i <= k THEN F[i] ELSE x]
               I == [i \in 0..j |-> IF i <= k THEN H[i] ELSE y]
    <2>4. /\ G \in [0..j -> Nat] /\ G[j] = x /\ \A i \in 0..k : G[i] = F[i]
          /\ I \in [0..j -> Nat] /\ I[j] = y /\ \A i \in 0..k : I[i] = H[i]
      <3> HIDE DEF x, y
      <3> QED
        BY <1>2, <2>1, <2>3 DEF Harmonic
    <2> HIDE DEF G, I
    <2>5. ASSUME NEW i \in 1..j
          PROVE  G[i] = i * G[i - 1] /\ I[i] = i * I[i - 1] + G[i - 1]
      <3>1. CASE i = j
        <4>1. i - 1 = k /\ k \in 0..k
          BY <1>2, <3>1
        <4> QED
          BY <2>4, <3>1, <4>1
      <3>2. CASE i # j
        <4>1. i \in 1..k /\ i \in 0..k /\ i - 1 \in 0..k
          BY <1>2, <3>2
        <4>2. F[i] = i * F[i - 1] /\ H[i] = i * H[i - 1] + F[i - 1]
          BY <2>1, <4>1 DEF Harmonic
        <4> QED
          BY <2>4, <4>1, <4>2
      <3> QED
        BY <3>1, <3>2
    <2>6. G[0] = 1 /\ I[0] = 0
      BY <1>2, <2>1, <2>4 DEF Harmonic
    <2>7. Harmonic(G, I, j)
      BY <2>4, <2>5, <2>6 DEF Harmonic
    <2>8. j \in 0..m
      BY <1>2
    <2> QED
      BY <2>7, <2>8
  <1> HIDE DEF S
  <1>3. m \in S
    BY <1>1, <1>2, UpTo
  <1> QED
    BY <1>3 DEF S

LEMMA CoversPay ==
    ASSUME NEW L \in Nat, NEW m \in Nat, NEW W, Weights(L, W, m), NearlyInv(L, W, m), NEW T \in Covers
    PROVE  L * Len(plan) <= W[m] * Cardinality(T)
  <1>0. T \subseteq known /\ UNION {on[t] : t \in T} = Wanted
    BY DEF Covers
  <1>1. IsFiniteSet(T)
    <2>1. known \subseteq TapeIds
      BY DEF NearlyInv, PlanInv, TypeOK
    <2> QED
      BY <1>0, <2>1, PlanAssumption, FS_Subset
  <1>2. PICK n \in Nat : ExistsBijection(1..n, T)
    BY <1>1, FS_NatBijection
  <1>3. Cardinality(T) = n
    BY <1>2, FS_CountingElements
  <1>4. PICK c : c \in [1..n -> T] /\ \A t \in T : \E i \in 1..n : c[i] = t
    BY <1>2 DEF ExistsBijection, Bijection, Injection, Surjection
  <1>5. CoverOf(c, n)
    <2>1. \A i \in 1..n : c[i] \in T
      BY <1>4
    <2>2. c \in [1..n -> known]
      BY <1>0, <1>4
    <2>3. {on[c[i]] : i \in 1..n} = {on[t] : t \in T}
      BY <1>4, <2>1
    <2> QED
      BY <1>0, <2>2, <2>3 DEF CoverOf
  <1>6. PICK s : Sums(s, [i \in 1..n |-> Weight(W, c[i])], n) /\ L * Len(plan) + s[n] <= W[m] * n
    BY <1>5 DEF NearlyInv, NearInv, Pays
  <1>7. s[n] \in Nat /\ Len(plan) \in Nat /\ W[m] \in Nat
    BY <1>6 DEF Sums, NearlyInv, PlanInv, TypeOK, Weights
  <1>8. L * Len(plan) \in Nat /\ W[m] * n \in Nat
    BY <1>7
  <1> QED
    BY <1>3, <1>6, <1>7, <1>8

(* There is a least number of tapes that would do.                          *)
LEMMA FewestIsACover ==
    ASSUME TypeOK
    PROVE  \E T \in Covers : Cardinality(T) = Fewest
  <1> DEFINE N == {Cardinality(T) : T \in Covers}
  <1>1. IsFiniteSet(known)
    BY PlanAssumption, FS_Subset DEF TypeOK
  <1>2. \A T \in Covers : Cardinality(T) \in 0..Cardinality(known)
    <2> TAKE T \in Covers
    <2>1. T \subseteq known
      BY DEF Covers
    <2> QED
      BY <1>1, <2>1, FS_Subset, FS_CardinalityType
  <1>3. known \in Covers
    BY DEF Covers, Wanted
  <1>4. N \in SUBSET Nat /\ N # {}
    BY <1>2, <1>3
  <1> HIDE DEF N
  <1>5. PICK n \in N : \A x \in N : n <= x
    BY <1>4, LeastNat
  <1>6. PICK T \in Covers : Cardinality(T) = n
    BY DEF N
  <1>7. \A R \in Covers : Cardinality(R) >= n
    <2> TAKE R \in Covers
    <2>1. Cardinality(R) \in N
      BY DEF N
    <2> QED
      BY <1>4, <1>5, <2>1
  <1>8. n \in 0..Cardinality(known)
    BY <1>2, <1>6
  <1> QED
    BY <1>6, <1>7, <1>8 DEF Fewest

LEMMA NearlyStarts ==
    ASSUME NEW L \in Nat, NEW m \in Nat, NEW W, Weights(L, W, m), Init, FewFiles(m)
    PROVE  NearlyInv(L, W, m)
  BY PlanStarts, LeftStarts, NearStarts DEF NearlyInv

(* Whatever the library and the files: when no tape has more than m of the  *)
(* files, a plan has at most 1 + 1/2 + ... + 1/m times as many tapes as any *)
(* choice of tapes that has all the files.                                  *)
THEOREM GreedyIsNearlyMinimal ==
    ASSUME NEW m \in Nat, NEW F, NEW H, Harmonic(F, H, m)
    PROVE  Spec /\ FewFiles(m) =>
             [](\A T \in Covers : F[m] * Len(plan) <= H[m] * Cardinality(T))
  <1>1. PICK W : Weights(F[m], W, m) /\ W[m] = H[m]
    BY HarmonicWeighs
  <1>2. F[m] \in Nat
    BY DEF Harmonic
  <1>3. NearlyInv(F[m], W, m) => \A T \in Covers : F[m] * Len(plan) <= H[m] * Cardinality(T)
    BY <1>1, <1>2, CoversPay
  <1>4. Init /\ FewFiles(m) => NearlyInv(F[m], W, m)
    BY <1>1, <1>2, NearlyStarts
  <1>5. NearlyInv(F[m], W, m) /\ [Next]_vars => NearlyInv(F[m], W, m)'
    BY <1>1, <1>2, NearlyStep
  <1> QED
    BY <1>3, <1>4, <1>5, PTL DEF Spec

(* With at most four files on a tape: at most 25/12 times the fewest tapes  *)
(* that would do.                                                           *)
THEOREM RestorePlanIsNearlyMinimal == Spec /\ FewFiles(4) => []PlanIsNearlyMinimal
  <1>1. PICK F, H : Harmonic(F, H, 4)
    BY HarmonicExists
  <1>2. F[4] = 24 /\ H[4] = 50
    <2>1. 1 \in 1..4 /\ 2 \in 1..4 /\ 3 \in 1..4 /\ 4 \in 1..4
      OBVIOUS
    <2>2. F[1] = 1 /\ H[1] = 1
      BY <1>1, <2>1 DEF Harmonic
    <2>3. F[2] = 2 /\ H[2] = 3
      BY <1>1, <2>1, <2>2 DEF Harmonic
    <2>4. F[3] = 6 /\ H[3] = 11
      BY <1>1, <2>1, <2>3 DEF Harmonic
    <2> QED
      BY <1>1, <2>1, <2>4 DEF Harmonic
  <1>3. PICK W : Weights(24, W, 4) /\ W[4] = 50
    BY <1>1, <1>2, HarmonicWeighs
  <1>4. Init /\ FewFiles(4) => NearlyInv(24, W, 4)
    BY <1>3, NearlyStarts
  <1>5. NearlyInv(24, W, 4) /\ [Next]_vars => NearlyInv(24, W, 4)'
    BY <1>3, NearlyStep
  <1>6. NearlyInv(24, W, 4) => PlanIsNearlyMinimal
    <2> SUFFICES ASSUME NearlyInv(24, W, 4)
                 PROVE  12 * Len(plan) <= 25 * Fewest
      BY DEF PlanIsNearlyMinimal
    <2>1. TypeOK /\ Len(plan) \in Nat
      BY DEF NearlyInv, PlanInv, TypeOK
    <2>2. PICK T \in Covers : Cardinality(T) = Fewest
      BY <2>1, FewestIsACover
    <2>3. Cardinality(T) \in Nat
      <3>1. T \subseteq TapeIds
        BY <2>1 DEF Covers, TypeOK
      <3> QED
        BY <3>1, PlanAssumption, FS_Subset, FS_CardinalityType
    <2>4. 24 * Len(plan) <= 50 * Cardinality(T)
      BY <1>3, CoversPay
    <2> QED
      BY <2>1, <2>2, <2>3, <2>4
  <1> QED
    BY <1>4, <1>5, <1>6, PTL DEF Spec
=============================================================================
