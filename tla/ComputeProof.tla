---------------------------- MODULE ComputeProof ----------------------------
(***************************************************************************)
(* Why the reductions of a workgroup race for nothing and leave no lane    *)
(* out, for any number of threads, lanes and turns; why an upload puts     *)
(* every block of a file where the shaders look for it, for any buffer     *)
(* size, alignment, chunk and sample; and why the kernels take the cells   *)
(* and bits that the CPU takes and store each output once, for every       *)
(* number of rows, tokens, heads, lanes, taps and blocks.                  *)
(***************************************************************************)
EXTENDS Compute, WellFoundedInduction, FiniteSetTheorems, FunctionTheorems, TLAPS

-----------------------------------------------------------------------------
(* A kernel's body: where each instruction stands.                         *)

What(p) == Workgroup!Body[p][1]
Of(p) == Workgroup!Body[p][2]
Place == 1..Len(Workgroup!Body)
After(p) == IF p = Len(Workgroup!Body) THEN 1 ELSE p + 1

Line == {"fill", "barrier", "fold", "again", "take", "scan"} \X {0, 1, 2}

BodyShape ==
    /\ Workgroup!Body \in Seq(Line)
    /\ 1 \in Place /\ What(1) \in {"fill", "barrier"} /\ Len(Workgroup!Body) > 1
    /\ \A p \in Place :
          /\ What(p) = "fill" => /\ {p + 1, p + 2} \subseteq Place /\ What(p + 1) = "barrier"
                                 /\ What(p + 2) \in {"fold", "scan"}
                                 /\ Of(p + 2) = Of(p)
          /\ What(p) = "fold" => /\ {p + 1, p + 2} \subseteq Place /\ What(p + 1) = "again"
                                 /\ What(p + 2) = "take"
                                 /\ Of(p + 2) = Of(p)
          /\ What(p) \in {"take", "scan"} => /\ p < Len(Workgroup!Body) => What(p + 1) = "barrier"
                                             /\ p = Len(Workgroup!Body) =>
                                                    What(1) = "barrier" \/ Workgroup!Turns = 1
          /\ What(p) = "barrier" => \/ What(After(p)) \in {"fill", "barrier"}
                                    \/ p > 1 /\ What(p - 1) = "fill"
          /\ What(p) = "scan" => kernel # "matvec"

LEMMA Joined ==
    ASSUME NEW S, NEW s \in Seq(S), NEW t \in Seq(S)
    PROVE  /\ s \o t \in Seq(S) /\ Len(s \o t) = Len(s) + Len(t)
           /\ \A i \in 1..Len(s) : (s \o t)[i] = s[i]
           /\ \A i \in 1..Len(t) : (s \o t)[Len(s) + i] = t[i]
OBVIOUS

LEMMA Pieces ==
    ASSUME NEW n \in {1, 2}
    PROVE  /\ Workgroup!Sum(n) \in Seq(Line) /\ Len(Workgroup!Sum(n)) = 5
           /\ Workgroup!Sum(n)[1] = <<"fill", n>> /\ Workgroup!Sum(n)[2] = <<"barrier", 0>>
           /\ Workgroup!Sum(n)[3] = <<"fold", n>> /\ Workgroup!Sum(n)[4] = <<"again", n>>
           /\ Workgroup!Sum(n)[5] = <<"take", n>>
           /\ Workgroup!Staged \in Seq(Line) /\ Len(Workgroup!Staged) = 3
           /\ Workgroup!Staged[1] = <<"fill", 1>> /\ Workgroup!Staged[2] = <<"barrier", 0>>
           /\ Workgroup!Staged[3] = <<"scan", 1>>
BY DEF Workgroup!Sum, Workgroup!Staged, Workgroup!Bar, Line

LEMMA BodyHolds == ASSUME kernel \in Workgroup!Kernels PROVE BodyShape
<1> DEFINE sum == Workgroup!Sum(1)  second == Workgroup!Sum(2)  staged == Workgroup!Staged
           bar == <<Workgroup!Bar>>  bars == <<Workgroup!Bar, Workgroup!Bar>>
           first == sum \o bar  twice == first \o second  paired == sum \o bars
           led == bar \o sum  shared == staged \o bar
<1>a. /\ sum \in Seq(Line) /\ Len(sum) = 5
      /\ sum[1] = <<"fill", 1>> /\ sum[2] = <<"barrier", 0>> /\ sum[3] = <<"fold", 1>>
      /\ sum[4] = <<"again", 1>> /\ sum[5] = <<"take", 1>>
  BY Pieces
<1>b. /\ second \in Seq(Line) /\ Len(second) = 5
      /\ second[1] = <<"fill", 2>> /\ second[2] = <<"barrier", 0>> /\ second[3] = <<"fold", 2>>
      /\ second[4] = <<"again", 2>> /\ second[5] = <<"take", 2>>
  BY Pieces
<1>c. /\ staged \in Seq(Line) /\ Len(staged) = 3
      /\ staged[1] = <<"fill", 1>> /\ staged[2] = <<"barrier", 0>> /\ staged[3] = <<"scan", 1>>
  BY Pieces
<1>d. /\ bar \in Seq(Line) /\ Len(bar) = 1
      /\ bar[1] = <<"barrier", 0>>
  BY DEF Line, Workgroup!Bar
<1>f. /\ bars \in Seq(Line) /\ Len(bars) = 2
      /\ bars[1] = <<"barrier", 0>> /\ bars[2] = <<"barrier", 0>>
  BY DEF Line, Workgroup!Bar
<1>e. /\ first \in Seq(Line) /\ Len(first) = 6
      /\ first[1] = <<"fill", 1>> /\ first[2] = <<"barrier", 0>> /\ first[3] = <<"fold", 1>>
      /\ first[4] = <<"again", 1>> /\ first[5] = <<"take", 1>> /\ first[6] = <<"barrier", 0>>
  <2> HIDE DEF sum, bar
  <2>1. sum \in Seq(Line) /\ bar \in Seq(Line)
    BY <1>a, <1>d
  <2>2. /\ first \in Seq(Line) /\ Len(first) = Len(sum) + Len(bar)
        /\ \A i \in 1..Len(sum) : first[i] = sum[i]
        /\ \A i \in 1..Len(bar) : first[Len(sum) + i] = bar[i]
    BY <2>1, Joined DEF first
  <2> HIDE DEF first
  <2>3. /\ first[1] = sum[1] /\ first[2] = sum[2] /\ first[3] = sum[3]
        /\ first[4] = sum[4] /\ first[5] = sum[5] /\ first[6] = bar[1]
    BY <2>2, <1>a, <1>d
  <2> QED
    BY <2>2, <2>3, <1>a, <1>d
<1>g. /\ twice \in Seq(Line) /\ Len(twice) = 11
      /\ twice[1] = <<"fill", 1>> /\ twice[2] = <<"barrier", 0>> /\ twice[3] = <<"fold", 1>>
      /\ twice[4] = <<"again", 1>> /\ twice[5] = <<"take", 1>> /\ twice[6] = <<"barrier", 0>>
      /\ twice[7] = <<"fill", 2>> /\ twice[8] = <<"barrier", 0>> /\ twice[9] = <<"fold", 2>>
      /\ twice[10] = <<"again", 2>> /\ twice[11] = <<"take", 2>>
  <2> HIDE DEF first, second
  <2>1. first \in Seq(Line) /\ second \in Seq(Line)
    BY <1>e, <1>b
  <2>2. /\ twice \in Seq(Line) /\ Len(twice) = Len(first) + Len(second)
        /\ \A i \in 1..Len(first) : twice[i] = first[i]
        /\ \A i \in 1..Len(second) : twice[Len(first) + i] = second[i]
    BY <2>1, Joined DEF twice
  <2> HIDE DEF twice
  <2>3. /\ twice[1] = first[1] /\ twice[2] = first[2] /\ twice[3] = first[3]
        /\ twice[4] = first[4] /\ twice[5] = first[5] /\ twice[6] = first[6]
        /\ twice[7] = second[1] /\ twice[8] = second[2] /\ twice[9] = second[3]
        /\ twice[10] = second[4] /\ twice[11] = second[5]
    BY <2>2, <1>e, <1>b
  <2> QED
    BY <2>2, <2>3, <1>e, <1>b
<1>h. /\ paired \in Seq(Line) /\ Len(paired) = 7
      /\ paired[1] = <<"fill", 1>> /\ paired[2] = <<"barrier", 0>> /\ paired[3] = <<"fold", 1>>
      /\ paired[4] = <<"again", 1>> /\ paired[5] = <<"take", 1>> /\ paired[6] = <<"barrier", 0>>
      /\ paired[7] = <<"barrier", 0>>
  <2> HIDE DEF sum, bars
  <2>1. sum \in Seq(Line) /\ bars \in Seq(Line)
    BY <1>a, <1>f
  <2>2. /\ paired \in Seq(Line) /\ Len(paired) = Len(sum) + Len(bars)
        /\ \A i \in 1..Len(sum) : paired[i] = sum[i]
        /\ \A i \in 1..Len(bars) : paired[Len(sum) + i] = bars[i]
    BY <2>1, Joined DEF paired
  <2> HIDE DEF paired
  <2>3. /\ paired[1] = sum[1] /\ paired[2] = sum[2] /\ paired[3] = sum[3]
        /\ paired[4] = sum[4] /\ paired[5] = sum[5] /\ paired[6] = bars[1]
        /\ paired[7] = bars[2]
    BY <2>2, <1>a, <1>f
  <2> QED
    BY <2>2, <2>3, <1>a, <1>f
<1>i. /\ led \in Seq(Line) /\ Len(led) = 6
      /\ led[1] = <<"barrier", 0>> /\ led[2] = <<"fill", 1>> /\ led[3] = <<"barrier", 0>>
      /\ led[4] = <<"fold", 1>> /\ led[5] = <<"again", 1>> /\ led[6] = <<"take", 1>>
  <2> HIDE DEF bar, sum
  <2>1. bar \in Seq(Line) /\ sum \in Seq(Line)
    BY <1>d, <1>a
  <2>2. /\ led \in Seq(Line) /\ Len(led) = Len(bar) + Len(sum)
        /\ \A i \in 1..Len(bar) : led[i] = bar[i]
        /\ \A i \in 1..Len(sum) : led[Len(bar) + i] = sum[i]
    BY <2>1, Joined DEF led
  <2> HIDE DEF led
  <2>3. /\ led[1] = bar[1] /\ led[2] = sum[1] /\ led[3] = sum[2]
        /\ led[4] = sum[3] /\ led[5] = sum[4] /\ led[6] = sum[5]
    BY <2>2, <1>d, <1>a
  <2> QED
    BY <2>2, <2>3, <1>d, <1>a
<1>j. /\ shared \in Seq(Line) /\ Len(shared) = 4
      /\ shared[1] = <<"fill", 1>> /\ shared[2] = <<"barrier", 0>> /\ shared[3] = <<"scan", 1>>
      /\ shared[4] = <<"barrier", 0>>
  <2> HIDE DEF staged, bar
  <2>1. staged \in Seq(Line) /\ bar \in Seq(Line)
    BY <1>c, <1>d
  <2>2. /\ shared \in Seq(Line) /\ Len(shared) = Len(staged) + Len(bar)
        /\ \A i \in 1..Len(staged) : shared[i] = staged[i]
        /\ \A i \in 1..Len(bar) : shared[Len(staged) + i] = bar[i]
    BY <2>1, Joined DEF shared
  <2> HIDE DEF shared
  <2>3. /\ shared[1] = staged[1] /\ shared[2] = staged[2] /\ shared[3] = staged[3]
        /\ shared[4] = bar[1]
    BY <2>2, <1>c, <1>d
  <2> QED
    BY <2>2, <2>3, <1>c, <1>d
<1>1. CASE kernel = "rms_norm"
  <2>1. Workgroup!Body = first
    BY <1>1 DEF Workgroup!Body, Workgroup!RmsRow
  <2> HIDE DEF first
  <2>2. /\ What(1) = "fill" /\ What(2) = "barrier" /\ What(3) = "fold" /\ What(4) = "again"
        /\ What(5) = "take" /\ What(6) = "barrier"
    BY <1>e, <2>1 DEF What
  <2>3. /\ Of(1) = 1 /\ Of(2) = 0 /\ Of(3) = 1 /\ Of(4) = 1
        /\ Of(5) = 1 /\ Of(6) = 0
    BY <1>e, <2>1 DEF Of
  <2>4. Workgroup!Body \in Seq(Line) /\ Len(Workgroup!Body) = 6 /\ Place = 1..6
    BY <1>e, <2>1 DEF Place
  <2> QED
    BY <2>2, <2>3, <2>4, <1>1 DEF BodyShape, After
<1>2. CASE kernel = "l2norm_qk"
  <2>1. Workgroup!Body = paired
    BY <1>2 DEF Workgroup!Body, Workgroup!L2Row
  <2> HIDE DEF paired
  <2>2. /\ What(1) = "fill" /\ What(2) = "barrier" /\ What(3) = "fold" /\ What(4) = "again"
        /\ What(5) = "take" /\ What(6) = "barrier" /\ What(7) = "barrier"
    BY <1>h, <2>1 DEF What
  <2>3. /\ Of(1) = 1 /\ Of(2) = 0 /\ Of(3) = 1 /\ Of(4) = 1
        /\ Of(5) = 1 /\ Of(6) = 0 /\ Of(7) = 0
    BY <1>h, <2>1 DEF Of
  <2>4. Workgroup!Body \in Seq(Line) /\ Len(Workgroup!Body) = 7 /\ Place = 1..7
    BY <1>h, <2>1 DEF Place
  <2> QED
    BY <2>2, <2>3, <2>4, <1>2 DEF BodyShape, After
<1>3. CASE kernel = "softmax_pass"
  <2>1. Workgroup!Body = twice
    BY <1>3 DEF Workgroup!Body, Workgroup!Softmax
  <2> HIDE DEF twice
  <2>2. /\ What(1) = "fill" /\ What(2) = "barrier" /\ What(3) = "fold" /\ What(4) = "again"
        /\ What(5) = "take" /\ What(6) = "barrier" /\ What(7) = "fill" /\ What(8) = "barrier"
        /\ What(9) = "fold" /\ What(10) = "again" /\ What(11) = "take"
    BY <1>g, <2>1 DEF What
  <2>3. /\ Of(1) = 1 /\ Of(2) = 0 /\ Of(3) = 1 /\ Of(4) = 1
        /\ Of(5) = 1 /\ Of(6) = 0 /\ Of(7) = 2 /\ Of(8) = 0
        /\ Of(9) = 2 /\ Of(10) = 2 /\ Of(11) = 2
    BY <1>g, <2>1 DEF Of
  <2>4. Workgroup!Body \in Seq(Line) /\ Len(Workgroup!Body) = 11 /\ Place = 1..11
    BY <1>g, <2>1 DEF Place
  <2> QED
    BY <2>2, <2>3, <2>4, <1>3 DEF BodyShape, After, Workgroup!Turns
<1>4. CASE kernel = "matvec"
  <2>1. Workgroup!Body = led
    BY <1>4 DEF Workgroup!Body, Workgroup!ReduceRow
  <2> HIDE DEF led
  <2>2. /\ What(1) = "barrier" /\ What(2) = "fill" /\ What(3) = "barrier" /\ What(4) = "fold"
        /\ What(5) = "again" /\ What(6) = "take"
    BY <1>i, <2>1 DEF What
  <2>3. /\ Of(1) = 0 /\ Of(2) = 1 /\ Of(3) = 0 /\ Of(4) = 1
        /\ Of(5) = 1 /\ Of(6) = 1
    BY <1>i, <2>1 DEF Of
  <2>4. Workgroup!Body \in Seq(Line) /\ Len(Workgroup!Body) = 6 /\ Place = 1..6
    BY <1>i, <2>1 DEF Place
  <2> QED
    BY <2>2, <2>3, <2>4, <1>4 DEF BodyShape, After
<1>5. CASE kernel = "gemm"
  <2>1. Workgroup!Body = shared
    BY <1>5 DEF Workgroup!Body, Workgroup!GemmStep
  <2> HIDE DEF shared
  <2>2. /\ What(1) = "fill" /\ What(2) = "barrier" /\ What(3) = "scan" /\ What(4) = "barrier"
    BY <1>j, <2>1 DEF What
  <2>3. /\ Of(1) = 1 /\ Of(2) = 0 /\ Of(3) = 1 /\ Of(4) = 0
    BY <1>j, <2>1 DEF Of
  <2>4. Workgroup!Body \in Seq(Line) /\ Len(Workgroup!Body) = 4 /\ Place = 1..4
    BY <1>j, <2>1 DEF Place
  <2> QED
    BY <2>2, <2>3, <2>4, <1>5 DEF BodyShape, After
<1>6. CASE kernel = "delta_recur"
  <2>1. Workgroup!Body = shared
    BY <1>6 DEF Workgroup!Body, Workgroup!DeltaToken
  <2> HIDE DEF shared
  <2>2. /\ What(1) = "fill" /\ What(2) = "barrier" /\ What(3) = "scan" /\ What(4) = "barrier"
    BY <1>j, <2>1 DEF What
  <2>3. /\ Of(1) = 1 /\ Of(2) = 0 /\ Of(3) = 1 /\ Of(4) = 0
    BY <1>j, <2>1 DEF Of
  <2>4. Workgroup!Body \in Seq(Line) /\ Len(Workgroup!Body) = 4 /\ Place = 1..4
    BY <1>j, <2>1 DEF Place
  <2> QED
    BY <2>2, <2>3, <2>4, <1>6 DEF BodyShape, After
<1>7. CASE kernel = "scores_pass"
  <2>1. Workgroup!Body = staged
    BY <1>7 DEF Workgroup!Body, Workgroup!ScoresStage
  <2> HIDE DEF staged
  <2>2. /\ What(1) = "fill" /\ What(2) = "barrier" /\ What(3) = "scan"
    BY <1>c, <2>1 DEF What
  <2>3. /\ Of(1) = 1 /\ Of(2) = 0 /\ Of(3) = 1
    BY <1>c, <2>1 DEF Of
  <2>4. Workgroup!Body \in Seq(Line) /\ Len(Workgroup!Body) = 3 /\ Place = 1..3
    BY <1>c, <2>1 DEF Place
  <2> QED
    BY <2>2, <2>3, <2>4, <1>7 DEF BodyShape, After, Workgroup!Turns
<1> QED
  BY <1>1, <1>2, <1>3, <1>4, <1>5, <1>6, <1>7 DEF Workgroup!Kernels

-----------------------------------------------------------------------------
(* Lanes.  A group is a run of Lanes threads; the sharers of t at width w  *)
(* are the threads of its group every w lanes from t on.                   *)

Threads == Workgroup!Threads
Lanes == Workgroup!Lanes
Lane(t) == Workgroup!Lane(t)
Group(t) == Workgroup!Group(t)
Sharers(t, w) == {u \in Group(t) : \E k \in Nat : Lane(u) = Lane(t) + w * k}

\* Quotient and remainder are the only ones.
LEMMA Remainder ==
    ASSUME NEW d \in Nat \ {0}, NEW q \in Int, NEW r \in 0..(d - 1)
    PROVE  (d * q + r) % d = r /\ (d * q + r) \div d = q
<1> DEFINE p == d * q + r  e == p \div d  m == p % d
<1>1. p \in Int /\ p = d * e + m /\ m \in 0..(d - 1) /\ e \in Int
  OBVIOUS
<1> HIDE DEF e, m
<1>2. m - r = d * (q - e)
  BY <1>1 DEF p
<1> HIDE DEF p
<1>3. CASE q - e >= 1
  <2>1. d * (q - e) >= d
    BY <1>1, <1>3
  <2> QED
    BY <1>1, <1>2, <2>1
<1>4. CASE q - e <= -1
  <2>1. d * (q - e) <= -d
    BY <1>1, <1>4
  <2> QED
    BY <1>1, <1>2, <2>1
<1>5. CASE q = e
  BY <1>1, <1>2, <1>5 DEF m, p, e
<1> QED
  BY <1>1, <1>3, <1>4, <1>5

LEMMA LanesDivide ==
    /\ Lanes \in Nat \ {0, 1} /\ IsPowerOfTwo(Lanes)
    /\ \E m \in Nat : N = Lanes * m
<1>1. CASE kernel = "matvec"
  <2>1. Lanes = RowLanes
    BY <1>1 DEF Lanes, Workgroup!Lanes
  <2>2. RowLanes \in Nat \ {0, 1} /\ N \in Nat /\ N % RowLanes = 0 /\ IsPowerOfTwo(RowLanes)
    BY ComputeAssumption
  <2>3. N = RowLanes * (N \div RowLanes) /\ N \div RowLanes \in Nat
    BY <2>2
  <2> QED
    BY <2>1, <2>2, <2>3
<1>2. CASE kernel # "matvec"
  <2>1. Lanes = N
    BY <1>2 DEF Lanes, Workgroup!Lanes
  <2>2. N \in Nat \ {0, 1} /\ IsPowerOfTwo(N) /\ N = N * 1
    BY ComputeAssumption
  <2> QED
    BY <2>1, <2>2
<1> QED
  BY <1>1, <1>2

LEMMA LaneOf ==
    ASSUME NEW t \in Threads
    PROVE  /\ t \in Nat /\ Lane(t) \in 0..(Lanes - 1)
           /\ \E q \in Nat : t = Lanes * q + Lane(t) /\ Lanes * (q + 1) <= N
<1>0. N \in Nat /\ t \in 0..(N - 1)
  BY ComputeAssumption DEF Threads, Workgroup!Threads
<1>1. Lanes \in Nat \ {0, 1}
  BY LanesDivide
<1>2. PICK m \in Nat : N = Lanes * m
  BY LanesDivide
<1> DEFINE L == Lanes  q == t \div L  l == t % L
<1> HIDE DEF L
<1>3. L \in Nat \ {0, 1} /\ N = L * m
  BY <1>1, <1>2 DEF L
<1>4. t = L * q + l /\ l \in 0..(L - 1) /\ q \in Nat
  <2>1. t \in Nat /\ L \in Nat \ {0}
    BY <1>0, <1>3
  <2> QED
    BY <2>1
<1>5. Lane(t) = l
  BY DEF Lane, Workgroup!Lane, L, Lanes
<1> HIDE DEF q, l
<1>6. q + 1 <= m
  <2> SUFFICES ASSUME q >= m PROVE FALSE
    BY <1>4
  <2>1. L * q >= L * m
    BY <1>3, <1>4
  <2>2. L * q \in Nat /\ L * q <= t /\ t < L * m
    BY <1>0, <1>3, <1>4
  <2> DEFINE x == L * q  y == L * m
  <2>3. x >= y /\ x \in Nat /\ x <= t /\ t < y /\ t \in Nat
    BY <1>0, <2>1, <2>2
  <2>4. y \in Int
    BY <1>3
  <2> HIDE DEF x, y
  <2> QED
    BY <2>3, <2>4
<1>7. L * (q + 1) <= L * m
  BY <1>3, <1>4, <1>6
<1>8. \E r \in Nat : t = L * r + l /\ L * (r + 1) <= N
  BY <1>3, <1>4, <1>7
<1> QED
  BY <1>0, <1>4, <1>5, <1>8 DEF L

\* A lane further, and the first lane of a group.
LEMMA LaneFurther ==
    ASSUME NEW t \in Threads, NEW j \in Int, Lane(t) + j \in 0..(Lanes - 1)
    PROVE  t + j \in Threads /\ Lane(t + j) = Lane(t) + j /\ Group(t + j) = Group(t)
<1> DEFINE L == Lanes
<1>1. L \in Nat \ {0, 1} /\ t \in Nat /\ Lane(t) \in 0..(L - 1) /\ Lane(t) + j \in 0..(L - 1)
  BY LanesDivide, LaneOf
<1>2. PICK q \in Nat : t = L * q + Lane(t) /\ L * (q + 1) <= N
  BY LaneOf
<1>a. \A u : Lane(u) = u % L
  BY DEF Lane, Workgroup!Lane, Lanes
<1> HIDE DEF L
<1> DEFINE l == Lane(t) + j  b == L * q
<1>b. L * (q + 1) = b + L /\ b \in Nat
  BY <1>1
<1>3. b \in Nat /\ b + L <= N /\ t + j = b + l /\ l \in 0..(L - 1) /\ N \in Nat
  <2>1. t = b + Lane(t) /\ b + L <= N /\ b \in Nat /\ L \in Nat /\ N \in Nat
    BY <1>1, <1>2, <1>b, ComputeAssumption
  <2> HIDE DEF b
  <2> QED
    BY <1>1, <2>1
<1>4. (L * q + l) % L = l
  <2>1. L \in Nat \ {0} /\ q \in Int /\ l \in 0..(L - 1)
    BY <1>1
  <2> HIDE DEF l
  <2> QED
    BY <2>1, Remainder
<1>5. t + j \in Threads
  <2> HIDE DEF l, b
  <2> QED
    BY <1>1, <1>3 DEF Threads, Workgroup!Threads
<1>6. Lane(t + j) = l
  BY <1>a, <1>3, <1>4
<1>7. (t + j) - Lane(t + j) = t - Lane(t)
  BY <1>1, <1>6
<1>8. Group(t + j) = Group(t)
  BY <1>7 DEF Group, Workgroup!Group, Lane
<1> QED
  BY <1>5, <1>6, <1>8

LEMMA SharersOfAll == ASSUME NEW t \in Threads PROVE Sharers(t, Lanes) = {t}
<1>1. Lanes \in Nat \ {0, 1} /\ Lane(t) \in 0..(Lanes - 1) /\ t \in Nat
  BY LanesDivide, LaneOf
<1>2. t \in Group(t) /\ Lane(t) = Lane(t) + Lanes * 0
  BY <1>1 DEF Group, Workgroup!Group, Threads
<1>3. ASSUME NEW u \in Group(t), NEW k \in Nat, Lane(u) = Lane(t) + Lanes * k PROVE u = t
  <2>1. u \in Threads /\ u - Lane(u) = t - Lane(t)
    BY DEF Group, Workgroup!Group, Threads, Lane
  <2>2. Lane(u) \in 0..(Lanes - 1) /\ u \in Nat
    BY <2>1, LaneOf
  <2>3. k = 0
    <3> SUFFICES ASSUME k >= 1 PROVE FALSE
      OBVIOUS
    <3>1. Lanes * k >= Lanes
      BY <1>1
    <3> QED
      BY <1>1, <1>3, <2>2, <3>1
  <2> QED
    BY <1>1, <1>3, <2>1, <2>2, <2>3
<1> QED
  BY <1>2, <1>3 DEF Sharers

LEMMA SharersOfOne == ASSUME NEW t \in Threads, Lane(t) = 0 PROVE Sharers(t, 1) = Group(t)
<1> SUFFICES ASSUME NEW u \in Group(t) PROVE \E k \in Nat : Lane(u) = Lane(t) + 1 * k
  BY DEF Sharers
<1>1. u \in Threads
  BY DEF Group, Workgroup!Group, Threads
<1>2. Lane(u) \in 0..(Lanes - 1) /\ Lanes \in Nat
  BY <1>1, LaneOf, LanesDivide
<1> QED
  BY <1>2

\* Folding: every h lanes is every 2h from t, and every 2h from h further.
LEMMA SharersOfHalf ==
    ASSUME NEW t \in Threads, NEW h \in Nat, Lane(t) + h < Lanes
    PROVE  Sharers(t, h) = Sharers(t, 2 * h) \cup Sharers(t + h, 2 * h)
<1>1. Lane(t) \in Nat /\ Lanes \in Nat
  BY LaneOf, LanesDivide
<1>2. t + h \in Threads /\ Lane(t + h) = Lane(t) + h /\ Group(t + h) = Group(t)
  BY <1>1, LaneFurther
<1>3. ASSUME NEW u \in Sharers(t, h) PROVE u \in Sharers(t, 2 * h) \cup Sharers(t + h, 2 * h)
  <2>1. PICK k \in Nat : Lane(u) = Lane(t) + h * k
    BY DEF Sharers
  <2>2. PICK m \in Nat : k = 2 * m \/ k = 2 * m + 1
    <3>1. k = 2 * (k \div 2) \/ k = 2 * (k \div 2) + 1
      OBVIOUS
    <3> QED
      BY <3>1
  <2>3. CASE k = 2 * m
    <3>1. h * k = (2 * h) * m
      BY <2>3
    <3> QED
      BY <2>1, <3>1 DEF Sharers
  <2>4. CASE k = 2 * m + 1
    <3>1. h * k = h + (2 * h) * m
      BY <2>4
    <3>2. Lane(u) = Lane(t + h) + (2 * h) * m
      BY <1>1, <1>2, <2>1, <3>1
    <3> QED
      BY <1>2, <3>2 DEF Sharers
  <2> QED
    BY <2>2, <2>3, <2>4
<1>4. ASSUME NEW u \in Sharers(t, 2 * h) PROVE u \in Sharers(t, h)
  <2>1. PICK m \in Nat : Lane(u) = Lane(t) + (2 * h) * m
    BY DEF Sharers
  <2>2. (2 * h) * m = h * (2 * m) /\ 2 * m \in Nat
    OBVIOUS
  <2> QED
    BY <2>1, <2>2 DEF Sharers
<1>5. ASSUME NEW u \in Sharers(t + h, 2 * h) PROVE u \in Sharers(t, h)
  <2>1. PICK m \in Nat : Lane(u) = Lane(t + h) + (2 * h) * m
    BY DEF Sharers
  <2>2. h + (2 * h) * m = h * (2 * m + 1) /\ 2 * m + 1 \in Nat
    OBVIOUS
  <2>3. Lane(u) = Lane(t) + h * (2 * m + 1)
    BY <1>1, <1>2, <2>1, <2>2
  <2> QED
    BY <1>2, <2>2, <2>3 DEF Sharers
<1> QED
  BY <1>3, <1>4, <1>5

\* Half of a power of two is one, and the loop reaches one before it reaches none.
LEMMA HalfOfPower ==
    ASSUME NEW n \in Nat \ {0, 1}, IsPowerOfTwo(n)
    PROVE  LET h == n \div 2 IN h \in Nat \ {0} /\ 2 * h = n /\ IsPowerOfTwo(h)
<1> DEFINE h == n \div 2
<1>1. n % n = 0 /\ n \in 2..n
  OBVIOUS
<1>2. n % 2 = 0
  BY <1>1 DEF IsPowerOfTwo
<1>3. h \in Nat \ {0} /\ 2 * h = n
  BY <1>2
<1> HIDE DEF h
<1>4. ASSUME NEW d \in 2..h, h % d = 0 PROVE d % 2 = 0
  <2>1. h = d * (h \div d) /\ h \div d \in Int
    BY <1>3, <1>4
  <2> DEFINE q == h \div d
  <2> HIDE DEF q
  <2>2. n = d * (2 * q) + 0 /\ 2 * q \in Int
    BY <1>3, <2>1 DEF q
  <2>3. d \in Nat \ {0} /\ 0 \in 0..(d - 1) /\ d \in 2..n
    BY <1>3
  <2>4. (d * (2 * q) + 0) % d = 0
    BY <2>2, <2>3, Remainder
  <2> QED
    BY <2>2, <2>3, <2>4 DEF IsPowerOfTwo
<1> QED
  BY <1>3, <1>4 DEF IsPowerOfTwo, h

-----------------------------------------------------------------------------
(* Between two barriers every thread is before or past one and the same    *)
(* instruction, at place p of turn r, and what the cells hold follows from *)
(* that.  Such a stretch is one of                                         *)
(*   Resting   every thread at a barrier, or about to fill, or through;    *)
(*   Filling   the threads past it hold their own part;                    *)
(*   Folding   at half h: of the lanes below 2h those not folded yet hold  *)
(*             every 2h-th part of their group, the others every h-th;     *)
(*   Taking    the first lane of each group holds all of it;               *)
(*   Scanning  every thread holds its own part.                            *)

TurnAfter(p, r) == IF p = Len(Workgroup!Body) THEN r + 1 ELSE r
Before(t, p, r) == pc[t] = p /\ round[t] = r
Past(t, p, r) == pc[t] = After(p) /\ round[t] = TurnAfter(p, r)

PartsOf(us, p, r) == {<<<<r, Of(p)>>, u>> : u \in us}

OwnWrites == {<<t, t, "write">> : t \in Threads}
FoldMarks(h) == {<<t, t, "write">> : t \in {u \in Threads : Lane(u) < h}}
                \cup {<<t, t + h, "read">> : t \in {u \in Threads : Lane(u) < h}}
OnlyReads == \A a \in touched : a[3] = "read"

Resting(p, r) ==
    /\ touched = {}
    /\ What(p) = "fill" \/ (What(p) = "barrier" /\ What(After(p)) \in {"fill", "barrier"})
    /\ \A t \in Threads : Before(t, p, r)

Filling(p, r) ==
    /\ What(p) = "fill" /\ touched \subseteq OwnWrites
    /\ \A t \in Threads : Past(t, p, r) => half[t] = Lanes \div 2 /\ cell[t] = PartsOf({t}, p, r)

Folding(p, r, h) ==
    /\ What(p) = "fold" /\ touched \subseteq FoldMarks(h)
    /\ IsPowerOfTwo(h) /\ 2 * h <= Lanes
    /\ \A t \in Threads :
          /\ half[t] = h
          /\ Lane(t) < 2 * h /\ (Before(t, p, r) \/ Lane(t) >= h)
                => cell[t] = PartsOf(Sharers(t, 2 * h), p, r)
          /\ Lane(t) < h /\ Past(t, p, r) => cell[t] = PartsOf(Sharers(t, h), p, r)

Taking(p, r) ==
    /\ What(p) = "take" /\ OnlyReads
    /\ \A t \in Threads : Lane(t) = 0 => cell[t] = PartsOf(Group(t), p, r)

Scanning(p, r) ==
    /\ What(p) = "scan" /\ OnlyReads
    /\ \A t \in Threads : cell[t] = PartsOf({t}, p, r)

Working(p, r) ==
    /\ r <= Workgroup!Turns
    /\ \A t \in Threads : Before(t, p, r) \/ Past(t, p, r)
    /\ \/ Filling(p, r) \/ Taking(p, r) \/ Scanning(p, r)
       \/ \E h \in Nat \ {0} : Folding(p, r, h)

Stretch == \E p \in Place, r \in Nat \ {0} : Resting(p, r) \/ Working(p, r)

CellParts == (Nat \X {0, 1, 2}) \X Threads

GroupTypes ==
    /\ kernel \in Workgroup!Kernels
    /\ pc \in [Threads -> Place]
    /\ half \in [Threads -> Nat]
    /\ round \in [Threads -> Nat \ {0}]
    /\ cell \in [Threads -> SUBSET CellParts]

WorkgroupInv == GroupTypes /\ Stretch /\ Workgroup!TakesWholeRound

\* In no stretch does one thread write what another touches.
LEMMA StretchIsSafe == ASSUME GroupTypes, Stretch PROVE Workgroup!NoDataRace
<1> SUFFICES ASSUME NEW a \in touched, NEW b \in touched, a[1] # b[1], a[2] = b[2],
                    a[3] # "read" \/ b[3] # "read"
             PROVE  FALSE
  BY DEF Workgroup!NoDataRace
<1>1. PICK p \in Place, r \in Nat \ {0} : Resting(p, r) \/ Working(p, r)
  BY DEF Stretch
<1>2. CASE touched \subseteq OwnWrites
  BY <1>2 DEF OwnWrites
<1>3. CASE OnlyReads
  BY <1>3 DEF OnlyReads
<1>4. ASSUME NEW h \in Nat \ {0}, Folding(p, r, h) PROVE FALSE
  <2>1. touched \subseteq FoldMarks(h) /\ 2 * h <= Lanes /\ Lanes \in Nat
    BY <1>4, LanesDivide DEF Folding
  <2>2. ASSUME NEW t \in Threads, NEW u \in Threads, Lane(t) < h, Lane(u) < h, t = u + h PROVE FALSE
    <3>1. Lane(u) \in 0..(Lanes - 1) /\ h \in Int /\ Lane(u) + h \in 0..(Lanes - 1)
      BY <2>1, <2>2, LaneOf
    <3>2. Lane(u + h) = Lane(u) + h
      BY <3>1, LaneFurther
    <3> QED
      BY <2>2, <3>1, <3>2
  <2> QED
    BY <2>1, <2>2 DEF FoldMarks
<1> QED
  BY <1>1, <1>2, <1>3, <1>4 DEF Resting, Working, Filling, Taking, Scanning

LEMMA WorkgroupInit == Workgroup!Init => WorkgroupInv
<1> SUFFICES ASSUME Workgroup!Init PROVE WorkgroupInv
  OBVIOUS
<1>1. kernel \in Workgroup!Kernels
  BY DEF Workgroup!Init
<1>2. 1 \in Place /\ What(1) \in {"fill", "barrier"}
  BY <1>1, BodyHolds DEF BodyShape
<1>3. GroupTypes
  BY <1>1, <1>2 DEF Workgroup!Init, GroupTypes, Threads
<1>a. What(1) = "barrier" => What(After(1)) \in {"fill", "barrier"}
  BY <1>1, <1>2, BodyHolds DEF BodyShape
<1>4. Resting(1, 1)
  BY <1>2, <1>a DEF Workgroup!Init, Resting, Before, Threads
<1>5. Workgroup!TakesWholeRound
  BY DEF Workgroup!Init, Workgroup!TakesWholeRound
<1> QED
  BY <1>2, <1>3, <1>4, <1>5 DEF WorkgroupInv, Stretch

LEMMA SameKernel ==
    ASSUME kernel' = kernel
    PROVE  /\ Workgroup!Body' = Workgroup!Body /\ Workgroup!Turns' = Workgroup!Turns
           /\ Lanes' = Lanes /\ Place' = Place
           /\ \A p : What(p)' = What(p) /\ Of(p)' = Of(p) /\ After(p)' = After(p)
           /\ \A p, r : TurnAfter(p, r)' = TurnAfter(p, r)
           /\ \A t : Lane(t)' = Lane(t)
           /\ \A t : Group(t)' = Group(t)
<1>1. Workgroup!Body' = Workgroup!Body /\ Workgroup!Turns' = Workgroup!Turns
  BY DEF Workgroup!Body, Workgroup!Turns, Workgroup!RmsRow, Workgroup!L2Row, Workgroup!Softmax,
         Workgroup!ReduceRow, Workgroup!GemmStep, Workgroup!DeltaToken, Workgroup!ScoresStage
<1>2. Lanes' = Lanes
  BY DEF Lanes, Workgroup!Lanes
<1>3. \A t : Lane(t)' = Lane(t)
  BY <1>2 DEF Lane, Workgroup!Lane, Lanes
<1>4. \A t : Group(t)' = Group(t)
  BY <1>3 DEF Group, Workgroup!Group, Lane
<1>5. Place' = Place /\ \A p : What(p)' = What(p) /\ Of(p)' = Of(p) /\ After(p)' = After(p)
  BY <1>1 DEF Place, What, Of, After
<1>6. \A p, r : TurnAfter(p, r)' = TurnAfter(p, r)
  BY <1>1 DEF TurnAfter
<1> QED
  BY <1>1, <1>2, <1>3, <1>4, <1>5, <1>6

\* Past an instruction that is not a barrier comes one, or the end.
LEMMA PastMeets ==
    ASSUME GroupTypes, NEW t \in Threads, NEW p \in Place, NEW r \in Nat \ {0},
           What(p) \in {"fill", "fold", "take", "scan"}, Past(t, p, r),
           r <= Workgroup!Turns, Workgroup!Running(t)
    PROVE  What(pc[t]) = IF What(p) = "fold" THEN "again" ELSE "barrier"
<1>1. BodyShape
  BY BodyHolds DEF GroupTypes
<1>2. pc[t] = After(p) /\ round[t] = TurnAfter(p, r) /\ round[t] <= Workgroup!Turns
  BY DEF Past, Workgroup!Running
<1>3. p \in 1..Len(Workgroup!Body) /\ Len(Workgroup!Body) \in Nat
  BY <1>1 DEF Place, BodyShape
<1>4. CASE p < Len(Workgroup!Body)
  <2>1. After(p) = p + 1
    BY <1>3, <1>4 DEF After
  <2> QED
    BY <1>1, <1>2, <1>4, <2>1 DEF BodyShape
<1>5. CASE p = Len(Workgroup!Body)
  <2>1. After(p) = 1 /\ TurnAfter(p, r) = r + 1
    BY <1>5 DEF After, TurnAfter
  <2>2. p + 1 \notin Place
    BY <1>3, <1>5 DEF Place
  <2>3. What(p) \in {"take", "scan"}
    BY <1>1, <2>2 DEF BodyShape
  <2>4. Workgroup!Turns # 1
    BY <1>2, <2>1
  <2>5. What(1) = "barrier"
    BY <1>1, <1>5, <2>3, <2>4 DEF BodyShape
  <2> QED
    BY <1>2, <2>1, <2>3, <2>5
<1> QED
  BY <1>3, <1>4, <1>5

\* A thread at an instruction that is not a barrier is where the stretch is.
LEMMA WorksHere ==
    ASSUME GroupTypes, Stretch, NEW t \in Threads,
           NEW what \in {"fill", "fold", "take", "scan"}, Workgroup!Comes(t, what)
    PROVE  /\ pc[t] \in Place /\ round[t] \in Nat \ {0} /\ What(pc[t]) = what
           /\ round[t] <= Workgroup!Turns
           /\ Resting(pc[t], round[t]) \/ Working(pc[t], round[t])
<1>1. /\ pc[t] \in Place /\ round[t] \in Nat \ {0} /\ What(pc[t]) = what
      /\ round[t] <= Workgroup!Turns /\ Workgroup!Running(t)
  BY DEF GroupTypes, Workgroup!Comes, Workgroup!Running, Workgroup!At, What
<1>2. PICK p \in Place, r \in Nat \ {0} : Resting(p, r) \/ Working(p, r)
  BY DEF Stretch
<1>3. CASE Resting(p, r)
  BY <1>1, <1>3 DEF Resting, Before
<1>4. CASE Working(p, r)
  <2>1. What(p) \in {"fill", "fold", "take", "scan"} /\ r <= Workgroup!Turns
    BY <1>4 DEF Working, Filling, Taking, Scanning, Folding
  <2>2. ~Past(t, p, r)
    BY <1>1, <2>1, PastMeets
  <2>3. Before(t, p, r)
    BY <1>4, <2>2 DEF Working
  <2> QED
    BY <1>1, <1>4, <2>3 DEF Before
<1> QED
  BY <1>2, <1>3, <1>4

\* Who is before and who past an instruction, when one thread executes it.
LEMMA StepMoves ==
    ASSUME GroupTypes, NEW t \in Threads, NEW what, Workgroup!Step(t, what),
           NEW p, NEW r, p = pc[t], r = round[t],
           Resting(p, r) \/ Working(p, r)
    PROVE  /\ kernel' = kernel /\ Past(t, p, r)' /\ ~Before(t, p, r)'
           /\ \A u \in Threads : Before(u, p, r)' \/ Past(u, p, r)'
           /\ \A u \in Threads : u # t => /\ Before(u, p, r)' => Before(u, p, r)
                                          /\ Past(u, p, r)' => Past(u, p, r)
           /\ \A u \in Threads : Resting(p, r) => ~Past(u, p, r)
           /\ pc' \in [Threads -> Place] /\ round' \in [Threads -> Nat \ {0}]
<1>1. /\ pc' = [pc EXCEPT ![t] = After(p)] /\ round' = [round EXCEPT ![t] = TurnAfter(p, r)]
      /\ kernel' = kernel
  BY DEF Workgroup!Step, Workgroup!Onward, Workgroup!Turn, Workgroup!Wraps, After, TurnAfter
<1>2. pc \in [Threads -> Place] /\ round \in [Threads -> Nat \ {0}] /\ BodyShape
  BY BodyHolds DEF GroupTypes
<1>3. After(p) \in Place /\ After(p) # p /\ TurnAfter(p, r) \in Nat \ {0}
  <2>1. p \in 1..Len(Workgroup!Body) /\ Len(Workgroup!Body) \in Nat /\ Len(Workgroup!Body) > 1
    BY <1>2 DEF BodyShape, Place
  <2>2. r \in Nat \ {0}
    BY <1>2
  <2> QED
    BY <2>1, <2>2 DEF After, Place, TurnAfter
<1>4. After(p)' = After(p) /\ TurnAfter(p, r)' = TurnAfter(p, r)
  BY <1>1, SameKernel
<1>5. \A u \in Threads : Before(u, p, r) \/ Past(u, p, r)
  BY DEF Resting, Working
<1>6. Past(t, p, r)' /\ ~Before(t, p, r)'
  BY <1>1, <1>2, <1>3, <1>4 DEF Past, Before
<1>7. \A u \in Threads : u # t => pc'[u] = pc[u] /\ round'[u] = round[u]
  BY <1>1, <1>2
<1>8. \A u \in Threads : u # t => /\ Before(u, p, r)' <=> Before(u, p, r)
                                  /\ Past(u, p, r)' <=> Past(u, p, r)
  BY <1>4, <1>7 DEF Before, Past
<1>9. \A u \in Threads : Resting(p, r) => ~Past(u, p, r)
  BY <1>3 DEF Resting, Before, Past
<1>10. pc' \in [Threads -> Place] /\ round' \in [Threads -> Nat \ {0}]
  BY <1>1, <1>2, <1>3
<1> QED
  BY <1>1, <1>5, <1>6, <1>8, <1>9, <1>10

LEMMA GotStays ==
    ASSUME Workgroup!TakesWholeRound, got' = got, kernel' = kernel PROVE Workgroup!TakesWholeRound'
<1>1. \A u : Group(u)' = Group(u)
  BY SameKernel
<1> QED
  BY <1>1 DEF Workgroup!TakesWholeRound, Group, Threads, Workgroup!Threads

LEMMA FillNext ==
    ASSUME GroupTypes, Stretch, NEW t \in Threads, Workgroup!Fill(t)
    PROVE  GroupTypes' /\ Stretch'
<1>0. PICK p, r : p = pc[t] /\ r = round[t]
  OBVIOUS
<1>1. Workgroup!Step(t, "fill") /\ Workgroup!Comes(t, "fill")
  BY DEF Workgroup!Fill, Workgroup!Step
<1>2. /\ p \in Place /\ r \in Nat \ {0} /\ What(p) = "fill" /\ r <= Workgroup!Turns
      /\ Resting(p, r) \/ Working(p, r)
  BY <1>0, <1>1, WorksHere
<1>3. /\ kernel' = kernel /\ Past(t, p, r)'
      /\ \A u \in Threads : Before(u, p, r)' \/ Past(u, p, r)'
      /\ \A u \in Threads : u # t => (Past(u, p, r)' => Past(u, p, r))
      /\ \A u \in Threads : Resting(p, r) => ~Past(u, p, r)
      /\ pc' \in [Threads -> Place] /\ round' \in [Threads -> Nat \ {0}]
  BY <1>1, <1>2, StepMoves, <1>0
<1>4. /\ Workgroup!Turns' = Workgroup!Turns /\ Place' = Place /\ What(p)' = What(p) /\ Of(p)' = Of(p)
      /\ Lanes' = Lanes
  BY <1>3, SameKernel
<1>5. /\ cell' = [cell EXCEPT ![t] = {<<<<r, Of(p)>>, t>>}]
      /\ half' = [half EXCEPT ![t] = Lanes \div 2]
      /\ touched' = touched \cup {<<t, t, "write">>}
  BY <1>0 DEF Workgroup!Fill, Workgroup!Tag, Workgroup!At, Of, Lanes
<1>6. PartsOf({t}, p, r) = {<<<<r, Of(p)>>, t>>}
  BY DEF PartsOf
<1>7. half \in [Threads -> Nat] /\ cell \in [Threads -> SUBSET CellParts]
  BY DEF GroupTypes
<1>8. Lanes \div 2 \in Nat /\ Of(p) \in {0, 1, 2}
  <2>1. Lanes \in Nat
    BY LanesDivide
  <2>2. Workgroup!Body \in Seq(Line) /\ p \in 1..Len(Workgroup!Body)
    BY <1>2, BodyHolds DEF GroupTypes, BodyShape, Place
  <2>3. Workgroup!Body[p] \in Line
    BY <2>2
  <2> QED
    BY <2>1, <2>3 DEF Of, Line
<1>9. GroupTypes'
  <2>1. half' \in [Threads -> Nat]
    BY <1>5, <1>7, <1>8
  <2>2. {<<<<r, Of(p)>>, t>>} \in SUBSET CellParts
    BY <1>2, <1>8 DEF CellParts
  <2>3. cell' \in [Threads -> SUBSET CellParts]
    BY <1>5, <1>7, <2>2
  <2>4. kernel' \in Workgroup!Kernels
    BY <1>3 DEF GroupTypes, Workgroup!Kernels
  <2>5. CellParts' = CellParts /\ Threads' = Threads
    BY DEF CellParts, Threads, Workgroup!Threads
  <2> QED
    BY <1>3, <1>4, <2>1, <2>3, <2>4, <2>5 DEF GroupTypes, Workgroup!Kernels
<1>10. touched' \subseteq OwnWrites'
  <2>1. touched \subseteq OwnWrites
    BY <1>2 DEF Resting, Working, Filling, Taking, Scanning, Folding
  <2> QED
    BY <1>5, <2>1 DEF OwnWrites, Threads
<1>11. ASSUME NEW u \in Threads, Past(u, p, r)'
       PROVE  half'[u] = Lanes \div 2 /\ cell'[u] = PartsOf({u}, p, r)
  <2>1. CASE u = t
    BY <1>5, <1>6, <1>7, <2>1
  <2>2. CASE u # t
    <3>1. Past(u, p, r) /\ ~Resting(p, r)
      BY <1>3, <1>11, <2>2
    <3>2. Filling(p, r)
      BY <1>2, <3>1 DEF Working, Taking, Scanning, Folding
    <3> QED
      BY <1>5, <1>7, <2>2, <3>1, <3>2 DEF Filling
  <2> QED
    BY <2>1, <2>2
<1>12. \A u : PartsOf({u}, p, r)' = PartsOf({u}, p, r)
  BY <1>4 DEF PartsOf
<1>13. Filling(p, r)'
  BY <1>2, <1>4, <1>10, <1>11, <1>12 DEF Filling, Threads
<1>14. Working(p, r)'
  BY <1>2, <1>3, <1>4, <1>13 DEF Working, Threads
<1> QED
  BY <1>2, <1>4, <1>9, <1>14 DEF Stretch

LEMMA FoldNext ==
    ASSUME GroupTypes, Stretch, NEW t \in Threads, Workgroup!FoldInto(t)
    PROVE  GroupTypes' /\ Stretch'
<1>0. PICK p, r : p = pc[t] /\ r = round[t]
  OBVIOUS
<1>1. Workgroup!Step(t, "fold") /\ Workgroup!Comes(t, "fold")
  BY DEF Workgroup!FoldInto, Workgroup!Step
<1>2. /\ p \in Place /\ r \in Nat \ {0} /\ What(p) = "fold" /\ r <= Workgroup!Turns
      /\ Resting(p, r) \/ Working(p, r)
  BY <1>0, <1>1, WorksHere
<1>a. Working(p, r) /\ \E h \in Nat \ {0} : Folding(p, r, h)
  BY <1>2 DEF Resting, Working, Filling, Taking, Scanning, Folding
<1>3. /\ kernel' = kernel /\ Past(t, p, r)' /\ ~Before(t, p, r)'
      /\ \A u \in Threads : Before(u, p, r)' \/ Past(u, p, r)'
      /\ \A u \in Threads : u # t => /\ Before(u, p, r)' => Before(u, p, r)
                                     /\ Past(u, p, r)' => Past(u, p, r)
      /\ pc' \in [Threads -> Place] /\ round' \in [Threads -> Nat \ {0}]
  BY <1>1, <1>2, StepMoves, <1>0
<1>4. /\ Workgroup!Turns' = Workgroup!Turns /\ Place' = Place /\ What(p)' = What(p) /\ Of(p)' = Of(p)
      /\ Lanes' = Lanes /\ \A u : Lane(u)' = Lane(u) /\ Group(u)' = Group(u)
  BY <1>3, SameKernel
<1>5. PICK h \in Nat \ {0} : Folding(p, r, h)
  BY <1>a
<1>6. half \in [Threads -> Nat] /\ cell \in [Threads -> SUBSET CellParts] /\ half[t] = h
  BY <1>5 DEF GroupTypes, Folding
<1>7. /\ half' = half
      /\ IF Lane(t) < h
         THEN /\ cell' = [cell EXCEPT ![t] = cell[t] \cup cell[t + h]]
              /\ touched' = touched \cup {<<t, t, "write">>, <<t, t + h, "read">>}
         ELSE cell' = cell /\ touched' = touched
  BY <1>6 DEF Workgroup!FoldInto, Lane
<1>8. /\ 2 * h <= Lanes /\ Lanes \in Nat /\ Lane(t) \in 0..(Lanes - 1)
      /\ \A u \in Threads : Lane(u) \in Nat
  BY <1>5, LanesDivide, LaneOf DEF Folding
<1>9. Before(t, p, r)
  BY <1>0 DEF Before
<1>10. Lane(t) < h => /\ t + h \in Threads /\ t + h # t
                      /\ cell'[t] = PartsOf(Sharers(t, h), p, r)
  <2> SUFFICES ASSUME Lane(t) < h PROVE /\ t + h \in Threads /\ t + h # t
                                        /\ cell'[t] = PartsOf(Sharers(t, h), p, r)
    OBVIOUS
  <2>1. h \in Int /\ Lane(t) + h \in 0..(Lanes - 1)
    BY <1>8
  <2>2. t + h \in Threads /\ Lane(t + h) = Lane(t) + h
    BY <2>1, LaneFurther
  <2>3. t \in Nat
    BY LaneOf
  <2>4. Lane(t) < 2 * h /\ Lane(t + h) < 2 * h /\ Lane(t + h) >= h /\ t + h # t
    BY <1>8, <2>1, <2>2, <2>3
  <2>5. /\ cell[t] = PartsOf(Sharers(t, 2 * h), p, r)
        /\ cell[t + h] = PartsOf(Sharers(t + h, 2 * h), p, r)
    BY <1>5, <1>9, <2>2, <2>4 DEF Folding
  <2>6. Sharers(t, h) = Sharers(t, 2 * h) \cup Sharers(t + h, 2 * h)
    <3>1. h \in Nat /\ Lane(t) + h < Lanes
      BY <2>1, <1>8
    <3> QED
      BY <3>1, SharersOfHalf
  <2>7. cell'[t] = cell[t] \cup cell[t + h]
    BY <1>6, <1>7
  <2> QED
    BY <2>2, <2>4, <2>5, <2>6, <2>7 DEF PartsOf
<1>11. \A u \in Threads : u # t => cell'[u] = cell[u]
  BY <1>6, <1>7
<1>12. GroupTypes'
  <2>1. cell' \in [Threads -> SUBSET CellParts]
    <3>1. CASE Lane(t) < h
      <4>1. cell[t] \cup cell[t + h] \in SUBSET CellParts
        BY <1>6, <1>10, <3>1
      <4> QED
        BY <1>6, <1>7, <3>1, <4>1
    <3> QED
      BY <1>6, <1>7, <3>1
  <2>2. CellParts' = CellParts /\ Threads' = Threads
    BY DEF CellParts, Threads, Workgroup!Threads
  <2>3. kernel' \in Workgroup!Kernels
    BY <1>3 DEF GroupTypes, Workgroup!Kernels
  <2> QED
    BY <1>3, <1>4, <1>6, <1>7, <2>1, <2>2, <2>3 DEF GroupTypes, Workgroup!Kernels
<1>13. touched' \subseteq FoldMarks(h)'
  <2>1. FoldMarks(h)' = FoldMarks(h)
    BY <1>4 DEF FoldMarks, Threads, Workgroup!Threads
  <2>2. Lane(t) < h => {<<t, t, "write">>, <<t, t + h, "read">>} \subseteq FoldMarks(h)
    BY DEF FoldMarks
  <2>3. touched \subseteq FoldMarks(h)
    BY <1>5 DEF Folding
  <2> QED
    BY <1>7, <2>1, <2>2, <2>3
<1>14. ASSUME NEW u \in Threads
       PROVE  /\ half'[u] = h
              /\ Lane(u) < 2 * h /\ (Before(u, p, r)' \/ Lane(u) >= h)
                    => cell'[u] = PartsOf(Sharers(u, 2 * h), p, r)
              /\ Lane(u) < h /\ Past(u, p, r)' => cell'[u] = PartsOf(Sharers(u, h), p, r)
  <2>1. CASE u # t
    BY <1>3, <1>5, <1>7, <1>11, <2>1 DEF Folding
  <2>2. CASE u = t
    <3>1. Lane(u) >= h => cell'[u] = cell[u]
      BY <1>7, <1>8, <2>2
    <3>2. Lane(u) < h => cell'[u] = PartsOf(Sharers(u, h), p, r)
      BY <1>10, <2>2
    <3> QED
      BY <1>3, <1>5, <1>7, <2>2, <3>1, <3>2 DEF Folding
  <2> QED
    BY <2>1, <2>2
<1>15. /\ \A us : PartsOf(us, p, r)' = PartsOf(us, p, r)
       /\ \A u, w : Sharers(u, w)' = Sharers(u, w)
  BY <1>4 DEF PartsOf, Sharers
<1>16. Folding(p, r, h)'
  <2>1. \A u, w : PartsOf(Sharers(u, w), p, r)' = PartsOf(Sharers(u, w), p, r)
    BY <1>4, <1>15 DEF PartsOf
  <2>2. Threads' = Threads /\ IsPowerOfTwo(h)' = IsPowerOfTwo(h)
    BY DEF Threads, Workgroup!Threads, IsPowerOfTwo
  <2>3. What(p)' = "fold" /\ IsPowerOfTwo(h)' /\ 2 * h <= Lanes'
    BY <1>4, <1>5, <2>2 DEF Folding
  <2> QED
    BY <1>4, <1>13, <1>14, <2>1, <2>2, <2>3 DEF Folding
<1>17. Working(p, r)'
  BY <1>2, <1>3, <1>4, <1>16 DEF Working, Threads, Workgroup!Threads
<1> QED
  BY <1>2, <1>4, <1>12, <1>17 DEF Stretch

LEMMA TakeNext ==
    ASSUME GroupTypes, Stretch, Workgroup!TakesWholeRound, NEW t \in Threads, Workgroup!Take(t)
    PROVE  GroupTypes' /\ Stretch' /\ Workgroup!TakesWholeRound'
<1>0. PICK p, r : p = pc[t] /\ r = round[t]
  OBVIOUS
<1>1. Workgroup!Step(t, "take") /\ Workgroup!Comes(t, "take")
  BY DEF Workgroup!Take, Workgroup!Step
<1>2. /\ p \in Place /\ r \in Nat \ {0} /\ What(p) = "take" /\ r <= Workgroup!Turns
      /\ Resting(p, r) \/ Working(p, r)
  BY <1>0, <1>1, WorksHere
<1>a. Working(p, r) /\ Taking(p, r)
  BY <1>2 DEF Resting, Working, Filling, Taking, Scanning, Folding
<1>3. /\ kernel' = kernel /\ Past(t, p, r)' /\ ~Before(t, p, r)'
      /\ \A u \in Threads : Before(u, p, r)' \/ Past(u, p, r)'
      /\ \A u \in Threads : u # t => /\ Before(u, p, r)' => Before(u, p, r)
                                     /\ Past(u, p, r)' => Past(u, p, r)
      /\ pc' \in [Threads -> Place] /\ round' \in [Threads -> Nat \ {0}]
  BY <1>1, <1>2, StepMoves, <1>0
<1>4. /\ Workgroup!Turns' = Workgroup!Turns /\ Place' = Place /\ What(p)' = What(p) /\ Of(p)' = Of(p)
      /\ Lanes' = Lanes /\ \A u : Lane(u)' = Lane(u) /\ Group(u)' = Group(u)
  BY <1>3, SameKernel
<1>5. Lane(t - Lane(t)) = 0 /\ t - Lane(t) \in Threads /\ Group(t - Lane(t)) = Group(t)
  <2>1. Lane(t) \in 0..(Lanes - 1) /\ Lanes \in Nat /\ t \in Nat
    BY LaneOf, LanesDivide
  <2> DEFINE j == -Lane(t)
  <2>2. j \in Int /\ Lane(t) + j = 0 /\ Lane(t) + j \in 0..(Lanes - 1) /\ t + j = t - Lane(t)
    BY <2>1
  <2> HIDE DEF j
  <2>3. t + j \in Threads /\ Lane(t + j) = Lane(t) + j /\ Group(t + j) = Group(t)
    BY <2>2, LaneFurther
  <2> QED
    BY <2>2, <2>3
<1>6. cell[t - Lane(t)] = PartsOf(Group(t), p, r)
  BY <1>a, <1>5 DEF Taking
<1>7. /\ half' = half /\ cell' = cell
      /\ got' = got \cup {<<<<r, Of(p)>>, t, PartsOf(Group(t), p, r)>>}
      /\ touched' = touched \cup {<<t, t - Lane(t), "read">>}
  BY <1>0, <1>6 DEF Workgroup!Take, Workgroup!Tag, Workgroup!At, Of, Lane
<1>8. GroupTypes'
  BY <1>3, <1>4, <1>7 DEF GroupTypes, Workgroup!Kernels, CellParts, Threads, Workgroup!Threads
<1>9. Working(p, r)'
  <2>1. \A u : PartsOf(Group(u), p, r)' = PartsOf(Group(u), p, r)
    BY <1>4 DEF PartsOf
  <2>2. OnlyReads'
    BY <1>a, <1>7 DEF Taking, OnlyReads
  <2>3. Taking(p, r)'
    BY <1>a, <1>4, <1>7, <2>1, <2>2 DEF Taking, Threads, Workgroup!Threads
  <2> QED
    BY <1>2, <1>3, <1>4, <2>3 DEF Working, Threads, Workgroup!Threads
<1>10. kernel # "matvec" => Group(t) = Threads
  <2> SUFFICES ASSUME kernel # "matvec" PROVE \A u \in Threads : Lane(u) = u
    <3>1. \A u \in Threads : u \in Nat
      BY LaneOf
    <3>2. (\A u \in Threads : Lane(u) = u) => \A u \in Threads : u - Lane(u) = t - Lane(t)
      BY <3>1
    <3> QED
      BY <3>2 DEF Group, Workgroup!Group, Lane, Threads
  <2>1. Lanes = N
    BY DEF Lanes, Workgroup!Lanes
  <2>2. ASSUME NEW u \in Threads PROVE Lane(u) = u
    <3>1. N \in Nat \ {0} /\ u \in 0..(N - 1) /\ Lane(u) = u % N
      BY <2>1, ComputeAssumption DEF Lane, Workgroup!Lane, Lanes, Threads, Workgroup!Threads
    <3>2. 0 \in Int /\ (N * 0 + u) % N = u
      BY <3>1, Remainder
    <3> QED
      BY <3>1, <3>2
  <2> QED
    BY <2>2
<1>11. Workgroup!TakesWholeRound'
  <2> SUFFICES ASSUME NEW g \in got'
               PROVE  g[3] = {<<g[1], u>> : u \in IF kernel = "matvec" THEN Group(g[2]) ELSE Threads}
    BY <1>3, <1>4 DEF Workgroup!TakesWholeRound, Group, Threads, Workgroup!Threads
  <2>1. CASE g \in got
    BY <2>1 DEF Workgroup!TakesWholeRound, Group, Threads
  <2>2. CASE g = <<<<r, Of(p)>>, t, PartsOf(Group(t), p, r)>>
    BY <1>10, <2>2 DEF PartsOf
  <2> QED
    BY <1>7, <2>1, <2>2
<1> QED
  BY <1>2, <1>4, <1>8, <1>9, <1>11 DEF Stretch

LEMMA ScanNext ==
    ASSUME GroupTypes, Stretch, Workgroup!TakesWholeRound, NEW t \in Threads, Workgroup!Scan(t)
    PROVE  GroupTypes' /\ Stretch' /\ Workgroup!TakesWholeRound'
<1>0. PICK p, r : p = pc[t] /\ r = round[t]
  OBVIOUS
<1>1. Workgroup!Step(t, "scan") /\ Workgroup!Comes(t, "scan")
  BY DEF Workgroup!Scan, Workgroup!Step
<1>2. /\ p \in Place /\ r \in Nat \ {0} /\ What(p) = "scan" /\ r <= Workgroup!Turns
      /\ Resting(p, r) \/ Working(p, r)
  BY <1>0, <1>1, WorksHere
<1>a. Working(p, r) /\ Scanning(p, r)
  BY <1>2 DEF Resting, Working, Filling, Taking, Scanning, Folding
<1>3. /\ kernel' = kernel /\ Past(t, p, r)' /\ ~Before(t, p, r)'
      /\ \A u \in Threads : Before(u, p, r)' \/ Past(u, p, r)'
      /\ \A u \in Threads : u # t => /\ Before(u, p, r)' => Before(u, p, r)
                                     /\ Past(u, p, r)' => Past(u, p, r)
      /\ pc' \in [Threads -> Place] /\ round' \in [Threads -> Nat \ {0}]
  BY <1>1, <1>2, StepMoves, <1>0
<1>4. /\ Workgroup!Turns' = Workgroup!Turns /\ Place' = Place /\ What(p)' = What(p) /\ Of(p)' = Of(p)
      /\ Lanes' = Lanes /\ \A u : Lane(u)' = Lane(u) /\ Group(u)' = Group(u)
  BY <1>3, SameKernel
<1>6. UNION {cell[u] : u \in Threads} = PartsOf(Threads, p, r)
  BY <1>a DEF Scanning, PartsOf
<1>7. /\ half' = half /\ cell' = cell
      /\ got' = got \cup {<<<<r, Of(p)>>, t, PartsOf(Threads, p, r)>>}
      /\ touched' = touched \cup {<<t, u, "read">> : u \in Threads}
  BY <1>0, <1>6 DEF Workgroup!Scan, Workgroup!Tag, Workgroup!At, Of, Threads
<1>8. GroupTypes'
  BY <1>3, <1>4, <1>7 DEF GroupTypes, Workgroup!Kernels, CellParts, Threads, Workgroup!Threads
<1>9. Working(p, r)'
  <2>1. \A u : PartsOf({u}, p, r)' = PartsOf({u}, p, r)
    BY <1>4 DEF PartsOf
  <2>2. OnlyReads'
    BY <1>a, <1>7 DEF Scanning, OnlyReads
  <2>3. Scanning(p, r)'
    BY <1>a, <1>4, <1>7, <2>1, <2>2 DEF Scanning, Threads, Workgroup!Threads
  <2> QED
    BY <1>2, <1>3, <1>4, <2>3 DEF Working, Threads, Workgroup!Threads
<1>10. kernel # "matvec"
  BY <1>2, BodyHolds DEF GroupTypes, BodyShape
<1>11. Workgroup!TakesWholeRound'
  <2> SUFFICES ASSUME NEW g \in got' PROVE g[3] = {<<g[1], u>> : u \in Threads}
    BY <1>3, <1>10 DEF Workgroup!TakesWholeRound, Threads, Workgroup!Threads
  <2>1. CASE g \in got
    BY <1>10, <2>1 DEF Workgroup!TakesWholeRound, Threads
  <2>2. CASE g = <<<<r, Of(p)>>, t, PartsOf(Threads, p, r)>>
    BY <2>2 DEF PartsOf
  <2> QED
    BY <1>7, <2>1, <2>2
<1> QED
  BY <1>2, <1>4, <1>8, <1>9, <1>11 DEF Stretch

\* Every thread is past an instruction that is not a barrier when all meet at one.
LEMMA AllPast ==
    ASSUME GroupTypes, NEW p \in Place, NEW r \in Nat \ {0}, Working(p, r),
           NEW what \in {"barrier", "again"}, Workgroup!Meet(what)
    PROVE  /\ \A t \in Threads : Past(t, p, r) /\ What(pc[t]) = what /\ Workgroup!Running(t)
           /\ what = "again" <=> What(p) = "fold"
<1>1. What(p) \in {"fill", "fold", "take", "scan"} /\ r <= Workgroup!Turns
  BY DEF Working, Filling, Taking, Scanning, Folding
<1>2. ASSUME NEW t \in Threads PROVE What(pc[t]) = what /\ Workgroup!Running(t)
  BY DEF Workgroup!Meet, Workgroup!Comes, Workgroup!At, What, Threads
<1>3. ASSUME NEW t \in Threads PROVE Past(t, p, r)
  BY <1>1, <1>2 DEF Working, Before
<1>4. 0 \in Threads
  BY ComputeAssumption DEF Threads, Workgroup!Threads
<1>5. What(pc[0]) = IF What(p) = "fold" THEN "again" ELSE "barrier"
  BY <1>1, <1>2, <1>3, <1>4, PastMeets
<1> QED
  BY <1>2, <1>3, <1>4, <1>5

\* A barrier takes every thread one place on.
LEMMA BarrierMoves ==
    ASSUME GroupTypes, Workgroup!Barrier, NEW p \in Place, NEW r \in Nat \ {0},
           \A t \in Threads : pc[t] = p /\ round[t] = r
    PROVE  /\ kernel' = kernel /\ cell' = cell /\ half' = half /\ got' = got /\ touched' = {}
           /\ After(p) \in Place /\ TurnAfter(p, r) \in Nat \ {0}
           /\ \A t \in Threads : pc'[t] = After(p) /\ round'[t] = TurnAfter(p, r)
           /\ GroupTypes'
<1>1. /\ kernel' = kernel /\ cell' = cell /\ half' = half /\ got' = got /\ touched' = {}
      /\ pc' = [t \in Threads |-> After(p)] /\ round' = [t \in Threads |-> TurnAfter(p, r)]
  BY DEF Workgroup!Barrier, Workgroup!Meet, Workgroup!Onward, Workgroup!Turn, Workgroup!Wraps,
         After, TurnAfter, Threads
<1>2. After(p) \in Place /\ TurnAfter(p, r) \in Nat \ {0}
  <2>1. p \in 1..Len(Workgroup!Body) /\ Len(Workgroup!Body) \in Nat /\ Len(Workgroup!Body) > 1
    BY BodyHolds DEF GroupTypes, BodyShape, Place
  <2> QED
    BY <2>1 DEF After, Place, TurnAfter
<1>3. \A t \in Threads : pc'[t] = After(p) /\ round'[t] = TurnAfter(p, r)
  BY <1>1
<1>4. GroupTypes'
  <2>1. Place' = Place
    BY <1>1, SameKernel
  <2>2. pc' \in [Threads -> Place] /\ round' \in [Threads -> Nat \ {0}]
    BY <1>1, <1>2
  <2> QED
    BY <1>1, <2>1, <2>2 DEF GroupTypes, Workgroup!Kernels, CellParts, Threads, Workgroup!Threads
<1> QED
  BY <1>1, <1>2, <1>3, <1>4

\* The place after one is the next, or the first.
LEMMA AfterIs ==
    ASSUME GroupTypes, NEW p \in Place
    PROVE  /\ After(p) \in Place /\ (After(p) > 1 => After(p) - 1 = p)
           /\ p + 1 \in Place => After(p) = p + 1 /\ \A r : TurnAfter(p, r) = r
<1>1. p \in 1..Len(Workgroup!Body) /\ Len(Workgroup!Body) \in Nat /\ Len(Workgroup!Body) > 1
  BY BodyHolds DEF GroupTypes, BodyShape, Place
<1> QED
  BY <1>1 DEF After, Place, TurnAfter

LEMMA RestNext ==
    ASSUME GroupTypes, Workgroup!Barrier, NEW p \in Place, NEW r \in Nat \ {0},
           \A t \in Threads : pc[t] = p /\ round[t] = r,
           What(p) = "barrier", What(After(p)) \in {"fill", "barrier"}
    PROVE  GroupTypes' /\ Stretch'
<1>1. PICK q, s : q = After(p) /\ s = TurnAfter(p, r)
  OBVIOUS
<1>2. /\ kernel' = kernel /\ touched' = {} /\ q \in Place /\ s \in Nat \ {0}
      /\ \A t \in Threads : pc'[t] = q /\ round'[t] = s
      /\ GroupTypes'
  BY <1>1, BarrierMoves
<1>3. What(q) = "fill" \/ (What(q) = "barrier" /\ What(After(q)) \in {"fill", "barrier"})
  <2>1. CASE What(q) = "barrier"
    <3>1. q > 1 => q - 1 = p
      BY <1>1, AfterIs
    <3>2. ~(q > 1 /\ What(q - 1) = "fill")
      BY <3>1
    <3> QED
      BY <1>2, <2>1, <3>2, BodyHolds DEF GroupTypes, BodyShape
  <2> QED
    BY <1>1, <2>1
<1>4. What(q)' = What(q) /\ What(After(q))' = What(After(q)) /\ Place' = Place
  <2>1. \A x : What(x)' = What(x) /\ After(x)' = After(x)
    BY <1>2, SameKernel
  <2>2. What(After(q))' = What(After(q))
    BY <1>2, SameKernel DEF What, After
  <2> QED
    BY <1>2, <2>1, <2>2, SameKernel
<1>5. Resting(q, s)'
  BY <1>2, <1>3, <1>4 DEF Resting, Before, Threads, Workgroup!Threads
<1> QED
  BY <1>2, <1>4, <1>5 DEF Stretch

LEMMA BarrierNext ==
    ASSUME GroupTypes, Stretch, Workgroup!Barrier
    PROVE  GroupTypes' /\ Stretch'
<1>1. Workgroup!Meet("barrier") /\ BodyShape
  BY BodyHolds DEF Workgroup!Barrier, GroupTypes
<1>2. PICK p \in Place, r \in Nat \ {0} : Resting(p, r) \/ Working(p, r)
  BY DEF Stretch
<1>3. CASE Resting(p, r)
  <2>1. 0 \in Threads
    BY ComputeAssumption DEF Threads, Workgroup!Threads
  <2>2. \A t \in Threads : pc[t] = p /\ round[t] = r
    BY <1>3 DEF Resting, Before
  <2>3. What(p) = "barrier"
    BY <1>1, <2>1, <2>2 DEF Workgroup!Meet, Workgroup!Comes, Workgroup!At, What, Threads
  <2>4. What(After(p)) \in {"fill", "barrier"}
    BY <1>3, <2>3 DEF Resting
  <2> QED
    BY <2>2, <2>3, <2>4, RestNext
<1>4. CASE Working(p, r)
  <2>1. PICK q, s : q = After(p) /\ s = TurnAfter(p, r)
    OBVIOUS
  <2>2. /\ \A t \in Threads : Past(t, p, r) /\ What(pc[t]) = "barrier" /\ Workgroup!Running(t)
        /\ What(p) # "fold"
    BY <1>1, <1>4, AllPast
  <2>3. 0 \in Threads
    BY ComputeAssumption DEF Threads, Workgroup!Threads
  <2>4. /\ \A t \in Threads : pc[t] = q /\ round[t] = s
        /\ q \in Place /\ s \in Nat \ {0} /\ What(q) = "barrier" /\ s <= Workgroup!Turns
        /\ q > 1 => q - 1 = p
    <3>1. \A t \in Threads : pc[t] = q /\ round[t] = s
      BY <2>1, <2>2 DEF Past
    <3>2. q \in Place /\ s \in Nat \ {0}
      BY <2>3, <3>1 DEF GroupTypes
    <3>3. What(q) = "barrier" /\ s <= Workgroup!Turns
      BY <2>2, <2>3, <3>1 DEF Workgroup!Running
    <3> QED
      BY <2>1, <3>1, <3>2, <3>3, AfterIs
  <2>5. CASE What(p) \in {"take", "scan"}
    <3>1. What(After(q)) \in {"fill", "barrier"}
      <4>1. ~(q > 1 /\ What(q - 1) = "fill")
        BY <2>4, <2>5
      <4> QED
        BY <1>1, <2>4, <4>1 DEF BodyShape
    <3> QED
      BY <2>4, <3>1, RestNext
  <2>6. CASE What(p) = "fill"
    <3>1. PICK v : v = p + 2
      OBVIOUS
    <3>2. /\ q = p + 1 /\ s = r /\ After(q) = v /\ TurnAfter(q, s) = r
          /\ v \in Place /\ What(v) \in {"fold", "scan"} /\ Of(v) = Of(p)
      <4>1. /\ p + 1 \in Place /\ p + 2 \in Place /\ p \in Nat
            /\ What(p + 2) \in {"fold", "scan"} /\ Of(p + 2) = Of(p)
        BY <1>1, <2>6 DEF BodyShape, Place
      <4>2. After(p) = p + 1 /\ TurnAfter(p, r) = r
        BY <4>1, AfterIs
      <4>3. (p + 1) + 1 = p + 2
        BY <4>1
      <4>4. After(p + 1) = p + 2 /\ TurnAfter(p + 1, r) = r
        BY <4>1, <4>3, AfterIs
      <4> QED
        BY <2>1, <3>1, <4>1, <4>2, <4>4
    <3>3. /\ kernel' = kernel /\ touched' = {} /\ cell' = cell /\ half' = half
          /\ \A t \in Threads : pc'[t] = v /\ round'[t] = r
          /\ GroupTypes'
      BY <2>4, <3>2, BarrierMoves
    <3>4. \A t \in Threads : half[t] = Lanes \div 2 /\ cell[t] = PartsOf({t}, v, r)
      <4>1. Filling(p, r)
        BY <1>4, <2>6 DEF Working, Taking, Scanning, Folding
      <4> QED
        BY <2>2, <3>2, <4>1 DEF Filling, PartsOf
    <3>5. /\ Workgroup!Turns' = Workgroup!Turns /\ Place' = Place /\ What(v)' = What(v) /\ Of(v)' = Of(v)
          /\ Lanes' = Lanes /\ \A u : Lane(u)' = Lane(u) /\ Group(u)' = Group(u)
          /\ Threads' = Threads
      BY <3>3, SameKernel DEF Threads, Workgroup!Threads
    <3>6. \A t \in Threads : Before(t, v, r)'
      BY <3>3 DEF Before
    <3>7. CASE What(v) = "scan"
      <4>1. \A t : PartsOf({t}, v, r)' = PartsOf({t}, v, r)
        BY <3>5 DEF PartsOf
      <4>2. Scanning(v, r)'
        BY <3>3, <3>4, <3>5, <3>7, <4>1 DEF Scanning, OnlyReads
      <4>3. Working(v, r)'
        BY <2>4, <3>2, <3>5, <3>6, <4>2 DEF Working
      <4> QED
        BY <3>2, <3>3, <3>5, <4>3 DEF Stretch
    <3>8. CASE What(v) = "fold"
      <4>1. PICK h : h = Lanes \div 2
        OBVIOUS
      <4>2. h \in Nat \ {0} /\ 2 * h = Lanes /\ IsPowerOfTwo(h) /\ Lanes \in Nat
        BY <4>1, LanesDivide, HalfOfPower
      <4>3. /\ \A t, w : Sharers(t, w)' = Sharers(t, w)
            /\ \A t, w : PartsOf(Sharers(t, w), v, r)' = PartsOf(Sharers(t, w), v, r)
        BY <3>5 DEF Sharers, PartsOf
      <4>4. \A t \in Threads : cell'[t] = PartsOf(Sharers(t, 2 * h), v, r)
        BY <3>3, <3>4, <4>2, SharersOfAll
      <4>5. \A t \in Threads : ~Past(t, v, r)'
        <5>1. After(v) # v
          <6>1. v \in 1..Len(Workgroup!Body) /\ Len(Workgroup!Body) \in Nat /\ Len(Workgroup!Body) > 1
            BY <1>1, <3>2 DEF BodyShape, Place
          <6> QED
            BY <6>1 DEF After
        <5>2. After(v)' = After(v)
          BY <3>3, SameKernel
        <5> QED
          BY <3>3, <5>1, <5>2 DEF Past
      <4>6. /\ What(v)' = "fold" /\ IsPowerOfTwo(h)' /\ 2 * h <= Lanes' /\ touched' \subseteq FoldMarks(h)'
            /\ \A t \in Threads : half'[t] = h
        <5>1. What(v)' = "fold"
          BY <3>5, <3>8
        <5>a. 2 * h <= Lanes'
          BY <3>5, <4>2
        <5>b. \A t \in Threads : half'[t] = h
          BY <3>3, <3>4, <4>1
        <5>2. IsPowerOfTwo(h)'
          BY <4>2 DEF IsPowerOfTwo
        <5> QED
          BY <3>3, <5>1, <5>a, <5>b, <5>2
      <4>7. Folding(v, r, h)'
        BY <3>5, <4>3, <4>4, <4>5, <4>6 DEF Folding
      <4>8. Working(v, r)'
        BY <2>4, <3>2, <3>5, <3>6, <4>2, <4>7 DEF Working
      <4> QED
        BY <3>2, <3>3, <3>5, <4>8 DEF Stretch
    <3> QED
      BY <3>2, <3>7, <3>8
  <2> QED
    BY <1>4, <2>2, <2>5, <2>6 DEF Working, Filling, Taking, Scanning, Folding
<1> QED
  BY <1>2, <1>3, <1>4

LEMMA AgainNext ==
    ASSUME GroupTypes, Stretch, Workgroup!Again
    PROVE  GroupTypes' /\ Stretch'
<1>1. Workgroup!Meet("again") /\ BodyShape
  BY BodyHolds DEF Workgroup!Again, GroupTypes
<1>2. PICK p \in Place, r \in Nat \ {0} : Resting(p, r) \/ Working(p, r)
  BY DEF Stretch
<1>3. 0 \in Threads
  BY ComputeAssumption DEF Threads, Workgroup!Threads
<1>4. ~Resting(p, r)
  <2>1. What(pc[0]) = "again"
    BY <1>1, <1>3 DEF Workgroup!Meet, Workgroup!Comes, Workgroup!At, What, Threads
  <2> QED
    BY <1>3, <2>1 DEF Resting, Before
<1>5. Working(p, r)
  BY <1>2, <1>4
<1>6. What(p) = "fold" /\ \A t \in Threads : Past(t, p, r)
  BY <1>1, <1>5, AllPast
<1>7. PICK h \in Nat \ {0} : Folding(p, r, h)
  BY <1>5, <1>6 DEF Working, Filling, Taking, Scanning
<1>8. /\ p \in Nat /\ p + 1 \in Place /\ p + 2 \in Place /\ What(p + 2) = "take" /\ Of(p + 2) = Of(p)
      /\ After(p) = p + 1 /\ TurnAfter(p, r) = r
  <2>1. p \in Nat /\ p + 1 \in Place /\ p + 2 \in Place /\ What(p + 2) = "take" /\ Of(p + 2) = Of(p)
    BY <1>1, <1>6 DEF BodyShape, Place
  <2> QED
    BY <2>1, AfterIs
<1>9. \A t \in Threads : pc[t] = p + 1 /\ round[t] = r /\ half[t] = h
  BY <1>6, <1>7, <1>8 DEF Past, Folding
<1>10. PICK g : g = h \div 2
  OBVIOUS
<1>11. /\ kernel' = kernel /\ cell' = cell /\ touched' = {} /\ round' = round
       /\ half' = [t \in Threads |-> g]
       /\ pc' = [t \in Threads |-> IF g = 0 THEN p + 2 ELSE p]
  <2>1. /\ kernel' = kernel /\ cell' = cell /\ touched' = {} /\ round' = round
        /\ half' = [t \in Threads |-> half[t] \div 2]
        /\ pc' = [t \in Threads |-> IF half[t] \div 2 = 0 THEN pc[t] + 1 ELSE pc[t] - 1]
    BY DEF Workgroup!Again, Workgroup!Meet, Threads
  <2>2. (p + 1) + 1 = p + 2 /\ (p + 1) - 1 = p
    BY <1>8
  <2>3. \A t \in Threads : /\ half[t] \div 2 = g
                           /\ pc[t] + 1 = p + 2 /\ pc[t] - 1 = p
    BY <1>9, <1>10, <2>2
  <2> QED
    BY <2>1, <2>3
<1>12. \A t \in Threads : Lane(t) < h => cell[t] = PartsOf(Sharers(t, h), p, r)
  BY <1>6, <1>7 DEF Folding
<1>13. /\ Workgroup!Turns' = Workgroup!Turns /\ Place' = Place
       /\ \A x : What(x)' = What(x) /\ Of(x)' = Of(x)
       /\ Lanes' = Lanes /\ \A u : Lane(u)' = Lane(u) /\ Group(u)' = Group(u)
       /\ Threads' = Threads
  BY <1>11, SameKernel DEF Threads, Workgroup!Threads
<1>14. g \in Nat /\ Lanes \in Nat /\ \A t \in Threads : Lane(t) \in Nat
  BY <1>10, LanesDivide, LaneOf
<1>15. GroupTypes'
  <2>1. pc' \in [Threads -> Place] /\ half' \in [Threads -> Nat]
    BY <1>8, <1>11, <1>14
  <2>2. round' \in [Threads -> Nat \ {0}] /\ cell' \in [Threads -> SUBSET CellParts]
    BY <1>11 DEF GroupTypes
  <2>3. kernel' \in Workgroup!Kernels /\ CellParts' = CellParts
    BY <1>11 DEF GroupTypes, Workgroup!Kernels, CellParts, Threads, Workgroup!Threads
  <2> QED
    BY <1>13, <2>1, <2>2, <2>3 DEF GroupTypes, Workgroup!Kernels
<1>16. r <= Workgroup!Turns
  BY <1>5 DEF Working
<1>17. CASE g = 0
  <2>1. h = 1
    BY <1>10, <1>17
  <2>2. PICK v : v = p + 2
    OBVIOUS
  <2>3. \A t \in Threads : Before(t, v, r)'
    BY <1>9, <1>11, <1>17, <2>2 DEF Before
  <2>4. \A t \in Threads : Lane(t) = 0 => cell'[t] = PartsOf(Group(t), v, r)
    <3> SUFFICES ASSUME NEW t \in Threads, Lane(t) = 0 PROVE cell'[t] = PartsOf(Group(t), v, r)
      OBVIOUS
    <3>1. cell[t] = PartsOf(Sharers(t, 1), p, r)
      BY <1>12, <2>1
    <3>2. Sharers(t, 1) = Group(t)
      BY SharersOfOne
    <3> QED
      BY <1>8, <1>11, <2>2, <3>1, <3>2 DEF PartsOf
  <2>5. \A t : PartsOf(Group(t), v, r)' = PartsOf(Group(t), v, r)
    BY <1>13 DEF PartsOf
  <2>6. Taking(v, r)'
    BY <1>8, <1>11, <1>13, <2>2, <2>4, <2>5 DEF Taking, OnlyReads
  <2>7. Working(v, r)'
    BY <1>13, <1>16, <2>3, <2>6 DEF Working
  <2> QED
    BY <1>8, <1>13, <1>15, <2>2, <2>7 DEF Stretch
<1>18. CASE g # 0
  <2>1. h \in Nat \ {0, 1} /\ IsPowerOfTwo(h) /\ 2 * h <= Lanes
    BY <1>7, <1>10, <1>18 DEF Folding
  <2>2. g \in Nat \ {0} /\ 2 * g = h /\ IsPowerOfTwo(g)
    BY <1>10, <2>1, HalfOfPower
  <2>3. \A t \in Threads : pc'[t] = p /\ round'[t] = r /\ half'[t] = g
    BY <1>9, <1>11, <1>18
  <2>4. \A t \in Threads : ~Past(t, p, r)'
    <3>1. After(p)' = p + 1 /\ p + 1 # p
      <4>1. After(p)' = After(p)
        BY <1>11, SameKernel
      <4> QED
        BY <1>8, <4>1
    <3> QED
      BY <2>3, <3>1 DEF Past
  <2>5. /\ \A t, w : Sharers(t, w)' = Sharers(t, w)
        /\ \A t, w : PartsOf(Sharers(t, w), p, r)' = PartsOf(Sharers(t, w), p, r)
    BY <1>13 DEF Sharers, PartsOf
  <2>6. IsPowerOfTwo(g)' /\ 2 * g <= Lanes'
    <3>1. IsPowerOfTwo(g)'
      BY <2>2 DEF IsPowerOfTwo
    <3> QED
      BY <1>13, <1>14, <2>1, <2>2, <3>1
  <2>7. \A t \in Threads : Lane(t) < 2 * g => cell'[t] = PartsOf(Sharers(t, 2 * g), p, r)
    BY <1>11, <1>12, <2>2
  <2>8. Folding(p, r, g)'
    BY <1>6, <1>11, <1>13, <2>3, <2>4, <2>5, <2>6, <2>7 DEF Folding
  <2>9. Working(p, r)'
    BY <1>13, <1>16, <2>2, <2>3, <2>8 DEF Working, Before
  <2> QED
    BY <1>13, <1>15, <2>9 DEF Stretch
<1> QED
  BY <1>17, <1>18

LEMMA WorkgroupStep ==
    ASSUME WorkgroupInv, Workgroup!Next PROVE WorkgroupInv'
<1> USE DEF WorkgroupInv
<1>1. ASSUME NEW t \in Threads, Workgroup!Fill(t) PROVE WorkgroupInv'
  <2>1. got' = got /\ kernel' = kernel
    BY <1>1 DEF Workgroup!Fill, Workgroup!Step
  <2> QED
    BY <1>1, <2>1, FillNext, GotStays
<1>2. ASSUME NEW t \in Threads, Workgroup!FoldInto(t) PROVE WorkgroupInv'
  <2>1. got' = got /\ kernel' = kernel
    BY <1>2 DEF Workgroup!FoldInto, Workgroup!Step
  <2> QED
    BY <1>2, <2>1, FoldNext, GotStays
<1>3. ASSUME NEW t \in Threads, Workgroup!Take(t) PROVE WorkgroupInv'
  BY <1>3, TakeNext
<1>4. ASSUME NEW t \in Threads, Workgroup!Scan(t) PROVE WorkgroupInv'
  BY <1>4, ScanNext
<1>5. CASE Workgroup!Barrier
  <2>1. got' = got /\ kernel' = kernel
    BY <1>5 DEF Workgroup!Barrier, Workgroup!Meet
  <2> QED
    BY <1>5, <2>1, BarrierNext, GotStays
<1>6. CASE Workgroup!Again
  <2>1. got' = got /\ kernel' = kernel
    BY <1>6 DEF Workgroup!Again, Workgroup!Meet
  <2> QED
    BY <1>6, <2>1, AgainNext, GotStays
<1> QED
  BY <1>1, <1>2, <1>3, <1>4, <1>5, <1>6 DEF Workgroup!Next, Threads

LEMMA StutterKeeps ==
    ASSUME WorkgroupInv, UNCHANGED workgroupVars PROVE WorkgroupInv'
<1>1. /\ kernel' = kernel /\ pc' = pc /\ half' = half /\ round' = round /\ cell' = cell
      /\ got' = got /\ touched' = touched
  BY DEF workgroupVars
<1>2. /\ Workgroup!Turns' = Workgroup!Turns /\ Place' = Place /\ Lanes' = Lanes
      /\ Threads' = Threads /\ CellParts' = CellParts
      /\ \A p : What(p)' = What(p) /\ Of(p)' = Of(p) /\ After(p)' = After(p)
      /\ \A p, r : TurnAfter(p, r)' = TurnAfter(p, r)
      /\ \A t : Lane(t)' = Lane(t) /\ Group(t)' = Group(t)
  BY <1>1, SameKernel DEF Threads, Workgroup!Threads, CellParts
<1>3. GroupTypes'
  BY <1>1, <1>2 DEF WorkgroupInv, GroupTypes, Workgroup!Kernels
<1>4. PICK p \in Place, r \in Nat \ {0} : Resting(p, r) \/ Working(p, r)
  BY DEF WorkgroupInv, Stretch
<1>5. \A t : /\ Before(t, p, r)' <=> Before(t, p, r)
             /\ Past(t, p, r)' <=> Past(t, p, r)
  BY <1>1, <1>2 DEF Before, Past
<1>6. Resting(p, r) => Resting(p, r)'
  BY <1>1, <1>2, <1>5, SameKernel DEF Resting, What, After
<1>7. /\ \A us : PartsOf(us, p, r)' = PartsOf(us, p, r)
      /\ \A t : PartsOf({t}, p, r)' = PartsOf({t}, p, r)
      /\ \A t : PartsOf(Group(t), p, r)' = PartsOf(Group(t), p, r)
      /\ \A t, w : PartsOf(Sharers(t, w), p, r)' = PartsOf(Sharers(t, w), p, r)
  BY <1>2 DEF PartsOf, Sharers
<1>8. Filling(p, r) => Filling(p, r)'
  BY <1>1, <1>2, <1>5, <1>7 DEF Filling, OwnWrites
<1>9. Taking(p, r) => Taking(p, r)'
  BY <1>1, <1>2, <1>5, <1>7 DEF Taking, OnlyReads
<1>10. Scanning(p, r) => Scanning(p, r)'
  BY <1>1, <1>2, <1>5, <1>7 DEF Scanning, OnlyReads
<1>11. ASSUME NEW h \in Nat \ {0}, Folding(p, r, h) PROVE Folding(p, r, h)'
  <2>1. FoldMarks(h)' = FoldMarks(h)
    BY <1>2 DEF FoldMarks
  <2>2. IsPowerOfTwo(h)'
    BY <1>11 DEF Folding, IsPowerOfTwo
  <2> QED
    BY <1>1, <1>2, <1>5, <1>7, <1>11, <2>1, <2>2 DEF Folding
<1>12. Working(p, r) => Working(p, r)'
  BY <1>2, <1>5, <1>8, <1>9, <1>10, <1>11 DEF Working
<1>13. Workgroup!TakesWholeRound'
  BY <1>1, GotStays DEF WorkgroupInv
<1> QED
  BY <1>2, <1>3, <1>4, <1>6, <1>12, <1>13 DEF WorkgroupInv, Stretch

\* Initialised with the workgroup running, and only its own steps move it.
GroupInv == part = "workgroup" => WorkgroupInv

\* ComputeSpec, the workgroup: whatever kernel runs, with any number of threads and lanes
\* that are powers of two and any number of turns, no two threads touch a cell between
\* barriers, one of them writing, and what a thread takes is its group's whole turn.
THEOREM ReductionsAreSafeHolds == ComputeSpec => []ReductionsAreSafe
<1>1. ComputeInit => GroupInv
  BY WorkgroupInit DEF ComputeInit, GroupInv
<1>2. ASSUME GroupInv, [ComputeNext]_standaloneVars PROVE GroupInv'
  <2>1. CASE WorkgroupNext
    BY <1>2, <2>1, WorkgroupStep DEF GroupInv, WorkgroupNext
  <2>2. CASE UploadNext \/ DeviceNext \/ ShapeNext
    BY <2>2 DEF GroupInv, UploadNext, DeviceNext, ShapeNext
  <2>3. CASE UNCHANGED standaloneVars
    <3>1. /\ kernel' = kernel /\ pc' = pc /\ half' = half /\ round' = round /\ cell' = cell
          /\ got' = got /\ touched' = touched
      BY <2>3 DEF standaloneVars, workgroupVars
    <3>2. WorkgroupInv => WorkgroupInv'
      BY <3>1, StutterKeeps DEF workgroupVars
    <3> QED
      BY <2>3, <3>2, <1>2 DEF GroupInv, standaloneVars
  <2> QED
    BY <1>2, <2>1, <2>2, <2>3 DEF ComputeNext
<1>3. GroupInv => ReductionsAreSafe
  BY StretchIsSafe DEF GroupInv, WorkgroupInv, ReductionsAreSafe
<1> QED
  BY <1>1, <1>2, <1>3, PTL DEF ComputeSpec

-----------------------------------------------------------------------------
(* The packing plan.  It and the sum of its sizes are functions defined by *)
(* recursion over a list: what they are at each place follows from there   *)
(* being such a function, by induction over its domain.                    *)

LEMMA LeastOf ==
    ASSUME NEW R, NEW T, \A x \in Nat, y \in Nat : y < x => <<y, x>> \in R,
           T \subseteq Nat, \E x \in T : \A y \in T : ~(<<y, x>> \in R)
    PROVE \E x \in T : \A y \in T : x <= y
<1>1. PICK x \in T : \A y \in T : ~(<<y, x>> \in R)
  OBVIOUS
<1>2. ASSUME NEW y \in T PROVE x <= y
  <2>1. x \in Nat /\ y \in Nat /\ ~(y < x)
    BY <1>1
  <2> QED
    BY <2>1
<1> QED
  BY <1>2

\* A set of numbers that holds none but such as have their predecessor in it is empty.
LEMMA LeastNumber ==
    ASSUME NEW T, T \subseteq Nat, 0 \notin T, \A n \in T : n - 1 \in T PROVE T = {}
<1> SUFFICES ASSUME T # {} PROVE FALSE
  OBVIOUS
<1> DEFINE R == OpToRel(<, Nat)
<1>1. IsWellFoundedOn(R, Nat)
  BY NatLessThanWellFounded
<1>2. \A x \in Nat, y \in Nat : y < x => <<y, x>> \in R
  BY DEF OpToRel
<1> HIDE DEF R
<1>3. \E x \in T : \A y \in T : ~(<<y, x>> \in R)
  BY <1>1, WFMin
<1>4. PICK x \in T : \A y \in T : x <= y
  BY <1>2, <1>3, LeastOf
<1>5. x \in Nat /\ x - 1 \in T /\ x <= x - 1
  BY <1>4
<1> QED
  BY <1>5

NoPlan == [sizes |-> <<0>>, handles |-> <<>>]
IsPacked(g, f, n) == g = [i \in 0..n |-> IF i = 0 THEN NoPlan ELSE Upload!Pack(g[i - 1], f[i])]

LEMMA PackedExists == ASSUME NEW f, NEW n \in Nat PROVE \E g : IsPacked(g, f, n)
<1> DEFINE T == {m \in Nat : ~\E g : IsPacked(g, f, m)}
<1>1. 0 \notin T
  <2> DEFINE g == [i \in 0..0 |-> NoPlan]
  <2>1. IsPacked(g, f, 0)
    BY DEF IsPacked
  <2> QED
    BY <2>1
<1>2. ASSUME NEW m \in T PROVE m - 1 \in T
  <2>1. m \in Nat /\ m # 0
    BY <1>1
  <2> SUFFICES ASSUME NEW g, IsPacked(g, f, m - 1) PROVE FALSE
    BY <2>1
  <2> DEFINE h == [i \in 0..m |-> IF i = m THEN Upload!Pack(g[m - 1], f[m]) ELSE g[i]]
             k == [i \in 0..m |-> IF i = 0 THEN NoPlan ELSE Upload!Pack(h[i - 1], f[i])]
  <2>2. g[0] = NoPlan /\ \A i \in 1..(m - 1) : g[i] = Upload!Pack(g[i - 1], f[i])
    BY <2>1 DEF IsPacked
  <2>3. \A i \in 0..m : h[i] = k[i]
    BY <2>1, <2>2
  <2>4. IsPacked(h, f, m)
    BY <2>3 DEF IsPacked
  <2> QED
    BY <2>4
<1> HIDE DEF T
<1>3. T = {}
  BY <1>1, <1>2, LeastNumber DEF T
<1> QED
  BY <1>3 DEF T

LEMMA PackedIs ==
    ASSUME NEW f, Len(f) \in Nat
    PROVE  /\ Upload!Packed(f)[0] = NoPlan
           /\ \A i \in 1..Len(f) : Upload!Packed(f)[i] = Upload!Pack(Upload!Packed(f)[i - 1], f[i])
<1> DEFINE g == CHOOSE g : IsPacked(g, f, Len(f))
<1>1. IsPacked(g, f, Len(f))
  BY PackedExists
<1>2. Upload!Packed(f) = g
  BY DEF Upload!Packed, IsPacked, NoPlan
<1> HIDE DEF g
<1> QED
  BY <1>1, <1>2 DEF IsPacked

SumUpTo(s, sizes, n) == s = [i \in 0..n |-> IF i = 0 THEN 0 ELSE s[i - 1] + sizes[i]]

LEMMA SumExists == ASSUME NEW sizes, NEW n \in Nat PROVE \E s : SumUpTo(s, sizes, n)
<1> DEFINE T == {m \in Nat : ~\E s : SumUpTo(s, sizes, m)}
<1>1. 0 \notin T
  <2> DEFINE s == [i \in 0..0 |-> 0]
  <2>1. SumUpTo(s, sizes, 0)
    BY DEF SumUpTo
  <2> QED
    BY <2>1
<1>2. ASSUME NEW m \in T PROVE m - 1 \in T
  <2>1. m \in Nat /\ m # 0
    BY <1>1
  <2> SUFFICES ASSUME NEW s, SumUpTo(s, sizes, m - 1) PROVE FALSE
    BY <2>1
  <2> DEFINE h == [i \in 0..m |-> IF i = m THEN s[m - 1] + sizes[m] ELSE s[i]]
             k == [i \in 0..m |-> IF i = 0 THEN 0 ELSE h[i - 1] + sizes[i]]
  <2>2. s[0] = 0 /\ \A i \in 1..(m - 1) : s[i] = s[i - 1] + sizes[i]
    BY <2>1 DEF SumUpTo
  <2>3. \A i \in 0..m : h[i] = k[i]
    BY <2>1, <2>2
  <2>4. SumUpTo(h, sizes, m)
    BY <2>3 DEF SumUpTo
  <2> QED
    BY <2>4
<1> HIDE DEF T
<1>3. T = {}
  BY <1>1, <1>2, LeastNumber DEF T
<1> QED
  BY <1>3 DEF T

\* What a total is made of.
LEMMA TotalIs ==
    ASSUME NEW sizes \in Seq(Nat)
    PROVE  \E s : /\ Upload!TotalOf(sizes) = s[Len(sizes)] /\ s[0] = 0
                  /\ \A i \in 1..Len(sizes) : s[i] = s[i - 1] + sizes[i]
<1> DEFINE s == CHOOSE s : SumUpTo(s, sizes, Len(sizes))
<1>0. Len(sizes) \in Nat
  OBVIOUS
<1>1. SumUpTo(s, sizes, Len(sizes))
  BY <1>0, SumExists
<1>2. Upload!TotalOf(sizes) = s[Len(sizes)]
  BY DEF Upload!TotalOf, SumUpTo
<1> HIDE DEF s
<1>3. s[0] = 0 /\ \A i \in 1..Len(sizes) : s[i] = s[i - 1] + sizes[i]
  BY <1>0, <1>1 DEF SumUpTo
<1> QED
  BY <1>2, <1>3

LEMMA SumsAgree ==
    ASSUME NEW n \in Nat, NEW s, NEW t, s[0] = t[0],
           \A i \in 1..n : s[i - 1] = t[i - 1] => s[i] = t[i]
    PROVE  s[n] = t[n]
<1> DEFINE T == {m \in 0..n : s[m] # t[m]}
<1>1. T \subseteq Nat /\ 0 \notin T
  OBVIOUS
<1>2. ASSUME NEW m \in T PROVE m - 1 \in T
  <2>1. m \in 1..n /\ s[m] # t[m] /\ m - 1 \in 0..n
    BY <1>1
  <2> QED
    BY <2>1
<1> HIDE DEF T
<1>3. T = {}
  BY <1>1, <1>2, LeastNumber
<1> QED
  BY <1>3 DEF T

LEMMA SumIsNat ==
    ASSUME NEW n \in Nat, NEW a, NEW s, \A i \in 1..n : a[i] \in Nat, s[0] = 0,
           \A i \in 1..n : s[i] = s[i - 1] + a[i]
    PROVE  \A i \in 0..n : s[i] \in Nat
<1> DEFINE T == {m \in 0..n : s[m] \notin Nat}
<1>1. T \subseteq Nat /\ 0 \notin T
  OBVIOUS
<1>2. ASSUME NEW m \in T PROVE m - 1 \in T
  <2>1. m \in 1..n /\ s[m] \notin Nat /\ m - 1 \in 0..n
    BY <1>1
  <2>2. s[m] = s[m - 1] + a[m] /\ a[m] \in Nat
    BY <2>1
  <2> QED
    BY <2>1, <2>2
<1> HIDE DEF T
<1>3. T = {}
  BY <1>1, <1>2, LeastNumber
<1> QED
  BY <1>3 DEF T

LEMMA TotalOfNone == Upload!TotalOf(<<0>>) = 0
<1>1. <<0>> \in Seq(Nat) /\ Len(<<0>>) = 1 /\ <<0>>[1] = 0
  OBVIOUS
<1>2. PICK s : /\ Upload!TotalOf(<<0>>) = s[1] /\ s[0] = 0
               /\ \A i \in 1..1 : s[i] = s[i - 1] + <<0>>[i]
  BY <1>1, TotalIs
<1>3. s[1] = s[0] + 0
  BY <1>1, <1>2
<1> QED
  BY <1>2, <1>3

LEMMA TotalOfMore ==
    ASSUME NEW sizes \in Seq(Nat), NEW x \in Nat
    PROVE  /\ Upload!TotalOf(Append(sizes, x)) = Upload!TotalOf(sizes) + x
           /\ Upload!TotalOf(sizes) \in Nat
<1> DEFINE n == Len(sizes)  more == Append(sizes, x)
<1>1. /\ n \in Nat /\ more \in Seq(Nat) /\ Len(more) = n + 1 /\ more[n + 1] = x
      /\ \A i \in 1..n : more[i] = sizes[i] /\ sizes[i] \in Nat
  OBVIOUS
<1>2. PICK s : /\ Upload!TotalOf(sizes) = s[n] /\ s[0] = 0
               /\ \A i \in 1..n : s[i] = s[i - 1] + sizes[i]
  BY TotalIs
<1> HIDE DEF more
<1>a. PICK t : /\ Upload!TotalOf(more) = t[Len(more)] /\ t[0] = 0
               /\ \A i \in 1..Len(more) : t[i] = t[i - 1] + more[i]
  BY <1>1, TotalIs
<1> HIDE DEF n
<1>3. /\ Upload!TotalOf(more) = t[n + 1] /\ t[0] = 0
      /\ \A i \in 1..(n + 1) : t[i] = t[i - 1] + more[i]
  BY <1>1, <1>a
<1>4. \A i \in 1..n : t[i] = t[i - 1] + more[i]
  BY <1>1, <1>3
<1>5. s[n] = t[n]
  <2>1. s[0] = t[0] /\ \A i \in 1..n : s[i - 1] = t[i - 1] => s[i] = t[i]
    BY <1>1, <1>2, <1>3, <1>4
  <2> QED
    BY <1>1, <2>1, SumsAgree
<1>6. t[n + 1] = t[n] + x
  BY <1>1, <1>3
<1>7. s[n] \in Nat
  <2>1. \A i \in 1..n : sizes[i] \in Nat
    BY <1>1
  <2>2. \A i \in 0..n : s[i] \in Nat
    BY <1>1, <1>2, <2>1, SumIsNat
  <2> QED
    BY <1>1, <2>2
<1> QED
  BY <1>2, <1>3, <1>5, <1>6, <1>7 DEF more

LEMMA TotalOfGrown ==
    ASSUME NEW sizes \in Seq(Nat), sizes # <<>>, NEW x \in Nat
    PROVE  Upload!TotalOf([sizes EXCEPT ![Len(sizes)] = x])
               = Upload!TotalOf(sizes) - sizes[Len(sizes)] + x
<1> DEFINE n == Len(sizes)  grown == [sizes EXCEPT ![n] = x]
<1>1. /\ n \in Nat \ {0} /\ grown \in Seq(Nat) /\ Len(grown) = n /\ grown[n] = x
      /\ \A i \in 1..(n - 1) : grown[i] = sizes[i]
      /\ \A i \in 1..n : sizes[i] \in Nat
  OBVIOUS
<1>2. PICK s : /\ Upload!TotalOf(sizes) = s[n] /\ s[0] = 0
               /\ \A i \in 1..n : s[i] = s[i - 1] + sizes[i]
  BY TotalIs
<1> HIDE DEF grown
<1>3. PICK t : /\ Upload!TotalOf(grown) = t[n] /\ t[0] = 0
               /\ \A i \in 1..n : t[i] = t[i - 1] + grown[i]
  BY <1>1, TotalIs
<1> HIDE DEF n
<1>4. PICK m \in Nat : n = m + 1
  BY <1>1
<1>5. s[m] = t[m]
  <2>1. s[0] = t[0] /\ \A i \in 1..m : s[i - 1] = t[i - 1] => s[i] = t[i]
    BY <1>1, <1>2, <1>3, <1>4
  <2> QED
    BY <2>1, SumsAgree
<1>6. s[n] = s[m] + sizes[n] /\ t[n] = t[m] + x
  BY <1>1, <1>2, <1>3, <1>4
<1>7. s[m] \in Nat /\ sizes[n] \in Nat
  <2>1. \A i \in 0..n : s[i] \in Nat
    BY <1>1, <1>2, SumIsNat
  <2> QED
    BY <1>1, <1>4, <2>1
<1>8. t[n] = s[n] - sizes[n] + x
  BY <1>5, <1>6, <1>7
<1> QED
  BY <1>2, <1>3, <1>8 DEF grown, n

-----------------------------------------------------------------------------
(* What a plan packs.                                                      *)

Tensor == [blocks : Nat, src : Nat, dst : Nat]
IsFile(f) == f \in Seq(Tensor) /\ \A i \in DOMAIN f : f[i].blocks > 0 /\ f[i].dst > 0
Even(f) == \A i \in DOMAIN f : Upload!Bytes(f[i]) % Align = 0

LEMMA FilesAre == ASSUME NEW f \in Files PROVE IsFile(f)
BY ComputeAssumption DEF IsFile, Tensor

LEMMA BytesAre ==
    ASSUME NEW f, IsFile(f), NEW i \in 1..Len(f)
    PROVE  Upload!Bytes(f[i]) \in Nat \ {0} /\ f[i] \in Tensor
<1>a. f[i] \in Tensor /\ f[i].blocks > 0 /\ f[i].dst > 0
  BY DEF IsFile
<1>1. f[i].blocks \in Nat \ {0} /\ f[i].dst \in Nat \ {0} /\ f[i] \in Tensor
  BY <1>a DEF Tensor
<1> DEFINE a == f[i].blocks  b == f[i].dst
<1>2. a * b \in Nat \ {0}
  <2> HIDE DEF a, b
  <2> SUFFICES ASSUME NEW x \in Nat \ {0}, NEW y \in Nat \ {0} PROVE x * y \in Nat \ {0}
    BY <1>1 DEF a, b
  <2> QED
    OBVIOUS
<1> QED
  BY <1>1, <1>2 DEF Upload!Bytes

LEMMA AlignedIs ==
    ASSUME NEW n \in Nat
    PROVE  /\ Upload!Aligned(n) \in Nat /\ Upload!Aligned(n) >= n /\ Upload!Aligned(n) % Align = 0
           /\ n = 0 => Upload!Aligned(n) = 0
           /\ n % Align = 0 => Upload!Aligned(n) = n
<1>1. PICK a \in Nat \ {0} : a = Align
  BY ComputeAssumption
<1> DEFINE up == n + a - 1  q == up \div a  r == up % a
<1>2. up \in Nat /\ up = a * q + r /\ r \in 0..(a - 1) /\ q \in Int
  OBVIOUS
<1>3. Upload!Aligned(n) = q * a
  BY <1>1 DEF Upload!Aligned
<1> HIDE DEF q, r
<1>4. q * a = up - r /\ q * a = a * q + 0
  BY <1>2
<1>5. q * a \in Nat /\ q * a >= n
  BY <1>2, <1>4
<1>6. (q * a) % a = 0
  <2>1. 0 \in 0..(a - 1) /\ a \in Nat \ {0} /\ q \in Int
    BY <1>2
  <2>2. (a * q + 0) % a = 0
    BY <2>1, Remainder
  <2> QED
    BY <1>4, <2>2
<1>7. ASSUME n % a = 0 PROVE q * a = n
  <2> DEFINE e == n \div a
  <2>1. e \in Int /\ n = a * e
    BY <1>7
  <2> HIDE DEF e
  <2>2. up = a * e + (a - 1)
    BY <2>1
  <2>3. (a * e + (a - 1)) \div a = e
    <3>1. a - 1 \in 0..(a - 1)
      OBVIOUS
    <3> QED
      BY <2>1, <3>1, Remainder
  <2>4. q = e
    BY <2>2, <2>3 DEF q
  <2> QED
    BY <2>1, <2>4
<1>8. n = 0 => n % a = 0
  OBVIOUS
<1> QED
  BY <1>1, <1>3, <1>5, <1>6, <1>7, <1>8

\* After n tensors.
Room == [buffer : Nat, base : Nat]
PlanOk(p, f, n) ==
    /\ p.sizes \in Seq(Nat) /\ p.sizes # <<>> /\ p.handles \in Seq(Room) /\ Len(p.handles) = n
    /\ \A b \in 1..Len(p.sizes) : p.sizes[b] <= Target
    /\ \A i \in 1..n : /\ p.handles[i].buffer \in 1..Len(p.sizes) /\ p.handles[i].base % Align = 0
                       /\ p.handles[i].base + Upload!Bytes(f[i]) <= p.sizes[p.handles[i].buffer]
    /\ \A i, j \in 1..n : i < j /\ p.handles[i].buffer = p.handles[j].buffer
                          => p.handles[i].base + Upload!Bytes(f[i]) <= p.handles[j].base
    /\ \A b \in 1..Len(p.sizes) :
           p.sizes[b] # 0 => \E i \in 1..n : p.handles[i].buffer = b /\ p.handles[i].base = 0
    /\ Even(f) => p.sizes[Len(p.sizes)] % Align = 0

LEMMA NoPlanOk == ASSUME NEW f PROVE PlanOk(NoPlan, f, 0)
<1>1. /\ <<0>> \in Seq(Nat) /\ <<0>> # <<>> /\ Len(<<0>>) = 1 /\ <<0>>[1] = 0
      /\ <<>> \in Seq(Room) /\ Len(<<>>) = 0
  OBVIOUS
<1>2. Target >= 0 /\ 0 % Align = 0
  BY ComputeAssumption
<1> QED
  BY <1>1, <1>2 DEF PlanOk, NoPlan

LEMMA PackOk ==
    ASSUME NEW f, IsFile(f), Upload!Planned(f), NEW n \in 1..Len(f), NEW p, PlanOk(p, f, n - 1)
    PROVE  /\ PlanOk(Upload!Pack(p, f[n]), f, n)
           /\ Even(f) => Upload!TotalOf(Upload!Pack(p, f[n]).sizes)
                             = Upload!TotalOf(p.sizes) + Upload!Bytes(f[n])
<1> DEFINE size == Upload!Bytes(f[n])  m == Len(p.sizes)  cur == p.sizes[m]
           start == Upload!Aligned(cur)  q == Upload!Pack(p, f[n])
<1>1. /\ size \in Nat \ {0} /\ size <= Target
      /\ Even(f) => size % Align = 0
  <2>1. size \in Nat \ {0}
    BY BytesAre
  <2>2. n \in DOMAIN f
    BY DEF IsFile
  <2> QED
    BY <2>1, <2>2 DEF Upload!Planned, Even
<1>2. /\ p.sizes \in Seq(Nat) /\ m \in Nat \ {0} /\ cur \in Nat
      /\ p.handles \in Seq(Room) /\ Len(p.handles) = n - 1
  BY DEF PlanOk
<1>3. /\ start \in Nat /\ start >= cur /\ start % Align = 0 /\ (cur = 0 => start = 0)
      /\ (cur % Align = 0 => start = cur)
  BY <1>2, AlignedIs
<1>a. \A b \in 1..m : p.sizes[b] \in Nat /\ p.sizes[b] <= Target
  BY <1>2 DEF PlanOk
<1>b. \A i \in 1..(n - 1) :
          /\ p.handles[i].buffer \in 1..m /\ p.handles[i].base % Align = 0 /\ p.handles[i].base \in Nat
          /\ p.handles[i].base + Upload!Bytes(f[i]) <= p.sizes[p.handles[i].buffer]
  <2>1. \A i \in 1..(n - 1) : p.handles[i] \in Room
    BY <1>2
  <2> QED
    BY <1>2, <2>1 DEF PlanOk, Room
<1>c. \A i, j \in 1..(n - 1) : i < j /\ p.handles[i].buffer = p.handles[j].buffer
                               => p.handles[i].base + Upload!Bytes(f[i]) <= p.handles[j].base
  BY DEF PlanOk
<1>d. \A b \in 1..m : p.sizes[b] # 0
             => \E i \in 1..(n - 1) : p.handles[i].buffer = b /\ p.handles[i].base = 0
  BY DEF PlanOk
<1>e. Even(f) => cur % Align = 0
  BY DEF PlanOk
<1>5. \A i \in 1..(n - 1) : Upload!Bytes(f[i]) \in Nat
  <2>1. \A i \in 1..(n - 1) : i \in 1..Len(f)
    BY DEF IsFile
  <2> QED
    BY <2>1, BytesAre
<1> HIDE DEF size, cur, start
<1>6. CASE start + size > Target
  <2> DEFINE room == [buffer |-> m + 1, base |-> 0]
  <2>1. q = [sizes |-> Append(p.sizes, size), handles |-> Append(p.handles, room)]
    BY <1>6 DEF Upload!Pack, size, cur, start
  <2>2. /\ q.sizes = Append(p.sizes, size) /\ q.handles = Append(p.handles, room)
    BY <2>1
  <2> HIDE DEF q
  <2>3. /\ q.sizes \in Seq(Nat) /\ Len(q.sizes) = m + 1 /\ q.sizes[m + 1] = size
        /\ \A b \in 1..m : q.sizes[b] = p.sizes[b]
    BY <1>1, <1>2, <2>2
  <2>4. /\ q.handles \in Seq(Room) /\ Len(q.handles) = n /\ q.handles[n] = room
        /\ \A i \in 1..(n - 1) : q.handles[i] = p.handles[i]
    <3>1. room \in Room
      BY <1>2 DEF Room
    <3> QED
      BY <1>2, <2>2, <3>1
  <2>5. room.buffer = m + 1 /\ room.base = 0 /\ 0 % Align = 0
    BY ComputeAssumption
  <2> HIDE DEF room
  <2>6. ASSUME NEW b \in 1..(m + 1) PROVE q.sizes[b] <= Target
    <3>1. CASE b = m + 1
      BY <1>1, <2>3, <3>1
    <3>2. CASE b # m + 1
      <4>1. b \in 1..m
        BY <1>2, <3>2
      <4> QED
        BY <1>a, <2>3, <4>1
    <3> QED
      BY <3>1, <3>2
  <2>7. ASSUME NEW i \in 1..n
        PROVE  /\ q.handles[i].buffer \in 1..(m + 1) /\ q.handles[i].base % Align = 0
               /\ q.handles[i].base + Upload!Bytes(f[i]) <= q.sizes[q.handles[i].buffer]
    <3>1. CASE i = n
      <4>1. q.handles[i].buffer = m + 1 /\ q.handles[i].base = 0 /\ Upload!Bytes(f[i]) = size
        BY <2>4, <2>5, <3>1 DEF size
      <4> QED
        BY <1>1, <1>2, <2>3, <2>5, <4>1
    <3>2. CASE i # n
      <4>1. i \in 1..(n - 1)
        BY <3>2
      <4>2. PICK b \in 1..m : b = p.handles[i].buffer
        BY <1>b, <4>1
      <4>3. /\ p.handles[i].base % Align = 0
            /\ p.handles[i].base + Upload!Bytes(f[i]) <= p.sizes[b]
        BY <1>b, <4>1, <4>2
      <4>4. b \in 1..(m + 1) /\ q.sizes[b] = p.sizes[b] /\ q.handles[i] = p.handles[i]
        BY <1>2, <2>3, <2>4, <4>1
      <4> QED
        BY <4>2, <4>3, <4>4
    <3> QED
      BY <3>1, <3>2
  <2>8. ASSUME NEW i \in 1..n, NEW j \in 1..n, i < j, q.handles[i].buffer = q.handles[j].buffer
        PROVE  q.handles[i].base + Upload!Bytes(f[i]) <= q.handles[j].base
    <3>0. i \in 1..(n - 1)
      BY <2>8
    <3>1. CASE j = n
      <4>1. p.handles[i].buffer = m + 1
        BY <2>4, <2>5, <2>8, <3>0, <3>1
      <4>2. p.handles[i].buffer \in 1..m
        BY <1>b, <3>0
      <4> QED
        BY <1>2, <4>1, <4>2
    <3>2. CASE j # n
      <4>1. j \in 1..(n - 1)
        BY <3>2
      <4> QED
        BY <1>c, <2>4, <2>8, <3>0, <4>1
    <3> QED
      BY <3>1, <3>2
  <2>9. ASSUME NEW b \in 1..(m + 1), q.sizes[b] # 0
        PROVE  \E i \in 1..n : q.handles[i].buffer = b /\ q.handles[i].base = 0
    <3>1. CASE b = m + 1
      BY <2>4, <2>5, <3>1
    <3>2. CASE b # m + 1
      <4>1. b \in 1..m
        BY <1>2, <3>2
      <4>2. PICK i \in 1..(n - 1) : p.handles[i].buffer = b /\ p.handles[i].base = 0
        BY <1>d, <2>3, <2>9, <4>1
      <4> QED
        BY <2>4, <4>2
    <3> QED
      BY <3>1, <3>2
  <2>10. Even(f) => q.sizes[m + 1] % Align = 0
    BY <1>1, <2>3
  <2>11. q.sizes # <<>>
    BY <1>2, <2>3
  <2>12. PlanOk(q, f, n)
    BY <2>3, <2>4, <2>6, <2>7, <2>8, <2>9, <2>10, <2>11 DEF PlanOk
  <2>13. Upload!TotalOf(q.sizes) = Upload!TotalOf(p.sizes) + size
    BY <1>1, <1>2, <2>2, TotalOfMore
  <2> QED
    BY <2>12, <2>13 DEF q, size
<1>7. CASE ~(start + size > Target)
  <2> DEFINE room == [buffer |-> m, base |-> start]
  <2>1. q = [sizes |-> [p.sizes EXCEPT ![m] = start + size], handles |-> Append(p.handles, room)]
    BY <1>7 DEF Upload!Pack, size, cur, start
  <2>2. /\ q.sizes = [p.sizes EXCEPT ![m] = start + size] /\ q.handles = Append(p.handles, room)
    BY <2>1
  <2> HIDE DEF q
  <2>a. start + size \in Nat /\ start + size <= Target
    BY <1>1, <1>3, <1>7, ComputeAssumption
  <2>3. /\ q.sizes \in Seq(Nat) /\ Len(q.sizes) = m /\ q.sizes[m] = start + size
        /\ \A b \in 1..m : b # m => q.sizes[b] = p.sizes[b]
    BY <1>2, <2>2, <2>a
  <2>4. /\ q.handles \in Seq(Room) /\ Len(q.handles) = n /\ q.handles[n] = room
        /\ \A i \in 1..(n - 1) : q.handles[i] = p.handles[i]
    <3>1. room \in Room
      BY <1>2, <1>3 DEF Room
    <3> QED
      BY <1>2, <2>2, <3>1
  <2>5. room.buffer = m /\ room.base = start
    OBVIOUS
  <2> HIDE DEF room
  <2>6. ASSUME NEW b \in 1..m PROVE q.sizes[b] <= Target /\ q.sizes[b] >= p.sizes[b] /\ q.sizes[b] \in Nat
    <3>1. CASE b = m
      <4>1. q.sizes[b] = start + size /\ p.sizes[b] = cur
        BY <2>3, <3>1 DEF cur
      <4> QED
        BY <1>1, <1>2, <1>3, <2>a, <4>1
    <3>2. CASE b # m
      BY <1>a, <2>3, <3>2
    <3> QED
      BY <3>1, <3>2
  <2>7. ASSUME NEW i \in 1..n
        PROVE  /\ q.handles[i].buffer \in 1..m /\ q.handles[i].base % Align = 0
               /\ q.handles[i].base + Upload!Bytes(f[i]) <= q.sizes[q.handles[i].buffer]
    <3>1. CASE i = n
      <4>1. q.handles[i].buffer = m /\ q.handles[i].base = start /\ Upload!Bytes(f[i]) = size
        BY <2>4, <2>5, <3>1 DEF size
      <4> QED
        BY <1>1, <1>2, <1>3, <2>3, <2>a, <4>1
    <3>2. CASE i # n
      <4>1. i \in 1..(n - 1)
        BY <3>2
      <4>2. PICK b \in 1..m : b = p.handles[i].buffer
        BY <1>b, <4>1
      <4>3. /\ p.handles[i].base \in Nat /\ Upload!Bytes(f[i]) \in Nat
            /\ p.handles[i].base + Upload!Bytes(f[i]) <= p.sizes[b]
        BY <1>b, <1>5, <4>1, <4>2
      <4>a. p.sizes[b] \in Nat /\ q.sizes[b] \in Nat /\ p.sizes[b] <= q.sizes[b]
        BY <1>a, <2>6
      <4>4. p.handles[i].base + Upload!Bytes(f[i]) <= q.sizes[b]
        BY <4>3, <4>a
      <4> QED
        BY <1>b, <2>4, <4>1, <4>2, <4>4
    <3> QED
      BY <3>1, <3>2
  <2>8. ASSUME NEW i \in 1..n, NEW j \in 1..n, i < j, q.handles[i].buffer = q.handles[j].buffer
        PROVE  q.handles[i].base + Upload!Bytes(f[i]) <= q.handles[j].base
    <3>0. i \in 1..(n - 1)
      BY <2>8
    <3>1. CASE j = n
      <4>1. p.handles[i].buffer = m /\ q.handles[j].base = start
        BY <2>4, <2>5, <2>8, <3>0, <3>1
      <4>2. p.handles[i].base \in Nat /\ p.handles[i].base + Upload!Bytes(f[i]) <= cur
        BY <1>b, <3>0, <4>1 DEF cur
      <4>3. q.handles[i] = p.handles[i] /\ Upload!Bytes(f[i]) \in Nat
        BY <1>5, <2>4, <3>0
      <4>4. p.handles[i].base + Upload!Bytes(f[i]) <= start
        BY <1>2, <1>3, <4>2, <4>3
      <4> QED
        BY <4>1, <4>3, <4>4
    <3>2. CASE j # n
      <4>1. j \in 1..(n - 1)
        BY <3>2
      <4> QED
        BY <1>c, <2>4, <2>8, <3>0, <4>1
    <3> QED
      BY <3>1, <3>2
  <2>9. ASSUME NEW b \in 1..m, q.sizes[b] # 0
        PROVE  \E i \in 1..n : q.handles[i].buffer = b /\ q.handles[i].base = 0
    <3>1. CASE b = m /\ cur = 0
      BY <1>3, <2>4, <2>5, <3>1
    <3>2. CASE ~(b = m /\ cur = 0)
      <4>1. p.sizes[b] # 0
        BY <2>3, <2>9, <3>2 DEF cur
      <4>2. PICK i \in 1..(n - 1) : p.handles[i].buffer = b /\ p.handles[i].base = 0
        BY <1>d, <4>1
      <4> QED
        BY <2>4, <4>2
    <3> QED
      BY <3>1, <3>2
  <2>10. Even(f) => q.sizes[m] % Align = 0 /\ start = cur
    <3>1. ASSUME Even(f) PROVE (start + size) % Align = 0
      <4>1. PICK a \in Nat \ {0} : a = Align
        BY ComputeAssumption
      <4>2. start % a = 0 /\ size % a = 0
        BY <1>1, <1>3, <3>1, <4>1
      <4> DEFINE x == start \div a  y == size \div a
      <4>3. x \in Int /\ y \in Int /\ start = a * x /\ size = a * y
        BY <1>1, <1>3, <4>2
      <4> HIDE DEF x, y
      <4>4. start + size = a * (x + y) + 0 /\ x + y \in Int /\ 0 \in 0..(a - 1)
        BY <4>3
      <4>5. (a * (x + y) + 0) % a = 0
        BY <4>4, Remainder
      <4> QED
        BY <4>1, <4>4, <4>5
    <3> QED
      BY <1>3, <1>e, <2>3, <3>1
  <2>11. q.sizes # <<>>
    BY <1>2, <2>3
  <2>12. PlanOk(q, f, n)
    BY <2>3, <2>4, <2>6, <2>7, <2>8, <2>9, <2>10, <2>11 DEF PlanOk
  <2>13. Even(f) => Upload!TotalOf(q.sizes) = Upload!TotalOf(p.sizes) + size
    <3>1. p.sizes # <<>>
      BY <1>2
    <3>2. Upload!TotalOf(q.sizes) = Upload!TotalOf(p.sizes) - cur + (start + size)
      BY <1>2, <2>2, <2>a, <3>1, TotalOfGrown DEF cur
    <3>3. Upload!TotalOf(p.sizes) \in Nat
      BY <1>1, <1>2, TotalOfMore
    <3> QED
      BY <1>1, <1>2, <1>3, <2>10, <3>2, <3>3
  <2> QED
    BY <2>12, <2>13 DEF q, size
<1> QED
  BY <1>6, <1>7

LEMMA PackedOk ==
    ASSUME NEW f, IsFile(f), Upload!Planned(f)
    PROVE  /\ \A n \in 0..Len(f) : PlanOk(Upload!Packed(f)[n], f, n)
           /\ Upload!TotalOf(Upload!Packed(f)[0].sizes) = 0
           /\ Even(f) => \A n \in 1..Len(f) :
                  Upload!TotalOf(Upload!Packed(f)[n].sizes)
                      = Upload!TotalOf(Upload!Packed(f)[n - 1].sizes) + Upload!Bytes(f[n])
<1> DEFINE P(n) == Upload!Packed(f)[n]
           T == {n \in 0..Len(f) : ~PlanOk(P(n), f, n)}
<1>0. Len(f) \in Nat
  BY DEF IsFile
<1>1. P(0) = NoPlan /\ \A n \in 1..Len(f) : P(n) = Upload!Pack(P(n - 1), f[n])
  BY <1>0, PackedIs
<1> HIDE DEF P
<1>2. T \subseteq Nat /\ 0 \notin T
  BY <1>1, NoPlanOk
<1>3. ASSUME NEW n \in T PROVE n - 1 \in T
  <2>1. n \in 1..Len(f) /\ n - 1 \in 0..Len(f) /\ ~PlanOk(P(n), f, n)
    BY <1>0, <1>2
  <2>2. ASSUME PlanOk(P(n - 1), f, n - 1) PROVE PlanOk(P(n), f, n)
    <3>1. PlanOk(Upload!Pack(P(n - 1), f[n]), f, n)
      BY <2>1, <2>2, PackOk
    <3> QED
      BY <1>1, <2>1, <3>1
  <2> QED
    BY <2>1, <2>2
<1>4. T = {}
  <2> HIDE DEF T
  <2> QED
    BY <1>2, <1>3, LeastNumber
<1>5. \A n \in 0..Len(f) : PlanOk(P(n), f, n)
  BY <1>4
<1>6. ASSUME NEW n \in 1..Len(f), Even(f)
      PROVE  Upload!TotalOf(P(n).sizes) = Upload!TotalOf(P(n - 1).sizes) + Upload!Bytes(f[n])
  <2>1. PlanOk(P(n - 1), f, n - 1)
    BY <1>0, <1>5
  <2>2. Upload!TotalOf(Upload!Pack(P(n - 1), f[n]).sizes)
            = Upload!TotalOf(P(n - 1).sizes) + Upload!Bytes(f[n])
    BY <1>6, <2>1, PackOk
  <2> QED
    BY <1>1, <2>2
<1>7. Upload!TotalOf(P(0).sizes) = 0
  BY <1>1, TotalOfNone DEF NoPlan
<1> QED
  BY <1>5, <1>6, <1>7 DEF P

-----------------------------------------------------------------------------
(* The upload.  What is kept of the writes lies behind what is still to be *)
(* sent, in its own buffer, and a handle's cells end where the next one's  *)
(* of that buffer begin: so no write spoils what was sent or sampled.      *)

Count == Len(file)
Buffers == Len(Upload!Plan(file).sizes)
Buf(i) == Upload!Handle(i).buffer
Base(i) == Upload!Handle(i).base
Size(b) == Upload!Plan(file).sizes[b]
Bytes(i) == Upload!Bytes(file[i])

\* Cells of a tensor sent so far.
Sent(i) == IF i < tensor THEN Bytes(i) ELSE IF i = tensor THEN block * file[i].dst ELSE 0

UploadTypes ==
    /\ file \in Files /\ Upload!Planned(file) /\ streamed \in BOOLEAN /\ dropped \in BOOLEAN
    /\ tensor \in Nat \ {0} /\ block \in Nat
    /\ DOMAIN resident = 1..Buffers /\ DOMAIN kept = 1..Buffers
    /\ \A b \in 1..Buffers : DOMAIN resident[b] = 0..(Size(b) - 1)

\* A sampled span begins in the buffer, with what no new buffer holds.
IsSpan(s, b) ==
    /\ s.at \in 0..(Size(b) - 1) /\ 0 \in DOMAIN s.data /\ DOMAIN s.data \subseteq Nat
    /\ s.data[0] # Upload!Zero

\* It ends before what is still to be sent.
IsBehind(s, b) ==
    \A c \in DOMAIN s.data : \A i \in tensor..Count : Buf(i) = b => s.at + c < Base(i) + Sent(i)

Cursor ==
    /\ tensor <= Count + 1
    /\ IF tensor <= Count THEN block < file[tensor].blocks ELSE block = 0
Heads == \A i \in 1..Count : Sent(i) > 0 => kept[Buf(i)]["head"] # <<>>
Spans ==
    \A b \in 1..Buffers : \A which \in {"head", "tail"} :
        kept[b][which] # <<>> => IsSpan(kept[b][which][1], b) /\ IsBehind(kept[b][which][1], b)
SentIsThere ==
    \A i \in 1..Count : \A c \in 0..(Sent(i) - 1) :
        resident[Buf(i)][Base(i) + c] = Upload!Encoded(i, 0, file[i].blocks)[c]
Counted ==
    done = Upload!TotalOf(Upload!Packed(file)[tensor - 1].sizes)
               + (IF tensor <= Count THEN block * file[tensor].dst ELSE 0)

Streaming ==
    /\ Cursor /\ Heads /\ Spans
    /\ ~dropped => SentIsThere /\ \A b \in 1..Buffers : Upload!ReadsBack(b)
    /\ Even(file) => Counted

Keep(b) == IF Size(b) < Sample THEN Size(b) ELSE Sample
Sampled(b) == [head |-> <<Upload!Span(b, 0, Upload!View(b), 0, Keep(b))>>,
               tail |-> <<Upload!Span(b, 0, Upload!View(b), Size(b) - Keep(b), Keep(b))>>]
Mapping ==
    /\ tensor <= Buffers + 1
    /\ \A b \in 1..Buffers : kept[b] = IF b < tensor THEN Sampled(b) ELSE Upload!Unsampled
    /\ ~dropped => \A b \in 1..Buffers : b < tensor => resident[b] = Upload!View(b)

Outcome ==
    /\ status = "ok" => /\ tensor > (IF streamed THEN Count ELSE Buffers)
                        /\ \A b \in 1..Buffers : Upload!ReadsBack(b)
    /\ Even(file) => Upload!HonestUploadLoads

UploadInv ==
    /\ UploadTypes /\ Outcome
    /\ IF streamed THEN Streaming ELSE Mapping

\* What the plan of the file promises.
PlanFacts ==
    /\ Count \in Nat /\ Buffers \in Nat \ {0}
    /\ \A b \in 1..Buffers : Size(b) \in Nat /\ Size(b) <= Target
    /\ \A i \in 1..Count : /\ Buf(i) \in 1..Buffers /\ Base(i) \in Nat /\ Base(i) % Align = 0
                           /\ Bytes(i) \in Nat \ {0} /\ Base(i) + Bytes(i) <= Size(Buf(i))
    /\ \A i, j \in 1..Count : i < j /\ Buf(i) = Buf(j) => Base(i) + Bytes(i) <= Base(j)
    /\ \A b \in 1..Buffers : Size(b) # 0 => \E i \in 1..Count : Buf(i) = b /\ Base(i) = 0
    /\ \A i \in 1..Count : /\ file[i].blocks \in Nat \ {0} /\ file[i].dst \in Nat \ {0}
                           /\ Bytes(i) = file[i].blocks * file[i].dst
    /\ DOMAIN file = 1..Count /\ DOMAIN Upload!Plan(file).sizes = 1..Buffers

LEMMA PlanHolds == ASSUME file \in Files, Upload!Planned(file) PROVE PlanFacts
<1> DEFINE p == Upload!Packed(file)[Len(file)]
<1>1. IsFile(file) /\ Len(file) \in Nat
  BY FilesAre DEF IsFile
<1>2. PlanOk(p, file, Len(file)) /\ Upload!Plan(file) = p
  <2>1. Len(file) \in 0..Len(file)
    BY <1>1
  <2> QED
    BY <1>1, <2>1, PackedOk DEF Upload!Plan
<1> HIDE DEF p
<1>3. /\ \A i : Buf(i) = p.handles[i].buffer /\ Base(i) = p.handles[i].base
      /\ \A b : Size(b) = p.sizes[b]
      /\ \A i : Bytes(i) = Upload!Bytes(file[i])
      /\ Buffers = Len(p.sizes) /\ Count = Len(file)
  BY <1>2 DEF Buf, Base, Size, Bytes, Buffers, Count, Upload!Handle
<1>4. Count \in Nat /\ Buffers \in Nat \ {0} /\ DOMAIN file = 1..Count
      /\ DOMAIN Upload!Plan(file).sizes = 1..Buffers
  BY <1>1, <1>2, <1>3 DEF PlanOk, IsFile
<1>5. ASSUME NEW b \in 1..Buffers PROVE Size(b) \in Nat /\ Size(b) <= Target
  BY <1>2, <1>3 DEF PlanOk
<1>6. ASSUME NEW i \in 1..Count
      PROVE  /\ Buf(i) \in 1..Buffers /\ Base(i) \in Nat /\ Base(i) % Align = 0
             /\ Bytes(i) \in Nat \ {0} /\ Base(i) + Bytes(i) <= Size(Buf(i))
  <2>1. p.handles[i] \in Room
    BY <1>2, <1>3 DEF PlanOk
  <2>2. Bytes(i) \in Nat \ {0}
    BY <1>1, <1>3, BytesAre
  <2>3. /\ p.handles[i].buffer \in 1..Len(p.sizes) /\ p.handles[i].base % Align = 0
        /\ p.handles[i].base + Upload!Bytes(file[i]) <= p.sizes[p.handles[i].buffer]
    BY <1>2, <1>3 DEF PlanOk
  <2> QED
    BY <1>3, <2>1, <2>2, <2>3 DEF Room
<1>7. ASSUME NEW i \in 1..Count, NEW j \in 1..Count, i < j, Buf(i) = Buf(j)
      PROVE  Base(i) + Bytes(i) <= Base(j)
  <2>1. \A x, y \in 1..Len(file) : x < y /\ p.handles[x].buffer = p.handles[y].buffer
            => p.handles[x].base + Upload!Bytes(file[x]) <= p.handles[y].base
    BY <1>2 DEF PlanOk
  <2> QED
    BY <1>3, <1>7, <2>1
<1>8. ASSUME NEW b \in 1..Buffers, Size(b) # 0
      PROVE  \E i \in 1..Count : Buf(i) = b /\ Base(i) = 0
  <2>1. \A c \in 1..Len(p.sizes) : p.sizes[c] # 0
            => \E i \in 1..Len(file) : p.handles[i].buffer = c /\ p.handles[i].base = 0
    BY <1>2 DEF PlanOk
  <2> QED
    BY <1>3, <1>8, <2>1
<1>9. ASSUME NEW i \in 1..Count
      PROVE  /\ file[i].blocks \in Nat \ {0} /\ file[i].dst \in Nat \ {0}
             /\ Bytes(i) = file[i].blocks * file[i].dst
  <2>1. file[i] \in Tensor /\ i \in DOMAIN file
    BY <1>1, <1>3, <1>4, BytesAre
  <2>2. file[i].blocks > 0 /\ file[i].dst > 0
    BY <1>1, <2>1 DEF IsFile
  <2> QED
    BY <2>1, <2>2 DEF Tensor, Bytes, Upload!Bytes
<1> QED
  BY <1>4, <1>5, <1>6, <1>7, <1>8, <1>9 DEF PlanFacts

\* The view of a buffer, of any file.
HereOf(f, b, c) ==
    {i \in DOMAIN f : /\ Upload!Plan(f).handles[i].buffer = b
                      /\ c - Upload!Plan(f).handles[i].base \in 0..(Upload!Bytes(f[i]) - 1)}
ViewOf(f, b) ==
    [c \in 0..(Upload!Plan(f).sizes[b] - 1) |->
        IF HereOf(f, b, c) = {} THEN <<0, 0, 0>>
        ELSE LET i == CHOOSE i \in HereOf(f, b, c) : TRUE
             IN  [e \in 0..(f[i].blocks * f[i].dst - 1) |-> <<i, 0 + e \div f[i].dst, e % f[i].dst>>]
                     [c - Upload!Plan(f).handles[i].base]]

LEMMA SameFile ==
    ASSUME file' = file
    PROVE  /\ Count' = Count /\ Buffers' = Buffers
           /\ \A i : /\ Buf(i)' = Buf(i) /\ Base(i)' = Base(i) /\ Bytes(i)' = Bytes(i)
                     /\ Upload!Encoded(i, 0, file[i].blocks)' = Upload!Encoded(i, 0, file[i].blocks)
           /\ \A b : Size(b)' = Size(b) /\ Upload!View(b)' = Upload!View(b)
<1>1. Upload!Plan(file)' = Upload!Plan(file)
  OBVIOUS
<1>2. \A i : Upload!Handle(i)' = Upload!Handle(i)
  BY DEF Upload!Handle
<1>3. Count' = Count /\ Buffers' = Buffers /\ \A b : Size(b)' = Size(b)
  BY DEF Count, Buffers, Size
<1>4. \A i : /\ Buf(i)' = Buf(i) /\ Base(i)' = Base(i) /\ Bytes(i)' = Bytes(i)
             /\ Upload!Encoded(i, 0, file[i].blocks)' = Upload!Encoded(i, 0, file[i].blocks)
  BY <1>2 DEF Buf, Base, Bytes, Upload!Encoded
<1>5. ASSUME NEW b PROVE Upload!View(b)' = Upload!View(b)
  <2>1. Upload!View(b) = ViewOf(file, b)
    BY DEF Upload!View, Upload!Here, Upload!Handle, Upload!Encoded, Upload!Zero,
           ViewOf, HereOf
  <2>2. Upload!View(b)' = ViewOf(file, b)'
    BY DEF Upload!View, Upload!Here, Upload!Handle, Upload!Encoded, Upload!Zero,
           ViewOf, HereOf
  <2>3. ViewOf(file, b)' = ViewOf(file, b)
    OBVIOUS
  <2> QED
    BY <2>1, <2>2, <2>3
<1> QED
  BY <1>3, <1>4, <1>5

\* Blocks make cells.
LEMMA Portion ==
    ASSUME NEW a \in Nat, NEW n \in Nat, NEW k \in Nat, NEW d \in Nat \ {0}
    PROVE  /\ a * d \in Nat /\ n * d \in Nat /\ (a + n) * d = a * d + n * d
           /\ a + n <= k => a * d + n * d <= k * d
           /\ n > 0 => n * d > 0
<1>1. a * d \in Nat /\ n * d \in Nat /\ k * d \in Nat
  OBVIOUS
<1>2. (a + n) * d = a * d + n * d
  OBVIOUS
<1>3. ASSUME a + n <= k PROVE a * d + n * d <= k * d
  <2>1. PICK e \in Nat : k = (a + n) + e
    <3>1. k - (a + n) \in Nat
      BY <1>3
    <3> QED
      BY <3>1
  <2>2. ((a + n) + e) * d = (a + n) * d + e * d /\ e * d \in Nat
    OBVIOUS
  <2> QED
    BY <1>1, <1>2, <2>1, <2>2
<1>4. n > 0 => n * d > 0
  OBVIOUS
<1> QED
  BY <1>1, <1>2, <1>3, <1>4

LEMMA EncodedIs ==
    ASSUME NEW i, NEW from, NEW n
    PROVE  /\ DOMAIN Upload!Encoded(i, from, n) = 0..(n * file[i].dst - 1)
           /\ \A c \in 0..(n * file[i].dst - 1) :
                  Upload!Encoded(i, from, n)[c] = <<i, from + c \div file[i].dst, c % file[i].dst>>
BY DEF Upload!Encoded

\* The cells of some blocks of a tensor are those of all its blocks, further on.
LEMMA EncodedPart ==
    ASSUME PlanFacts, NEW i \in 1..Count, NEW from \in Nat, NEW n \in Nat, from + n <= file[i].blocks,
           NEW k \in 0..(n * file[i].dst - 1)
    PROVE  /\ from * file[i].dst + k \in 0..(Bytes(i) - 1)
           /\ Upload!Encoded(i, from, n)[k]
                  = Upload!Encoded(i, 0, file[i].blocks)[from * file[i].dst + k]
<1>1. PICK d \in Nat \ {0} : d = file[i].dst
  BY DEF PlanFacts
<1>2. PICK blocks \in Nat : blocks = file[i].blocks /\ Bytes(i) = blocks * d
  BY <1>1 DEF PlanFacts
<1>3. from * d \in Nat /\ n * d \in Nat /\ from * d + n * d <= blocks * d /\ blocks * d \in Nat
  BY <1>2, Portion
<1>4. k \in Nat /\ k <= n * d - 1
  BY <1>1, <1>3
<1>5. from * d + k \in 0..(blocks * d - 1)
  BY <1>3, <1>4
<1>6. (from * d + k) \div d = from + k \div d /\ (from * d + k) % d = k % d
  <2> DEFINE q == k \div d  r == k % d
  <2>1. q \in Int /\ r \in 0..(d - 1) /\ k = d * q + r
    BY <1>4
  <2> HIDE DEF q, r
  <2>2. from * d + k = d * (from + q) + r /\ from + q \in Int
    BY <2>1
  <2>3. (d * (from + q) + r) % d = r /\ (d * (from + q) + r) \div d = from + q
    BY <2>1, <2>2, Remainder
  <2> QED
    BY <2>2, <2>3 DEF q, r
<1>7. Upload!Encoded(i, from, n)[k] = <<i, from + k \div d, k % d>>
  BY <1>1, EncodedIs
<1>8. Upload!Encoded(i, 0, file[i].blocks)[from * d + k]
          = <<i, 0 + (from * d + k) \div d, (from * d + k) % d>>
  BY <1>1, <1>2, <1>5, EncodedIs
<1>9. 0 + (from * d + k) \div d = from + k \div d
  <2>1. from + k \div d \in Int
    BY <1>4
  <2> QED
    BY <1>6, <2>1
<1> QED
  BY <1>1, <1>2, <1>5, <1>6, <1>7, <1>8, <1>9

\* A write changes the cells it was made for.
LEMMA WrittenIs ==
    ASSUME NEW m, NEW b \in DOMAIN m, NEW at \in Nat, NEW size \in Nat, NEW top \in Nat, NEW data,
           DOMAIN data = 0..(size - 1), DOMAIN m[b] = 0..(top - 1)
    PROVE  /\ DOMAIN Upload!Written(m, b, at, data) = DOMAIN m
           /\ \A x \in DOMAIN m : x # b => Upload!Written(m, b, at, data)[x] = m[x]
           /\ DOMAIN Upload!Written(m, b, at, data)[b] = 0..(top - 1)
           /\ \A c \in 0..(top - 1) : c < at => Upload!Written(m, b, at, data)[b][c] = m[b][c]
           /\ \A k \in 0..(size - 1) :
                  at + k <= top - 1 => Upload!Written(m, b, at, data)[b][at + k] = data[k]
<1> DEFINE w == Upload!Written(m, b, at, data)
           there == [c \in DOMAIN m[b] |-> IF c - at \in DOMAIN data THEN data[c - at] ELSE m[b][c]]
<1>1. w = [m EXCEPT ![b] = there]
  BY DEF Upload!Written
<1>2. DOMAIN w = DOMAIN m /\ w[b] = there /\ \A x \in DOMAIN m : x # b => w[x] = m[x]
  BY <1>1
<1>3. DOMAIN there = 0..(top - 1)
  OBVIOUS
<1>4. \A c \in 0..(top - 1) : c < at => there[c] = m[b][c]
  OBVIOUS
<1>5. ASSUME NEW k \in 0..(size - 1), at + k <= top - 1 PROVE there[at + k] = data[k]
  <2>1. at + k \in 0..(top - 1) /\ (at + k) - at = k
    BY <1>5
  <2> QED
    BY <2>1
<1> HIDE DEF w, there
<1> QED
  BY <1>2, <1>3, <1>4, <1>5 DEF w

LEMMA UploadInit == Upload!Init => UploadInv
<1> SUFFICES ASSUME Upload!Init PROVE UploadInv
  OBVIOUS
<1>1. /\ file \in Files /\ Upload!Planned(file) /\ streamed \in BOOLEAN
      /\ tensor = 1 /\ block = 0 /\ done = 0 /\ dropped = FALSE /\ status = "sending"
  BY DEF Upload!Init
<1>2. PlanFacts
  BY <1>1, PlanHolds
<1>3. /\ DOMAIN resident = 1..Buffers /\ DOMAIN kept = 1..Buffers
      /\ \A b \in 1..Buffers : DOMAIN resident[b] = 0..(Size(b) - 1) /\ kept[b] = Upload!Unsampled
  BY <1>2 DEF Upload!Init, PlanFacts, Size
<1>4. \A b \in 1..Buffers : \A which \in {"head", "tail"} : kept[b][which] = <<>>
  BY <1>3 DEF Upload!Unsampled
<1>5. \A i \in 1..Count : Sent(i) = 0
  BY <1>1, <1>2 DEF Sent, PlanFacts
<1>6. UploadTypes
  <2>1. tensor \in Nat \ {0} /\ block \in Nat
    BY <1>1
  <2>2. dropped \in BOOLEAN
    BY <1>1, Zenon
  <2> QED
    BY <1>1, <1>3, <2>1, <2>2, Zenon DEF UploadTypes
<1>7. Outcome
  BY <1>1 DEF Outcome, Upload!HonestUploadLoads
<1>8. \A b \in 1..Buffers : Upload!ReadsBack(b)
  BY <1>4 DEF Upload!ReadsBack
<1>9. Cursor /\ Heads /\ Spans /\ SentIsThere
  <2>1. Cursor
    BY <1>1, <1>2 DEF Cursor, PlanFacts
  <2>2. Heads /\ SentIsThere
    BY <1>5 DEF Heads, SentIsThere
  <2>3. Spans
    BY <1>4 DEF Spans
  <2> QED
    BY <2>1, <2>2, <2>3
<1>10. Counted
  <2>1. Upload!TotalOf(Upload!Packed(file)[0].sizes) = 0
    BY <1>1, FilesAre, PackedOk
  <2>2. (IF tensor <= Count THEN block * file[tensor].dst ELSE 0) = 0
    <3>1. tensor <= Count => file[tensor].dst \in Nat
      BY <1>1, <1>2 DEF PlanFacts
    <3> QED
      BY <1>1, <3>1
  <2> QED
    BY <1>1, <2>1, <2>2 DEF Counted
<1>11. Mapping
  BY <1>1, <1>2, <1>3 DEF Mapping, PlanFacts
<1> QED
  BY <1>6, <1>7, <1>8, <1>9, <1>10, <1>11 DEF UploadInv, Streaming

\* What a chunk is: some of the blocks that are left, behind what was sent.
LEMMA ChunkIs ==
    ASSUME PlanFacts, Cursor, tensor \in Nat \ {0}, block \in Nat, tensor <= Count,
           NEW n, n = IF Upload!PerChunk(tensor) < file[tensor].blocks - block
                      THEN Upload!PerChunk(tensor) ELSE file[tensor].blocks - block
    PROVE  /\ n \in Nat \ {0} /\ block + n <= file[tensor].blocks
           /\ n * file[tensor].dst \in Nat \ {0} /\ Sent(tensor) = block * file[tensor].dst
           /\ Sent(tensor) \in Nat /\ Sent(tensor) + n * file[tensor].dst <= Bytes(tensor)
           /\ (block + n) * file[tensor].dst = Sent(tensor) + n * file[tensor].dst
           /\ block + n >= file[tensor].blocks
                  => Sent(tensor) + n * file[tensor].dst = Bytes(tensor)
<1>1. PICK d \in Nat \ {0}, k \in Nat \ {0} :
          d = file[tensor].dst /\ k = file[tensor].blocks /\ Bytes(tensor) = k * d
  <2>1. tensor \in 1..Count
    BY DEF PlanFacts
  <2> QED
    BY <2>1 DEF PlanFacts
<1>2. block < k
  BY <1>1 DEF Cursor
<1>3. Upload!PerChunk(tensor) \in Nat \ {0}
  <2>1. Chunk \div d \in Int
    BY <1>1, ComputeAssumption
  <2> QED
    BY <1>1, <2>1 DEF Upload!PerChunk
<1>4. n \in Nat \ {0} /\ block + n <= k
  BY <1>1, <1>2, <1>3
<1>5. /\ block * d \in Nat /\ n * d \in Nat \ {0} /\ (block + n) * d = block * d + n * d
      /\ block * d + n * d <= k * d
  BY <1>4, Portion
<1>6. Sent(tensor) = block * d
  BY <1>1 DEF Sent
<1>7. block + n >= k => block + n = k
  BY <1>4
<1> QED
  BY <1>1, <1>4, <1>5, <1>6, <1>7

LEMMA SendNext == ASSUME UploadInv, Upload!SendChunk PROVE UploadInv'
<1> DEFINE d == file[tensor].dst
           n == IF Upload!PerChunk(tensor) < file[tensor].blocks - block
                THEN Upload!PerChunk(tensor) ELSE file[tensor].blocks - block
           size == n * d  B == Buf(tensor)  at == Base(tensor) + block * d
           data == Upload!Encoded(tensor, block, n)
           keep == IF size < Sample THEN size ELSE Sample
           front == Upload!Span(B, at, data, 0, keep)
           back == Upload!Span(B, at, data, size - keep, keep)
           more == Upload!Written(resident, B, at, data)
<1>1. /\ streamed /\ status = "sending" /\ tensor <= Count
      /\ file' = file /\ streamed' = streamed /\ status' = status
  BY DEF Upload!SendChunk, Count
<1>2. /\ kept' = [kept EXCEPT ![B] =
             [head |-> IF kept[B].head = <<>> THEN <<front>> ELSE kept[B].head, tail |-> <<back>>]]
      /\ done' = done + size
      /\ tensor' = IF block + n >= file[tensor].blocks THEN tensor + 1 ELSE tensor
      /\ block' = IF block + n >= file[tensor].blocks THEN 0 ELSE block + n
  BY DEF Upload!SendChunk, Buf, Base
<1>3. PICK lost \in BOOLEAN : /\ resident' = IF lost THEN resident ELSE more
                              /\ dropped' = (dropped \/ lost)
  BY DEF Upload!SendChunk, Buf, Base
<1>4. UploadTypes /\ Outcome /\ Streaming
  BY <1>1 DEF UploadInv
<1>5. PlanFacts
  BY <1>4, PlanHolds DEF UploadTypes
<1>6. /\ Cursor /\ tensor \in Nat \ {0} /\ block \in Nat /\ tensor \in 1..Count
      /\ Count \in Nat /\ Buffers \in Nat \ {0}
  BY <1>1, <1>4, <1>5 DEF Streaming, UploadTypes, PlanFacts
<1>a. n = IF Upload!PerChunk(tensor) < file[tensor].blocks - block
          THEN Upload!PerChunk(tensor) ELSE file[tensor].blocks - block
  OBVIOUS
<1> HIDE DEF n
<1>7. /\ n \in Nat \ {0} /\ block + n <= file[tensor].blocks /\ size \in Nat \ {0}
      /\ Sent(tensor) = block * d /\ Sent(tensor) \in Nat /\ Sent(tensor) + size <= Bytes(tensor)
      /\ (block + n) * d = Sent(tensor) + size
      /\ block + n >= file[tensor].blocks => Sent(tensor) + size = Bytes(tensor)
  BY <1>1, <1>5, <1>6, <1>a, ChunkIs
<1>8. d \in Nat \ {0} /\ file[tensor].blocks \in Nat \ {0}
  BY <1>5, <1>6 DEF PlanFacts
<1>9. /\ B \in 1..Buffers /\ Base(tensor) \in Nat /\ Bytes(tensor) \in Nat
      /\ Base(tensor) + Bytes(tensor) <= Size(B) /\ Size(B) \in Nat
  <2>1. B \in 1..Buffers /\ Base(tensor) \in Nat /\ Bytes(tensor) \in Nat
    BY <1>5, <1>6 DEF PlanFacts
  <2> QED
    BY <1>5, <1>6, <2>1 DEF PlanFacts
<1>10. /\ at \in Nat /\ at = Base(tensor) + Sent(tensor) /\ at + size <= Base(tensor) + Bytes(tensor)
       /\ at + size <= Size(B)
  BY <1>7, <1>9
<1>11. keep \in Nat \ {0} /\ keep <= size
  BY <1>7, ComputeAssumption
<1>b. DOMAIN data = 0..(size - 1)
  BY EncodedIs
<1>c. \A k \in 0..(size - 1) :
          /\ block * d + k \in 0..(Bytes(tensor) - 1)
          /\ data[k] = Upload!Encoded(tensor, 0, file[tensor].blocks)[block * d + k]
          /\ data[k] # Upload!Zero
  <2> SUFFICES ASSUME NEW k \in 0..(size - 1)
               PROVE  /\ block * d + k \in 0..(Bytes(tensor) - 1)
                      /\ data[k] = Upload!Encoded(tensor, 0, file[tensor].blocks)[block * d + k]
                      /\ data[k] # Upload!Zero
    OBVIOUS
  <2>1. /\ block * d + k \in 0..(Bytes(tensor) - 1)
        /\ data[k] = Upload!Encoded(tensor, 0, file[tensor].blocks)[block * d + k]
    <3>1. n \in Nat /\ block + n <= file[tensor].blocks /\ block \in Nat
      BY <1>6, <1>7
    <3> QED
      BY <1>5, <1>6, <3>1, EncodedPart
  <2>2. data[k] = <<tensor, block + k \div d, k % d>>
    BY EncodedIs
  <2>3. data[k] # Upload!Zero
    BY <1>6, <2>2 DEF Upload!Zero
  <2> QED
    BY <2>1, <2>3
<1> HIDE DEF data, keep, size, at, d
<1>s. /\ Count' = Count /\ Buffers' = Buffers
      /\ \A i : /\ Buf(i)' = Buf(i) /\ Base(i)' = Base(i) /\ Bytes(i)' = Bytes(i)
                /\ Upload!Encoded(i, 0, file[i].blocks)' = Upload!Encoded(i, 0, file[i].blocks)
      /\ \A b : Size(b)' = Size(b)
  BY <1>1, SameFile
\* What is sent afterwards.
<1>12. /\ tensor' \in Nat \ {0} /\ block' \in Nat /\ tensor' >= tensor /\ Cursor'
  <2>1. CASE block + n >= file[tensor].blocks
    <3>1. tensor' = tensor + 1 /\ block' = 0
      BY <1>2, <2>1
    <3>2. tensor' <= Count => file[tensor'].blocks \in Nat \ {0}
      BY <1>5, <1>6, <3>1 DEF PlanFacts
    <3> QED
      BY <1>1, <1>6, <1>s, <3>1, <3>2 DEF Cursor
  <2>2. CASE ~(block + n >= file[tensor].blocks)
    <3>1. tensor' = tensor /\ block' = block + n
      BY <1>2, <2>2
    <3> QED
      BY <1>1, <1>6, <1>7, <1>8, <1>s, <2>2, <3>1 DEF Cursor
  <2> QED
    BY <2>1, <2>2
<1>13. /\ \A i \in 1..Count : i < tensor => Sent(i)' = Sent(i) /\ Sent(i) = Bytes(i)
       /\ \A i \in 1..Count : i = tensor => Sent(i)' = Sent(i) + size
       /\ \A i \in 1..Count : i > tensor => Sent(i)' = 0 /\ Sent(i) = 0
  <2> SUFFICES ASSUME NEW i \in 1..Count
               PROVE  /\ i < tensor => Sent(i)' = Sent(i) /\ Sent(i) = Bytes(i)
                      /\ i = tensor => Sent(i)' = Sent(i) + size
                      /\ i > tensor => Sent(i)' = 0 /\ Sent(i) = 0
    OBVIOUS
  <2>0. Sent(i)' = IF i < tensor' THEN Bytes(i) ELSE IF i = tensor' THEN block' * file[i].dst ELSE 0
    BY <1>1, <1>s DEF Sent
  <2>1. file[i].dst \in Nat
    BY <1>5 DEF PlanFacts
  <2>2. CASE block + n >= file[tensor].blocks
    <3>1. tensor' = tensor + 1 /\ block' = 0
      BY <1>2, <2>2
    <3>2. Sent(tensor) + size = Bytes(tensor)
      BY <1>7, <2>2 DEF size
    <3> QED
      BY <1>6, <2>0, <2>1, <3>1, <3>2 DEF Sent
  <2>3. CASE ~(block + n >= file[tensor].blocks)
    <3>1. tensor' = tensor /\ block' = block + n
      BY <1>2, <2>3
    <3>2. (block + n) * file[tensor].dst = Sent(tensor) + size
      BY <1>7 DEF size, d
    <3> QED
      BY <1>6, <2>0, <2>1, <3>1, <3>2 DEF Sent
  <2> QED
    BY <2>2, <2>3
<1>14. \A i \in 1..Count : Sent(i) \in Nat /\ Sent(i)' \in Nat /\ Sent(i)' >= Sent(i)
  <2> SUFFICES ASSUME NEW i \in 1..Count
               PROVE  Sent(i) \in Nat /\ Sent(i)' \in Nat /\ Sent(i)' >= Sent(i)
    OBVIOUS
  <2>1. Bytes(i) \in Nat
    BY <1>5 DEF PlanFacts
  <2>2. i < tensor \/ i = tensor \/ i > tensor
    BY <1>6
  <2> QED
    BY <1>7, <1>13, <2>1, <2>2 DEF size
<1>15. \A i \in tensor'..Count : /\ i \in tensor..Count /\ i \in 1..Count
                                 /\ Buf(i) = B => at + size <= Base(i) + Sent(i)'
  <2> SUFFICES ASSUME NEW i \in tensor'..Count
               PROVE  /\ i \in tensor..Count /\ i \in 1..Count
                      /\ Buf(i) = B => at + size <= Base(i) + Sent(i)'
    OBVIOUS
  <2>1. i \in tensor..Count /\ i \in 1..Count /\ (i = tensor \/ i > tensor)
    BY <1>6, <1>12
  <2>2. CASE i = tensor
    <3>1. Sent(i)' = Sent(tensor) + size
      BY <1>13, <2>1, <2>2
    <3> QED
      BY <1>7, <1>9, <1>10, <2>1, <2>2, <3>1 DEF size
  <2>3. ASSUME i > tensor, Buf(i) = B PROVE at + size <= Base(i) + Sent(i)'
    <3>1. Base(tensor) + Bytes(tensor) <= Base(i) /\ Base(i) \in Nat
      BY <1>5, <1>6, <2>1, <2>3 DEF PlanFacts
    <3>2. Sent(i)' = 0
      BY <1>13, <2>1, <2>3
    <3> QED
      BY <1>7, <1>9, <1>10, <3>1, <3>2 DEF size
  <2> QED
    BY <2>1, <2>2, <2>3
<1>z. size \in Nat \ {0}
  BY <1>7 DEF size
<1>16. /\ DOMAIN kept' = 1..Buffers
       /\ \A b \in 1..Buffers : b # B => kept'[b] = kept[b]
       /\ kept'[B]["tail"] = <<back>>
       /\ kept'[B]["head"] = IF kept[B]["head"] = <<>> THEN <<front>> ELSE kept[B]["head"]
  <2> HIDE DEF front, back
  <2>1. DOMAIN kept = 1..Buffers
    BY <1>4 DEF UploadTypes
  <2>2. kept'[B] = [head |-> IF kept[B].head = <<>> THEN <<front>> ELSE kept[B].head, tail |-> <<back>>]
    BY <1>2, <1>9, <2>1
  <2> QED
    BY <1>2, <2>1, <2>2
\* The two samples of the chunk.
<1> DEFINE OfChunk(s) == /\ s.at \in at..(at + size - 1) /\ 0 \in DOMAIN s.data
                         /\ \A c \in DOMAIN s.data : /\ c \in Nat /\ s.at + c \in at..(at + size - 1)
                                                     /\ s.data[c] = data[s.at + c - at]
<1>17. ASSUME NEW from \in {0, size - keep} PROVE OfChunk(Upload!Span(B, at, data, from, keep))
  <2> DEFINE s == Upload!Span(B, at, data, from, keep)
  <2>1. from \in Nat /\ from + keep <= size
    BY <1>11, <1>z
  <2>2. s.at = at + from /\ s.data = [c \in 0..(keep - 1) |-> data[from + c]]
    BY DEF Upload!Span
  <2>3. DOMAIN s.data = 0..(keep - 1) /\ \A c \in 0..(keep - 1) : s.data[c] = data[from + c]
    BY <2>2
  <2> HIDE DEF s
  <2>4. s.at \in at..(at + size - 1) /\ 0 \in DOMAIN s.data
    BY <1>10, <1>11, <1>z, <2>1, <2>2, <2>3
  <2>5. ASSUME NEW c \in DOMAIN s.data
        PROVE  c \in Nat /\ s.at + c \in at..(at + size - 1) /\ s.data[c] = data[s.at + c - at]
    <3>1. c \in 0..(keep - 1) /\ s.data[c] = data[from + c]
      BY <2>3
    <3>2. c \in Nat /\ s.at + c \in at..(at + size - 1) /\ s.at + c - at = from + c
      BY <1>10, <1>11, <1>z, <2>1, <2>2, <3>1
    <3> QED
      BY <3>1, <3>2
  <2> QED
    BY <2>4, <2>5 DEF s
<1>18. OfChunk(front) /\ OfChunk(back)
  BY <1>17
<1> HIDE DEF front, back, OfChunk
\* Every sampled write is a sample of this chunk or one from before.
<1>19. ASSUME NEW b \in 1..Buffers, NEW which \in {"head", "tail"}, kept'[b][which] # <<>>
       PROVE  \/ b = B /\ OfChunk(kept'[b][which][1])
              \/ kept[b][which] # <<>> /\ kept'[b][which] = kept[b][which]
  <2>1. CASE b # B
    BY <1>16, <1>19, <2>1
  <2>2. CASE b = B
    <3>1. <<front>>[1] = front /\ <<back>>[1] = back
      OBVIOUS
    <3> QED
      BY <1>16, <1>18, <1>19, <2>2, <3>1
  <2> QED
    BY <2>1, <2>2
<1>20. Heads'
  <2> SUFFICES ASSUME NEW i \in 1..Count, Sent(i)' > 0 PROVE kept'[Buf(i)]["head"] # <<>>
    BY <1>s DEF Heads
  <2>1. <<front>> # <<>>
    OBVIOUS
  <2>2. CASE Buf(i) = B
    BY <1>16, <2>1, <2>2
  <2>3. CASE Buf(i) # B
    <3>1. i # tensor /\ Buf(i) \in 1..Buffers
      BY <1>5, <2>3 DEF PlanFacts
    <3>2. i < tensor \/ i > tensor
      BY <1>6, <3>1
    <3>3. Sent(i) > 0
      BY <1>13, <3>2
    <3> QED
      BY <1>4, <1>16, <2>3, <3>1, <3>3 DEF Streaming, Heads
  <2> QED
    BY <2>2, <2>3
<1>21. Spans'
  <2> SUFFICES ASSUME NEW b \in 1..Buffers, NEW which \in {"head", "tail"}, kept'[b][which] # <<>>,
                      NEW s, s = kept'[b][which][1]
               PROVE  /\ /\ s.at \in 0..(Size(b) - 1) /\ 0 \in DOMAIN s.data
                         /\ DOMAIN s.data \subseteq Nat /\ s.data[0] # Upload!Zero
                      /\ \A c \in DOMAIN s.data : \A i \in tensor'..Count :
                             Buf(i) = b => s.at + c < Base(i) + Sent(i)'
    BY <1>s DEF Spans, IsSpan, IsBehind
  <2>1. CASE b = B /\ OfChunk(s)
    <3>1. s.at \in 0..(Size(b) - 1) /\ 0 \in DOMAIN s.data /\ DOMAIN s.data \subseteq Nat
      BY <1>9, <1>10, <1>z, <2>1 DEF OfChunk
    <3>2. s.data[0] # Upload!Zero
      <4>1. s.data[0] = data[s.at + 0 - at] /\ s.at + 0 - at \in 0..(size - 1)
        BY <1>10, <1>z, <2>1 DEF OfChunk
      <4> QED
        BY <1>c, <4>1 DEF size
    <3>3. ASSUME NEW c \in DOMAIN s.data, NEW i \in tensor'..Count, Buf(i) = b
          PROVE  s.at + c < Base(i) + Sent(i)'
      <4>1. s.at + c \in at..(at + size - 1)
        BY <2>1 DEF OfChunk
      <4>2. at + size <= Base(i) + Sent(i)'
        BY <1>15, <2>1, <3>3
      <4>3. Base(i) \in Nat /\ Sent(i)' \in Nat
        BY <1>5, <1>14, <1>15 DEF PlanFacts
      <4> QED
        BY <1>10, <1>z, <4>1, <4>2, <4>3
    <3> QED
      BY <3>1, <3>2, <3>3
  <2>2. CASE kept[b][which] # <<>> /\ kept'[b][which] = kept[b][which]
    <3>1. IsSpan(s, b) /\ IsBehind(s, b)
      BY <1>4, <2>2 DEF Streaming, Spans
    <3>2. ASSUME NEW c \in DOMAIN s.data, NEW i \in tensor'..Count, Buf(i) = b
          PROVE  s.at + c < Base(i) + Sent(i)'
      <4>1. s.at + c < Base(i) + Sent(i)
        BY <1>15, <3>1, <3>2 DEF IsBehind
      <4>2. Base(i) \in Nat /\ Sent(i)' \in Nat /\ Sent(i) \in Nat /\ Sent(i)' >= Sent(i)
        BY <1>5, <1>14, <1>15 DEF PlanFacts
      <4>3. s.at \in Nat /\ c \in Nat
        <5>1. Size(b) \in Nat
          BY <1>5 DEF PlanFacts
        <5> QED
          BY <3>1, <5>1 DEF IsSpan
      <4> QED
        BY <4>1, <4>2, <4>3
    <3> QED
      BY <3>1, <3>2 DEF IsSpan
  <2> QED
    BY <1>19, <2>1, <2>2
\* What the write changes.
<1>22. /\ DOMAIN resident = 1..Buffers
       /\ \A b \in 1..Buffers : DOMAIN resident[b] = 0..(Size(b) - 1)
  BY <1>4 DEF UploadTypes
<1>23. /\ DOMAIN more = 1..Buffers
       /\ \A b \in 1..Buffers : b # B => more[b] = resident[b]
       /\ DOMAIN more[B] = 0..(Size(B) - 1)
       /\ \A c \in 0..(Size(B) - 1) : c < at => more[B][c] = resident[B][c]
       /\ \A k \in 0..(size - 1) : at + k <= Size(B) - 1 => more[B][at + k] = data[k]
  <2>1. /\ B \in DOMAIN resident /\ at \in Nat /\ size \in Nat /\ Size(B) \in Nat
        /\ DOMAIN data = 0..(size - 1) /\ DOMAIN resident[B] = 0..(Size(B) - 1)
    BY <1>9, <1>10, <1>b, <1>z, <1>22 DEF size
  <2>2. /\ DOMAIN more = DOMAIN resident
        /\ \A b \in DOMAIN resident : b # B => more[b] = resident[b]
        /\ DOMAIN more[B] = 0..(Size(B) - 1)
        /\ \A c \in 0..(Size(B) - 1) : c < at => more[B][c] = resident[B][c]
        /\ \A k \in 0..(size - 1) : at + k <= Size(B) - 1 => more[B][at + k] = data[k]
    <3> HIDE DEF B
    <3> QED
      BY <2>1, WrittenIs DEF more
  <2> HIDE DEF B
  <2> QED
    BY <1>22, <2>2
<1> HIDE DEF more
<1>24. /\ DOMAIN resident' = 1..Buffers
       /\ \A b \in 1..Buffers : DOMAIN resident'[b] = 0..(Size(b) - 1)
  <2>1. CASE lost
    BY <1>3, <1>22, <2>1
  <2>2. CASE ~lost
    <3>1. resident' = more
      BY <1>3, <2>2
    <3>2. ASSUME NEW b \in 1..Buffers PROVE DOMAIN more[b] = 0..(Size(b) - 1)
      BY <1>22, <1>23
    <3> QED
      BY <1>23, <3>1, <3>2
  <2> QED
    BY <2>1, <2>2
<1>25. ASSUME ~dropped' PROVE ~dropped /\ resident' = more
  <2>1. ~dropped /\ ~lost
    BY <1>3, <1>25, Zenon
  <2> QED
    BY <1>3, <2>1
<1>26. ASSUME ~dropped' PROVE SentIsThere'
  <2>1. /\ SentIsThere /\ resident' = more
    BY <1>4, <1>25, <1>26 DEF Streaming
  <2> SUFFICES ASSUME NEW i \in 1..Count, NEW c \in 0..(Sent(i)' - 1)
               PROVE  more[Buf(i)][Base(i) + c] = Upload!Encoded(i, 0, file[i].blocks)[c]
    BY <1>s, <2>1 DEF SentIsThere
  <2>2. /\ Buf(i) \in 1..Buffers /\ Base(i) \in Nat /\ Bytes(i) \in Nat
        /\ Base(i) + Bytes(i) <= Size(Buf(i)) /\ Sent(i) \in Nat /\ Sent(i)' \in Nat
    BY <1>5, <1>14 DEF PlanFacts
  <2>3. CASE c < Sent(i)
    <3>1. c \in 0..(Sent(i) - 1)
      BY <2>2, <2>3
    <3>2. resident[Buf(i)][Base(i) + c] = Upload!Encoded(i, 0, file[i].blocks)[c]
      BY <2>1, <3>1 DEF SentIsThere
    <3>3. ASSUME Buf(i) = B PROVE Base(i) + c < at /\ Base(i) + c \in 0..(Size(B) - 1)
      <4>1. CASE i < tensor
        <5>1. Base(i) + Bytes(i) <= Base(tensor) /\ Sent(i) = Bytes(i)
          BY <1>5, <1>6, <1>13, <3>3, <4>1 DEF PlanFacts
        <5> QED
          BY <1>7, <1>9, <1>10, <2>2, <3>1, <5>1 DEF size
      <4>2. CASE i = tensor
        BY <1>7, <1>9, <1>10, <1>z, <2>2, <3>1, <4>2
      <4>3. CASE i > tensor
        BY <1>13, <3>1, <4>3
      <4> QED
        BY <1>6, <4>1, <4>2, <4>3
    <3> QED
      BY <1>23, <2>2, <3>2, <3>3
  <2>4. CASE ~(c < Sent(i))
    <3>1. i = tensor /\ Sent(i)' = Sent(tensor) + size
      BY <1>6, <1>13, <2>2, <2>4
    <3>2. PICK k \in 0..(size - 1) : c = Sent(tensor) + k
      <4>1. c - Sent(tensor) \in 0..(size - 1)
        BY <1>7, <1>z, <2>2, <2>4, <3>1 DEF size
      <4> QED
        BY <1>7, <2>2, <4>1
    <3>3. Base(i) + c = at + k /\ at + k <= Size(B) - 1
      BY <1>7, <1>9, <1>10, <1>z, <3>1, <3>2
    <3>4. more[B][at + k] = data[k]
      BY <1>23, <3>3
    <3>5. data[k] = Upload!Encoded(tensor, 0, file[tensor].blocks)[block * d + k]
      BY <1>c DEF size
    <3>6. block * d = Sent(tensor)
      BY <1>7
    <3> QED
      BY <3>1, <3>2, <3>3, <3>4, <3>5, <3>6
  <2> QED
    BY <2>3, <2>4
<1>27. ASSUME ~dropped', NEW b \in 1..Buffers PROVE Upload!ReadsBack(b)'
  <2>1. resident' = more /\ Upload!ReadsBack(b)
    BY <1>4, <1>25, <1>27 DEF Streaming
  <2> SUFFICES ASSUME NEW which \in {"head", "tail"}, kept'[b][which] # <<>>,
                      NEW s, s = kept'[b][which][1], NEW c \in DOMAIN s.data
               PROVE  more[b][s.at + c] = s.data[c]
    BY <2>1 DEF Upload!ReadsBack
  <2>2. CASE b = B /\ OfChunk(s)
    <3>1. s.at + c \in at..(at + size - 1) /\ s.data[c] = data[s.at + c - at]
      BY <2>2 DEF OfChunk
    <3>0. PICK x \in at..(at + size - 1) : x = s.at + c
      BY <3>1
    <3>2. PICK k \in 0..(size - 1) : x = at + k
      <4>1. x - at \in 0..(size - 1) /\ x = at + (x - at)
        BY <1>10, <1>z
      <4> QED
        BY <4>1
    <3>3. x - at = k /\ at + k <= Size(B) - 1
      BY <1>9, <1>10, <1>z, <3>2
    <3>4. more[B][x] = data[k]
      BY <1>23, <3>2, <3>3
    <3>5. s.data[c] = data[x - at]
      <4>1. s.at + c - at = x - at
        <5>1. s.at \in Nat /\ c \in Nat /\ at \in Nat
          BY <1>10, <1>z, <2>2 DEF OfChunk
        <5> QED
          BY <3>0, <5>1
      <4>2. s.data[c] = data[s.at + c - at]
        BY <3>1
      <4> QED
        BY <4>1, <4>2
    <3> QED
      BY <2>2, <3>0, <3>3, <3>4, <3>5
  <2>3. CASE kept[b][which] # <<>> /\ kept'[b][which] = kept[b][which]
    <3>1. IsSpan(s, b) /\ IsBehind(s, b)
      BY <1>4, <2>3 DEF Streaming, Spans
    <3>2. resident[b][s.at + c] = s.data[c]
      BY <2>1, <2>3 DEF Upload!ReadsBack
    <3>3. ASSUME b = B PROVE s.at + c < at /\ s.at + c \in 0..(Size(B) - 1)
      <4>1. tensor \in tensor..Count /\ Buf(tensor) = b
        BY <1>6, <3>3
      <4>2. s.at + c < Base(tensor) + Sent(tensor)
        BY <3>1, <4>1 DEF IsBehind
      <4>3. s.at \in Nat /\ c \in Nat
        BY <1>9, <3>1, <3>3 DEF IsSpan
      <4>4. s.at + c < at
        BY <1>10, <4>2
      <4>5. at < Size(B) /\ at \in Nat /\ Size(B) \in Nat
        BY <1>9, <1>10, <1>z
      <4> QED
        BY <4>3, <4>4, <4>5
    <3> QED
      BY <1>23, <3>2, <3>3
  <2> QED
    BY <1>19, <2>2, <2>3
<1>28. ASSUME Even(file)' PROVE Counted'
  <2>1. IsFile(file) /\ Even(file) /\ Upload!Planned(file)
    BY <1>1, <1>4, <1>28, FilesAre DEF UploadTypes, Even
  <2>2. done = Upload!TotalOf(Upload!Packed(file)[tensor - 1].sizes) + Sent(tensor)
    BY <1>1, <1>4, <1>7, <2>1 DEF Streaming, Counted, d
  <2>3. \A i \in 0..Count : Upload!TotalOf(Upload!Packed(file)[i].sizes) \in Nat
    <3>1. ASSUME NEW i \in 0..Count PROVE Upload!Packed(file)[i].sizes \in Seq(Nat)
      BY <2>1, PackedOk DEF PlanOk, Count
    <3> QED
      BY <3>1, TotalOfMore
  <2>4. tensor - 1 \in 0..Count /\ tensor \in 0..Count
    BY <1>6
  <2>5. Upload!TotalOf(Upload!Packed(file)[tensor].sizes)
            = Upload!TotalOf(Upload!Packed(file)[tensor - 1].sizes) + Bytes(tensor)
    BY <1>6, <2>1, PackedOk DEF Count, Bytes
  <2>6. done' = Upload!TotalOf(Upload!Packed(file)[tensor - 1].sizes) + (Sent(tensor) + size)
    BY <1>2, <1>7, <1>z, <2>2, <2>3, <2>4 DEF size
  <2>7. CASE block + n >= file[tensor].blocks
    <3>1. tensor' = tensor + 1 /\ block' = 0 /\ tensor' - 1 = tensor
      BY <1>2, <1>6, <2>7
    <3>2. Sent(tensor) + size = Bytes(tensor)
      BY <1>7, <2>7 DEF size
    <3>3. (IF tensor' <= Count THEN block' * file[tensor'].dst ELSE 0) = 0
      <4>1. tensor' <= Count => file[tensor'].dst \in Nat
        BY <1>5, <1>6, <3>1 DEF PlanFacts
      <4> QED
        BY <3>1, <4>1
    <3>4. done' = Upload!TotalOf(Upload!Packed(file)[tensor].sizes)
      BY <2>5, <2>6, <3>2
    <3>5. done' = Upload!TotalOf(Upload!Packed(file)[tensor' - 1].sizes)
                      + (IF tensor' <= Count THEN block' * file[tensor'].dst ELSE 0)
      BY <2>3, <2>4, <3>1, <3>3, <3>4
    <3> QED
      BY <1>1, <1>s, <3>5 DEF Counted
  <2>8. CASE ~(block + n >= file[tensor].blocks)
    <3>1. tensor' = tensor /\ block' = block + n
      BY <1>2, <2>8
    <3>2. (block + n) * file[tensor].dst = Sent(tensor) + size
      BY <1>7 DEF size, d
    <3> QED
      BY <1>1, <1>s, <2>6, <3>1, <3>2 DEF Counted
  <2> QED
    BY <2>7, <2>8
<1>29. Streaming'
  BY <1>12, <1>20, <1>21, <1>26, <1>27, <1>28, <1>s DEF Streaming
<1>30. UploadTypes'
  <2>1. file' \in Files /\ Upload!Planned(file)' /\ streamed' \in BOOLEAN
    BY <1>1, <1>4 DEF UploadTypes
  <2>2. dropped' \in BOOLEAN
    <3>1. dropped \in BOOLEAN
      BY <1>4 DEF UploadTypes
    <3> QED
      BY <1>3, <3>1, Zenon
  <2>3. DOMAIN kept' = 1..Buffers' /\ DOMAIN resident' = 1..Buffers'
    BY <1>16, <1>24, <1>s
  <2>4. \A b \in 1..Buffers' : DOMAIN resident'[b] = 0..(Size(b)' - 1)
    BY <1>24, <1>s
  <2> QED
    BY <1>12, <2>1, <2>2, <2>3, <2>4, Zenon DEF UploadTypes
<1>31. Outcome'
  <2>1. status' = "sending"
    BY <1>1
  <2> QED
    BY <2>1 DEF Outcome, Upload!HonestUploadLoads
<1> QED
  BY <1>1, <1>29, <1>30, <1>31 DEF UploadInv

LEMMA OnlyStatus ==
    ASSUME file' = file, streamed' = streamed, tensor' = tensor, block' = block, done' = done,
           resident' = resident, kept' = kept, dropped' = dropped
    PROVE  /\ UploadTypes => UploadTypes'
           /\ Streaming => Streaming'
           /\ Mapping => Mapping'
           /\ \A b : Upload!ReadsBack(b)' <=> Upload!ReadsBack(b)
<1>1. /\ Count' = Count /\ Buffers' = Buffers
      /\ \A i : /\ Buf(i)' = Buf(i) /\ Base(i)' = Base(i) /\ Bytes(i)' = Bytes(i)
                /\ Upload!Encoded(i, 0, file[i].blocks)' = Upload!Encoded(i, 0, file[i].blocks)
      /\ \A b : Size(b)' = Size(b) /\ Upload!View(b)' = Upload!View(b)
  BY SameFile
<1>2. \A i : Sent(i)' = Sent(i)
  BY <1>1 DEF Sent
<1>3. \A b : Upload!ReadsBack(b)' <=> Upload!ReadsBack(b)
  BY DEF Upload!ReadsBack
<1>4. UploadTypes => UploadTypes'
  BY <1>1 DEF UploadTypes
<1>5. ASSUME Streaming PROVE Streaming'
  <2>1. Cursor' /\ Heads'
    BY <1>1, <1>2, <1>5 DEF Streaming, Cursor, Heads
  <2>2. Spans'
    BY <1>1, <1>2, <1>5 DEF Streaming, Spans, IsSpan, IsBehind
  <2>3. SentIsThere => SentIsThere'
    BY <1>1, <1>2 DEF SentIsThere
  <2>4. Counted => Counted'
    BY <1>1 DEF Counted
  <2> QED
    BY <1>1, <1>3, <1>5, <2>1, <2>2, <2>3, <2>4 DEF Streaming, Even
<1>6. ASSUME Mapping PROVE Mapping'
  <2>1. \A b : Sampled(b)' = Sampled(b)
    BY <1>1 DEF Sampled, Keep
  <2> QED
    BY <1>1, <1>6, <2>1 DEF Mapping, Upload!Unsampled
<1> QED
  BY <1>3, <1>4, <1>5, <1>6

LEMMA ShortNext == ASSUME UploadInv, Upload!ShortRead PROVE UploadInv'
<1>1. /\ file' = file /\ streamed' = streamed /\ tensor' = tensor /\ block' = block /\ done' = done
      /\ resident' = resident /\ kept' = kept /\ dropped' = dropped /\ status' = "short"
  BY DEF Upload!ShortRead
<1>2. Outcome'
  BY <1>1 DEF Outcome, Upload!HonestUploadLoads
<1> QED
  BY <1>1, <1>2, OnlyStatus DEF UploadInv

LEMMA FillBufferNext == ASSUME UploadInv, Upload!FillBuffer PROVE UploadInv'
<1>1. /\ ~streamed /\ status = "sending" /\ tensor <= Buffers /\ UploadTypes /\ Mapping
      /\ file' = file /\ streamed' = streamed /\ status' = status /\ tensor' = tensor + 1
      /\ block' = block
  BY DEF Upload!FillBuffer, UploadInv, Buffers
<1>2. kept' = [kept EXCEPT ![tensor] = Sampled(tensor)]
  BY DEF Upload!FillBuffer, Sampled, Keep, Size
<1>3. PICK lost \in BOOLEAN :
          /\ resident' = IF lost THEN resident ELSE [resident EXCEPT ![tensor] = Upload!View(tensor)]
          /\ dropped' = (dropped \/ lost)
  BY DEF Upload!FillBuffer
<1>4. PlanFacts
  BY <1>1, PlanHolds DEF UploadTypes
<1>5. tensor \in 1..Buffers /\ Buffers \in Nat \ {0}
  BY <1>1, <1>4 DEF UploadTypes, PlanFacts
<1>6. /\ Count' = Count /\ Buffers' = Buffers
      /\ \A b : Size(b)' = Size(b) /\ Upload!View(b)' = Upload!View(b)
  BY <1>1, SameFile
<1>7. \A b : Sampled(b)' = Sampled(b)
  BY <1>6 DEF Sampled, Keep
<1>8. /\ DOMAIN resident = 1..Buffers /\ DOMAIN kept = 1..Buffers
      /\ \A b \in 1..Buffers : DOMAIN resident[b] = 0..(Size(b) - 1)
  BY <1>1 DEF UploadTypes
<1>9. DOMAIN Upload!View(tensor) = 0..(Size(tensor) - 1)
  BY DEF Upload!View, Size
<1>10. /\ DOMAIN resident' = 1..Buffers /\ DOMAIN kept' = 1..Buffers
       /\ \A b \in 1..Buffers : DOMAIN resident'[b] = 0..(Size(b) - 1)
  BY <1>2, <1>3, <1>5, <1>8, <1>9
<1>11. UploadTypes'
  <2>1. file' \in Files /\ Upload!Planned(file)' /\ streamed' \in BOOLEAN
    BY <1>1 DEF UploadTypes
  <2>2. dropped' \in BOOLEAN
    <3>1. dropped \in BOOLEAN
      BY <1>1 DEF UploadTypes
    <3> QED
      BY <1>3, <3>1, Zenon
  <2>3. tensor' \in Nat \ {0} /\ block' \in Nat
    BY <1>1 DEF UploadTypes
  <2>4. DOMAIN kept' = 1..Buffers' /\ DOMAIN resident' = 1..Buffers'
    BY <1>6, <1>10
  <2>5. \A b \in 1..Buffers' : DOMAIN resident'[b] = 0..(Size(b)' - 1)
    BY <1>6, <1>10
  <2> QED
    BY <2>1, <2>2, <2>3, <2>4, <2>5, Zenon DEF UploadTypes
<1>12. Mapping'
  <2>1. tensor' <= Buffers + 1
    BY <1>1, <1>5
  <2>2. ASSUME NEW b \in 1..Buffers
        PROVE  kept'[b] = IF b < tensor' THEN Sampled(b) ELSE Upload!Unsampled
    BY <1>1, <1>2, <1>5, <1>8 DEF Mapping
  <2>3. ASSUME ~dropped', NEW b \in 1..Buffers, b < tensor' PROVE resident'[b] = Upload!View(b)
    <3>1. ~dropped /\ ~lost
      BY <1>3, <2>3, Zenon
    <3>2. resident' = [resident EXCEPT ![tensor] = Upload!View(tensor)]
      BY <1>3, <3>1
    <3> QED
      BY <1>1, <1>5, <1>8, <2>3, <3>1, <3>2 DEF Mapping
  <2> QED
    BY <1>6, <1>7, <2>1, <2>2, <2>3 DEF Mapping, Upload!Unsampled
<1>13. Outcome'
  BY <1>1 DEF Outcome, Upload!HonestUploadLoads
<1> QED
  BY <1>1, <1>11, <1>12, <1>13 DEF UploadInv

\* What a mapped upload sampled reads back where the mapping arrived.
LEMMA MappedReadsBack ==
    ASSUME NEW b, Size(b) \in Nat, kept[b] = Sampled(b), resident[b] = Upload!View(b)
    PROVE  Upload!ReadsBack(b)
<1>1. Keep(b) \in Nat /\ Size(b) - Keep(b) \in Nat
  BY ComputeAssumption DEF Keep
<1>2. ASSUME NEW from \in Nat, NEW s, s = Upload!Span(b, 0, Upload!View(b), from, Keep(b)),
             NEW c \in DOMAIN s.data
      PROVE  resident[b][s.at + c] = s.data[c]
  <2>1. s.at = from /\ s.data = [x \in 0..(Keep(b) - 1) |-> Upload!View(b)[from + x]]
    BY <1>2 DEF Upload!Span
  <2>2. c \in 0..(Keep(b) - 1) /\ s.data[c] = Upload!View(b)[from + c]
    BY <2>1
  <2> QED
    BY <2>1, <2>2
<1> DEFINE front == Upload!Span(b, 0, Upload!View(b), 0, Keep(b))
           back == Upload!Span(b, 0, Upload!View(b), Size(b) - Keep(b), Keep(b))
<1>3. kept[b]["head"] = <<front>> /\ kept[b]["tail"] = <<back>>
  BY DEF Sampled
<1>4. <<front>>[1] = front /\ <<back>>[1] = back
  OBVIOUS
<1>5. /\ \A c \in DOMAIN front.data : resident[b][front.at + c] = front.data[c]
      /\ \A c \in DOMAIN back.data : resident[b][back.at + c] = back.data[c]
  <2>1. 0 \in Nat
    OBVIOUS
  <2> QED
    BY <1>1, <1>2, <2>1
<1> HIDE DEF front, back
<1> QED
  BY <1>3, <1>4, <1>5 DEF Upload!ReadsBack

LEMMA FinishNext == ASSUME UploadInv, Upload!Finish PROVE UploadInv'
<1>1. /\ file' = file /\ streamed' = streamed /\ tensor' = tensor /\ block' = block /\ done' = done
      /\ resident' = resident /\ kept' = kept /\ dropped' = dropped
      /\ UploadTypes /\ (streamed => Streaming) /\ (~streamed => Mapping)
      /\ tensor > (IF streamed THEN Count ELSE Buffers)
  BY DEF Upload!Finish, UploadInv, Count, Buffers
<1>2. /\ DOMAIN kept = 1..Buffers
      /\ status' = IF streamed /\ done # Upload!Total(file) THEN "miscounted"
                   ELSE IF \E b \in DOMAIN kept : ~Upload!ReadsBack(b) THEN "unverified" ELSE "ok"
  BY <1>1 DEF Upload!Finish, UploadTypes
<1>3. PlanFacts
  BY <1>1, PlanHolds DEF UploadTypes
<1>4. Count \in Nat /\ Buffers \in Nat \ {0} /\ tensor \in Nat \ {0}
  BY <1>1, <1>3 DEF PlanFacts, UploadTypes
<1>5. ASSUME status' = "ok" PROVE \A b \in 1..Buffers : Upload!ReadsBack(b)
  BY <1>2, <1>5
<1>6. ASSUME Even(file), streamed PROVE done = Upload!Total(file)
  <2>1. tensor = Count + 1 /\ ~(tensor <= Count) /\ tensor - 1 = Count
    BY <1>1, <1>4, <1>6 DEF Streaming, Cursor
  <2>2. done = Upload!TotalOf(Upload!Packed(file)[Count].sizes) + 0
    BY <1>1, <1>6, <2>1 DEF Streaming, Counted
  <2>3. Upload!TotalOf(Upload!Packed(file)[Count].sizes) \in Nat
    <3>1. IsFile(file) /\ Upload!Planned(file)
      BY <1>1, FilesAre DEF UploadTypes
    <3>2. Upload!Packed(file)[Count].sizes \in Seq(Nat)
      BY <1>4, <3>1, PackedOk DEF PlanOk, Count
    <3> QED
      BY <3>2, TotalOfMore
  <2> QED
    BY <2>2, <2>3 DEF Upload!Total, Upload!Plan, Count
<1>7. ASSUME ~dropped PROVE \A b \in 1..Buffers : Upload!ReadsBack(b)
  <2>1. CASE streamed
    BY <1>1, <1>7, <2>1 DEF Streaming
  <2>2. ASSUME ~streamed, NEW b \in 1..Buffers PROVE Upload!ReadsBack(b)
    <3>1. b < tensor /\ Size(b) \in Nat
      BY <1>1, <1>3, <1>4, <2>2 DEF PlanFacts
    <3>2. kept[b] = Sampled(b) /\ resident[b] = Upload!View(b)
      BY <1>1, <1>7, <2>2, <3>1 DEF Mapping
    <3> QED
      BY <3>1, <3>2, MappedReadsBack
  <2> QED
    BY <2>1, <2>2
<1>8. ASSUME Even(file), status' \in {"miscounted", "unverified"} PROVE dropped
  BY <1>2, <1>6, <1>7, <1>8
<1>9. /\ UploadTypes => UploadTypes'
      /\ Streaming => Streaming'
      /\ Mapping => Mapping'
      /\ \A b : Upload!ReadsBack(b)' <=> Upload!ReadsBack(b)
  BY <1>1, OnlyStatus
<1>10. Count' = Count /\ Buffers' = Buffers
  BY <1>1, SameFile
<1>11. Outcome'
  <2>1. status' = "ok" => \A b \in 1..Buffers' : Upload!ReadsBack(b)'
    BY <1>5, <1>9, <1>10
  <2>2. tensor' > (IF streamed' THEN Count' ELSE Buffers')
    BY <1>1, <1>10
  <2>3. Even(file)' /\ status' \in {"miscounted", "unverified"} => dropped'
    BY <1>1, <1>8 DEF Even
  <2> QED
    BY <2>1, <2>2, <2>3 DEF Outcome, Upload!HonestUploadLoads
<1> QED
  BY <1>1, <1>9, <1>11 DEF UploadInv

LEMMA UploadStep == ASSUME UploadInv, [Upload!Next]_uploadVars PROVE UploadInv'
<1>1. CASE Upload!SendChunk
  BY <1>1, SendNext
<1>2. CASE Upload!ShortRead
  BY <1>2, ShortNext
<1>3. CASE Upload!FillBuffer
  BY <1>3, FillBufferNext
<1>4. CASE Upload!Finish
  BY <1>4, FinishNext
<1>5. CASE UNCHANGED uploadVars
  <2>1. /\ file' = file /\ streamed' = streamed /\ tensor' = tensor /\ block' = block /\ done' = done
        /\ resident' = resident /\ kept' = kept /\ dropped' = dropped /\ status' = status
    BY <1>5 DEF uploadVars
  <2>2. /\ UploadTypes => UploadTypes'
        /\ Streaming => Streaming'
        /\ Mapping => Mapping'
        /\ \A b : Upload!ReadsBack(b)' <=> Upload!ReadsBack(b)
    BY <2>1, OnlyStatus
  <2>3. Count' = Count /\ Buffers' = Buffers
    BY <2>1, SameFile
  <2>4. Outcome => Outcome'
    BY <2>1, <2>2, <2>3 DEF Outcome, Upload!HonestUploadLoads, Even
  <2> QED
    BY <2>1, <2>2, <2>4 DEF UploadInv
<1> QED
  BY <1>1, <1>2, <1>3, <1>4, <1>5 DEF Upload!Next

LEMMA UploadApart == ASSUME UploadInv PROVE Upload!PackedApart
<1>1. PlanFacts
  BY PlanHolds DEF UploadInv, UploadTypes
<1> SUFFICES ASSUME NEW i \in 1..Count, NEW j \in 1..Count
             PROVE  /\ Base(i) % Align = 0 /\ Base(i) + Bytes(i) <= Size(Buf(i))
                    /\ Size(Buf(i)) <= Target
                    /\ (i < j /\ Buf(i) = Buf(j)) => Base(i) + Bytes(i) <= Base(j)
  BY <1>1 DEF PlanFacts, Upload!PackedApart, Base, Bytes, Size, Buf
<1> QED
  BY <1>1 DEF PlanFacts

\* Where a view shows a tensor's cells.
LEMMA ViewShows ==
    ASSUME PlanFacts, NEW i \in 1..Count, NEW c \in 0..(Bytes(i) - 1)
    PROVE  Upload!View(Buf(i))[Base(i) + c] = Upload!Encoded(i, 0, file[i].blocks)[c]
<1>1. /\ Buf(i) \in 1..Buffers /\ Base(i) \in Nat /\ Bytes(i) \in Nat \ {0}
      /\ Base(i) + Bytes(i) <= Size(Buf(i)) /\ c \in Nat /\ c <= Bytes(i) - 1
  BY DEF PlanFacts
<1>2. Size(Buf(i)) \in Nat
  BY <1>1 DEF PlanFacts
<1> DEFINE x == Base(i) + c  here == Upload!Here(Buf(i), x)
<1>3. x \in 0..(Size(Buf(i)) - 1) /\ x - Base(i) = c
  BY <1>1, <1>2
<1>4. here = {j \in 1..Count : Buf(j) = Buf(i) /\ x - Base(j) \in 0..(Bytes(j) - 1)}
  BY DEF Upload!Here, PlanFacts, Buf, Base, Bytes
<1>5. ASSUME NEW j \in 1..Count, Buf(j) = Buf(i), x - Base(j) \in 0..(Bytes(j) - 1) PROVE j = i
  <2>1. Base(j) \in Nat /\ Bytes(j) \in Nat \ {0} /\ Base(j) <= x /\ x < Base(j) + Bytes(j)
    <3>1. Base(j) \in Nat /\ Bytes(j) \in Nat \ {0}
      BY DEF PlanFacts
    <3> QED
      BY <1>3, <1>5, <3>1
  <2>2. CASE j < i
    <3>1. Base(j) + Bytes(j) <= Base(i)
      BY <1>5, <2>2 DEF PlanFacts
    <3> QED
      BY <1>1, <2>1, <3>1
  <2>3. CASE i < j
    <3>1. Base(i) + Bytes(i) <= Base(j)
      BY <1>5, <2>3 DEF PlanFacts
    <3> QED
      BY <1>1, <2>1, <3>1
  <2> QED
    BY <2>2, <2>3 DEF PlanFacts
<1>6. here = {i}
  <2>1. i \in here
    BY <1>3, <1>4
  <2> QED
    BY <1>4, <1>5, <2>1
<1> HIDE DEF here, x
<1>7. (CHOOSE j \in here : TRUE) = i
  BY <1>6
<1>8. Upload!View(Buf(i))[x]
          = Upload!Encoded(CHOOSE j \in here : TRUE, 0, file[CHOOSE j \in here : TRUE].blocks)
                [x - Upload!Handle(CHOOSE j \in here : TRUE).base]
  <2>1. x \in 0..(Upload!Plan(file).sizes[Buf(i)] - 1) /\ here # {}
    BY <1>3, <1>6 DEF Size
  <2> QED
    BY <2>1 DEF Upload!View, here
<1>9. Upload!View(Buf(i))[x] = Upload!Encoded(i, 0, file[i].blocks)[x - Base(i)]
  BY <1>7, <1>8 DEF Base
<1> QED
  BY <1>3, <1>9 DEF x

LEMMA UploadIsFiled == ASSUME UploadInv PROVE Upload!ResidentAsFiled
<1>1. PlanFacts /\ UploadTypes /\ Outcome
  BY PlanHolds DEF UploadInv, UploadTypes
<1>2. Count \in Nat /\ Buffers \in Nat \ {0} /\ tensor \in Nat \ {0} /\ DOMAIN file = 1..Count
  BY <1>1 DEF PlanFacts, UploadTypes
<1> SUFFICES ASSUME status = "ok", ~dropped, NEW i \in 1..Count, NEW c \in 0..(Bytes(i) - 1)
             PROVE  resident[Buf(i)][Base(i) + c] = Upload!Encoded(i, 0, file[i].blocks)[c]
  BY <1>2 DEF Upload!ResidentAsFiled, Buf, Base, Bytes
<1>3. CASE streamed
  <2>1. SentIsThere /\ tensor > Count
    BY <1>1, <1>3 DEF UploadInv, Streaming, Outcome
  <2>2. Sent(i) = Bytes(i)
    BY <1>2, <2>1 DEF Sent
  <2> QED
    BY <2>1, <2>2 DEF SentIsThere
<1>4. CASE ~streamed
  <2>1. Mapping /\ tensor > Buffers
    BY <1>1, <1>4 DEF UploadInv, Outcome
  <2>2. Buf(i) \in 1..Buffers /\ Buf(i) < tensor
    BY <1>1, <1>2, <2>1 DEF PlanFacts
  <2>3. resident[Buf(i)] = Upload!View(Buf(i))
    BY <2>1, <2>2 DEF Mapping
  <2> QED
    BY <1>1, <2>3, ViewShows
<1> QED
  BY <1>3, <1>4

LEMMA EmptyIsNoticed == ASSUME UploadInv PROVE Upload!EmptyBufferIsNoticed
<1>1. PlanFacts /\ UploadTypes /\ Outcome
  BY PlanHolds DEF UploadInv, UploadTypes
<1>2. Count \in Nat /\ Buffers \in Nat \ {0} /\ tensor \in Nat \ {0} /\ DOMAIN file = 1..Count
  BY <1>1 DEF PlanFacts, UploadTypes
<1> SUFFICES ASSUME status = "ok", NEW b \in 1..Buffers, DOMAIN resident[b] # {}
             PROVE  \E c \in DOMAIN resident[b] : resident[b][c] # Upload!Zero
  BY <1>1 DEF Upload!EmptyBufferIsNoticed, UploadTypes
<1>3. Upload!ReadsBack(b) /\ DOMAIN resident[b] = 0..(Size(b) - 1) /\ Size(b) \in Nat
  BY <1>1 DEF Outcome, UploadTypes, PlanFacts
<1>4. Size(b) > 0
  BY <1>3
<1>5. PICK i \in 1..Count : Buf(i) = b /\ Base(i) = 0
  BY <1>1, <1>4 DEF PlanFacts
<1>6. Bytes(i) \in Nat \ {0}
  BY <1>1 DEF PlanFacts
<1>7. CASE streamed
  <2>1. Heads /\ Spans /\ tensor > Count
    BY <1>1, <1>7 DEF UploadInv, Streaming, Outcome
  <2>2. Sent(i) > 0
    BY <1>2, <1>6, <2>1 DEF Sent
  <2>3. PICK s : s = kept[b]["head"][1] /\ kept[b]["head"] # <<>>
    BY <1>5, <2>1, <2>2 DEF Heads
  <2>4. s.at \in 0..(Size(b) - 1) /\ 0 \in DOMAIN s.data /\ s.data[0] # Upload!Zero
    BY <2>1, <2>3 DEF Spans, IsSpan
  <2>5. resident[b][s.at + 0] = s.data[0]
    BY <1>3, <2>3, <2>4 DEF Upload!ReadsBack
  <2>6. s.at + 0 = s.at
    BY <1>3, <2>4
  <2> QED
    BY <1>3, <2>4, <2>5, <2>6
<1>8. CASE ~streamed
  <2>1. Mapping /\ tensor > Buffers
    BY <1>1, <1>8 DEF UploadInv, Outcome
  <2>2. kept[b] = Sampled(b)
    BY <1>2, <2>1 DEF Mapping
  <2> DEFINE s == Upload!Span(b, 0, Upload!View(b), 0, Keep(b))
  <2>3. kept[b]["head"] = <<s>> /\ <<s>>[1] = s /\ <<s>> # <<>>
    BY <2>2 DEF Sampled
  <2>4. Keep(b) \in Nat \ {0}
    BY <1>3, <1>4, ComputeAssumption DEF Keep
  <2>5. s.at = 0 /\ 0 \in DOMAIN s.data /\ s.data[0] = Upload!View(b)[0]
    BY <2>4 DEF Upload!Span
  <2> HIDE DEF s
  <2>6. resident[b][0] = Upload!View(b)[0]
    <3>0. PICK r : r = kept[b]["head"][1] /\ kept[b]["head"] # <<>> /\ r = s
      BY <2>3
    <3>1. resident[b][r.at + 0] = r.data[0]
      BY <1>3, <2>5, <3>0 DEF Upload!ReadsBack
    <3>2. s.at + 0 = 0
      BY <2>5
    <3> QED
      BY <2>5, <3>0, <3>1, <3>2
  <2>7. Upload!View(b)[0] = Upload!Encoded(i, 0, file[i].blocks)[0]
    <3>1. 0 \in 0..(Bytes(i) - 1) /\ Base(i) + 0 = 0
      BY <1>5, <1>6
    <3> QED
      BY <1>1, <1>5, <3>1, ViewShows
  <2>8. Upload!Encoded(i, 0, file[i].blocks)[0] # Upload!Zero
    <3>1. 0 \in 0..(file[i].blocks * file[i].dst - 1)
      BY <1>1, <1>6 DEF PlanFacts
    <3>2. Upload!Encoded(i, 0, file[i].blocks)[0] = <<i, 0 + 0 \div file[i].dst, 0 % file[i].dst>>
      BY <3>1, EncodedIs
    <3> QED
      BY <3>2 DEF Upload!Zero
  <2>9. 0 \in DOMAIN resident[b]
    BY <1>3, <1>4
  <2> QED
    BY <2>6, <2>7, <2>8, <2>9
<1> QED
  BY <1>7, <1>8

UploadRuns == part = "upload" => UploadInv

\* ComputeSpec, the upload: of any file, and with any buffer, alignment, chunk and sample,
\* tensors are packed apart, an upload no driver spoiled holds every block where the shaders
\* look for it, a buffer that stayed empty is noticed, and no honest upload is refused.
THEOREM ResidentAsFiledHolds == ComputeSpec => []ResidentAsFiled
<1>1. ComputeInit => UploadRuns
  BY UploadInit DEF ComputeInit, UploadRuns
<1>2. ASSUME UploadRuns, [ComputeNext]_standaloneVars PROVE UploadRuns'
  <2>1. CASE WorkgroupNext \/ DeviceNext \/ ShapeNext
    BY <2>1 DEF UploadRuns, WorkgroupNext, DeviceNext, ShapeNext
  <2>2. CASE UploadNext
    BY <1>2, <2>2, UploadStep DEF UploadRuns, UploadNext
  <2>3. CASE UNCHANGED standaloneVars
    <3>1. part' = part /\ UNCHANGED uploadVars
      BY <2>3 DEF standaloneVars
    <3>2. UploadInv => UploadInv'
      BY <3>1, UploadStep
    <3> QED
      BY <1>2, <3>1, <3>2 DEF UploadRuns
  <2> QED
    BY <1>2, <2>1, <2>2, <2>3 DEF ComputeNext
<1>3. UploadRuns => ResidentAsFiled
  <2> SUFFICES ASSUME UploadInv
               PROVE  /\ Upload!PackedApart /\ Upload!ResidentAsFiled
                      /\ Upload!EmptyBufferIsNoticed /\ (Unpadded => Upload!HonestUploadLoads)
    BY DEF UploadRuns, ResidentAsFiled
  <2>1. Unpadded => Upload!HonestUploadLoads
    BY DEF UploadInv, Outcome, Unpadded, Even
  <2> QED
    BY <2>1, UploadApart, UploadIsFiled, EmptyIsNoticed
<1> QED
  BY <1>1, <1>2, <1>3, PTL DEF ComputeSpec

-----------------------------------------------------------------------------
(* Rotations.                                                              *)

LEMMA RotatesAlikeHolds ==
    ASSUME NEW t \in Nat, NEW heads \in Nat \ {0}, NEW hd \in Nat, NEW rot \in Nat, NEW base \in Nat,
           NEW nx \in Nat \ {0}
    PROVE  Shaders!RotatesAlike(t, heads, hd, rot, base, nx)
<1>1. \A r \in Shaders!Upto(t * heads) :
          Shaders!RopeRow(r, rot, heads, base) = Shaders!RopeNeox(0, rot, base + r \div heads)
  BY DEF Shaders!RopeRow, Shaders!RopeNeox, Shaders!Upto, Shaders!Turn
<1>2. \A r \in Shaders!Upto(t * heads) :
          Shaders!Rope2d(r, hd, heads, nx) = Shaders!RopeHeads(r, hd, heads, nx)
  BY DEF Shaders!Rope2d, Shaders!RopeHeads, Shaders!RopeNeox, Shaders!Upto, Shaders!Turn
<1> QED
  BY <1>1, <1>2 DEF Shaders!RotatesAlike

-----------------------------------------------------------------------------
(* The causal convolution.                                                 *)

IsSlid(f, batch, state, k, n) ==
    f = [i \in 0..n |-> IF i = 0 THEN state ELSE Shaders!Slid(f[i - 1], k, batch[i - 1])]

LEMMA ShiftSlides ==
    ASSUME NEW k \in Nat \ {0}, NEW batch, NEW state, NEW i \in Nat \ {0}
    PROVE  Shaders!ConvShift(batch, state, k, i)
               = Shaders!Slid(Shaders!ConvShift(batch, state, k, i - 1), k, batch[i - 1])
<1> DEFINE before == Shaders!ConvShift(batch, state, k, i - 1)
           after == Shaders!ConvShift(batch, state, k, i)
           slid == Shaders!Slid(before, k, batch[i - 1])
<1>1. ASSUME NEW r \in 0..(k - 2), r # k - 2 PROVE before[r + 1] = after[r]
  BY <1>1 DEF Shaders!ConvShift, Shaders!Upto
<1>2. ASSUME NEW r \in 0..(k - 2), r = k - 2 PROVE after[r] = batch[i - 1]
  BY <1>2 DEF Shaders!ConvShift, Shaders!Upto
<1>3. after = [r \in 0..(k - 2) |-> after[r]]
  BY DEF Shaders!ConvShift, Shaders!Upto
<1>4. slid = [r \in 0..(k - 2) |-> IF r = k - 2 THEN batch[i - 1] ELSE before[r + 1]]
  BY DEF Shaders!Slid, Shaders!Upto
<1> QED
  BY <1>1, <1>2, <1>3, <1>4

LEMMA Window ==
    ASSUME NEW k \in Nat \ {0}, NEW n \in Nat, NEW batch, NEW state,
           state = [r \in Shaders!Upto(k - 1) |-> state[r]]
    PROVE  Shaders!SlidOver(batch, state, k, n) = Shaders!ConvShift(batch, state, k, n)
<1> DEFINE shifts == [i \in 0..n |-> Shaders!ConvShift(batch, state, k, i)]
           next == [i \in 0..n |-> IF i = 0 THEN state ELSE Shaders!Slid(shifts[i - 1], k, batch[i - 1])]
           f == CHOOSE f : IsSlid(f, batch, state, k, n)
<1>1. shifts[0] = state
  <2>1. \A r \in Shaders!Upto(k - 1) : 0 + r - (k - 1) < 0 /\ 0 + r - (k - 1) + k - 1 = r
    BY DEF Shaders!Upto
  <2>2. Shaders!ConvShift(batch, state, k, 0) = [r \in Shaders!Upto(k - 1) |-> state[r]]
    BY <2>1 DEF Shaders!ConvShift, Shaders!Upto
  <2> QED
    BY <2>2
<1>2. ASSUME NEW i \in 0..n PROVE shifts[i] = next[i]
  <2>1. CASE i = 0
    BY <2>1, <1>1
  <2>2. CASE i # 0
    BY <2>2, ShiftSlides
  <2> QED
    BY <2>1, <2>2
<1>3. IsSlid(shifts, batch, state, k, n)
  BY <1>2 DEF IsSlid
<1>4. IsSlid(f, batch, state, k, n)
  BY <1>3
<1>5. Shaders!SlidOver(batch, state, k, n) = f[n]
  BY DEF Shaders!SlidOver, IsSlid
<1> HIDE DEF f, shifts, next
<1>6. f[0] = shifts[0] /\ \A i \in 1..n : f[i - 1] = shifts[i - 1] => f[i] = shifts[i]
  BY <1>3, <1>4 DEF IsSlid
<1>7. f[n] = shifts[n]
  BY <1>6, SumsAgree
<1> QED
  BY <1>5, <1>7 DEF shifts

LEMMA ConvolvesAlikeHolds ==
    ASSUME NEW k \in Nat \ {0}, NEW cut \in Nat \X Nat PROVE Shaders!ConvolvesAlike(k, cut)
<1> DEFINE state == [r \in Shaders!Upto(k - 1) |-> <<"before", r>>]
           batch(b) == [i \in Shaders!Upto(cut[b]) |-> <<b, i>>]
           left == Shaders!ConvShift(batch(1), state, k, cut[1])
           slid == Shaders!SlidOver(batch(1), state, k, cut[1])
<1>1. left = slid
  BY Window
<1>2. left = [r \in Shaders!Upto(k - 1) |-> left[r]]
  BY DEF Shaders!ConvShift
<1> HIDE DEF state, batch, left, slid
<1>3. ASSUME NEW tok \in Shaders!Upto(cut[2]), NEW j \in Shaders!Upto(k)
      PROVE  Shaders!ConvReads(batch(2), left, k, tok, j)
                 = (IF j = k - 1 THEN batch(2)[tok] ELSE Shaders!SlidOver(batch(2), slid, k, tok)[j])
  <2>1. tok \in Nat
    BY DEF Shaders!Upto
  <2>2. Shaders!SlidOver(batch(2), slid, k, tok) = Shaders!ConvShift(batch(2), left, k, tok)
    BY <1>1, <1>2, <2>1, Window
  <2>3. j # k - 1 => j \in Shaders!Upto(k - 1)
    BY DEF Shaders!Upto
  <2> QED
    BY <2>2, <2>3 DEF Shaders!ConvReads, Shaders!ConvShift
<1> QED
  BY <1>1, <1>3 DEF Shaders!ConvolvesAlike, state, batch, left, slid

-----------------------------------------------------------------------------
(* Gathers.                                                                *)

\* A place r in the q-th run of d cells.
LEMMA InRun ==
    ASSUME NEW d \in Nat \ {0}, NEW q \in Nat, NEW r \in 0..(d - 1)
    PROVE  /\ (q * d + r) \div d = q /\ (q * d + r) % d = r
           /\ q * d \in Nat /\ q * d + r \in Nat
<1>1. q * d = d * q /\ d * q \in Nat
  OBVIOUS
<1>2. (d * q + r) % d = r /\ (d * q + r) \div d = q
  BY Remainder
<1> QED
  BY <1>1, <1>2

\* It is before the end of n runs.
LEMMA BeforeEnd ==
    ASSUME NEW d \in Nat \ {0}, NEW n \in Nat, NEW q \in 0..(n - 1), NEW r \in 0..(d - 1)
    PROVE  q * d + r \in 0..(n * d - 1) /\ n * d \in Nat
<1>1. q * d \in Nat /\ (q + 1) * d = q * d + d /\ n * d \in Nat
  OBVIOUS
<1>2. PICK m \in Nat : n = q + 1 + m
  BY n - (q + 1) \in Nat /\ n = q + 1 + (n - (q + 1))
<1>3. n * d = (q + 1) * d + m * d /\ m * d \in Nat
  BY <1>2
<1> QED
  BY <1>1, <1>3

LEMMA QueriesAlike ==
    ASSUME NEW heads \in Nat \ {0}, NEW hd \in Nat \ {0}, NEW tok \in Nat, NEW h \in Nat,
           NEW l \in 0..(hd - 1), NEW gate \in BOOLEAN
    PROVE  Shaders!SplitHalf((tok * heads + h) * hd + l, hd, IF gate THEN hd ELSE 0)
               = Shaders!QueryHalf(tok, h, l, heads, hd, gate)
<1> DEFINE row == tok * heads + h  shift == IF gate THEN hd ELSE 0
<1>1. row \in Nat /\ shift \in Nat
  OBVIOUS
<1>2. Shaders!SplitHalf(row * hd + l, hd, shift) = row * 2 * hd + shift + l
  BY <1>1, InRun DEF Shaders!SplitHalf
<1>3. row * 2 * hd = tok * heads * 2 * hd + h * 2 * hd
  OBVIOUS
<1>4. Shaders!QueryHalf(tok, h, l, heads, hd, gate) = tok * heads * 2 * hd + h * 2 * hd + shift + l
  BY DEF Shaders!QueryHalf
<1> QED
  BY <1>2, <1>3, <1>4

LEMMA SlicesAlike ==
    ASSUME NEW n \in Nat \ {0}, NEW e \in Nat \ {0}, NEW tok \in Nat, NEW il \in Nat, NEW l \in 0..(e - 1)
    PROVE  Shaders!CopyRows(tok * e + l, e, e * n, il * e) = Shaders!PleSlice(tok, il, l, e, n)
<1>1. (tok * e + l) \div e = tok /\ tok * e \in Int
  BY InRun
<1>2. Shaders!CopyRows(tok * e + l, e, e * n, il * e)
          = il * e + tok * (e * n) + (tok * e + l - tok * e)
  <2> DEFINE i == tok * e + l
  <2>1. i \div e = tok
    BY <1>1
  <2> HIDE DEF i
  <2>2. Shaders!CopyRows(i, e, e * n, il * e) = il * e + tok * (e * n) + (i - tok * e)
    BY <2>1, Zenon DEF Shaders!CopyRows
  <2> QED
    BY <2>2 DEF i
<1>3. Shaders!PleSlice(tok, il, l, e, n) = tok * (e * n) + il * e + l
  BY DEF Shaders!PleSlice
<1>4. PICK a \in Int, b \in Int, c \in Int : a = il * e /\ b = tok * (e * n) /\ c = tok * e
  OBVIOUS
<1>5. a + b + (c + l - c) = b + a + l
  OBVIOUS
<1> QED
  BY <1>2, <1>3, <1>4, <1>5

LEMMA PoolsAlike ==
    ASSUME NEW hd \in Nat \ {0}, NEW k \in Nat \ {0}, NEW nx \in Nat \ {0}, NEW bx \in 0..(nx - 1),
           NEW by \in Nat, NEW l \in 0..(hd - 1)
    PROVE  Shaders!PoolKernel((by * nx + bx) * hd + l, hd, k, nx * k) = Shaders!Pool(bx, by, l, hd, k, nx * k)
<1> DEFINE r == by * nx + bx
<1>1. r \in Nat /\ r \div nx = by /\ r % nx = bx
  BY InRun
<1>2. (nx * k) \div k = nx
  <2>1. nx * k + 0 = nx * k
    OBVIOUS
  <2> QED
    BY <2>1, InRun
<1> HIDE DEF r
<1>3. (r * hd + l) \div hd = r /\ (r * hd + l) % hd = l
  BY <1>1, InRun
<1>4. Shaders!PoolKernel(r * hd + l, hd, k, nx * k) = Shaders!Pool(bx, by, l, hd, k, nx * k)
  <2> DEFINE spot(ky, kx) == ((by * k + ky) * (nx * k) + bx * k + kx) * hd + l
  <2>1. Shaders!PoolKernel(r * hd + l, hd, k, nx * k) = {spot(ky, kx) : ky, kx \in Shaders!Upto(k)}
    BY <1>1, <1>2, <1>3 DEF Shaders!PoolKernel
  <2>2. Shaders!Pool(bx, by, l, hd, k, nx * k) = {spot(ky, kx) : ky, kx \in Shaders!Upto(k)}
    BY DEF Shaders!Pool
  <2> QED
    BY <2>1, <2>2
<1> QED
  BY <1>4 DEF r

PatchAlike(px, py, ch, ky, kx, k, w, h, nx) ==
    Shaders!Im2col(py * nx + px, Shaders!PatchEmbed(px, py, ch, ky, kx, k, w, h).filter, k, w, h, nx)
        = Shaders!PatchEmbed(px, py, ch, ky, kx, k, w, h).img

LEMMA PatchesAlike ==
    ASSUME NEW k \in Nat \ {0}, NEW nx \in Nat \ {0}, NEW w \in Nat, NEW h \in Nat,
           NEW px \in 0..(nx - 1), NEW py \in Nat, NEW ch \in Nat, NEW ky \in 0..(k - 1), NEW kx \in 0..(k - 1)
    PROVE  PatchAlike(px, py, ch, ky, kx, k, w, h, nx)
<1> DEFINE meets == Shaders!PatchEmbed(px, py, ch, ky, kx, k, w, h)
           pi == py * nx + px  f == ch * k * k + ky * k + kx
<1>1. pi \div nx = py /\ pi % nx = px
  BY InRun
<1>2. k * k \in Nat \ {0} /\ ky * k + kx \in 0..(k * k - 1)
  <2>1. k * k \in Nat /\ k * k # 0
    OBVIOUS
  <2> QED
    BY <2>1, BeforeEnd
<1>3. f = ch * (k * k) + (ky * k + kx) /\ f = (ch * k + ky) * k + kx /\ ch * k + ky \in Nat
  OBVIOUS
<1>4. f \div (k * k) = ch /\ f % (k * k) = ky * k + kx
  <2> DEFINE d == k * k  r == ky * k + kx
  <2>1. (ch * d + r) \div d = ch /\ (ch * d + r) % d = r
    BY <1>2, InRun
  <2> QED
    BY <1>3, <2>1
<1>5. (ky * k + kx) \div k = ky
  BY InRun
<1>6. f % k = kx
  BY <1>3, InRun
<1>7. meets.filter = f
  BY DEF Shaders!PatchEmbed
<1>8. meets.img = ch * (w * h) + (py * k + ky) * w + px * k + kx
  BY DEF Shaders!PatchEmbed
<1> HIDE DEF pi, f, meets
<1>9. Shaders!Im2col(pi, f, k, w, h, nx) = ch * w * h + (py * k + ky) * w + px * k + kx
  BY <1>1, <1>4, <1>5, <1>6, Zenon DEF Shaders!Im2col
<1>10. ch * w * h = ch * (w * h)
  OBVIOUS
<1> QED
  BY <1>7, <1>8, <1>9, <1>10 DEF pi, meets, PatchAlike

LEMMA GathersAlikeHolds ==
    ASSUME NEW t \in Nat, NEW heads \in Nat \ {0}, NEW hd \in Nat \ {0}, NEW k \in Nat \ {0}, NEW nx \in Nat \ {0}
    PROVE  Shaders!GathersAlike(t, heads, hd, k, nx)
<1>1. \A n \in Nat : \A x \in Shaders!Upto(n) : x \in 0..(n - 1) /\ x \in Nat
  BY DEF Shaders!Upto
<1>2. nx * k \in Nat /\ t * k \in Nat
  OBVIOUS
<1>3. ASSUME NEW tok \in Shaders!Upto(t), NEW h \in Shaders!Upto(heads), NEW l \in Shaders!Upto(hd),
             NEW gate \in BOOLEAN
      PROVE  Shaders!SplitHalf((tok * heads + h) * hd + l, hd, IF gate THEN hd ELSE 0)
                 = Shaders!QueryHalf(tok, h, l, heads, hd, gate)
  <2>1. tok \in Nat /\ h \in Nat /\ l \in 0..(hd - 1)
    BY <1>1
  <2> QED
    BY <2>1, QueriesAlike
<1>4. ASSUME NEW tok \in Shaders!Upto(t), NEW il \in Shaders!Upto(heads), NEW l \in Shaders!Upto(hd)
      PROVE  Shaders!CopyRows(tok * hd + l, hd, hd * heads, il * hd) = Shaders!PleSlice(tok, il, l, hd, heads)
  <2>1. tok \in Nat /\ il \in Nat /\ l \in 0..(hd - 1)
    BY <1>1
  <2> QED
    BY <2>1, SlicesAlike
<1>5. ASSUME NEW bx \in Shaders!Upto(nx), NEW by \in Shaders!Upto(t), NEW l \in Shaders!Upto(hd)
      PROVE  Shaders!PoolKernel((by * nx + bx) * hd + l, hd, k, nx * k) = Shaders!Pool(bx, by, l, hd, k, nx * k)
  <2>1. by \in Nat /\ bx \in 0..(nx - 1) /\ l \in 0..(hd - 1)
    BY <1>1
  <2> QED
    BY <2>1, PoolsAlike
<1>6. ASSUME NEW px \in Shaders!Upto(nx), NEW py \in Shaders!Upto(t), NEW ch \in Shaders!Upto(3),
             NEW ky \in Shaders!Upto(k), NEW kx \in Shaders!Upto(k)
      PROVE  LET meets == Shaders!PatchEmbed(px, py, ch, ky, kx, k, nx * k, t * k)
             IN  Shaders!Im2col(py * nx + px, meets.filter, k, nx * k, t * k, nx) = meets.img
  <2>1. px \in 0..(nx - 1) /\ py \in Nat /\ ch \in Nat /\ ky \in 0..(k - 1) /\ kx \in 0..(k - 1)
    BY <1>1
  <2>2. PICK w \in Nat, h \in Nat : w = nx * k /\ h = t * k
    BY <1>2
  <2>3. PatchAlike(px, py, ch, ky, kx, k, w, h, nx)
    BY <2>1, PatchesAlike
  <2> QED
    BY <2>2, <2>3 DEF PatchAlike
<1> QED
  BY <1>3, <1>4, <1>5, <1>6 DEF Shaders!GathersAlike

-----------------------------------------------------------------------------
(* Who writes what.                                                        *)

\* A function with a function back is one to one and onto.
LEMMA BackAndForth ==
    ASSUME NEW W, NEW S, IsFiniteSet(S), NEW f, NEW back,
           \A w \in W : f[w] \in S /\ back[f[w]] = w,
           \A s \in S : back[s] \in W /\ f[back[s]] = s
    PROVE  IsFiniteSet(W) /\ Cardinality(W) = Cardinality(S)
<1> DEFINE g == [s \in S |-> back[s]]
<1>1. g \in [S -> W]
  OBVIOUS
<1>2. \A s, t \in S : g[s] = g[t] => s = t
  OBVIOUS
<1>3. \A w \in W : \E s \in S : g[s] = w
  OBVIOUS
<1> HIDE DEF g
<1>4. g \in Bijection(S, W)
  BY <1>1, <1>2, <1>3, Fun_IsBij
<1>5. ExistsBijection(S, W)
  BY <1>4, Fun_ExistsBij
<1> QED
  BY <1>5, FS_Bijection

\* Threads W, each with the output it stores.
Stores(W, f) == {<<w, f[w]>> : w \in W}

LEMMA OnceEach ==
    ASSUME NEW W, NEW S, IsFiniteSet(S), NEW f, NEW back,
           \A w \in W : f[w] \in S /\ back[f[w]] = w,
           \A s \in S : back[s] \in W /\ f[back[s]] = s
    PROVE  {w[2] : w \in Stores(W, f)} = S /\ Cardinality(Stores(W, f)) = Cardinality(S)
<1> DEFINE writes == Stores(W, f)
           to == [w \in writes |-> w[2]]
           from == [s \in S |-> <<back[s], s>>]
<1>1. \A w \in writes : w[2] \in S /\ <<back[w[2]], w[2]>> = w
  BY DEF Stores
<1>2. \A s \in S : <<back[s], s>> \in writes
  BY DEF Stores
<1>3. {w[2] : w \in writes} = S
  <2>1. \A s \in S : <<back[s], s>>[2] = s
    OBVIOUS
  <2> HIDE DEF writes
  <2>2. S \subseteq {w[2] : w \in writes}
    BY <1>2, <2>1
  <2>3. {w[2] : w \in writes} \subseteq S
    BY <1>1
  <2> QED
    BY <2>2, <2>3
<1> HIDE DEF writes
<1>4. \A w \in writes : to[w] \in S /\ from[to[w]] = w
  BY <1>1
<1>5. \A s \in S : from[s] \in writes /\ to[from[s]] = s
  BY <1>2
<1> HIDE DEF to, from
<1>6. Cardinality(writes) = Cardinality(S)
  BY <1>4, <1>5, BackAndForth
<1> QED
  BY <1>3, <1>6 DEF writes

LEMMA Grid ==
    ASSUME NEW out \in Nat, NEW n \in Nat
    PROVE  LET S == Shaders!Upto(out) \X Shaders!Upto(n)
           IN  IsFiniteSet(S) /\ Cardinality(S) = out * n
<1>1. ASSUME NEW m \in Nat PROVE IsFiniteSet(Shaders!Upto(m)) /\ Cardinality(Shaders!Upto(m)) = m
  <2>1. IsFiniteSet(0..(m - 1)) /\ Cardinality(0..(m - 1)) = IF 0 > m - 1 THEN 0 ELSE (m - 1) - 0 + 1
    BY FS_Interval
  <2> QED
    BY <2>1 DEF Shaders!Upto
<1> QED
  BY <1>1, FS_Product

LEMMA Halves ==
    ASSUME NEW d \in Nat \ {0}, NEW x \in Nat
    PROVE  x \div d \in Nat /\ x % d \in 0..(d - 1) /\ x = (x \div d) * d + (x % d)
<1>1. x \div d \in Nat /\ x % d \in 0..(d - 1) /\ x = d * (x \div d) + (x % d)
  OBVIOUS
<1>2. PICK q \in Nat : q = x \div d
  BY <1>1
<1>3. d * q = q * d
  OBVIOUS
<1> QED
  BY <1>1, <1>2, <1>3

LEMMA CeilCovers ==
    ASSUME NEW d \in Nat \ {0}, NEW n \in Nat, NEW x \in 0..(n - 1)
    PROVE  x \div d \in 0..(Shaders!CeilDiv(n, d) - 1)
<1> DEFINE q == x \div d  e == (n + d - 1) \div d  m == (n + d - 1) % d
<1>1. q \in Nat /\ q * d <= x
  BY Halves
<1>2. e \in Nat /\ m \in 0..(d - 1) /\ n + d - 1 = e * d + m
  <2>1. PICK u \in Nat : u = n + d - 1
    BY n + d - 1 \in Nat
  <2> QED
    BY <2>1, Halves
<1> HIDE DEF q, e, m
<1>3. e * d > q * d
  <2>1. e * d \in Int /\ q * d \in Int
    BY <1>1, <1>2
  <2> QED
    BY <1>1, <1>2, <2>1
<1>4. ~(e <= q)
  <2> SUFFICES ASSUME e <= q PROVE FALSE
    OBVIOUS
  <2>1. PICK k \in Nat : q = e + k
    BY <1>1, <1>2 DEF Shaders!CeilDiv
  <2>2. q * d = e * d + k * d /\ k * d \in Nat /\ e * d \in Nat
    BY <1>2, <2>1
  <2> QED
    BY <1>3, <2>2
<1> QED
  BY <1>1, <1>2, <1>4 DEF q, e, Shaders!CeilDiv

\* store4: row and token name the tile and the place in it.
LEMMA GemmOnce ==
    ASSUME NEW out \in Nat, NEW n \in Nat
    PROVE  LET writes == Shaders!GemmWrites(out, n)
           IN  {w[2] : w \in writes} = Shaders!Upto(out) \X Shaders!Upto(n) /\ Cardinality(writes) = out * n
<1> DEFINE W == {w \in [x : Shaders!Upto(Shaders!CeilDiv(out, BM)), y : Shaders!Upto(Shaders!CeilDiv(n, BN)),
                        r : Shaders!Upto(BM), t : Shaders!Upto(BN)] :
                    Shaders!StoreRow(w.x * BM + w.r, w.y * BN + w.t, out, n)}
           S == Shaders!Upto(out) \X Shaders!Upto(n)
           f == [w \in W |-> <<w.x * BM + w.r, w.y * BN + w.t>>]
           back == [s \in S |-> [x |-> s[1] \div BM, y |-> s[2] \div BN, r |-> s[1] % BM, t |-> s[2] % BN]]
<1>0. BM \in Nat \ {0} /\ BN \in Nat \ {0}
  BY ComputeAssumption
<1>1. ASSUME NEW w \in W PROVE f[w] \in S /\ back[f[w]] = w
  <2>1. /\ w.x \in Nat /\ w.y \in Nat /\ w.r \in 0..(BM - 1) /\ w.t \in 0..(BN - 1)
        /\ w = [x |-> w.x, y |-> w.y, r |-> w.r, t |-> w.t]
    BY DEF Shaders!Upto
  <2>2. /\ w.x * BM + w.r \in Nat /\ (w.x * BM + w.r) \div BM = w.x /\ (w.x * BM + w.r) % BM = w.r
        /\ w.y * BN + w.t \in Nat /\ (w.y * BN + w.t) \div BN = w.y /\ (w.y * BN + w.t) % BN = w.t
    BY <1>0, <2>1, InRun
  <2>3. w.x * BM + w.r < out /\ w.y * BN + w.t < n
    BY DEF Shaders!StoreRow
  <2>4. f[w] \in S
    BY <2>2, <2>3 DEF Shaders!Upto
  <2> QED
    BY <2>1, <2>2, <2>4
<1>2. ASSUME NEW s \in S PROVE back[s] \in W /\ f[back[s]] = s
  <2>1. PICK row \in 0..(out - 1), tok \in 0..(n - 1) : s = <<row, tok>>
    BY DEF Shaders!Upto
  <2>2. /\ row \div BM \in 0..(Shaders!CeilDiv(out, BM) - 1) /\ row % BM \in 0..(BM - 1)
        /\ tok \div BN \in 0..(Shaders!CeilDiv(n, BN) - 1) /\ tok % BN \in 0..(BN - 1)
        /\ (row \div BM) * BM + (row % BM) = row /\ (tok \div BN) * BN + (tok % BN) = tok
    <3>1. row \in Nat /\ tok \in Nat
      OBVIOUS
    <3>2. row % BM \in 0..(BM - 1) /\ (row \div BM) * BM + (row % BM) = row
      BY <1>0, <3>1, Halves
    <3>3. tok % BN \in 0..(BN - 1) /\ (tok \div BN) * BN + (tok % BN) = tok
      BY <1>0, <3>1, Halves
    <3> QED
      BY <1>0, <3>2, <3>3, CeilCovers
  <2>3. PICK x \in Nat, y \in Nat, r \in Nat, t \in Nat :
            x = row \div BM /\ r = row % BM /\ y = tok \div BN /\ t = tok % BN
    BY <2>2
  <2>4. back[s] = [x |-> x, y |-> y, r |-> r, t |-> t]
    BY <2>1, <2>3
  <2>5. Shaders!StoreRow(x * BM + r, y * BN + t, out, n)
    BY <2>2, <2>3 DEF Shaders!StoreRow
  <2>6. [x |-> x, y |-> y, r |-> r, t |-> t] \in W
    BY <2>2, <2>3, <2>5 DEF Shaders!Upto
  <2>7. f[[x |-> x, y |-> y, r |-> r, t |-> t]] = <<x * BM + r, y * BN + t>>
    BY <2>6
  <2> QED
    BY <2>1, <2>2, <2>3, <2>4, <2>6, <2>7
<1>3. IsFiniteSet(S) /\ Cardinality(S) = out * n
  BY Grid
<1>4. Shaders!GemmWrites(out, n) = Stores(W, f)
  BY DEF Shaders!GemmWrites, Stores
<1> HIDE DEF W, S, f, back
<1>5. {w[2] : w \in Stores(W, f)} = S /\ Cardinality(Stores(W, f)) = Cardinality(S)
  BY <1>1, <1>2, <1>3, OnceEach
<1> QED
  BY <1>3, <1>4, <1>5 DEF S

\* What a loop in steps of d visits from b on.
LEMMA StepsFrom ==
    ASSUME NEW d \in Nat \ {0}, NEW a \in Nat, NEW b \in Nat, a >= b, (a - b) % d = 0
    PROVE  \E q \in Nat : a = q * d + b
<1>1. PICK u \in Nat : u = a - b
  OBVIOUS
<1>2. u \div d \in Nat /\ u = (u \div d) * d + (u % d) /\ u % d = 0
  BY <1>1, Halves
<1>3. PICK q \in Nat : q = u \div d
  BY <1>2
<1>4. q * d \in Nat /\ u = q * d
  BY <1>2, <1>3
<1> QED
  BY <1>1, <1>4

LEMMA StepsBack ==
    ASSUME NEW d \in Nat \ {0}, NEW q \in Nat, NEW b \in Nat, NEW a, a = q * d + b
    PROVE  a >= b /\ (a - b) % d = 0
<1>1. PICK p \in Nat : p = q * d
  OBVIOUS
<1>2. (q * d + 0) % d = 0
  BY InRun
<1>3. a - b = q * d + 0
  BY <1>1
<1> QED
  BY <1>1, <1>2, <1>3

\* In a clamped number of groups there is one at least.
LEMMA GroupsAre ==
    ASSUME NEW n \in Nat, NEW d \in Nat \ {0}, NEW limit \in Nat \ {0}
    PROVE  Shaders!Clamp(Shaders!CeilDiv(n, d), 1, limit) \in Nat \ {0}
<1>1. PICK u \in Nat : u = n + d - 1
  BY n + d - 1 \in Nat
<1>2. u \div d \in Nat
  BY <1>1, Halves
<1> QED
  BY <1>1, <1>2 DEF Shaders!Clamp, Shaders!CeilDiv

\* An elementwise kernel: what a thread visits in steps of the whole grid.
LEMMA CellsOnce ==
    ASSUME NEW n \in Nat, NEW limit \in Nat \ {0}
    PROVE  LET writes == Shaders!CellWrites(n, limit)
           IN  {w[2][1] : w \in writes} = Shaders!Upto(n) /\ Cardinality(writes) = n
<1> DEFINE g == Shaders!Cells(n, limit)
           W == {w \in [gid : Shaders!Upto(g * N), i : Shaders!Upto(n)] :
                    w.i \in Shaders!Strided(w.gid, g * N, n)}
           S == Shaders!Upto(n) \X Shaders!Upto(1)
           f == [w \in W |-> <<w.i, 0>>]
           back == [s \in S |-> [gid |-> s[1] % (g * N), i |-> s[1]]]
<1>1. g * N \in Nat \ {0}
  <2>1. g \in Nat \ {0} /\ N \in Nat \ {0}
    BY GroupsAre, ComputeAssumption DEF Shaders!Cells
  <2> HIDE DEF g
  <2>2. g * N \in Nat /\ g * N # 0
    BY <2>1
  <2> QED
    BY <2>2
<1>2. PICK d \in Nat \ {0} : d = g * N
  BY <1>1
<1> HIDE DEF g
<1>3. \A s \in S : s[1] \in 0..(n - 1) /\ s = <<s[1], 0>>
  BY DEF Shaders!Upto
<1>4. ASSUME NEW w \in W PROVE f[w] \in S /\ back[f[w]] = w
  <2>1. PICK gid \in 0..(d - 1), i \in 0..(n - 1) : w = [gid |-> gid, i |-> i]
    BY <1>2 DEF Shaders!Upto
  <2>2. i >= gid /\ (i - gid) % d = 0 /\ i \in Nat /\ gid \in Nat
    BY <1>2, <2>1 DEF Shaders!Strided
  <2>3. PICK q \in Nat : i = q * d + gid
    BY <2>2, StepsFrom
  <2>4. i % d = gid
    BY <2>3, InRun
  <2>5. f[w] = <<i, 0>> /\ f[w] \in S
    BY <2>1 DEF Shaders!Upto
  <2> QED
    BY <1>2, <2>1, <2>4, <2>5
<1>5. ASSUME NEW s \in S PROVE back[s] \in W /\ f[back[s]] = s
  <2>1. PICK i \in 0..(n - 1) : s = <<i, 0>>
    BY <1>3
  <2>2. i \in Nat
    BY <2>1
  <2>3. PICK r \in 0..(d - 1), q \in Nat : r = i % d /\ i = q * d + r
    <3>1. i \div d \in Nat /\ i % d \in 0..(d - 1) /\ i = (i \div d) * d + (i % d)
      BY <2>2, Halves
    <3> QED
      BY <3>1
  <2>4. i >= r /\ (i - r) % d = 0
    <3>1. r \in Nat /\ q \in Nat /\ i = q * d + r
      BY <2>3
    <3> QED
      BY <3>1, StepsBack
  <2>5. [gid |-> r, i |-> i] \in W
    BY <1>2, <2>4 DEF Shaders!Upto, Shaders!Strided
  <2>6. back[s] = [gid |-> r, i |-> i]
    BY <1>2, <2>1, <2>3
  <2>7. f[[gid |-> r, i |-> i]] = <<i, 0>>
    BY <2>5
  <2> QED
    BY <2>1, <2>5, <2>6, <2>7
<1>6. IsFiniteSet(S) /\ Cardinality(S) = n
  BY Grid
<1>7. Shaders!CellWrites(n, limit) = Stores(W, f)
  BY DEF Shaders!CellWrites, Stores, g
<1> HIDE DEF W, S, f, back
<1>8. {w[2] : w \in Stores(W, f)} = S /\ Cardinality(Stores(W, f)) = Cardinality(S)
  BY <1>4, <1>5, <1>6, OnceEach
<1>9. {w[2][1] : w \in Stores(W, f)} = Shaders!Upto(n)
  <2>1. \A w \in Stores(W, f) : w[2] \in S
    BY <1>8
  <2>2. \A i \in Shaders!Upto(n) : <<i, 0>> \in S
    BY DEF S, Shaders!Upto
  <2>3. \A i \in Shaders!Upto(n) : \E w \in Stores(W, f) : w[2] = <<i, 0>>
    BY <1>8, <2>2
  <2>4. \A s \in S : s[1] \in Shaders!Upto(n)
    BY DEF S
  <2>5. \A i : <<i, 0>>[1] = i
    OBVIOUS
  <2>6. Shaders!Upto(n) \subseteq {w[2][1] : w \in Stores(W, f)}
    BY <2>3, <2>5
  <2>7. {w[2][1] : w \in Stores(W, f)} \subseteq Shaders!Upto(n)
    BY <2>1, <2>4
  <2> QED
    BY <2>6, <2>7
<1> QED
  BY <1>6, <1>7, <1>8, <1>9

\* matvec_*_t: a workgroup takes every g-th run of rows and one tile of tokens.
LEMMA MatvecOnce ==
    ASSUME NEW out \in Nat, NEW n \in Nat, NEW limit \in Nat \ {0}
    PROVE  LET writes == Shaders!MatvecWrites(out, n, limit)
           IN  {w[2] : w \in writes} = Shaders!Upto(out) \X Shaders!Upto(n) /\ Cardinality(writes) = out * n
<1> DEFINE R == N \div RowLanes
           g == Shaders!RowGroups(out, limit)
           W == {w \in [x : Shaders!Upto(g), y : Shaders!Upto(Shaders!TokenGroups(n)), b : Shaders!Upto(out),
                        r : Shaders!Upto(R), t : Shaders!Upto(Tile)] :
                    /\ w.b \in Shaders!Strided(w.x * R, g * R, out)
                    /\ w.t < Shaders!TileN(w.y * Tile, n)
                    /\ Shaders!StoreRow(w.b + w.r, w.y * Tile + w.t, out, n)}
           S == Shaders!Upto(out) \X Shaders!Upto(n)
           f == [w \in W |-> <<w.b + w.r, w.y * Tile + w.t>>]
           back == [s \in S |-> [x |-> (s[1] \div R) % g, y |-> s[2] \div Tile, b |-> (s[1] \div R) * R,
                                 r |-> s[1] % R, t |-> s[2] % Tile]]
<1>1. R \in Nat \ {0} /\ Tile \in Nat \ {0}
  <2>1. N \in Nat \ {0} /\ RowLanes \in Nat \ {0} /\ N % RowLanes = 0 /\ Tile \in Nat \ {0}
    BY ComputeAssumption
  <2>2. N \div RowLanes \in Nat /\ N = (N \div RowLanes) * RowLanes + (N % RowLanes)
    BY <2>1, Halves
  <2> QED
    BY <2>1, <2>2
<1> HIDE DEF R
<1>2. g \in Nat \ {0}
  <2>1. Shaders!Clamp(Shaders!CeilDiv(out, R), 1, limit) \in Nat \ {0}
    BY <1>1, GroupsAre
  <2> QED
    BY <2>1 DEF Shaders!RowGroups, R
<1> HIDE DEF g
<1>3. PICK d \in Nat \ {0} : d = g * R
  <2>1. g * R \in Nat /\ g * R # 0
    BY <1>1, <1>2
  <2> QED
    BY <2>1
<1>4. ASSUME NEW w \in W PROVE f[w] \in S /\ back[f[w]] = w
  <2>1. PICK x \in 0..(g - 1), y \in Nat, b \in Nat, r \in 0..(R - 1), t \in 0..(Tile - 1) :
            w = [x |-> x, y |-> y, b |-> b, r |-> r, t |-> t]
    BY DEF Shaders!Upto
  <2>2. /\ b >= x * R /\ (b - x * R) % d = 0
        /\ b + r < out /\ y * Tile + t < n
    BY <1>3, <2>1 DEF Shaders!Upto, Shaders!Strided, Shaders!StoreRow
  <2>3. PICK first \in Nat : first = x * R
    BY <1>1, <2>1
  <2>4. PICK q \in Nat : b = q * d + first
    BY <2>2, <2>3, StepsFrom
  <2>5. PICK k \in Nat : k = q * g + x
    BY <1>2, <2>1
  <2>6. b = k * R
    BY <1>1, <1>2, <1>3, <2>3, <2>4, <2>5
  <2>7. b + r \in Nat /\ (b + r) \div R = k /\ (b + r) % R = r
    <3>1. (k * R + r) \div R = k /\ (k * R + r) % R = r
      BY <1>1, InRun
    <3> QED
      BY <2>6, <3>1
  <2>8. k % g = x
    <3>1. (q * g + x) % g = x
      BY <1>2, InRun
    <3> QED
      BY <2>5, <3>1
  <2>9. y * Tile + t \in Nat /\ (y * Tile + t) \div Tile = y /\ (y * Tile + t) % Tile = t
    BY <1>1, InRun
  <2>10. f[w] = <<b + r, y * Tile + t>>
    BY <2>1
  <2>11. f[w] \in S
    BY <2>2, <2>7, <2>9, <2>10 DEF Shaders!Upto
  <2>12. back[f[w]] = [x |-> k % g, y |-> y, b |-> k * R, r |-> r, t |-> t]
    BY <2>7, <2>9, <2>10, <2>11
  <2> QED
    BY <2>1, <2>6, <2>8, <2>11, <2>12
<1>5. ASSUME NEW s \in S PROVE back[s] \in W /\ f[back[s]] = s
  <2>1. PICK row \in 0..(out - 1), tok \in 0..(n - 1) : s = <<row, tok>>
    BY DEF Shaders!Upto
  <2>a. row \in Nat /\ tok \in Nat
    BY <2>1
  <2>2. PICK k \in Nat, r \in 0..(R - 1) : k = row \div R /\ r = row % R /\ row = k * R + r
    <3>1. row \div R \in Nat /\ row % R \in 0..(R - 1) /\ row = (row \div R) * R + (row % R)
      BY <1>1, <2>a, Halves
    <3> QED
      BY <3>1
  <2>3. PICK y \in Nat, t \in 0..(Tile - 1) : y = tok \div Tile /\ t = tok % Tile /\ tok = y * Tile + t
    <3>1. tok \div Tile \in Nat /\ tok % Tile \in 0..(Tile - 1) /\ tok = (tok \div Tile) * Tile + (tok % Tile)
      BY <1>1, <2>a, Halves
    <3> QED
      BY <3>1
  <2>4. PICK q \in Nat, x \in 0..(g - 1) : x = k % g /\ k = q * g + x
    <3>1. k \div g \in Nat /\ k % g \in 0..(g - 1) /\ k = (k \div g) * g + (k % g)
      BY <1>2, Halves
    <3> QED
      BY <3>1
  <2>5. k * R \in Nat /\ x * R \in Nat /\ y * Tile \in Nat
    BY <1>1, <2>2
  <2>6. y \in Shaders!Upto(Shaders!TokenGroups(n))
    <3>1. tok \div Tile \in 0..(Shaders!CeilDiv(n, Tile) - 1)
      BY <1>1, CeilCovers
    <3>2. n # 0
      BY <2>1
    <3> QED
      BY <2>3, <3>1, <3>2 DEF Shaders!TokenGroups, Shaders!Upto
  <2>7. t < Shaders!TileN(y * Tile, n)
    BY <1>1, <2>3, <2>5 DEF Shaders!TileN
  <2>8. k * R >= x * R /\ (k * R - x * R) % d = 0
    <3>1. k * R = q * d + x * R /\ q * d \in Nat
      BY <1>1, <1>2, <1>3, <2>4
    <3>2. k * R - x * R = q * d + 0
      BY <2>5, <3>1
    <3>3. (q * d + 0) % d = 0
      BY InRun
    <3> QED
      BY <2>5, <3>1, <3>2, <3>3
  <2>9. [x |-> x, y |-> y, b |-> k * R, r |-> r, t |-> t] \in W
    <3>1. PICK b \in 0..(out - 1) : b = k * R
      BY <2>2, <2>5
    <3>2. b \in Shaders!Strided(x * R, g * R, out)
      <4>1. PICK first \in Nat : first = x * R
        BY <2>5
      <4>2. b >= first /\ (b - first) % d = 0
        BY <2>8, <3>1, <4>1
      <4>3. b \in Shaders!Strided(first, d, out)
        BY <4>2 DEF Shaders!Strided, Shaders!Upto
      <4> QED
        BY <1>3, <4>1, <4>3
    <3>3. Shaders!StoreRow(b + r, y * Tile + t, out, n)
      <4>1. b + r = row
        BY <2>2, <3>1
      <4>2. y * Tile + t = tok
        BY <2>3
      <4> QED
        BY <2>1, <4>1, <4>2 DEF Shaders!StoreRow
    <3>4. [x |-> x, y |-> y, b |-> b, r |-> r, t |-> t] \in W
      BY <2>6, <2>7, <3>2, <3>3 DEF Shaders!Upto
    <3> QED
      BY <3>1, <3>4
  <2>10. back[s] = [x |-> x, y |-> y, b |-> k * R, r |-> r, t |-> t]
    BY <2>1, <2>2, <2>3, <2>4
  <2>11. f[[x |-> x, y |-> y, b |-> k * R, r |-> r, t |-> t]] = <<k * R + r, y * Tile + t>>
    BY <2>9
  <2> QED
    BY <2>1, <2>2, <2>3, <2>9, <2>10, <2>11
<1>6. IsFiniteSet(S) /\ Cardinality(S) = out * n
  BY Grid
<1>7. Shaders!MatvecWrites(out, n, limit) = Stores(W, f)
  BY DEF Shaders!MatvecWrites, Stores, g, R
<1> HIDE DEF W, S, f, back
<1>8. {w[2] : w \in Stores(W, f)} = S /\ Cardinality(Stores(W, f)) = Cardinality(S)
  BY <1>4, <1>5, <1>6, OnceEach
<1> QED
  BY <1>6, <1>7, <1>8 DEF S

\* The Cardinality that Shaders takes from FiniteSets is that of this module.
LEMMA SameCount == ASSUME NEW S PROVE Shaders!Cardinality(S) = Cardinality(S)
BY DEF Shaders!Cardinality, Cardinality, Shaders!IsFiniteSet, IsFiniteSet

LEMMA WrittenOnceHolds ==
    ASSUME NEW out \in Nat, NEW n \in Nat, NEW limit \in Nat \ {0}
    PROVE  Shaders!WrittenOnce(out, n, limit)
<1>1. out * n \in Nat
  OBVIOUS
<1>2. PICK m \in Nat : m = out * n
  BY <1>1
<1>3. /\ {w[2][1] : w \in Shaders!CellWrites(m, limit)} = Shaders!Upto(m)
      /\ Cardinality(Shaders!CellWrites(m, limit)) = m
  BY CellsOnce
<1>4. /\ {w[2] : w \in Shaders!MatvecWrites(out, n, limit)} = Shaders!Upto(out) \X Shaders!Upto(n)
      /\ Cardinality(Shaders!MatvecWrites(out, n, limit)) = out * n
  BY MatvecOnce
<1>5. /\ {w[2] : w \in Shaders!GemmWrites(out, n)} = Shaders!Upto(out) \X Shaders!Upto(n)
      /\ Cardinality(Shaders!GemmWrites(out, n)) = out * n
  BY GemmOnce
<1>6. \A writes \in {Shaders!MatvecWrites(out, n, limit), Shaders!GemmWrites(out, n)} :
          {w[2] : w \in writes} = Shaders!Upto(out) \X Shaders!Upto(n) /\ Shaders!Cardinality(writes) = out * n
  BY <1>4, <1>5, SameCount
<1>7. /\ {w[2][1] : w \in Shaders!CellWrites(out * n, limit)} = Shaders!Upto(out * n)
      /\ Shaders!Cardinality(Shaders!CellWrites(out * n, limit)) = out * n
  BY <1>2, <1>3, SameCount
<1> QED
  BY <1>6, <1>7, Zenon DEF Shaders!WrittenOnce

-----------------------------------------------------------------------------
(* The reads of a kernel.  A unit of each takes the elements at its own    *)
(* places: the digits of an element's number, in the bases of the blocks,  *)
(* parts, groups and lanes, are the indices the kernel names it by.        *)

\* What is taken for an element: the bits of the decoder, behind the padding of a q8_0 scale.
Takes(k, e) ==
    IF k \in {"matvec_q8_0", "embed_q8_0"} THEN Layout!Plain(4 + e, 8)
    ELSE Layout!Decoded(Layout!TypeOf(k), e)

\* The read of an element, and the reads of those at places, from blocks of E.
ReadAt(k, E, a) == Layout!Read(a, a \div E, Takes(k, a % E))
Reads(k, E, places) == {ReadAt(k, E, a) : a \in places}

\* Where an element of a q4_k block has its bits: pair p of 64, side h of it, lane l.
Q4kBits(p, h, l) ==
    [q |-> <<<<16 + p * 32 + l, 4 * h, 4>>>>,
     scale |-> Layout!Scale(2 * p + h), min |-> Layout!Minimum(2 * p + h), d |-> 0]
IsQ4kRead(k, a, b, p, h, l) == ReadAt(k, 256, a) = Layout!Read(a, b, Q4kBits(p, h, l))

LEMMA Q4kRead ==
    ASSUME NEW k \in {"matvec_q4k", "dot_q4k"}, NEW b \in Nat, NEW p \in 0..3, NEW h \in 0..1, NEW l \in 0..31,
           NEW a, a = 256 * b + 64 * p + 32 * h + l
    PROVE  IsQ4kRead(k, a, b, p, h, l)
<1>1. PICK e \in 0..255 : e = 64 * p + 32 * h + l
  OBVIOUS
<1>2. a \div 256 = b /\ a % 256 = e
  BY <1>1
<1>3. e \div 64 = p /\ (e % 64) \div 32 = h /\ e % 32 = l
  BY <1>1
<1>4. Takes(k, e) = Layout!CpuQ4k(e)
  BY DEF Takes, Layout!Decoded, Layout!TypeOf
<1>5. Layout!CpuQ4k(e) = Q4kBits(p, h, l)
  BY <1>3 DEF Layout!CpuQ4k, Q4kBits
<1> QED
  BY <1>2, <1>4, <1>5 DEF IsQ4kRead, ReadAt

\* Pair j of a shader's scales, from byte 4 on, is that of the decoder.
LEMMA ShaderScales ==
    ASSUME NEW j \in 0..7
    PROVE  Layout!ShaderScale(4, j) = Layout!Scale(j) /\ Layout!ShaderMinimum(4, j) = Layout!Minimum(j)
BY DEF Layout!ShaderScale, Layout!Scale, Layout!ShaderMinimum, Layout!Minimum

LEMMA MatvecQ4kReads ==
    ASSUME NEW u \in Nat
    PROVE  Layout!MatvecQ4k(u) = Reads("matvec_q4k", 256, (64 * u)..(64 * u + 63))
<1>1. PICK b \in Nat, p \in 0..3 : b = u \div 4 /\ p = u % 4 /\ u = 4 * b + p
  OBVIOUS
<1> DEFINE read(w, c, h) ==
               Layout!Read(4 * ((b * 256 + p * 64) \div 4 + w + 8 * h) + c, b,
                   [q |-> <<<<Layout!ByteOf(4 + p * 8 + w, c), 4 * h, 4>>>>,
                    scale |-> Layout!ShaderScale(4, p * 2 + h), min |-> Layout!ShaderMinimum(4, p * 2 + h),
                    d |-> 0])
<1>2. Layout!MatvecQ4k(u) = {read(w, c, h) : w \in 0..7, c \in 0..3, h \in 0..1}
  BY <1>1 DEF Layout!MatvecQ4k
<1>3. ASSUME NEW w \in 0..7, NEW c \in 0..3, NEW h \in 0..1
      PROVE  read(w, c, h) = ReadAt("matvec_q4k", 256, 64 * u + 32 * h + 4 * w + c)
  <2>1. PICK l \in 0..31 : l = 4 * w + c
    OBVIOUS
  <2>2. PICK a \in Nat : a = 256 * b + 64 * p + 32 * h + l
    OBVIOUS
  <2>3. IsQ4kRead("matvec_q4k", a, b, p, h, l)
    BY <2>2, Q4kRead
  <2>4. 4 * ((b * 256 + p * 64) \div 4 + w + 8 * h) + c = a
    BY <2>1, <2>2
  <2>5. Layout!ByteOf(4 + p * 8 + w, c) = 16 + p * 32 + l
    BY <2>1 DEF Layout!ByteOf
  <2>6. PICK j \in 0..7 : j = p * 2 + h /\ j = 2 * p + h
    OBVIOUS
  <2>7. read(w, c, h) = Layout!Read(a, b, Q4kBits(p, h, l))
    BY <2>4, <2>5, <2>6, ShaderScales DEF Q4kBits
  <2>8. a = 64 * u + 32 * h + 4 * w + c
    BY <1>1, <2>1, <2>2
  <2> QED
    BY <2>3, <2>7, <2>8 DEF IsQ4kRead
<1>4. ASSUME NEW w \in 0..7, NEW c \in 0..3, NEW h \in 0..1
      PROVE  64 * u + 32 * h + 4 * w + c \in (64 * u)..(64 * u + 63)
  OBVIOUS
<1>5. ASSUME NEW a \in (64 * u)..(64 * u + 63)
      PROVE  \E w \in 0..7, c \in 0..3, h \in 0..1 : a = 64 * u + 32 * h + 4 * w + c
  <2>1. PICK x \in 0..63 : a = 64 * u + x
    OBVIOUS
  <2>2. x \div 32 \in 0..1 /\ (x % 32) \div 4 \in 0..7 /\ x % 4 \in 0..3
        /\ x = 32 * (x \div 32) + 4 * ((x % 32) \div 4) + (x % 4)
    OBVIOUS
  <2> QED
    BY <2>1, <2>2
<1> HIDE DEF read
<1>6. Layout!MatvecQ4k(u) \subseteq Reads("matvec_q4k", 256, (64 * u)..(64 * u + 63))
  BY <1>2, <1>3, <1>4 DEF Reads
<1>7. Reads("matvec_q4k", 256, (64 * u)..(64 * u + 63)) \subseteq Layout!MatvecQ4k(u)
  BY <1>2, <1>3, <1>5 DEF Reads
<1> QED
  BY <1>6, <1>7

LEMMA DotQ4kReads ==
    ASSUME NEW u \in Nat
    PROVE  Layout!DotQ4k(u) = Reads("dot_q4k", 256, (64 * u)..(64 * u + 63))
<1>1. PICK b \in Nat, p \in 0..3 : b = u \div 4 /\ p = u % 4 /\ u = 4 * b + p
  OBVIOUS
<1> DEFINE read(l, h) ==
               Layout!Read(b * 256 + p * 64 + l + 32 * h, b,
                   [q |-> <<<<16 + p * 32 + l, 4 * h, 4>>>>, scale |-> Layout!Scale(p * 2 + h),
                    min |-> Layout!Minimum(p * 2 + h), d |-> 0])
<1>2. Layout!DotQ4k(u) = {read(l, h) : l \in 0..31, h \in 0..1}
  BY <1>1 DEF Layout!DotQ4k
<1>3. ASSUME NEW l \in 0..31, NEW h \in 0..1
      PROVE  read(l, h) = ReadAt("dot_q4k", 256, 64 * u + 32 * h + l)
  <2>1. PICK a \in Nat : a = 256 * b + 64 * p + 32 * h + l
    OBVIOUS
  <2>2. IsQ4kRead("dot_q4k", a, b, p, h, l)
    BY <2>1, Q4kRead
  <2>3. b * 256 + p * 64 + l + 32 * h = a /\ 64 * u + 32 * h + l = a /\ p * 2 = 2 * p
    BY <1>1, <2>1
  <2> QED
    BY <2>2, <2>3 DEF IsQ4kRead, Q4kBits
<1>4. ASSUME NEW l \in 0..31, NEW h \in 0..1 PROVE 64 * u + 32 * h + l \in (64 * u)..(64 * u + 63)
  OBVIOUS
<1>5. ASSUME NEW a \in (64 * u)..(64 * u + 63) PROVE \E l \in 0..31, h \in 0..1 : a = 64 * u + 32 * h + l
  <2>1. PICK x \in 0..63 : a = 64 * u + x
    OBVIOUS
  <2>2. x \div 32 \in 0..1 /\ x % 32 \in 0..31 /\ x = 32 * (x \div 32) + (x % 32)
    OBVIOUS
  <2> QED
    BY <2>1, <2>2
<1> HIDE DEF read
<1>6. Layout!DotQ4k(u) \subseteq Reads("dot_q4k", 256, (64 * u)..(64 * u + 63))
  BY <1>2, <1>3, <1>4 DEF Reads
<1>7. Reads("dot_q4k", 256, (64 * u)..(64 * u + 63)) \subseteq Layout!DotQ4k(u)
  BY <1>2, <1>3, <1>5 DEF Reads
<1> QED
  BY <1>6, <1>7

\* An element of a q6_k block: part n of 128, group g of 32 of it, lane l.
Q6kBits(n, g, l) ==
    [q |-> <<<<n * 64 + l + 32 * (g % 2), 4 * (g \div 2), 4>>, <<128 + n * 32 + l, 2 * g, 2>>>>,
     scale |-> <<<<192 + n * 8 + l \div 16 + 2 * g, 0, 8>>>>, min |-> Layout!None, d |-> 208]
IsQ6kRead(k, a, b, n, g, l) == ReadAt(k, 256, a) = Layout!Read(a, b, Q6kBits(n, g, l))

LEMMA Q6kRead ==
    ASSUME NEW k \in {"matvec_q6k", "gemm_q6k", "embed_q6k", "dot_q6k"},
           NEW b \in Nat, NEW n \in 0..1, NEW g \in 0..3, NEW l \in 0..31,
           NEW a, a = 256 * b + 128 * n + 32 * g + l
    PROVE  IsQ6kRead(k, a, b, n, g, l)
<1>1. PICK e \in 0..255 : e = 128 * n + 32 * g + l
  OBVIOUS
<1>2. a \div 256 = b /\ a % 256 = e
  BY <1>1
<1>3. e \div 128 = n /\ (e % 128) \div 32 = g /\ e % 32 = l
  BY <1>1
<1>4. Takes(k, e) = Layout!CpuQ6k(e)
  BY DEF Takes, Layout!Decoded, Layout!TypeOf
<1>5. Layout!CpuQ6k(e) = Q6kBits(n, g, l)
  BY <1>3 DEF Layout!CpuQ6k, Q6kBits
<1> QED
  BY <1>2, <1>4, <1>5 DEF IsQ6kRead, ReadAt

\* The first `wide` lanes from base on of each group of a part.
Strip(base, wide) == {base + 32 * g + x : g \in 0..3, x \in 0..(wide - 1)}

LEMMA MatvecQ6kReads ==
    ASSUME NEW u \in Nat
    PROVE  Layout!MatvecQ6k(u) = Reads("matvec_q6k", 256, Strip(128 * (u \div 4) + 8 * (u % 4), 8))
<1>1. PICK b \in Nat, n \in 0..1, i \in 0..3 :
          b = u \div 8 /\ n = (u % 8) \div 4 /\ i = (u % 8) % 4 /\ u \div 4 = 2 * b + n /\ u % 4 = i
  OBVIOUS
<1> DEFINE base == 128 * (2 * b + n) + 8 * i
           read(w, c, g) ==
               Layout!Read(4 * ((b * 256 + n * 128 + i * 8) \div 4 + w + 8 * g) + c, b,
                   [q |-> <<<<Layout!ByteOf(n * 16 + (i * 8) \div 4 + 8 * (g % 2) + w, c), Layout!Quad(g).low, 4>>,
                            <<Layout!ByteOf(32 + n * 8 + (i * 8) \div 4 + w, c), Layout!Quad(g).high, 2>>>>,
                    scale |-> <<<<192 + n * 8 + (i * 8) \div 16 + 2 * g, 0, 8>>>>, min |-> Layout!None,
                    d |-> Layout!ByteOf(52, 0)])
<1>2. Layout!MatvecQ6k(u) = {read(w, c, g) : w \in 0..1, c \in 0..3, g \in 0..3}
  BY <1>1 DEF Layout!MatvecQ6k
<1>3. ASSUME NEW w \in 0..1, NEW c \in 0..3, NEW g \in 0..3
      PROVE  read(w, c, g) = ReadAt("matvec_q6k", 256, base + 32 * g + (4 * w + c))
  <2>1. PICK l \in 0..31 : l = 8 * i + 4 * w + c
    OBVIOUS
  <2>2. PICK a \in Nat : a = 256 * b + 128 * n + 32 * g + l
    OBVIOUS
  <2>3. IsQ6kRead("matvec_q6k", a, b, n, g, l)
    BY <2>2, Q6kRead
  <2>4. 4 * ((b * 256 + n * 128 + i * 8) \div 4 + w + 8 * g) + c = a
    BY <2>1, <2>2
  <2>5. Layout!ByteOf(n * 16 + (i * 8) \div 4 + 8 * (g % 2) + w, c) = n * 64 + l + 32 * (g % 2)
    BY <2>1 DEF Layout!ByteOf
  <2>6. Layout!ByteOf(32 + n * 8 + (i * 8) \div 4 + w, c) = 128 + n * 32 + l
    BY <2>1 DEF Layout!ByteOf
  <2>7. Layout!Quad(g).low = 4 * (g \div 2) /\ Layout!Quad(g).high = 2 * g /\ Layout!ByteOf(52, 0) = 208
    BY DEF Layout!Quad, Layout!ByteOf
  <2>8. (i * 8) \div 16 = l \div 16
    BY <2>1
  <2>9. read(w, c, g) = Layout!Read(a, b, Q6kBits(n, g, l))
    BY <2>4, <2>5, <2>6, <2>7, <2>8 DEF Q6kBits
  <2>10. a = base + 32 * g + (4 * w + c)
    BY <2>1, <2>2
  <2> QED
    BY <2>3, <2>9, <2>10 DEF IsQ6kRead
<1>4. ASSUME NEW w \in 0..1, NEW c \in 0..3, NEW g \in 0..3
      PROVE  base + 32 * g + (4 * w + c) \in Strip(base, 8)
  BY 4 * w + c \in 0..(8 - 1) DEF Strip
<1>5. ASSUME NEW a \in Strip(base, 8)
      PROVE  \E w \in 0..1, c \in 0..3, g \in 0..3 : a = base + 32 * g + (4 * w + c)
  <2>1. PICK g \in 0..3, x \in 0..7 : a = base + 32 * g + x
    BY DEF Strip
  <2>2. x \div 4 \in 0..1 /\ x % 4 \in 0..3 /\ x = 4 * (x \div 4) + (x % 4)
    OBVIOUS
  <2> QED
    BY <2>1, <2>2
<1>6. base = 128 * (u \div 4) + 8 * (u % 4)
  BY <1>1
<1> HIDE DEF read, base
<1>7. Layout!MatvecQ6k(u) \subseteq Reads("matvec_q6k", 256, Strip(base, 8))
  BY <1>2, <1>3, <1>4 DEF Reads
<1>8. Reads("matvec_q6k", 256, Strip(base, 8)) \subseteq Layout!MatvecQ6k(u)
  BY <1>2, <1>3, <1>5 DEF Reads
<1> QED
  BY <1>6, <1>7, <1>8

LEMMA GemmQ6kReads ==
    ASSUME NEW u \in Nat
    PROVE  Layout!GemmQ6k(u) = Reads("gemm_q6k", 256, (4 * u)..(4 * u + 3))
<1>1. PICK b \in Nat, n \in 0..1, j \in 0..3, i \in 0..7 :
          /\ b = u \div 64 /\ n = (u % 64) \div 32 /\ j = (u % 32) \div 8 /\ i = u % 8
          /\ u = 64 * b + 32 * n + 8 * j + i
  OBVIOUS
<1> DEFINE read(c) ==
               Layout!Read(b * 256 + n * 128 + j * 32 + 4 * i + c, b,
                   [q |-> <<<<Layout!ByteOf((n * 64 + (j % 2) * 32 + 4 * i) \div 4, c), 4 * (j \div 2), 4>>,
                            <<Layout!ByteOf(32 + (n * 32 + 4 * i) \div 4, c), 2 * j, 2>>>>,
                    scale |-> <<<<192 + n * 8 + j * 2 + (4 * i) \div 16, 0, 8>>>>, min |-> Layout!None,
                    d |-> Layout!ByteOf(52, 0)])
<1>2. Layout!GemmQ6k(u) = {read(c) : c \in 0..3}
  BY <1>1 DEF Layout!GemmQ6k
<1>3. ASSUME NEW c \in 0..3 PROVE read(c) = ReadAt("gemm_q6k", 256, 4 * u + c)
  <2>1. PICK l \in 0..31 : l = 4 * i + c
    OBVIOUS
  <2>2. PICK a \in Nat : a = 256 * b + 128 * n + 32 * j + l
    OBVIOUS
  <2>3. IsQ6kRead("gemm_q6k", a, b, n, j, l)
    BY <2>2, Q6kRead
  <2>4. b * 256 + n * 128 + j * 32 + 4 * i + c = a /\ 4 * u + c = a
    BY <1>1, <2>1, <2>2
  <2>5. Layout!ByteOf((n * 64 + (j % 2) * 32 + 4 * i) \div 4, c) = n * 64 + l + 32 * (j % 2)
    BY <2>1 DEF Layout!ByteOf
  <2>6. Layout!ByteOf(32 + (n * 32 + 4 * i) \div 4, c) = 128 + n * 32 + l /\ Layout!ByteOf(52, 0) = 208
    BY <2>1 DEF Layout!ByteOf
  <2>7. 192 + n * 8 + j * 2 + (4 * i) \div 16 = 192 + n * 8 + l \div 16 + 2 * j
    BY <2>1
  <2>8. read(c) = Layout!Read(a, b, Q6kBits(n, j, l))
    BY <2>4, <2>5, <2>6, <2>7 DEF Q6kBits
  <2> QED
    BY <2>3, <2>4, <2>8 DEF IsQ6kRead
<1>4. ASSUME NEW a \in (4 * u)..(4 * u + 3) PROVE \E c \in 0..3 : a = 4 * u + c
  BY a - 4 * u \in 0..3 /\ a = 4 * u + (a - 4 * u)
<1>5. \A c \in 0..3 : 4 * u + c \in (4 * u)..(4 * u + 3)
  OBVIOUS
<1> HIDE DEF read
<1>6. Layout!GemmQ6k(u) \subseteq Reads("gemm_q6k", 256, (4 * u)..(4 * u + 3))
  BY <1>2, <1>3, <1>5 DEF Reads
<1>7. Reads("gemm_q6k", 256, (4 * u)..(4 * u + 3)) \subseteq Layout!GemmQ6k(u)
  BY <1>2, <1>3, <1>4 DEF Reads
<1> QED
  BY <1>6, <1>7

LEMMA EmbedQ6kReads ==
    ASSUME NEW u \in Nat
    PROVE  /\ Layout!EmbedQ6k(u) = Reads("embed_q6k", 256, Strip(128 * (u \div 32) + (u % 32), 1))
           /\ Layout!DotQ6k(u) = Reads("dot_q6k", 256, Strip(128 * (u \div 32) + (u % 32), 1))
<1>1. PICK b \in Nat, n \in 0..1, l \in 0..31 :
          b = u \div 64 /\ n = (u % 64) \div 32 /\ l = u % 32 /\ u \div 32 = 2 * b + n
  OBVIOUS
<1> DEFINE base == 128 * (2 * b + n) + l
           shader(g) ==
               Layout!Read(b * 256 + n * 128 + l + 32 * g, b,
                   [q |-> <<<<Layout!ByteOf(n * 16, l + 32 * (g % 2)), 4 * (g \div 2), 4>>,
                            <<Layout!ByteOf(32 + n * 8, l), 2 * g, 2>>>>,
                    scale |-> <<<<Layout!ByteOf(48, n * 8 + l \div 16 + 2 * g), 0, 8>>>>,
                    min |-> Layout!None, d |-> Layout!ByteOf(52, 0)])
           dot(g) ==
               Layout!Read(b * 256 + n * 128 + l + 32 * g, b,
                   [q |-> <<<<n * 64 + l + 32 * (g % 2), 4 * (g \div 2), 4>>, <<128 + n * 32 + l, 2 * g, 2>>>>,
                    scale |-> <<<<192 + n * 8 + l \div 16 + 2 * g, 0, 8>>>>, min |-> Layout!None, d |-> 208])
<1>2. Layout!EmbedQ6k(u) = {shader(g) : g \in 0..3} /\ Layout!DotQ6k(u) = {dot(g) : g \in 0..3}
  BY <1>1 DEF Layout!EmbedQ6k, Layout!DotQ6k
<1>3. ASSUME NEW g \in 0..3
      PROVE  /\ shader(g) = ReadAt("embed_q6k", 256, base + 32 * g + 0)
             /\ dot(g) = ReadAt("dot_q6k", 256, base + 32 * g + 0)
  <2>1. PICK a \in Nat : a = 256 * b + 128 * n + 32 * g + l
    OBVIOUS
  <2>2. IsQ6kRead("embed_q6k", a, b, n, g, l) /\ IsQ6kRead("dot_q6k", a, b, n, g, l)
    BY <2>1, Q6kRead
  <2>3. b * 256 + n * 128 + l + 32 * g = a /\ base + 32 * g + 0 = a
    BY <2>1
  <2>4. /\ Layout!ByteOf(n * 16, l + 32 * (g % 2)) = n * 64 + l + 32 * (g % 2)
        /\ Layout!ByteOf(32 + n * 8, l) = 128 + n * 32 + l
        /\ Layout!ByteOf(48, n * 8 + l \div 16 + 2 * g) = 192 + n * 8 + l \div 16 + 2 * g
        /\ Layout!ByteOf(52, 0) = 208
    BY DEF Layout!ByteOf
  <2>5. shader(g) = Layout!Read(a, b, Q6kBits(n, g, l)) /\ dot(g) = Layout!Read(a, b, Q6kBits(n, g, l))
    BY <2>3, <2>4 DEF Q6kBits
  <2> QED
    BY <2>2, <2>3, <2>5 DEF IsQ6kRead
<1>4. base = 128 * (u \div 32) + (u % 32)
  BY <1>1
<1> HIDE DEF shader, dot, base
<1>5. Strip(base, 1) = {base + 32 * g + 0 : g \in 0..3}
  BY 0..(1 - 1) = {0} DEF Strip
<1>6. Layout!EmbedQ6k(u) = Reads("embed_q6k", 256, Strip(base, 1))
  BY <1>2, <1>3, <1>5 DEF Reads
<1>7. Layout!DotQ6k(u) = Reads("dot_q6k", 256, Strip(base, 1))
  BY <1>2, <1>3, <1>5 DEF Reads
<1> QED
  BY <1>4, <1>6, <1>7

IsPlainRead(k, E, a, b, e) == ReadAt(k, E, a) = Layout!Read(a, b, Takes(k, e))

LEMMA PlainRead4 ==
    ASSUME NEW k, NEW b \in Nat, NEW e \in 0..3, NEW a, a = 4 * b + e
    PROVE  IsPlainRead(k, 4, a, b, e)
BY a \div 4 = b /\ a % 4 = e DEF IsPlainRead, ReadAt

LEMMA PlainRead32 ==
    ASSUME NEW k, NEW b \in Nat, NEW e \in 0..31, NEW a, a = 32 * b + e
    PROVE  IsPlainRead(k, 32, a, b, e)
BY a \div 32 = b /\ a % 32 = e DEF IsPlainRead, ReadAt

LEMMA PlainTakes ==
    /\ \A e \in 0..31, k \in {"matvec_q8_0", "embed_q8_0"} : Takes(k, e) = Layout!Plain(4 + e, 8)
    /\ \A e \in 0..31 : Takes("dot_q8_0", e) = Layout!Plain(2 + e, 8)
    /\ \A e \in 0..3, k \in {"matvec_f32", "embed_f32"} : Takes(k, e) = Layout!Plain(4 * e, 32)
    /\ \A e \in 0..3 : Takes("matvec_bf16", e) = Layout!Plain(2 * e, 16)
BY DEF Takes, Layout!Decoded, Layout!TypeOf, Layout!CpuQ8, Layout!CpuDense, Layout!Plain

LEMMA Q8Reads ==
    ASSUME NEW u \in Nat
    PROVE  /\ Layout!MatvecQ8(u) = Reads("matvec_q8_0", 32, (32 * u)..(32 * u + 31))
           /\ Layout!EmbedQ8(u) = Reads("embed_q8_0", 32, (32 * u)..(32 * u + 31))
           /\ Layout!DotQ8(u) = Reads("dot_q8_0", 32, (32 * u)..(32 * u + 31))
<1>1. ASSUME NEW e \in 0..31
      PROVE  /\ ReadAt("dot_q8_0", 32, 32 * u + e) = Layout!Read(u * 32 + e, u, Layout!Plain(2 + e, 8))
             /\ \A k \in {"matvec_q8_0", "embed_q8_0"} :
                    ReadAt(k, 32, 32 * u + e) = Layout!Read(u * 32 + e, u, Layout!Plain(4 + e, 8))
  <2>1. PICK a \in Nat : a = 32 * u + e /\ a = u * 32 + e
    OBVIOUS
  <2>2. \A k : IsPlainRead(k, 32, a, u, e)
    BY <2>1, PlainRead32
  <2> QED
    BY <2>1, <2>2, PlainTakes DEF IsPlainRead
<1>2. ASSUME NEW w \in 0..7, NEW c \in 0..3
      PROVE  \E e \in 0..31 : /\ e = 4 * w + c /\ Layout!ByteOf(1 + w, c) = 4 + e
                              /\ u * 32 + 4 * w + c = u * 32 + e /\ u * 32 + w * 4 + c = u * 32 + e
  BY DEF Layout!ByteOf
<1>3. \A e \in 0..31 : \E w \in 0..7, c \in 0..3 : e = 4 * w + c
  <2> TAKE e \in 0..31
  <2>1. e \div 4 \in 0..7 /\ e % 4 \in 0..3 /\ e = 4 * (e \div 4) + (e % 4)
    OBVIOUS
  <2> QED
    BY <2>1
<1>4. /\ \A e \in 0..31 : 32 * u + e \in (32 * u)..(32 * u + 31)
      /\ \A a \in (32 * u)..(32 * u + 31) : \E e \in 0..31 : a = 32 * u + e
  <2>1. \A a \in (32 * u)..(32 * u + 31) : a - 32 * u \in 0..31 /\ a = 32 * u + (a - 32 * u)
    OBVIOUS
  <2> QED
    BY <2>1
<1> DEFINE bytes == {Layout!Read(u * 32 + e, u, Layout!Plain(4 + e, 8)) : e \in 0..31}
<1>5. \A k \in {"matvec_q8_0", "embed_q8_0"} : Reads(k, 32, (32 * u)..(32 * u + 31)) = bytes
  BY <1>1, <1>4 DEF Reads
<1>6. Layout!MatvecQ8(u) = bytes
  BY <1>2, <1>3 DEF Layout!MatvecQ8
<1>7. Layout!EmbedQ8(u) = bytes
  BY <1>2, <1>3 DEF Layout!EmbedQ8
<1>8. Layout!DotQ8(u) = Reads("dot_q8_0", 32, (32 * u)..(32 * u + 31))
  BY <1>1, <1>4 DEF Reads, Layout!DotQ8
<1> QED
  BY <1>5, <1>6, <1>7, <1>8

LEMMA DenseReads ==
    ASSUME NEW u \in Nat
    PROVE  /\ Layout!MatvecF32(u) = Reads("matvec_f32", 4, (4 * u)..(4 * u + 3))
           /\ Layout!MatvecBf16(u) = Reads("matvec_bf16", 4, (4 * u)..(4 * u + 3))
<1>1. ASSUME NEW c \in 0..3
      PROVE  /\ ReadAt("matvec_f32", 4, 4 * u + c) = Layout!Read(4 * u + c, u, Layout!Plain(4 * c, 32))
             /\ ReadAt("matvec_bf16", 4, 4 * u + c) = Layout!Read(4 * u + c, u, Layout!Plain(2 * c, 16))
  <2>1. PICK a \in Nat : a = 4 * u + c
    OBVIOUS
  <2>2. \A k : IsPlainRead(k, 4, a, u, c)
    BY <2>1, PlainRead4
  <2> QED
    BY <2>1, <2>2, PlainTakes DEF IsPlainRead
<1>2. (4 * u)..(4 * u + 3) = {4 * u + c : c \in 0..3}
  <2>1. \A a \in (4 * u)..(4 * u + 3) : a - 4 * u \in 0..3 /\ a = 4 * u + (a - 4 * u)
    OBVIOUS
  <2> QED
    BY <2>1
<1>3. Layout!MatvecF32(u) = Reads("matvec_f32", 4, (4 * u)..(4 * u + 3))
  <2>1. \A c \in 0..3 : Layout!ByteOf(c, 0) = 4 * c
    BY DEF Layout!ByteOf
  <2> QED
    BY <1>1, <1>2, <2>1 DEF Reads, Layout!MatvecF32
<1>4. Layout!MatvecBf16(u) = Reads("matvec_bf16", 4, (4 * u)..(4 * u + 3))
  <2>1. ASSUME NEW w \in 0..1, NEW h \in 0..1
        PROVE  \E c \in 0..3 : /\ c = 2 * w + h /\ 4 * u + 2 * w + h = 4 * u + c
                               /\ Layout!ByteOf(w, 2 * h) = 2 * c
    BY DEF Layout!ByteOf
  <2>2. \A c \in 0..3 : \E w \in 0..1, h \in 0..1 : c = 2 * w + h
    <3> TAKE c \in 0..3
    <3>1. c \div 2 \in 0..1 /\ c % 2 \in 0..1 /\ c = 2 * (c \div 2) + (c % 2)
      OBVIOUS
    <3> QED
      BY <3>1
  <2>3. Layout!MatvecBf16(u) = {Layout!Read(4 * u + c, u, Layout!Plain(2 * c, 16)) : c \in 0..3}
    BY <2>1, <2>2 DEF Layout!MatvecBf16
  <2> QED
    BY <1>1, <1>2, <2>3 DEF Reads
<1> QED
  BY <1>3, <1>4

LEMMA EmbedF32Reads ==
    ASSUME NEW u \in Nat PROVE Layout!EmbedF32(u) = Reads("embed_f32", 4, {u})
<1>1. PICK b \in Nat, e \in 0..3 : b = u \div 4 /\ e = u % 4 /\ u = 4 * b + e
  OBVIOUS
<1>2. IsPlainRead("embed_f32", 4, u, b, e)
  BY <1>1, PlainRead4
<1>3. Layout!ByteOf(e, 0) = 4 * e
  BY DEF Layout!ByteOf
<1>4. ReadAt("embed_f32", 4, u) = Layout!Read(u, u \div 4, Layout!Plain(Layout!ByteOf(u % 4, 0), 32))
  BY <1>1, <1>2, <1>3, PlainTakes DEF IsPlainRead
<1> QED
  BY <1>4 DEF Reads, Layout!EmbedF32

-----------------------------------------------------------------------------
(* A row.  Its units split its cells, and behind the repacking each is     *)
(* taken as the decoder takes it.                                          *)

\* A field passes through the repacking piece by piece.
LEMMA FiledOne ==
    ASSUME NEW ty, NEW byte, NEW low, NEW wide
    PROVE  Layout!FiledField(ty, <<<<byte, low, wide>>>>) = <<<<Layout!FromFile(ty, byte), low, wide>>>>
<1>1. DOMAIN <<<<byte, low, wide>>>> = {1}
  OBVIOUS
<1>2. Layout!FiledField(ty, <<<<byte, low, wide>>>>) = [i \in {1} |-> <<Layout!FromFile(ty, byte), low, wide>>]
  BY <1>1 DEF Layout!FiledField
<1>3. <<<<Layout!FromFile(ty, byte), low, wide>>>> = [i \in {1} |-> <<Layout!FromFile(ty, byte), low, wide>>]
  OBVIOUS
<1> QED
  BY <1>2, <1>3

LEMMA FiledTwo ==
    ASSUME NEW ty, NEW b1, NEW l1, NEW w1, NEW b2, NEW l2, NEW w2
    PROVE  Layout!FiledField(ty, <<<<b1, l1, w1>>, <<b2, l2, w2>>>>)
               = <<<<Layout!FromFile(ty, b1), l1, w1>>, <<Layout!FromFile(ty, b2), l2, w2>>>>
<1> DEFINE field == <<<<b1, l1, w1>>, <<b2, l2, w2>>>>
           filed == <<<<Layout!FromFile(ty, b1), l1, w1>>, <<Layout!FromFile(ty, b2), l2, w2>>>>
<1>1. DOMAIN field = 1..2
  OBVIOUS
<1>2. filed = [i \in 1..2 |-> IF i = 1 THEN <<Layout!FromFile(ty, b1), l1, w1>> ELSE <<Layout!FromFile(ty, b2), l2, w2>>]
  OBVIOUS
<1>3. \A i \in 1..2 : <<Layout!FromFile(ty, field[i][1]), field[i][2], field[i][3]>>
                          = IF i = 1 THEN <<Layout!FromFile(ty, b1), l1, w1>> ELSE <<Layout!FromFile(ty, b2), l2, w2>>
  OBVIOUS
<1> HIDE DEF field, filed
<1>4. Layout!FiledField(ty, field) = [i \in 1..2 |-> <<Layout!FromFile(ty, field[i][1]), field[i][2], field[i][3]>>]
  BY <1>1 DEF Layout!FiledField
<1>5. Layout!FiledField(ty, field) = filed
  BY <1>2, <1>3, <1>4
<1> QED
  BY <1>5 DEF field, filed

LEMMA FiledNone == ASSUME NEW ty PROVE Layout!FiledField(ty, Layout!None) = Layout!None
BY DEF Layout!FiledField, Layout!None

LEMMA ScalesAreFields ==
    ASSUME NEW j \in 0..7
    PROVE  /\ Layout!FiledField("q4k", Layout!Scale(j)) = Layout!Scale(j)
           /\ Layout!FiledField("q4k", Layout!Minimum(j)) = Layout!Minimum(j)
<1>1. \A byte : Layout!FromFile("q4k", byte) = byte
  BY DEF Layout!FromFile
<1>2. CASE j < 4
  <2>1. Layout!Scale(j) = <<<<4 + j, 0, 6>>>> /\ Layout!Minimum(j) = <<<<8 + j, 0, 6>>>>
    BY <1>2 DEF Layout!Scale, Layout!Minimum
  <2> QED
    BY <1>1, <2>1, FiledOne
<1>3. CASE ~(j < 4)
  <2>1. /\ Layout!Scale(j) = <<<<8 + j, 0, 4>>, <<j, 6, 2>>>>
        /\ Layout!Minimum(j) = <<<<8 + j, 4, 4>>, <<4 + j, 6, 2>>>>
    BY <1>3 DEF Layout!Scale, Layout!Minimum
  <2> QED
    BY <1>1, <2>1, FiledTwo
<1> QED
  BY <1>2, <1>3

\* What a kernel takes for an element is, in the file, what the decoder takes.
TakesAsFiled(k, e) ==
    (IF k \in Layout!OnFile THEN Takes(k, e) ELSE Layout!Filed(Layout!TypeOf(k), Takes(k, e)))
        = Layout!Decoded(Layout!TypeOf(k), e)

LEMMA TakesAsFiledHolds ==
    ASSUME NEW k \in Layout!Kernels, NEW e \in 0..(Layout!Elems(Layout!TypeOf(k)) - 1)
    PROVE  TakesAsFiled(k, e)
<1>1. CASE k \in Layout!OnFile
  BY <1>1 DEF TakesAsFiled, Takes, Layout!OnFile
<1>2. CASE k = "matvec_q4k"
  <2>1. e \in 0..255 /\ Takes(k, e) = Layout!CpuQ4k(e) /\ Layout!Decoded("q4k", e) = Layout!CpuQ4k(e)
    BY <1>2 DEF Takes, Layout!Decoded, Layout!TypeOf, Layout!Elems
  <2>2. PICK p \in 0..3, h \in 0..1, l \in 0..31 : p = e \div 64 /\ h = (e % 64) \div 32 /\ l = e % 32
    BY <2>1
  <2>3. Layout!CpuQ4k(e) = Q4kBits(p, h, l)
    BY <2>2 DEF Layout!CpuQ4k, Q4kBits
  <2>4. 2 * p + h \in 0..7
    OBVIOUS
  <2>5. Layout!Filed("q4k", Q4kBits(p, h, l)) = Q4kBits(p, h, l)
    BY <2>4, ScalesAreFields, FiledOne DEF Layout!Filed, Q4kBits, Layout!FromFile
  <2> QED
    BY <1>2, <2>1, <2>3, <2>5 DEF TakesAsFiled, Layout!TypeOf, Layout!OnFile
<1>3. CASE k \in {"matvec_q6k", "gemm_q6k", "embed_q6k"}
  <2>1. Takes(k, e) = Layout!CpuQ6k(e) /\ Layout!Decoded("q6k", e) = Layout!CpuQ6k(e)
    BY <1>3 DEF Takes, Layout!Decoded, Layout!TypeOf
  <2>2. Layout!Filed("q6k", Layout!CpuQ6k(e)) = Layout!CpuQ6k(e)
    BY FiledOne, FiledTwo, FiledNone DEF Layout!Filed, Layout!CpuQ6k, Layout!FromFile
  <2> QED
    BY <1>3, <2>1, <2>2 DEF TakesAsFiled, Layout!TypeOf, Layout!OnFile
<1>4. CASE k \in {"matvec_q8_0", "embed_q8_0"}
  <2>1. e \in 0..31 /\ Takes(k, e) = Layout!Plain(4 + e, 8) /\ Layout!Decoded("q8_0", e) = Layout!Plain(2 + e, 8)
    BY <1>4 DEF Takes, Layout!Decoded, Layout!TypeOf, Layout!Elems, Layout!CpuQ8, Layout!Plain
  <2>2. Layout!FromFile("q8_0", 4 + e) = 2 + e /\ Layout!FromFile("q8_0", 0) = 0
    BY <2>1 DEF Layout!FromFile
  <2>3. Layout!Filed("q8_0", Layout!Plain(4 + e, 8)) = Layout!Plain(2 + e, 8)
    BY <2>2, FiledOne, FiledNone DEF Layout!Filed, Layout!Plain
  <2> QED
    BY <1>4, <2>1, <2>3 DEF TakesAsFiled, Layout!TypeOf, Layout!OnFile
<1>5. CASE k \in {"matvec_f32", "embed_f32", "matvec_bf16"}
  <2>1. PICK ty, width :
            /\ ty \in {"f32", "bf16"} /\ ty = Layout!TypeOf(k) /\ Takes(k, e) = Layout!CpuDense(width, e)
            /\ Layout!Decoded(ty, e) = Layout!CpuDense(width, e)
    BY <1>5 DEF Takes, Layout!Decoded, Layout!TypeOf
  <2>2. Layout!Filed(ty, Layout!CpuDense(width, e)) = Layout!CpuDense(width, e)
    BY <2>1, FiledOne, FiledNone DEF Layout!Filed, Layout!CpuDense, Layout!FromFile
  <2> QED
    BY <1>5, <2>1, <2>2 DEF TakesAsFiled, Layout!OnFile
<1> QED
  BY <1>1, <1>2, <1>3, <1>4, <1>5 DEF Layout!Kernels, Layout!OnFile

LEMMA SameLayoutCount == ASSUME NEW S PROVE Layout!Cardinality(S) = Cardinality(S)
BY DEF Layout!Cardinality, Cardinality, Layout!IsFiniteSet, IsFiniteSet

LEMMA UptoCount == ASSUME NEW m \in Nat PROVE IsFiniteSet(0..(m - 1)) /\ Cardinality(0..(m - 1)) = m
<1>1. IsFiniteSet(0..(m - 1)) /\ Cardinality(0..(m - 1)) = IF 0 > m - 1 THEN 0 ELSE (m - 1) - 0 + 1
  BY FS_Interval
<1> QED
  BY <1>1

LEMMA TakenCells ==
    ASSUME NEW k, NEW E, NEW places
    PROVE  {r.at : r \in Reads(k, E, places)} = places
<1>1. \A a \in places : ReadAt(k, E, a).at = a
  BY DEF ReadAt, Layout!Read
<1> QED
  BY <1>1 DEF Reads

\* The places of a row of units cells, those of unit u at places[u], each of c, each cell once.
IsPartition(places, units, c, total) ==
    /\ units \in Nat /\ total \in Nat /\ c \in Nat /\ c * units = total
    /\ \A u \in 0..(units - 1) :
           places[u] \subseteq 0..(total - 1) /\ IsFiniteSet(places[u]) /\ Cardinality(places[u]) = c
    /\ \A a \in 0..(total - 1) : \E u \in 0..(units - 1) : a \in places[u]

\* A row of n blocks of E of a kernel: its units read them from those places.
IsRow(k, n, E, places, units, c, total) ==
    /\ E = Layout!Elems(Layout!TypeOf(k)) /\ units = Layout!Units(k, n) /\ total = n * E
    /\ IsPartition(places, units, c, total)
    /\ \A u \in 0..(units - 1) : Layout!Unit(k, u) = Reads(k, E, places[u])

LEMMA RowIsFiled ==
    ASSUME NEW k \in Layout!Kernels, NEW n \in Nat, NEW E \in Nat \ {0}, NEW places, NEW units, NEW c, NEW total,
           IsRow(k, n, E, places, units, c, total)
    PROVE  Layout!ReadsAsFiled(k, n)
<1> DEFINE ty == Layout!TypeOf(k)
           reads == UNION {Layout!Unit(k, u) : u \in 0..(units - 1)}
           S == 0..(total - 1)
           f == [r \in reads |-> r.at]
           back == [a \in S |-> ReadAt(k, E, a)]
<1> HIDE DEF ty
<1>1. units \in Nat /\ total \in Nat /\ c * units = total
  BY DEF IsRow, IsPartition
<1>2. reads = Reads(k, E, S)
  <2>1. \A u \in 0..(units - 1) : Layout!Unit(k, u) = Reads(k, E, places[u]) /\ places[u] \subseteq S
    BY DEF IsRow, IsPartition
  <2>2. \A a \in S : \E u \in 0..(units - 1) : a \in places[u]
    BY DEF IsRow, IsPartition
  <2> QED
    BY <2>1, <2>2 DEF Reads
<1>3. \A r \in reads : r.at \in S /\ r = ReadAt(k, E, r.at)
  <2>1. \A a \in S : ReadAt(k, E, a).at = a
    BY DEF ReadAt, Layout!Read
  <2> QED
    BY <1>2, <2>1 DEF Reads
<1>4. ASSUME NEW r \in reads
      PROVE  /\ r.at \in 0..(total - 1)
             /\ r.blk = r.at \div E
             /\ (IF k \in Layout!OnFile THEN r.takes ELSE Layout!Filed(ty, r.takes)) = Layout!Decoded(ty, r.at % E)
  <2>1. PICK a \in S : r = ReadAt(k, E, a)
    BY <1>2 DEF Reads
  <2>2. r.at = a /\ r.blk = a \div E /\ r.takes = Takes(k, a % E)
    BY <2>1 DEF ReadAt, Layout!Read
  <2>3. a \in Nat /\ a % E \in 0..(E - 1)
    BY <1>1, Halves
  <2>4. TakesAsFiled(k, a % E)
    BY <2>3, TakesAsFiledHolds DEF IsRow
  <2> QED
    BY <2>2, <2>4 DEF TakesAsFiled, ty
<1>5. Cardinality(reads) = total
  <2>1. \A r \in reads : f[r] \in S /\ back[f[r]] = r
    BY <1>3
  <2>2. \A a \in S : back[a] \in reads /\ f[back[a]] = a
    <3>1. \A a \in S : ReadAt(k, E, a).at = a
      BY DEF ReadAt, Layout!Read
    <3> QED
      BY <1>2, <3>1 DEF Reads
  <2>3. IsFiniteSet(S) /\ Cardinality(S) = total
    BY <1>1, UptoCount
  <2> HIDE DEF reads, S, f, back
  <2>4. IsFiniteSet(reads) /\ Cardinality(reads) = Cardinality(S)
    BY ONLY <2>1, <2>2, <2>3, BackAndForth
  <2> QED
    BY <2>3, <2>4
<1>6. ASSUME NEW u \in 0..(units - 1)
      PROVE  Cardinality({r.at : r \in Layout!Unit(k, u)}) * units = total
  <2>1. Layout!Unit(k, u) = Reads(k, E, places[u]) /\ Cardinality(places[u]) = c
    BY DEF IsRow, IsPartition
  <2>2. {r.at : r \in Layout!Unit(k, u)} = places[u]
    BY <2>1, TakenCells
  <2> QED
    BY <1>1, <2>1, <2>2
<1>7. total = n * Layout!Elems(ty)
  BY DEF IsRow, ty
<1> QED
  BY <1>4, <1>5, <1>6, <1>7, SameLayoutCount DEF Layout!ReadsAsFiled, IsRow, ty

\* Units of c neighbours split a row.
Runs(c, units) == [u \in 0..(units - 1) |-> (c * u)..(c * u + (c - 1))]

LEMMA RunsArePartition ==
    ASSUME NEW c \in Nat \ {0}, NEW units \in Nat
    PROVE  IsPartition(Runs(c, units), units, c, c * units)
<1>1. units * c = c * units /\ units * c \in Nat
  OBVIOUS
<1>2. ASSUME NEW u \in 0..(units - 1)
      PROVE  /\ Runs(c, units)[u] \subseteq 0..(units * c - 1)
             /\ IsFiniteSet(Runs(c, units)[u]) /\ Cardinality(Runs(c, units)[u]) = c
  <2>1. PICK first \in Nat : first = c * u /\ first = u * c
    OBVIOUS
  <2>2. Runs(c, units)[u] = first..(first + (c - 1))
    BY <2>1 DEF Runs
  <2>3. /\ IsFiniteSet(first..(first + (c - 1)))
        /\ Cardinality(first..(first + (c - 1))) = IF first > first + (c - 1) THEN 0 ELSE first + (c - 1) - first + 1
    BY FS_Interval
  <2>4. u * c + (c - 1) \in 0..(units * c - 1)
    BY BeforeEnd
  <2> QED
    BY <2>1, <2>2, <2>3, <2>4
<1>3. ASSUME NEW a \in 0..(units * c - 1) PROVE \E u \in 0..(units - 1) : a \in Runs(c, units)[u]
  <2>1. PICK u \in Nat, e \in 0..(c - 1) : u = a \div c /\ a = u * c + e
    BY Halves
  <2>2. u < units
    <3> SUFFICES ASSUME u >= units PROVE FALSE
      OBVIOUS
    <3>1. PICK m \in Nat : u = units + m
      BY u - units \in Nat /\ u = units + (u - units)
    <3>2. u * c = units * c + m * c /\ m * c \in Nat
      BY <3>1
    <3> QED
      BY <1>1, <2>1, <3>2
  <2>3. PICK first \in Nat : first = c * u /\ first = u * c
    OBVIOUS
  <2>4. u \in 0..(units - 1)
    BY <2>1, <2>2
  <2>5. Runs(c, units)[u] = first..(first + (c - 1))
    BY <2>3, <2>4 DEF Runs
  <2>6. a \in first..(first + (c - 1))
    BY <2>1, <2>3
  <2> QED
    BY <2>4, <2>5, <2>6
<1> QED
  BY <1>1, <1>2, <1>3 DEF IsPartition

\* So do strips of wide lanes, of a part of 128 in each of its four groups.
Strips(wide, units) ==
    [u \in 0..(units - 1) |-> IF wide = 8 THEN Strip(128 * (u \div 4) + 8 * (u % 4), 8)
                                          ELSE Strip(128 * (u \div 32) + (u % 32), 1)]

LEMMA WideStrip ==
    ASSUME NEW base \in Nat PROVE IsFiniteSet(Strip(base, 8)) /\ Cardinality(Strip(base, 8)) = 32
<1> DEFINE W == Strip(base, 8)
           S == 0..31
           f == [a \in W |-> 8 * ((a - base) \div 32) + ((a - base) % 32)]
           back == [i \in S |-> base + 32 * (i \div 8) + (i % 8)]
<1>1. ASSUME NEW a \in W PROVE f[a] \in S /\ back[f[a]] = a
  <2>1. PICK g \in 0..3, x \in 0..7 : a = base + 32 * g + x
    BY DEF Strip
  <2>2. (a - base) \div 32 = g /\ (a - base) % 32 = x
    BY <2>1
  <2>3. f[a] = 8 * g + x
    BY <2>2
  <2>4. 8 * g + x \in S /\ (8 * g + x) \div 8 = g /\ (8 * g + x) % 8 = x
    OBVIOUS
  <2> QED
    BY <2>1, <2>3, <2>4
<1>2. ASSUME NEW i \in S PROVE back[i] \in W /\ f[back[i]] = i
  <2>1. PICK g \in 0..3, x \in 0..7 : g = i \div 8 /\ x = i % 8 /\ i = 8 * g + x
    OBVIOUS
  <2>2. back[i] = base + 32 * g + x
    BY <2>1
  <2>3. base + 32 * g + x \in W
    BY DEF Strip
  <2>4. (base + 32 * g + x - base) \div 32 = g /\ (base + 32 * g + x - base) % 32 = x
    OBVIOUS
  <2> QED
    BY <2>1, <2>2, <2>3, <2>4
<1>3. IsFiniteSet(S) /\ Cardinality(S) = 32
  BY UptoCount, S = 0..(32 - 1)
<1> HIDE DEF W, S, f, back
<1>4. IsFiniteSet(W) /\ Cardinality(W) = Cardinality(S)
  BY ONLY <1>1, <1>2, <1>3, BackAndForth
<1> QED
  BY <1>3, <1>4 DEF W

LEMMA NarrowStrip ==
    ASSUME NEW base \in Nat PROVE IsFiniteSet(Strip(base, 1)) /\ Cardinality(Strip(base, 1)) = 4
<1> DEFINE W == Strip(base, 1)
           S == 0..3
           f == [a \in W |-> (a - base) \div 32]
           back == [i \in S |-> base + 32 * i + 0]
<1>1. ASSUME NEW a \in W PROVE f[a] \in S /\ back[f[a]] = a
  <2>1. PICK g \in 0..3, x \in 0..(1 - 1) : a = base + 32 * g + x
    BY DEF Strip
  <2>2. (a - base) \div 32 = g /\ x = 0
    BY <2>1
  <2> QED
    BY <2>1, <2>2
<1>2. ASSUME NEW i \in S PROVE back[i] \in W /\ f[back[i]] = i
  <2>1. base + 32 * i + 0 \in W
    BY 0 \in 0..(1 - 1) DEF Strip
  <2>2. (base + 32 * i + 0 - base) \div 32 = i
    OBVIOUS
  <2> QED
    BY <2>1, <2>2
<1>3. IsFiniteSet(S) /\ Cardinality(S) = 4
  BY UptoCount, S = 0..(4 - 1)
<1> HIDE DEF W, S, f, back
<1>4. IsFiniteSet(W) /\ Cardinality(W) = Cardinality(S)
  BY ONLY <1>1, <1>2, <1>3, BackAndForth
<1> QED
  BY <1>3, <1>4 DEF W

LEMMA StripsArePartition ==
    ASSUME NEW n \in Nat
    PROVE  IsPartition(Strips(8, 8 * n), 8 * n, 32, 256 * n) /\ IsPartition(Strips(1, 64 * n), 64 * n, 4, 256 * n)
<1>1. ASSUME NEW u \in 0..(8 * n - 1)
      PROVE  /\ Strips(8, 8 * n)[u] \subseteq 0..(256 * n - 1)
             /\ IsFiniteSet(Strips(8, 8 * n)[u]) /\ Cardinality(Strips(8, 8 * n)[u]) = 32
  <2>1. PICK h \in 0..(2 * n - 1), i \in 0..3 : h = u \div 4 /\ i = u % 4
    OBVIOUS
  <2>2. PICK base \in Nat : base = 128 * h + 8 * i /\ base + 104 <= 256 * n
    OBVIOUS
  <2>3. Strips(8, 8 * n)[u] = Strip(base, 8)
    BY <2>1, <2>2 DEF Strips
  <2>4. Strip(base, 8) \subseteq 0..(256 * n - 1)
    BY <2>2 DEF Strip
  <2> QED
    BY <2>3, <2>4, WideStrip
<1>2. ASSUME NEW u \in 0..(64 * n - 1)
      PROVE  /\ Strips(1, 64 * n)[u] \subseteq 0..(256 * n - 1)
             /\ IsFiniteSet(Strips(1, 64 * n)[u]) /\ Cardinality(Strips(1, 64 * n)[u]) = 4
  <2>1. PICK h \in 0..(2 * n - 1), i \in 0..31 : h = u \div 32 /\ i = u % 32
    OBVIOUS
  <2>2. PICK base \in Nat : base = 128 * h + i /\ base + 97 <= 256 * n
    OBVIOUS
  <2>3. Strips(1, 64 * n)[u] = Strip(base, 1)
    BY <2>1, <2>2 DEF Strips
  <2>4. Strip(base, 1) \subseteq 0..(256 * n - 1)
    BY <2>2 DEF Strip
  <2> QED
    BY <2>3, <2>4, NarrowStrip
<1>3. ASSUME NEW a \in 0..(256 * n - 1)
      PROVE  /\ \E u \in 0..(8 * n - 1) : a \in Strips(8, 8 * n)[u]
             /\ \E u \in 0..(64 * n - 1) : a \in Strips(1, 64 * n)[u]
  <2>1. PICK h \in 0..(2 * n - 1), g \in 0..3, l \in 0..31 : a = 128 * h + 32 * g + l
    <3>1. a \div 128 \in 0..(2 * n - 1) /\ (a % 128) \div 32 \in 0..3 /\ a % 32 \in 0..31
      OBVIOUS
    <3>2. a = 128 * (a \div 128) + 32 * ((a % 128) \div 32) + (a % 32)
      OBVIOUS
    <3> QED
      BY <3>1, <3>2
  <2>2. PICK i \in 0..3, x \in 0..7 : l = 8 * i + x
    <3>1. l \div 8 \in 0..3 /\ l % 8 \in 0..7 /\ l = 8 * (l \div 8) + (l % 8)
      OBVIOUS
    <3> QED
      BY <3>1
  <2>3. PICK u \in 0..(8 * n - 1) : u = 4 * h + i
    OBVIOUS
  <2>4. a \in Strips(8, 8 * n)[u]
    <3>1. u \div 4 = h /\ u % 4 = i
      BY <2>3
    <3>2. Strips(8, 8 * n)[u] = Strip(128 * h + 8 * i, 8)
      BY <3>1 DEF Strips
    <3>3. a = 128 * h + 8 * i + 32 * g + x
      BY <2>1, <2>2
    <3> QED
      BY <3>2, <3>3 DEF Strip
  <2>5. PICK v \in 0..(64 * n - 1) : v = 32 * h + l
    OBVIOUS
  <2>6. a \in Strips(1, 64 * n)[v]
    <3>1. v \div 32 = h /\ v % 32 = l
      BY <2>5
    <3>2. Strips(1, 64 * n)[v] = Strip(128 * h + l, 1)
      BY <3>1 DEF Strips
    <3>3. a = 128 * h + l + 32 * g + 0 /\ 0 \in 0..(1 - 1)
      BY <2>1
    <3> QED
      BY <3>2, <3>3 DEF Strip
  <2> QED
    BY <2>4, <2>6
<1> QED
  BY <1>1, <1>2, <1>3 DEF IsPartition

LEMMA ReadsAsFiledHolds ==
    ASSUME NEW k \in Layout!Kernels, NEW n \in Nat PROVE Layout!ReadsAsFiled(k, n)
<1>1. PICK E \in {4, 32, 256} : E = Layout!Elems(Layout!TypeOf(k))
  BY DEF Layout!Kernels, Layout!TypeOf, Layout!Elems
<1>2. CASE k \in {"matvec_q4k", "dot_q4k"}
  <2>1. E = 256 /\ Layout!Units(k, n) = 4 * n /\ 64 * (4 * n) = n * 256
    BY <1>1, <1>2 DEF Layout!Elems, Layout!TypeOf, Layout!Units
  <2>2. IsPartition(Runs(64, 4 * n), 4 * n, 64, n * 256)
    BY <2>1, RunsArePartition
  <2>3. \A u \in 0..(4 * n - 1) : Layout!Unit(k, u) = Reads(k, 256, Runs(64, 4 * n)[u])
    BY <1>2, MatvecQ4kReads, DotQ4kReads DEF Layout!Unit, Runs
  <2>4. IsRow(k, n, 256, Runs(64, 4 * n), 4 * n, 64, n * 256)
    BY <1>1, <2>1, <2>2, <2>3 DEF IsRow
  <2> QED
    BY <2>4, RowIsFiled
<1>3. CASE k = "matvec_q6k"
  <2>1. E = 256 /\ Layout!Units(k, n) = 8 * n /\ 256 * n = n * 256
    BY <1>1, <1>3 DEF Layout!Elems, Layout!TypeOf, Layout!Units
  <2>2. IsPartition(Strips(8, 8 * n), 8 * n, 32, n * 256)
    BY <2>1, StripsArePartition
  <2>3. \A u \in 0..(8 * n - 1) : Layout!Unit(k, u) = Reads(k, 256, Strips(8, 8 * n)[u])
    BY <1>3, MatvecQ6kReads DEF Layout!Unit, Strips
  <2>4. IsRow(k, n, 256, Strips(8, 8 * n), 8 * n, 32, n * 256)
    BY <1>1, <2>1, <2>2, <2>3 DEF IsRow
  <2> QED
    BY <2>4, RowIsFiled
<1>4. CASE k = "gemm_q6k"
  <2>1. E = 256 /\ Layout!Units(k, n) = 64 * n /\ 4 * (64 * n) = n * 256
    BY <1>1, <1>4 DEF Layout!Elems, Layout!TypeOf, Layout!Units
  <2>2. IsPartition(Runs(4, 64 * n), 64 * n, 4, n * 256)
    BY <2>1, RunsArePartition
  <2>3. \A u \in 0..(64 * n - 1) : Layout!Unit(k, u) = Reads(k, 256, Runs(4, 64 * n)[u])
    BY <1>4, GemmQ6kReads DEF Layout!Unit, Runs
  <2>4. IsRow(k, n, 256, Runs(4, 64 * n), 64 * n, 4, n * 256)
    BY <1>1, <2>1, <2>2, <2>3 DEF IsRow
  <2> QED
    BY <2>4, RowIsFiled
<1>5. CASE k \in {"embed_q6k", "dot_q6k"}
  <2>1. E = 256 /\ Layout!Units(k, n) = 64 * n /\ 256 * n = n * 256
    BY <1>1, <1>5 DEF Layout!Elems, Layout!TypeOf, Layout!Units
  <2>2. IsPartition(Strips(1, 64 * n), 64 * n, 4, n * 256)
    BY <2>1, StripsArePartition
  <2>3. \A u \in 0..(64 * n - 1) : Layout!Unit(k, u) = Reads(k, 256, Strips(1, 64 * n)[u])
    BY <1>5, EmbedQ6kReads DEF Layout!Unit, Strips
  <2>4. IsRow(k, n, 256, Strips(1, 64 * n), 64 * n, 4, n * 256)
    BY <1>1, <2>1, <2>2, <2>3 DEF IsRow
  <2> QED
    BY <2>4, RowIsFiled
<1>6. CASE k \in {"matvec_q8_0", "embed_q8_0", "dot_q8_0"}
  <2>1. E = 32 /\ Layout!Units(k, n) = n /\ 32 * n = n * 32
    BY <1>1, <1>6 DEF Layout!Elems, Layout!TypeOf, Layout!Units
  <2>2. IsPartition(Runs(32, n), n, 32, n * 32)
    BY <2>1, RunsArePartition
  <2>3. \A u \in 0..(n - 1) : Layout!Unit(k, u) = Reads(k, 32, Runs(32, n)[u])
    BY <1>6, Q8Reads DEF Layout!Unit, Runs
  <2>4. IsRow(k, n, 32, Runs(32, n), n, 32, n * 32)
    BY <1>1, <2>1, <2>2, <2>3 DEF IsRow
  <2> QED
    BY <2>4, RowIsFiled
<1>7. CASE k \in {"matvec_f32", "matvec_bf16"}
  <2>1. E = 4 /\ Layout!Units(k, n) = n /\ 4 * n = n * 4
    BY <1>1, <1>7 DEF Layout!Elems, Layout!TypeOf, Layout!Units
  <2>2. IsPartition(Runs(4, n), n, 4, n * 4)
    BY <2>1, RunsArePartition
  <2>3. \A u \in 0..(n - 1) : Layout!Unit(k, u) = Reads(k, 4, Runs(4, n)[u])
    BY <1>7, DenseReads DEF Layout!Unit, Runs
  <2>4. IsRow(k, n, 4, Runs(4, n), n, 4, n * 4)
    BY <1>1, <2>1, <2>2, <2>3 DEF IsRow
  <2> QED
    BY <2>4, RowIsFiled
<1>8. CASE k = "embed_f32"
  <2>1. E = 4 /\ Layout!Units(k, n) = 4 * n /\ 1 * (4 * n) = n * 4
    BY <1>1, <1>8 DEF Layout!Elems, Layout!TypeOf, Layout!Units
  <2>2. IsPartition(Runs(1, 4 * n), 4 * n, 1, n * 4)
    BY <2>1, RunsArePartition
  <2>3. \A u \in 0..(4 * n - 1) : Runs(1, 4 * n)[u] = {u}
    BY DEF Runs
  <2>4. \A u \in 0..(4 * n - 1) : Layout!Unit(k, u) = Reads(k, 4, Runs(1, 4 * n)[u])
    BY <1>8, <2>3, EmbedF32Reads DEF Layout!Unit
  <2>5. IsRow(k, n, 4, Runs(1, 4 * n), 4 * n, 1, n * 4)
    BY <1>1, <2>1, <2>2, <2>4 DEF IsRow
  <2> QED
    BY <2>5, RowIsFiled
<1> QED
  BY <1>2, <1>3, <1>4, <1>5, <1>6, <1>7, <1>8 DEF Layout!Kernels

-----------------------------------------------------------------------------

\* The shape tried is one the specification admits.
ShapeInv == shape = <<>> \/ shape \in AnyShape

LEMMA ShapeFits ==
    ASSUME NEW s \in AnyShape
    PROVE  /\ s[1] = "layout" => s[2] \in Layout!Kernels /\ s[3] \in Nat
           /\ s[1] = "written" => s[2] \in Nat /\ s[3] \in Nat /\ s[4] \in Nat \ {0}
           /\ s[1] = "rotates" => /\ s[2] \in Nat /\ s[3] \in Nat \ {0} /\ s[4] \in Nat /\ s[5] \in Nat
                                  /\ s[6] \in Nat /\ s[7] \in Nat \ {0}
           /\ s[1] = "gathers" => s[2] \in Nat /\ \A i \in 3..6 : s[i] \in Nat \ {0}
           /\ s[1] = "convolves" => s[2] \in Nat \ {0} /\ s[3] \in Nat \X Nat
BY DEF AnyShape

\* ComputeSpec, the shapes: for a row of any number of blocks, any number of outputs, tokens,
\* heads, lanes and taps, any pool and patch, any split of a batch, and a workgroup and
\* tiles of any size, each kernel takes the bits and cells the CPU takes, and each output
\* is stored once.
THEOREM KernelsIndexAlikeHolds == ComputeSpec => []KernelsIndexAlike
<1>1. ComputeInit => ShapeInv
  BY DEF ComputeInit, ShapeInv
<1>2. ASSUME ShapeInv, [ComputeNext]_standaloneVars PROVE ShapeInv'
  <2>1. CASE WorkgroupNext \/ UploadNext \/ DeviceNext \/ UNCHANGED standaloneVars
    BY <1>2, <2>1 DEF ShapeInv, WorkgroupNext, UploadNext, DeviceNext, standaloneVars
  <2>2. CASE ShapeNext
    BY <2>2, ComputeAssumption DEF ShapeInv, ShapeNext
  <2> QED
    BY <1>2, <2>1, <2>2 DEF ComputeNext
<1>3. ShapeInv => KernelsIndexAlike
  <2> SUFFICES ASSUME shape \in AnyShape
               PROVE  /\ shape[1] = "layout" => Layout!ReadsAsFiled(shape[2], shape[3])
                      /\ shape[1] = "written" => Shaders!WrittenOnce(shape[2], shape[3], shape[4])
                      /\ shape[1] = "rotates" =>
                             Shaders!RotatesAlike(shape[2], shape[3], shape[4], shape[5], shape[6], shape[7])
                      /\ shape[1] = "gathers" =>
                             Shaders!GathersAlike(shape[2], shape[3], shape[4], shape[5], shape[6])
                      /\ shape[1] = "convolves" => Shaders!ConvolvesAlike(shape[2], shape[3])
    BY DEF ShapeInv, KernelsIndexAlike
  <2>1. shape[1] = "layout" => Layout!ReadsAsFiled(shape[2], shape[3])
    BY ShapeFits, ReadsAsFiledHolds
  <2>2. shape[1] = "written" => Shaders!WrittenOnce(shape[2], shape[3], shape[4])
    BY ShapeFits, WrittenOnceHolds
  <2>3. shape[1] = "rotates" =>
            Shaders!RotatesAlike(shape[2], shape[3], shape[4], shape[5], shape[6], shape[7])
    BY ShapeFits, RotatesAlikeHolds
  <2>4. shape[1] = "gathers" => Shaders!GathersAlike(shape[2], shape[3], shape[4], shape[5], shape[6])
    BY ShapeFits, GathersAlikeHolds
  <2>5. shape[1] = "convolves" => Shaders!ConvolvesAlike(shape[2], shape[3])
    BY ShapeFits, ConvolvesAlikeHolds
  <2> QED
    BY <2>1, <2>2, <2>3, <2>4, <2>5
<1> QED
  BY <1>1, <1>2, <1>3, PTL DEF ComputeSpec
=============================================================================
