--------------------------- MODULE ProgramsProof ---------------------------
(***************************************************************************)
(* The programs around the engine.  Why granted reads leave no trace and   *)
(* secrets no bytes: the tool calls of a granted folder, whatever is       *)
(* swapped between lstat and open and whichever restore fails; and a       *)
(* locked vector of any element size and page size, byte by byte.          *)
(*                                                                         *)
(* The ones that talk.  Why what was said is forgotten when the user is    *)
(* told so, and why what is replayed alternates: the app's window and the  *)
(* private REPL, for any number of turns, conversations, models and        *)
(* events.  Why each cache in the browser holds the rows of its own        *)
(* tokens: the session that yields inside every pass, and the lab's two    *)
(* caches, for any context, batch, vocabulary and prompts.                 *)
(***************************************************************************)
EXTENDS Programs, FiniteSetTheorems, WellFoundedInduction, TLAPS

-----------------------------------------------------------------------------
(* Granted reads.  The call goes on only while every access time it moved  *)
(* was put back, and only while there is budget: one answer uses a call    *)
(* up, so that a text is cut off once.                                     *)

Allowed(node) == node.trait = "fine" /\ node.kind \in {"file", "folder"}

TraceInv ==
    /\ left \in {0, 1} /\ ~after
    /\ tool # "none" => left = 0
    /\ tool = "none" => opened = ReadGrant!Nothing /\ stamp = "none"
    /\ result = "ok" => left = 0 \/ tool # "none"
    /\ stamp # "none" => opened # ReadGrant!Nothing

AllowedInv ==
    /\ opened = ReadGrant!Nothing \/ Allowed(opened)
    /\ \A f \in read : Allowed(f)

BudgetInv ==
    /\ budget \in Nat /\ given \in Nat
    /\ tool # "none" => budget > 0
    /\ budget + given <= TurnBudget \/ (budget = 0 /\ given <= TurnBudget + Suffix)

ReadInv == TraceInv /\ AllowedInv /\ BudgetInv

LEMMA ReadInit == ReadGrant!Init => ReadInv
BY ProgramsAssumption DEF ReadGrant!Init, ReadInv, TraceInv, AllowedInv, BudgetInv

\* One answer: the text is charged, and cut off at most once.
LEMMA AnswerInv ==
    ASSUME BudgetInv, tool # "none", ReadGrant!Answered PROVE BudgetInv'
<1>1. PICK n \in 0..MaxText :
          /\ tool' = "none"
          /\ budget' = ReadGrant!Charged(n) /\ given' = given + ReadGrant!LenCut(n)
  BY DEF ReadGrant!Answered
<1>2. n \in Nat /\ budget \in Nat /\ given \in Nat /\ Suffix \in Nat /\ TurnBudget \in Nat
      /\ budget + given <= TurnBudget
  BY ProgramsAssumption DEF BudgetInv
<1>3. CASE n > budget
  <2>1. ReadGrant!LenCut(n) = budget + Suffix /\ ReadGrant!Charged(n) = 0
    BY <1>2, <1>3 DEF ReadGrant!LenCut, ReadGrant!Charged
  <2> QED
    BY <1>1, <1>2, <2>1 DEF BudgetInv
<1>4. CASE ~(n > budget)
  <2>1. ReadGrant!LenCut(n) = n /\ ReadGrant!Charged(n) = budget - n
    BY <1>2, <1>4 DEF ReadGrant!LenCut, ReadGrant!Charged
  <2> QED
    BY <1>1, <1>2, <1>4, <2>1 DEF BudgetInv
<1> QED
  BY <1>3, <1>4

\* What passes the rules, seen and got, is read under a kind the rules allow.
LEMMA StepAllowed ==
    ASSUME NEW seen \in ReadGrant!Node, NEW got \in ReadGrant!Node, NEW dir,
           ReadGrant!Step(seen, got, dir), ReadGrant!Check(seen, got)
    PROVE  Allowed(got) /\ got # ReadGrant!Nothing
BY DEF ReadGrant!Node, ReadGrant!Kinds, ReadGrant!Traits, ReadGrant!Step, ReadGrant!Check, Allowed,
       ReadGrant!Nothing

LEMMA ReadSteps == ASSUME ReadInv, ReadGrant!Next PROVE ReadInv'
<1> USE DEF ReadGrant!walk, ReadGrant!turn
<1>0. TraceInv /\ AllowedInv /\ BudgetInv
  BY DEF ReadInv
<1>b. ASSUME tool' \in {tool, "none"}, UNCHANGED <<budget, given>> PROVE BudgetInv'
  BY <1>0, <1>b DEF BudgetInv
<1>1. CASE ReadGrant!BeginCall
  <2>1. /\ tool = "none" /\ left' = 0 /\ ~after' /\ UNCHANGED <<stamp, read>>
        /\ \/ tool' = "none" /\ UNCHANGED <<opened, budget, given>>
           \/ /\ budget > 0 /\ tool' # "none" /\ UNCHANGED <<budget, given>>
              /\ Allowed(opened') /\ opened' # ReadGrant!Nothing
    <3>1. CASE ReadGrant!Refused /\ UNCHANGED opened
      BY <1>1, <3>1 DEF ReadGrant!BeginCall, ReadGrant!Refused
    <3>2. ASSUME budget > 0, NEW t \in {"list_dir", "read_file", "search"},
                 NEW seen \in ReadGrant!Node, NEW got \in ReadGrant!Node,
                 ReadGrant!Step(seen, got, FALSE), ReadGrant!Check(seen, got),
                 tool' = t, opened' = got, UNCHANGED <<budget, given>>
          PROVE  /\ budget > 0 /\ tool' # "none" /\ UNCHANGED <<budget, given>>
                 /\ Allowed(opened') /\ opened' # ReadGrant!Nothing
      BY <3>2, StepAllowed
    <3> QED
      BY <1>1, <3>1, <3>2 DEF ReadGrant!BeginCall
  <2>2. TraceInv'
    BY <1>0, <2>1 DEF TraceInv
  <2>3. AllowedInv'
    BY <1>0, <2>1 DEF AllowedInv
  <2>4. BudgetInv'
    BY <1>0, <2>1 DEF BudgetInv
  <2> QED
    BY <2>2, <2>3, <2>4 DEF ReadInv
<1>2. CASE ReadGrant!Hold
  <2>1. /\ opened # ReadGrant!Nothing /\ stamp = "none"
        /\ UNCHANGED <<tool, left, after, read, result, budget, given>>
        /\ \/ stamp' = "saved" /\ opened' = opened
           \/ stamp' = "none" /\ opened' = ReadGrant!Nothing
    BY <1>2 DEF ReadGrant!Hold
  <2>2. TraceInv'
    BY <1>0, <2>1 DEF TraceInv
  <2>3. AllowedInv'
    BY <1>0, <2>1 DEF AllowedInv
  <2> QED
    BY <2>1, <2>2, <2>3, <1>b DEF ReadInv
<1>3. CASE ReadGrant!Read
  <2>1. /\ stamp = "saved" /\ stamp' = "moved" /\ read' = read \cup {opened}
        /\ after' = (after \/ left > 0)
        /\ UNCHANGED <<tool, opened, left, result, budget, given>>
    BY <1>3 DEF ReadGrant!Read
  <2>0. left = 0 /\ ~after /\ tool # "none"
    BY <1>0, <2>1 DEF TraceInv
  <2>4. ~(left > 0)
    BY <2>0
  <2>5. ~after'
    BY <2>1, <2>0, <2>4
  <2>2. TraceInv'
    BY <1>0, <2>0, <2>1, <2>5 DEF TraceInv
  <2>3. AllowedInv'
    <3>1. opened # ReadGrant!Nothing
      BY <1>0, <2>1 DEF TraceInv
    <3> QED
      BY <1>0, <2>1, <3>1 DEF AllowedInv
  <2> QED
    BY <2>1, <2>2, <2>3, <1>b DEF ReadInv
<1>4. CASE ReadGrant!ReadFails
  <2>1. /\ stamp = "moved" /\ stamp' = "none" /\ opened' = ReadGrant!Nothing
        /\ left' \in {left, left + 1} /\ UNCHANGED <<after, read, budget, given>>
        /\ result' = "refused" /\ tool' = "none"
    BY <1>4 DEF ReadGrant!ReadFails, ReadGrant!Refused
  <2>2. TraceInv'
    BY <1>0, <2>1 DEF TraceInv
  <2>3. AllowedInv'
    BY <1>0, <2>1 DEF AllowedInv
  <2> QED
    BY <2>1, <2>2, <2>3, <1>b DEF ReadInv
<1>5. CASE ReadGrant!Restore
  <2>1. /\ stamp = "moved" /\ stamp' = "none" /\ opened' = ReadGrant!Nothing
        /\ UNCHANGED <<after, read>>
    BY <1>5 DEF ReadGrant!Restore
  <2>2. tool # "none"
    BY <1>0, <2>1 DEF TraceInv
  <2>3. \/ left' = left + 1 /\ tool' = "none" /\ result' = "refused" /\ UNCHANGED <<budget, given>>
        \/ left' = left /\ ReadGrant!Answered
        \/ left' = left /\ tool' = "none" /\ result' = "refused" /\ UNCHANGED <<budget, given>>
        \/ left' = left /\ UNCHANGED <<tool, result, budget, given>>
    BY <1>5 DEF ReadGrant!Restore, ReadGrant!RestoreFails, ReadGrant!Refused, ReadGrant!GoOn
  <2>4. TraceInv'
    <3>1. ReadGrant!Answered => tool' = "none"
      BY DEF ReadGrant!Answered
    <3> QED
      BY <1>0, <2>1, <2>2, <2>3, <3>1 DEF TraceInv
  <2>5. AllowedInv'
    BY <1>0, <2>1 DEF AllowedInv
  <2>6. BudgetInv'
    BY <1>0, <2>2, <2>3, <1>b, AnswerInv
  <2> QED
    BY <2>4, <2>5, <2>6 DEF ReadInv
<1>6. CASE ReadGrant!Child
  <2>1. /\ opened = ReadGrant!Nothing /\ tool = "search"
        /\ UNCHANGED <<tool, stamp, left, after, read, result, budget, given>>
        /\ opened' = opened \/ Allowed(opened')
    <3>1. ASSUME NEW seen \in ReadGrant!Node, NEW got \in ReadGrant!Node,
                 ReadGrant!Step(seen, got, seen.kind = "folder"), seen.kind \in {"file", "folder"},
                 ReadGrant!Check(seen, got), opened' = [got EXCEPT !.kind = seen.kind]
          PROVE  Allowed(opened')
      <4>1. Allowed(got)
        BY <3>1, StepAllowed
      <4>2. opened'.trait = got.trait /\ opened'.kind = seen.kind
        BY <3>1 DEF ReadGrant!Node
      <4> QED
        BY <3>1, <4>1, <4>2 DEF Allowed
    <3> QED
      BY <1>6, <3>1 DEF ReadGrant!Child
  <2>2. stamp = "none"
    BY <1>0, <2>1 DEF TraceInv
  <2>3. TraceInv'
    BY <1>0, <2>1, <2>2 DEF TraceInv
  <2>4. AllowedInv'
    BY <1>0, <2>1 DEF AllowedInv
  <2> QED
    BY <2>1, <2>3, <2>4, <1>b DEF ReadInv
<1>7. CASE ReadGrant!FolderEnds
  <2>1. UNCHANGED <<tool, opened, stamp, left, after, read, result, budget, given>>
    BY <1>7 DEF ReadGrant!FolderEnds
  <2> QED
    BY <1>0, <2>1, <1>b DEF ReadInv, TraceInv, AllowedInv
<1>8. CASE ReadGrant!SearchEnds
  <2>1. /\ tool = "search" /\ opened = ReadGrant!Nothing /\ stamp = "none" /\ ReadGrant!Answered
        /\ UNCHANGED <<opened, stamp, left, after, read>>
    BY <1>8 DEF ReadGrant!SearchEnds
  <2>2. tool' = "none"
    BY <2>1 DEF ReadGrant!Answered
  <2>3. TraceInv'
    BY <1>0, <2>1, <2>2 DEF TraceInv
  <2>4. AllowedInv'
    BY <1>0, <2>1 DEF AllowedInv
  <2>5. BudgetInv'
    BY <1>0, <2>1, AnswerInv
  <2> QED
    BY <2>3, <2>4, <2>5 DEF ReadInv
<1> QED
  BY <1>1, <1>2, <1>3, <1>4, <1>5, <1>6, <1>7, <1>8 DEF ReadGrant!Next

LEMMA ReadsAre == ReadInv =>
    ReadGrant!LeavesNoTrace /\ ReadGrant!ReadsOnlyAllowed /\ ReadGrant!BudgetHolds
<1> SUFFICES ASSUME ReadInv PROVE ReadGrant!LeavesNoTrace /\ ReadGrant!ReadsOnlyAllowed /\ ReadGrant!BudgetHolds
  OBVIOUS
<1>1. ReadGrant!LeavesNoTrace
  BY DEF ReadInv, TraceInv, ReadGrant!LeavesNoTrace
<1>2. ReadGrant!ReadsOnlyAllowed
  BY DEF ReadInv, AllowedInv, Allowed, ReadGrant!ReadsOnlyAllowed
<1>3. ReadGrant!BudgetHolds
  BY ProgramsAssumption DEF ReadInv, BudgetInv, ReadGrant!BudgetHolds
<1> QED
  BY <1>1, <1>2, <1>3

-----------------------------------------------------------------------------
(* Locked memory.  First the capacity a vector grows to: the power of two  *)
(* is there and large enough.                                              *)

LEMMA LeastOf ==
    ASSUME NEW R, NEW T, \A x \in Nat, y \in Nat : y < x => <<y, x>> \in R,
           T \subseteq Nat, \E x \in T : \A y \in T : ~(<<y, x>> \in R)
    PROVE \E x \in T : \A y \in T : x <= y
<1>1. PICK x \in T : \A y \in T : ~(<<y, x>> \in R)
  OBVIOUS
<1>2. ASSUME NEW y \in T PROVE x <= y
  <2>1. x \in Nat /\ y \in Nat /\ ~(y < x)
    BY <1>1
  <2> QED
    BY <2>1
<1> QED
  BY <1>2

LEMMA LeastNumber ==
    ASSUME NEW T, T \subseteq Nat, T # {} PROVE \E x \in T : \A y \in T : x <= y
<1> DEFINE R == OpToRel(<, Nat)
<1>1. IsWellFoundedOn(R, Nat)
  BY NatLessThanWellFounded
<1>2. \A x \in Nat, y \in Nat : y < x => <<y, x>> \in R
  BY DEF OpToRel
<1> HIDE DEF R
<1>3. \E x \in T : \A y \in T : ~(<<y, x>> \in R)
  BY <1>1, WFMin
<1> QED
  BY <1>2, <1>3, LeastOf

LEMMA Factor == ASSUME NEW d \in Nat \ {0}, NEW r \in Int, NEW p \in Int, p = d * r PROVE p % d = 0
<1> DEFINE q == p \div d  m == p % d
<1>1. p = d * q + m /\ m \in 0..(d-1) /\ q \in Int
  OBVIOUS
<1> HIDE DEF q, m
<1>2. m = d * (r - q)
  BY <1>1
<1>3. CASE r - q >= 1
  <2>1. d * (r - q) >= d
    BY <1>1, <1>3
  <2> QED
    BY <1>1, <1>2, <2>1
<1>4. CASE r - q <= -1
  <2>1. d * (r - q) <= -d
    BY <1>1, <1>4
  <2> QED
    BY <1>1, <1>2, <2>1
<1>5. CASE r = q
  BY <1>1, <1>2, <1>5 DEF m
<1> QED
  BY <1>1, <1>3, <1>4, <1>5

LEMMA Twice == ASSUME NEW p \in Nat \ {0}, Secret!IsPowerOfTwo(p) PROVE Secret!IsPowerOfTwo(2 * p)
<1> SUFFICES ASSUME NEW d \in 2..(2*p), (2 * p) % d = 0, d % 2 = 1 PROVE FALSE
  BY DEF Secret!IsPowerOfTwo
<1> DEFINE q == (2 * p) \div d  m == d \div 2
<1>1. 2 * p = d * q /\ q \in Nat
  OBVIOUS
<1>2. d = 2 * m + 1 /\ m \in Nat
  OBVIOUS
<1> HIDE DEF q, m
<1> DEFINE z == m * q  r == p - z
<1>3. q = 2 * r /\ r \in Int
  <2>1. 2 * p = 2 * z + q /\ z \in Int
    BY <1>1, <1>2
  <2> HIDE DEF z
  <2> QED
    BY <2>1, <1>1
<1> HIDE DEF r, z
<1>4. p = d * r
  <2>1. d * q = 2 * (d * r) /\ d * r \in Int
    BY <1>3
  <2> QED
    BY <2>1, <1>1
<1>5. r >= 1
  BY <1>3, <1>4
<1>6. p >= d
  BY <1>3, <1>4, <1>5
<1>7. p % d = 0 /\ d \in 2..p
  BY <1>3, <1>4, <1>6, Factor
<1> QED
  BY <1>7 DEF Secret!IsPowerOfTwo

\* From one number to its double there is a power of two.
LEMMA Between == ASSUME NEW n \in Nat \ {0} PROVE \E p \in n..(2 * n) : Secret!IsPowerOfTwo(p)
<1> DEFINE T == {k \in Nat \ {0} : ~\E p \in k..(2 * k) : Secret!IsPowerOfTwo(p)}
<1> SUFFICES ASSUME T # {} PROVE FALSE
  OBVIOUS
<1>1. PICK k \in T : \A j \in T : k <= j
  BY LeastNumber
<1>2. k \in Nat \ {0} /\ ~\E p \in k..(2 * k) : Secret!IsPowerOfTwo(p)
  OBVIOUS
<1>3. k # 1
  <2>1. Secret!IsPowerOfTwo(1)
    BY DEF Secret!IsPowerOfTwo
  <2> QED
    BY <1>2, <2>1
<1>4. k - 1 \in Nat \ {0} /\ k - 1 \notin T
  BY <1>1, <1>2, <1>3
<1>5. PICK p \in (k - 1)..(2 * (k - 1)) : Secret!IsPowerOfTwo(p)
  BY <1>4
<1>6. p = k - 1
  BY <1>2, <1>5
<1>7. Secret!IsPowerOfTwo(2 * p) /\ 2 * p \in k..(2 * k)
  BY <1>3, <1>4, <1>5, <1>6, Twice
<1> QED
  BY <1>2, <1>7

LEMMA PowerHolds ==
    ASSUME NEW n \in Nat \ {0}
    PROVE  Secret!PowerOfTwo(n) \in Nat /\ n <= Secret!PowerOfTwo(n)
<1> DEFINE T == {p \in n..(2 * n + 1) : p > 0 /\ Secret!IsPowerOfTwo(p)}
<1>1. T \subseteq Nat /\ T # {}
  <2>1. PICK p \in n..(2 * n) : Secret!IsPowerOfTwo(p)
    BY Between
  <2> QED
    BY <2>1
<1>2. \E x \in T : \A y \in T : x <= y
  BY <1>1, LeastNumber
<1>3. Secret!PowerOfTwo(n) \in T
  BY <1>2 DEF Secret!PowerOfTwo, Secret!Min
<1> QED
  BY <1>3

LEMMA TwoMax ==
    ASSUME NEW a \in Int, NEW b \in Int
    PROVE  Secret!Max({a, b}) = IF a >= b THEN a ELSE b
BY DEF Secret!Max

LEMMA LayoutHolds ==
    ASSUME NEW c \in Nat
    PROVE  Secret!Layout(c) \in Nat /\ c * Size <= Secret!Layout(c)
<1> DEFINE x == c * Size  q == (x + Page - 1) \div Page  m == (x + Page - 1) % Page
<1>1. x \in Nat /\ Page \in Nat \ {0}
  BY ProgramsAssumption
<1> HIDE DEF x
<1>2. q \in Nat /\ m \in 0..(Page - 1) /\ x + Page - 1 = Page * q + m
  BY <1>1
<1> HIDE DEF q, m
<1>3. q * Page \in Nat /\ x <= q * Page
  BY <1>1, <1>2
<1>4. Secret!Layout(c) = q * Page
  BY DEF Secret!Layout, q, x
<1> QED
  BY <1>3, <1>4 DEF x

LEMMA NoLayout == Secret!Layout(0) = 0
<1>1. Page \in Nat \ {0} /\ Size \in Nat
  BY ProgramsAssumption
<1>2. (0 * Size + Page - 1) \div Page = 0
  BY <1>1
<1> QED
  BY <1>1, <1>2 DEF Secret!Layout

\* Byte b of element i is where it is for no other element.
LEMMA PlaceHolds ==
    ASSUME NEW i \in Nat \ {0}, NEW b \in 1..Size, NEW c \in Nat, i <= c
    PROVE  /\ (i - 1) * Size + b \in 1..(c * Size)
           /\ ((i - 1) * Size + b - 1) \div Size = i - 1
<1>1. Size \in Nat \ {0}
  BY ProgramsAssumption
<1> DEFINE k == i - 1  z == k * Size
<1>2. k \in Nat /\ z \in Nat
  BY <1>1
<1>3. z + Size <= c * Size
  <2>1. (c - i) * Size >= 0
    BY <1>1
  <2>2. c * Size = (c - i) * Size + k * Size + Size
    BY <1>1
  <2> QED
    BY <1>1, <1>2, <2>1, <2>2
<1>4. (z + b - 1) \div Size = k
  BY <1>1, <1>2
<1> QED
  BY <1>1, <1>2, <1>3, <1>4

LEMMA PlaceOf ==
    ASSUME NEW i \in Nat \ {0}, NEW b \in 1..Size, NEW j, j = (i - 1) * Size + b
    PROVE  (j - 1) \div Size = i - 1
<1>1. i \in Nat /\ i <= i
  OBVIOUS
<1>2. ((i - 1) * Size + b - 1) \div Size = i - 1
  BY <1>1, PlaceHolds
<1> DEFINE z == (i - 1) * Size
<1>3. z \in Int
  BY ProgramsAssumption
<1>4. j = z + b /\ (z + (b - 1)) \div Size = i - 1
  BY <1>2
<1> HIDE DEF z
<1> QED
  BY <1>3, <1>4

\* w is the memory with s written from element n on, element by element.
Puts(w, mem, n, s) ==
    \A i \in Nat \ {0}, b \in 1..Size :
        (i - 1) * Size + b \in DOMAIN mem =>
            w[(i - 1) * Size + b] =
                IF i - 1 \in n..(n + Len(s) - 1) THEN s[i - n] ELSE mem[(i - 1) * Size + b]

\* Writing s from element n on changes those elements and no others.
LEMMA WrittenHolds ==
    ASSUME NEW S, NEW top \in Nat, NEW mem \in [1..top -> S], NEW n \in Nat, NEW s \in Seq(S),
           NEW w, w = Secret!Written(mem, n, s)
    PROVE  w \in [1..top -> S] /\ Puts(w, mem, n, s)
<1> DEFINE e(k) == (k - 1) \div Size
<1>1. w = [j \in 1..top |-> IF e(j) \in n..(n + Len(s) - 1) THEN s[e(j) - n + 1] ELSE mem[j]]
  BY DEF Secret!Written
<1>2. Size \in Nat \ {0} /\ Len(s) \in Nat
  BY ProgramsAssumption
<1>3. w \in [1..top -> S]
  <2> SUFFICES ASSUME NEW j \in 1..top
               PROVE  (IF e(j) \in n..(n + Len(s) - 1) THEN s[e(j) - n + 1] ELSE mem[j]) \in S
    BY <1>1
  <2>1. CASE e(j) \in n..(n + Len(s) - 1)
    <3>1. e(j) - n + 1 \in 1..Len(s)
      BY <1>2, <2>1
    <3> QED
      BY <2>1, <3>1
  <2> QED
    BY <2>1
<1>4. ASSUME NEW i \in Nat \ {0}, NEW b \in 1..Size, (i - 1) * Size + b \in 1..top
      PROVE  w[(i - 1) * Size + b] =
                 IF i - 1 \in n..(n + Len(s) - 1) THEN s[i - n] ELSE mem[(i - 1) * Size + b]
  <2> DEFINE j == (i - 1) * Size + b
  <2>1. j \in 1..top
    BY <1>4
  <2>2. i \in Nat /\ i <= i
    OBVIOUS
  <2>3. j = (i - 1) * Size + b
    OBVIOUS
  <2> HIDE DEF j
  <2>4. (j - 1) \div Size = i - 1
    BY <2>2, <2>3, PlaceOf
  <2>5. w[j] = IF e(j) \in n..(n + Len(s) - 1) THEN s[e(j) - n + 1] ELSE mem[j]
    BY <1>1, <2>1
  <2>6. (i - 1) - n + 1 = i - n
    OBVIOUS
  <2> HIDE DEF e
  <2>7. w[j] = IF i - 1 \in n..(n + Len(s) - 1) THEN s[i - n] ELSE mem[j]
    BY <2>4, <2>5, <2>6 DEF e
  <2> QED
    BY <2>7 DEF j
<1>5. DOMAIN mem = 1..top
  OBVIOUS
<1>6. Puts(w, mem, n, s)
  BY <1>4, <1>5 DEF Puts
<1> QED
  BY <1>3, <1>6

\* The memory holds the first n elements of s, each byte of them in its place.
Holds(mem, n, s) == \A i \in 1..n, b \in 1..Size : mem[(i - 1) * Size + b] = s[i]

\* Appending s to a vector that holds `old`, in memory with room for both.
LEMMA PutHolds ==
    ASSUME NEW S, NEW c \in Nat, NEW mem \in [1..Secret!Layout(c) -> S], NEW n \in Nat,
           NEW old \in Seq(S), n = Len(old), NEW s \in Seq(S), n + Len(s) <= c,
           Holds(mem, n, old), NEW w, w = Secret!Written(mem, n, s)
    PROVE  /\ w \in [1..Secret!Layout(c) -> S]
           /\ old \o s \in Seq(S) /\ Len(old \o s) = n + Len(s)
           /\ Holds(w, n + Len(s), old \o s)
<1> DEFINE top == Secret!Layout(c)
<1>0. Len(s) \in Nat /\ Size \in Nat \ {0}
  BY ProgramsAssumption
<1>1. top \in Nat /\ c * Size <= top /\ c * Size \in Nat
  BY <1>0, LayoutHolds
<1>a. mem \in [1..top -> S] /\ n \in Nat /\ s \in Seq(S)
  OBVIOUS
<1> HIDE DEF top
<1>b. w \in [1..top -> S] /\ Puts(w, mem, n, s)
  BY <1>1, <1>a, WrittenHolds, Zenon
<1>c. DOMAIN mem = 1..top
  BY <1>a
<1>2. /\ w \in [1..top -> S]
      /\ \A i \in Nat \ {0}, b \in 1..Size :
            (i - 1) * Size + b \in 1..top =>
                w[(i - 1) * Size + b] =
                    IF i - 1 \in n..(n + Len(s) - 1) THEN s[i - n] ELSE mem[(i - 1) * Size + b]
  BY <1>b, <1>c DEF Puts
<1>3. /\ old \o s \in Seq(S) /\ Len(old \o s) = n + Len(s)
      /\ \A i \in 1..n : (old \o s)[i] = old[i]
      /\ \A i \in (n + 1)..(n + Len(s)) : (old \o s)[i] = s[i - n]
  OBVIOUS
<1>4. ASSUME NEW i \in 1..(n + Len(s)), NEW b \in 1..Size PROVE w[(i - 1) * Size + b] = (old \o s)[i]
  <2> DEFINE j == (i - 1) * Size + b
  <2>1. i \in Nat \ {0} /\ i <= c
    BY <1>0
  <2>2. j \in 1..(c * Size)
    BY <2>1, PlaceHolds
  <2>3. j \in 1..top
    BY <1>1, <2>2
  <2>4. w[j] = IF i - 1 \in n..(n + Len(s) - 1) THEN s[i - n] ELSE mem[j]
    BY <1>2, <2>1, <2>3
  <2>5. i <= n => mem[j] = old[i]
    BY <2>1 DEF Holds
  <2> HIDE DEF j
  <2>6. CASE i <= n
    <3>1. i - 1 \notin n..(n + Len(s) - 1) /\ i \in 1..n
      BY <1>0, <2>1, <2>6
    <3> QED
      BY <1>3, <2>4, <2>5, <2>6, <3>1 DEF j
  <2>7. CASE i > n
    <3>1. i - 1 \in n..(n + Len(s) - 1) /\ i \in (n + 1)..(n + Len(s))
      BY <1>0, <2>1, <2>7
    <3> QED
      BY <1>3, <2>4, <3>1 DEF j
  <2> QED
    BY <1>0, <2>1, <2>6, <2>7
<1> QED
  BY <1>2, <1>3, <1>4 DEF top, Holds

\* What is released is zeroed to the end of its last page.
LEMMA ReleasedHolds ==
    ASSUME NEW S, NEW c \in Nat, NEW mem \in [1..Secret!Layout(c) -> S]
    PROVE  Secret!Released(c, mem) = {}
<1>1. Secret!Layout(c) \in Nat
  BY LayoutHolds
<1>2. \A i \in 1..Secret!Layout(c) : Secret!Zero(mem, Secret!Layout(c))[i] = 0
  BY <1>1 DEF Secret!Zero
<1>3. DOMAIN Secret!Zero(mem, Secret!Layout(c)) = 1..Secret!Layout(c)
  BY DEF Secret!Zero
<1>4. Secret!Held(Secret!Zero(mem, Secret!Layout(c))) = {}
  BY <1>2, <1>3 DEF Secret!Held
<1> QED
  BY <1>4 DEF Secret!Released

-----------------------------------------------------------------------------
(* A vector's elements are where they were put and nowhere else counts:    *)
(* the allocation is its layout's, so that zeroing that leaves nothing.    *)
(* A block is on the zeroing heap only once that is armed.                 *)

Cells == Values \cup {0}

VecInv ==
    /\ cap \in Nat /\ len \in Nat /\ len <= cap
    /\ bytes \in [1..Secret!Layout(cap) -> Cells]
    /\ wants \in Seq(Values) /\ Len(wants) = len
    /\ Holds(bytes, len, wants)
    /\ wiped => \A j \in 1..Secret!Layout(cap) : bytes[j] = 0

HeapInv == leaked = {} /\ (heap # 0 => armed)

SecretInv == VecInv /\ HeapInv

LEMMA SecretInit == Secret!Init => SecretInv
<1> SUFFICES ASSUME Secret!Init PROVE SecretInv
  OBVIOUS
<1>1. cap = 0 /\ len = 0 /\ bytes = <<>> /\ wants = <<>> /\ ~wiped /\ heap = 0 /\ leaked = {}
  BY DEF Secret!Init
<1>2. bytes \in [1..Secret!Layout(cap) -> Cells]
  BY <1>1, NoLayout
<1> QED
  BY <1>1, <1>2 DEF SecretInv, VecInv, HeapInv, Holds

\* What a vector grows into holds what it held.
LEMMA GrownHolds ==
    ASSUME VecInv, NEW need \in Nat
    PROVE  /\ Secret!Grown(need) \in Nat /\ need <= Secret!Grown(need) /\ cap <= Secret!Grown(need)
           /\ Secret!Bytes(need) \in [1..Secret!Layout(Secret!Grown(need)) -> Cells]
           /\ Holds(Secret!Bytes(need), len, wants)
<1>1. /\ cap \in Nat /\ len \in Nat /\ len <= cap
      /\ bytes \in [1..Secret!Layout(cap) -> Cells]
      /\ Holds(bytes, len, wants)
      /\ MinCap \in Nat /\ Size \in Nat \ {0}
  BY ProgramsAssumption DEF VecInv
<1>2. CASE need <= cap
  <2>1. Secret!Grown(need) = cap /\ Secret!Bytes(need) = bytes
    BY <1>2 DEF Secret!Grown, Secret!Bytes
  <2> QED
    BY <1>1, <1>2, <2>1
<1>3. CASE ~(need <= cap)
  <2> DEFINE p == Secret!PowerOfTwo(need)  g == Secret!Grown(need)  top == Secret!Layout(g)
             fb == Secret!Bytes(need)
  <2>1. p \in Nat /\ need <= p
    BY <1>1, <1>3, PowerHolds
  <2>2. g = IF p >= MinCap THEN p ELSE MinCap
    BY <1>1, <1>3, <2>1, TwoMax DEF Secret!Grown
  <2> HIDE DEF g, p
  <2>3. g \in Nat /\ need <= g /\ cap <= g
    BY <1>1, <1>3, <2>1, <2>2
  <2>4. top \in Nat /\ g * Size <= top /\ Secret!Layout(cap) \in Nat /\ cap * Size <= Secret!Layout(cap)
    BY <1>1, <2>3, LayoutHolds
  <2>5. fb = [j \in 1..top |-> IF j <= len * Size THEN bytes[j] ELSE 0]
    BY <1>3 DEF Secret!Bytes, g
  <2>6. len * Size \in Nat /\ len * Size <= cap * Size
    <3>1. (cap - len) * Size >= 0 /\ cap * Size = (cap - len) * Size + len * Size
      BY <1>1
    <3> QED
      BY <1>1, <3>1
  <2>7. len * Size <= top
    <3>1. (g - len) * Size >= 0 /\ g * Size = (g - len) * Size + len * Size
      BY <1>1, <2>3
    <3> QED
      BY <1>1, <2>3, <2>4, <2>6, <3>1
  <2> HIDE DEF top, fb
  <2>8. fb \in [1..top -> Cells]
    <3> SUFFICES ASSUME NEW j \in 1..top PROVE (IF j <= len * Size THEN bytes[j] ELSE 0) \in Cells
      BY <2>5
    <3>1. CASE j <= len * Size
      <4>1. j \in 1..Secret!Layout(cap)
        BY <1>1, <2>4, <2>6, <3>1
      <4> QED
        BY <1>1, <3>1, <4>1
    <3> QED
      BY <3>1 DEF Cells
  <2>9. ASSUME NEW i \in 1..len, NEW b \in 1..Size PROVE fb[(i - 1) * Size + b] = wants[i]
    <3> DEFINE j == (i - 1) * Size + b
    <3>1. j \in 1..(len * Size)
      BY <1>1, PlaceHolds
    <3>2. bytes[j] = wants[i]
      BY <1>1 DEF Holds
    <3> HIDE DEF j
    <3>3. fb[j] = bytes[j]
      BY <2>4, <2>5, <2>6, <2>7, <3>1
    <3> QED
      BY <3>2, <3>3 DEF j
  <2> QED
    BY <2>3, <2>8, <2>9 DEF top, g, fb, Holds
<1> QED
  BY <1>2, <1>3

\* Putting s behind what is there, in what the vector grew into.
LEMMA BehindHolds ==
    ASSUME VecInv, NEW need \in Nat, NEW s \in Seq(Values), len + Len(s) <= Secret!Grown(need),
           NEW w, w = Secret!Written(Secret!Bytes(need), len, s)
    PROVE  /\ w \in [1..Secret!Layout(Secret!Grown(need)) -> Cells]
           /\ wants \o s \in Seq(Values) /\ Len(wants \o s) = len + Len(s)
           /\ Holds(w, len + Len(s), wants \o s)
<1> DEFINE g == Secret!Grown(need)  mem == Secret!Bytes(need)
<1>1. /\ g \in Nat /\ mem \in [1..Secret!Layout(g) -> Cells]
      /\ Holds(mem, len, wants)
  BY GrownHolds
<1>2. w = Secret!Written(mem, len, s) /\ len + Len(s) <= g
  OBVIOUS
<1>3. wants \in Seq(Values) /\ Len(wants) = len /\ len \in Nat
  BY DEF VecInv
<1>4. wants \in Seq(Cells) /\ s \in Seq(Cells)
  BY <1>3 DEF Cells
<1>5. wants \o s \in Seq(Values)
  BY <1>3
<1> HIDE DEF g, mem
<1>6. /\ w \in [1..Secret!Layout(g) -> Cells] /\ Len(wants \o s) = len + Len(s)
      /\ Holds(w, len + Len(s), wants \o s)
  BY <1>1, <1>2, <1>3, <1>4, PutHolds
<1> QED
  BY <1>5, <1>6 DEF g

\* Growing frees the old allocation, zeroed.
LEMMA GrowLeaves ==
    ASSUME VecInv, leaked = {}, NEW need \in Nat, Secret!Grow(need)
    PROVE  cap' = Secret!Grown(need) /\ leaked' = {}
<1>1. cap \in Nat /\ bytes \in [1..Secret!Layout(cap) -> Cells]
  BY DEF VecInv
<1>2. Secret!Released(cap, bytes) = {}
  BY <1>1, ReleasedHolds
<1> QED
  BY <1>2 DEF Secret!Grow

LEMMA ExtendStep ==
    ASSUME SecretInv, NEW s \in Seq(Values), Secret!ExtendFromSlice(s) PROVE SecretInv'
<1>0. VecInv /\ leaked = {} /\ (heap # 0 => armed) /\ len \in Nat /\ Len(s) \in Nat
  BY DEF SecretInv, VecInv, HeapInv
<1> DEFINE need == len + Len(s)
<1>1. need \in Nat
  BY <1>0
<1>2. /\ Secret!Grow(need) /\ bytes' = Secret!Written(Secret!Bytes(need), len, s)
      /\ len' = need /\ wants' = wants \o s /\ ~wiped' /\ UNCHANGED <<armed, heap>>
  BY DEF Secret!ExtendFromSlice
<1>3. cap' = Secret!Grown(need) /\ leaked' = {}
  BY <1>0, <1>1, <1>2, GrowLeaves
<1>4. Secret!Grown(need) \in Nat /\ need <= Secret!Grown(need)
  BY <1>0, <1>1, GrownHolds
<1>5. /\ bytes' \in [1..Secret!Layout(Secret!Grown(need)) -> Cells]
      /\ wants' \in Seq(Values) /\ Len(wants') = len'
      /\ Holds(bytes', len', wants')
  BY <1>0, <1>1, <1>2, <1>4, BehindHolds
<1> HIDE DEF need
<1>6. VecInv'
  BY <1>1, <1>2, <1>3, <1>4, <1>5 DEF VecInv
<1> QED
  BY <1>0, <1>2, <1>3, <1>6 DEF SecretInv, HeapInv

LEMMA ResizeStep ==
    ASSUME SecretInv, NEW n \in 0..MaxLen, NEW v \in Values, Secret!Resize(n, v) PROVE SecretInv'
<1>0. /\ VecInv /\ leaked = {} /\ (heap # 0 => armed) /\ len \in Nat /\ cap \in Nat /\ len <= cap
      /\ wants \in Seq(Values) /\ Len(wants) = len
  BY DEF SecretInv, VecInv, HeapInv
<1>1. n \in Nat
  BY ProgramsAssumption
<1> DEFINE k == IF n <= len THEN 0 ELSE n - len  s == [i \in 1..k |-> v]
<1>2. k \in Nat /\ Secret!Max({0, n - len}) = k
  BY <1>0, <1>1, TwoMax
<1>3. /\ Secret!Grow(n)
      /\ bytes' = Secret!Written(Secret!Bytes(n), len, [i \in 1..Secret!Max({0, n - len}) |-> v])
      /\ len' = n /\ ~wiped' /\ UNCHANGED <<armed, heap>>
      /\ wants' = IF n <= len THEN SubSeq(wants, 1, n) ELSE wants \o [i \in 1..(n - len) |-> v]
  BY DEF Secret!Resize
<1>4. bytes' = Secret!Written(Secret!Bytes(n), len, s)
  BY <1>2, <1>3
<1>5. s \in Seq(Values) /\ Len(s) = k
  BY <1>2
<1>6. cap' = Secret!Grown(n) /\ leaked' = {}
  BY <1>0, <1>1, <1>3, GrowLeaves
<1>7. Secret!Grown(n) \in Nat /\ n <= Secret!Grown(n) /\ cap <= Secret!Grown(n)
  BY <1>0, <1>1, GrownHolds
<1>8. len + k <= Secret!Grown(n) /\ n <= len + k
  BY <1>0, <1>1, <1>7
<1>9. wants' = IF n <= len THEN SubSeq(wants, 1, n) ELSE wants \o s
  BY <1>3
<1>10. n > len => n = len + k
  BY <1>0, <1>1
<1> HIDE DEF k, s
<1>11. /\ bytes' \in [1..Secret!Layout(Secret!Grown(n)) -> Cells]
       /\ wants \o s \in Seq(Values) /\ Len(wants \o s) = len + k
       /\ Holds(bytes', len + k, wants \o s)
  BY <1>0, <1>1, <1>4, <1>5, <1>8, BehindHolds
<1>12. /\ wants' \in Seq(Values) /\ Len(wants') = n
       /\ \A i \in 1..n : wants'[i] = (wants \o s)[i]
  <2>1. CASE n <= len
    <3>1. n \in 0..Len(wants)
      BY <1>0, <1>1, <2>1
    <3>2. /\ wants' \in Seq(Values) /\ Len(wants') = n /\ \A i \in 1..n : wants'[i] = wants[i]
      BY <1>0, <1>9, <2>1, <3>1
    <3>3. \A i \in 1..n : (wants \o s)[i] = wants[i]
      BY <1>0, <1>5, <3>1
    <3> QED
      BY <3>2, <3>3
  <2>2. CASE n > len
    BY <1>0, <1>1, <1>9, <1>10, <1>11, <2>2
  <2>3. n <= len \/ n > len
    BY <1>0, <1>1
  <2> QED
    BY <2>1, <2>2, <2>3
<1>13. ASSUME NEW i \in 1..n, NEW b \in 1..Size PROVE bytes'[(i - 1) * Size + b] = wants'[i]
  <2>1. i \in 1..(len + k)
    BY <1>0, <1>1, <1>2, <1>8
  <2> QED
    BY <1>11, <1>12, <2>1 DEF Holds
<1>14. Holds(bytes', n, wants')
  BY <1>13 DEF Holds
<1>15. VecInv'
  BY <1>1, <1>3, <1>6, <1>7, <1>11, <1>12, <1>14 DEF VecInv
<1> QED
  BY <1>0, <1>3, <1>6, <1>15 DEF SecretInv, HeapInv

LEMMA SetStep ==
    ASSUME SecretInv, NEW i \in 0..(MaxLen - 1), NEW v \in Values, Secret!Set(i, v) PROVE SecretInv'
<1>0. /\ VecInv /\ HeapInv /\ len \in Nat /\ cap \in Nat /\ len <= cap
      /\ bytes \in [1..Secret!Layout(cap) -> Cells] /\ wants \in Seq(Values) /\ Len(wants) = len
      /\ Holds(bytes, len, wants)
  BY DEF SecretInv, VecInv
<1>1. i \in Nat /\ Size \in Nat
  BY ProgramsAssumption
<1>2. /\ i < len /\ bytes' = Secret!Written(bytes, i, <<v>>) /\ wants' = [wants EXCEPT ![i + 1] = v]
      /\ ~wiped' /\ UNCHANGED <<cap, len, armed, heap, leaked>>
  BY DEF Secret!Set
<1>3. Secret!Layout(cap) \in Nat /\ cap * Size <= Secret!Layout(cap)
  BY <1>0, LayoutHolds
<1>4. <<v>> \in Seq(Cells) /\ Len(<<v>>) = 1 /\ <<v>>[1] = v
  BY DEF Cells
<1>5. bytes' \in [1..Secret!Layout(cap) -> Cells] /\ Puts(bytes', bytes, i, <<v>>)
  BY <1>0, <1>1, <1>2, <1>3, <1>4, WrittenHolds
<1>6. wants' \in Seq(Values) /\ Len(wants') = len
      /\ \A j \in 1..len : wants'[j] = IF j = i + 1 THEN v ELSE wants[j]
  BY <1>0, <1>1, <1>2
<1>7. ASSUME NEW j \in 1..len, NEW b \in 1..Size PROVE bytes'[(j - 1) * Size + b] = wants'[j]
  <2> DEFINE p == (j - 1) * Size + b
  <2>1. j \in Nat \ {0} /\ j <= cap
    BY <1>0
  <2>2. p \in 1..(cap * Size)
    BY <1>0, <2>1, PlaceHolds
  <2>3. p \in DOMAIN bytes
    BY <1>0, <1>1, <1>3, <2>2
  <2>4. bytes'[p] = IF j - 1 \in i..(i + Len(<<v>>) - 1) THEN <<v>>[j - i] ELSE bytes[p]
    BY <1>5, <2>1, <2>3 DEF Puts
  <2>5. bytes[p] = wants[j]
    BY <1>0 DEF Holds
  <2> HIDE DEF p
  <2>6. CASE j = i + 1
    <3>1. j - 1 \in i..(i + Len(<<v>>) - 1) /\ j - i = 1
      BY <1>1, <1>4, <2>6
    <3> QED
      BY <1>4, <1>6, <2>4, <2>6, <3>1 DEF p
  <2>7. CASE j # i + 1
    <3>1. j - 1 \notin i..(i + Len(<<v>>) - 1)
      BY <1>1, <1>4, <2>1, <2>7
    <3> QED
      BY <1>6, <2>4, <2>5, <2>7, <3>1 DEF p
  <2> QED
    BY <2>6, <2>7
<1>8. VecInv'
  BY <1>0, <1>2, <1>5, <1>6, <1>7 DEF VecInv, Holds
<1> QED
  BY <1>0, <1>2, <1>8 DEF SecretInv, HeapInv

\* A wipe zeroes the allocation, not the elements that are there.
LEMMA WipedHolds ==
    ASSUME VecInv
    PROVE  /\ Secret!WipedBytes \in [1..Secret!Layout(cap) -> Cells]
           /\ \A j \in 1..Secret!Layout(cap) : Secret!WipedBytes[j] = 0
<1>1. cap \in Nat /\ bytes \in [1..Secret!Layout(cap) -> Cells] /\ Secret!Layout(cap) \in Nat
  BY LayoutHolds DEF VecInv
<1>2. CASE cap > 0
  <2>1. Secret!WipedBytes = [j \in 1..Secret!Layout(cap) |-> 0]
    BY <1>1, <1>2 DEF Secret!WipedBytes, Secret!Zero
  <2> QED
    BY <2>1 DEF Cells
<1>3. CASE cap = 0
  <2>1. Secret!WipedBytes = bytes /\ Secret!Layout(cap) = 0
    BY <1>3, NoLayout DEF Secret!WipedBytes
  <2> QED
    BY <1>1, <2>1
<1> QED
  BY <1>1, <1>2, <1>3

LEMMA ReplaceStep ==
    ASSUME SecretInv, NEW s \in Seq(Values), Secret!Replace(s) PROVE SecretInv'
<1>0. VecInv /\ leaked = {} /\ (heap # 0 => armed) /\ cap \in Nat /\ Len(s) \in Nat
  BY DEF SecretInv, VecInv, HeapInv
<1> DEFINE g == Secret!Grown(Len(s))  mem == IF Len(s) <= cap THEN Secret!WipedBytes
                                               ELSE [i \in 1..Secret!Layout(g) |-> 0]
<1>1. /\ cap' = g /\ bytes' = Secret!Written(mem, 0, s) /\ len' = Len(s) /\ wants' = s /\ ~wiped'
      /\ leaked' = leaked \/ leaked' = leaked \cup Secret!Released(cap, Secret!WipedBytes)
      /\ UNCHANGED <<armed, heap>>
  BY DEF Secret!Replace
<1>2. g \in Nat /\ Len(s) <= g /\ (Len(s) <= cap => g = cap)
  BY <1>0, GrownHolds DEF Secret!Grown
<1>3. Secret!WipedBytes \in [1..Secret!Layout(cap) -> Cells]
  BY <1>0, WipedHolds
<1>4. mem \in [1..Secret!Layout(g) -> Cells]
  BY <1>2, <1>3 DEF Cells
<1>5. leaked' = {}
  <2>1. Secret!Released(cap, Secret!WipedBytes) = {}
    BY <1>0, <1>3, ReleasedHolds
  <2> QED
    BY <1>0, <1>1, <2>1
<1> HIDE DEF g, mem
<1>6. /\ bytes' \in [1..Secret!Layout(g) -> Cells]
      /\ Holds(bytes', 0 + Len(s), <<>> \o s)
  <2>1. s \in Seq(Cells) /\ <<>> \in Seq(Cells) /\ Len(<<>>) = 0 /\ 0 \in Nat /\ 0 + Len(s) <= g
    BY <1>0, <1>2 DEF Cells
  <2>2. Holds(mem, 0, <<>>)
    BY DEF Holds
  <2> QED
    BY <1>1, <1>2, <1>4, <2>1, <2>2, PutHolds
<1>7. Holds(bytes', len', wants')
  <2>1. <<>> \o s = s /\ 0 + Len(s) = Len(s)
    BY <1>0
  <2> QED
    BY <1>1, <1>6, <2>1
<1>8. VecInv'
  BY <1>0, <1>1, <1>2, <1>6, <1>7 DEF VecInv
<1> QED
  BY <1>0, <1>1, <1>5, <1>8 DEF SecretInv, HeapInv

LEMMA SecretSteps == ASSUME SecretInv, Secret!Next PROVE SecretInv'
<1>0. VecInv /\ HeapInv /\ leaked = {} /\ (heap # 0 => armed) /\ cap \in Nat
      /\ bytes \in [1..Secret!Layout(cap) -> Cells]
  BY DEF SecretInv, VecInv, HeapInv
<1>1. ASSUME NEW s \in Secret!Slices, Secret!ExtendFromSlice(s) \/ Secret!Replace(s) PROVE SecretInv'
  <2>1. \A v \in Values : <<v>> \in Seq(Values) /\ <<v, v>> \in Seq(Values)
    OBVIOUS
  <2>2. \E v \in Values : s = <<v>> \/ s = <<v, v>>
    BY DEF Secret!Slices
  <2>3. s \in Seq(Values)
    BY <2>1, <2>2
  <2> QED
    BY <1>1, <2>3, ExtendStep, ReplaceStep
<1>2. ASSUME NEW n \in 0..MaxLen, NEW v \in Values, Secret!Resize(n, v) PROVE SecretInv'
  BY <1>2, ResizeStep
<1>3. ASSUME NEW i \in 0..(MaxLen - 1), NEW v \in Values, Secret!Set(i, v) PROVE SecretInv'
  BY <1>3, SetStep
<1>4. CASE Secret!Wipe
  <2>1. /\ bytes' = Secret!WipedBytes /\ len' = 0 /\ wants' = <<>>
        /\ UNCHANGED <<cap, armed, heap, leaked>>
    BY <1>4 DEF Secret!Wipe
  <2>2. /\ bytes' \in [1..Secret!Layout(cap) -> Cells]
        /\ \A j \in 1..Secret!Layout(cap) : bytes'[j] = 0
    BY <1>0, <2>1, WipedHolds
  <2>3. VecInv'
    BY <1>0, <2>1, <2>2 DEF VecInv, Holds
  <2> QED
    BY <1>0, <2>1, <2>3 DEF SecretInv, HeapInv
<1>5. CASE Secret!Drop
  <2>1. Secret!Released(cap, bytes) = {}
    BY <1>0, ReleasedHolds
  <2>2. /\ leaked' = {} /\ cap' = 0 /\ len' = 0 /\ bytes' = <<>> /\ wants' = <<>> /\ ~wiped'
        /\ UNCHANGED <<armed, heap>>
    BY <1>0, <1>5, <2>1 DEF Secret!Drop
  <2>3. bytes' \in [1..Secret!Layout(0) -> Cells]
    BY <2>2, NoLayout
  <2>4. VecInv'
    BY <2>2, <2>3 DEF VecInv, Holds
  <2> QED
    BY <1>0, <2>2, <2>4 DEF SecretInv, HeapInv
<1>6. ASSUME UNCHANGED <<cap, len, bytes, wiped, wants>>, HeapInv' PROVE SecretInv'
  BY <1>0, <1>6 DEF SecretInv, VecInv
<1>7. CASE Secret!Arm \/ Secret!Free \/ \E v \in Values : Secret!Alloc(v) \/ Secret!Realloc(v)
  <2>1. UNCHANGED <<cap, len, bytes, wiped, wants>>
    BY <1>7 DEF Secret!Arm, Secret!Free, Secret!Alloc, Secret!Realloc, Secret!vec
  <2>2. CASE Secret!Arm
    BY <1>0, <1>6, <2>1, <2>2 DEF Secret!Arm, HeapInv
  <2>3. CASE Secret!Free
    <3>1. leaked' = {} /\ heap' = 0
      BY <1>0, <2>3 DEF Secret!Free, Secret!Dealloc
    <3> QED
      BY <1>6, <2>1, <3>1 DEF HeapInv
  <2>4. ASSUME NEW v \in Values, Secret!Alloc(v) PROVE SecretInv'
    BY <1>0, <1>6, <2>1, <2>4 DEF Secret!Alloc, HeapInv
  <2>5. ASSUME NEW v \in Values, Secret!Realloc(v) PROVE SecretInv'
    <3>1. leaked' = {} /\ armed /\ UNCHANGED armed
      BY <1>0, <2>5 DEF Secret!Realloc, Secret!Dealloc
    <3> QED
      BY <1>6, <2>1, <3>1 DEF HeapInv
  <2> QED
    BY <1>7, <2>2, <2>3, <2>4, <2>5
<1> QED
  BY <1>1, <1>2, <1>3, <1>4, <1>5, <1>7 DEF Secret!Next

LEMMA SecretsAre == SecretInv => Secret!NothingLeftBehind /\ Secret!HoldsWhatWasPut
<1> SUFFICES ASSUME SecretInv PROVE Secret!NothingLeftBehind /\ Secret!HoldsWhatWasPut
  OBVIOUS
<1>1. /\ cap \in Nat /\ len <= cap /\ bytes \in [1..Secret!Layout(cap) -> Cells]
      /\ Len(wants) = len /\ Holds(bytes, len, wants) /\ leaked = {}
      /\ wiped => \A j \in 1..Secret!Layout(cap) : bytes[j] = 0
  BY DEF SecretInv, VecInv, HeapInv
<1>2. Secret!NothingLeftBehind
  BY <1>1 DEF Secret!NothingLeftBehind, Secret!Held
<1>3. Secret!Layout(cap) = Len(bytes)
  BY <1>1, LayoutHolds
<1>4. Secret!HoldsWhatWasPut
  BY <1>1, <1>3 DEF Secret!HoldsWhatWasPut, Holds
<1> QED
  BY <1>2, <1>4

-----------------------------------------------------------------------------
(* The behaviours of the libraries.                                        *)

PrivacyInv ==
    /\ program = "read" => ReadInv
    /\ program = "secret" => SecretInv

LEMMA PrivacyInvHolds == ProgramsSpec => []PrivacyInv
<1>1. ProgramsInit => PrivacyInv
  BY ReadInit, SecretInit DEF ProgramsInit, PrivacyInv
<1>2. PrivacyInv /\ [ProgramsNext]_programVars => PrivacyInv'
  <2> SUFFICES ASSUME PrivacyInv, [ProgramsNext]_programVars PROVE PrivacyInv'
    OBVIOUS
  <2>1. CASE ReadNext
    <3>1. program = "read" /\ program' = "read" /\ ReadGrant!Next
      BY <2>1 DEF ReadNext
    <3>2. ReadInv'
      BY <3>1, ReadSteps DEF PrivacyInv
    <3> QED
      BY <3>1, <3>2 DEF PrivacyInv
  <2>2. CASE SecretNext
    <3>1. program = "secret" /\ program' = "secret" /\ Secret!Next
      BY <2>2 DEF SecretNext
    <3>2. SecretInv'
      BY <3>1, SecretSteps DEF PrivacyInv
    <3> QED
      BY <3>1, <3>2 DEF PrivacyInv
  <2>3. CASE UiNext \/ ReplNext \/ WasmNext \/ LabNext
    <3>1. program' = program /\ program \in {"ui", "repl", "wasm", "lab"}
      BY <2>3 DEF UiNext, ReplNext, WasmNext, LabNext
    <3> QED
      BY <3>1 DEF PrivacyInv
  <2>4. CASE UNCHANGED programVars
    <3>1. UNCHANGED <<program, tool, opened, stamp, left, after, result, read, budget, given>>
      BY <2>4 DEF programVars, readVars
    <3>2. UNCHANGED <<cap, len, bytes, wiped, wants, armed, heap, leaked>>
      BY <2>4 DEF programVars, secretVars
    <3>3. ReadInv' <=> ReadInv
      BY <3>1 DEF ReadInv, TraceInv, AllowedInv, BudgetInv
    <3>4. SecretInv' <=> SecretInv
      BY <3>2 DEF SecretInv, VecInv, HeapInv
    <3> QED
      BY <3>1, <3>3, <3>4 DEF PrivacyInv
  <2> QED
    BY <2>1, <2>2, <2>3, <2>4 DEF ProgramsNext
<1> QED
  BY <1>1, <1>2, PTL DEF ProgramsSpec

\* A call that succeeds put every access time back, nothing is read after one that was
\* not, and neither a swap between lstat and open nor many calls get a turn more than
\* the grant and the budget allow (Held, Grant::check, call).
THEOREM ReadsPrivatelyHolds == ProgramsSpec => []ReadsPrivately
<1>1. PrivacyInv => ReadsPrivately
  BY ReadsAre DEF PrivacyInv, ReadsPrivately
<1> QED
  BY <1>1, PrivacyInvHolds, PTL

\* For any page, element size and smallest capacity, no growth, cut, replacement or drop
\* of a locked vector frees a byte of it, and none loses one (SecretVec, ZeroizingAlloc).
THEOREM SecretsAreZeroedHolds == ProgramsSpec => []SecretsAreZeroed
<1>1. PrivacyInv => SecretsAreZeroed
  BY SecretsAre DEF PrivacyInv, SecretsAreZeroed
<1> QED
  BY <1>1, PrivacyInvHolds, PTL

-----------------------------------------------------------------------------
(* Sequences: prefixes and what is put behind them.                        *)

LEMMA SameSeq ==
    ASSUME NEW S, NEW s \in Seq(S), NEW t \in Seq(S), Len(s) = Len(t),
           \A i \in 1..Len(s) : s[i] = t[i]
    PROVE  s = t
OBVIOUS

LEMMA Prefix ==
    ASSUME NEW S, NEW s \in Seq(S), NEW n \in 0..Len(s)
    PROVE  /\ SubSeq(s, 1, n) \in Seq(S) /\ Len(SubSeq(s, 1, n)) = n
           /\ \A i \in 1..n : SubSeq(s, 1, n)[i] = s[i]
OBVIOUS

LEMMA Suffixed ==
    ASSUME NEW S, NEW s \in Seq(S), NEW n \in 0..Len(s), NEW m \in n..Len(s)
    PROVE  /\ SubSeq(s, n + 1, m) \in Seq(S) /\ Len(SubSeq(s, n + 1, m)) = m - n
           /\ \A i \in 1..(m - n) : SubSeq(s, n + 1, m)[i] = s[n + i]
OBVIOUS

LEMMA Joined ==
    ASSUME NEW S, NEW s \in Seq(S), NEW t \in Seq(S)
    PROVE  /\ s \o t \in Seq(S) /\ Len(s \o t) = Len(s) + Len(t) /\ Len(s) \in Nat /\ Len(t) \in Nat
           /\ \A i \in 1..Len(s) : (s \o t)[i] = s[i]
           /\ \A i \in 1..Len(t) : (s \o t)[Len(s) + i] = t[i]
OBVIOUS

\* A prefix and what follows it make a longer prefix.
LEMMA PrefixJoined ==
    ASSUME NEW S, NEW s \in Seq(S), NEW n \in 0..Len(s), NEW m \in n..Len(s)
    PROVE  SubSeq(s, 1, n) \o SubSeq(s, n + 1, m) = SubSeq(s, 1, m)
<1> DEFINE a == SubSeq(s, 1, n)  b == SubSeq(s, n + 1, m)  c == SubSeq(s, 1, m)
<1>0. n \in Nat /\ m \in 0..Len(s) /\ n <= m
  OBVIOUS
<1>1. a \in Seq(S) /\ Len(a) = n /\ \A i \in 1..n : a[i] = s[i]
  BY Prefix
<1>2. b \in Seq(S) /\ Len(b) = m - n /\ \A i \in 1..(m - n) : b[i] = s[n + i]
  BY Suffixed
<1>3. c \in Seq(S) /\ Len(c) = m /\ \A i \in 1..m : c[i] = s[i]
  BY <1>0, Prefix
<1> HIDE DEF a, b, c
<1>a. /\ a \o b \in Seq(S) /\ Len(a \o b) = Len(a) + Len(b)
      /\ \A i \in 1..Len(a) : (a \o b)[i] = a[i]
      /\ \A i \in 1..Len(b) : (a \o b)[Len(a) + i] = b[i]
  <2>1. a \in Seq(S) /\ b \in Seq(S)
    BY <1>1, <1>2
  <2> QED
    BY <2>1
<1>4. /\ a \o b \in Seq(S) /\ Len(a \o b) = n + (m - n)
      /\ \A i \in 1..n : (a \o b)[i] = a[i]
      /\ \A i \in 1..(m - n) : (a \o b)[n + i] = b[i]
  BY <1>1, <1>2, <1>a
<1>5. Len(a \o b) = Len(c)
  BY <1>0, <1>3, <1>4
<1>6. ASSUME NEW i \in 1..Len(a \o b) PROVE (a \o b)[i] = c[i]
  <2>1. i \in 1..m
    BY <1>3, <1>5
  <2>2. CASE i <= n
    BY <1>0, <1>1, <1>3, <1>4, <2>1, <2>2
  <2>3. CASE i > n
    <3>1. i - n \in 1..(m - n) /\ n + (i - n) = i
      BY <1>0, <2>1, <2>3
    <3>2. (a \o b)[n + (i - n)] = s[n + (i - n)]
      BY <1>2, <1>4, <3>1
    <3> QED
      BY <1>3, <2>1, <3>1, <3>2
  <2> QED
    BY <1>0, <2>1, <2>2, <2>3
<1>7. a \o b = c
  BY <1>3, <1>4, <1>5, <1>6, SameSeq
<1> QED
  BY <1>7 DEF a, b, c

LEMMA WholePrefix == ASSUME NEW S, NEW s \in Seq(S) PROVE SubSeq(s, 1, Len(s)) = s
<1>1. Len(s) \in 0..Len(s)
  OBVIOUS
<1>2. /\ SubSeq(s, 1, Len(s)) \in Seq(S) /\ Len(SubSeq(s, 1, Len(s))) = Len(s)
      /\ \A i \in 1..Len(s) : SubSeq(s, 1, Len(s))[i] = s[i]
  BY <1>1, Prefix
<1> QED
  BY <1>2, SameSeq

LEMMA Appended ==
    ASSUME NEW S, NEW s \in Seq(S), NEW x \in S
    PROVE  /\ Append(s, x) \in Seq(S) /\ Len(Append(s, x)) = Len(s) + 1 /\ Len(s) \in Nat
           /\ \A i \in 1..Len(s) : Append(s, x)[i] = s[i]
           /\ Append(s, x)[Len(s) + 1] = x
OBVIOUS

LEMMA AppendJoined ==
    ASSUME NEW S, NEW s \in Seq(S), NEW t \in Seq(S), NEW x \in S
    PROVE  Append(s \o t, x) = s \o Append(t, x)
<1> DEFINE a == s \o t  b == Append(t, x)  c == Append(a, x)  d == s \o b
           n == Len(s)  m == Len(t)
<1>1. /\ a \in Seq(S) /\ Len(a) = n + m /\ n \in Nat /\ m \in Nat
      /\ \A i \in 1..n : a[i] = s[i]
      /\ \A i \in 1..m : a[n + i] = t[i]
  BY Joined
<1>2. /\ b \in Seq(S) /\ Len(b) = m + 1 /\ b[m + 1] = x
      /\ \A i \in 1..m : b[i] = t[i]
  BY Appended
<1> HIDE DEF a, b
<1>3. /\ c \in Seq(S) /\ Len(c) = Len(a) + 1 /\ c[Len(a) + 1] = x
      /\ \A i \in 1..Len(a) : c[i] = a[i]
  BY <1>1, Appended
<1>4. /\ d \in Seq(S) /\ Len(d) = n + Len(b)
      /\ \A i \in 1..n : d[i] = s[i]
      /\ \A i \in 1..Len(b) : d[n + i] = b[i]
  BY <1>2
<1> HIDE DEF c, d, n, m
<1>5. Len(c) = Len(d)
  BY <1>1, <1>2, <1>3, <1>4
<1>6. ASSUME NEW i \in 1..Len(c) PROVE c[i] = d[i]
  <2>1. i \in 1..(n + m + 1)
    BY <1>1, <1>3
  <2>2. CASE i <= n
    <3>1. i \in 1..n /\ i \in 1..Len(a)
      BY <1>1, <2>1, <2>2
    <3> QED
      BY <1>1, <1>3, <1>4, <3>1
  <2>3. CASE i > n /\ i <= n + m
    <3>1. i - n \in 1..m /\ n + (i - n) = i /\ i \in 1..Len(a) /\ i - n \in 1..Len(b)
      BY <1>1, <1>2, <2>1, <2>3
    <3>2. c[i] = a[n + (i - n)] /\ d[n + (i - n)] = b[i - n]
      BY <1>3, <1>4, <3>1
    <3> QED
      BY <1>1, <1>2, <3>1, <3>2
  <2>4. CASE i = n + m + 1
    <3>1. i = Len(a) + 1 /\ i = n + (m + 1) /\ m + 1 \in 1..Len(b)
      BY <1>1, <1>2, <2>4
    <3>2. d[n + (m + 1)] = b[m + 1]
      BY <1>4, <3>1
    <3> QED
      BY <1>2, <1>3, <3>1, <3>2
  <2> QED
    BY <1>1, <2>1, <2>2, <2>3, <2>4
<1>7. c = d
  BY <1>3, <1>4, <1>5, <1>6, SameSeq
<1> QED
  BY <1>7 DEF a, b, c, d

\* Counting the prefixes two sequences share gives the longest of them.
LEMMA Counted ==
    ASSUME NEW m \in Nat, NEW T \in SUBSET (1..m),
           \A n \in T, k \in 1..m : k <= n => k \in T
    PROVE  Cardinality(T) \in 0..m /\ (Cardinality(T) # 0 => Cardinality(T) \in T)
<1> DEFINE c == Cardinality(T)
<1>1. IsFiniteSet(1..m) /\ Cardinality(1..m) = m
  BY FS_Interval
<1>2. c \in Nat /\ c <= m
  BY <1>1, FS_Subset, FS_CardinalityType
<1> SUFFICES ASSUME c # 0, c \notin T PROVE FALSE
  BY <1>2
<1>3. T \subseteq 1..(c - 1)
  <2> SUFFICES ASSUME NEW n \in T PROVE n < c
    BY <1>2
  <2> QED
    BY <1>2
<1>4. c - 1 \in Int /\ 1 \in Int /\ c = Cardinality(T) /\ T \in SUBSET (1..(c - 1))
  BY <1>2, <1>3
<1> HIDE DEF c
<1>5. IsFiniteSet(1..(c - 1)) /\ Cardinality(1..(c - 1)) = IF 1 > c - 1 THEN 0 ELSE c - 1 - 1 + 1
  BY <1>4, FS_Interval
<1>6. Cardinality(1..(c - 1)) = c - 1
  BY <1>2, <1>5
<1>7. c <= Cardinality(1..(c - 1))
  BY <1>4, <1>5, FS_Subset
<1> QED
  BY <1>2, <1>6, <1>7

LEMMA SharedPrefixes ==
    ASSUME NEW S, NEW p \in Seq(S), NEW q \in Seq(S), NEW m \in Nat, m <= Len(p), m <= Len(q),
           NEW T, T = {n \in 1..m : SubSeq(p, 1, n) = SubSeq(q, 1, n)}
    PROVE  /\ Cardinality(T) \in 0..m /\ (Cardinality(T) # 0 => Cardinality(T) \in T)
           /\ \A n \in T, k \in 1..m : k <= n => k \in T
<1>1. ASSUME NEW n \in T, NEW k \in 1..m, k <= n PROVE k \in T
  <2>1. n \in 1..m /\ SubSeq(p, 1, n) = SubSeq(q, 1, n)
    OBVIOUS
  <2>2. n \in 0..Len(p) /\ n \in 0..Len(q) /\ k \in 0..Len(p) /\ k \in 0..Len(q)
    BY <2>1
  <2>3. \A i \in 1..n : p[i] = q[i]
    BY <2>1, <2>2, Prefix
  <2>4. /\ SubSeq(p, 1, k) \in Seq(S) /\ Len(SubSeq(p, 1, k)) = k
        /\ \A i \in 1..k : SubSeq(p, 1, k)[i] = p[i]
        /\ SubSeq(q, 1, k) \in Seq(S) /\ Len(SubSeq(q, 1, k)) = k
        /\ \A i \in 1..k : SubSeq(q, 1, k)[i] = q[i]
    BY <2>2, Prefix
  <2>5. \A i \in 1..k : i \in 1..n
    BY <1>1, <2>1
  <2>6. SubSeq(p, 1, k) = SubSeq(q, 1, k)
    BY <2>3, <2>4, <2>5, SameSeq
  <2> QED
    BY <2>6
<1>2. T \in SUBSET (1..m)
  OBVIOUS
<1> QED
  BY <1>1, <1>2, Counted

-----------------------------------------------------------------------------
(* The app's window.  Its properties are inductive with the types of what  *)
(* carries a tag, the place of the last copy (a call on the clipboard that *)
(* did not fail leaves there what `copied` says), and the order of the     *)
(* loads: the last one in the engine's queue is the last one picked.       *)

TurnRecord == [role : {"user", "assistant"}, of : Nat, text : {"", "part", "full"}, tools : BOOLEAN]

TurnsInv ==
    /\ turns \in Seq(TurnRecord)
    /\ AppUi!HistoryAlternates
    /\ \A i \in 1..Len(turns) : turns[i].of = chats

TagsInv ==
    /\ chats \in Nat \ {0}
    /\ {draft, error, running} \subseteq {0, chats}
    /\ folder \in [grant : {0, chats}, open : BOOLEAN, draft : {0, chats},
                   error : {0, chats}, protected : {0, chats}]

BoardInv ==
    /\ clip \in Nat /\ copied \in {-1, 0, chats} /\ slipped \in BOOLEAN
    /\ ~slipped => clip \in {0, copied}

LoadsInv ==
    /\ picked \in Nat /\ dialogs \in Nat /\ loads \in Seq(Nat)
    /\ loads # <<>> => picked > 0 /\ loads[Len(loads)] = picked
    /\ AppUi!SettlesOnLast

UiInv == TurnsInv /\ TagsInv /\ BoardInv /\ LoadsInv

LEMMA PairPlaces ==
    ASSUME NEW S, NEW s \in Seq(S), NEW x \in S, NEW y \in S
    PROVE  /\ Append(Append(s, x), y) \in Seq(S)
           /\ Len(Append(Append(s, x), y)) = Len(s) + 2 /\ Len(s) \in Nat
           /\ \A i \in 1..Len(s) : Append(Append(s, x), y)[i] = s[i]
           /\ Append(Append(s, x), y)[Len(s) + 1] = x
           /\ Append(Append(s, x), y)[Len(s) + 2] = y
<1> DEFINE r == Append(s, x)
<1>1. /\ r \in Seq(S) /\ Len(r) = Len(s) + 1 /\ Len(s) \in Nat
      /\ \A i \in 1..Len(s) : r[i] = s[i]
      /\ r[Len(s) + 1] = x
  BY Appended
<1> HIDE DEF r
<1>2. /\ Append(r, y) \in Seq(S) /\ Len(Append(r, y)) = Len(r) + 1
      /\ \A i \in 1..Len(r) : Append(r, y)[i] = r[i]
      /\ Append(r, y)[Len(r) + 1] = y
  BY <1>1, Appended
<1>3. \A i \in 1..Len(s) : i \in 1..Len(r)
  BY <1>1
<1>4. Len(s) + 1 \in 1..Len(r) /\ Len(r) + 1 = Len(s) + 2
  BY <1>1
<1>5. /\ Append(r, y) \in Seq(S) /\ Len(Append(r, y)) = Len(s) + 2 /\ Len(s) \in Nat
      /\ \A i \in 1..Len(s) : Append(r, y)[i] = s[i]
      /\ Append(r, y)[Len(s) + 1] = x
      /\ Append(r, y)[Len(s) + 2] = y
  BY <1>1, <1>2, <1>3, <1>4
<1> QED
  BY <1>5 DEF r

\* Taking the head moves every other place up by one.
LEMMA TailPlaces ==
    ASSUME NEW S, NEW s \in Seq(S), s # <<>>
    PROVE  /\ Head(s) = s[1] /\ s[1] \in S /\ 1 \in 1..Len(s)
           /\ Tail(s) \in Seq(S)
           /\ Len(Tail(s)) = Len(s) - 1 /\ Len(s) \in Nat
           /\ \A i \in 1..Len(Tail(s)) : i + 1 \in 1..Len(s) /\ Tail(s)[i] = s[i + 1]
  OBVIOUS

LEMMA UiInit == AppUi!Init => UiInv
<1> SUFFICES ASSUME AppUi!Init PROVE UiInv
  OBVIOUS
<1>1. TurnsInv
  BY DEF AppUi!Init, TurnsInv, AppUi!HistoryAlternates
<1>2. TagsInv
  BY DEF AppUi!Init, TagsInv, AppUi!NoFolder
<1>3. BoardInv
  BY DEF AppUi!Init, BoardInv
<1>4. LoadsInv
  <2>1. CASE outlook = <<"NoModel">> /\ loads = <<>> /\ picked = 0
    BY <2>1 DEF AppUi!Init, LoadsInv, AppUi!SettlesOnLast
  <2>2. CASE loads = <<1>> /\ picked = 1
    <3>1. <<1>> # <<>> /\ <<1>> \in Seq(Nat) /\ Len(<<1>>) = 1 /\ <<1>>[1] = 1
      OBVIOUS
    <3> QED
      BY <2>2, <3>1 DEF AppUi!Init, LoadsInv, AppUi!SettlesOnLast
  <2> QED
    BY <2>1, <2>2 DEF AppUi!Init
<1> QED
  BY <1>1, <1>2, <1>3, <1>4 DEF UiInv

\* The request of a window whose tags are all the conversation's is the conversation's.
LEMMA OldestIsOwn ==
    ASSUME TurnsInv, TagsInv, draft # 0
    PROVE  AppUi!Oldest(Append(turns, AppUi!Turn("user", draft, "full")), folder.grant) = chats
<1> DEFINE t == AppUi!Turn("user", draft, "full")
           replay == Append(turns, t)
<1>1. t \in TurnRecord /\ t.of = chats
  BY DEF AppUi!Turn, TurnRecord, TagsInv
<1>2. /\ replay \in Seq(TurnRecord) /\ Len(replay) = Len(turns) + 1 /\ Len(turns) \in Nat
      /\ \A i \in 1..Len(turns) : replay[i] = turns[i]
      /\ replay[Len(turns) + 1] = t
  BY <1>1, Appended DEF TurnsInv
<1>3. DOMAIN replay = 1..Len(replay)
  BY <1>2
<1>4. \A i \in 1..Len(replay) : replay[i].of = chats
  BY <1>1, <1>2 DEF TurnsInv
<1>5. {replay[i].of : i \in DOMAIN replay} = {chats}
  <2>1. Len(turns) + 1 \in DOMAIN replay
    BY <1>2, <1>3
  <2> QED
    BY <1>3, <1>4, <2>1
<1>6. folder.grant \in {0, chats}
  BY DEF TagsInv
<1>7. {replay[i].of : i \in DOMAIN replay} \cup ({folder.grant} \ {0}) = {chats}
  BY <1>5, <1>6
<1>8. AppUi!Min({chats}) = chats
  BY DEF AppUi!Min, TagsInv
<1> QED
  BY <1>7, <1>8 DEF AppUi!Oldest

\* What becomes of the turns: a prompt and its reply more, a word written into the last
\* one, nothing, or one pair fewer.
LEMMA SendTurns ==
    ASSUME TurnsInv, TagsInv, AppUi!Send
    PROVE  TurnsInv' /\ running' = chats
<1> DEFINE t == AppUi!Turn("user", draft, "full")
           replay == Append(turns, t)
           u == AppUi!Turn("assistant", chats, "")
<1>1. running' = chats /\ turns' = Append(replay, u) /\ chats' = chats /\ draft # 0
  BY OldestIsOwn DEF AppUi!Send
<1>2. /\ t \in TurnRecord /\ t.of = chats /\ t.role = "user"
      /\ u \in TurnRecord /\ u.of = chats /\ u.role = "assistant"
  BY <1>1 DEF AppUi!Turn, TurnRecord, TagsInv
<1> HIDE DEF t, u
<1>3. turns \in Seq(TurnRecord) /\ t \in TurnRecord /\ u \in TurnRecord
  BY <1>2 DEF TurnsInv
<1>4. /\ turns' \in Seq(TurnRecord) /\ Len(turns') = Len(turns) + 2 /\ Len(turns) \in Nat
      /\ \A i \in 1..Len(turns) : turns'[i] = turns[i]
      /\ turns'[Len(turns) + 1] = t /\ turns'[Len(turns) + 2] = u
  BY <1>1, <1>3, PairPlaces
<1>5. Len(turns) % 2 = 0 /\ \A i \in 1..Len(turns) : turns[i].role = IF i % 2 = 1 THEN "user" ELSE "assistant"
  BY DEF TurnsInv, AppUi!HistoryAlternates
<1>6. Len(turns') % 2 = 0 /\ (Len(turns) + 1) % 2 = 1 /\ (Len(turns) + 2) % 2 = 0
  BY <1>4, <1>5
<1>8. DOMAIN turns' = 1..Len(turns')
  BY <1>4
<1>7. ASSUME NEW i \in 1..Len(turns')
      PROVE  /\ turns'[i].role = IF i % 2 = 1 THEN "user" ELSE "assistant"
             /\ turns'[i].of = chats'
  <2>1. i \in 1..Len(turns) \/ i = Len(turns) + 1 \/ i = Len(turns) + 2
    BY <1>4
  <2> QED
    BY <2>1, <1>1, <1>2, <1>4, <1>5, <1>6 DEF TurnsInv
<1> QED
  BY <1>1, <1>4, <1>6, <1>7, <1>8 DEF TurnsInv, AppUi!HistoryAlternates

LEMMA WriteTurns ==
    ASSUME TurnsInv, running = chats, chats' = chats, turns # <<>>,
           NEW last \in TurnRecord, last.role = turns[Len(turns)].role, last.of = running,
           turns' = [turns EXCEPT ![Len(turns)] = last]
    PROVE  TurnsInv'
<1> DEFINE n == Len(turns)
<1>1. turns \in Seq(TurnRecord)
  BY DEF TurnsInv
<1>2. n \in 1..Len(turns) /\ DOMAIN turns = 1..n
  BY <1>1
<1>3. turns' \in Seq(TurnRecord) /\ Len(turns') = n /\ DOMAIN turns' = 1..n
  BY <1>1, <1>2
<1>4. \A i \in 1..n : turns'[i].role = turns[i].role /\ turns'[i].of = chats
  BY <1>2 DEF TurnsInv
<1> QED
  BY <1>2, <1>3, <1>4 DEF TurnsInv, AppUi!HistoryAlternates

LEMMA WrittenTurns ==
    ASSUME TurnsInv, TagsInv, AppUi!Token \/ AppUi!Tools \/ AppUi!Done
    PROVE  TurnsInv'
<1>1. running = chats /\ chats' = chats /\ chats \in Nat
  BY DEF TagsInv, AppUi!Token, AppUi!Tools, AppUi!Done
<1>2. CASE turns = <<>>
  <2>1. turns' = turns
    BY <1>2 DEF AppUi!Token, AppUi!Tools, AppUi!Done, AppUi!Write
  <2> QED
    BY <1>1, <2>1 DEF TurnsInv, AppUi!HistoryAlternates
<1>3. CASE turns # <<>>
  <2> DEFINE n == Len(turns)
  <2>1. n \in DOMAIN turns /\ turns[n] \in TurnRecord
    BY <1>3 DEF TurnsInv
  <2>2. CASE AppUi!Token
    <3> DEFINE last == [turns[n] EXCEPT !.text = "part", !.tools = turns[n].tools \/ FALSE, !.of = running]
    <3>1. turns' = [turns EXCEPT ![n] = last]
      BY <1>3, <2>1, <2>2 DEF AppUi!Token, AppUi!Write, TurnRecord
    <3>2. last \in TurnRecord /\ last.role = turns[n].role /\ last.of = running
      BY <1>1, <2>1 DEF TurnRecord
    <3> HIDE DEF last
    <3> QED
      BY <1>1, <1>3, <3>1, <3>2, WriteTurns
  <2>3. CASE AppUi!Tools
    <3> DEFINE last == [turns[n] EXCEPT !.text = "", !.tools = turns[n].tools \/ TRUE, !.of = running]
    <3>1. turns' = [turns EXCEPT ![n] = last]
      BY <1>3, <2>1, <2>3 DEF AppUi!Tools, AppUi!Write, TurnRecord
    <3>2. last \in TurnRecord /\ last.role = turns[n].role /\ last.of = running
      BY <1>1, <2>1 DEF TurnRecord
    <3> HIDE DEF last
    <3> QED
      BY <1>1, <1>3, <3>1, <3>2, WriteTurns
  <2>4. CASE AppUi!Done
    <3> DEFINE last == [turns[n] EXCEPT !.text = "full", !.tools = turns[n].tools \/ FALSE, !.of = running]
    <3>1. turns' = [turns EXCEPT ![n] = last]
      BY <1>3, <2>1, <2>4 DEF AppUi!Done, AppUi!Write, TurnRecord
    <3>2. last \in TurnRecord /\ last.role = turns[n].role /\ last.of = running
      BY <1>1, <2>1 DEF TurnRecord
    <3> HIDE DEF last
    <3> QED
      BY <1>1, <1>3, <3>1, <3>2, WriteTurns
  <2> QED
    BY <2>2, <2>3, <2>4
<1> QED
  BY <1>2, <1>3

LEMMA FailTurns ==
    ASSUME TurnsInv, TagsInv, AppUi!Fail
    PROVE  TurnsInv' /\ draft' \in {0, chats}
<1>1. chats' = chats /\ Len(turns) \in Nat /\ DOMAIN turns = 1..Len(turns)
  BY DEF AppUi!Fail, AppUi!board, TurnsInv
<1>2. CASE Len(turns) < 2
  BY <1>1, <1>2 DEF AppUi!Fail, TurnsInv, TagsInv, AppUi!HistoryAlternates
<1>3. CASE ~(Len(turns) < 2)
  <2> DEFINE n == Len(turns) - 2
  <2>1. turns' = SubSeq(turns, 1, n) /\ draft' = turns[Len(turns) - 1].of
    BY <1>1, <1>3 DEF AppUi!Fail, AppUi!Popped
  <2>2. n \in Nat /\ n <= Len(turns) /\ Len(turns) - 1 \in 1..Len(turns)
    BY <1>1, <1>3
  <2>3. /\ turns' \in Seq(TurnRecord) /\ Len(turns') = n /\ DOMAIN turns' = 1..n
        /\ \A i \in 1..n : turns'[i] = turns[i]
    BY <1>1, <2>1, <2>2 DEF TurnsInv
  <2>4. draft' = chats
    BY <2>1, <2>2 DEF TurnsInv
  <2>5. n % 2 = 0
    BY <1>1, <2>2 DEF TurnsInv, AppUi!HistoryAlternates
  <2>6. \A i \in 1..n : i \in 1..Len(turns)
    BY <1>1, <2>2
  <2> QED
    BY <1>1, <2>3, <2>4, <2>5, <2>6 DEF TurnsInv, AppUi!HistoryAlternates
<1> QED
  BY <1>2, <1>3

\* One action of the window at a time.
LEMMA UiSteps == ASSUME UiInv, AppUi!Next PROVE UiInv'
<1>0. TurnsInv /\ TagsInv /\ BoardInv /\ LoadsInv
  BY DEF UiInv
<1>a. ASSUME UNCHANGED <<turns, chats>> PROVE TurnsInv'
  BY <1>0, <1>a DEF TurnsInv, AppUi!HistoryAlternates
<1>b. ASSUME UNCHANGED <<clip, copied, slipped, chats>> PROVE BoardInv'
  BY <1>0, <1>b DEF BoardInv
<1>c. ASSUME UNCHANGED <<picked, dialogs, loads, outlook>> PROVE LoadsInv'
  BY <1>0, <1>c DEF LoadsInv, AppUi!SettlesOnLast
<1>d. ASSUME UNCHANGED <<chats, draft, error, running, folder>> PROVE TagsInv'
  BY <1>0, <1>d DEF TagsInv
<1> USE DEF AppUi!talk, AppUi!board, AppUi!models
<1>1. CASE AppUi!Type
  <2>1. TagsInv'
    BY <1>0, <1>1 DEF AppUi!Type, TagsInv
  <2> QED
    BY <1>1, <2>1, <1>a, <1>b, <1>c DEF AppUi!Type, UiInv
<1>2. CASE AppUi!Send
  <2>1. TurnsInv' /\ running' = chats
    BY <1>0, <1>2, SendTurns
  <2>2. TagsInv'
    BY <1>0, <1>2, <2>1 DEF AppUi!Send, TagsInv
  <2> QED
    BY <1>2, <2>1, <2>2, <1>b, <1>c DEF AppUi!Send, UiInv
<1>3. CASE AppUi!Token \/ AppUi!Tools \/ AppUi!Done
  <2>1. /\ chats' = chats
        /\ UNCHANGED <<draft, error, folder, clip, copied, slipped, picked, dialogs, loads, outlook>>
        /\ running' \in {0, running}
    BY <1>3 DEF AppUi!Token, AppUi!Tools, AppUi!Done
  <2>2. TagsInv'
    BY <1>0, <2>1 DEF TagsInv
  <2>3. TurnsInv'
    BY <1>0, <1>3, WrittenTurns
  <2> QED
    BY <2>1, <2>2, <2>3, <1>b, <1>c DEF UiInv
<1>4. CASE AppUi!Fail
  <2>1. TurnsInv' /\ draft' \in {0, chats}
    BY <1>0, <1>4, FailTurns
  <2>2. TagsInv'
    BY <1>0, <1>4, <2>1 DEF AppUi!Fail, TagsInv
  <2> QED
    BY <1>4, <2>1, <2>2, <1>b, <1>c DEF AppUi!Fail, UiInv
<1>5. CASE AppUi!Closed \/ AppUi!Stop
  <2>1. TagsInv'
    BY <1>0, <1>5 DEF AppUi!Closed, AppUi!Stop, TagsInv
  <2> QED
    BY <1>5, <2>1, <1>a, <1>b, <1>c DEF AppUi!Closed, AppUi!Stop, UiInv
<1>6. CASE AppUi!FolderToggle \/ AppUi!FolderType \/ AppUi!AllowProtected \/ AppUi!GrantFolder \/ AppUi!Revoke
  <2>1. UNCHANGED <<chats, turns, draft, error, running, clip, copied, slipped, picked, dialogs, loads, outlook>>
    BY <1>6 DEF AppUi!FolderToggle, AppUi!FolderType, AppUi!AllowProtected, AppUi!GrantFolder,
                AppUi!Revoke, AppUi!Folder
  <2>2. folder' \in [grant : {0, chats}, open : BOOLEAN, draft : {0, chats},
                     error : {0, chats}, protected : {0, chats}]
    <3>1. folder \in [grant : {0, chats}, open : BOOLEAN, draft : {0, chats},
                     error : {0, chats}, protected : {0, chats}] /\ chats \in Nat \ {0}
      BY <1>0 DEF TagsInv
    <3>2. CASE AppUi!FolderToggle
      BY <3>1, <3>2 DEF AppUi!FolderToggle, AppUi!Folder
    <3>3. CASE AppUi!FolderType
      BY <3>1, <3>3 DEF AppUi!FolderType, AppUi!Folder
    <3>4. CASE AppUi!AllowProtected
      BY <3>1, <3>4 DEF AppUi!AllowProtected, AppUi!Folder
    <3>5. CASE AppUi!GrantFolder
      <4>1. folder.grant + folder.draft \in {0, chats}
        BY <3>1, <3>5 DEF AppUi!GrantFolder
      <4> QED
        BY <3>1, <3>5, <4>1 DEF AppUi!GrantFolder, AppUi!Folder
    <3>6. CASE AppUi!Revoke
      BY <3>1, <3>6 DEF AppUi!Revoke, AppUi!Folder
    <3> QED
      BY <1>6, <3>2, <3>3, <3>4, <3>5, <3>6
  <2>3. TagsInv'
    BY <1>0, <2>1, <2>2 DEF TagsInv
  <2> QED
    BY <2>1, <2>3, <1>a, <1>b, <1>c DEF UiInv
<1>7. CASE AppUi!Copy
  <2>1. UNCHANGED <<chats, turns, draft, error, running, folder, picked, dialogs, loads, outlook>>
    BY <1>7 DEF AppUi!Copy
  <2>2. \E i \in 1..Len(turns) :
            \/ clip' = turns[i].of /\ copied' = turns[i].of /\ UNCHANGED slipped
            \/ copied' = (IF copied = -1 THEN -1 ELSE 0) /\ slipped' = TRUE /\ UNCHANGED clip
    <3>1. DOMAIN turns = 1..Len(turns)
      BY <1>0 DEF TurnsInv
    <3> QED
      BY <1>7, <3>1 DEF AppUi!Copy
  <2>3. \/ clip' = chats /\ copied' = chats /\ UNCHANGED slipped
        \/ copied' \in {-1, 0} /\ slipped' = TRUE /\ UNCHANGED clip
    BY <1>0, <2>2 DEF TurnsInv
  <2>4. BoardInv'
    BY <1>0, <2>1, <2>3 DEF BoardInv, TagsInv
  <2> QED
    BY <2>1, <2>4, <1>a, <1>c, <1>d DEF UiInv
<1>8. CASE AppUi!CopiedElsewhere
  <2>1. BoardInv'
    BY <1>0, <1>8 DEF AppUi!CopiedElsewhere, BoardInv
  <2> QED
    BY <1>8, <2>1, <1>a, <1>c, <1>d DEF AppUi!CopiedElsewhere, UiInv
<1>9. CASE AppUi!Wipe
  <2>1. /\ chats' = chats + 1 /\ turns' = <<>> /\ draft' = 0 /\ error' = 0 /\ running' = 0
        /\ folder' = AppUi!NoFolder
        /\ UNCHANGED <<picked, dialogs, loads, outlook>>
        /\ AppUi!Forget
    BY <1>9 DEF AppUi!Wipe
  <2>2. TurnsInv'
    BY <2>1 DEF TurnsInv, AppUi!HistoryAlternates
  <2>3. TagsInv'
    BY <1>0, <2>1 DEF TagsInv, AppUi!NoFolder
  <2>4. BoardInv'
    <3>1. /\ clip \in Nat /\ copied \in {-1, 0, chats} /\ slipped \in BOOLEAN
          /\ ~slipped => clip \in {0, copied}
          /\ chats \in Nat \ {0}
      BY <1>0 DEF BoardInv, TagsInv
    <3>2. /\ copied' = -1
          /\ \/ /\ clip' = (IF copied > 0 /\ clip = copied THEN 0 ELSE clip)
                /\ slipped' = slipped
             \/ slipped' = TRUE /\ clip' = clip
      BY <2>1 DEF AppUi!Forget
    <3>3. clip' \in Nat /\ slipped' \in BOOLEAN /\ (~slipped' => clip' = 0)
      <4>1. CASE clip' = (IF copied > 0 /\ clip = copied THEN 0 ELSE clip) /\ slipped' = slipped
        <5>1. clip' \in Nat /\ (clip \in {0, copied} => clip' = 0)
          BY <3>1, <4>1
        <5> QED
          BY <3>1, <4>1, <5>1
      <4>2. CASE slipped' = TRUE /\ clip' = clip
        BY <3>1, <4>2
      <4> QED
        BY <3>2, <4>1, <4>2
    <3> QED
      BY <3>2, <3>3 DEF BoardInv
  <2> QED
    BY <2>1, <2>2, <2>3, <2>4, <1>c DEF UiInv
<1>10. CASE AppUi!Pick \/ AppUi!Cancelled
  <2>1. LoadsInv'
    BY <1>0, <1>10 DEF AppUi!Pick, AppUi!Cancelled, LoadsInv, AppUi!SettlesOnLast
  <2> QED
    BY <1>10, <2>1, <1>a, <1>b, <1>d DEF AppUi!Pick, AppUi!Cancelled, UiInv
<1>11. CASE AppUi!PickedFile
  <2>1. /\ UNCHANGED <<chats, turns, draft, error, folder, clip, copied, slipped>> /\ running' = 0
        /\ dialogs > 0 /\ dialogs' = dialogs - 1 /\ picked' = picked + 1
        /\ loads' = Append(loads, picked + 1)
    BY <1>11 DEF AppUi!PickedFile
  <2>2. TagsInv'
    BY <1>0, <2>1 DEF TagsInv
  <2>3. LoadsInv'
    <3>1. loads \in Seq(Nat) /\ picked + 1 \in Nat /\ dialogs' \in Nat
      BY <1>0, <2>1 DEF LoadsInv
    <3>2. loads' \in Seq(Nat) /\ loads' # <<>> /\ loads'[Len(loads')] = picked + 1
      BY <2>1, <3>1
    <3> QED
      BY <1>0, <2>1, <3>1, <3>2 DEF LoadsInv, AppUi!SettlesOnLast
  <2> QED
    BY <2>1, <2>2, <2>3, <1>a, <1>b DEF UiInv
<1>12. CASE AppUi!FinishLoad
  <2>1. /\ UNCHANGED <<chats, turns, draft, error, running, folder, clip, copied, slipped, dialogs, picked>>
        /\ loads # <<>> /\ loads' = Tail(loads)
        /\ outlook' \in {<<"Ready", Head(loads)>>, <<"Failed", Head(loads)>>}
    BY <1>12 DEF AppUi!FinishLoad, AppUi!Shown
  <2>2. LoadsInv'
    <3>1. /\ loads \in Seq(Nat) /\ picked \in Nat /\ dialogs \in Nat
          /\ picked > 0 /\ loads[Len(loads)] = picked
      BY <1>0, <2>1 DEF LoadsInv
    <3>2. /\ Head(loads) = loads[1] /\ loads' \in Seq(Nat)
          /\ Len(loads') = Len(loads) - 1 /\ Len(loads) \in Nat
          /\ \A i \in 1..Len(loads') : loads'[i] = loads[i + 1]
      BY <2>1, <3>1, TailPlaces
    <3>3. loads' = <<>> => Head(loads) = picked
      <4> SUFFICES ASSUME loads' = <<>> PROVE Head(loads) = picked
        OBVIOUS
      <4>1. Len(loads') = 0
        OBVIOUS
      <4>2. Len(loads) = 1
        BY <3>2, <4>1
      <4> QED
        BY <3>1, <3>2, <4>2
    <3>4. loads' # <<>> => loads'[Len(loads')] = picked
      <4> SUFFICES ASSUME loads' # <<>> PROVE loads'[Len(loads')] = picked
        OBVIOUS
      <4>1. Len(loads') \in 1..Len(loads') /\ Len(loads') + 1 = Len(loads)
        BY <3>2
      <4> QED
        BY <3>1, <3>2, <4>1
    <3> QED
      BY <2>1, <3>1, <3>2, <3>3, <3>4 DEF LoadsInv, AppUi!SettlesOnLast
  <2> QED
    BY <2>1, <2>2, <1>a, <1>b, <1>d DEF UiInv
<1> QED
  BY <1>1, <1>2, <1>3, <1>4, <1>5, <1>6, <1>7, <1>8, <1>9, <1>10, <1>11, <1>12 DEF AppUi!Next

-----------------------------------------------------------------------------
(* The private REPL.  That a wipe was told truly needs the order of the    *)
(* command channel: a wipe is its last command while the reader waits for  *)
(* it, so that when it is gone nothing is behind it, the engine is in its  *)
(* loop, and what it holds was wiped after the last turn; or the thread is *)
(* dead and everything went with it.                                       *)

InReplTypes ==
    /\ at \in {"prompt", "turn", "wiping", "quitting", "joining", "left", "broken"}
    /\ history \in Seq({"user", "assistant"})
    /\ turn \in Nat /\ cmds \in Seq(Nat)
    /\ engine \in Nat \cup {-1, -2}
    /\ events \in Seq({"token", "done", "error"})

AlternateInv ==
    /\ Repl!HistoryAlternates
    /\ Len(history) % 2 = IF at = "turn" THEN 1 ELSE 0

CutInv == (flag => signals) /\ Repl!CutsOwnTurn

Ended == (engine = -1 /\ held = "freed") \/ (engine = -2 /\ held = "clean")
Emptied == cmds = <<>> /\ (Ended \/ (engine = 0 /\ held = "clean"))

WipeQueued == \E i \in 1..Len(cmds) : cmds[i] = 0

ForgetInv ==
    /\ engine \in {-1, -2} => cmds = <<>> /\ Ended
    /\ engine = -2 => at \in {"joining", "left"}
    /\ at \notin {"wiping", "quitting"} => ~WipeQueued
    /\ at \in {"wiping", "quitting"} =>
          /\ \A i \in 1..Len(cmds) : cmds[i] = 0 => i = Len(cmds)
          /\ ~WipeQueued => Emptied
    /\ at = "wiping" => history = <<>>
    /\ at = "joining" => history = <<>> /\ Emptied
    /\ at = "left" => history = <<>> /\ cmds = <<>> /\ Ended
    /\ said = "wiped" => at = "prompt" /\ history = <<>> /\ Emptied
    /\ said = "exited" => at = "left"

ReplInv == InReplTypes /\ AlternateInv /\ CutInv /\ ForgetInv

LEMMA ReplInit == Repl!Init => ReplInv
<1> SUFFICES ASSUME Repl!Init PROVE ReplInv
  OBVIOUS
<1>1. InReplTypes
  BY DEF Repl!Init, InReplTypes, Repl!Loop
<1>2. AlternateInv
  BY DEF Repl!Init, AlternateInv, Repl!HistoryAlternates
<1>3. CutInv
  BY DEF Repl!Init, CutInv, Repl!CutsOwnTurn
<1>4. ForgetInv
  BY DEF Repl!Init, ForgetInv, Repl!Loop, WipeQueued, Emptied, Ended
<1> QED
  BY <1>1, <1>2, <1>3, <1>4 DEF ReplInv

\* Ctrl-C is told apart from what came before the prompt.
LEMMA CutSteps == ASSUME CutInv, Repl!Next PROVE CutInv'
<1>1. CASE Repl!CtrlC
  BY <1>1 DEF Repl!CtrlC, CutInv, Repl!CutsOwnTurn
<1>2. CASE Repl!Prompt
  BY <1>2 DEF Repl!Prompt, Repl!AtHandover, Repl!Reset, CutInv, Repl!CutsOwnTurn
<1>3. CASE Repl!ReadEvent
  <2>1. UNCHANGED <<flag, signals>> /\ (cut' = cut \/ (flag /\ cut' = cut \cup {<<turn, signals>>}))
    BY <1>3 DEF Repl!ReadEvent
  <2>2. CASE cut' = cut
    BY <2>1, <2>2 DEF CutInv, Repl!CutsOwnTurn
  <2>3. CASE flag /\ cut' = cut \cup {<<turn, signals>>}
    <3>1. <<turn, signals>>[2]
      BY <2>3 DEF CutInv
    <3>2. \A c \in cut : c[2]
      BY DEF CutInv, Repl!CutsOwnTurn
    <3>3. \A c \in cut' : c[2]
      BY <2>3, <3>1, <3>2
    <3> QED
      BY <2>1, <3>3 DEF CutInv, Repl!CutsOwnTurn
  <2> QED
    BY <2>1, <2>2, <2>3
<1>4. CASE UNCHANGED <<flag, signals, cut>>
  BY <1>4 DEF CutInv, Repl!CutsOwnTurn
<1>5. Repl!CtrlC \/ Repl!Prompt \/ Repl!ReadEvent \/ UNCHANGED <<flag, signals, cut>>
  BY DEF Repl!Next, Repl!Read, Repl!Work, Repl!EventsEnd, Repl!WipeWaits, Repl!Join, Repl!ReadFails,
         Repl!Wipe, Repl!TakeGen, Repl!TakeWipe, Repl!Generate, Repl!EnginePanic, Repl!EngineEnds,
         Repl!Front
<1> QED
  BY <1>1, <1>2, <1>3, <1>4, <1>5

LEMMA TypeSteps == ASSUME InReplTypes, Repl!Next PROVE InReplTypes'
<1> USE DEF Repl!engineVars, Repl!Loop, Repl!Dead, Repl!Over, Repl!WipeCmd, Repl!Listening
<1>a. /\ history \in Seq({"user", "assistant"}) /\ turn \in Nat /\ cmds \in Seq(Nat)
      /\ engine \in Nat \cup {-1, -2} /\ events \in Seq({"token", "done", "error"})
      /\ at \in {"prompt", "turn", "wiping", "quitting", "joining", "left", "broken"}
  BY DEF InReplTypes
<1>b. \A n \in Nat : Append(cmds, n) \in Seq(Nat)
  BY <1>a, Appended
<1>c. \A x \in {"user", "assistant"} : Append(history, x) \in Seq({"user", "assistant"})
  BY <1>a, Appended
<1>d. <<>> \in Seq(Nat) /\ <<>> \in Seq({"user", "assistant"}) /\ <<>> \in Seq({"token", "done", "error"})
  OBVIOUS
<1>e. {0, -1, -2} \subseteq Nat \cup {-1, -2}
  OBVIOUS
<1>1. CASE Repl!CtrlC
  BY <1>1, <1>a DEF Repl!CtrlC, InReplTypes
<1>2. CASE Repl!Prompt
  <2>1. turn' = turn + 1 /\ (cmds' = cmds \/ cmds' = Append(cmds, turn'))
    BY <1>2 DEF Repl!Prompt, Repl!Send
  <2>2. turn' \in Nat
    BY <2>1, <1>a
  <2>3. cmds' \in Seq(Nat)
    BY <2>1, <2>2, <1>a, <1>b
  <2>4. /\ at' \in {at, "turn"} /\ events' \in {events, <<>>} /\ engine' = engine
        /\ history' \in {history, Append(history, "user")}
    BY <1>2 DEF Repl!Prompt
  <2> QED
    <3>1. history' \in Seq({"user", "assistant"}) /\ events' \in Seq({"token", "done", "error"})
      BY <2>4, <1>a, <1>c, <1>d
    <3> QED
      BY <2>2, <2>3, <2>4, <3>1, <1>a DEF InReplTypes
<1>3. CASE Repl!ReadEvent
  <2>0. events # <<>> /\ events' = Tail(events) /\ UNCHANGED <<turn, cmds, engine>>
    BY <1>3 DEF Repl!ReadEvent
  <2>1. Head(events) \in {"token", "done", "error"} /\ events' \in Seq({"token", "done", "error"})
    BY <2>0, <1>a, TailPlaces
  <2>2. SubSeq(history, 1, Len(history) - 1) \in Seq({"user", "assistant"})
    BY <1>a
  <2>3. /\ at' \in {at, "prompt"}
        /\ \/ history' = history
           \/ history' = Append(history, "assistant")
           \/ history' = SubSeq(history, 1, Len(history) - 1)
    BY <1>3, <2>1 DEF Repl!ReadEvent, Repl!Replied, Repl!AfterError
  <2> QED
    BY <2>0, <2>1, <2>2, <2>3, <1>a, <1>c DEF InReplTypes
<1>4. CASE Repl!EventsEnd
  BY <1>4, <1>a, <1>c DEF Repl!EventsEnd, Repl!Replied, InReplTypes
<1>5. ASSUME NEW then \in {"wiping", "quitting"}, Repl!Wipe(then) PROVE InReplTypes'
  <2>1. /\ cmds' = cmds \/ cmds' = Append(cmds, 0)
        /\ at' = then /\ history' \in {history, <<>>} /\ UNCHANGED <<turn, engine, events>>
    BY <1>5 DEF Repl!Wipe, Repl!Send
  <2>2. cmds' \in Seq(Nat)
    BY <2>1, <1>a, <1>b
  <2> QED
    <3>1. history' \in Seq({"user", "assistant"}) /\ at' \in {"wiping", "quitting"}
      BY <2>1, <1>a, <1>d
    <3> QED
      BY <2>1, <2>2, <3>1, <1>a DEF InReplTypes
<1>6. CASE Repl!WipeWaits \/ Repl!Join \/ Repl!ReadFails
  <2>1. /\ at' \in {"prompt", "joining", "left", "broken"} /\ (history' = history \/ history' = <<>>)
        /\ UNCHANGED <<turn, cmds, engine, events>>
    BY <1>6 DEF Repl!WipeWaits, Repl!Join, Repl!ReadFails
  <2>2. history' \in Seq({"user", "assistant"})
    BY <2>1, <1>a, <1>d
  <2> QED
    BY <2>1, <2>2, <1>a DEF InReplTypes
<1>7. CASE Repl!TakeGen \/ Repl!TakeWipe
  <2>1. /\ cmds # <<>> /\ cmds' = Tail(cmds) /\ (engine' = engine \/ engine' = Head(cmds))
        /\ UNCHANGED <<at, history, turn, events>>
    BY <1>7 DEF Repl!TakeGen, Repl!TakeWipe, Repl!Front
  <2>2. Head(cmds) \in Nat /\ cmds' \in Seq(Nat)
    BY <2>1, <1>a, TailPlaces
  <2> QED
    BY <2>1, <2>2, <1>a DEF InReplTypes
<1>8. CASE Repl!Generate
  <2>1. \A x \in {"token", "done", "error"} : Append(events, x) \in Seq({"token", "done", "error"})
    BY <1>a, Appended
  <2>2. /\ \/ events' = events \/ events' = Append(events, "token")
           \/ events' = Append(events, "done") \/ events' = Append(events, "error")
        /\ engine' \in {engine, 0} /\ UNCHANGED <<at, history, turn, cmds>>
    BY <1>8 DEF Repl!Generate, Repl!Front
  <2>3. events' \in Seq({"token", "done", "error"})
    BY <2>1, <2>2, <1>a
  <2>4. engine' \in Nat \cup {-1, -2}
    BY <2>2, <1>a, <1>e
  <2> QED
    BY <2>2, <2>3, <2>4, <1>a DEF InReplTypes
<1>9. CASE Repl!EnginePanic \/ Repl!EngineEnds
  <2>1. /\ (cmds' = cmds \/ cmds' = <<>>) /\ (engine' = -1 \/ engine' = -2)
        /\ UNCHANGED <<at, history, turn, events>>
    BY <1>9 DEF Repl!EnginePanic, Repl!EngineEnds, Repl!Front
  <2>2. cmds' \in Seq(Nat) /\ engine' \in Nat \cup {-1, -2}
    BY <2>1, <1>a, <1>d, <1>e
  <2> QED
    BY <2>1, <2>2, <1>a DEF InReplTypes
<1> QED
  BY <1>1, <1>2, <1>3, <1>4, <1>5, <1>6, <1>7, <1>8, <1>9 DEF Repl!Next, Repl!Read, Repl!Work

\* A prompt opens a turn and its end closes it: with a reply, or by taking the prompt back.
LEMMA AlternateSteps == ASSUME InReplTypes, AlternateInv, Repl!Next PROVE AlternateInv'
<1> USE DEF Repl!engineVars
<1>a. history \in Seq({"user", "assistant"}) /\ Len(history) \in Nat
  BY DEF InReplTypes
<1>b. /\ \A i \in 1..Len(history) : history[i] = IF i % 2 = 1 THEN "user" ELSE "assistant"
      /\ Len(history) % 2 = IF at = "turn" THEN 1 ELSE 0
  BY <1>a DEF AlternateInv, Repl!HistoryAlternates
<1>c. ASSUME history' \in Seq({"user", "assistant"}),
             \A i \in 1..Len(history') : history'[i] = IF i % 2 = 1 THEN "user" ELSE "assistant",
             Len(history') % 2 = IF at' = "turn" THEN 1 ELSE 0
      PROVE  AlternateInv'
  BY <1>c DEF AlternateInv, Repl!HistoryAlternates
<1>d. ASSUME at = "turn", at' = "prompt", history' = Append(history, "assistant") PROVE AlternateInv'
  <2>1. /\ history' \in Seq({"user", "assistant"}) /\ Len(history') = Len(history) + 1
        /\ history'[Len(history) + 1] = "assistant"
        /\ \A i \in 1..Len(history) : history'[i] = history[i]
    BY <1>a, <1>d, Appended
  <2>2. (Len(history) + 1) % 2 = 0
    BY <1>a, <1>b, <1>d
  <2>3. \A i \in 1..Len(history') : history'[i] = IF i % 2 = 1 THEN "user" ELSE "assistant"
    BY <1>a, <1>b, <2>1, <2>2
  <2> QED
    BY <1>c, <1>d, <2>1, <2>2, <2>3
<1>e. ASSUME at = "turn", at' = "prompt", history' = SubSeq(history, 1, Len(history) - 1)
      PROVE  AlternateInv'
  <2>1. Len(history) - 1 \in Nat /\ (Len(history) - 1) % 2 = 0
    BY <1>a, <1>b, <1>e
  <2>2. /\ history' \in Seq({"user", "assistant"}) /\ Len(history') = Len(history) - 1
        /\ \A i \in 1..(Len(history) - 1) : history'[i] = history[i]
    <3>1. Len(history) - 1 \in 0..Len(history)
      BY <1>a, <2>1
    <3> QED
      BY <1>a, <1>e, <3>1, Prefix
  <2>3. \A i \in 1..Len(history') : history'[i] = IF i % 2 = 1 THEN "user" ELSE "assistant"
    BY <1>a, <1>b, <2>2
  <2> QED
    BY <1>c, <1>e, <2>1, <2>2, <2>3
<1>f. ASSUME at # "turn", at' # "turn", history' \in {history, <<>>} PROVE AlternateInv'
  <2>1. CASE history' = history
    BY <2>1, <1>a, <1>b, <1>c, <1>f
  <2>2. CASE history' = <<>>
    BY <2>2, <1>c, <1>f
  <2> QED
    BY <2>1, <2>2, <1>f
<1>g. ASSUME UNCHANGED <<at, history>> PROVE AlternateInv'
  BY <1>g DEF AlternateInv, Repl!HistoryAlternates
<1>1. CASE Repl!Prompt
  <2>1. \/ UNCHANGED <<at, history>>
        \/ at = "prompt" /\ at' = "turn" /\ history' = Append(history, "user")
    BY <1>1 DEF Repl!Prompt
  <2>2. CASE at = "prompt" /\ at' = "turn" /\ history' = Append(history, "user")
    <3>1. /\ history' \in Seq({"user", "assistant"}) /\ Len(history') = Len(history) + 1
          /\ history'[Len(history) + 1] = "user"
          /\ \A i \in 1..Len(history) : history'[i] = history[i]
      BY <1>a, <2>2, Appended
    <3>2. (Len(history) + 1) % 2 = 1
      BY <1>a, <1>b, <2>2
    <3>3. \A i \in 1..Len(history') : history'[i] = IF i % 2 = 1 THEN "user" ELSE "assistant"
      BY <1>a, <1>b, <3>1, <3>2
    <3> QED
      BY <1>c, <2>2, <3>1, <3>2, <3>3
  <2> QED
    BY <2>1, <2>2, <1>g
<1>2. CASE Repl!ReadEvent
  <2>1. events # <<>> /\ events \in Seq({"token", "done", "error"})
    BY <1>2 DEF Repl!ReadEvent, InReplTypes
  <2>2. Head(events) \in {"token", "done", "error"}
    BY <2>1, TailPlaces
  <2>3. /\ at = "turn"
        /\ \/ UNCHANGED <<at, history>>
           \/ at' = "prompt" /\ history' = Append(history, "assistant")
           \/ at' = "prompt" /\ history' = SubSeq(history, 1, Len(history) - 1)
    BY <1>2, <2>2 DEF Repl!ReadEvent, Repl!Replied, Repl!AfterError
  <2> QED
    BY <2>3, <1>d, <1>e, <1>g
<1>3. CASE Repl!EventsEnd
  BY <1>3, <1>d DEF Repl!EventsEnd, Repl!Replied
<1>4. ASSUME NEW then \in {"wiping", "quitting"}, Repl!Wipe(then) PROVE AlternateInv'
  BY <1>4, <1>f DEF Repl!Wipe
<1>5. CASE Repl!WipeWaits \/ Repl!Join \/ Repl!ReadFails
  BY <1>5, <1>f DEF Repl!WipeWaits, Repl!Join, Repl!ReadFails
<1>6. CASE Repl!CtrlC \/ Repl!Work \/ Repl!EnginePanic
  BY <1>6, <1>g DEF Repl!CtrlC, Repl!Work, Repl!TakeGen, Repl!TakeWipe, Repl!Generate, Repl!EngineEnds,
                    Repl!EnginePanic, Repl!Front
<1> QED
  BY <1>1, <1>2, <1>3, <1>4, <1>5, <1>6 DEF Repl!Next, Repl!Read

\* The command channel: what is left of it, and whether a wipe is in it.
LEMMA QueueSteps ==
    ASSUME cmds \in Seq(Nat)
    PROVE  /\ cmds = <<>> => ~WipeQueued
           /\ \A n \in Nat : cmds' = Append(cmds, n) =>
                 /\ n # 0 => (WipeQueued' <=> WipeQueued)
                 /\ n = 0 /\ ~WipeQueued =>
                       WipeQueued' /\ \A i \in 1..Len(cmds') : cmds'[i] = 0 => i = Len(cmds')
           /\ cmds # <<>> /\ cmds' = Tail(cmds) =>
                 /\ WipeQueued' => WipeQueued
                 /\ Head(cmds) # 0 => (WipeQueued <=> WipeQueued')
                 /\ (\A i \in 1..Len(cmds) : cmds[i] = 0 => i = Len(cmds)) =>
                       /\ \A i \in 1..Len(cmds') : cmds'[i] = 0 => i = Len(cmds')
                       /\ Head(cmds) = 0 => cmds' = <<>>
<1>1. cmds = <<>> => ~WipeQueued
  BY DEF WipeQueued
<1>2. ASSUME NEW n \in Nat, cmds' = Append(cmds, n)
      PROVE  /\ n # 0 => (WipeQueued' <=> WipeQueued)
             /\ n = 0 /\ ~WipeQueued =>
                   WipeQueued' /\ \A i \in 1..Len(cmds') : cmds'[i] = 0 => i = Len(cmds')
  <2>1. /\ Len(cmds) \in Nat /\ Len(cmds') = Len(cmds) + 1 /\ cmds'[Len(cmds) + 1] = n
        /\ \A i \in 1..Len(cmds) : cmds'[i] = cmds[i]
    BY <1>2, Appended
  <2>2. n # 0 => (WipeQueued' <=> WipeQueued)
    BY <2>1 DEF WipeQueued
  <2>3. n = 0 => WipeQueued'
    BY <2>1 DEF WipeQueued
  <2>4. ~WipeQueued => \A i \in 1..Len(cmds') : cmds'[i] = 0 => i = Len(cmds')
    BY <2>1 DEF WipeQueued
  <2> QED
    BY <2>2, <2>3, <2>4
<1>3. ASSUME cmds # <<>>, cmds' = Tail(cmds)
      PROVE  /\ WipeQueued' => WipeQueued
             /\ Head(cmds) # 0 => (WipeQueued <=> WipeQueued')
             /\ (\A i \in 1..Len(cmds) : cmds[i] = 0 => i = Len(cmds)) =>
                   /\ \A i \in 1..Len(cmds') : cmds'[i] = 0 => i = Len(cmds')
                   /\ Head(cmds) = 0 => cmds' = <<>>
  <2>1. /\ Head(cmds) = cmds[1] /\ cmds' \in Seq(Nat) /\ Len(cmds) \in Nat \ {0}
        /\ Len(cmds') = Len(cmds) - 1
        /\ \A i \in 1..Len(cmds') : cmds'[i] = cmds[i + 1]
    BY <1>3, TailPlaces
  <2>2. WipeQueued' => WipeQueued
    <3> SUFFICES ASSUME NEW i \in 1..Len(cmds'), cmds'[i] = 0 PROVE WipeQueued
      BY DEF WipeQueued
    <3>1. i + 1 \in 1..Len(cmds) /\ cmds[i + 1] = 0
      BY <2>1
    <3> QED
      BY <3>1 DEF WipeQueued
  <2>3. Head(cmds) # 0 /\ WipeQueued => WipeQueued'
    <3> SUFFICES ASSUME Head(cmds) # 0, NEW i \in 1..Len(cmds), cmds[i] = 0 PROVE WipeQueued'
      BY DEF WipeQueued
    <3>1. i # 1
      BY <2>1
    <3>2. i - 1 \in 1..Len(cmds') /\ cmds'[i - 1] = cmds[(i - 1) + 1] /\ (i - 1) + 1 = i
      BY <2>1, <3>1
    <3>3. cmds'[i - 1] = 0
      BY <3>2
    <3> QED
      BY <3>2, <3>3 DEF WipeQueued
  <2>4. ASSUME \A i \in 1..Len(cmds) : cmds[i] = 0 => i = Len(cmds)
        PROVE  /\ \A i \in 1..Len(cmds') : cmds'[i] = 0 => i = Len(cmds')
               /\ Head(cmds) = 0 => cmds' = <<>>
    <3>1. ASSUME NEW i \in 1..Len(cmds'), cmds'[i] = 0 PROVE i = Len(cmds')
      <4>1. i + 1 \in 1..Len(cmds) /\ cmds[i + 1] = 0
        BY <2>1, <3>1
      <4> QED
        BY <2>1, <2>4, <4>1
    <3>2. ASSUME Head(cmds) = 0 PROVE cmds' = <<>>
      <4>1. 1 \in 1..Len(cmds) /\ cmds[1] = 0
        BY <2>1, <3>2
      <4>2. Len(cmds') = 0
        BY <2>1, <2>4, <4>1
      <4> QED
        BY <2>1, <4>2
    <3> QED
      BY <3>1, <3>2
  <2> QED
    BY <2>2, <2>3, <2>4
<1> QED
  BY <1>1, <1>2, <1>3

\* A wipe is the last command while the reader waits for it, so that once it is gone
\* nothing was put into the session after it.
LEMMA ForgetSteps == ASSUME InReplTypes, ForgetInv, Repl!Next PROVE ForgetInv'
<1> USE DEF Repl!engineVars, Repl!Loop, Repl!Dead, Repl!Over, Repl!WipeCmd, Repl!Listening
<1>a. turn \in Nat /\ cmds \in Seq(Nat) /\ engine \in Nat \cup {-1, -2}
  BY DEF InReplTypes
<1>b. /\ cmds = <<>> => ~WipeQueued
      /\ \A n \in Nat : cmds' = Append(cmds, n) =>
            /\ n # 0 => (WipeQueued' <=> WipeQueued)
            /\ n = 0 /\ ~WipeQueued =>
                  WipeQueued' /\ \A i \in 1..Len(cmds') : cmds'[i] = 0 => i = Len(cmds')
      /\ cmds # <<>> /\ cmds' = Tail(cmds) =>
            /\ WipeQueued' => WipeQueued
            /\ Head(cmds) # 0 => (WipeQueued <=> WipeQueued')
            /\ (\A i \in 1..Len(cmds) : cmds[i] = 0 => i = Len(cmds)) =>
                  /\ \A i \in 1..Len(cmds') : cmds'[i] = 0 => i = Len(cmds')
                  /\ Head(cmds) = 0 => cmds' = <<>>
  BY <1>a, QueueSteps
<1>c. cmds' = cmds => (WipeQueued' <=> WipeQueued)
  BY DEF WipeQueued
<1>d. cmds' = <<>> => ~WipeQueued'
  BY DEF WipeQueued
<1>e. UNCHANGED <<cmds, engine, held>> => (Emptied' <=> Emptied) /\ (Ended' <=> Ended)
  BY DEF Emptied, Ended
<1> HIDE DEF WipeQueued
<1>1. CASE Repl!CtrlC
  <2>1. UNCHANGED <<at, history, cmds, engine, held, said>>
    BY <1>1 DEF Repl!CtrlC
  <2> QED
    BY <2>1, <1>c, <1>e DEF ForgetInv
<1>2. CASE Repl!Prompt
  <2>1. /\ at = "prompt" /\ UNCHANGED <<engine, held>> /\ said' = "nothing"
        /\ \/ at' = "turn" /\ engine \notin {-1, -2} /\ cmds' = Append(cmds, turn + 1)
           \/ at' = "prompt" /\ engine \in {-1, -2} /\ cmds' = cmds /\ history' = history
    BY <1>2 DEF Repl!Prompt, Repl!Send
  <2>2. CASE at' = "turn" /\ engine \notin {-1, -2} /\ cmds' = Append(cmds, turn + 1)
    <3>1. turn + 1 \in Nat /\ turn + 1 # 0
      BY <1>a
    <3>2. WipeQueued' <=> WipeQueued
      BY <1>b, <2>2, <3>1
    <3>3. ~WipeQueued
      BY <2>1 DEF ForgetInv
    <3> QED
      BY <2>1, <2>2, <3>2, <3>3 DEF ForgetInv
  <2>3. CASE at' = "prompt" /\ engine \in {-1, -2} /\ cmds' = cmds /\ history' = history
    BY <2>1, <2>3, <1>c, <1>e DEF ForgetInv
  <2> QED
    BY <2>1, <2>2, <2>3
<1>3. CASE Repl!ReadEvent \/ Repl!EventsEnd
  <2>0. CASE Repl!ReadEvent
    <3>1. UNCHANGED <<cmds, engine, held, said>> /\ at = "turn"
      BY <2>0 DEF Repl!ReadEvent
    <3>2. events # <<>> /\ events \in Seq({"token", "done", "error"})
      BY <2>0 DEF Repl!ReadEvent, InReplTypes
    <3>3. Head(events) \in {"token", "done", "error"}
      BY <3>2, TailPlaces
    <3>4. at' \in {"turn", "prompt"}
      BY <2>0, <3>1, <3>3 DEF Repl!ReadEvent
    <3> QED
      BY <3>1, <3>4, <1>c, <1>e DEF ForgetInv
  <2>1. CASE Repl!EventsEnd
    <3>1. UNCHANGED <<cmds, engine, held, said>> /\ at = "turn" /\ at' = "prompt"
      BY <2>1 DEF Repl!EventsEnd
    <3> QED
      BY <3>1, <1>c, <1>e DEF ForgetInv
  <2> QED
    BY <1>3, <2>0, <2>1
<1>4. ASSUME NEW then \in {"wiping", "quitting"}, Repl!Wipe(then) PROVE ForgetInv'
  <2>1. /\ at = "prompt" /\ at' \in {"wiping", "quitting"} /\ UNCHANGED <<engine, held>> /\ said' = "nothing"
        /\ at' = "wiping" => history' = <<>>
        /\ \/ engine \notin {-1, -2} /\ cmds' = Append(cmds, 0)
           \/ engine \in {-1, -2} /\ cmds' = cmds
    BY <1>4 DEF Repl!Wipe, Repl!Send
  <2>2. ~WipeQueued
    BY <2>1 DEF ForgetInv
  <2>3. CASE engine \notin {-1, -2} /\ cmds' = Append(cmds, 0)
    <3>1. WipeQueued' /\ \A i \in 1..Len(cmds') : cmds'[i] = 0 => i = Len(cmds')
      BY <1>b, <2>2, <2>3
    <3> QED
      BY <2>1, <2>3, <3>1 DEF ForgetInv
  <2>4. CASE engine \in {-1, -2} /\ cmds' = cmds
    <3>1. cmds = <<>> /\ Ended /\ engine # -2
      BY <2>1, <2>4 DEF ForgetInv
    <3>2. cmds' = <<>> /\ Ended' /\ Emptied' /\ engine' = engine
      BY <2>1, <2>4, <3>1 DEF Ended, Emptied
    <3>3. \A i \in 1..Len(cmds') : cmds'[i] = 0 => i = Len(cmds')
      BY <3>2
    <3> QED
      BY <2>1, <3>1, <3>2, <3>3 DEF ForgetInv
  <2> QED
    BY <2>1, <2>3, <2>4
<1>5. CASE Repl!WipeWaits
  <2>1. /\ UNCHANGED <<cmds, engine, held>> /\ ~WipeQueued
        /\ \/ at = "wiping" /\ at' = "prompt" /\ said' = "wiped" /\ history' = history
           \/ at = "quitting" /\ at' = "joining" /\ said' = "nothing" /\ history' = <<>>
    BY <1>5, <1>a DEF Repl!WipeWaits, Repl!AckOrGone, WipeQueued
  <2>2. Emptied /\ (at = "wiping" => history = <<>>)
    BY <2>1 DEF ForgetInv
  <2> QED
    BY <2>1, <2>2, <1>c, <1>e DEF ForgetInv
<1>6. CASE Repl!Join \/ Repl!ReadFails
  <2>1. /\ UNCHANGED <<cmds, engine, held, history>>
        /\ \/ at = "joining" /\ engine \in {-1, -2} /\ at' = "left" /\ said' = "exited"
           \/ at = "prompt" /\ at' = "broken" /\ said' = "nothing"
    BY <1>6 DEF Repl!Join, Repl!ReadFails
  <2> QED
    BY <2>1, <1>c, <1>e DEF ForgetInv
<1>7. CASE Repl!TakeGen
  <2>1. /\ engine = 0 /\ cmds # <<>> /\ cmds' = Tail(cmds) /\ Head(cmds) # 0 /\ engine' = Head(cmds)
        /\ UNCHANGED <<at, history, said>>
    BY <1>7 DEF Repl!TakeGen, Repl!Front
  <2>2. Head(cmds) \in Nat
    BY <2>1, <1>a, TailPlaces
  <2>3. WipeQueued' <=> WipeQueued
    BY <2>1, <1>b
  <2>4. ~Emptied
    BY <2>1 DEF Emptied
  <2>5. at \in {"wiping", "quitting"} => \A i \in 1..Len(cmds') : cmds'[i] = 0 => i = Len(cmds')
    BY <2>1, <1>b DEF ForgetInv
  <2> QED
    BY <2>1, <2>2, <2>3, <2>4, <2>5 DEF ForgetInv
<1>8. CASE Repl!TakeWipe
  <2>1. /\ engine = 0 /\ cmds # <<>> /\ cmds' = Tail(cmds) /\ Head(cmds) = 0 /\ held' = "clean"
        /\ UNCHANGED <<at, history, said, engine>>
    BY <1>8 DEF Repl!TakeWipe, Repl!Front
  <2>2. ~Emptied /\ WipeQueued
    <3>1. Head(cmds) = cmds[1] /\ 1 \in 1..Len(cmds)
      BY <2>1, <1>a, TailPlaces
    <3> QED
      BY <2>1, <3>1 DEF Emptied, WipeQueued
  <2>3. at \in {"wiping", "quitting"}
    BY <2>2 DEF ForgetInv
  <2>4. cmds' = <<>>
    BY <2>1, <2>3, <1>b DEF ForgetInv
  <2>5. Emptied' /\ ~WipeQueued' /\ \A i \in 1..Len(cmds') : cmds'[i] = 0 => i = Len(cmds')
    BY <2>1, <2>4, <1>d DEF Emptied
  <2> QED
    BY <2>1, <2>2, <2>3, <2>5 DEF ForgetInv
<1>9. CASE Repl!Generate
  <2>1. /\ engine \notin {0, -1, -2} /\ engine' \in {engine, 0} /\ UNCHANGED <<cmds, held, at, history, said>>
    BY <1>9, <1>a DEF Repl!Generate, Repl!Generating, Repl!Front
  <2>2. ~Emptied /\ ~Ended
    BY <2>1 DEF Emptied, Ended
  <2> QED
    BY <2>1, <2>2, <1>c DEF ForgetInv
<1>10. CASE Repl!EnginePanic
  <2>1. /\ engine \notin {0, -1, -2} /\ engine' = -1 /\ cmds' = <<>> /\ held' = "freed"
        /\ UNCHANGED <<at, history, said>>
    BY <1>10, <1>a DEF Repl!EnginePanic, Repl!Generating, Repl!Front
  <2>2. ~Emptied /\ ~Ended /\ Emptied' /\ Ended' /\ ~WipeQueued'
    BY <2>1, <1>d DEF Emptied, Ended
  <2>3. \A i \in 1..Len(cmds') : cmds'[i] = 0 => i = Len(cmds')
    BY <2>1
  <2> QED
    BY <2>1, <2>2, <2>3 DEF ForgetInv
<1>11. CASE Repl!EngineEnds
  <2>1. /\ at = "joining" /\ engine' = -2 /\ cmds = <<>> /\ held' = "clean"
        /\ UNCHANGED <<at, history, said, cmds>>
    BY <1>11 DEF Repl!EngineEnds, Repl!Front
  <2>2. Emptied' /\ Ended' /\ ~WipeQueued'
    BY <2>1, <1>d DEF Emptied, Ended
  <2> QED
    BY <2>1, <2>2 DEF ForgetInv
<1> QED
  BY <1>1, <1>2, <1>3, <1>4, <1>5, <1>6, <1>7, <1>8, <1>9, <1>10, <1>11 DEF Repl!Next, Repl!Read, Repl!Work

LEMMA ReplSteps == ASSUME ReplInv, Repl!Next PROVE ReplInv'
BY TypeSteps, AlternateSteps, CutSteps, ForgetSteps DEF ReplInv

-----------------------------------------------------------------------------
(* The behaviours of the programs.                                         *)

TalkInv ==
    /\ program = "ui" => UiInv
    /\ program = "repl" => ReplInv

LEMMA TalkInvHolds == ProgramsSpec => []TalkInv
<1>1. ProgramsInit => TalkInv
  BY UiInit, ReplInit DEF ProgramsInit, TalkInv
<1>2. TalkInv /\ [ProgramsNext]_programVars => TalkInv'
  <2> SUFFICES ASSUME TalkInv, [ProgramsNext]_programVars PROVE TalkInv'
    OBVIOUS
  <2>1. CASE UiNext
    <3>1. program = "ui" /\ program' = "ui" /\ AppUi!Next
      BY <2>1 DEF UiNext
    <3>2. UiInv'
      BY <3>1, UiSteps DEF TalkInv
    <3> QED
      BY <3>1, <3>2 DEF TalkInv
  <2>2. CASE ReplNext
    <3>1. program = "repl" /\ program' = "repl" /\ Repl!Next
      BY <2>2 DEF ReplNext
    <3>2. ReplInv'
      BY <3>1, ReplSteps DEF TalkInv
    <3> QED
      BY <3>1, <3>2 DEF TalkInv
  <2>3. CASE ReadNext \/ SecretNext \/ WasmNext \/ LabNext
    <3>1. program' = program /\ program \in {"read", "secret", "wasm", "lab"}
      BY <2>3 DEF ReadNext, SecretNext, WasmNext, LabNext
    <3> QED
      BY <3>1 DEF TalkInv
  <2>4. CASE UNCHANGED programVars
    <3>1. /\ UNCHANGED <<chats, outlook, turns, draft, error, running, folder>>
          /\ UNCHANGED <<clip, copied, slipped, dialogs, loads, picked>>
      BY <2>4 DEF programVars, uiVars
    <3>2. UNCHANGED <<at, history, flag, signals, cut, turn, cmds, engine, events, sent, open, held, said>>
      BY <2>4 DEF programVars, replVars
    <3>3. program' = program
      BY <2>4 DEF programVars
    <3>4. UiInv' <=> UiInv
      BY <3>1 DEF UiInv, TurnsInv, TagsInv, BoardInv, LoadsInv, AppUi!HistoryAlternates, AppUi!SettlesOnLast
    <3>5. ReplInv' <=> ReplInv
      BY <3>2 DEF ReplInv, InReplTypes, AlternateInv, CutInv, ForgetInv, WipeQueued, Emptied, Ended,
                  Repl!HistoryAlternates, Repl!CutsOwnTurn
    <3> QED
      BY <3>3, <3>4, <3>5 DEF TalkInv
  <2> QED
    BY <2>1, <2>2, <2>3, <2>4 DEF ProgramsNext
<1> QED
  BY <1>1, <1>2, PTL DEF ProgramsSpec

\* A new chat leaves nothing of the one before it in the window or on a clipboard that
\* never failed (ChatApp::new_chat), and "wiped" is told only of a session that is
\* (llmoxide-private's /wipe, /new, /quit and ctrl-D).
THEOREM ForgottenIsGoneHolds == ProgramsSpec => []ForgottenIsGone
<1>1. TalkInv => ForgottenIsGone
  <2> SUFFICES ASSUME TalkInv PROVE ForgottenIsGone
    OBVIOUS
  <2>1. UiInv => AppUi!NewChatIsClean
    <3> SUFFICES ASSUME UiInv PROVE AppUi!NewChatIsClean
      OBVIOUS
    <3>1. \A i \in DOMAIN turns : turns[i].of = chats
      BY DEF UiInv, TurnsInv
    <3>2. {draft, error, running, folder.grant, folder.draft, folder.error, folder.protected}
              \subseteq {0, chats}
      BY DEF UiInv, TagsInv
    <3>3. ~slipped => clip \in {0, chats}
      BY DEF UiInv, TagsInv, BoardInv
    <3> QED
      BY <3>1, <3>2, <3>3 DEF AppUi!NewChatIsClean
  <2>2. ReplInv => Repl!WipedMeansWiped
    BY DEF ReplInv, ForgetInv, Emptied, Ended, Repl!WipedMeansWiped, Repl!Dead
  <2> QED
    BY <2>1, <2>2 DEF TalkInv, ForgottenIsGone
<1> QED
  BY <1>1, TalkInvHolds, PTL

\* However a turn ends (done, broken off, failed, its engine gone), the prompts and
\* replies that the next request replays alternate.
THEOREM HistoriesAlternateHolds == ProgramsSpec => []HistoriesAlternate
<1>1. TalkInv => HistoriesAlternate
  BY DEF TalkInv, HistoriesAlternate, UiInv, TurnsInv, ReplInv, AlternateInv
<1> QED
  BY <1>1, TalkInvHolds, PTL

\* Two loads at once, from two file dialogs, settle on the model picked last.
THEOREM SettlesOnLastHolds == ProgramsSpec => []SettlesOnLast
<1>1. TalkInv => SettlesOnLast
  BY DEF TalkInv, SettlesOnLast, UiInv, LoadsInv
<1> QED
  BY <1>1, TalkInvHolds, PTL

\* A ctrl-C that came between two prompts breaks off no reply (on_sigint, INTERRUPTED).
THEOREM CutsOwnTurnHolds == ProgramsSpec => []CutsOwnTurn
<1>1. TalkInv => CutsOwnTurn
  BY DEF TalkInv, CutsOwnTurn, ReplInv, CutInv
<1> QED
  BY <1>1, TalkInvHolds, PTL
-----------------------------------------------------------------------------
(* The browser's session.  A stop or a second message can come at every    *)
(* step; each leaves the rows a prefix of what the prompt and its reply    *)
(* say, and the limit on a reply keeps them within the context.            *)

ResidentInv ==
    /\ {prompt, rows, cached, fresh} \subseteq Seq(Tokens) /\ next \in Nat /\ limit \in Nat
    /\ step = "prefill" => /\ next < Len(prompt) /\ Len(prompt) < WasmCtx
                           /\ rows = SubSeq(prompt, 1, next) /\ fresh = <<>>
    /\ step = "decode" => /\ rows = prompt \o fresh
                          /\ Len(prompt) + limit < WasmCtx /\ Len(fresh) <= limit
    /\ step # "prefill" => cached = rows
    /\ Len(rows) < WasmCtx

ArmedInv == (asked # <<>> => zeroing) /\ (step \in {"idle", "prefill", "decode"} => zeroing)

WasmInv == ResidentInv /\ ArmedInv

LEMMA WasmInit == WasmSession!Init => WasmInv
<1> SUFFICES ASSUME WasmSession!Init PROVE WasmInv
  OBVIOUS
<1>1. /\ step = "header" /\ cached = <<>> /\ rows = <<>> /\ prompt = <<>> /\ next = 0
      /\ fresh = <<>> /\ limit = 0 /\ asked = <<>>
  BY DEF WasmSession!Init
<1>2. <<>> \in Seq(Tokens) /\ Len(<<>>) = 0 /\ 0 < WasmCtx
  BY ProgramsAssumption
<1> QED
  BY <1>1, <1>2 DEF WasmInv, ResidentInv, ArmedInv

LEMMA WasmMin ==
    ASSUME NEW a \in Int, NEW b \in Int
    PROVE  WasmSession!Min({a, b}) = IF a <= b THEN a ELSE b
BY DEF WasmSession!Min

LEMMA WasmCount == \A T : WasmSession!Cardinality(T) = Cardinality(T)
BY DEF WasmSession!Cardinality, Cardinality

\* What is reused of the last turn is all of it, and a prefix of the prompt.
LEMMA ReusedPrefix ==
    ASSUME NEW p \in Seq(Tokens), cached \in Seq(Tokens), p # <<>>
    PROVE  /\ WasmSession!ReusablePrefix(p) \in 0..(Len(p) - 1)
           /\ WasmSession!ReusablePrefix(p) # 0 =>
                 cached = SubSeq(p, 1, WasmSession!ReusablePrefix(p))
<1> DEFINE c == WasmSession!Common(p)
           m == IF Len(p) <= Len(cached) THEN Len(p) ELSE Len(cached)
           T == {n \in 1..m : SubSeq(p, 1, n) = SubSeq(cached, 1, n)}
<1>1. Len(p) \in Nat \ {0} /\ Len(cached) \in Nat /\ m \in Nat /\ m <= Len(p) /\ m <= Len(cached)
  OBVIOUS
<1>2. c = Cardinality(T)
  <2>1. WasmSession!Min({Len(p), Len(cached)}) = m
    BY <1>1, WasmMin
  <2>2. c = WasmSession!Cardinality(T)
    BY <2>1 DEF WasmSession!Common
  <2> QED
    BY <2>2, WasmCount
<1>4. c \in 0..m /\ (c # 0 => c \in T)
  <2>1. T = {n \in 1..m : SubSeq(p, 1, n) = SubSeq(cached, 1, n)}
    OBVIOUS
  <2>2. /\ p \in Seq(Tokens) /\ cached \in Seq(Tokens)
        /\ m \in Nat /\ m <= Len(p) /\ m <= Len(cached)
    BY <1>1
  <2> HIDE DEF T, m
  <2>3. Cardinality(T) \in 0..m /\ (Cardinality(T) # 0 => Cardinality(T) \in T)
    BY <2>1, <2>2, SharedPrefixes
  <2> HIDE DEF c
  <2> QED
    BY <1>2, <2>3
<1>5. WasmSession!ReusablePrefix(p) = IF c = Len(cached) /\ c < Len(p) THEN c ELSE 0
  BY DEF WasmSession!ReusablePrefix
<1>6. ASSUME c = Len(cached), c < Len(p), c # 0 PROVE cached = SubSeq(p, 1, c)
  <2>1. SubSeq(p, 1, c) = SubSeq(cached, 1, c)
    BY <1>4, <1>6
  <2> HIDE DEF c
  <2> QED
    BY <1>6, <2>1, WholePrefix
<1> HIDE DEF c, m, T
<1> QED
  BY <1>1, <1>4, <1>5, <1>6

LEMMA ReplyStep ==
    ASSUME WasmInv, NEW p \in Seq(Tokens), p # <<>>, WasmSession!Reply(p) PROVE WasmInv'
<1>0. /\ ResidentInv /\ ArmedInv
      /\ {prompt, rows, cached, fresh} \subseteq Seq(Tokens) /\ next \in Nat /\ limit \in Nat
      /\ Len(rows) < WasmCtx
  BY DEF WasmInv, ResidentInv
<1>1. step = "idle" /\ zeroing /\ zeroing' = zeroing /\ cached = rows
  BY <1>0 DEF WasmSession!Reply, WasmSession!load, ResidentInv, ArmedInv
<1>2. CASE UNCHANGED <<step, cached, rows, prompt, next, fresh, limit, asked>>
  BY <1>0, <1>1, <1>2 DEF WasmInv, ResidentInv, ArmedInv
<1>3. CASE ~(Len(p) + WasmHeadroom >= WasmCtx)
  <2> DEFINE reuse == WasmSession!ReusablePrefix(p)
  <2>1. /\ step' = "prefill" /\ prompt' = p /\ next' = reuse /\ fresh' = <<>> /\ limit' = 0
        /\ IF reuse = 0 THEN rows' = <<>> /\ cached' = <<>> ELSE UNCHANGED <<rows, cached>>
    BY <1>3 DEF WasmSession!Reply
  <2>2. reuse \in 0..(Len(p) - 1) /\ (reuse # 0 => cached = SubSeq(p, 1, reuse))
    BY <1>0, ReusedPrefix
  <2> HIDE DEF reuse
  <2>3. Len(p) < WasmCtx /\ 0 < WasmCtx
    <3>1. WasmHeadroom \in Nat /\ WasmCtx \in Nat \ {0} /\ Len(p) \in Nat
      BY ProgramsAssumption
    <3> QED
      BY <1>3, <3>1
  <2>4. rows' = SubSeq(p, 1, reuse)
    <3>1. CASE reuse = 0
      <4>1. SubSeq(p, 1, 0) = <<>>
        OBVIOUS
      <4> QED
        BY <2>1, <3>1, <4>1
    <3>2. CASE reuse # 0
      BY <1>1, <2>1, <2>2, <3>2
    <3> QED
      BY <3>1, <3>2
  <2>5. {prompt', rows', cached', fresh'} \subseteq Seq(Tokens)
    <3>1. <<>> \in Seq(Tokens)
      OBVIOUS
    <3>2. rows' \in Seq(Tokens) /\ cached' \in Seq(Tokens)
      BY <1>0, <2>1, <3>1
    <3> QED
      BY <2>1, <3>1, <3>2
  <2>6. Len(rows') < WasmCtx
    BY <1>0, <2>1, <2>3
  <2>7. next' \in Nat /\ next' < Len(prompt') /\ limit' \in Nat
    BY <2>1, <2>2
  <2> QED
    BY <1>1, <2>1, <2>3, <2>4, <2>5, <2>6, <2>7 DEF WasmInv, ResidentInv, ArmedInv
<1> QED
  BY <1>2, <1>3 DEF WasmSession!Reply, WasmSession!chat

LEMMA PrefillStep == ASSUME WasmInv, WasmSession!Prefill PROVE WasmInv'
<1>0. /\ ResidentInv /\ ArmedInv
      /\ prompt \in Seq(Tokens) /\ rows \in Seq(Tokens) /\ cached \in Seq(Tokens) /\ fresh \in Seq(Tokens)
      /\ next \in Nat /\ limit \in Nat
  BY DEF WasmInv, ResidentInv
<1>1. step = "prefill" /\ UNCHANGED <<zeroing, prompt, fresh, asked>>
  BY DEF WasmSession!Prefill, WasmSession!load
<1>2. /\ next < Len(prompt) /\ Len(prompt) < WasmCtx /\ Len(prompt) \in Nat
      /\ rows = SubSeq(prompt, 1, next) /\ fresh = <<>> /\ zeroing
  BY <1>0, <1>1 DEF ResidentInv, ArmedInv
<1> DEFINE end == WasmSession!Min({next + MaxBatch, Len(prompt)})
<1>3. /\ rows' = rows \o SubSeq(prompt, next + 1, end) /\ next' = end
      /\ \/ end < Len(prompt) /\ UNCHANGED <<step, cached, limit>>
         \/ /\ ~(end < Len(prompt)) /\ step' = "decode" /\ cached' = prompt
            /\ \E max \in 0..MaxNew : limit' = WasmSession!Min({max, WasmCtx - Len(prompt) - 1})
  BY DEF WasmSession!Prefill
<1>4. MaxBatch \in Nat /\ MaxNew \in Nat /\ WasmCtx \in Nat
  BY ProgramsAssumption
<1>5. end \in next..Len(prompt)
  <2>1. end = IF next + MaxBatch <= Len(prompt) THEN next + MaxBatch ELSE Len(prompt)
    BY <1>0, <1>2, <1>4, WasmMin
  <2> QED
    BY <1>0, <1>2, <1>4, <2>1
<1> HIDE DEF end
<1>6. next \in 0..Len(prompt) /\ end \in 0..Len(prompt)
  BY <1>0, <1>2, <1>5
<1>7. rows' = SubSeq(prompt, 1, end)
  BY <1>0, <1>2, <1>3, <1>5, <1>6, PrefixJoined
<1>8. rows' \in Seq(Tokens) /\ Len(rows') = end /\ end < WasmCtx
  BY <1>0, <1>2, <1>4, <1>6, <1>7, Prefix
<1>9. CASE end < Len(prompt) /\ UNCHANGED <<step, cached, limit>>
  <2>1. {prompt', rows', cached', fresh'} \subseteq Seq(Tokens) /\ next' \in Nat /\ limit' \in Nat
    BY <1>0, <1>1, <1>3, <1>6, <1>8, <1>9
  <2> QED
    BY <1>1, <1>2, <1>3, <1>7, <1>8, <1>9, <2>1 DEF WasmInv, ResidentInv, ArmedInv
<1>10. ASSUME ~(end < Len(prompt)), step' = "decode", cached' = prompt, NEW max \in 0..MaxNew,
              limit' = WasmSession!Min({max, WasmCtx - Len(prompt) - 1})
       PROVE  WasmInv'
  <2>1. max \in Nat /\ WasmCtx - Len(prompt) - 1 \in Nat
    BY <1>2, <1>4
  <2>2. limit' = IF max <= WasmCtx - Len(prompt) - 1 THEN max ELSE WasmCtx - Len(prompt) - 1
    BY <1>10, <2>1, WasmMin
  <2>3. limit' \in Nat /\ Len(prompt) + limit' < WasmCtx
    BY <1>2, <1>4, <2>1, <2>2
  <2>4. end = Len(prompt)
    BY <1>6, <1>10
  <2>5. rows' = prompt
    BY <1>0, <1>7, <2>4, WholePrefix
  <2>6. prompt \o <<>> = prompt
    BY <1>0
  <2>7. {prompt', rows', cached', fresh'} \subseteq Seq(Tokens) /\ next' \in Nat
    BY <1>0, <1>1, <1>3, <1>6, <1>10, <2>5
  <2>8. rows' = prompt' \o fresh' /\ Len(fresh') <= limit' /\ Len(prompt') + limit' < WasmCtx
    BY <1>1, <1>2, <2>3, <2>5, <2>6
  <2> QED
    BY <1>1, <1>2, <1>8, <1>10, <2>3, <2>5, <2>7, <2>8 DEF WasmInv, ResidentInv, ArmedInv
<1> QED
  BY <1>3, <1>9, <1>10

LEMMA DecodeStep == ASSUME WasmInv, WasmSession!Decode PROVE WasmInv'
<1>0. /\ ResidentInv /\ ArmedInv
      /\ prompt \in Seq(Tokens) /\ rows \in Seq(Tokens) /\ cached \in Seq(Tokens) /\ fresh \in Seq(Tokens)
      /\ next \in Nat /\ limit \in Nat /\ WasmCtx \in Nat
  BY ProgramsAssumption DEF WasmInv, ResidentInv
<1>1. step = "decode" /\ UNCHANGED <<zeroing, prompt, next, limit>>
  BY DEF WasmSession!Decode, WasmSession!load
<1>2. /\ rows = prompt \o fresh /\ Len(prompt) + limit < WasmCtx /\ Len(fresh) <= limit
      /\ cached = rows /\ Len(rows) < WasmCtx /\ zeroing
  BY <1>0, <1>1 DEF ResidentInv, ArmedInv
<1>3. CASE step' = "idle" /\ UNCHANGED <<cached, rows, fresh>>
  BY <1>0, <1>1, <1>2, <1>3 DEF WasmInv, ResidentInv, ArmedInv
<1>4. ASSUME NEW t \in Tokens, Len(fresh) < limit, fresh' = Append(fresh, t),
             \/ step' = "idle" /\ UNCHANGED <<cached, rows>>
             \/ /\ cached' = Append(cached, t) /\ rows' = Append(rows, t) /\ UNCHANGED step
      PROVE  WasmInv'
  <2>1. fresh' \in Seq(Tokens) /\ Len(fresh') = Len(fresh) + 1 /\ Len(fresh) \in Nat /\ Len(prompt) \in Nat
    BY <1>0, <1>4
  <2>2. CASE step' = "idle" /\ UNCHANGED <<cached, rows>>
    <3>1. {prompt', rows', cached', fresh'} \subseteq Seq(Tokens) /\ next' \in Nat /\ limit' \in Nat
      BY <1>0, <1>1, <2>1, <2>2
    <3> QED
      BY <1>1, <1>2, <2>2, <3>1 DEF WasmInv, ResidentInv, ArmedInv
  <2>3. CASE cached' = Append(cached, t) /\ rows' = Append(rows, t) /\ UNCHANGED step
    <3>1. rows' = prompt \o fresh'
      <4>1. Append(prompt \o fresh, t) = prompt \o Append(fresh, t)
        <5>1. prompt \in Seq(Tokens) /\ fresh \in Seq(Tokens) /\ t \in Tokens
          BY <1>0
        <5> QED
          BY <5>1, AppendJoined
      <4> QED
        BY <1>2, <1>4, <2>3, <4>1
    <3>2. rows' \in Seq(Tokens) /\ Len(rows') = Len(rows) + 1 /\ Len(rows) = Len(prompt) + Len(fresh)
      BY <1>0, <1>2, <2>3
    <3>3. Len(rows') < WasmCtx
      BY <1>0, <1>2, <1>4, <2>1, <3>2
    <3>4. cached' = rows' /\ step' = "decode"
      BY <1>1, <1>2, <2>3
    <3>5. {prompt', rows', cached', fresh'} \subseteq Seq(Tokens) /\ next' \in Nat /\ limit' \in Nat
      BY <1>0, <1>1, <2>1, <3>2, <3>4
    <3>6. Len(prompt') + limit' < WasmCtx /\ Len(fresh') <= limit'
      BY <1>0, <1>1, <1>2, <1>4, <2>1
    <3>7. rows' = prompt' \o fresh'
      BY <1>1, <3>1
    <3> QED
      BY <1>1, <1>2, <3>3, <3>4, <3>5, <3>6, <3>7 DEF WasmInv, ResidentInv, ArmedInv
  <2> QED
    BY <1>4, <2>2, <2>3
<1> QED
  BY <1>3, <1>4 DEF WasmSession!Decode

LEMMA WasmSteps == ASSUME WasmInv, WasmSession!Next PROVE WasmInv'
<1>0. ResidentInv /\ ArmedInv
  BY DEF WasmInv
<1>1. CASE WasmSession!ReadHeader \/ WasmSession!LoadStage
  <2>1. /\ UNCHANGED <<cached, rows, prompt, next, fresh, limit, asked>>
        /\ step' = "idle" => zeroing' = TRUE
        /\ step' \notin {"prefill", "decode"}
        /\ zeroing' = zeroing \/ zeroing' = TRUE
        /\ step' # "idle" \/ zeroing' = TRUE
        /\ step \notin {"idle", "prefill", "decode"}
    BY <1>1 DEF WasmSession!ReadHeader, WasmSession!LoadStage, WasmSession!Stages, WasmSession!chat
  <2>2. ResidentInv'
    BY <1>0, <2>1 DEF ResidentInv
  <2>3. ArmedInv'
    BY <1>0, <2>1 DEF ArmedInv
  <2> QED
    BY <2>2, <2>3 DEF WasmInv
<1>2. CASE WasmSession!RequestStop
  <2>1. UNCHANGED <<step, zeroing, cached, rows, prompt, next, fresh, limit, asked>>
    BY <1>2 DEF WasmSession!RequestStop, WasmSession!chat, WasmSession!load
  <2> QED
    BY <1>0, <2>1 DEF WasmInv, ResidentInv, ArmedInv
<1>3. CASE WasmSession!Wipe
  <2>1. /\ step = "idle" /\ rows' = <<>> /\ cached' = <<>> /\ asked' = <<>>
        /\ UNCHANGED <<step, zeroing, prompt, next, fresh, limit>>
    BY <1>3 DEF WasmSession!Wipe, WasmSession!load
  <2>2. <<>> \in Seq(Tokens) /\ Len(<<>>) < WasmCtx
    BY ProgramsAssumption
  <2> QED
    BY <1>0, <2>1, <2>2 DEF WasmInv, ResidentInv, ArmedInv
<1>4. ASSUME NEW n \in 1..WasmPrompt, NEW p \in [1..n -> Tokens \ {Eog}], WasmSession!Reply(p)
      PROVE  WasmInv'
  <2>1. p \in Seq(Tokens) /\ p # <<>>
    <3>1. n \in Nat \ {0} /\ p \in [1..n -> Tokens]
      OBVIOUS
    <3>2. p \in Seq(Tokens) /\ Len(p) = n
      BY <3>1
    <3> QED
      BY <3>1, <3>2
  <2> QED
    BY <1>4, <2>1, ReplyStep
<1> QED
  BY <1>1, <1>2, <1>3, <1>4, PrefillStep, DecodeStep DEF WasmSession!Next

LEMMA WasmIs == WasmInv => WasmSession!CachedIsResident
BY DEF WasmInv, ResidentInv, ArmedInv, WasmSession!CachedIsResident

-----------------------------------------------------------------------------
(* The lab.  A cache is its rows up to its length: what is kept of the     *)
(* last turn is a prefix of both, and what is run goes behind it.  The     *)
(* logits of a reply in hand are gone only when a wipe took them.          *)

Row == Tokens \cup {0}
CacheOf(n) == [rows : [1..n -> Row], len : 0..n]

ChatInv ==
    /\ ids \in Seq(Tokens) /\ chat \in CacheOf(ChatCtx)
    /\ Lab!Context(chat) = ids /\ logits \in {<<>>, ids}
    /\ ids = <<>> => chat = Lab!Empty(ChatCtx)

ProbeInv ==
    /\ probe.ids \in Seq(Tokens) /\ probe.cache \in CacheOf(ProbeCtx)
    /\ Lab!Context(probe.cache) = probe.ids /\ probe.logits = probe.ids

TrapInv ==
    /\ {stopping, bare} \subseteq BOOLEAN
    /\ worker = "chatting" /\ logits = <<>> => bare
    /\ worker = "trapped" => bare

LabInv == ChatInv /\ ProbeInv /\ TrapInv

LEMMA EmptyHolds ==
    ASSUME NEW n \in Nat
    PROVE  /\ Lab!Empty(n) \in CacheOf(n) /\ Lab!Empty(n).len = 0
           /\ Lab!Context(Lab!Empty(n)) = <<>>
<1>1. Lab!Empty(n).rows \in [1..n -> Row] /\ Lab!Empty(n).len = 0
  BY DEF Lab!Empty, Row
<1>2. Lab!Empty(n) \in CacheOf(n)
  BY <1>1 DEF Lab!Empty, CacheOf
<1>3. SubSeq(Lab!Empty(n).rows, 1, 0) = <<>>
  BY <1>1
<1> QED
  BY <1>1, <1>2, <1>3 DEF Lab!Context

\* A cache, seen as the sequence of its tokens.
LEMMA ContextHolds ==
    ASSUME NEW n \in Nat, NEW c \in CacheOf(n)
    PROVE  /\ Lab!Context(c) \in Seq(Row) /\ Len(Lab!Context(c)) = c.len
           /\ \A i \in 1..c.len : Lab!Context(c)[i] = c.rows[i]
<1>1. c.rows \in Seq(Row) /\ Len(c.rows) = n /\ c.len \in 0..n
  BY DEF CacheOf
<1>2. c.len \in 0..Len(c.rows)
  BY <1>1
<1> QED
  BY <1>1, <1>2, Prefix DEF Lab!Context

\* A pass puts its tokens behind what the cache holds.
LEMMA ForwardHolds ==
    ASSUME NEW n \in Nat, NEW c \in CacheOf(n), NEW t \in Seq(Row), c.len + Len(t) <= n,
           NEW d, d = Lab!Forward(c, t)
    PROVE  /\ d \in CacheOf(n) /\ d.len = c.len + Len(t)
           /\ Lab!Context(d) = Lab!Context(c) \o t
<1>1. c.rows \in [1..n -> Row] /\ c.len \in 0..n /\ Len(t) \in Nat
  BY DEF CacheOf
<1>2. /\ d = [rows |-> d.rows, len |-> d.len] /\ d.len = c.len + Len(t)
      /\ d.rows = [i \in 1..n |-> IF i \in (c.len + 1)..(c.len + Len(t)) THEN t[i - c.len] ELSE c.rows[i]]
  BY <1>1 DEF Lab!Forward
<1>3. d.rows \in [1..n -> Row]
  <2> SUFFICES ASSUME NEW i \in 1..n
               PROVE  (IF i \in (c.len + 1)..(c.len + Len(t)) THEN t[i - c.len] ELSE c.rows[i]) \in Row
    BY <1>2
  <2>1. CASE i \in (c.len + 1)..(c.len + Len(t))
    <3>1. i - c.len \in 1..Len(t)
      BY <1>1, <2>1
    <3> QED
      BY <2>1, <3>1
  <2>2. CASE i \notin (c.len + 1)..(c.len + Len(t))
    BY <1>1, <2>2
  <2> QED
    BY <2>1, <2>2
<1>4. d.len \in 0..n
  BY <1>1, <1>2
<1>5. d \in CacheOf(n)
  BY <1>2, <1>3, <1>4 DEF CacheOf
<1> DEFINE a == Lab!Context(c)  b == Lab!Context(d)
<1>6. a \in Seq(Row) /\ Len(a) = c.len /\ \A i \in 1..c.len : a[i] = c.rows[i]
  BY ContextHolds
<1>7. b \in Seq(Row) /\ Len(b) = c.len + Len(t) /\ \A i \in 1..(c.len + Len(t)) : b[i] = d.rows[i]
  BY <1>2, <1>5, ContextHolds
<1> HIDE DEF a, b
<1>8. /\ a \o t \in Seq(Row) /\ Len(a \o t) = c.len + Len(t)
      /\ \A i \in 1..c.len : (a \o t)[i] = a[i]
      /\ \A i \in (c.len + 1)..(c.len + Len(t)) : (a \o t)[i] = t[i - c.len]
  <2>1. a \in Seq(Row) /\ t \in Seq(Row) /\ Len(a) = c.len /\ c.len \in Nat /\ Len(t) \in Nat
    BY <1>1, <1>6
  <2>2. /\ a \o t \in Seq(Row) /\ Len(a \o t) = Len(a) + Len(t)
        /\ \A i \in 1..Len(a) : (a \o t)[i] = a[i]
        /\ \A i \in (Len(a) + 1)..(Len(a) + Len(t)) : (a \o t)[i] = t[i - Len(a)]
    BY <2>1
  <2> QED
    BY <2>1, <2>2
<1>9. ASSUME NEW i \in 1..Len(b) PROVE b[i] = (a \o t)[i]
  <2>1. i \in 1..n /\ i \in 1..(c.len + Len(t))
    BY <1>1, <1>7
  <2>2. CASE i \in (c.len + 1)..(c.len + Len(t))
    BY <1>2, <1>7, <1>8, <2>1, <2>2
  <2>3. CASE i \in 1..c.len
    <3>1. i \notin (c.len + 1)..(c.len + Len(t))
      BY <1>1, <2>3
    <3>2. d.rows[i] = c.rows[i]
      BY <1>2, <2>1, <3>1
    <3>3. b[i] = d.rows[i] /\ (a \o t)[i] = a[i] /\ a[i] = c.rows[i]
      BY <1>6, <1>7, <1>8, <2>1, <2>3
    <3> QED
      BY <3>2, <3>3
  <2>4. i \in 1..c.len \/ i \in (c.len + 1)..(c.len + Len(t))
    BY <1>1, <2>1
  <2> QED
    BY <2>2, <2>3, <2>4
<1>10. b = a \o t
  BY <1>7, <1>8, <1>9, SameSeq
<1> QED
  BY <1>2, <1>5, <1>10 DEF a, b

LEMMA Widened == ASSUME NEW s \in Seq(Tokens) PROVE s \in Seq(Row)
BY DEF Row

LEMMA LabMin ==
    ASSUME NEW a \in Int, NEW b \in Int
    PROVE  Lab!Min({a, b}) = IF a <= b THEN a ELSE b
BY DEF Lab!Min

LEMMA LabCount == \A T : Lab!Cardinality(T) = Cardinality(T)
BY DEF Lab!Cardinality, Cardinality

\* What is kept of the last turn is a prefix of it and of the prompt.
LEMMA Kept ==
    ASSUME NEW p \in Seq(Tokens), ids \in Seq(Tokens), p # <<>>
    PROVE  /\ Lab!Keep(p) \in 0..(Len(p) - 1) /\ Lab!Keep(p) <= Len(ids)
           /\ SubSeq(p, 1, Lab!Keep(p)) = SubSeq(ids, 1, Lab!Keep(p))
<1> DEFINE m == IF Len(p) <= Len(ids) THEN Len(p) ELSE Len(ids)
           T == {n \in 1..m : SubSeq(p, 1, n) = SubSeq(ids, 1, n)}
           c == Cardinality(T)
           k == Lab!Keep(p)
<1>1. Len(p) \in Nat \ {0} /\ Len(ids) \in Nat /\ m \in Nat /\ m <= Len(p) /\ m <= Len(ids)
  OBVIOUS
<1>2. k = Lab!Min({Len(p) - 1, c})
  <2>1. Lab!Min({Len(p), Len(ids)}) = m
    BY <1>1, LabMin
  <2>2. k = Lab!Min({Len(p) - 1, Lab!Cardinality(T)})
    BY <2>1 DEF Lab!Keep
  <2> QED
    BY <2>2, LabCount
<1>3. c \in 0..m /\ (c # 0 => c \in T) /\ \A n \in T, j \in 1..m : j <= n => j \in T
  <2>1. T = {n \in 1..m : SubSeq(p, 1, n) = SubSeq(ids, 1, n)}
    OBVIOUS
  <2>2. /\ p \in Seq(Tokens) /\ ids \in Seq(Tokens)
        /\ m \in Nat /\ m <= Len(p) /\ m <= Len(ids)
    BY <1>1
  <2> HIDE DEF T, m, c
  <2>3. Cardinality(T) \in 0..m /\ (Cardinality(T) # 0 => Cardinality(T) \in T)
    BY <2>1, <2>2, SharedPrefixes
  <2>4. \A n \in T, j \in 1..m : j <= n => j \in T
    BY <2>1, <2>2, SharedPrefixes
  <2> QED
    BY <2>3, <2>4 DEF c
<1> HIDE DEF k, c
<1>4. k \in 0..(Len(p) - 1) /\ k <= c
  <2>1. Len(p) - 1 \in Int /\ c \in Int
    BY <1>1, <1>3
  <2>2. k = IF Len(p) - 1 <= c THEN Len(p) - 1 ELSE c
    BY <1>2, <2>1, LabMin
  <2> QED
    BY <1>1, <1>3, <2>2
<1>5. k <= Len(ids) /\ k \in Nat
  BY <1>1, <1>3, <1>4
<1>6. SubSeq(p, 1, k) = SubSeq(ids, 1, k)
  <2>1. CASE k = 0
    <3>1. SubSeq(p, 1, 0) = <<>> /\ SubSeq(ids, 1, 0) = <<>>
      OBVIOUS
    <3> QED
      BY <2>1, <3>1
  <2>2. CASE k # 0
    <3>1. k \in 1..m /\ k <= c /\ c \in T
      BY <1>1, <1>3, <1>4, <1>5, <2>2
    <3>2. k \in T
      BY <1>3, <3>1
    <3> QED
      BY <3>2
  <2> QED
    BY <2>1, <2>2
<1> QED
  BY <1>4, <1>5, <1>6 DEF k

\* A rewind keeps that many tokens.
LEMMA RewoundHolds ==
    ASSUME NEW n \in Nat, chat \in CacheOf(n), NEW k \in 0..chat.len
    PROVE  /\ Lab!Rewound(k) \in CacheOf(n) /\ Lab!Rewound(k).len = k
           /\ Lab!Context(Lab!Rewound(k)) = SubSeq(Lab!Context(chat), 1, k)
<1> DEFINE d == Lab!Rewound(k)  a == Lab!Context(chat)  b == Lab!Context(d)
<1>1. chat.rows \in [1..n -> Row] /\ chat.len \in 0..n /\ chat = [rows |-> chat.rows, len |-> chat.len]
  BY DEF CacheOf
<1>2. d = [rows |-> chat.rows, len |-> k]
  BY <1>1 DEF Lab!Rewound
<1>3. d \in CacheOf(n) /\ d.len = k /\ d.rows = chat.rows
  BY <1>1, <1>2 DEF CacheOf
<1>4. a \in Seq(Row) /\ Len(a) = chat.len /\ \A i \in 1..chat.len : a[i] = chat.rows[i]
  BY ContextHolds
<1> HIDE DEF d
<1>5. b \in Seq(Row) /\ Len(b) = k /\ \A i \in 1..k : b[i] = chat.rows[i]
  BY <1>3, ContextHolds
<1> HIDE DEF a, b
<1>6. SubSeq(a, 1, k) \in Seq(Row) /\ Len(SubSeq(a, 1, k)) = k /\ \A i \in 1..k : SubSeq(a, 1, k)[i] = a[i]
  BY <1>4, Prefix
<1>7. b = SubSeq(a, 1, k)
  <2>1. \A i \in 1..k : i \in 1..chat.len
    BY <1>1
  <2> QED
    BY <1>4, <1>5, <1>6, <2>1, SameSeq
<1> QED
  BY <1>3, <1>7 DEF a, b, d

LEMMA LabInit == Lab!Init => LabInv
<1> SUFFICES ASSUME Lab!Init PROVE LabInv
  OBVIOUS
<1>1. /\ chat = Lab!Empty(ChatCtx) /\ ids = <<>> /\ logits = <<>>
      /\ probe = [cache |-> Lab!Empty(ProbeCtx), ids |-> <<>>, logits |-> <<>>]
      /\ worker = "idle" /\ stopping = FALSE /\ bare = FALSE
  BY DEF Lab!Init
<1>2. <<>> \in Seq(Tokens)
  OBVIOUS
<1>3. ChatInv
  BY <1>1, <1>2, EmptyHolds, ProgramsAssumption DEF ChatInv
<1>4. ProbeInv
  <2>1. probe.cache = Lab!Empty(ProbeCtx) /\ probe.ids = <<>> /\ probe.logits = <<>>
    BY <1>1
  <2> QED
    BY <1>2, <2>1, EmptyHolds, ProgramsAssumption DEF ProbeInv
<1>5. TrapInv
  BY <1>1 DEF TrapInv
<1> QED
  BY <1>3, <1>4, <1>5 DEF LabInv

LEMMA ChatBeginStep ==
    ASSUME LabInv, NEW p \in Seq(Tokens), p # <<>>, Lab!ChatBegin(p) PROVE LabInv'
<1>0. /\ ChatInv /\ ProbeInv /\ TrapInv
      /\ ids \in Seq(Tokens) /\ chat \in CacheOf(ChatCtx) /\ Lab!Context(chat) = ids
  BY DEF LabInv, ChatInv
<1>1. stopping' = FALSE /\ bare' = FALSE /\ worker = "idle" /\ UNCHANGED probe
  BY DEF Lab!ChatBegin
<1>2. ProbeInv'
  BY <1>0, <1>1 DEF ProbeInv
<1>3. CASE Len(p) + LabHeadroom > ChatCtx
  <2>1. UNCHANGED <<chat, ids, logits, worker>>
    BY <1>3 DEF Lab!ChatBegin, Lab!chatVars
  <2>2. ChatInv'
    BY <1>0, <2>1 DEF ChatInv
  <2>3. TrapInv'
    BY <1>1, <2>1 DEF TrapInv
  <2> QED
    BY <1>2, <2>2, <2>3 DEF LabInv
<1>4. CASE ~(Len(p) + LabHeadroom > ChatCtx)
  <2> DEFINE k == Lab!Keep(p)  c == Lab!Rewound(k)  t == SubSeq(p, k + 1, Len(p))
  <2>1. /\ chat' = Lab!Forward(c, t) /\ ids' = p /\ logits' = Lab!Context(chat')
        /\ worker' = "chatting"
    BY <1>4 DEF Lab!ChatBegin
  <2>2. k \in 0..(Len(p) - 1) /\ k <= Len(ids) /\ SubSeq(p, 1, k) = SubSeq(ids, 1, k)
    BY <1>0, Kept
  <2>3. ChatCtx \in Nat /\ LabHeadroom \in Nat /\ Len(p) \in Nat /\ Len(p) <= ChatCtx
    BY <1>4, ProgramsAssumption
  <2> HIDE DEF k
  <2>4. Len(ids) = chat.len /\ k \in 0..chat.len
    <3>1. Len(ids) = chat.len
      BY <1>0, <2>3, ContextHolds
    <3> QED
      BY <2>2, <2>3, <3>1
  <2>5. c \in CacheOf(ChatCtx) /\ c.len = k /\ Lab!Context(c) = SubSeq(p, 1, k)
    BY <1>0, <2>2, <2>3, <2>4, RewoundHolds
  <2>6. k \in 0..Len(p) /\ Len(p) \in k..Len(p)
    BY <2>2, <2>3
  <2>7. t \in Seq(Tokens) /\ Len(t) = Len(p) - k
    BY <2>6, Suffixed
  <2>8. SubSeq(p, 1, k) \o t = p
    BY <2>6, PrefixJoined, WholePrefix
  <2> HIDE DEF t, c
  <2>9. t \in Seq(Row) /\ c.len + Len(t) <= ChatCtx
    BY <2>2, <2>3, <2>5, <2>7, Widened
  <2>10. chat' \in CacheOf(ChatCtx) /\ Lab!Context(chat') = p
    <3>0. /\ ChatCtx \in Nat /\ c \in CacheOf(ChatCtx) /\ t \in Seq(Row)
          /\ c.len + Len(t) <= ChatCtx /\ chat' = Lab!Forward(c, t)
      BY <2>1, <2>3, <2>5, <2>9
    <3>1. chat' \in CacheOf(ChatCtx) /\ Lab!Context(chat') = Lab!Context(c) \o t
      BY <3>0, ForwardHolds
    <3> QED
      BY <2>5, <2>8, <3>1
  <2>11. ChatInv'
    BY <2>1, <2>10 DEF ChatInv
  <2>12. TrapInv'
    BY <1>1, <2>1, <2>10 DEF TrapInv
  <2> QED
    BY <1>2, <2>11, <2>12 DEF LabInv
<1> QED
  BY <1>3, <1>4

LEMMA ChatNextStep == ASSUME LabInv, Lab!ChatNext PROVE LabInv'
<1>0. /\ ChatInv /\ ProbeInv /\ TrapInv
      /\ ids \in Seq(Tokens) /\ chat \in CacheOf(ChatCtx) /\ Lab!Context(chat) = ids
      /\ {stopping, bare} \subseteq BOOLEAN
  BY DEF LabInv, ChatInv, TrapInv
<1>1. worker = "chatting" /\ UNCHANGED <<probe, stopping, bare>>
  BY DEF Lab!ChatNext
<1>2. ProbeInv'
  BY <1>0, <1>1 DEF ProbeInv
<1>3. CASE worker' = "idle" /\ UNCHANGED <<chat, ids>> /\ logits' \in {<<>>, logits}
  <2>1. ChatInv'
    BY <1>0, <1>3 DEF ChatInv
  <2>2. TrapInv'
    BY <1>0, <1>1, <1>3 DEF TrapInv
  <2> QED
    BY <1>2, <2>1, <2>2 DEF LabInv
<1>4. CASE logits = <<>> /\ UNCHANGED <<chat, ids, logits>>
  <2>1. ChatInv'
    BY <1>0, <1>4 DEF ChatInv
  <2>2. bare
    BY <1>0, <1>1, <1>4 DEF TrapInv
  <2>3. TrapInv'
    BY <1>0, <1>1, <2>2 DEF TrapInv
  <2> QED
    BY <1>2, <2>1, <2>3 DEF LabInv
<1>5. ASSUME NEW t \in Tokens, ~(chat.len + 1 >= ChatCtx), chat' = Lab!Forward(chat, <<t>>),
             ids' = Append(ids, t), logits' = Lab!Context(chat'), worker' = worker
      PROVE  LabInv'
  <2>1. ChatCtx \in Nat /\ chat.len \in Nat
    BY <1>0, ProgramsAssumption DEF CacheOf
  <2>2. <<t>> \in Seq(Tokens) /\ <<t>> \in Seq(Row) /\ Len(<<t>>) = 1
    BY DEF Row
  <2>3. chat.len + Len(<<t>>) <= ChatCtx
    BY <1>5, <2>1, <2>2
  <2>4. chat' \in CacheOf(ChatCtx) /\ Lab!Context(chat') = ids \o <<t>>
    BY <1>0, <1>5, <2>1, <2>2, <2>3, ForwardHolds
  <2>5. ids \o <<t>> = Append(ids, t) /\ Append(ids, t) \in Seq(Tokens) /\ Append(ids, t) # <<>>
    <3>1. ids \in Seq(Tokens) /\ t \in Tokens
      BY <1>0
    <3> QED
      BY <3>1
  <2>6. ChatInv'
    BY <1>5, <2>4, <2>5 DEF ChatInv
  <2>7. logits' # <<>>
    BY <1>5, <2>4, <2>5
  <2>8. TrapInv'
    BY <1>0, <1>1, <1>5, <2>7 DEF TrapInv
  <2> QED
    BY <1>2, <2>6, <2>8 DEF LabInv
<1>6. CASE stopping = TRUE
  BY <1>3, <1>6 DEF Lab!ChatNext, Lab!Finish
<1>7. CASE stopping = FALSE /\ logits = <<>>
  BY <1>4, <1>7 DEF Lab!ChatNext, Lab!chatVars
<1>8. CASE stopping = FALSE /\ logits # <<>>
  BY <1>3, <1>5, <1>8 DEF Lab!ChatNext, Lab!Finish
<1> QED
  BY <1>0, <1>6, <1>7, <1>8

LEMMA InspectStep ==
    ASSUME LabInv, NEW p \in Seq(Tokens), Lab!Inspect(p) PROVE LabInv'
<1>0. ChatInv /\ ProbeInv /\ TrapInv
  BY DEF LabInv
<1> DEFINE cache == Lab!Forward(Lab!Empty(ProbeCtx), p)
<1>1. /\ Len(p) < ProbeCtx /\ UNCHANGED <<chat, ids, logits, worker, stopping, bare>>
      /\ probe' = [cache |-> cache, ids |-> p, logits |-> Lab!Context(cache)]
  BY DEF Lab!Inspect, Lab!chatVars
<1>2. ChatInv' /\ TrapInv'
  BY <1>0, <1>1 DEF ChatInv, TrapInv
<1> DEFINE c == Lab!Empty(ProbeCtx)
<1>3. /\ ProbeCtx \in Nat /\ c \in CacheOf(ProbeCtx) /\ c.len = 0 /\ Lab!Context(c) = <<>>
  BY EmptyHolds, ProgramsAssumption
<1> HIDE DEF c
<1>4. /\ ProbeCtx \in Nat /\ c \in CacheOf(ProbeCtx) /\ p \in Seq(Row)
      /\ c.len + Len(p) <= ProbeCtx /\ cache = Lab!Forward(c, p)
  BY <1>1, <1>3, Widened DEF c
<1> HIDE DEF cache
<1>5. cache \in CacheOf(ProbeCtx) /\ Lab!Context(cache) = Lab!Context(c) \o p
  BY <1>4, ForwardHolds
<1>6. Lab!Context(cache) = p
  <2>1. <<>> \o p = p
    OBVIOUS
  <2> QED
    BY <1>3, <1>5, <2>1
<1>7. probe'.cache = cache /\ probe'.ids = p /\ probe'.logits = p
  BY <1>1, <1>6
<1>8. ProbeInv'
  BY <1>5, <1>6, <1>7 DEF ProbeInv
<1> QED
  BY <1>2, <1>8 DEF LabInv

LEMMA ProbeStepStep == ASSUME LabInv, Lab!ProbeStep PROVE LabInv'
<1>0. /\ ChatInv /\ ProbeInv /\ TrapInv
      /\ probe.ids \in Seq(Tokens) /\ probe.cache \in CacheOf(ProbeCtx)
      /\ Lab!Context(probe.cache) = probe.ids
  BY DEF LabInv, ProbeInv
<1>1. probe.cache.len < ProbeCtx /\ UNCHANGED <<chat, ids, logits, worker, stopping, bare>>
  BY DEF Lab!ProbeStep, Lab!chatVars
<1>2. ChatInv' /\ TrapInv'
  BY <1>0, <1>1 DEF ChatInv, TrapInv
<1>3. PICK t \in Tokens :
         probe' = [cache |-> Lab!Forward(probe.cache, <<t>>), ids |-> Append(probe.ids, t),
                   logits |-> Lab!Context(Lab!Forward(probe.cache, <<t>>))]
  BY DEF Lab!ProbeStep
<1> DEFINE c == probe.cache  cache == Lab!Forward(c, <<t>>)
<1>4. <<t>> \in Seq(Row) /\ Len(<<t>>) = 1 /\ ProbeCtx \in Nat /\ c.len \in Nat
  BY <1>0, ProgramsAssumption DEF Row, CacheOf
<1>5. c \in CacheOf(ProbeCtx) /\ c.len + Len(<<t>>) <= ProbeCtx /\ Lab!Context(c) = probe.ids
  BY <1>0, <1>1, <1>4
<1>6. cache = Lab!Forward(c, <<t>>)
  OBVIOUS
<1> HIDE DEF c, cache
<1>7. cache \in CacheOf(ProbeCtx) /\ Lab!Context(cache) = Lab!Context(c) \o <<t>>
  BY <1>4, <1>5, <1>6, ForwardHolds
<1>8. probe.ids \o <<t>> = Append(probe.ids, t) /\ Append(probe.ids, t) \in Seq(Tokens)
  <2> DEFINE a == probe.ids
  <2>1. a \in Seq(Tokens) /\ t \in Tokens
    BY <1>0
  <2> HIDE DEF a
  <2>2. a \o <<t>> = Append(a, t) /\ Append(a, t) \in Seq(Tokens)
    BY <2>1
  <2> QED
    BY <2>2 DEF a
<1>9. probe'.cache = cache /\ probe'.ids = Append(probe.ids, t) /\ probe'.logits = Lab!Context(cache)
  BY <1>3 DEF c, cache
<1>10. ProbeInv'
  BY <1>5, <1>7, <1>8, <1>9 DEF ProbeInv
<1> QED
  BY <1>2, <1>10 DEF LabInv

LEMMA LabWipeStep == ASSUME LabInv, Lab!Wipe PROVE LabInv'
<1>1. /\ chat' = Lab!Empty(ChatCtx) /\ ids' = <<>> /\ logits' = <<>>
      /\ probe' = [cache |-> Lab!Empty(ProbeCtx), ids |-> <<>>, logits |-> <<>>]
      /\ bare' = (worker = "chatting") /\ worker # "trapped" /\ UNCHANGED <<worker, stopping>>
  BY DEF Lab!Wipe, Lab!WipedCache, Lab!Op
<1>2. <<>> \in Seq(Tokens) /\ ChatCtx \in Nat /\ ProbeCtx \in Nat
  BY ProgramsAssumption
<1>3. ChatInv'
  BY <1>1, <1>2, EmptyHolds DEF ChatInv
<1>4. probe'.cache = Lab!Empty(ProbeCtx) /\ probe'.ids = <<>> /\ probe'.logits = <<>>
  BY <1>1
<1>5. ProbeInv'
  BY <1>2, <1>4, EmptyHolds DEF ProbeInv
<1>6. stopping \in BOOLEAN
  <2>1. {stopping, bare} \subseteq BOOLEAN
    BY DEF LabInv, TrapInv
  <2> QED
    BY <2>1
<1>7. bare' \in BOOLEAN /\ (worker = "chatting" => bare')
  BY <1>1, Zenon
<1>8. {stopping', bare'} \subseteq BOOLEAN
  BY <1>1, <1>6, <1>7
<1>9. TrapInv'
  BY <1>1, <1>7, <1>8, Zenon DEF TrapInv
<1> QED
  BY <1>3, <1>5, <1>9 DEF LabInv

LEMMA LabSteps == ASSUME LabInv, Lab!Next PROVE LabInv'
<1>1. CASE Lab!Stop
  <2>1. worker = "chatting" /\ stopping' = TRUE /\ UNCHANGED <<chat, ids, logits, probe, worker, bare>>
    BY <1>1 DEF Lab!Stop, Lab!chatVars
  <2> QED
    BY <2>1 DEF LabInv, ChatInv, ProbeInv, TrapInv
<1>2. ASSUME NEW n \in 1..LabPrompt, NEW p \in [1..n -> Tokens \ {Eog}],
             Lab!ChatBegin(p) \/ Lab!Inspect(p)
      PROVE  LabInv'
  <2>1. p \in Seq(Tokens) /\ p # <<>>
    <3>1. n \in Nat \ {0} /\ p \in [1..n -> Tokens]
      OBVIOUS
    <3>2. p \in Seq(Tokens) /\ Len(p) = n
      BY <3>1
    <3> QED
      BY <3>1, <3>2
  <2> QED
    BY <1>2, <2>1, ChatBeginStep, InspectStep
<1> QED
  BY <1>1, <1>2, ChatNextStep, ProbeStepStep, LabWipeStep DEF Lab!Next, Lab!Prompts

LEMMA LabIs == LabInv => Lab!CachesAreOwn /\ Lab!TrapsOnlyWhenWiped
BY DEF LabInv, ChatInv, ProbeInv, TrapInv, Lab!CachesAreOwn, Lab!TrapsOnlyWhenWiped

-----------------------------------------------------------------------------

BrowserInv ==
    /\ program = "wasm" => WasmInv
    /\ program = "lab" => LabInv

LEMMA BrowserInvHolds == ProgramsSpec => []BrowserInv
<1>1. ProgramsInit => BrowserInv
  BY WasmInit, LabInit DEF ProgramsInit, BrowserInv
<1>2. BrowserInv /\ [ProgramsNext]_programVars => BrowserInv'
  <2> SUFFICES ASSUME BrowserInv, [ProgramsNext]_programVars PROVE BrowserInv'
    OBVIOUS
  <2>1. CASE WasmNext
    <3>1. program = "wasm" /\ program' = "wasm" /\ WasmSession!Next
      BY <2>1 DEF WasmNext
    <3>2. WasmInv'
      BY <3>1, WasmSteps DEF BrowserInv
    <3> QED
      BY <3>1, <3>2 DEF BrowserInv
  <2>2. CASE LabNext
    <3>1. program = "lab" /\ program' = "lab" /\ Lab!Next
      BY <2>2 DEF LabNext
    <3>2. LabInv'
      BY <3>1, LabSteps DEF BrowserInv
    <3> QED
      BY <3>1, <3>2 DEF BrowserInv
  <2>3. CASE UiNext \/ ReplNext \/ ReadNext \/ SecretNext
    <3>1. program' = program /\ program \in {"ui", "repl", "read", "secret"}
      BY <2>3 DEF UiNext, ReplNext, ReadNext, SecretNext
    <3> QED
      BY <3>1 DEF BrowserInv
  <2>4. CASE UNCHANGED programVars
    <3>1. UNCHANGED <<program, step, zeroing, cached, rows, prompt, next, fresh, limit, asked>>
      BY <2>4 DEF programVars, wasmVars
    <3>2. UNCHANGED <<chat, ids, logits, probe, worker, stopping, bare>>
      BY <2>4 DEF programVars, labVars
    <3>3. WasmInv' <=> WasmInv
      BY <3>1 DEF WasmInv, ResidentInv, ArmedInv
    <3>4. LabInv' <=> LabInv
      BY <3>2 DEF LabInv, ChatInv, ProbeInv, TrapInv
    <3> QED
      BY <3>1, <3>3, <3>4 DEF BrowserInv
  <2> QED
    BY <2>1, <2>2, <2>3, <2>4 DEF ProgramsNext
<1> QED
  BY <1>1, <1>2, PTL DEF ProgramsSpec

\* Whatever message comes between two awaits, the rows a session resumes from are those
\* of its own prompt and reply, both caches of the lab hold the tokens their ids name,
\* and the sampler sees no empty logits but those of a wiped chat (run, reusable_prefix;
\* chat_begin, chat_next, inspect, probe_step, wipe).
THEOREM BrowserCachesAreOwnHolds == ProgramsSpec => []BrowserCachesAreOwn
<1>1. BrowserInv => BrowserCachesAreOwn
  BY WasmIs, LabIs DEF BrowserInv, BrowserCachesAreOwn
<1> QED
  BY <1>1, BrowserInvHolds, PTL
=============================================================================
