------------------------------- MODULE Secret -------------------------------
(***************************************************************************)
(* Memory that leaves nothing behind (crates/secret/src/lib.rs): one       *)
(* SecretVec, byte by byte, and one block of the zeroing heap.  Freed      *)
(* memory goes back to the allocator with whatever is still in it.         *)
(***************************************************************************)
EXTENDS Integers, Sequences, SequencesExt, FiniteSetsExt

CONSTANTS
    Page,     \* bytes of a page
    Size,     \* size_of::<T>()
    MinCap,   \* the smallest capacity: 1024
    MaxLen,   \* bound: elements of a vector
    Values    \* what elements and heap blocks hold; 0 is zeroed memory

VARIABLES
    cap, len,
    bytes,    \* the allocation: position -> value
    locked,   \* "no", "yes", or "failed": mlock is best effort
    wiped,    \* aux: nothing was written since a wipe
    wants,    \* the elements a vector would have
    armed, heap, \* ARMED; a heap block's value, 0 when there is none
    leaked    \* values that were in memory when it was freed

vec == <<cap, len, bytes, locked, wiped, wants>>
vars == <<vec, armed, heap, leaked>>

Init == /\ cap = 0 /\ len = 0 /\ bytes = <<>> /\ locked = "no" /\ wiped = FALSE /\ wants = <<>>
        /\ armed = FALSE /\ heap = 0 /\ leaked = {}

-----------------------------------------------------------------------------

\* next_power_of_two: the divisors of a power of two are even, but for 1.
IsPowerOfTwo(p) == \A d \in 2..p : p % d = 0 => d % 2 = 0
PowerOfTwo(n) == Min({p \in n..(2 * n + 1) : p > 0 /\ IsPowerOfTwo(p)})

Layout(c) == ((c * Size + Page - 1) \div Page) * Page

Zero(mem, n) == [i \in DOMAIN mem |-> IF i <= n THEN 0 ELSE mem[i]]

\* What is left of an allocation of capacity c once `release` has zeroed and freed it.
Held(mem) == {mem[i] : i \in DOMAIN mem} \ {0}
Released(c, mem) == IF c = 0 THEN {} ELSE Held(Zero(mem, Layout(c)))

Written(mem, at, s) ==
    [i \in DOMAIN mem |-> LET e == (i - 1) \div Size
                          IN IF e \in at..(at + Len(s) - 1) THEN s[e - at + 1] ELSE mem[i]]

\* grow: alloc gives bytes that hold anything; here nothing, so that what is found
\* came from a secret.
Grown(need) == IF need <= cap THEN cap ELSE Max({PowerOfTwo(need), MinCap})
Bytes(need) ==
    IF need <= cap THEN bytes
    ELSE [i \in 1..Layout(Grown(need)) |-> IF i <= len * Size THEN bytes[i] ELSE 0]

Grow(need) ==
    /\ cap' = Grown(need)
    /\ IF need <= cap THEN UNCHANGED <<locked, leaked>>
       ELSE /\ locked' \in {"yes", "failed"}
            /\ leaked' = leaked \cup Released(cap, bytes)

ExtendFromSlice(s) ==
    /\ len + Len(s) <= MaxLen
    /\ Grow(len + Len(s))
    /\ bytes' = Written(Bytes(len + Len(s)), len, s)
    /\ len' = len + Len(s) /\ wants' = wants \o s /\ wiped' = FALSE
    /\ UNCHANGED <<armed, heap>>

\* Cutting back leaves the tail where it is.
Resize(n, v) ==
    /\ Grow(n)
    /\ bytes' = Written(Bytes(n), len, [i \in 1..Max({0, n - len}) |-> v])
    /\ len' = n /\ wiped' = FALSE
    /\ wants' = IF n <= len THEN SubSeq(wants, 1, n) ELSE wants \o [i \in 1..(n - len) |-> v]
    /\ UNCHANGED <<armed, heap>>

\* A write through DerefMut.
Set(i, v) ==
    /\ i < len
    /\ bytes' = Written(bytes, i, <<v>>) /\ wants' = [wants EXCEPT ![i + 1] = v]
    /\ wiped' = FALSE
    /\ UNCHANGED <<cap, len, locked, armed, heap, leaked>>

WipedBytesLive == Zero(bytes, len * Size)
WipedBytes == IF cap > 0 THEN Zero(bytes, Layout(cap)) ELSE bytes

Wipe == /\ bytes' = WipedBytes /\ len' = 0 /\ wants' = <<>> /\ wiped' = TRUE
        /\ UNCHANGED <<cap, locked, armed, heap, leaked>>

\* wipe, then extend: what it grows out of is clean.
Replace(s) ==
    /\ cap' = Grown(Len(s))
    /\ LET room == IF Len(s) <= cap THEN WipedBytes ELSE [i \in 1..Layout(Grown(Len(s))) |-> 0]
       IN bytes' = Written(room, 0, s)
    /\ len' = Len(s) /\ wants' = s /\ wiped' = FALSE
    /\ IF Len(s) <= cap THEN UNCHANGED <<locked, leaked>>
       ELSE /\ locked' \in {"yes", "failed"}
            /\ leaked' = leaked \cup Released(cap, WipedBytes)
    /\ UNCHANGED <<armed, heap>>

Drop == /\ leaked' = leaked \cup Released(cap, bytes)
        /\ cap' = 0 /\ len' = 0 /\ bytes' = <<>> /\ wants' = <<>> /\ locked' = "no" /\ wiped' = FALSE
        /\ UNCHANGED <<armed, heap>>

-----------------------------------------------------------------------------
(* ZeroizingAlloc.                                                         *)

Arm == ~armed /\ armed' = TRUE /\ UNCHANGED <<vec, heap, leaked>>

\* What loading put there before is no secret.
Alloc(v) == /\ armed /\ heap = 0 /\ heap' = v
            /\ UNCHANGED <<vec, armed, leaked>>

Dealloc(old) == leaked' = leaked \cup (IF armed THEN {} ELSE {old})
Free == heap # 0 /\ Dealloc(heap) /\ heap' = 0 /\ UNCHANGED <<vec, armed>>

\* The trait's default realloc: alloc, copy, and the old block through dealloc.
Realloc(v) == heap # 0 /\ Dealloc(heap) /\ heap' = v /\ UNCHANGED <<vec, armed>>

Slices == {<<v>> : v \in Values} \cup {<<v, v>> : v \in Values}

Next ==
    \/ \E s \in Slices : ExtendFromSlice(s) \/ Replace(s)
    \/ \E n \in 0..MaxLen, v \in Values : Resize(n, v)
    \/ \E i \in 0..(MaxLen - 1), v \in Values : Set(i, v)
    \/ Wipe \/ Drop \/ Arm \/ Free
    \/ \E v \in Values : Alloc(v) \/ Realloc(v)

-----------------------------------------------------------------------------
(* Properties.                                                             *)

\* Whatever the vector grew out of, cut back or dropped, no block is freed with a secret
\* in it, and a wipe leaves no tail of what was longer.
NothingLeftBehind == leaked = {} /\ (wiped => Held(bytes) = {})

\* A vector holds what was put into it, through every growth, in memory that is its own.
HoldsWhatWasPut ==
    /\ len = Len(wants) /\ len <= cap /\ Layout(cap) = Len(bytes)
    /\ \A i \in 1..len, b \in 1..Size : bytes[(i - 1) * Size + b] = wants[i]
=============================================================================
