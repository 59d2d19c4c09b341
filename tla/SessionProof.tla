---------------------------- MODULE SessionProof ----------------------------
(***************************************************************************)
(* Why reuse is invisible, for every set of prompts and tokens, context,   *)
(* batch and headroom.                                                     *)
(*                                                                         *)
(* The session's view is right in two cases: the backend never fails, or   *)
(* the running call took nothing over from the cache (Sound).  What the    *)
(* backend holds is followed through the call under that condition, and    *)
(* between calls it is what `cached` says only if the backend never fails. *)
(***************************************************************************)
EXTENDS Session, SequenceTheorems, FiniteSetTheorems, TLAPS

Sound == ~CanFail \/ reuse = 0

\* The running call and its counters.
CallInv ==
    /\ pc = "idle" => /\ prompt = <<>> /\ generated = <<>> /\ logits = <<>>
                      /\ reuse = 0
    /\ pc # "idle" => /\ prompt \in Prompts
                      /\ Len(prompt) + Headroom < NCtx
                      /\ maxNew <= NCtx - Len(prompt) - 1
                      /\ reuse < Len(prompt)
    /\ pc = "prefill" => /\ fed \in reuse..Len(prompt)
                         /\ comparable
                         /\ generated = <<>>
    /\ pc = "sample" => Len(generated) <= maxNew
    /\ pc = "forward" => Len(generated) \in 1..maxNew

\* What the backend holds, and what `cached` says of it.
CacheInv ==
    /\ (pc = "idle" /\ ~CanFail /\ comparable) => cached = resident
    /\ (pc = "prefill" /\ Sound) =>
          /\ resident = SubSeq(prompt, 1, fed)
          /\ fed > reuse => logits = resident
    /\ (pc = "sample" /\ Sound) =>
          /\ resident = prompt \o generated
          /\ logits = resident
          /\ comparable => cached = resident
    /\ (pc = "forward" /\ Sound) =>
          /\ Append(resident, generated[Len(generated)]) = prompt \o generated
          /\ logits = resident
          /\ Len(resident) + 1 = Len(prompt) + Len(generated)
          /\ comparable => cached = prompt \o generated

IInv == TypeOK /\ CallInv /\ CacheInv

-----------------------------------------------------------------------------
\* Facts about the operators.

LEMMA PromptType ==
    ASSUME NEW p \in Prompts
    PROVE  p \in Seq(Items) /\ Len(p) \in Nat \ {0}
<1>1. p \in Seq(Items) /\ Len(p) > 0
  BY ConstantsAssumption
<1> QED
  BY <1>1, LenProperties

LEMMA TokensAreItems ==
    ASSUME NEW s \in Seq(Tokens)
    PROVE  s \in Seq(Items)
BY SeqMonotonic DEF Items

LEMMA SubSeqType ==
    ASSUME NEW S, NEW s \in Seq(S), NEW m \in 1..(Len(s) + 1), NEW n \in 0..Len(s)
    PROVE  SubSeq(s, m, n) \in Seq(S)
<1>1. Len(s) \in Nat
  BY LenProperties
<1>2. \A i \in m..n : s[i] \in S
  BY <1>1, ElementOfSeq
<1> QED
  BY <1>1, <1>2, SubSeqProperties

\* A sequence that agrees with the beginning of another one is its prefix.
LEMMA PrefixIsSubSeq ==
    ASSUME NEW S, NEW s \in Seq(S), NEW p \in Seq(S), Len(s) <= Len(p),
           \A i \in 1..Len(s) : p[i] = s[i]
    PROVE  s = SubSeq(p, 1, Len(s))
<1>1. Len(s) \in Nat /\ Len(p) \in Nat
  BY LenProperties
<1>2. \A i \in 1..Len(s) : p[i] \in S
  BY <1>1, ElementOfSeq
<1> DEFINE q == SubSeq(p, 1, Len(s))
<1>3. q \in Seq(S)
  BY <1>1, <1>2, SubSeqProperties
<1>4. Len(q) = Len(s)
  BY <1>1, <1>2, SubSeqProperties
<1>5. \A i \in 1..Len(s) : q[i] = p[i]
  BY <1>1, <1>2, SubSeqProperties
<1> HIDE DEF q
<1>6. \A i \in 1..Len(s) : s[i] = q[i]
  BY <1>5
<1>7. s = q
  BY <1>3, <1>4, <1>6, SeqEqual
<1> QED
  BY <1>7 DEF q

\* The leading tokens of a prompt without embedding rows are all of it.
LEMMA LeadingIsAll ==
    ASSUME NEW p \in Seq(Items), NEW n \in 0..Len(p), IsLeading(p, n), ~HasEmbeds(p)
    PROVE  SubSeq(p, 1, n) = p
<1>1. Len(p) \in Nat
  BY LenProperties
<1>2. n = Len(p)
  BY <1>1 DEF IsLeading, HasEmbeds
<1> QED
  BY <1>2, SubSeqFull

LEMMA LeadingAreTokens ==
    ASSUME NEW p \in Seq(Items), NEW n \in 0..Len(p), IsLeading(p, n)
    PROVE  SubSeq(p, 1, n) \in Seq(Tokens)
<1>1. Len(p) \in Nat
  BY LenProperties
<1>2. \A i \in 1..n : p[i] \in Items /\ p[i] # Embed
  BY <1>1, ElementOfSeq DEF IsLeading
<1>3. \A i \in 1..n : p[i] \in Tokens
  BY <1>2 DEF Items
<1> QED
  BY <1>1, <1>3, SubSeqProperties

\* What is reused is all that is recorded, and the beginning of the prompt.
LEMMA ReuseIsPrefix ==
    ASSUME NEW p \in Prompts, TypeOK
    PROVE  /\ ReusablePrefix(p) \in 0..(Len(p) - 1)
           /\ ReusablePrefix(p) # 0 =>
                 /\ comparable
                 /\ ReusablePrefix(p) = Len(cached)
                 /\ cached = SubSeq(p, 1, Len(cached))
<1>1. p \in Seq(Items) /\ Len(p) \in Nat \ {0}
  BY PromptType
<1>2. cached \in Seq(Items) /\ Len(cached) \in Nat
  BY TokensAreItems, LenProperties DEF TypeOK
<1>3. CASE ReusablePrefix(p) = 0
  BY <1>1, <1>3
<1>4. CASE ReusablePrefix(p) # 0
  <2>1. /\ comparable /\ Len(cached) < Len(p)
        /\ \A i \in 1..Len(cached) : p[i] = cached[i]
        /\ ReusablePrefix(p) = Len(cached)
    BY <1>4 DEF ReusablePrefix
  <2>2. cached = SubSeq(p, 1, Len(cached))
    BY <1>1, <1>2, <2>1, PrefixIsSubSeq
  <2> QED
    BY <1>1, <1>2, <2>1, <2>2
<1> QED
  BY <1>3, <1>4

-----------------------------------------------------------------------------
\* The inductive invariant, one lemma per action.

LEMMA InitIInv == Init => IInv
<1> SUFFICES ASSUME Init PROVE IInv
  OBVIOUS
<1>1. /\ <<>> \in Seq(Items) /\ <<>> \in Seq(Tokens)
  BY EmptySeq
<1>2. TypeOK
  BY <1>1 DEF Init, TypeOK
<1>3. CallInv
  BY DEF Init, CallInv
<1>4. CacheInv
  BY DEF Init, CacheInv
<1> QED
  BY <1>2, <1>3, <1>4 DEF IInv

LEMMA AcceptIInv ==
    ASSUME IInv, NEW p \in Prompts, NEW max \in MaxTokens, Accept(p, max)
    PROVE  IInv'
<1>1. p \in Seq(Items) /\ Len(p) \in Nat \ {0}
  BY PromptType
<1>2. /\ ReusablePrefix(p) \in 0..(Len(p) - 1)
      /\ ReusablePrefix(p) # 0 =>
            /\ comparable
            /\ ReusablePrefix(p) = Len(cached)
            /\ cached = SubSeq(p, 1, Len(cached))
  BY ReuseIsPrefix DEF IInv
<1>3. /\ pc = "idle" /\ Len(p) + Headroom < NCtx
      /\ reuse' = ReusablePrefix(p) /\ fed' = reuse'
      /\ pc' = "prefill" /\ prompt' = p
      /\ generated' = <<>> /\ logits' = <<>>
  BY DEF Accept, IInv, CallInv
<1>4. /\ maxNew' \in Nat
      /\ maxNew' <= NCtx - Len(p) - 1
  <2>1. max \in Nat /\ NCtx \in Nat /\ Headroom \in Nat
    BY ConstantsAssumption
  <2>2. maxNew' = Budget(p, max)
    BY DEF Accept
  <2> QED
    BY <1>1, <1>3, <2>1, <2>2 DEF Budget, AtMost
<1>5. <<>> \in Seq(Items) /\ <<>> \in Seq(Tokens)
  BY EmptySeq
<1>6. CASE reuse' = 0
  <2>1. resident' = <<>> /\ cached' = <<>> /\ comparable' = TRUE
    BY <1>6 DEF Accept
  <2>2. SubSeq(p, 1, 0) = <<>>
    BY SubSeqEmpty
  <2>3. TypeOK'
    BY <1>1, <1>2, <1>3, <1>4, <1>5, <2>1 DEF IInv, TypeOK
  <2>4. CallInv'
    BY <1>1, <1>2, <1>3, <1>4, <2>1 DEF CallInv
  <2>5. CacheInv'
    BY <1>3, <1>6, <2>1, <2>2 DEF CacheInv
  <2> QED
    BY <2>3, <2>4, <2>5 DEF IInv
<1>7. CASE reuse' # 0
  <2>1. UNCHANGED <<resident, cached, comparable>>
    BY <1>7 DEF Accept
  <2>2. comparable /\ cached = SubSeq(p, 1, fed') /\ fed' = Len(cached)
    BY <1>2, <1>3, <1>7
  <2>3. TypeOK'
    BY <1>1, <1>2, <1>3, <1>4, <1>5, <2>1 DEF IInv, TypeOK
  <2>4. CallInv'
    <3>1. reuse' \in 0..(Len(p) - 1) /\ fed' \in reuse'..Len(p)
      BY <1>1, <1>2, <1>3
    <3>2. comparable'
      BY <2>1, <2>2
    <3> QED
      BY <1>3, <1>4, <3>1, <3>2 DEF CallInv
  <2>5. CacheInv'
    <3>1. Sound' => ~CanFail
      BY <1>7 DEF Sound
    <3>2. ~CanFail => cached = resident
      BY <1>3, <2>2 DEF IInv, CacheInv
    <3>3. ~(fed' > reuse')
      BY <1>1, <1>2, <1>3
    <3> QED
      BY <1>3, <2>1, <2>2, <3>1, <3>2, <3>3 DEF CacheInv
  <2> QED
    BY <2>3, <2>4, <2>5 DEF IInv
<1> QED
  BY <1>6, <1>7

LEMMA PrefillChunkIInv ==
    ASSUME IInv, NEW n \in 1..MaxBatch, PrefillChunk(n)
    PROVE  IInv'
<1> DEFINE chunk == SubSeq(prompt, fed + 1, fed + n)
<1>1. prompt \in Seq(Items) /\ Len(prompt) \in Nat \ {0}
  BY PromptType DEF IInv, CallInv, PrefillChunk
<1>2. n \in Nat \ {0} /\ fed \in Nat /\ reuse \in Nat
  BY ConstantsAssumption DEF IInv, TypeOK
<1>3. /\ fed + n <= Len(prompt) /\ fed' = fed + n
      /\ pc = "prefill" /\ resident' = resident \o chunk /\ logits' = resident'
      /\ UNCHANGED <<cached, comparable, pc, prompt, reuse, maxNew, generated>>
  BY DEF PrefillChunk, NextChunk
<1>4. chunk \in Seq(Items)
  BY <1>1, <1>2, <1>3, SubSeqType
<1>5. SubSeq(prompt, 1, fed) \o chunk = SubSeq(prompt, 1, fed + n)
  BY <1>1, <1>2, <1>3, ConcatAdjacentSubSeq
<1> HIDE DEF chunk
<1>6. TypeOK'
  <2>1. resident' \in Seq(Items)
    BY <1>3, <1>4, ConcatProperties DEF IInv, TypeOK
  <2> QED
    BY <1>2, <1>3, <2>1 DEF IInv, TypeOK
<1>7. CallInv'
  BY <1>1, <1>2, <1>3 DEF IInv, CallInv
<1>8. CacheInv'
  BY <1>3, <1>5 DEF IInv, CacheInv, Sound
<1> QED
  BY <1>6, <1>7, <1>8 DEF IInv

\* Returning early, the session's record is trusted no more if calls may fail.
LEMMA ReturnIInv ==
    ASSUME IInv, Returned, UNCHANGED <<cached, comparable>>, resident' \in Seq(Items),
           (~CanFail /\ comparable) => cached = resident'
    PROVE  IInv'
<1>1. <<>> \in Seq(Items) /\ <<>> \in Seq(Tokens)
  BY EmptySeq
<1>2. TypeOK'
  BY <1>1 DEF IInv, TypeOK, Returned
<1>3. CallInv'
  BY DEF CallInv, Returned
<1>4. CacheInv'
  BY DEF CacheInv, Returned
<1> QED
  BY <1>2, <1>3, <1>4 DEF IInv

\* A backend that does not fail accepts every chunk of a prompt.
LEMMA ChunkAccepted ==
    ASSUME IInv, pc = "prefill", Sound, NEW n \in 1..MaxBatch, fed + n <= Len(prompt)
    PROVE  Accepts(n)
<1>1. prompt \in Seq(Items) /\ Len(prompt) \in Nat \ {0}
  BY PromptType DEF IInv, CallInv
<1>2. n \in Nat \ {0} /\ fed \in Nat /\ Headroom \in Nat /\ NCtx \in Nat
  BY ConstantsAssumption DEF IInv, TypeOK
<1>3. resident = SubSeq(prompt, 1, fed) /\ Len(prompt) + Headroom < NCtx
  BY DEF IInv, CallInv, CacheInv
<1>4. Len(resident) = fed
  <2>1. \A i \in 1..fed : prompt[i] \in Items
    BY <1>1, <1>2, ElementOfSeq
  <2> QED
    BY <1>2, <1>3, <2>1, SubSeqProperties
<1> QED
  BY <1>1, <1>2, <1>3, <1>4 DEF Accepts

LEMMA PrefillFailsIInv ==
    ASSUME IInv, NEW n \in 1..MaxBatch, PrefillFails(n)
    PROVE  IInv'
<1> DEFINE chunk == SubSeq(prompt, fed + 1, fed + n)
<1>1. prompt \in Seq(Items) /\ Len(prompt) \in Nat \ {0}
  BY PromptType DEF IInv, CallInv, PrefillFails
<1>2. n \in Nat \ {0} /\ fed \in Nat
  BY ConstantsAssumption DEF IInv, TypeOK
<1>3. pc = "prefill" /\ fed + n <= Len(prompt) /\ (CanFail \/ ~Accepts(n))
  BY DEF PrefillFails, NextChunk
<1>4. CanFail
  BY <1>3, ChunkAccepted DEF Sound
<1>5. chunk \in Seq(Items)
  BY <1>1, <1>2, <1>3, SubSeqType
<1>6. resident' = resident \/ resident' = resident \o chunk
  BY DEF PrefillFails
<1>7. resident' \in Seq(Items)
  BY <1>5, <1>6, ConcatProperties DEF IInv, TypeOK
<1> QED
  BY <1>4, <1>7, ReturnIInv DEF PrefillFails

LEMMA RecordIInv ==
    ASSUME IInv, Record
    PROVE  IInv'
<1>1. prompt \in Seq(Items) /\ Len(prompt) \in Nat \ {0}
  BY PromptType DEF IInv, CallInv, Record
<1>2. /\ pc = "prefill" /\ pc' = "sample" /\ fed = Len(prompt)
      /\ comparable' = IF HasEmbeds(prompt) THEN FALSE ELSE comparable
      /\ UNCHANGED <<resident, prompt, reuse, fed, maxNew, generated, logits>>
  BY DEF Record
<1>3. /\ generated = <<>> /\ comparable /\ reuse < fed
      /\ prompt \o generated = prompt
  BY <1>1, <1>2, ConcatEmptySeq DEF IInv, CallInv
<1>4. PICK n \in 0..Len(prompt) :
          IsLeading(prompt, n) /\ cached' = SubSeq(prompt, 1, n)
  BY DEF Record
<1>5. cached' \in Seq(Tokens)
  BY <1>1, <1>4, LeadingAreTokens
<1>6. comparable' => cached' = prompt
  BY <1>1, <1>2, <1>4, LeadingIsAll
<1>7. TypeOK'
  BY <1>2, <1>5 DEF IInv, TypeOK
<1>8. CallInv'
  <2>1. Len(generated) = 0 /\ maxNew \in Nat
    BY <1>3, EmptySeq DEF IInv, TypeOK
  <2> QED
    BY <1>2, <2>1 DEF IInv, CallInv
<1>9. CacheInv'
  <2>1. Sound => resident = prompt /\ logits = resident
    BY <1>1, <1>2, <1>3, SubSeqFull DEF IInv, CacheInv
  <2> QED
    BY <1>2, <1>3, <1>6, <2>1 DEF CacheInv, Sound
<1> QED
  BY <1>7, <1>8, <1>9 DEF IInv

LEMMA SampleIInv ==
    ASSUME IInv, NEW t \in Tokens, Sample(t)
    PROVE  IInv'
<1>1. prompt \in Seq(Items) /\ Len(prompt) \in Nat \ {0}
  BY PromptType DEF IInv, CallInv, Sample
<1>2. /\ generated \in Seq(Tokens) /\ generated \in Seq(Items)
      /\ Len(generated) \in Nat /\ t \in Items
  BY TokensAreItems, LenProperties DEF IInv, TypeOK, Items
<1>3. /\ pc = "sample" /\ pc' = "forward" /\ Len(generated) < maxNew
      /\ generated' = Append(generated, t)
      /\ cached' = IF comparable THEN Append(cached, t) ELSE cached
      /\ UNCHANGED <<resident, comparable, prompt, reuse, fed, maxNew, logits>>
  BY DEF Sample
<1>4. /\ generated' \in Seq(Tokens) /\ Len(generated') = Len(generated) + 1
      /\ generated'[Len(generated')] = t
  BY <1>2, <1>3, AppendProperties
<1>5. TypeOK'
  <2>1. cached' \in Seq(Tokens)
    BY <1>3, AppendProperties DEF IInv, TypeOK
  <2> QED
    BY <1>3, <1>4, <2>1 DEF IInv, TypeOK
<1>6. CallInv'
  BY <1>2, <1>3, <1>4 DEF IInv, CallInv, TypeOK
<1>7. CacheInv'
  <2>1. SUFFICES ASSUME Sound
                 PROVE  /\ Append(resident, t) = prompt \o generated'
                        /\ logits = resident
                        /\ Len(resident) + 1 = Len(prompt) + Len(generated')
                        /\ comparable => cached' = prompt \o generated'
    BY <1>3, <1>4 DEF CacheInv, Sound
  <2>2. /\ resident = prompt \o generated /\ logits = resident
        /\ comparable => cached = resident
    BY <1>3, <2>1 DEF IInv, CacheInv
  <2>3. Append(resident, t) = prompt \o generated'
    <3>1. prompt \o generated \in Seq(Items) /\ <<t>> \in Seq(Items)
      BY <1>1, <1>2, ConcatProperties
    <3>2. Append(prompt \o generated, t) = (prompt \o generated) \o <<t>>
      BY <1>2, <3>1, AppendIsConcat
    <3>3. Append(generated, t) = generated \o <<t>>
      BY <1>2, AppendIsConcat
    <3>4. (prompt \o generated) \o <<t>> = prompt \o (generated \o <<t>>)
      BY <1>1, <1>2, <3>1, ConcatAssociative
    <3> QED
      BY <1>3, <2>2, <3>2, <3>3, <3>4
  <2>4. Len(resident) = Len(prompt) + Len(generated)
    BY <1>1, <1>2, <2>2, ConcatProperties
  <2>5. Len(resident) + 1 = Len(prompt) + Len(generated')
    BY <1>1, <1>2, <1>4, <2>4
  <2>6. comparable => cached' = prompt \o generated'
    BY <1>3, <2>2, <2>3
  <2> QED
    BY <2>2, <2>3, <2>5, <2>6
<1> QED
  BY <1>5, <1>6, <1>7 DEF IInv

LEMMA FinishIInv ==
    ASSUME IInv, Finish
    PROVE  IInv'
<1>1. (~CanFail /\ comparable) => cached = resident
  BY DEF IInv, CacheInv, Finish, Sound
<1>2. resident' = resident /\ resident \in Seq(Items)
  BY DEF IInv, TypeOK, Finish
<1> QED
  BY <1>1, <1>2, ReturnIInv DEF Finish

\* The token in hand is one of the alphabet.
LEMMA LastGenerated ==
    ASSUME IInv, pc = "forward"
    PROVE  generated[Len(generated)] \in Tokens
<1>1. generated \in Seq(Tokens) /\ Len(generated) \in 1..maxNew
  BY DEF IInv, TypeOK, CallInv
<1>2. Len(generated) \in 1..Len(generated)
  BY <1>1
<1> QED
  BY <1>1, <1>2, ElementOfSeq

LEMMA ForwardIInv ==
    ASSUME IInv, Forward
    PROVE  IInv'
<1> DEFINE last == generated[Len(generated)]
<1>1. last \in Items
  BY LastGenerated DEF Forward, Items
<1>2. /\ pc = "forward" /\ pc' = "sample" /\ resident' = Append(resident, last)
      /\ logits' = resident'
      /\ UNCHANGED <<cached, comparable, prompt, reuse, fed, maxNew, generated>>
  BY DEF Forward
<1>3. CacheInv'
  BY <1>2 DEF IInv, CacheInv, Sound
<1> HIDE DEF last
<1>4. TypeOK'
  <2>1. resident' \in Seq(Items)
    BY <1>1, <1>2, AppendProperties DEF IInv, TypeOK
  <2> QED
    BY <1>2, <2>1 DEF IInv, TypeOK
<1>5. CallInv'
  BY <1>2 DEF IInv, CallInv, TypeOK
<1> QED
  BY <1>3, <1>4, <1>5 DEF IInv

\* A backend that does not fail accepts every sampled token.
LEMMA TokenAccepted ==
    ASSUME IInv, pc = "forward", Sound
    PROVE  Accepts(1)
<1>1. prompt \in Prompts /\ Len(prompt) \in Nat
  BY PromptType DEF IInv, CallInv
<1>2. /\ Len(resident) + 1 = Len(prompt) + Len(generated)
      /\ Len(generated) \in 1..maxNew /\ maxNew <= NCtx - Len(prompt) - 1
      /\ maxNew \in Nat
  BY DEF IInv, CacheInv, CallInv, TypeOK
<1>3. NCtx \in Nat
  BY ConstantsAssumption
<1> QED
  BY <1>1, <1>2, <1>3 DEF Accepts

LEMMA ForwardFailsIInv ==
    ASSUME IInv, ForwardFails
    PROVE  IInv'
<1> DEFINE last == generated[Len(generated)]
<1>1. last \in Items
  BY LastGenerated DEF ForwardFails, Items
<1>2. CanFail
  BY TokenAccepted DEF ForwardFails, Sound
<1>3. resident' = resident \/ resident' = Append(resident, last)
  BY DEF ForwardFails
<1>4. resident' \in Seq(Items)
  BY <1>1, <1>3, AppendProperties DEF IInv, TypeOK
<1> QED
  BY <1>2, <1>4, ReturnIInv DEF ForwardFails

LEMMA WipeIInv ==
    ASSUME IInv, Wipe
    PROVE  IInv'
<1>1. <<>> \in Seq(Items) /\ <<>> \in Seq(Tokens)
  BY EmptySeq
<1>2. TypeOK'
  BY <1>1 DEF IInv, TypeOK, Wipe
<1>3. CallInv'
  BY DEF IInv, CallInv, Wipe
<1>4. CacheInv'
  BY DEF CacheInv, Wipe
<1> QED
  BY <1>2, <1>3, <1>4 DEF IInv

LEMMA NextIInv == IInv /\ [Next]_vars => IInv'
<1> SUFFICES ASSUME IInv, [Next]_vars PROVE IInv'
  OBVIOUS
<1>1. CASE \E p \in Prompts, max \in MaxTokens : Accept(p, max)
  BY <1>1, AcceptIInv
<1>2. CASE \E n \in 1..MaxBatch : PrefillChunk(n) \/ PrefillFails(n)
  BY <1>2, PrefillChunkIInv, PrefillFailsIInv
<1>3. CASE Record
  BY <1>3, RecordIInv
<1>4. CASE \E t \in Tokens : Sample(t)
  BY <1>4, SampleIInv
<1>5. CASE Finish
  BY <1>5, FinishIInv
<1>6. CASE Forward
  BY <1>6, ForwardIInv
<1>7. CASE ForwardFails
  BY <1>7, ForwardFailsIInv
<1>8. CASE Wipe
  BY <1>8, WipeIInv
<1>9. CASE UNCHANGED vars
  BY <1>9 DEF vars, IInv, TypeOK, CallInv, CacheInv, Sound
<1> QED
  BY <1>1, <1>2, <1>3, <1>4, <1>5, <1>6, <1>7, <1>8, <1>9 DEF Next

LEMMA IInvHolds == Spec => []IInv
<1>1. Init => IInv
  BY InitIInv
<1>2. IInv /\ [Next]_vars => IInv'
  BY NextIInv
<1> QED
  BY <1>1, <1>2, PTL DEF Spec

-----------------------------------------------------------------------------
\* Prefill always has a next chunk.

\* A set of numbers up to m has a largest element: the one whose set of larger
\* elements is smallest, strict inclusion being well founded on finite sets.
LEMMA LargestNatural ==
    ASSUME NEW m \in Nat, NEW T, T \subseteq 1..m, T # {}
    PROVE  \E x \in T : \A y \in T : y <= x
<1> DEFINE Above(x) == {y \in T : x <= y}
           Sets == {Above(x) : x \in T}
<1>1. \A y \in T : y \in Int
  <2> HIDE DEF Above, Sets
  <2> QED
    OBVIOUS
<1>2. IsFiniteSet(1..m)
  BY FS_Interval
<1>3. IsWellFoundedOn(StrictSubsetOrdering(1..m), SUBSET (1..m))
  BY <1>2, FS_StrictSubsetOrderingWellFounded, FS_FiniteSubsetsOfFinite
<1>4. Sets \subseteq SUBSET (1..m) /\ Sets # {}
  OBVIOUS
<1>5. PICK least \in Sets :
          \A other \in Sets : ~(<<other, least>> \in StrictSubsetOrdering(1..m))
  <2> HIDE DEF Sets
  <2> QED
    BY <1>3, <1>4, WFMin
<1>6. PICK x \in T : least = Above(x)
  OBVIOUS
<1>7. ASSUME NEW y \in T, x < y
      PROVE  FALSE
  <2>1. Above(y) \in Sets
    OBVIOUS
  <2>2. x \in Above(x) /\ x \notin Above(y)
    BY <1>1, <1>7
  <2>3. Above(y) \subseteq Above(x)
    <3> SUFFICES ASSUME NEW z \in T, y <= z PROVE x <= z
      OBVIOUS
    <3>1. x \in Int /\ y \in Int /\ z \in Int
      BY <1>1
    <3> QED
      BY <1>7, <3>1
  <2>4. <<Above(y), Above(x)>> \in StrictSubsetOrdering(1..m)
    BY <1>4, <2>1, <2>2, <2>3 DEF StrictSubsetOrdering
  <2> QED
    BY <1>5, <1>6, <2>1, <2>4
<1>8. \A y \in T : y <= x
  BY <1>1, <1>7
<1> QED
  BY <1>8

LEMMA ChunkExists ==
    ASSUME IInv, pc = "prefill", fed < Len(prompt)
    PROVE  \E n \in 1..MaxBatch : NextChunk(n)
<1> DEFINE Kind(i) == prompt[i] = Embed
           G == {n \in 1..MaxBatch :
                    /\ fed + n <= Len(prompt)
                    /\ \A i \in (fed + 1)..(fed + n) : Kind(i) = Kind(fed + 1)}
<1>1. prompt \in Prompts /\ Len(prompt) \in Nat /\ fed \in Nat
  BY PromptType DEF IInv, CallInv, TypeOK
<1>2. SpansFit(prompt) /\ MaxBatch \in Nat \ {0}
  BY <1>1, ConstantsAssumption
<1>3. 1 \in G
  BY <1>1, <1>2
<1>4. PICK m \in G : \A n \in G : n <= m
  BY <1>2, <1>3, LargestNatural
<1>5. (fed + m < Len(prompt) /\ (m < MaxBatch \/ Kind(fed + 1))) =>
          Kind(fed + m + 1) # Kind(fed + 1)
  <2> SUFFICES ASSUME fed + m < Len(prompt), m < MaxBatch \/ Kind(fed + 1),
                      Kind(fed + m + 1) = Kind(fed + 1)
               PROVE  FALSE
    OBVIOUS
  <2>1. \A i \in (fed + 1)..(fed + m + 1) : Kind(i) = Kind(fed + 1)
    <3> SUFFICES ASSUME NEW i \in (fed + 1)..(fed + m + 1)
                 PROVE  Kind(i) = Kind(fed + 1)
      OBVIOUS
    <3>1. i \in (fed + 1)..(fed + m) \/ i = fed + m + 1
      BY <1>1, <1>2
    <3> QED
      BY <1>4, <3>1
  <2>2. CASE m < MaxBatch
    <3>1. m + 1 \in G
      BY <1>1, <1>2, <2>1, <2>2
    <3> QED
      BY <1>2, <1>4, <3>1
  <2>3. CASE ~(m < MaxBatch)
    <3>1. m = MaxBatch /\ \A k \in (fed + 1)..(fed + m + 1) : prompt[k] = Embed
      BY <1>2, <2>1, <2>3
    <3>2. fed + 1 \in 1..Len(prompt) /\ fed + m + 1 \in 1..Len(prompt)
      BY <1>1, <1>2
    <3>3. (fed + m + 1) - (fed + 1) < MaxBatch
      BY <1>1, <1>2, <3>1, <3>2 DEF SpansFit
    <3> QED
      BY <1>1, <1>2, <3>1, <3>3
  <2> QED
    BY <2>2, <2>3
<1> QED
  BY <1>4, <1>5 DEF NextChunk

-----------------------------------------------------------------------------
\* Ranges of the session's fields and of the backend's contents, whatever
\* fails; in particular `cached` never records an embedding row.
THEOREM TypeCorrect == Spec => []TypeOK
<1>1. IInv => TypeOK
  BY DEF IInv
<1> QED
  BY <1>1, IInvHolds, PTL

\* Over a backend that does not fail, the session's record of the cache is
\* true between calls, for every prompt set, context, batch and headroom.
THEOREM CachedIsResidentHolds == ~CanFail => (Spec => []CachedIsResident)
<1> SUFFICES ASSUME ~CanFail PROVE Spec => []CachedIsResident
  OBVIOUS
<1>1. IInv => CachedIsResident
  BY DEF IInv, CacheInv, CachedIsResident
<1> QED
  BY <1>1, IInvHolds, PTL

\* Over such a backend a prompt is only ever read on top of its own beginning:
\* reusable_prefix never takes over anything else.
THEOREM PrefillOnPromptHolds == ~CanFail => (Spec => []PrefillOnPrompt)
<1> SUFFICES ASSUME ~CanFail PROVE Spec => []PrefillOnPrompt
  OBVIOUS
<1>1. IInv => PrefillOnPrompt
  BY DEF IInv, CacheInv, Sound, PrefillOnPrompt
<1> QED
  BY <1>1, IInvHolds, PTL

\* Over such a backend every token is drawn from the call's own context.
THEOREM SamplesOwnContextHolds == ~CanFail => (Spec => []SamplesOwnContext)
<1> SUFFICES ASSUME ~CanFail PROVE Spec => []SamplesOwnContext
  OBVIOUS
<1>1. IInv => SamplesOwnContext
  <2> SUFFICES ASSUME IInv, pc = "sample"
               PROVE  /\ logits = prompt \o generated
                      /\ logits = resident
                      /\ logits # <<>>
    BY DEF SamplesOwnContext
  <2>1. resident = prompt \o generated /\ logits = resident
    BY DEF IInv, CacheInv, Sound
  <2>2. /\ prompt \in Seq(Items) /\ Len(prompt) \in Nat \ {0}
        /\ generated \in Seq(Items) /\ Len(generated) \in Nat
    BY PromptType, TokensAreItems, LenProperties DEF IInv, CallInv, TypeOK
  <2>3. Len(logits) = Len(prompt) + Len(generated)
    BY <2>1, <2>2, ConcatProperties
  <2>4. Len(logits) # 0
    BY <2>2, <2>3
  <2> QED
    BY <2>1, <2>4, EmptySeq
<1> QED
  BY <1>1, IInvHolds, PTL

\* Whatever failed before, a call that takes nothing over is exact.
THEOREM FreshTurnExactHolds == Spec => []FreshTurnExact
<1>1. IInv => FreshTurnExact
  BY DEF IInv, CacheInv, Sound, FreshTurnExact
<1> QED
  BY <1>1, IInvHolds, PTL

\* Over a backend that only refuses what its contract lets it refuse, no
\* forward call of a session is refused, and prefill always has a next chunk.
THEOREM CallsFitHolds == ~CanFail => (Spec => []CallsFit)
<1> SUFFICES ASSUME ~CanFail PROVE Spec => []CallsFit
  OBVIOUS
<1>1. IInv => CallsFit
  <2> SUFFICES ASSUME IInv PROVE CallsFit
    OBVIOUS
  <2>1. ASSUME pc = "prefill", fed < Len(prompt)
        PROVE  \E n \in 1..MaxBatch : NextChunk(n) /\ Accepts(n)
    <3>1. PICK n \in 1..MaxBatch : NextChunk(n)
      BY <2>1, ChunkExists
    <3>2. Accepts(n)
      BY <2>1, <3>1, ChunkAccepted DEF NextChunk, Sound
    <3> QED
      BY <3>1, <3>2
  <2>2. pc = "forward" => Accepts(1)
    BY TokenAccepted DEF Sound
  <2> QED
    BY <2>1, <2>2 DEF CallsFit
<1> QED
  BY <1>1, IInvHolds, PTL

-----------------------------------------------------------------------------
\* Every step of a session is a step of the conversation it stands for, or
\* leaves the conversation as it is.

LEMMA InitSimulates == Init => Abstract!Init
BY DEF Init, Abstract!Init

LEMMA AcceptSimulates ==
    ASSUME IInv, NEW p \in Prompts, NEW max \in MaxTokens, Accept(p, max)
    PROVE  Abstract!Ask(p)
BY DEF Accept, Abstract!Ask

LEMMA RecordSimulates ==
    ASSUME IInv, ~CanFail, Record
    PROVE  Abstract!Answer
<1>1. prompt \in Seq(Items) /\ Len(prompt) \in Nat \ {0}
  BY PromptType DEF IInv, CallInv, Record
<1>2. /\ pc = "prefill" /\ pc' = "sample" /\ fed = Len(prompt)
      /\ UNCHANGED <<prompt, logits>>
  BY DEF Record
<1>3. fed > reuse
  BY <1>1, <1>2 DEF IInv, CallInv, TypeOK
<1>4. logits = SubSeq(prompt, 1, fed)
  BY <1>2, <1>3 DEF IInv, CacheInv, Sound
<1>5. logits = prompt
  BY <1>1, <1>2, <1>4, SubSeqFull
<1> QED
  BY <1>2, <1>5 DEF Abstract!Answer

LEMMA ForwardSimulates ==
    ASSUME IInv, IInv', ~CanFail, Forward
    PROVE  \E t \in Tokens : Abstract!Emit(t)
<1> DEFINE last == generated[Len(generated)]
<1>1. last \in Tokens
  BY LastGenerated DEF Forward
<1>2. /\ pc = "forward" /\ pc' = "sample" /\ prompt' = prompt
      /\ logits' = Append(resident, last)
  BY DEF Forward
<1>3. logits = resident
  BY <1>2 DEF IInv, CacheInv, Sound
<1> HIDE DEF last
<1>4. Abstract!Emit(last)
  BY <1>2, <1>3 DEF Abstract!Emit
<1> QED
  BY <1>1, <1>4

LEMMA ReturnSimulates ==
    ASSUME pc # "idle", Returned
    PROVE  Abstract!End
BY DEF Returned, Abstract!End

LEMMA NextSimulates ==
    ASSUME IInv, IInv', ~CanFail, [Next]_vars
    PROVE  [Abstract!Next]_(Abstract!vars)
<1>1. ASSUME NEW p \in Prompts, NEW max \in MaxTokens, Accept(p, max)
      PROVE  Abstract!Next
  BY <1>1, AcceptSimulates DEF Abstract!Next
<1>2. ASSUME NEW n \in 1..MaxBatch, PrefillChunk(n)
      PROVE  UNCHANGED Abstract!vars
  BY <1>2 DEF PrefillChunk, Abstract!vars
<1>3. ASSUME NEW n \in 1..MaxBatch, PrefillFails(n)
      PROVE  Abstract!Next
  BY <1>3, ReturnSimulates DEF PrefillFails, Abstract!Next
<1>4. CASE Record
  BY <1>4, RecordSimulates DEF Abstract!Next
<1>5. ASSUME NEW t \in Tokens, Sample(t)
      PROVE  UNCHANGED Abstract!vars
  BY <1>5 DEF Sample, Abstract!vars
<1>6. CASE Finish
  BY <1>6, ReturnSimulates DEF Finish, Abstract!Next
<1>7. CASE Forward
  BY <1>7, ForwardSimulates DEF Abstract!Next
<1>8. CASE ForwardFails
  BY <1>8, ReturnSimulates DEF ForwardFails, Abstract!Next
<1>9. CASE Wipe
  BY <1>9 DEF Wipe, Abstract!vars
<1>10. CASE UNCHANGED vars
  BY <1>10 DEF vars, Abstract!vars
<1> QED
  BY <1>1, <1>2, <1>3, <1>4, <1>5, <1>6, <1>7, <1>8, <1>9, <1>10 DEF Next

\* Over a backend that does not fail, a session implements the conversation
\* without a cache: reuse changes nothing but the work done.
THEOREM Implements == ~CanFail => (Spec => ImplementsConversation)
<1> SUFFICES ASSUME ~CanFail PROVE Spec => Abstract!Spec
  BY DEF ImplementsConversation
<1>1. Init => Abstract!Init
  BY InitSimulates
<1>2. IInv /\ IInv' /\ [Next]_vars => [Abstract!Next]_(Abstract!vars)
  BY NextSimulates
<1> QED
  BY <1>1, <1>2, IInvHolds, PTL DEF Spec, Abstract!Spec

=============================================================================
