------------------------------ MODULE Session ------------------------------
(***************************************************************************)
(* llmoxide::Session over a Backend: one conversation, resident in the     *)
(* backend's cache between turns so that a prompt which only extends it is *)
(* not computed again.                                                     *)
(*                                                                         *)
(* The backend is its contract (backend.rs): forward appends to what it    *)
(* holds and returns logits for the last position, wipe is the only way    *)
(* back.  Its contents are `resident`, one item per position, a token id   *)
(* or Embed for a row that came from an encoded image.  The session cannot *)
(* see `resident`; it keeps `cached`, and reuses on the strength of it.    *)
(*                                                                         *)
(* A prompt is the sequence of its positions; its segments are the maximal *)
(* runs of tokens and of embedding rows, which the chat dialects always    *)
(* put tokens between.  The text side of a turn (decoding, stop strings,   *)
(* parsing of the reply) appears as the choice of how sampling ends.       *)
(***************************************************************************)
EXTENDS Integers, Sequences

CONSTANTS
    Tokens,     \* token ids
    Eog,        \* the ids that end a generation
    Embed,      \* a position filled from an embedding row
    Prompts,    \* the prompts a request may build into
    NCtx,       \* Info::context_len
    Headroom,   \* room a prompt must leave to be accepted (8 in the code)
    MaxBatch,   \* Info::max_batch
    MaxTokens,  \* values of Request::max_tokens
    CanFail     \* whether a forward call may return Err

Items == Tokens \union {Embed}

\* An image that encodes to more positions than max_batch is refused by the
\* encoder before a prompt exists.
SpansFit(p) ==
    \A i, j \in 1..Len(p) :
        (i <= j /\ \A k \in i..j : p[k] = Embed) => j - i < MaxBatch

ASSUME ConstantsAssumption ==
    /\ Eog \subseteq Tokens
    /\ Embed \notin Tokens
    /\ Prompts \subseteq Seq(Items)
    /\ \A p \in Prompts : Len(p) > 0 /\ SpansFit(p)
    /\ NCtx \in Nat /\ Headroom \in Nat
    /\ MaxBatch \in Nat \ {0}
    /\ MaxTokens \subseteq Nat
    /\ CanFail \in BOOLEAN

VARIABLES
    resident,    \* what the backend's cache holds
    cached,      \* Session::cached
    comparable,  \* Session::cache_comparable
    pc,          \* where the running call is: idle, prefill, sample, forward
    prompt,      \* the running call's prompt
    reuse,       \* how many of its positions were taken over from the cache
    fed,         \* positions of it handled so far, the reused ones included
    maxNew,      \* how many tokens the call may generate
    generated,   \* tokens sampled so far
    logits       \* the sequence the latest logits were computed from

vars == <<resident, cached, comparable, pc, prompt, reuse, fed, maxNew,
          generated, logits>>

AtMost(a, b) == IF a <= b THEN a ELSE b
HasEmbeds(p) == \E i \in 1..Len(p) : p[i] = Embed

\* Prompt::leading_tokens is the first n positions.
IsLeading(p, n) ==
    /\ \A i \in 1..n : p[i] # Embed
    /\ n < Len(p) => p[n + 1] = Embed

-----------------------------------------------------------------------------
ReusablePrefixRewinding(p) ==
    IF /\ comparable
       /\ Len(cached) <= Len(p)
       /\ \A i \in 1..Len(cached) : p[i] = cached[i]
    THEN Len(cached) ELSE 0

ReusablePrefixBlind(p) ==
    IF Len(cached) < Len(p) /\ \A i \in 1..Len(cached) : p[i] = cached[i]
    THEN Len(cached) ELSE 0

\* Session::reusable_prefix: all of `cached`, if the prompt strictly extends
\* it, and otherwise nothing.  `cached` holds tokens only, so comparing with
\* the prompt's leading tokens and with the prompt is the same.
ReusablePrefix(p) ==
    IF /\ comparable
       /\ Len(cached) < Len(p)
       /\ \A i \in 1..Len(cached) : p[i] = cached[i]
    THEN Len(cached) ELSE 0

\* The next forward call of prefill carries n positions: a chunk of at most
\* MaxBatch tokens of the current run, or a whole run of embedding rows.
NextChunk(n) ==
    /\ n \in 1..MaxBatch
    /\ fed + n <= Len(prompt)
    /\ \A i \in (fed + 1)..(fed + n) :
          (prompt[i] = Embed) = (prompt[fed + 1] = Embed)
    /\ (fed + n < Len(prompt) /\ (n < MaxBatch \/ prompt[fed + 1] = Embed)) =>
          (prompt[fed + n + 1] = Embed) # (prompt[fed + 1] = Embed)

\* begin() of a backend refuses a batch that would pass the context.
Accepts(n) == Len(resident) + n <= NCtx

BudgetUncapped(p, max) == max

\* The loop's bound: the request's, or what is left of the context.
Budget(p, max) == AtMost(max, NCtx - Len(p) - 1)

Returned ==
    /\ pc' = "idle"
    /\ prompt' = <<>>
    /\ reuse' = 0
    /\ fed' = 0
    /\ maxNew' = 0
    /\ generated' = <<>>
    /\ logits' = <<>>

-----------------------------------------------------------------------------
Init ==
    /\ resident = <<>>
    /\ cached = <<>>
    /\ comparable = TRUE
    /\ pc = "idle"
    /\ prompt = <<>>
    /\ reuse = 0
    /\ fed = 0
    /\ maxNew = 0
    /\ generated = <<>>
    /\ logits = <<>>

AcceptSkippingEmptyWipe(p, max) ==
    /\ pc = "idle"
    /\ Len(p) + Headroom < NCtx
    /\ reuse' = ReusablePrefix(p)
    /\ fed' = reuse'
    /\ IF reuse' = 0 /\ cached # <<>>
       THEN resident' = <<>> /\ cached' = <<>> /\ comparable' = TRUE
       ELSE UNCHANGED <<resident, cached, comparable>>
    /\ pc' = "prefill"
    /\ prompt' = p
    /\ maxNew' = Budget(p, max)
    /\ UNCHANGED <<generated, logits>>

AcceptKeepingBackend(p, max) ==
    /\ pc = "idle"
    /\ Len(p) + Headroom < NCtx
    /\ reuse' = ReusablePrefix(p)
    /\ fed' = reuse'
    /\ IF reuse' = 0
       THEN cached' = <<>> /\ comparable' = TRUE
       ELSE UNCHANGED <<cached, comparable>>
    /\ pc' = "prefill"
    /\ prompt' = p
    /\ maxNew' = Budget(p, max)
    /\ UNCHANGED <<resident, generated, logits>>

\* run() up to prefill.  A prompt within Headroom of the context is refused
\* before anything of the session changes, so only accepted ones appear.
Accept(p, max) ==
    /\ pc = "idle"
    /\ Len(p) + Headroom < NCtx
    /\ reuse' = ReusablePrefix(p)
    /\ fed' = reuse'
    /\ IF reuse' = 0
       THEN resident' = <<>> /\ cached' = <<>> /\ comparable' = TRUE
       ELSE UNCHANGED <<resident, cached, comparable>>
    /\ pc' = "prefill"
    /\ prompt' = p
    /\ maxNew' = Budget(p, max)
    /\ UNCHANGED <<generated, logits>>

PrefillChunk(n) ==
    /\ pc = "prefill"
    /\ NextChunk(n)
    /\ Accepts(n)
    /\ resident' = resident \o SubSeq(prompt, fed + 1, fed + n)
    /\ logits' = resident'
    /\ fed' = fed + n
    /\ UNCHANGED <<cached, comparable, pc, prompt, reuse, maxNew, generated>>

\* forward returned Err part-way through the prompt: the backend refused the
\* chunk, or failed at it with or without having stored it.  The session
\* returns the error and corrects nothing.
PrefillFails(n) ==
    /\ pc = "prefill"
    /\ NextChunk(n)
    /\ CanFail \/ ~Accepts(n)
    /\ \/ UNCHANGED resident
       \/ Accepts(n) /\ resident' = resident \o SubSeq(prompt, fed + 1, fed + n)
    /\ Returned
    /\ UNCHANGED <<cached, comparable>>

\* The prompt is resident: remember its leading tokens, which describe all of
\* it only if no embedding span follows.
Record ==
    /\ pc = "prefill"
    /\ fed = Len(prompt)
    /\ \E n \in 0..Len(prompt) :
          IsLeading(prompt, n) /\ cached' = SubSeq(prompt, 1, n)
    /\ comparable' = IF HasEmbeds(prompt) THEN FALSE ELSE comparable
    /\ pc' = "sample"
    /\ UNCHANGED <<resident, prompt, reuse, fed, maxNew, generated, logits>>

\* The sampled token goes on to be computed: it ends nothing, the sink wants
\* more, and no stop string matched.
Sample(t) ==
    /\ pc = "sample"
    /\ Len(generated) < maxNew
    /\ t \in Tokens \ Eog
    /\ generated' = Append(generated, t)
    /\ cached' = IF comparable THEN Append(cached, t) ELSE cached
    /\ pc' = "forward"
    /\ UNCHANGED <<resident, comparable, prompt, reuse, fed, maxNew, logits>>

FinishRecordingLast ==
    /\ pc = "sample"
    /\ \E t \in Tokens :
          cached' = IF comparable /\ Len(generated) < maxNew
                    THEN Append(cached, t) ELSE cached
    /\ Returned
    /\ UNCHANGED <<resident, comparable>>

\* The call returns from the sampling loop: the budget is spent, the token
\* drawn ends the generation, the sink said stop, or a stop string matched.
\* In all of these the last token, if any, was neither recorded nor computed.
Finish ==
    /\ pc = "sample"
    /\ Returned
    /\ UNCHANGED <<resident, cached, comparable>>

Forward ==
    /\ pc = "forward"
    /\ Accepts(1)
    /\ resident' = Append(resident, generated[Len(generated)])
    /\ logits' = resident'
    /\ pc' = "sample"
    /\ UNCHANGED <<cached, comparable, prompt, reuse, fed, maxNew, generated>>

ForwardFailsAndRetries ==
    /\ pc = "forward"
    /\ CanFail \/ ~Accepts(1)
    /\ pc' = "sample"
    /\ generated' = SubSeq(generated, 1, Len(generated) - 1)
    /\ cached' = IF comparable THEN SubSeq(cached, 1, Len(cached) - 1) ELSE cached
    /\ UNCHANGED <<resident, comparable, prompt, reuse, fed, maxNew, logits>>

\* forward returned Err for a sampled token, which `cached` already lists.
ForwardFails ==
    /\ pc = "forward"
    /\ CanFail \/ ~Accepts(1)
    /\ \/ UNCHANGED resident
       \/ Accepts(1) /\ resident' = Append(resident, generated[Len(generated)])
    /\ Returned
    /\ UNCHANGED <<cached, comparable>>

\* Session::wipe, called between turns.
Wipe ==
    /\ pc = "idle"
    /\ resident' = <<>>
    /\ cached' = <<>>
    /\ comparable' = TRUE
    /\ UNCHANGED <<pc, prompt, reuse, fed, maxNew, generated, logits>>

Next ==
    \/ \E p \in Prompts, max \in MaxTokens : Accept(p, max)
    \/ \E n \in 1..MaxBatch : PrefillChunk(n) \/ PrefillFails(n)
    \/ Record
    \/ \E t \in Tokens : Sample(t)
    \/ Finish
    \/ Forward
    \/ ForwardFails
    \/ Wipe

\* A call runs to its end; whether another one comes is the caller's choice.
Fairness ==
    /\ WF_vars(\E n \in 1..MaxBatch : PrefillChunk(n) \/ PrefillFails(n))
    /\ WF_vars(Record)
    /\ WF_vars((\E t \in Tokens : Sample(t)) \/ Finish)
    /\ WF_vars(Forward \/ ForwardFails)

Spec == Init /\ [][Next]_vars
FairSpec == Spec /\ Fairness

-----------------------------------------------------------------------------
\* Every variable stays within its declared range.
TypeOK ==
    /\ resident \in Seq(Items)
    /\ cached \in Seq(Tokens)
    /\ comparable \in BOOLEAN
    /\ pc \in {"idle", "prefill", "sample", "forward"}
    /\ prompt \in Prompts \union {<<>>}
    /\ reuse \in Nat /\ fed \in Nat
    /\ maxNew \in Nat
    /\ generated \in Seq(Tokens)
    /\ logits \in Seq(Items)

\* The field doc of Session::cached: between calls it is the exact token
\* sequence in the backend's cache, unless the session knows that it is not.
CachedIsResident == (pc = "idle" /\ comparable) => cached = resident

\* While a prompt is read in, the backend holds exactly the part of it fed so
\* far: "Only a strict prefix of what is already resident counts"
\* (reusable_prefix), and nothing else is resident ahead of or behind it.
PrefillOnPrompt == pc = "prefill" => resident = SubSeq(prompt, 1, fed)

\* A token is sampled from logits of exactly the prompt followed by the tokens
\* generated in this call, and there is at least one position behind them.
SamplesOwnContext ==
    pc = "sample" => /\ logits = prompt \o generated
                     /\ logits = resident
                     /\ logits # <<>>

\* Whatever an earlier error left behind, a call that takes nothing over from
\* the cache starts the backend afresh, and samples from its own prompt only.
FreshTurnExact ==
    (pc \in {"prefill", "sample"} /\ reuse = 0) =>
        IF pc = "prefill" THEN resident = SubSeq(prompt, 1, fed)
        ELSE resident = prompt \o generated /\ logits = resident

\* No forward call meets a refusal of the backend (GpuModel::begin: an empty
\* or oversized batch, a position past the context), and prefill is never left
\* without a next chunk.
CallsFit ==
    /\ (pc = "prefill" /\ fed < Len(prompt)) =>
          \E n \in 1..MaxBatch : NextChunk(n) /\ Accepts(n)
    /\ pc = "forward" => Accepts(1)

\* A call always returns (session.rs: a bounded prefill, then a loop of at
\* most max_new rounds).
CallReturns == (pc # "idle") ~> (pc = "idle")

\* The abstract conversation: reuse cannot be told from computing each prompt
\* afresh.
Abstract == INSTANCE Conversation WITH
    phase <- CASE pc = "idle" -> "idle" [] pc = "prefill" -> "reading"
               [] OTHER -> "answering",
    asked <- prompt,
    context <- IF pc \in {"sample", "forward"} THEN logits ELSE <<>>
ImplementsConversation == Abstract!Spec

=============================================================================
