---------------------------- MODULE WasmSession ----------------------------
(***************************************************************************)
(* The browser's session (crates/wasm/src/lib.rs): load, reply and wipe on *)
(* one thread that yields to the page's event loop inside every forward    *)
(* pass.  There a stop can come in; a second call on the session cannot,   *)
(* for wasm-bindgen holds `&mut self` borrowed until the call is over.     *)
(***************************************************************************)
EXTENDS Integers, Sequences, SequencesExt, FiniteSetsExt

CONSTANTS
    Tokens,    \* the vocabulary; Eog ends a reply
    Eog,
    NCtx, MaxBatch,
    Headroom,  \* 8: what a prompt must leave of the context
    MaxNew,    \* bound: max_tokens
    MaxPrompt, \* bound: length of a prompt
    MaxReplies, \* bound: replies asked for
    HeaderNeed, FileSize \* what a header takes to parse, of a file of that size

VARIABLES
    at,       \* a stage of load, "failed", "idle", "prefill" or "decode"
    want,     \* load: bytes of the header read next
    armed,    \* the heap is zeroed as it is freed
    cached,   \* the tokens the session takes to be resident
    rows,     \* the tokens the backend has rows for
    prompt, next, \* the prompt in hand, and how much of it was run
    fresh,    \* tokens sampled for it
    limit,    \* max_new
    stop,     \* STOP
    history,  \* roles
    replies

load == <<want, armed>>
chat == <<cached, rows, prompt, next, fresh, limit>>
vars == <<at, load, chat, stop, history, replies>>

Stages == <<"header", "bounds", "parameters", "config", "adapter", "shaders", "weights", "pipelines">>

Init ==
    /\ at = "header" /\ want = 1 /\ armed = FALSE
    /\ cached = <<>> /\ rows = <<>> /\ prompt = <<>> /\ next = 0 /\ fresh = <<>> /\ limit = 0
    /\ stop = FALSE /\ history = <<>> /\ replies = 0

-----------------------------------------------------------------------------
(* load.                                                                   *)

\* A short prefix parses as Eof, and is read again twice as long.
ReadHeader ==
    /\ at = "header"
    /\ LET n == Min({want, FileSize})
       IN CASE n >= HeaderNeed -> at' = "bounds" /\ UNCHANGED want
            [] n < HeaderNeed /\ n < FileSize -> want' = want * 2 /\ UNCHANGED at
            [] OTHER -> at' = "failed" /\ UNCHANGED want
    /\ UNCHANGED <<armed, chat, stop, history, replies>>

\* Each later stage can fail, and nothing is armed before the last is done.
LoadStage ==
    /\ \E s \in 2..Len(Stages) :
          /\ at = Stages[s]
          /\ \/ at' = "failed" /\ UNCHANGED armed
             \/ s < Len(Stages) /\ at' = Stages[s + 1] /\ UNCHANGED armed
             \/ s = Len(Stages) /\ at' = "idle" /\ armed' = TRUE
    /\ UNCHANGED <<want, chat, stop, history, replies>>

-----------------------------------------------------------------------------
(* reply: prefill, then decode.                                            *)

Common(p) == Cardinality({n \in 1..Min({Len(p), Len(cached)}) :
                              SubSeq(p, 1, n) = SubSeq(cached, 1, n)})
ReusablePrefixAny(p) == Min({Common(p), Len(p) - 1})
ReusablePrefix(p) ==
    IF Common(p) = Len(cached) /\ Common(p) < Len(p) THEN Common(p) ELSE 0

Reply(p) ==
    /\ at = "idle" /\ replies < MaxReplies /\ replies' = replies + 1
    /\ stop' = FALSE
    /\ IF Len(p) + Headroom >= NCtx
       THEN UNCHANGED <<at, chat, history>>  \* refused: the user's turn is popped again
       ELSE LET reuse == ReusablePrefix(p)
            IN /\ at' = "prefill" /\ prompt' = p /\ next' = reuse /\ fresh' = <<>> /\ limit' = 0
               /\ history' = Append(history, "user")
               /\ IF reuse = 0 THEN rows' = <<>> /\ cached' = <<>> ELSE UNCHANGED <<rows, cached>>
    /\ UNCHANGED load

\* STOP is not looked at before the first token.
Prefill ==
    /\ at = "prefill"
    /\ LET end == Min({next + MaxBatch, Len(prompt)})
       IN /\ rows' = rows \o SubSeq(prompt, next + 1, end)
          /\ next' = end
          /\ IF end < Len(prompt) THEN UNCHANGED <<at, cached, limit>>
             ELSE /\ at' = "decode" /\ cached' = prompt
                  /\ \E max \in 0..MaxNew : limit' = Min({max, NCtx - Len(prompt) - 1})
    /\ UNCHANGED <<load, prompt, fresh, stop, history, replies>>

\* The token is recorded and its rows are written before the await.
Decode ==
    /\ at = "decode"
    /\ \/ /\ stop \/ Len(fresh) = limit
          /\ at' = "idle" /\ history' = Append(history, "assistant")
          /\ UNCHANGED <<cached, rows, fresh>>
       \/ /\ ~stop /\ Len(fresh) < limit
          /\ \E t \in Tokens :
                /\ fresh' = Append(fresh, t)
                /\ IF t = Eog
                   THEN /\ at' = "idle" /\ history' = Append(history, "assistant")
                        /\ UNCHANGED <<cached, rows>>
                   ELSE /\ cached' = Append(cached, t) /\ rows' = Append(rows, t)
                        /\ UNCHANGED <<at, history>>
    /\ UNCHANGED <<load, prompt, next, limit, stop, replies>>

\* The page's stop button, in any await.
RequestStop == at \in {"prefill", "decode"} /\ ~stop /\ stop' = TRUE
               /\ UNCHANGED <<at, load, chat, history, replies>>

Wipe ==
    /\ at = "idle" /\ history # <<>>
    /\ rows' = <<>> /\ cached' = <<>> /\ history' = <<>>
    /\ UNCHANGED <<at, load, prompt, next, fresh, limit, stop, replies>>

Next == ReadHeader \/ LoadStage \/ Prefill \/ Decode \/ RequestStop \/ Wipe
        \/ \E n \in 1..MaxPrompt : \E p \in [1..n -> Tokens \ {Eog}] : Reply(p)

-----------------------------------------------------------------------------
(* Properties.                                                             *)

\* Wherever the page comes in, the backend has rows for the prompt so far and the reply so
\* far, in order, and for nothing else; the session's record of them agrees once the
\* prompt is in; and no pass leaves the context.
CachedIsResident ==
    /\ at = "prefill" => rows = SubSeq(prompt, 1, next)
    /\ at = "decode" => rows = prompt \o fresh
    /\ at \in {"decode", "idle"} => cached = rows
    /\ Len(rows) < NCtx
    /\ history # <<>> => armed
=============================================================================
