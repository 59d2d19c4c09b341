-------------------------------- MODULE Lab --------------------------------
(***************************************************************************)
(* The lab (crates/lab): two conversations over one set of weights, the    *)
(* inspector and the chat, driven by a web worker.  The worker answers a   *)
(* chat token by token and lets messages in between; the page that posts   *)
(* them is not in the repository: it is taken to post no second chat over  *)
(* one being answered, and anything else at any time.                      *)
(* Here caches are not rings: a rewind is a shorter length.                *)
(***************************************************************************)
EXTENDS Integers, Sequences, SequencesExt, FiniteSetsExt

CONSTANTS
    Tokens, Eog,
    ChatCtx, ProbeCtx,
    Headroom,   \* 16
    MaxPrompt, MaxOps  \* bounds: length of a prompt, messages of the page

VARIABLES
    chat,     \* the chat's cache: rows, and how many of them count
    ids,      \* chat_ids
    logits,   \* what the chat's logits were computed from, <<>> when there are none
    reply, history,
    probe,    \* the inspector's cache, ids and logits
    worker,   \* "idle", "chatting", or "trapped" after a panic
    stopping, \* the worker's flag
    bare,     \* aux: the chat was wiped under the reply in hand
    ops

chatVars == <<chat, ids, logits, reply, history>>
vars == <<chatVars, probe, worker, stopping, bare, ops>>

Empty(n) == [rows |-> [i \in 1..n |-> 0], len |-> 0]
Context(cache) == SubSeq(cache.rows, 1, cache.len)

\* Model::forward: rows from len on; logits of the whole context.
Forward(cache, tokens) ==
    [rows |-> [i \in DOMAIN cache.rows |->
                   IF i \in (cache.len + 1)..(cache.len + Len(tokens))
                   THEN tokens[i - cache.len] ELSE cache.rows[i]],
     len |-> cache.len + Len(tokens)]

Init ==
    /\ chat = Empty(ChatCtx) /\ ids = <<>> /\ logits = <<>> /\ reply = <<>> /\ history = <<>>
    /\ probe = [cache |-> Empty(ProbeCtx), ids |-> <<>>, logits |-> <<>>]
    /\ worker = "idle" /\ stopping = FALSE /\ bare = FALSE /\ ops = 0

Op == ops < MaxOps /\ ops' = ops + 1 /\ worker # "trapped"

-----------------------------------------------------------------------------
(* The chat.                                                               *)

Keep(p) == Min({Len(p) - 1,
                Cardinality({n \in 1..Min({Len(p), Len(ids)}) : SubSeq(p, 1, n) = SubSeq(ids, 1, n)})})
Rewound(n) == [chat EXCEPT !.len = n]

ChatBegin(p) ==
    /\ Op /\ worker = "idle" /\ stopping' = FALSE /\ bare' = FALSE
    /\ IF Len(p) + Headroom > ChatCtx
       THEN UNCHANGED <<chatVars, worker>>
       ELSE /\ chat' = Forward(Rewound(Keep(p)), SubSeq(p, Keep(p) + 1, Len(p)))
            /\ ids' = p /\ reply' = <<>>
            /\ logits' = Context(chat')
            /\ history' = Append(history, "user")
            /\ worker' = "chatting"
    /\ UNCHANGED probe

Finish == history' = Append(history, "assistant") /\ reply' = <<>> /\ worker' = "idle"

\* One turn of the worker's loop.
ChatNext ==
    /\ worker = "chatting"
    /\ CASE stopping -> Finish /\ UNCHANGED <<chat, ids, logits>>
         [] ~stopping /\ logits = <<>> -> \* the sampler's clamp(1, 0) panics
                worker' = "trapped" /\ UNCHANGED chatVars
         [] OTHER ->
            \E t \in Tokens :
                IF t = Eog \/ chat.len + 1 >= ChatCtx
                THEN Finish /\ logits' = <<>> /\ UNCHANGED <<chat, ids>>
                ELSE /\ reply' = Append(reply, t)
                     /\ chat' = Forward(chat, <<t>>) /\ ids' = Append(ids, t)
                     /\ logits' = Context(chat')
                     /\ UNCHANGED <<worker, history>>
    /\ UNCHANGED <<probe, stopping, bare, ops>>

Stop == Op /\ worker = "chatting" /\ stopping' = TRUE /\ UNCHANGED <<chatVars, probe, worker, bare>>

-----------------------------------------------------------------------------
(* The inspector, and the wipe of both.                                    *)

Inspect(p) ==
    /\ Op /\ Len(p) < ProbeCtx
    /\ LET cache == Forward(Empty(ProbeCtx), p)
       IN probe' = [cache |-> cache, ids |-> p, logits |-> Context(cache)]
    /\ UNCHANGED <<chatVars, worker, stopping, bare>>

ProbeStep ==
    /\ Op /\ probe.logits # <<>> /\ probe.cache.len < ProbeCtx
    /\ \E t \in Tokens :
          LET cache == Forward(probe.cache, <<t>>)
          IN probe' = [cache |-> cache, ids |-> Append(probe.ids, t), logits |-> Context(cache)]
    /\ UNCHANGED <<chatVars, worker, stopping, bare>>

WipedCache == Empty(ChatCtx)
Wipe ==
    /\ Op
    /\ chat' = WipedCache /\ ids' = <<>> /\ logits' = <<>> /\ reply' = <<>> /\ history' = <<>>
    /\ probe' = [cache |-> Empty(ProbeCtx), ids |-> <<>>, logits |-> <<>>]
    /\ bare' = (worker = "chatting")
    /\ UNCHANGED <<worker, stopping>>

Prompts(n) == UNION {[1..k -> Tokens \ {Eog}] : k \in 1..n}
Next == ChatNext \/ Stop \/ ProbeStep \/ Wipe
        \/ \E p \in Prompts(MaxPrompt) : ChatBegin(p) \/ Inspect(p)

-----------------------------------------------------------------------------
(* Properties.                                                             *)

\* Each cache holds the tokens its ids name, whatever was kept of the last turn, and the
\* logits a token is drawn from are of that context; a wipe empties both caches.
CachesAreOwn ==
    /\ Context(chat) = ids /\ logits \in {<<>>, ids}
    /\ Context(probe.cache) = probe.ids /\ probe.logits = probe.ids
    /\ history = <<>> /\ ids = <<>> => chat = Empty(ChatCtx)

\* The worker traps only when the chat was wiped under a reply.
TrapsOnlyWhenWiped == worker = "trapped" => bare
=============================================================================
