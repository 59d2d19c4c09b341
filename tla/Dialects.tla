------------------------------ MODULE Dialects ------------------------------
(***************************************************************************)
(* From a conversation to a prompt and from a reply to a message           *)
(* (crates/chat/src/lib.rs for gemma4, qwen.rs for qwen).  A prompt is a   *)
(* sequence of <<"ctl", token>>, <<"text", characters>>, one for each call *)
(* of the tokenizer (merges never cross two), <<"dsl", body>> and          *)
(* <<"rows", image>>.  A message is [role, content, reasoning, calls, id,  *)
(* name]; content is a sequence of <<"text", characters>> and              *)
(* <<"image", name>>, reasoning a set of at most one text, a call          *)
(* [id, name]; of a tool's message, id is the call it answers and name a   *)
(* set of at most one, the tool's.                                         *)
(***************************************************************************)
EXTENDS Integers, Sequences, SequencesExt, FiniteSetsExt

CONSTANT ClosesEmptyThought  \* whether the gemma4 checkpoint's template suppresses thinking

Ctl(token) == <<<<"ctl", token>>>>
Encoded(chars) == IF chars = <<>> THEN <<>> ELSE <<<<"text", chars>>>>
DslText(body) == <<<<"dsl", body>>>>

RECURSIVE TrimStart(_)
TrimStart(chars) == IF chars # <<>> /\ chars[1] \in {" ", "nl"} THEN TrimStart(SubSeq(chars, 2, Len(chars))) ELSE chars
Trim(chars) == Reverse(TrimStart(Reverse(TrimStart(chars))))

TextOf(content) == FlattenSeq([i \in DOMAIN content |-> IF content[i][1] = "text" THEN content[i][2] ELSE <<>>])

IsSystem(m) == m.role \in {"system", "developer"}
Leading(messages) == messages # <<>> /\ IsSystem(messages[1])
Rest(messages) == IF Leading(messages) THEN SubSeq(messages, 2, Len(messages)) ELSE messages
PerMessage(Turn(_), messages) == FlattenSeq([i \in DOMAIN messages |-> Turn(i)])

-----------------------------------------------------------------------------
(* gemma4.                                                                 *)

OpenTurn(role) == Ctl("turn") \o Encoded(<<role>>) \o Encoded(<<"nl">>)
CloseTurn == Ctl("end turn") \o Encoded(<<"nl">>)
EmptyThought == Ctl("channel") \o Encoded(<<"thought", "nl">>) \o Ctl("end channel")

\* strip_thinking: spelled out, "[" opens a thought channel and "]" closes it.
StripThinking(chars) ==
    LET closed(i) == {j \in 1..(i - 1) : chars[j] = "]"}
        thought(i) == \E j \in 1..i : chars[j] = "[" /\ \A k \in closed(i) : k < j
        kept == {i \in DOMAIN chars : chars[i] # "]" /\ ~thought(i)}
    IN [n \in 1..Cardinality(kept) |-> chars[CHOOSE i \in kept : Cardinality({j \in kept : j <= i}) = n]]

Images(content) ==
    FlattenSeq([i \in DOMAIN content |->
        IF content[i][1] = "image" THEN Ctl("image") \o <<<<"rows", content[i][2]>>>> \o Ctl("end image")
        ELSE Encoded(Trim(content[i][2]))])
HasImage(m) == \E i \in DOMAIN m.content : m.content[i][1] = "image"

\* The results that follow message i, matched back to their call, or named by themselves.
Results(rest, i) ==
    LET m == rest[i]
        run == {k \in (i + 1)..Len(rest) : \A j \in (i + 1)..k : rest[j].role = "tool"}
        named(k) == LET c == SelectInSeq(m.calls, LAMBDA call : call.id = rest[k].id)
                        names == IF c = 0 THEN rest[k].name ELSE {m.calls[c].name}
                    IN IF names = {} THEN "unknown" ELSE CHOOSE name \in names : TRUE
    IN FlattenSeq([n \in 1..Cardinality(run) |->
           Ctl("response") \o DslText(<<named(i + n), TextOf(rest[i + n].content)>>) \o Ctl("end response")])

CallTurn(rest, i) ==
    LET m == rest[i]
        thoughts == {r \in m.reasoning : Trim(r) # <<>>}
        results == Results(rest, i)
    IN (IF thoughts = {} THEN <<>>
        ELSE Ctl("channel") \o Encoded(<<"thought", "nl">>) \o Encoded(CHOOSE r \in thoughts : TRUE)
             \o Encoded(<<"nl">>) \o Ctl("end channel"))
       \o FlattenSeq([c \in DOMAIN m.calls |-> Ctl("call") \o DslText(<<m.calls[c].name>>) \o Ctl("end call")])
       \o (IF results = <<>> THEN Ctl("response") ELSE results \o CloseTurn)

\* An assistant's turn opens the empty channel its prompt opened.
GemmaReplays(thinking, m) ==
    IF m.role = "assistant" /\ ~thinking /\ m.reasoning = {} THEN EmptyThought ELSE <<>>

GemmaTurn(rest, i, thinking) ==
    LET m == rest[i]
        opened == OpenTurn(IF m.role = "assistant" THEN "model" ELSE m.role) \o GemmaReplays(thinking, m)
    IN CASE m.role = "tool" -> <<>>
         [] m.role # "tool" /\ m.calls # <<>> -> opened \o CallTurn(rest, i)
         [] OTHER ->
              opened
              \o (IF HasImage(m) /\ m.role # "assistant" THEN Images(m.content)
                  ELSE IF m.role = "assistant" THEN Encoded(Trim(StripThinking(TextOf(m.content))))
                  ELSE Encoded(Trim(TextOf(m.content))))
              \o CloseTurn

GemmaPrompt(messages, tools, thinking) ==
    LET rest == Rest(messages)
        header == IF thinking \/ tools # <<>> \/ Leading(messages)
                  THEN OpenTurn("system")
                       \o (IF thinking THEN Ctl("think") \o Encoded(<<"nl">>) ELSE <<>>)
                       \o (IF Leading(messages) THEN Encoded(Trim(TextOf(messages[1].content))) ELSE <<>>)
                       \o FlattenSeq([t \in DOMAIN tools |-> Ctl("tool") \o DslText(<<tools[t]>>) \o Ctl("end tool")])
                       \o CloseTurn
                  ELSE <<>>
    IN Ctl("bos") \o header \o PerMessage(LAMBDA i : GemmaTurn(rest, i, thinking), rest) \o OpenTurn("model")
       \o (IF ~thinking /\ ClosesEmptyThought THEN EmptyThought ELSE <<>>)

-----------------------------------------------------------------------------
(* qwen.                                                                   *)

Open(role) == Ctl("im_start") \o Encoded(<<role>>) \o Encoded(<<"nl">>)
Close == Ctl("im_end") \o Encoded(<<"nl">>)
EmptyThink == Ctl("think") \o Encoded(<<"nl", "nl">>) \o Ctl("end think") \o Encoded(<<"nl", "nl">>)
QwenCall(name) == Ctl("call") \o Encoded(<<"nl", "<function=", name, ">", "nl">>) \o Encoded(<<"</function>", "nl">>)
                  \o Ctl("end call")

QwenTurn(rest, i) ==
    LET m == rest[i]
        content == Trim(TextOf(m.content))
        thoughts == {Trim(r) : r \in m.reasoning} \ {<<>>}
        first == i = 1 \/ rest[i - 1].role # "tool"
        last == i = Len(rest) \/ rest[i + 1].role # "tool"
        between(c) == CASE c > 1 -> Encoded(<<"nl">>)
                        [] c = 1 /\ content # <<>> -> Encoded(<<"nl", "nl">>)
                        [] OTHER -> <<>>
    IN CASE m.role = "assistant" ->
              Open("assistant")
              \o (IF thoughts = {} THEN EmptyThink
                  ELSE Ctl("think") \o Encoded(<<"nl">>) \o Encoded(CHOOSE r \in thoughts : TRUE)
                       \o Encoded(<<"nl">>) \o Ctl("end think") \o Encoded(<<"nl", "nl">>))
              \o Encoded(content)
              \o FlattenSeq([c \in DOMAIN m.calls |-> between(c) \o QwenCall(m.calls[c].name)])
              \o Close
         [] m.role = "tool" ->
              (IF first THEN Ctl("im_start") \o Encoded(<<"user">>) ELSE <<>>)
              \o Encoded(<<"nl">>) \o Ctl("response") \o Encoded(<<"nl">>) \o Encoded(content)
              \o Encoded(<<"nl">>) \o Ctl("end response")
              \o (IF last THEN Close ELSE <<>>)
         [] OTHER -> Open("user") \o Encoded(content) \o Close

\* The declarations, their format and the effort are fixed text.
QwenHeader(messages, tools, thinking) ==
    LET system == IF Leading(messages) THEN Trim(TextOf(messages[1].content)) ELSE <<>>
        effort == IF thinking THEN Encoded(<<"xhigh">>) ELSE <<>>
        gap == Encoded(<<"nl", "nl">>)
    IN CASE tools # <<>> ->
              Open("system") \o (IF thinking THEN effort \o gap ELSE <<>>)
              \o FlattenSeq([t \in DOMAIN tools |-> Encoded(<<"nl">>) \o Encoded(<<tools[t]>>)])
              \o Ctl("call") \o Encoded(<<"format">>) \o Ctl("end call") \o Encoded(<<"important">>)
              \o (IF system # <<>> THEN gap \o Encoded(system) ELSE <<>>) \o Close
         [] tools = <<>> /\ system # <<>> ->
              Open("system") \o (IF thinking THEN effort \o gap ELSE <<>>) \o Encoded(system) \o Close
         [] tools = <<>> /\ system = <<>> /\ thinking -> Open("system") \o effort \o Close
         [] OTHER -> <<>>

QwenPrompt(messages, tools, thinking) ==
    LET rest == Rest(messages)
    IN QwenHeader(messages, tools, thinking) \o PerMessage(LAMBDA i : QwenTurn(rest, i), rest)
       \o Open("assistant") \o (IF thinking THEN Ctl("think") \o Encoded(<<"nl">>) ELSE EmptyThink)

-----------------------------------------------------------------------------
(* parse_completion: where a block that opens at i ends, and what is left  *)
(* of a reply from i on.                                                   *)

EndOf(ids, i, token) == Min({j \in i..Len(ids) : ids[j] = <<"ctl", token>>} \cup {Len(ids) + 1})
Decoded(ids) == FlattenSeq([i \in DOMAIN ids |-> IF ids[i][1] = "text" THEN ids[i][2] ELSE <<>>])
IsCtl(ids, i, tokens) == \E t \in tokens : ids[i] = <<"ctl", t>>
Between(ids, i, j) == SubSeq(ids, i, j - 1)
Nothing == [content |-> <<>>, reasoning |-> <<>>, calls |-> <<>>]

RECURSIVE GemmaParts(_, _, _)
GemmaParts(ids, i, out) ==
    LET body == Decoded(Between(ids, i + 1, EndOf(ids, i + 1, "end channel")))
        thought == IF IsPrefix(<<"thought", "nl">>, body) THEN SubSeq(body, 3, Len(body)) ELSE body
        called == Between(ids, i + 1, EndOf(ids, i + 1, "end call"))
        plain == Min({j \in i..Len(ids) : IsCtl(ids, j, {"channel", "call", "response", "end turn"})} \cup {Len(ids) + 1})
    IN CASE i > Len(ids) -> out
         [] i <= Len(ids) /\ IsCtl(ids, i, {"channel"}) ->
              GemmaParts(ids, EndOf(ids, i + 1, "end channel") + 1, [out EXCEPT !.reasoning = @ \o thought])
         [] i <= Len(ids) /\ IsCtl(ids, i, {"call"}) ->
              GemmaParts(ids, EndOf(ids, i + 1, "end call") + 1,
                         IF called # <<>> /\ called[1][1] = "dsl"
                         THEN [out EXCEPT !.calls = Append(@, called[1][2][1])] ELSE out)
         [] i <= Len(ids) /\ IsCtl(ids, i, {"response", "end turn"}) -> out
         [] OTHER -> GemmaParts(ids, plain, [out EXCEPT !.content = @ \o Decoded(Between(ids, i, plain))])

RECURSIVE QwenParts(_, _, _, _)
QwenParts(ids, i, inThink, out) ==
    LET start == IF inThink THEN i ELSE i + 1
        ended == EndOf(ids, start, "end think")
        closed == EndOf(ids, i + 1, "end call")
        called == Decoded(Between(ids, i + 1, closed))
        plain == Min({j \in i..Len(ids) : IsCtl(ids, j, {"think", "call", "im_end"})} \cup {Len(ids) + 1})
    IN CASE i > Len(ids) -> out
         [] i <= Len(ids) /\ IsCtl(ids, i, {"im_end"}) -> out
         [] i <= Len(ids) /\ ~IsCtl(ids, i, {"im_end"}) /\ (inThink \/ IsCtl(ids, i, {"think"})) ->
              QwenParts(ids, ended + 1, FALSE, [out EXCEPT !.reasoning = @ \o Decoded(Between(ids, start, ended))])
         [] i <= Len(ids) /\ ~inThink /\ IsCtl(ids, i, {"call"}) ->
              QwenParts(ids, closed + 1, FALSE,
                        IF Len(Trim(called)) >= 3 /\ Trim(called)[1] = "<function="
                        THEN [out EXCEPT !.calls = Append(@, Trim(called)[2])] ELSE out)
         [] OTHER -> QwenParts(ids, plain, FALSE, [out EXCEPT !.content = @ \o Decoded(Between(ids, i, plain))])

Trimmed(out) == [out EXCEPT !.content = Trim(@), !.reasoning = Trim(@)]
GemmaParse(ids) == Trimmed(GemmaParts(ids, 1, Nothing))
QwenParse(ids, thinkingOpen) == Trimmed(QwenParts(ids, 1, thinkingOpen, Nothing))

\* The message a client sends back for a reply it was given, thoughts left out.
Echo(reply) ==
    [role |-> "assistant", content |-> <<<<"text", reply.content>>>>, reasoning |-> {}, id |-> 0, name |-> {},
     calls |-> [i \in DOMAIN reply.calls |-> [id |-> i, name |-> reply.calls[i]]]]

-----------------------------------------------------------------------------

\* The next turn's prompt extends what is in the cache, the last prompt and the reply
\* as it was generated, so a conversation prefills only what is new.  Thinking is off;
\* reply is what the tokenizer makes of its own text.
ReplayExtends(prompt(_, _, _), parsed, messages, reply, next, tools) ==
    IsPrefix(prompt(messages, tools, FALSE) \o reply,
             prompt(messages \o <<Echo(parsed)>> \o next, tools, FALSE))
GemmaReplayExtends(messages, reply, next, tools) ==
    ReplayExtends(GemmaPrompt, GemmaParse(reply), messages, reply, next, tools)
QwenReplayExtends(messages, reply, next, tools) ==
    ReplayExtends(QwenPrompt, QwenParse(reply, FALSE), messages, reply, next, tools)
=============================================================================
