------------------------------ MODULE MCParts -------------------------------
(***************************************************************************)
(* The programs and their libraries beside the compute modules.  None of   *)
(* them shares state: a behaviour is one of one module, and the others     *)
(* stay idle.                                                              *)
(***************************************************************************)
EXTENDS MCCompute, Programs, FiniteSets, TLC

computeVars == <<standaloneVars, mirrorVars>>

\* Spellings and merges of them, most to least wanted; texts of two or three characters.
Vocab == {<<1>>, <<2>>, <<1, 1>>, <<1, 2>>, <<2, 1>>, <<1, 2, 1>>, <<1, 1, 2>>, <<1, 2, 1, 2>>}
Bpe == INSTANCE Bpe
Pairs == {pair \in Vocab \X Vocab : pair[1] \o pair[2] \in Vocab}
UpTo(n, S) == UNION {[1..k -> S] : k \in 0..n}
Merges == {list \in [1..3 -> Pairs] : Cardinality({list[i] : i \in 1..3}) = 3}
          \cup {<<<<<<1>>, <<3>>>>, <<<<1>>, <<2>>>>>>}
Texts == UpTo(5, 1..2) \cup UpTo(3, 1..3)
Streams == UpTo(2, UpTo(3, Bpe!Bytes) \ {<<>>})

Split == INSTANCE Split

\* Arguments of a tool, of strings over cs or of s; nested once.
Dsl == INSTANCE Dsl
Scalars(cs) == {Dsl!Str(s) : s \in UpTo(2, cs)} \cup {Dsl!Lit(c) : c \in Dsl!Literals}
Flat(cs) ==
    Scalars(cs) \cup {Dsl!Arr(s) : s \in UpTo(2, Scalars(cs))}
    \cup {Dsl!Obj(m) : m \in UNION {[keys -> Scalars(cs)] : keys \in {{}, {<<"a">>}, {<<"a">>, <<"b">>}}}}
Inner(s) == {Dsl!Arr(<<>>), Dsl!Obj(<<>>), Dsl!Arr(<<Dsl!Lit("7")>>), Dsl!Obj(<<"a">> :> Dsl!Lit("7")), Dsl!Str(s)}
Arguments(cs, s) ==
    {<<>>} \cup [{<<"a">>} -> Flat(cs) \cup {Dsl!Arr(<<v, w>>) : v, w \in Inner(s)}]
    \cup [{<<"a">>, <<"b">>} -> Scalars(cs) \cup {Dsl!Arr(<<Dsl!Lit("7")>>)}]

\* Conversations of up to two messages, and replies spelled as the tokenizer spells them.
Dialects == INSTANCE Dialects WITH ClosesEmptyThought <- TRUE
Said(role, text) ==
    [role |-> role, content |-> <<<<"text", text>>>>, reasoning |-> {}, calls |-> <<>>, id |-> 0, name |-> {}]
Called(n, r) == [Said("assistant", <<>>) EXCEPT !.calls = [i \in 1..n |-> [id |-> i, name |-> "f"]], !.reasoning = r]
Answer == [Said("tool", <<"z">>) EXCEPT !.id = 1]
Stray == [Answer EXCEPT !.id = 3, !.name = {"g"}]
Messages ==
    {Said("user", <<"x", " ">>), Said("system", <<"s">>), Said("assistant", <<"[", "t", "]", "x">>), Answer, Stray,
     Called(2, {}), Called(1, {<<"r">>}), [Said("assistant", <<"x">>) EXCEPT !.reasoning = {<<"r">>}],
     [Said("user", <<"x">>) EXCEPT !.content = <<<<"image", "i">>>> \o @]}
Contents == {<<>>, Dialects!Encoded(<<"y">>), Dialects!Encoded(<<"y", " ", "y">>)}
GemmaCall == Dialects!Ctl("call") \o Dialects!DslText(<<"f">>) \o Dialects!Ctl("end call")
GemmaReplies == Contents \cup {GemmaCall, GemmaCall \o GemmaCall, GemmaCall \o Dialects!Ctl("response")}
QwenCall == Dialects!QwenCall("f")
Gap(n) == Dialects!Encoded([i \in 1..n |-> "nl"])
QwenReplies == Contents \cup {QwenCall, QwenCall \o Gap(1) \o QwenCall, Dialects!Encoded(<<"y">>) \o Gap(2) \o QwenCall}
Exchanges(spelled) == UpTo(2, Messages) \X spelled \X {<<Said("user", <<"z">>)>>, <<Answer>>} \X {<<>>, <<"tool">>}

TextShapes ==
    {<<"merges", list>> : list \in Merges} \cup {<<"decodes", tokens>> : tokens \in Streams}
    \cup {<<"splits", text>> : text \in UpTo(4, Split!Chars)}
    \cup {<<"call", args>> : args \in Arguments({"a", "}", ","}, <<"}">>)}
    \cup {<<"bare", args, around>> : args \in Arguments({"a", ","}, <<"a">>), around \in {<<>>, <<"a">>, <<"}">>}}
    \cup {<<"gemma", x>> : x \in Exchanges(GemmaReplies)} \cup {<<"qwen", x>> : x \in Exchanges(QwenReplies)}

-----------------------------------------------------------------------------

\* One compute module or the texts, or one program.
AllInit == Init /\ ProgramsInit /\ (part = "none") # (program = "none")

TextNext == part = "text" /\ shape = <<>> /\ shape' \in TextShapes
            /\ UNCHANGED <<part, workgroupVars, uploadVars, deviceVars, mirrorVars>>

AllNext ==
    \/ (Next \/ TextNext) /\ UNCHANGED programVars
    \/ ProgramsNext /\ UNCHANGED computeVars

AllSpec == AllInit /\ [][AllNext]_<<computeVars, programVars>>

-----------------------------------------------------------------------------

\* The text algorithms do what their plain definitions say: splitting as the regular
\* expressions do and breaking every control token, merging, decoding a stream, a tool
\* call there and back, and a replayed turn that extends what is cached.
TextAsReference ==
    shape # <<>> =>
        /\ shape[1] = "merges" => \A text \in Texts : Bpe!EncodesAsGreedy(shape[2], text)
        /\ shape[1] = "decodes" => Bpe!DecodesWhole(shape[2])
        /\ shape[1] = "splits" => Split!SplitsAsRegex(shape[2]) /\ Split!ControlsShatter(shape[2])
        /\ shape[1] = "call" => Dsl!CallReadsBack(<<"f">>, shape[2])
        /\ shape[1] = "bare" => Dsl!BareCallIsFound(shape[3], <<"f">>, shape[2], shape[3])
        /\ shape[1] = "gemma" =>
               Dialects!GemmaReplayExtends(shape[2][1], shape[2][2], shape[2][3], shape[2][4])
        /\ shape[1] = "qwen" =>
               Dialects!QwenReplayExtends(shape[2][1], shape[2][2], shape[2][3], shape[2][4])
=============================================================================
