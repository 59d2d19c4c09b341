-------------------------------- MODULE Dsl --------------------------------
(***************************************************************************)
(* The syntax the gemma4 models call tools in (crates/chat/src/dsl.rs).    *)
(* A text is a sequence of one-character strings; QUOTE, "call:" and each  *)
(* literal count as one character.  A JSON value is <<"str", text>>,       *)
(* <<"lit", character>>, <<"arr", values>> or <<"obj", values by key>>.    *)
(***************************************************************************)
EXTENDS Integers, Sequences, SequencesExt, FiniteSetsExt, Functions

Q == "quote"
Call == "call:"
Literals == {"true", "null", "7"}
Str(text) == <<"str", text>>
Lit(c) == <<"lit", c>>
Arr(items) == <<"arr", items>>
Obj(map) == <<"obj", map>>

-----------------------------------------------------------------------------
(* Encoding.                                                               *)

Quoted(text) == <<Q>> \o text \o <<Q>>

\* sorted: an order that depends on nothing but the keys.
Sorted(map) == SetToSeq(DOMAIN map)

Listed(parts) == FoldLeft(LAMBDA out, p : IF out = <<>> THEN p ELSE out \o <<",">> \o p, <<>>, parts)

RECURSIVE EncodeValue(_)
EncodeValue(v) ==
    CASE v[1] = "str" -> Quoted(v[2])
      [] v[1] = "lit" -> <<v[2]>>
      [] v[1] = "arr" -> <<"[">> \o Listed([i \in DOMAIN v[2] |-> EncodeValue(v[2][i])]) \o <<"]">>
      [] v[1] = "obj" ->
           LET keys == Sorted(v[2])
           IN <<"{">> \o Listed([i \in DOMAIN keys |-> Quoted(keys[i]) \o <<":">> \o EncodeValue(v[2][keys[i]])])
              \o <<"}">>

\* The names of arguments are bare, keys further in are quoted.
EncodeCall(name, args) ==
    LET keys == Sorted(args)
    IN <<Call>> \o name \o <<"{">>
       \o Listed([i \in DOMAIN keys |-> keys[i] \o <<":">> \o EncodeValue(args[keys[i]])]) \o <<"}">>

-----------------------------------------------------------------------------
(* Decoding.  The parser is the text it has not consumed; each operation   *)
(* gives what it read and the rest.                                        *)

From(s, i) == SubSeq(s, i, Len(s))
StartsWith(s, c) == s # <<>> /\ s[1] = c
Eat(s, c) == IF StartsWith(s, c) THEN From(s, 2) ELSE s

RECURSIVE SkipWs(_)
SkipWs(s) == IF StartsWith(s, " ") THEN SkipWs(From(s, 2)) ELSE s
Trim(s) == Reverse(SkipWs(Reverse(SkipWs(s))))

Cut(s, at) == IF at = {} THEN <<s, <<>>>> ELSE <<SubSeq(s, 1, Min(at) - 1), From(s, Min(at))>>
Until(s, end) == Cut(s, {i \in DOMAIN s : s[i] = end})

\* How deep a bare value has nested by i; a closing bracket closes nothing at depth 0.
Depth(s, i) ==
    FoldLeft(LAMBDA d, c : IF c \in {"{", "["} THEN d + 1
                           ELSE IF c \in {"}", "]"} /\ d > 0 THEN d - 1 ELSE d, 0, SubSeq(s, 1, i))
UntilAny(s, ends) == Cut(s, {i \in DOMAIN s : s[i] \in ends /\ Depth(s, i) = 0})

Bare(raw) == IF Len(raw) = 1 /\ raw[1] \in Literals THEN Lit(raw[1]) ELSE Str(raw)

RECURSIVE ObjectBody(_, _), Value(_), Items(_, _)
Items(items, s0) ==
    LET s == SkipWs(s0)
        v == Value(s)
        rest == SkipWs(v[2])
        all == Append(items, v[1])
    IN CASE s = <<>> -> <<items, s>>
         [] StartsWith(s, "]") -> <<items, Eat(s, "]")>>
         [] s # <<>> /\ ~StartsWith(s, "]") ->
              IF StartsWith(rest, ",") THEN Items(all, From(rest, 2)) ELSE <<all, Eat(rest, "]")>>

ObjectBody(map, s0) ==
    LET s == SkipWs(s0)
        key == IF StartsWith(s, Q)
               THEN LET k == Until(From(s, 2), Q) IN <<k[1], Eat(k[2], Q)>>
               ELSE UntilAny(s, {":"})
        v == Value(From(key[2], 2))
        rest == SkipWs(v[2])
        all == (Trim(key[1]) :> v[1]) @@ map
    IN IF s = <<>> \/ StartsWith(s, "}") THEN <<map, s>>
       ELSE IF ~StartsWith(key[2], ":") THEN <<map, key[2]>>
       ELSE IF StartsWith(rest, ",") THEN ObjectBody(all, From(rest, 2)) ELSE <<all, rest>>

Value(s0) ==
    LET s == SkipWs(s0)
        str == Until(From(s, 2), Q)
        arr == Items(<<>>, From(s, 2))
        obj == ObjectBody(<<>>, From(s, 2))
        bare == UntilAny(s, {",", "}", "]"})
    IN CASE StartsWith(s, Q) -> <<Str(str[1]), Eat(str[2], Q)>>
         [] StartsWith(s, "[") -> <<Arr(arr[1]), arr[2]>>
         [] StartsWith(s, "{") -> <<Obj(obj[1]), Eat(obj[2], "}")>>
         [] OTHER -> <<Bare(Trim(bare[1])), bare[2]>>

\* parse_call: the calls in body, one or none, as <<name, arguments>>.
ParseCall(body) ==
    LET open == SelectInSeq(body, LAMBDA c : c = "{")
        inner == From(body, open + 1)
        name == Trim(SubSeq(body, 2, open - 1))
    IN IF ~StartsWith(body, Call) \/ open = 0 \/ name = <<>> THEN {}
       ELSE {<<name, ObjectBody(<<>>, IF Last(inner) = "}" THEN Front(inner) ELSE inner)[1]>>}

\* find_bare_calls: where each call in ordinary text is, from..to, and what it says.
Closes(text, open) ==
    {e \in open..Len(text) : Cardinality({i \in open..e : text[i] = "{"}) = Cardinality({i \in open..e : text[i] = "}"})}
RECURSIVE BareCalls(_, _)
BareCalls(text, from) ==
    LET starts == {i \in from..Len(text) : text[i] = Call}
        opens == {i \in Min(starts)..Len(text) : text[i] = "{"}
        closes == Closes(text, Min(opens))
        call == ParseCall(SubSeq(text, Min(starts), Min(closes)))
    IN IF starts = {} \/ opens = {} \/ closes = {} THEN <<>>
       ELSE IF call = {} THEN BareCalls(text, Min(opens) + 1)
       ELSE <<[from |-> Min(starts), to |-> Min(closes), call |-> CHOOSE c \in call : TRUE]>>
            \o BareCalls(text, Min(closes) + 1)

-----------------------------------------------------------------------------

\* A call that was encoded reads back as the same call, commas and brackets inside
\* its strings included.
CallReadsBack(name, args) == ParseCall(EncodeCall(name, args)) = {<<name, args>>}

\* A call that leaked into the text is found whole, and nothing else is cut away; its
\* strings must not hold a brace without its partner.
BareCallIsFound(before, name, args, after) ==
    LET body == EncodeCall(name, args)
    IN BareCalls(before \o body \o after, 1)
           = <<[from |-> Len(before) + 1, to |-> Len(before) + Len(body), call |-> <<name, args>>]>>
=============================================================================
