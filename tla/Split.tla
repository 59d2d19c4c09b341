------------------------------- MODULE Split --------------------------------
(***************************************************************************)
(* The pre-tokenizers (crates/tokenizer/src/pre.rs): three regular         *)
(* expressions compiled by hand, so that each scan looks at the character  *)
(* it is at and a run after it, with no backtracking.  Merges stay inside  *)
(* a piece.  A character stands for its class: "<" for any symbol, "^" for *)
(* a mark, "nl" for both line breaks, "s" and "re" for the contractions.   *)
(***************************************************************************)
EXTENDS Integers, Sequences, SequencesExt, FiniteSetsExt

Letters == {"s", "S", "r", "e"}
Numbers == {"1"}
Spaces == {" ", "tab", "nl"}
Chars == Letters \cup Numbers \cup Spaces \cup {"^", "'", "<"}

\* The letters of a word: of qwen35 with the marks, of qwen2 and smollm without.
WithLetters == Letters \cup {"^"}
Standalone == Letters

Lower == [c \in Chars \cup {"end"} |-> IF c = "S" THEN "s" ELSE c]
AsIs == [c \in Chars \cup {"end"} |-> c]
CharAt(text, i) == IF i \in DOMAIN text THEN text[i] ELSE "end"

-----------------------------------------------------------------------------
(* The scans.  An attempt at a position is the end of a piece, or nothing. *)

When(guard, end) == IF guard THEN {end} ELSE {}

\* The first position from i on whose character is not of S.
RunEnd(text, i, S) == Min({j \in i..(Len(text) + 1) : CharAt(text, j) \notin S})

Contraction(text, pos, fold) ==
    LET c(i) == fold[CharAt(text, pos + i)]
    IN When(text[pos] = "'" /\ c(1) = "s", pos + 2)
       \cup When(text[pos] = "'" /\ c(1) = "r" /\ c(2) = "e", pos + 3)

\* A run of white space: all but the last, which goes with the word after it.
Blanks(text, pos) ==
    LET end == RunEnd(text, pos, Spaces)
    IN <<When(end - pos > 1 /\ end <= Len(text), end - 1), When(end > pos, end)>>

QwenTries(text, pos, words) ==
    LET c == text[pos]
        known == words \cup Numbers \cup Spaces
        space == IF c = " " THEN 1 ELSE 0
        newlines == {i \in pos..(RunEnd(text, pos, Spaces) - 1) : text[i] = "nl"}
    IN <<Contraction(text, pos, Lower),
         When(c \notin Numbers \cup {"nl"} /\ {c, CharAt(text, pos + 1)} \cap words # {},
              RunEnd(text, pos + 1, words)),
         When(c \in Numbers, pos + 1),
         When(CharAt(text, pos + space) \notin known,
              RunEnd(text, RunEnd(text, pos + space, Chars \ known), {"nl"})),
         IF newlines = {} THEN {} ELSE {Max(newlines) + 1}>>
       \o Blanks(text, pos) \o <<{pos + 1}>>

Gpt2Tries(text, pos) ==
    LET space == IF text[pos] = " " THEN 1 ELSE 0
        seen == CharAt(text, pos + space)
        known == Letters \cup Numbers \cup Spaces
    IN <<Contraction(text, pos, AsIs),
         When(seen \in Letters, RunEnd(text, pos + space, Letters)),
         When(seen \in Numbers, RunEnd(text, pos + space, Numbers)),
         When(seen \in Chars \ known, RunEnd(text, pos + space, Chars \ known))>>
       \o Blanks(text, pos) \o <<{pos + 1}>>

\* The first attempt that succeeds; where it could end in several places, the last.
FirstOf(tries) == Max(tries[Min({i \in DOMAIN tries : tries[i] # {}})])

\* From the end of one piece to the end of the next.
Pieces(text, ends) ==
    LET from[pos \in 1..(Len(text) + 1)] ==
            IF pos > Len(text) THEN <<>> ELSE <<SubSeq(text, pos, ends[pos] - 1)>> \o from[ends[pos]]
    IN from[1]

\* split_smollm: each numeral alone; what is between them knows nothing of them.
Between(text, pos) == SubSeq(text, 1, RunEnd(text, pos, Chars \ Numbers) - 1)

QwenEnds(text, words) == [pos \in DOMAIN text |-> FirstOf(QwenTries(text, pos, words))]
SmolLMEnds(text) ==
    [pos \in DOMAIN text |->
        IF text[pos] \in Numbers THEN pos + 1 ELSE FirstOf(Gpt2Tries(Between(text, pos), pos))]
Splits(text) ==
    {Pieces(text, QwenEnds(text, words)) : words \in {WithLetters, Standalone}}
    \cup {Pieces(text, SmolLMEnds(text))}

-----------------------------------------------------------------------------
(* The regular expressions, as the ends of everything each alternative     *)
(* matches; the last end is where a greedy match stops.  The last one of   *)
(* smollm stands for what the others leave unmatched.                      *)

AllOf(S, s) == s # <<>> /\ ToSet(s) \subseteq S
OneThen(A, S, s) == AllOf(S, s) \/ (s # <<>> /\ s[1] \in A /\ AllOf(S, Tail(s)))

Matched(text, pos, Matches(_)) == {j \in (pos + 1)..(Len(text) + 1) : Matches(SubSeq(text, pos, j - 1))}
BlanksRegex(text, pos) ==
    LET runs == Matched(text, pos, LAMBDA s : AllOf(Spaces, s))
    IN <<{j \in runs : CharAt(text, j) \in Spaces \cup {"end"}}, runs>>

QwenRegex(text, pos, words) ==
    LET symbols == Chars \ (words \cup Numbers \cup Spaces)
    IN <<Matched(text, pos, LAMBDA s : s \in {<<"'", "s">>, <<"'", "S">>, <<"'", "r", "e">>}),
         Matched(text, pos, LAMBDA s : OneThen(Chars \ (Letters \cup Numbers \cup {"nl"}), words, s)),
         Matched(text, pos, LAMBDA s : Len(s) = 1 /\ AllOf(Numbers, s)),
         Matched(text, pos, LAMBDA s : \E k \in 1..Len(s) :
             /\ OneThen({" "}, symbols, SubSeq(s, 1, k))
             /\ \A i \in (k + 1)..Len(s) : s[i] = "nl"),
         Matched(text, pos, LAMBDA s : AllOf(Spaces, s) /\ Last(s) = "nl")>>
       \o BlanksRegex(text, pos)

Gpt2Regex(text, pos) ==
    <<Matched(text, pos, LAMBDA s : s \in {<<"'", "s">>, <<"'", "r", "e">>}),
      Matched(text, pos, LAMBDA s : OneThen({" "}, Letters, s)),
      Matched(text, pos, LAMBDA s : OneThen({" "}, Numbers, s)),
      Matched(text, pos, LAMBDA s : OneThen({" "}, Chars \ (Letters \cup Numbers \cup Spaces), s))>>
    \o BlanksRegex(text, pos)

\* Wherever a piece may begin, the scan ends it where the regular expression does; that
\* of smollm is matched to what is left when the numerals are cut out.
SplitsAsRegex(text) ==
    \A pos \in DOMAIN text :
        /\ \A words \in {WithLetters, Standalone} :
               QwenEnds(text, words)[pos] = FirstOf(QwenRegex(text, pos, words))
        /\ \A end \in pos..Len(text) :
               LET left == SubSeq(text, 1, end)
               IN AllOf(Chars \ Numbers, SubSeq(left, pos, end)) /\ CharAt(text, end + 1) \in Numbers \cup {"end"}
                  => SmolLMEnds(text)[pos] = FirstOf(Gpt2Regex(left, pos))
        /\ text[pos] \in Numbers => SmolLMEnds(text)[pos] = pos + 1

\* No piece is spelled like a control token, a name between two symbols: merging
\* never makes one out of what a user wrote.
ControlsShatter(text) ==
    \A piece \in UNION {ToSet(pieces) : pieces \in Splits(text)} :
        piece[1] = "<" /\ Last(piece) = "<" => ToSet(piece) \cap Letters = {}
=============================================================================
