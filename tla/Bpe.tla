-------------------------------- MODULE Bpe --------------------------------
(***************************************************************************)
(* The tokenizer (crates/tokenizer/src/lib.rs): merging with a queue of    *)
(* pairs that may have gone stale, and the decoder that holds back partial *)
(* characters.  A text is a sequence of characters, a token's spelling a   *)
(* text of numbers from 1, and <<0, c>> the byte token of c; a byte is a   *)
(* number by its kind in UTF-8.                                            *)
(***************************************************************************)
EXTENDS Integers, Sequences, SequencesExt, FiniteSetsExt

-----------------------------------------------------------------------------
(* Encoding.                                                               *)

CONSTANT Vocab  \* the spellings with an id, each standing for its own id

\* from_gguf: rank by place in the list; a merge of unknown spellings is passed over,
\* and of two for the same pair the first counts.
Merges(list) ==
    LET known == {i \in DOMAIN list :
                     {list[i][1], list[i][2], list[i][1] \o list[i][2]} \subseteq Vocab}
    IN [pair \in {list[i] : i \in known} |-> Min({i \in known : list[i] = pair})]

NoId == <<>>
Seed(c) == IF <<c>> \in Vocab THEN <<c>> ELSE NoId
Seeds(text) ==
    [i \in DOMAIN text |-> [id |-> Seed(text[i]), text |-> <<text[i]>>, alive |-> TRUE,
                            prev |-> i - 1, next |-> IF i = Len(text) THEN 0 ELSE i + 1]]

\* push_bigram: the pair as it is now, if it merges.
Bigram(merges, syms, l, r) ==
    IF l = 0 \/ r = 0 \/ <<syms[l].id, syms[r].id>> \notin DOMAIN merges THEN {}
    ELSE {[rank |-> merges[<<syms[l].id, syms[r].id>>], left |-> l, right |-> r,
           ids |-> <<syms[l].id, syms[r].id>>]}

\* The lowest rank, then the leftmost.
First(heap) == CHOOSE b \in heap : \A o \in heap : b.rank < o.rank \/ (b.rank = o.rank /\ b.left <= o.left)

StaleByPlace(syms, b) == ~syms[b.left].alive \/ ~syms[b.right].alive \/ syms[b.left].next # b.right
Stale(syms, b) == \/ ~syms[b.left].alive \/ ~syms[b.right].alive \/ syms[b.left].next # b.right
                  \/ <<syms[b.left].id, syms[b.right].id>> # b.ids

Joined(syms, b) ==
    LET l == b.left
        nxt == syms[b.right].next
        joined == [syms EXCEPT ![l].id = b.ids[1] \o b.ids[2], ![l].text = @ \o syms[b.right].text,
                               ![l].next = nxt, ![b.right].alive = FALSE]
    IN IF nxt = 0 THEN joined ELSE [joined EXCEPT ![nxt].prev = l]

RECURSIVE Merge(_, _, _)
Merge(merges, syms, heap) ==
    IF heap = {} THEN syms
    ELSE LET b == First(heap)
             left == heap \ {b}
             after == Joined(syms, b)
         IN IF Stale(syms, b) THEN Merge(merges, syms, left)
            ELSE Merge(merges, after,
                       left \cup Bigram(merges, after, b.left, after[b.left].next)
                            \cup Bigram(merges, after, after[b.left].prev, b.left))

\* A symbol without an id falls back on the bytes of its text, one token for each.
Emitted(sym) == IF sym.id = NoId THEN [i \in DOMAIN sym.text |-> <<0, sym.text[i]>>] ELSE <<sym.id>>

RECURSIVE Emit(_, _)
Emit(syms, i) == IF i = 0 THEN <<>> ELSE Emitted(syms[i]) \o Emit(syms, syms[i].next)

Encode(list, text) ==
    IF text = <<>> THEN <<>>
    ELSE LET merges == Merges(list)
             syms == Seeds(text)
             heap == UNION {Bigram(merges, syms, i, i + 1) : i \in 1..(Len(text) - 1)}
         IN Emit(Merge(merges, syms, heap), 1)

\* What BPE is: join the best pair there is, until there is none.
RECURSIVE Greedy(_, _)
Greedy(list, tokens) ==
    LET at == {i \in 1..(Len(tokens) - 1) : <<tokens[i], tokens[i + 1]>> \in DOMAIN Merges(list)}
        rank(i) == Merges(list)[<<tokens[i], tokens[i + 1]>>]
        best == CHOOSE i \in at : \A j \in at : rank(i) < rank(j) \/ (rank(i) = rank(j) /\ i <= j)
    IN IF at = {} THEN tokens
       ELSE Greedy(list, SubSeq(tokens, 1, best - 1) \o <<tokens[best] \o tokens[best + 1]>>
                             \o SubSeq(tokens, best + 2, Len(tokens)))
Characters(text) == [i \in DOMAIN text |-> IF Seed(text[i]) = NoId THEN <<0, text[i]>> ELSE Seed(text[i])]

\* The queue gives the tokens that merging by hand gives, though most of what is popped
\* may describe pairs that are no more.
EncodesAsGreedy(list, text) == Encode(list, text) = Greedy(list, Characters(text))

-----------------------------------------------------------------------------
(* Decoding.                                                               *)

\* The kinds of a byte: a whole character, the lead of 2 or 3, a continuation, none.
One == 1
Cont == 0
Broken == 9
Bytes == {Cont, One, 2, 3, Broken}
Wholes == {<<One>>, <<2, Cont>>, <<3, Cont, Cont>>}
Partials == {<<2>>, <<3>>, <<3, Cont>>}

\* from_utf8: how long the valid prefix is, and whether the rest is only cut short.
RECURSIVE ValidUpTo(_)
ValidUpTo(bytes) ==
    IF \E w \in Wholes : IsPrefix(w, bytes)
    THEN LET w == CHOOSE w \in Wholes : IsPrefix(w, bytes)
         IN Len(w) + ValidUpTo(SubSeq(bytes, Len(w) + 1, Len(bytes)))
    ELSE 0
CutShort(bytes) == SubSeq(bytes, ValidUpTo(bytes) + 1, Len(bytes)) \in Partials

\* take_valid: what is emitted, a replaced byte as Broken, and what stays pending.
Lossy(bytes) == [i \in DOMAIN bytes |-> Broken]
TakeValid(pending) ==
    LET good == ValidUpTo(pending)
    IN CASE good = 0 /\ CutShort(pending) -> <<<<>>, pending>>
         [] good = 0 /\ ~CutShort(pending) -> <<Lossy(pending), <<>>>>
         [] OTHER -> <<SubSeq(pending, 1, good), SubSeq(pending, good + 1, Len(pending))>>

\* Decoder::push for each token, then flush.
Decode(tokens) ==
    LET fed == FoldLeft(LAMBDA d, t : LET taken == TakeValid(d[2] \o t) IN <<d[1] \o taken[1], taken[2]>>,
                        <<<<>>, <<>>>>, tokens)
    IN fed[1] \o Lossy(fed[2])

\* However a text is cut into tokens, the decoder gives it back whole.
DecodesWhole(tokens) ==
    ValidUpTo(FlattenSeq(tokens)) = Len(FlattenSeq(tokens)) => Decode(tokens) = FlattenSeq(tokens)
=============================================================================
