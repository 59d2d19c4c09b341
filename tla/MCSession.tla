----------------------------- MODULE MCSession -----------------------------
(* Session over two ordinary tokens and an end token, with every prompt of  *)
(* up to MaxLen positions whose embedding spans fit a batch.                *)
EXTENDS Session, SequencesExt
CONSTANTS MaxLen, a, b, stop

MCTokens == {a, b, stop}
MCPrompts ==
    {p \in SeqOf({a, b, Embed}, MaxLen) : Len(p) > 0 /\ SpansFit(p)}
=============================================================================
