---------------------------- MODULE Conversation ----------------------------
(***************************************************************************)
(* What a session promises, with no cache in sight: a turn reads the       *)
(* prompt it was given, every token is then drawn from a distribution      *)
(* conditioned on that prompt followed by the tokens emitted so far in the *)
(* same turn, and nothing of an earlier turn takes part.                   *)
(***************************************************************************)
EXTENDS Sequences

CONSTANTS
    Prompts,  \* what may be asked
    Tokens    \* what may be emitted

VARIABLES
    phase,    \* "idle", "reading" or "answering"
    asked,    \* the prompt of the running turn
    context   \* what the next token is conditioned on

vars == <<phase, asked, context>>

Init == phase = "idle" /\ asked = <<>> /\ context = <<>>

Ask(p) ==
    /\ phase = "idle"
    /\ phase' = "reading"
    /\ asked' = p
    /\ context' = <<>>

Answer ==
    /\ phase = "reading"
    /\ phase' = "answering"
    /\ context' = asked
    /\ UNCHANGED asked

Emit(t) ==
    /\ phase = "answering"
    /\ context' = Append(context, t)
    /\ UNCHANGED <<phase, asked>>

End ==
    /\ phase # "idle"
    /\ phase' = "idle"
    /\ asked' = <<>>
    /\ context' = <<>>

Next ==
    \/ \E p \in Prompts : Ask(p)
    \/ Answer
    \/ \E t \in Tokens : Emit(t)
    \/ End

Spec == Init /\ [][Next]_vars
=============================================================================
