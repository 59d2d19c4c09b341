-------------------------------- MODULE Repl --------------------------------
(***************************************************************************)
(* The private REPL (crates/server/src/bin/llmoxide-private.rs): a thread  *)
(* that reads lines and a thread that owns the engine, with a command      *)
(* channel between them, an event channel for each turn, and a flag set    *)
(* by ctrl-C at any moment.                                                *)
(***************************************************************************)
EXTENDS Integers, Sequences

CONSTANTS
    MaxTurns,   \* bound: prompts entered
    MaxTokens   \* bound: events of a turn

VARIABLES
    at,       \* "prompt", "turn", "wiping", "quitting", "joining", "left"; "broken" on a failed read
    history,  \* roles of the conversation
    flag,     \* INTERRUPTED
    signals,  \* aux: ctrl-C came since the prompt was handed over
    cut,      \* aux: the turns broken off at the flag, and had ctrl-C come during them
    turn,     \* the number of the turn
    cmds,     \* the command channel: turns, and WipeCmd
    engine,   \* Loop, Dead after a panic, Over; or the turn it generates for
    events,   \* what the turn in hand was sent and has not read
    sent,     \* how many events the engine made for it
    open,     \* the turn's receiver is there
    held,     \* "data" of the conversation in the session, "clean", or "freed" with the thread
    said      \* the last line printed about a wipe

WipeCmd == 0
Loop == 0
Dead == -1
Over == -2

engineVars == <<cmds, engine, events, sent, held>>
vars == <<at, history, flag, signals, cut, turn, open, said, engineVars>>

Init ==
    /\ at = "prompt" /\ history = <<>> /\ flag = FALSE /\ signals = FALSE /\ cut = {}
    /\ turn = 0 /\ cmds = <<>> /\ engine = Loop /\ events = <<>> /\ sent = 0
    /\ open = FALSE /\ held = "clean" /\ said = "nothing"

Listening == engine \notin {Dead, Over}
Send(cmd) == cmds' = IF Listening THEN Append(cmds, cmd) ELSE cmds

-----------------------------------------------------------------------------
(* The thread that reads lines.                                            *)

\* on_sigint.
CtrlC == /\ at \in {"turn", "wiping", "quitting", "joining"} /\ ~flag
         /\ flag' = TRUE /\ signals' = TRUE
         /\ UNCHANGED <<at, history, cut, turn, open, said, engineVars>>

\* INTERRUPTED.store(false): what came before the prompt does not cut its reply.
Reset == flag' = FALSE
AtHandoverNothing == UNCHANGED flag
AtHandover == Reset

Prompt ==
    /\ at = "prompt" /\ turn < MaxTurns
    /\ turn' = turn + 1
    /\ AtHandover /\ signals' = FALSE
    /\ IF Listening
       THEN /\ at' = "turn" /\ open' = TRUE
            /\ events' = <<>> /\ sent' = 0
            /\ history' = Append(history, "user")
       ELSE \* engine thread gone: the prompt is popped again
            UNCHANGED <<at, open, events, sent, history>>
    /\ Send(turn')
    /\ said' = "nothing"
    /\ UNCHANGED <<cut, engine, held>>

Replied == Append(history, "assistant")
AfterError == SubSeq(history, 1, Len(history) - 1)

\* `for ev in rx_ev`: the flag is looked at once an event is there.
ReadEvent ==
    /\ at = "turn" /\ events # <<>>
    /\ events' = Tail(events)
    /\ IF flag
       THEN /\ cut' = cut \cup {<<turn, signals>>}
            /\ at' = "prompt" /\ open' = FALSE /\ history' = Replied
       ELSE /\ UNCHANGED cut
            /\ CASE Head(events) = "token" -> UNCHANGED <<at, open, history>>
                 [] Head(events) = "done" -> at' = "prompt" /\ open' = FALSE /\ history' = Replied
                 [] Head(events) = "error" -> at' = "prompt" /\ open' = FALSE /\ history' = AfterError
    /\ UNCHANGED <<flag, signals, turn, said, cmds, engine, sent, held>>

\* The sender is gone with the command, and no event told: the reply is what there was.
SenderGone == engine \in {Dead, Over} \/ (engine = Loop /\ turn \notin {cmds[i] : i \in DOMAIN cmds})
EventsEnd ==
    /\ at = "turn" /\ events = <<>> /\ SenderGone
    /\ at' = "prompt" /\ open' = FALSE /\ history' = Replied
    /\ UNCHANGED <<flag, signals, cut, turn, said, engineVars>>

\* /wipe and /new, and what a /quit or ctrl-D begins with.
Wipe(then) ==
    /\ at = "prompt"
    /\ history' = IF then = "wiping" THEN <<>> ELSE history
    /\ Send(WipeCmd) /\ at' = then
    /\ said' = "nothing"
    /\ UNCHANGED <<flag, signals, cut, turn, open, engine, events, sent, held>>

\* wait.recv(): answered, or the sender is gone with the engine.
AckNeverAwaited == TRUE
AckOrGone == WipeCmd \notin {cmds[i] : i \in DOMAIN cmds}
WipeWaits ==
    /\ AckOrGone
    /\ \/ at = "wiping" /\ at' = "prompt" /\ said' = "wiped" /\ UNCHANGED history
       \/ at = "quitting" /\ at' = "joining" /\ said' = "nothing" /\ history' = <<>>
    /\ UNCHANGED <<flag, signals, cut, turn, open, engineVars>>

\* drop(tx_cmd) and join.
Join == /\ at = "joining" /\ engine \in {Dead, Over}
        /\ at' = "left" /\ said' = "exited"
        /\ UNCHANGED <<history, flag, signals, cut, turn, open, engineVars>>

\* readline failed: main returns, and the process ends under the engine thread.
ReadFails == /\ at = "prompt" /\ at' = "broken" /\ said' = "nothing"
             /\ UNCHANGED <<history, flag, signals, cut, turn, open, engineVars>>

Read == Prompt \/ ReadEvent \/ EventsEnd \/ WipeWaits \/ Join \/ ReadFails
        \/ \E then \in {"wiping", "quitting"} : Wipe(then)

-----------------------------------------------------------------------------
(* The engine thread.                                                      *)

Running == at # "left" /\ at # "broken"
Front == UNCHANGED <<at, history, flag, signals, cut, turn, open, said>>

TakeGen == /\ Running /\ engine = Loop /\ cmds # <<>> /\ Head(cmds) # WipeCmd
           /\ engine' = Head(cmds) /\ cmds' = Tail(cmds)
           /\ held' = "data" /\ UNCHANGED <<events, sent>> /\ Front

TakeWipe == /\ Running /\ engine = Loop /\ cmds # <<>> /\ Head(cmds) = WipeCmd
            /\ held' = "clean" /\ cmds' = Tail(cmds)
            /\ UNCHANGED <<engine, events, sent>> /\ Front

Generating == Running /\ engine \in 1..MaxTurns

\* A send into a dropped receiver fails, and generate_to stops there.
Generate ==
    /\ Generating
    /\ \/ open /\ engine = turn /\ sent < MaxTokens
          /\ events' = Append(events, "token") /\ sent' = sent + 1 /\ UNCHANGED engine
       \/ open /\ engine = turn
          /\ \E last \in {"done", "error"} : events' = Append(events, last)
          /\ engine' = Loop /\ UNCHANGED sent
       \/ ~(open /\ engine = turn) /\ engine' = Loop /\ UNCHANGED <<events, sent>>
    /\ UNCHANGED <<cmds, held>> /\ Front

\* The thread unwinds: the session, the commands and every sender go with it.
EnginePanic == /\ Generating
               /\ engine' = Dead /\ cmds' = <<>> /\ held' = "freed"
               /\ UNCHANGED <<events, sent>> /\ Front

\* recv fails once the channel is closed: the last wipe.
EngineEnds == /\ at = "joining" /\ engine = Loop /\ cmds = <<>>
              /\ engine' = Over /\ held' = "clean"
              /\ UNCHANGED <<cmds, events, sent>> /\ Front

Work == TakeGen \/ TakeWipe \/ Generate \/ EngineEnds

Next == CtrlC \/ Read \/ Work \/ EnginePanic

-----------------------------------------------------------------------------
(* Properties.                                                             *)

\* "wiped" is printed only when nothing of the conversation is left in the session, and
\* "wiped and exited" only after the engine's own last wipe: a generation the reader
\* walked away from may still be running when the wipe is asked for.  After a panic the
\* session is gone with its thread, freed and not wiped.
WipedMeansWiped ==
    said \in {"wiped", "exited"} =>
        held = (IF engine = Dead THEN "freed" ELSE "clean") /\ history = <<>> /\ cmds = <<>>

\* A ctrl-C that came too late for its turn never cuts the next one.
CutsOwnTurn == \A c \in cut : c[2]

\* Whatever ended a turn, the prompts replayed to the engine alternate with replies.
HistoryAlternates ==
    \A i \in DOMAIN history : history[i] = IF i % 2 = 1 THEN "user" ELSE "assistant"
=============================================================================
