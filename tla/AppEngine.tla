----------------------------- MODULE AppEngine -----------------------------
(***************************************************************************)
(* The engine thread of llmoxide-app (crates/app/src/engine.rs), the       *)
(* handle the window talks to it through, and the exit paths of main.rs.   *)
(*                                                                         *)
(* One thread owns the model.  It takes Load, Gen and Wipe commands from a *)
(* FIFO channel and runs each to its end.  The user's side queues commands *)
(* and drops a turn's receiver to cancel it.  A thread leaving the process *)
(* calls shutdown(), which raises `closing`, queues one last Wipe and      *)
(* waits for it; then the process ends, and every other thread with it.    *)
(*                                                                         *)
(* What the model's memory holds is abstracted to `held`, the set of       *)
(* conversations of which prompt- or response-derived data is resident.    *)
(* A turn is what Session makes of it: it may resume or overwrite what is  *)
(* resident, it may fail, and it draws finitely many tokens.               *)
(***************************************************************************)
EXTENDS Integers, Sequences

CONSTANTS
    Exiters,       \* threads that may call shutdown() and end the process
    UiThread,      \* the one the window runs on, in Exiters or not
    MaxSteps,      \* MAX_STEPS, rounds of tool calls in a turn (8)
    EnginePanics,  \* whether the engine thread may panic
    MaxTurns,      \* bound: turns sent
    MaxConvs,      \* bound: conversations, one more than New chat presses
    MaxLoads,      \* bound: models loaded
    MaxTokens,     \* bound: tokens of one round (2048 in the code)
    MaxCalls       \* bound: tool calls in one reply

ASSUME BoundsAssumption ==
    /\ MaxSteps \in Nat /\ MaxTurns \in Nat /\ MaxLoads \in Nat
    /\ MaxTokens \in Nat /\ MaxCalls \in Nat /\ MaxConvs \in Nat \ {0}
    /\ EnginePanics \in BOOLEAN
    /\ "window" \notin Exiters

Turns == 1..MaxTurns
Convs == 1..MaxConvs
None == 0

VARIABLES
    \* shared
    chan,      \* commands sent and not yet received
    loading,   \* Engine::loading
    closing,   \* Engine::closing
    alive,     \* the process exists
    \* the engine thread
    pc,        \* what it is doing
    cmd,       \* the command in hand
    model,     \* a session is loaded
    held,      \* conversations resident in it
    step,      \* round of the running turn
    toks,      \* tokens drawn in this round
    calls,     \* tool calls of this round still to run
    late,      \* tool calls run after the receiver was dropped
    \* the window
    conv,      \* the conversation on screen
    running,   \* the turn whose task is running, or None
    turnConv,  \* turn -> the conversation it was sent from, None if unsent
    receiver,  \* turn -> "none", "open" or "dropped"
    loads,     \* models asked for
    \* what came back
    outcome,   \* turn -> "none", "done", "error", or "lost" if never run
    wiped,     \* conversations whose New chat wipe has resolved
    exit       \* thread -> how far it is in leaving the process

engineVars == <<pc, cmd, model, held, step, toks, calls, late>>
uiVars == <<conv, running, turnConv, receiver, loads>>
vars == <<chan, loading, closing, alive, engineVars, uiVars, outcome, wiped, exit>>

Load == [op |-> "load"]
Gen(t) == [op |-> "gen", turn |-> t]
Wipe(c) == [op |-> "wipe", conv |-> c, by |-> "window"]
LastWipe(e) == [op |-> "wipe", conv |-> None, by |-> e]
Nothing == [op |-> "none"]

Init ==
    /\ chan = <<>>
    /\ loading = FALSE /\ closing = FALSE /\ alive = TRUE
    /\ pc = "recv" /\ cmd = Nothing
    /\ model = FALSE /\ held = {}
    /\ step = 0 /\ toks = 0 /\ calls = 0 /\ late = 0
    /\ conv = 1 /\ running = None /\ loads = 0
    /\ turnConv = [t \in Turns |-> None]
    /\ receiver = [t \in Turns |-> "none"]
    /\ outcome = [t \in Turns |-> "none"]
    /\ wiped = {}
    /\ exit = [e \in Exiters |-> "run"]

-----------------------------------------------------------------------------
(* The window.  Its thread does nothing more once it is leaving.           *)

WindowRuns == alive /\ (UiThread \in Exiters => exit[UiThread] = "run")

\* Task::cancel drops the future, and its receiver with it.
TaskCancelled ==
    /\ running' = None
    /\ receiver' = IF running = None THEN receiver
                   ELSE [receiver EXCEPT ![running] = "dropped"]

\* Engine::generate, from a window with no turn running.
SendTurn(t) ==
    /\ WindowRuns
    /\ running = None
    /\ turnConv[t] = None
    /\ \A u \in Turns : u < t => turnConv[u] # None
    /\ chan' = Append(chan, Gen(t))
    /\ running' = t
    /\ turnConv' = [turnConv EXCEPT ![t] = conv]
    /\ receiver' = [receiver EXCEPT ![t] = "open"]
    /\ UNCHANGED <<loading, closing, alive, engineVars, conv, loads, outcome,
                   wiped, exit>>

\* The task has read the turn's last message, or the end of the stream.
TurnRead ==
    /\ WindowRuns
    /\ running # None
    /\ outcome[running] # "none"
    /\ TaskCancelled
    /\ UNCHANGED <<chan, loading, closing, alive, engineVars, conv, turnConv,
                   loads, outcome, wiped, exit>>

Stop ==
    /\ WindowRuns
    /\ running # None
    /\ TaskCancelled
    /\ UNCHANGED <<chan, loading, closing, alive, engineVars, conv, turnConv,
                   loads, outcome, wiped, exit>>

\* The load at launch, or a file chosen in the picker, which stops the turn.
PickModel ==
    /\ WindowRuns
    /\ loads < MaxLoads
    /\ loads' = loads + 1
    /\ chan' = Append(chan, Load)
    /\ TaskCancelled
    /\ UNCHANGED <<loading, closing, alive, engineVars, conv, turnConv, outcome,
                   wiped, exit>>

NewChatJumpsQueue ==
    /\ WindowRuns
    /\ conv < MaxConvs
    /\ conv' = conv + 1
    /\ chan' = <<Wipe(conv)>> \o chan
    /\ TaskCancelled
    /\ UNCHANGED <<loading, closing, alive, engineVars, turnConv, loads, outcome,
                   wiped, exit>>

\* New chat: stop, clear the window's copy, and have the engine wipe its own.
NewChat ==
    /\ WindowRuns
    /\ conv < MaxConvs
    /\ conv' = conv + 1
    /\ chan' = Append(chan, Wipe(conv))
    /\ TaskCancelled
    /\ UNCHANGED <<loading, closing, alive, engineVars, turnConv, loads, outcome,
                   wiped, exit>>

Window ==
    \/ \E t \in Turns : SendTurn(t)
    \/ TurnRead \/ Stop \/ PickModel \/ NewChat

-----------------------------------------------------------------------------
(* The engine thread: run() and turn().                                    *)

Turn == cmd.turn
Cancelled == receiver[Turn] = "dropped"
NextCommand == alive /\ pc = "recv" /\ chan # <<>>
Ends(result) ==
    /\ outcome' = [outcome EXCEPT ![Turn] = result]
    /\ pc' = "recv"
    /\ cmd' = Nothing
    /\ step' = 0 /\ toks' = 0 /\ calls' = 0 /\ late' = 0

\* A load or a turn received once closing is set is dropped, its reply
\* channel with it.
Drop ==
    /\ NextCommand
    /\ closing
    /\ Head(chan).op \in {"load", "gen"}
    /\ chan' = Tail(chan)
    /\ outcome' = IF Head(chan).op = "gen"
                  THEN [outcome EXCEPT ![Head(chan).turn] = "lost"] ELSE outcome
    /\ UNCHANGED <<loading, closing, alive, engineVars, uiVars, wiped, exit>>

TakeLoad ==
    /\ NextCommand
    /\ ~closing
    /\ Head(chan).op = "load"
    /\ chan' = Tail(chan)
    /\ cmd' = Load
    /\ pc' = "wipeOld"
    /\ UNCHANGED <<loading, closing, alive, model, held, step, toks, calls, late,
                   uiVars, outcome, wiped, exit>>

WipeOldDropsOnly ==
    /\ alive
    /\ pc = "wipeOld"
    /\ model' = FALSE
    /\ pc' = "mark"
    /\ UNCHANGED <<chan, loading, closing, alive, cmd, held, step, toks, calls,
                   late, uiVars, outcome, wiped, exit>>

\* The model in use is wiped and dropped before the next one is opened.
WipeOld ==
    /\ alive
    /\ pc = "wipeOld"
    /\ model' = FALSE
    /\ held' = {}
    /\ pc' = "mark"
    /\ UNCHANGED <<chan, loading, closing, alive, cmd, step, toks, calls, late,
                   uiVars, outcome, wiped, exit>>

MarkLoading ==
    /\ alive
    /\ pc = "mark"
    /\ loading' = TRUE
    /\ pc' = "load"
    /\ UNCHANGED <<chan, closing, alive, cmd, model, held, step, toks, calls,
                   late, uiVars, outcome, wiped, exit>>

\* Session::load returned; a failed load leaves no model at all.
LoadEnds(ok) ==
    /\ alive
    /\ pc = "load"
    /\ loading' = FALSE
    /\ model' = ok
    /\ pc' = "recv"
    /\ cmd' = Nothing
    /\ UNCHANGED <<chan, closing, alive, held, step, toks, calls, late, uiVars,
                   outcome, wiped, exit>>

\* A turn with no model to run it on.
RefuseTurn ==
    /\ NextCommand
    /\ ~closing
    /\ Head(chan).op = "gen"
    /\ ~model
    /\ chan' = Tail(chan)
    /\ outcome' = [outcome EXCEPT ![Head(chan).turn] = "error"]
    /\ UNCHANGED <<loading, closing, alive, engineVars, uiVars, wiped, exit>>

TakeTurnWhileClosing ==
    /\ NextCommand
    /\ Head(chan).op = "gen"
    /\ model
    /\ chan' = Tail(chan)
    /\ cmd' = Head(chan)
    /\ pc' = "prefill"
    /\ UNCHANGED <<loading, closing, alive, model, held, step, toks, calls, late,
                   uiVars, outcome, wiped, exit>>

TakeTurn ==
    /\ NextCommand
    /\ ~closing
    /\ Head(chan).op = "gen"
    /\ model
    /\ chan' = Tail(chan)
    /\ cmd' = Head(chan)
    /\ pc' = "prefill"
    /\ UNCHANGED <<loading, closing, alive, model, held, step, toks, calls, late,
                   uiVars, outcome, wiped, exit>>

\* generate_with up to the first token: the prompt is resident, on its own or
\* after what it extends.
Prefill ==
    /\ alive
    /\ pc = "prefill"
    /\ held' \in {{turnConv[Turn]}, held \union {turnConv[Turn]}}
    /\ toks' = 0
    /\ pc' = "token"
    /\ UNCHANGED <<chan, loading, closing, alive, cmd, model, step, calls, late,
                   uiVars, outcome, wiped, exit>>

\* generate_with returns Err: the prompt was refused, or a forward call failed
\* with some, all or none of it resident.
RoundFails ==
    /\ alive
    /\ pc \in {"prefill", "token"}
    /\ held' \in {held, {}, {turnConv[Turn]}, held \union {turnConv[Turn]}}
    /\ Ends("error")
    /\ UNCHANGED <<chan, loading, closing, alive, model, uiVars, wiped, exit>>

\* ChannelSink::token: stop if closing, or if the text cannot be delivered.
\* A token that completes no text is not sent, so it cannot fail.
Token(hasText) ==
    /\ alive
    /\ pc = "token"
    /\ toks < MaxTokens
    /\ IF closing \/ (hasText /\ Cancelled)
       THEN pc' = "round" /\ UNCHANGED toks
       ELSE toks' = toks + 1 /\ UNCHANGED pc
    /\ UNCHANGED <<chan, loading, closing, alive, cmd, model, held, step, calls,
                   late, uiVars, outcome, wiped, exit>>

\* The model ended its reply, a stop string matched, or tokens ran out.
RoundStops ==
    /\ alive
    /\ pc = "token"
    /\ pc' = "round"
    /\ UNCHANGED <<chan, loading, closing, alive, cmd, model, held, step, toks,
                   calls, late, uiVars, outcome, wiped, exit>>

DeclaredAlways == MaxCalls

\* Calls to tools the request did not declare have been filtered out, and none
\* are declared in the last round.
Declared == IF step = MaxSteps THEN 0 ELSE MaxCalls

\* turn() with the round's reply in hand: an answer, or calls nobody waits for.
Answer ==
    /\ alive
    /\ pc = "round"
    /\ Ends("done")
    /\ UNCHANGED <<chan, loading, closing, alive, model, held, uiVars, wiped,
                   exit>>

RunCalls(n) ==
    /\ alive
    /\ pc = "round"
    /\ n \in 1..Declared
    /\ ~Cancelled /\ ~closing
    /\ calls' = n
    /\ pc' = "tools"
    /\ UNCHANGED <<chan, loading, closing, alive, cmd, model, held, step, toks,
                   late, uiVars, outcome, wiped, exit>>

\* read::call, one of the round's.
ToolCall ==
    /\ alive
    /\ pc = "tools"
    /\ calls > 0
    /\ calls' = calls - 1
    /\ late' = IF Cancelled THEN late + 1 ELSE late
    /\ UNCHANGED <<chan, loading, closing, alive, pc, cmd, model, held, step,
                   toks, uiVars, outcome, wiped, exit>>

NextRoundUncounted ==
    /\ alive
    /\ pc = "tools"
    /\ calls = 0
    /\ ~Cancelled
    /\ pc' = "prefill"
    /\ UNCHANGED <<chan, loading, closing, alive, cmd, model, held, step, toks,
                   calls, late, uiVars, outcome, wiped, exit>>

\* The results go to the window, and into the prompt of the next round.
NextRound ==
    /\ alive
    /\ pc = "tools"
    /\ calls = 0
    /\ ~Cancelled
    /\ IF step < MaxSteps THEN step' = step + 1 /\ pc' = "prefill"
       ELSE pc' = "unreachable" /\ UNCHANGED step
    /\ UNCHANGED <<chan, loading, closing, alive, cmd, model, held, toks, calls,
                   late, uiVars, outcome, wiped, exit>>

ResultsUnread ==
    /\ alive
    /\ pc = "tools"
    /\ calls = 0
    /\ Cancelled
    /\ Ends("done")
    /\ UNCHANGED <<chan, loading, closing, alive, model, held, uiVars, wiped,
                   exit>>

TakeWipe ==
    /\ NextCommand
    /\ Head(chan).op = "wipe"
    /\ chan' = Tail(chan)
    /\ cmd' = Head(chan)
    /\ held' = {}
    /\ pc' = "ack"
    /\ UNCHANGED <<loading, closing, alive, model, step, toks, calls, late,
                   uiVars, outcome, wiped, exit>>

\* The wipe is done: whoever waits for it may go on.
AckWipe ==
    /\ alive
    /\ pc = "ack"
    /\ pc' = "recv"
    /\ cmd' = Nothing
    /\ IF cmd.by = "window"
       THEN wiped' = wiped \union {cmd.conv} /\ UNCHANGED exit
       ELSE exit' = [exit EXCEPT ![cmd.by] = "cleaned"] /\ UNCHANGED wiped
    /\ UNCHANGED <<chan, loading, closing, alive, model, held, step, toks, calls,
                   late, uiVars, outcome>>

\* The panic hook on the engine thread: it cannot wait for itself, so it
\* leaves by _exit at once.
EnginePanic ==
    /\ EnginePanics
    /\ alive
    /\ pc # "recv"
    /\ alive' = FALSE
    /\ UNCHANGED <<chan, loading, closing, engineVars, uiVars, outcome, wiped,
                   exit>>

EngineStep ==
    \/ Drop \/ TakeLoad \/ WipeOld \/ MarkLoading
    \/ \E ok \in BOOLEAN : LoadEnds(ok)
    \/ RefuseTurn \/ TakeTurn \/ Prefill \/ RoundFails
    \/ \E hasText \in BOOLEAN : Token(hasText)
    \/ RoundStops \/ Answer
    \/ \E n \in 1..MaxCalls : RunCalls(n)
    \/ ToolCall \/ NextRound \/ ResultsUnread
    \/ TakeWipe \/ AckWipe

-----------------------------------------------------------------------------
(* Leaving the process: main() after the window closed, on_exit, the       *)
(* signal watcher and the panic hook all call shutdown() and then exit.    *)

\* shutdown(): only the first caller goes on; the others return at once.
Swap(e) ==
    /\ alive
    /\ exit[e] = "run"
    /\ closing' = TRUE
    /\ exit' = [exit EXCEPT ![e] = IF closing THEN "skipped" ELSE "check"]
    /\ UNCHANGED <<chan, loading, alive, engineVars, uiVars, outcome, wiped>>

CheckWaitsOutLoad(e) ==
    /\ alive
    /\ exit[e] = "check"
    /\ exit' = [exit EXCEPT ![e] = "wait"]
    /\ chan' = IF loading THEN chan ELSE Append(chan, LastWipe(e))
    /\ UNCHANGED <<loading, closing, alive, engineVars, uiVars, outcome, wiped>>

\* Mid-load there is nothing to wipe; otherwise queue a wipe and wait.
Check(e) ==
    /\ alive
    /\ exit[e] = "check"
    /\ IF loading
       THEN exit' = [exit EXCEPT ![e] = "cleaned"] /\ UNCHANGED chan
       ELSE /\ exit' = [exit EXCEPT ![e] = "wait"]
            /\ chan' = Append(chan, LastWipe(e))
    /\ UNCHANGED <<loading, closing, alive, engineVars, uiVars, outcome, wiped>>

\* shutdown() has returned and the process ends.
Leave(e) ==
    /\ alive
    /\ exit[e] \in {"cleaned", "skipped"}
    /\ alive' = FALSE
    /\ UNCHANGED <<chan, loading, closing, engineVars, uiVars, outcome, wiped,
                   exit>>

Next ==
    \/ Window
    \/ EngineStep
    \/ EnginePanic
    \/ \E e \in Exiters : Swap(e) \/ Check(e) \/ Leave(e)

\* Threads are scheduled.  The user owes nothing: no turn has to be sent, and
\* nobody has to leave.
Fairness ==
    /\ WF_vars(EngineStep)
    /\ \A e \in Exiters : WF_vars(Check(e) \/ Leave(e))

Spec == Init /\ [][Next]_vars
FairSpec == Spec /\ Fairness

-----------------------------------------------------------------------------
Commands ==
    {Load} \union {Gen(t) : t \in Turns} \union {Wipe(c) : c \in Convs}
        \union {LastWipe(e) : e \in Exiters}

\* Every variable stays within its declared range.
TypeOK ==
    /\ chan \in Seq(Commands)
    /\ loading \in BOOLEAN /\ closing \in BOOLEAN /\ alive \in BOOLEAN
    /\ pc \in {"recv", "wipeOld", "mark", "load", "prefill", "token", "round",
               "tools", "ack"}
    /\ cmd \in Commands \union {Nothing}
    /\ model \in BOOLEAN
    /\ held \subseteq Convs
    /\ step \in 0..MaxSteps /\ toks \in 0..MaxTokens
    /\ calls \in 0..MaxCalls /\ late \in Nat
    /\ conv \in Convs /\ running \in Turns \union {None} /\ loads \in 0..MaxLoads
    /\ turnConv \in [Turns -> Convs \union {None}]
    /\ receiver \in [Turns -> {"none", "open", "dropped"}]
    /\ outcome \in [Turns -> {"none", "done", "error", "lost"}]
    /\ wiped \subseteq Convs
    /\ exit \in [Exiters -> {"run", "check", "wait", "cleaned", "skipped"}]

\* A turn is running.
Busy == pc \in {"prefill", "token", "round", "tools"}

\* The field doc of Engine::loading: while the flag is up the previous model
\* has been wiped and dropped, so shutdown() may return without a wipe.
LoadFlagTruth == loading => held = {} /\ ~model /\ pc = "load"

\* Once shutdown() has returned true to anyone, nothing of any conversation is
\* resident and no turn is running, and it stays so for as long as the process
\* lives, whatever is still queued or sent after it.
ShutdownIsFinal ==
    (\E e \in Exiters : exit[e] = "cleaned") => held = {} /\ ~Busy

\* Once New chat's wipe has resolved, nothing of that conversation is ever
\* resident again: no turn sent from it is still queued behind the wipe.
WipedStaysWiped == held \intersect wiped = {}

\* turn() never runs past its last step, which has no tools to call (its
\* `unreachable!`), and a turn that was cancelled runs no more than the calls
\* of the round it is in.
RoundsEnd == pc # "unreachable" /\ late <= MaxCalls

\* "Every exit path wipes before the process ends" (README): closing the
\* window, Cmd+Q, Ctrl-C, SIGTERM and a panic.
ExitIsWiped == ~alive => held = {}

\* A thread that calls shutdown() gets out: the process ends, however many
\* turns and loads were queued before it.
ShutdownReturns == closing ~> ~alive

\* A turn that was sent always ends, so the window's task does not wait for
\* ever, unless the process ends first.
TurnsEnd ==
    \A t \in Turns :
        (turnConv[t] # None) ~> (outcome[t] # "none" \/ ~alive)
=============================================================================
