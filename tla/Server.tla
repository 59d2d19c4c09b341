------------------------------- MODULE Server -------------------------------
(***************************************************************************)
(* llmoxide-server (crates/server/src/lib.rs): requests handled by an      *)
(* async runtime, one engine thread behind a job channel, and the `slot`   *)
(* lock that keeps a second completion out while one is being answered.    *)
(*                                                                         *)
(* A streamed completion runs in a task of its own, which holds the slot   *)
(* to its end.  A plain one holds it in the handler, which the runtime     *)
(* drops when the client hangs up: the slot is free at once, while the     *)
(* blocking reader goes on reading and the engine goes on generating.      *)
(***************************************************************************)
EXTENDS Integers, Sequences, FiniteSets

CONSTANTS
    Streams,    \* requests with stream: true
    Plains,     \* requests with stream: false
    Wipes,      \* requests to /v1/wipe
    MaxTokens   \* bound: tokens of one generation

ASSUME ServerAssumption ==
    /\ MaxTokens \in Nat
    /\ Streams \cap Plains = {} /\ (Streams \cup Plains) \cap Wipes = {}
    /\ {"none", "dead"} \cap (Streams \cup Plains \cup Wipes) = {}

Completions == Streams \cup Plains
Requests == Completions \cup Wipes
None == "none"

VARIABLES
    at,       \* request -> how far its handler, or its task, is
    gone,     \* requests whose client hung up
    waiting,  \* the slot's queue of waiters: the lock is fair
    slot,     \* the request that holds the slot, or None
    jobs,     \* the job channel
    ready,    \* completions whose job the engine has taken up
    receiver, \* completion -> "none", "open" or "dropped"
    events,   \* completion -> everything sent to its channel
    seen,     \* completion -> how many of its events were read
    out,      \* request -> what was sent to its client
    engine,   \* the job in hand, None, or "dead" after a panic
    drawn,    \* tokens drawn for it, -1 before its prompt was read
    held,     \* completions with data resident in the session
    before,   \* wipe -> completions handed to the engine before it
    \* History, which no step reads: what the engine did, heard or not.
    made,     \* completion -> texts it drew
    ended     \* completion -> "no", or "done", "error" or "cut"

vars == <<at, gone, waiting, slot, jobs, ready, receiver, events, seen, out,
          engine, drawn, held, before, made, ended>>
engineVars == <<engine, drawn, held, made, ended>>
clientVars == <<at, gone, waiting, slot, out, before>>

Init ==
    /\ at = [r \in Requests |-> "new"]
    /\ gone = {} /\ waiting = <<>> /\ slot = None /\ jobs = <<>> /\ ready = {}
    /\ receiver = [r \in Completions |-> "none"]
    /\ events = [r \in Completions |-> <<>>]
    /\ seen = [r \in Completions |-> 0]
    /\ out = [r \in Requests |-> <<>>]
    /\ engine = None /\ drawn = -1 /\ held = {}
    /\ before = [w \in Wipes |-> {}]
    /\ made = [r \in Completions |-> 0]
    /\ ended = [r \in Completions |-> "no"]

-----------------------------------------------------------------------------
(* The handlers.                                                           *)

SendWipesFirst(job) ==
    jobs' = IF engine = "dead" THEN jobs
            ELSE IF job \in Wipes THEN <<job>> \o jobs ELSE Append(jobs, job)
Send(job) == jobs' = IF engine = "dead" THEN jobs ELSE Append(jobs, job)

LeaveFreesSlot(r) ==
    /\ slot' = None
    /\ waiting' = SelectSeq(waiting, LAMBDA q : q # r)
\* What a request gives up: the slot, if it has it, and its place in the queue.
Leave(r) ==
    /\ slot' = IF slot = r THEN None ELSE slot
    /\ waiting' = SelectSeq(waiting, LAMBDA q : q # r)

ChatCompletions(r) ==
    /\ at[r] = "new"
    /\ \/ /\ at' = [at EXCEPT ![r] = "slot"]
          /\ waiting' = Append(waiting, r)
          /\ UNCHANGED out
       \/ \* could not parse request
          /\ at' = [at EXCEPT ![r] = "answered"]
          /\ out' = [out EXCEPT ![r] = <<"error">>]
          /\ UNCHANGED waiting
    /\ UNCHANGED <<gone, slot, jobs, ready, receiver, events, seen, engineVars,
                   before>>

\* lock_owned resolves, and submit sends the job in the same poll.
Submit(r) ==
    /\ at[r] = "slot" /\ slot = None /\ Head(waiting) = r
    /\ at' = [at EXCEPT ![r] = "queued"]
    /\ waiting' = Tail(waiting)
    /\ slot' = r
    /\ Send(r)
    /\ receiver' = [receiver EXCEPT ![r] = "open"]
    /\ UNCHANGED <<gone, ready, events, seen, out, engineVars, before>>

\* started.await returns: the engine has the job, or is gone.
Started(r) ==
    /\ at[r] = "queued" /\ r \in Completions
    /\ r \in ready \/ engine = "dead"
    /\ at' = [at EXCEPT ![r] = "reading"]
    /\ out' = [out EXCEPT ![r] = IF r \in Streams THEN <<"role">> ELSE <<>>]
    /\ UNCHANGED <<gone, waiting, slot, jobs, ready, receiver, events, seen,
                   engineVars, before>>

\* The sender of r's channel is dropped with the job.
OverWhenServed(r) == engine # r /\ r \in ready
Over(r) == engine = "dead" \/ (engine # r /\ r \in ready)

ToClient(r, chunks) ==
    out' = [out EXCEPT ![r] = IF r \in gone THEN @ ELSE @ \o chunks]

Answer(r, chunks) ==
    /\ at' = [at EXCEPT ![r] = "answered"]
    /\ receiver' = [receiver EXCEPT ![r] = "dropped"]
    /\ Leave(r)
    /\ ToClient(r, chunks)

KeepReading == UNCHANGED <<at, receiver, waiting, slot>>

\* The blocking reader of a plain completion.
ReadPlain(r) ==
    /\ at[r] = "reading" /\ r \in Plains
    /\ IF seen[r] < Len(events[r])
       THEN /\ seen' = [seen EXCEPT ![r] = @ + 1]
            /\ LET e == events[r][seen[r] + 1]
               IN  CASE e = "done" -> Answer(r, <<"result">>)
                     [] e = "error" -> Answer(r, <<"error">>)
                     [] OTHER -> KeepReading /\ UNCHANGED out
       ELSE /\ Over(r)
            /\ Answer(r, <<"error">>)  \* generation produced no result
            /\ UNCHANGED seen
    /\ UNCHANGED <<gone, jobs, ready, events, engineVars, before>>

StreamEnd(e) == IF e = "done" THEN <<"finish", "DONE">> ELSE <<"error", "DONE">>

\* That of a streamed one: a client that hung up is noticed at the next text.
ReadStream(r) ==
    /\ at[r] = "reading" /\ r \in Streams
    /\ IF seen[r] < Len(events[r])
       THEN /\ seen' = [seen EXCEPT ![r] = @ + 1]
            /\ LET e == events[r][seen[r] + 1]
               IN  CASE e \in {"done", "error"} -> Answer(r, StreamEnd(e))
                     [] e = "text" /\ r \in gone -> Answer(r, <<>>)
                     [] e = "text" /\ r \notin gone ->
                            KeepReading /\ ToClient(r, <<"text">>)
                     [] OTHER -> KeepReading /\ UNCHANGED out
       ELSE /\ Over(r)
            /\ Answer(r, <<"DONE">>)
            /\ UNCHANGED seen
    /\ UNCHANGED <<gone, jobs, ready, events, engineVars, before>>

Wipe(w) ==
    /\ at[w] = "new"
    /\ at' = [at EXCEPT ![w] = "queued"]
    /\ Send(w)
    /\ before' = [before EXCEPT ![w] = {r \in Completions : receiver[r] # "none"}]
    /\ UNCHANGED <<gone, waiting, slot, ready, receiver, events, seen, out,
                   engineVars>>

\* The engine is gone, and with it the other end of `done`.
WipeRefused(w) ==
    /\ at[w] = "queued" /\ w \in Wipes /\ engine = "dead"
    /\ at' = [at EXCEPT ![w] = "answered"]
    /\ ToClient(w, <<"not wiped">>)
    /\ UNCHANGED <<gone, waiting, slot, jobs, ready, receiver, events, seen,
                   engineVars, before>>

\* Whether the receiver is still in the handler when that is dropped.
ReceiverInHandler(r) == r \in Plains /\ at[r] = "queued"

\* A stream's task lives on; any other handler is dropped where it waits, and
\* a plain completion's reader then reads on for nobody.
Disconnect(r) ==
    /\ r \notin gone /\ at[r] \notin {"new", "answered"}
    /\ gone' = gone \cup {r}
    /\ IF r \in Streams
       THEN UNCHANGED <<waiting, slot, receiver>>
       ELSE /\ Leave(r)
            /\ receiver' = IF ReceiverInHandler(r)
                           THEN [receiver EXCEPT ![r] = "dropped"] ELSE receiver
    /\ at' = IF r \in Streams \/ at[r] = "reading"
             THEN at ELSE [at EXCEPT ![r] = "answered"]
    /\ UNCHANGED <<jobs, ready, events, seen, out, engineVars, before>>

-----------------------------------------------------------------------------
(* The engine thread.                                                      *)

TakeJob ==
    /\ engine = None /\ jobs # <<>>
    /\ jobs' = Tail(jobs)
    /\ LET r == Head(jobs)
       IN  IF r \in Completions
           THEN /\ engine' = r
                /\ ready' = ready \cup {r}
                /\ UNCHANGED <<at, out, held>>
           ELSE /\ held' = {}
                /\ at' = [at EXCEPT ![r] = "answered"]
                /\ ToClient(r, <<"wiped">>)
                /\ UNCHANGED <<engine, ready>>
    /\ drawn' = -1
    /\ UNCHANGED <<gone, waiting, slot, receiver, events, seen, before, made, ended>>

\* The engine's send fails.
HungUp == receiver[engine] = "dropped"

Post(e) ==
    events' = IF receiver[engine] = "dropped" THEN events
              ELSE [events EXCEPT ![engine] = Append(@, e)]

EndJob(e, how) ==
    /\ engine' = None /\ drawn' = -1
    /\ Post(e)
    /\ ended' = [ended EXCEPT ![engine] = how]

\* Session::run up to the prefill event: the prompt cannot be built, or does
\* not fit; or nothing resident is of use; or the resident prefix is extended.
Prefill ==
    /\ engine \in Completions /\ drawn = -1
    /\ \/ EndJob("error", "error") /\ UNCHANGED held
       \/ /\ \/ held' = {engine}
             \/ held' = held \cup {engine}
          /\ drawn' = 0
          /\ Post("prefill")
          /\ UNCHANGED <<engine, ended>>
    /\ UNCHANGED <<clientVars, jobs, ready, receiver, seen, made>>

\* One round of the sampling loop through ChannelSink::token.
Draw ==
    /\ engine \in Completions /\ drawn >= 0
    /\ \/ /\ drawn < MaxTokens
          /\ IF HungUp
             THEN EndJob("done", "cut") /\ UNCHANGED made
             ELSE /\ drawn' = drawn + 1
                  /\ \/ Post("text") /\ made' = [made EXCEPT ![engine] = @ + 1]
                     \/ Post("blank") /\ UNCHANGED made
                  /\ UNCHANGED <<engine, ended>>
       \/ \E e \in {"done", "error"} : EndJob(e, e) /\ UNCHANGED made
    /\ UNCHANGED <<clientVars, jobs, ready, receiver, seen, held>>

\* A panic unwinds the thread: the job in hand and those queued are dropped.
Panic ==
    /\ engine \in Completions
    /\ engine' = "dead" /\ drawn' = -1 /\ jobs' = <<>> /\ held' = {}
    /\ UNCHANGED <<clientVars, ready, receiver, events, seen, made, ended>>

-----------------------------------------------------------------------------

Handlers ==
    \E r \in Completions : Submit(r) \/ Started(r) \/ ReadPlain(r) \/ ReadStream(r)
Engine == TakeJob \/ Prefill \/ Draw

Next ==
    \/ \E r \in Completions : ChatCompletions(r)
    \/ \E w \in Wipes : Wipe(w) \/ WipeRefused(w)
    \/ \E r \in Requests : Disconnect(r)
    \/ Handlers
    \/ Engine
    \/ Panic

Spec == Init /\ [][Next]_vars

\* The runtime polls what is ready and the engine thread is scheduled; clients
\* need do nothing.
FairSpec ==
    /\ Spec
    /\ WF_vars(Engine)
    /\ \A r \in Completions :
          WF_vars(Submit(r) \/ Started(r) \/ ReadPlain(r) \/ ReadStream(r))
    /\ \A w \in Wipes : WF_vars(WipeRefused(w))

-----------------------------------------------------------------------------

\* "A client can rely on the response meaning it is done" (Job::Wipe): once a
\* wipe is answered, nothing handed to the engine before it is resident.
WipedIsGone ==
    \A w \in Wipes : out[w] = <<"wiped">> => held \cap before[w] = {}

\* A generation somebody listens to has the slot to its end ("so streams do not
\* interleave on one engine", AppState::slot), whoever else hangs up meanwhile, and
\* is answered with all the engine drew for it and with how it ended: a panic alone
\* leaves a stream without its ending, and nothing cuts it short.
Unfinished(r) == engine = r \/ \E i \in DOMAIN jobs : jobs[i] = r

OneForAClient == \A r \in Completions \ gone : Unfinished(r) => slot = r

WholeStream(r) ==
    <<"role">> \o [i \in 1..made[r] |-> "text"] \o
    CASE ended[r] = "done"  -> <<"finish", "DONE">>
      [] ended[r] = "error" -> <<"error", "DONE">>
      [] OTHER              -> <<"DONE">>

WholePlain(r) == IF ended[r] = "done" THEN <<"result">> ELSE <<"error">>

NothingLeftOut ==
    \A r \in Completions \ gone :
        at[r] = "answered" /\ receiver[r] # "none" =>
            /\ ended[r] # "cut"
            /\ out[r] = IF r \in Streams THEN WholeStream(r) ELSE WholePlain(r)

ServedAloneAndWhole == OneForAClient /\ NothingLeftOut

\* Every request is answered or its client has left: no hung-up client, failed
\* generation, or panic leaves another client waiting for the slot.
EveryRequestEnds ==
    \A r \in Requests : at[r] # "new" ~> at[r] = "answered"
=============================================================================
