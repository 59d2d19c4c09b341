---------------------------- MODULE ServerProof -----------------------------
(***************************************************************************)
(* Why an answered wipe means what it says and a client that stays is      *)
(* served alone and whole, for any number of streams, plain completions,   *)
(* wipes and tokens.                                                       *)
(*                                                                         *)
(* Neither is inductive.  The first needs the order of the job channel:    *)
(* whatever was handed over before a wipe is ahead of it, in hand, or      *)
(* through, because a completion is handed over once (WipeInv).  The       *)
(* second follows a generation along its way: a job is in the channel once *)
(* and not again when it was taken up (JobInv), so that what the engine    *)
(* said of it stays all there is; an open channel holds all of that, its   *)
(* ending last (ChannelOk); its reader is somewhere along it, and stops    *)
(* only where the engine did (ReaderOk); and until then the slot is its    *)
(* own (SlotInv).                                                          *)
(***************************************************************************)
EXTENDS Server, FiniteSetTheorems, TLAPS

Places == 1..Len(jobs)
Queued(r) == \E i \in Places : jobs[i] = r
Ends == {"done", "error"}
Sayings == {"error", "role", "result", "text", "finish", "DONE", "wiped", "not wiped"}

\* The range of every variable but the slot and its waiters.
TypeInv ==
    /\ at \in [Requests -> {"new", "slot", "queued", "reading", "answered"}]
    /\ gone \subseteq Requests
    /\ jobs \in Seq(Requests)
    /\ receiver \in [Completions -> {"none", "open", "dropped"}]
    /\ events \in [Completions -> Seq({"prefill", "text", "blank"} \cup Ends)]
    /\ seen \in [Completions -> Nat]
    /\ out \in [Requests -> Seq(Sayings)]
    /\ engine \in Completions \cup {None, "dead"}
    /\ drawn \in -1..MaxTokens
    /\ held \subseteq Completions
    /\ before \in [Wipes -> SUBSET Completions]
    /\ made \in [Completions -> Nat]
    /\ ended \in [Completions -> {"no", "done", "error", "cut"}]

\* A completion is handed over once, when its receiver is made; what a wipe follows
\* is not behind it in the channel, and is nowhere once the wipe was answered.
WipeInv ==
    /\ \A r \in Completions : at[r] \in {"new", "slot"} => receiver[r] = "none"
    /\ \A r \in Completions : receiver[r] = "none" =>
          /\ ~Queued(r) /\ engine # r /\ r \notin held
          /\ \A w \in Wipes : r \notin before[w]
    /\ \A w \in Wipes : at[w] = "new" => ~Queued(w)
    /\ \A w \in Wipes : at[w] \in {"new", "queued"} => out[w] = <<>>
    /\ \A i, j \in Places : i < j /\ jobs[i] \in Wipes => jobs[j] \notin before[jobs[i]]
    /\ \A w \in Wipes : out[w] = <<"wiped">> =>
          \A r \in before[w] : ~Queued(r) /\ engine # r /\ r \notin held

\* A completion's job is in the channel once, and never again when it was taken up.
JobInv ==
    /\ \A i, j \in Places : jobs[i] = jobs[j] /\ jobs[i] \in Completions => i = j
    /\ \A r \in Completions : Queued(r) => engine # r /\ r \notin ready
    /\ engine = "dead" => jobs = <<>>
    /\ \A r \in Completions : receiver[r] = "none" => r \notin ready

\* The texts among the first n events of a channel.
TextsIn(s, n) == [i \in 1..Cardinality({j \in 1..n : s[j] = "text"}) |-> "text"]
TextsMade(r) == [i \in 1..made[r] |-> "text"]

\* What the engine did for a completion and what is in its channel: while the channel
\* is open, the same.
ChannelOk(r) ==
    /\ receiver[r] = "none" => events[r] = <<>> /\ made[r] = 0 /\ ended[r] = "no"
    /\ ended[r] # "no" => engine # r /\ ~Queued(r)
    /\ ended[r] = "no" => \A i \in 1..Len(events[r]) : events[r][i] \notin Ends
    /\ receiver[r] = "open" =>
          /\ TextsIn(events[r], Len(events[r])) = TextsMade(r)
          /\ ended[r] # "cut"
          /\ ended[r] # "no" =>
                /\ Len(events[r]) > 0 /\ events[r][Len(events[r])] = ended[r]
                /\ \A i \in 1..(Len(events[r]) - 1) : events[r][i] \notin Ends

\* How far a reader is along its channel, and what its client has by then.
ReaderOk(r) ==
    /\ at[r] \in {"queued", "reading"} => receiver[r] = "open"
    /\ at[r] \in {"new", "slot", "queued"} => seen[r] = 0 /\ out[r] = <<>>
    /\ seen[r] <= Len(events[r])
    /\ at[r] # "answered" => \A i \in 1..seen[r] : events[r][i] \notin Ends
    /\ at[r] = "reading" /\ r \notin gone =>
          out[r] = IF r \in Streams THEN <<"role">> \o TextsIn(events[r], seen[r]) ELSE <<>>
    /\ at[r] = "answered" /\ r \notin gone /\ receiver[r] # "none" =>
          /\ engine # r /\ ~Queued(r) /\ ended[r] # "cut"
          /\ out[r] = IF r \in Streams THEN WholeStream(r) ELSE WholePlain(r)

ChannelInv == \A r \in Completions : ChannelOk(r)
ReaderInv == \A r \in Completions : ReaderOk(r)

-----------------------------------------------------------------------------
\* The kinds of requests are apart, and no request is a marker.
LEMMA Apart ==
    /\ Completions \subseteq Requests /\ Wipes \subseteq Requests
    /\ Streams \subseteq Completions /\ Plains \subseteq Completions
    /\ \A r \in Completions : r \notin Wipes
    /\ \A r \in Streams : r \notin Plains
    /\ \A r \in Requests : r # None /\ r # "dead"
    /\ None # "dead" /\ MaxTokens \in Nat
  BY ServerAssumption DEF Completions, Requests, None

\* Appending leaves every earlier place as it was.
LEMMA AppendPlaces ==
    ASSUME NEW S, NEW s \in Seq(S), NEW x \in S
    PROVE  /\ Append(s, x) \in Seq(S)
           /\ Len(Append(s, x)) = Len(s) + 1
           /\ \A i \in 1..Len(s) : Append(s, x)[i] = s[i]
           /\ Append(s, x)[Len(s) + 1] = x
  OBVIOUS

\* Taking the head moves every other place up by one.
LEMMA TailPlaces ==
    ASSUME NEW S, NEW s \in Seq(S), s # <<>>
    PROVE  /\ Head(s) = s[1] /\ s[1] \in S /\ 1 \in 1..Len(s)
           /\ Tail(s) \in Seq(S)
           /\ Len(Tail(s)) = Len(s) - 1
           /\ \A i \in 1..Len(Tail(s)) : i + 1 \in 1..Len(s) /\ Tail(s)[i] = s[i + 1]
  OBVIOUS

\* What is sent to a client.
LEMMA ToClientTyped ==
    ASSUME TypeInv, NEW r \in Requests, NEW s \in Seq(Sayings), ToClient(r, s)
    PROVE  /\ out' \in [Requests -> Seq(Sayings)]
           /\ \A q \in Requests : q # r => out'[q] = out[q]
           /\ out'[r] = IF r \in gone THEN out[r] ELSE out[r] \o s
  BY DEF TypeInv, ToClient

\* What may be said.
LEMMA SayingsSpelled ==
    /\ <<>> \in Seq(Sayings) /\ <<"result">> \in Seq(Sayings)
    /\ <<"error">> \in Seq(Sayings) /\ <<"DONE">> \in Seq(Sayings)
    /\ <<"text">> \in Seq(Sayings) /\ <<"role">> \in Seq(Sayings)
    /\ <<"wiped">> \in Seq(Sayings) /\ <<"not wiped">> \in Seq(Sayings)
    /\ <<"finish", "DONE">> \in Seq(Sayings) /\ <<"error", "DONE">> \in Seq(Sayings)
  BY DEF Sayings

\* What the engine sends goes to the end of its job's channel.
LEMMA PostTyped ==
    ASSUME TypeInv, engine \in Completions,
           NEW e \in {"prefill", "text", "blank"} \cup Ends, Post(e)
    PROVE  /\ events' \in [Completions -> Seq({"prefill", "text", "blank"} \cup Ends)]
           /\ \A r \in Completions :
                 /\ Len(events[r]) \in Nat /\ Len(events'[r]) \in Nat
                 /\ Len(events[r]) <= Len(events'[r])
                 /\ \A i \in 1..Len(events[r]) : events'[r][i] = events[r][i]
<1> DEFINE Events == {"prefill", "text", "blank"} \cup Ends
<1>1. \A r \in Completions : events[r] \in Seq(Events)
  BY DEF TypeInv
<1>2. CASE receiver[engine] = "dropped"
  BY <1>1, <1>2 DEF Post, TypeInv
<1>3. CASE receiver[engine] # "dropped"
  <2>1. events' = [events EXCEPT ![engine] = Append(events[engine], e)]
    BY <1>3 DEF Post
  <2>2. /\ Append(events[engine], e) \in Seq(Events)
        /\ Len(Append(events[engine], e)) = Len(events[engine]) + 1
        /\ \A i \in 1..Len(events[engine]) : Append(events[engine], e)[i] = events[engine][i]
    BY <1>1, AppendPlaces
  <2> QED
    BY <2>1, <2>2, <1>1 DEF TypeInv
<1> QED
  BY <1>2, <1>3

\* Where that is.
LEMMA PostPlaces ==
    ASSUME TypeInv, engine \in Completions, NEW e, Post(e)
    PROVE  /\ \A r \in Completions : r # engine => events'[r] = events[r]
           /\ receiver[engine] = "dropped" => events' = events
           /\ receiver[engine] # "dropped" => events'[engine] = Append(events[engine], e)
  BY DEF TypeInv, Post

-----------------------------------------------------------------------------
(* Types.                                                                  *)

LEMMA InitTypeInv == Init => TypeInv
  BY Apart DEF Init, TypeInv, Completions, Requests, None

\* An answer of a reader.
LEMMA AnswerTyped ==
    ASSUME TypeInv, NEW r \in Completions, NEW s \in Seq(Sayings), Answer(r, s)
    PROVE  /\ at' = [at EXCEPT ![r] = "answered"] /\ at'[r] = "answered"
           /\ at' \in [Requests -> {"new", "slot", "queued", "reading", "answered"}]
           /\ receiver' = [receiver EXCEPT ![r] = "dropped"]
           /\ receiver' \in [Completions -> {"none", "open", "dropped"}]
           /\ out' \in [Requests -> Seq(Sayings)]
           /\ \A q \in Requests : q # r => out'[q] = out[q]
           /\ out'[r] = IF r \in gone THEN out[r] ELSE out[r] \o s
<1>1. r \in Requests
  BY Apart
<1>2. ToClient(r, s)
  BY DEF Answer
<1> QED
  BY <1>1, <1>2, ToClientTyped DEF Answer, TypeInv

\* An answer of one reader is nothing to another.
LEMMA AnswersOthers ==
    ASSUME TypeInv, NEW r \in Completions, NEW s \in Seq(Sayings), Answer(r, s),
           NEW q \in Completions, q # r
    PROVE  at'[q] = at[q] /\ receiver'[q] = receiver[q] /\ out'[q] = out[q]
  BY AnswerTyped, Apart DEF TypeInv

\* What each kind of step leaves in range.
LEMMA NextTypeInv ==
    ASSUME TypeInv, [Next]_vars
    PROVE  TypeInv'
<1> USE Apart
<1>a. /\ at \in [Requests -> {"new", "slot", "queued", "reading", "answered"}]
      /\ receiver \in [Completions -> {"none", "open", "dropped"}]
      /\ seen \in [Completions -> Nat]
      /\ drawn \in -1..MaxTokens
  BY DEF TypeInv
<1>b. jobs \in Seq(Requests) /\ gone \subseteq Requests
  BY DEF TypeInv
<1>c. out \in [Requests -> Seq(Sayings)]
  BY DEF TypeInv
<1>1. ASSUME NEW r \in Completions, ChatCompletions(r) PROVE TypeInv'
  <2>1. out' = out \/ out' = [out EXCEPT ![r] = <<"error">>]
    BY <1>1 DEF ChatCompletions
  <2>2. out' \in [Requests -> Seq(Sayings)]
    BY <2>1, <1>c, SayingsSpelled
  <2>3. at' \in [Requests -> {"new", "slot", "queued", "reading", "answered"}]
    BY <1>1, <1>a DEF ChatCompletions
  <2> QED
    BY <1>1, <2>2, <2>3 DEF ChatCompletions, TypeInv, engineVars
<1>2. ASSUME NEW r \in Completions, Submit(r) PROVE TypeInv'
  <2>1. jobs' \in Seq(Requests)
    BY <1>2, <1>b, AppendPlaces DEF Submit, Send
  <2>2. /\ at' \in [Requests -> {"new", "slot", "queued", "reading", "answered"}]
        /\ receiver' \in [Completions -> {"none", "open", "dropped"}]
    BY <1>2, <1>a DEF Submit
  <2> QED
    BY <1>2, <2>1, <2>2 DEF Submit, TypeInv, engineVars
<1>3. ASSUME NEW r \in Completions, Started(r) PROVE TypeInv'
  <2>1. out' = [out EXCEPT ![r] = <<"role">>] \/ out' = [out EXCEPT ![r] = <<>>]
    BY <1>3 DEF Started
  <2>2. out' \in [Requests -> Seq(Sayings)]
    BY <2>1, <1>c, SayingsSpelled
  <2>3. at' \in [Requests -> {"new", "slot", "queued", "reading", "answered"}]
    BY <1>3, <1>a DEF Started
  <2> QED
    BY <1>3, <2>2, <2>3 DEF Started, TypeInv, engineVars
<1>4. ASSUME NEW r \in Completions, ReadPlain(r) PROVE TypeInv'
  <2>1. seen' \in [Completions -> Nat]
    BY <1>4, <1>a DEF ReadPlain
  <2>2. \/ KeepReading /\ UNCHANGED out
        \/ Answer(r, <<"result">>) \/ Answer(r, <<"error">>)
    BY <1>4 DEF ReadPlain
  <2>3. /\ at' \in [Requests -> {"new", "slot", "queued", "reading", "answered"}]
        /\ receiver' \in [Completions -> {"none", "open", "dropped"}]
        /\ out' \in [Requests -> Seq(Sayings)]
    BY <2>2, <1>a, <1>c, AnswerTyped, SayingsSpelled DEF KeepReading
  <2> QED
    BY <1>4, <2>1, <2>3 DEF ReadPlain, TypeInv, engineVars
<1>5. ASSUME NEW r \in Completions, ReadStream(r) PROVE TypeInv'
  <2>1. seen' \in [Completions -> Nat]
    BY <1>5, <1>a DEF ReadStream
  <2>2. \/ KeepReading /\ UNCHANGED out
        \/ KeepReading /\ ToClient(r, <<"text">>)
        \/ Answer(r, <<>>) \/ Answer(r, <<"DONE">>)
        \/ Answer(r, <<"finish", "DONE">>) \/ Answer(r, <<"error", "DONE">>)
    BY <1>5 DEF ReadStream, StreamEnd
  <2>3. /\ at' \in [Requests -> {"new", "slot", "queued", "reading", "answered"}]
        /\ receiver' \in [Completions -> {"none", "open", "dropped"}]
        /\ out' \in [Requests -> Seq(Sayings)]
    <3>1. CASE KeepReading /\ UNCHANGED out
      BY <3>1, <1>a, <1>c DEF KeepReading
    <3>2. CASE KeepReading /\ ToClient(r, <<"text">>)
      BY <3>2, <1>a, ToClientTyped, SayingsSpelled DEF KeepReading
    <3>3. CASE \/ Answer(r, <<>>) \/ Answer(r, <<"DONE">>)
               \/ Answer(r, <<"finish", "DONE">>) \/ Answer(r, <<"error", "DONE">>)
      BY <3>3, AnswerTyped, SayingsSpelled
    <3> QED
      BY <2>2, <3>1, <3>2, <3>3
  <2> QED
    BY <1>5, <2>1, <2>3 DEF ReadStream, TypeInv, engineVars
<1>6. ASSUME NEW w \in Wipes, Wipe(w) PROVE TypeInv'
  <2>1. jobs' \in Seq(Requests)
    BY <1>6, <1>b, AppendPlaces DEF Wipe, Send
  <2>2. before' \in [Wipes -> SUBSET Completions]
    BY <1>6 DEF Wipe, TypeInv
  <2> QED
    BY <1>6, <2>1, <2>2 DEF Wipe, TypeInv, engineVars
<1>7. ASSUME NEW w \in Wipes, WipeRefused(w) PROVE TypeInv'
  <2>1. out' \in [Requests -> Seq(Sayings)]
    BY <1>7, ToClientTyped, SayingsSpelled DEF WipeRefused
  <2> QED
    BY <1>7, <2>1 DEF WipeRefused, TypeInv, engineVars
<1>8. ASSUME NEW r \in Requests, Disconnect(r) PROVE TypeInv'
  <2>1. at' \in [Requests -> {"new", "slot", "queued", "reading", "answered"}]
    BY <1>8 DEF Disconnect, TypeInv
  <2>2. receiver' \in [Completions -> {"none", "open", "dropped"}]
    BY <1>8 DEF Disconnect, TypeInv
  <2> QED
    BY <1>8, <2>1, <2>2 DEF Disconnect, TypeInv, engineVars
<1>9. CASE TakeJob
  <2>1. Head(jobs) \in Requests /\ jobs' \in Seq(Requests)
    BY <1>9, <1>b, TailPlaces DEF TakeJob
  <2>0. drawn' = -1 /\ -1 \in -1..MaxTokens
    BY <1>9 DEF TakeJob
  <2>2. CASE Head(jobs) \in Completions
    <3>1. /\ engine' \in Completions
          /\ UNCHANGED <<at, gone, receiver, events, seen, out, held, before, made, ended>>
      BY <1>9, <2>1, <2>2 DEF TakeJob
    <3> QED
      BY <2>0, <2>1, <3>1 DEF TypeInv
  <2>3. CASE Head(jobs) \notin Completions
    <3>1. out' \in [Requests -> Seq(Sayings)]
      BY <1>9, <2>1, <2>3, ToClientTyped, SayingsSpelled DEF TakeJob
    <3>2. /\ held' = {} /\ at' = [at EXCEPT ![Head(jobs)] = "answered"]
          /\ UNCHANGED <<gone, receiver, events, seen, engine, before, made, ended>>
      BY <1>9, <2>1, <2>3 DEF TakeJob
    <3>3. at' \in [Requests -> {"new", "slot", "queued", "reading", "answered"}]
      BY <3>2, <1>a
    <3> QED
      BY <2>0, <2>1, <3>1, <3>2, <3>3 DEF TypeInv
  <2> QED
    BY <2>2, <2>3
<1>10. CASE Prefill
  <2>1. \E e \in {"prefill", "error"} : Post(e)
    BY <1>10 DEF Prefill, EndJob
  <2>2. engine \in Completions /\ events' \in [Completions -> Seq({"prefill", "text", "blank"} \cup Ends)]
    BY <1>10, <2>1, PostTyped DEF Prefill, Ends
  <2>0. 0 \in -1..MaxTokens /\ -1 \in -1..MaxTokens
    OBVIOUS
  <2>3. engine' \in {engine, None} /\ drawn' \in {-1, 0}
        /\ (held' = held \/ held' = {engine} \/ held' = held \cup {engine})
    BY <1>10 DEF Prefill, EndJob
  <2>4. /\ made' = made
        /\ ended' = ended \/ ended' = [ended EXCEPT ![engine] = "error"]
    BY <1>10 DEF Prefill, EndJob
  <2>5. ended' \in [Completions -> {"no", "done", "error", "cut"}]
    BY <2>4 DEF TypeInv
  <2> QED
    BY <1>10, <2>0, <2>2, <2>3, <2>4, <2>5 DEF Prefill, TypeInv, clientVars
<1>11. CASE Draw
  <2>1. \E e \in {"text", "blank", "done", "error"} : Post(e)
    BY <1>11 DEF Draw, EndJob
  <2>2. engine \in Completions /\ events' \in [Completions -> Seq({"prefill", "text", "blank"} \cup Ends)]
    BY <1>11, <2>1, PostTyped DEF Draw, Ends
  <2>3. engine' \in {engine, None}
        /\ (drawn' = -1 \/ (drawn < MaxTokens /\ drawn' = drawn + 1))
    BY <1>11 DEF Draw, EndJob
  <2>4. drawn' \in -1..MaxTokens
    BY <2>3, <1>a
  <2>5. /\ made' = made \/ made' = [made EXCEPT ![engine] = made[engine] + 1]
        /\ ended' = ended \/ \E how \in {"done", "error", "cut"} :
                                 ended' = [ended EXCEPT ![engine] = how]
    BY <1>11 DEF Draw, EndJob
  <2>6. made' \in [Completions -> Nat]
    <3>1. made \in [Completions -> Nat] /\ made[engine] + 1 \in Nat
      BY <2>2 DEF TypeInv
    <3>2. [made EXCEPT ![engine] = made[engine] + 1] \in [Completions -> Nat]
      BY <3>1
    <3> QED
      BY <2>5, <3>1, <3>2
  <2>8. ended' \in [Completions -> {"no", "done", "error", "cut"}]
    BY <2>5 DEF TypeInv
  <2>7. held' = held /\ UNCHANGED clientVars /\ receiver' = receiver /\ seen' = seen /\ jobs' = jobs
    BY <1>11 DEF Draw
  <2> QED
    BY <2>2, <2>3, <2>4, <2>6, <2>7, <2>8 DEF TypeInv, clientVars
<1>12. CASE Panic
  <2>1. drawn' = -1 /\ -1 \in -1..MaxTokens /\ jobs' \in Seq(Requests)
    BY <1>12 DEF Panic
  <2> QED
    BY <1>12, <2>1 DEF Panic, TypeInv, clientVars
<1>13. CASE UNCHANGED vars
  BY <1>13 DEF vars, TypeInv
<1> QED
  BY <1>1, <1>2, <1>3, <1>4, <1>5, <1>6, <1>7, <1>8, <1>9, <1>10, <1>11, <1>12, <1>13
  DEF Next, Handlers, Engine

-----------------------------------------------------------------------------
(* An answered wipe.                                                       *)

LEMMA InitWipeInv == Init => WipeInv
  BY Apart DEF Init, WipeInv, Places, Queued

\* A step that hands nothing over: the channel stays or is gone, the engine keeps its
\* job or is through with it, and only what it had in hand becomes resident.
LEMMA NothingHandedOver ==
    ASSUME TypeInv, WipeInv,
           jobs' = jobs \/ jobs' = <<>>,
           before' = before,
           engine' \in {engine, None, "dead"},
           \A q \in held' : q \in held \/ q = engine,
           \A q \in Completions :
              /\ receiver'[q] = "none" => receiver[q] = "none"
              /\ at'[q] \in {"new", "slot"} =>
                     at[q] \in {"new", "slot"} /\ receiver'[q] = receiver[q],
           \A w \in Wipes :
              /\ at'[w] = "new" => at[w] = "new"
              /\ at'[w] \in {"new", "queued"} =>
                     at[w] \in {"new", "queued"} /\ out'[w] = out[w]
              /\ out'[w] = <<"wiped">> => out[w] = <<"wiped">>
    PROVE  WipeInv'
<1>1. \A q : Queued(q)' => Queued(q)
  BY DEF Queued, Places
<1>2. \A q \in Completions : q # None /\ q # "dead"
  BY Apart
<1>3. \A w \in Wipes : before[w] \subseteq Completions
  BY DEF TypeInv
<1>4. \A q \in Completions : at'[q] \in {"new", "slot"} => receiver'[q] = "none"
  BY DEF WipeInv
<1>5. ASSUME NEW q \in Completions, receiver'[q] = "none"
      PROVE  ~Queued(q)' /\ engine' # q /\ q \notin held' /\ \A w \in Wipes : q \notin before'[w]
  BY <1>1, <1>2, <1>5 DEF WipeInv
<1>6. ASSUME NEW w \in Wipes
      PROVE  /\ at'[w] = "new" => ~Queued(w)'
             /\ at'[w] \in {"new", "queued"} => out'[w] = <<>>
             /\ out'[w] = <<"wiped">> =>
                    \A q \in before'[w] : ~Queued(q)' /\ engine' # q /\ q \notin held'
  BY <1>1, <1>2, <1>3 DEF WipeInv
<1>7. \A i, j \in 1..Len(jobs') : i < j /\ jobs'[i] \in Wipes => jobs'[j] \notin before'[jobs'[i]]
  BY DEF WipeInv, Places
<1> QED
  BY <1>4, <1>5, <1>6, <1>7 DEF WipeInv, Places

\* What an answer of a reader changes for others.
LEMMA AnswersNoWipe ==
    ASSUME TypeInv, NEW r \in Completions, NEW s \in Seq(Sayings), Answer(r, s)
    PROVE  /\ \A q \in Completions :
                 /\ receiver'[q] = "none" => receiver[q] = "none"
                 /\ at'[q] \in {"new", "slot"} =>
                        at[q] \in {"new", "slot"} /\ receiver'[q] = receiver[q]
           /\ \A w \in Wipes : at'[w] = at[w] /\ out'[w] = out[w]
  BY AnswerTyped, Apart DEF TypeInv

LEMMA NextWipeInv ==
    ASSUME TypeInv, TypeInv', WipeInv, [Next]_vars
    PROVE  WipeInv'
<1> USE Apart
<1>a. /\ at \in [Requests -> {"new", "slot", "queued", "reading", "answered"}]
      /\ receiver \in [Completions -> {"none", "open", "dropped"}]
      /\ jobs \in Seq(Requests)
      /\ out \in [Requests -> Seq(Sayings)]
      /\ before \in [Wipes -> SUBSET Completions]
  BY DEF TypeInv
<1>1. ASSUME NEW r \in Completions, ChatCompletions(r) PROVE WipeInv'
  <2>1. /\ jobs' = jobs /\ before' = before /\ engine' = engine /\ held' = held
        /\ receiver' = receiver
        /\ \A q \in Requests : q # r => at'[q] = at[q] /\ out'[q] = out[q]
        /\ at[r] = "new"
    BY <1>1, <1>a DEF ChatCompletions, engineVars
  <2> QED
    BY <2>1, NothingHandedOver
<1>2. ASSUME NEW r \in Completions, Submit(r) PROVE WipeInv'
  <2>1. /\ at[r] = "slot" /\ at' = [at EXCEPT ![r] = "queued"]
        /\ jobs' = jobs \/ jobs' = Append(jobs, r)
        /\ receiver' = [receiver EXCEPT ![r] = "open"]
        /\ before' = before /\ out' = out /\ engine' = engine /\ held' = held
    BY <1>2 DEF Submit, Send, engineVars
  <2>2. receiver[r] = "none"
    BY <2>1 DEF WipeInv
  <2>3. /\ ~Queued(r) /\ engine # r /\ r \notin held
        /\ \A w \in Wipes : r \notin before[w]
    BY <2>2 DEF WipeInv
  <2>4. /\ \A q \in Requests : at'[q] = IF q = r THEN "queued" ELSE at[q]
        /\ \A q \in Completions : receiver'[q] = IF q = r THEN "open" ELSE receiver[q]
    BY <2>1, <1>a
  <2>5. CASE jobs' = jobs
    BY <2>1, <2>3, <2>4, <2>5 DEF WipeInv, Queued, Places
  <2>6. CASE jobs' = Append(jobs, r)
    <3>1. /\ Len(jobs') = Len(jobs) + 1 /\ jobs'[Len(jobs) + 1] = r /\ Len(jobs) \in Nat
          /\ \A i \in Places : jobs'[i] = jobs[i]
      BY <2>6, <1>a, AppendPlaces DEF Places
    <3>2. \A q : Queued(q)' => Queued(q) \/ q = r
      BY <3>1 DEF Queued, Places
    <3>3. \A i, j \in 1..Len(jobs') :
              i < j /\ jobs'[i] \in Wipes => jobs'[j] \notin before'[jobs'[i]]
      <4> SUFFICES ASSUME NEW i \in 1..Len(jobs'), NEW j \in 1..Len(jobs'), i < j, jobs'[i] \in Wipes
                   PROVE  jobs'[j] \notin before[jobs'[i]]
        BY <2>1
      <4>1. i \in Places /\ (j \in Places \/ j = Len(jobs) + 1)
        BY <3>1 DEF Places
      <4> QED
        BY <4>1, <3>1, <2>3 DEF WipeInv
    <3>4. ASSUME NEW q \in Completions
          PROVE  /\ at'[q] \in {"new", "slot"} => receiver'[q] = "none"
                 /\ receiver'[q] = "none" =>
                       /\ ~Queued(q)' /\ engine' # q /\ q \notin held'
                       /\ \A w \in Wipes : q \notin before'[w]
      BY <2>1, <2>4, <3>2 DEF WipeInv
    <3>5. ASSUME NEW w \in Wipes
          PROVE  /\ at'[w] = "new" => ~Queued(w)'
                 /\ at'[w] \in {"new", "queued"} => out'[w] = <<>>
                 /\ out'[w] = <<"wiped">> =>
                        \A q \in before'[w] : ~Queued(q)' /\ engine' # q /\ q \notin held'
      BY <2>1, <2>3, <2>4, <3>2 DEF WipeInv
    <3> QED
      BY <3>3, <3>4, <3>5 DEF WipeInv, Places
  <2> QED
    BY <2>1, <2>5, <2>6
<1>3. ASSUME NEW r \in Completions, Started(r) PROVE WipeInv'
  <2>1. /\ jobs' = jobs /\ before' = before /\ engine' = engine /\ held' = held
        /\ receiver' = receiver
        /\ \A q \in Requests : q # r => at'[q] = at[q] /\ out'[q] = out[q]
        /\ at'[r] = "reading"
    BY <1>3, <1>a DEF Started, engineVars
  <2> QED
    BY <2>1, NothingHandedOver
<1>4. ASSUME NEW r \in Completions, ReadPlain(r) PROVE WipeInv'
  <2>1. /\ jobs' = jobs /\ before' = before /\ engine' = engine /\ held' = held
        /\ \/ KeepReading /\ UNCHANGED out
           \/ Answer(r, <<"result">>) \/ Answer(r, <<"error">>)
    BY <1>4 DEF ReadPlain, engineVars
  <2>2. CASE KeepReading /\ UNCHANGED out
    BY <2>1, <2>2, NothingHandedOver DEF KeepReading
  <2>3. CASE Answer(r, <<"result">>) \/ Answer(r, <<"error">>)
    BY <2>1, <2>3, AnswersNoWipe, SayingsSpelled, NothingHandedOver
  <2> QED
    BY <2>1, <2>2, <2>3
<1>5. ASSUME NEW r \in Completions, ReadStream(r) PROVE WipeInv'
  <2>1. /\ jobs' = jobs /\ before' = before /\ engine' = engine /\ held' = held
        /\ \/ KeepReading /\ UNCHANGED out
           \/ KeepReading /\ ToClient(r, <<"text">>)
           \/ Answer(r, <<>>) \/ Answer(r, <<"DONE">>)
           \/ Answer(r, <<"finish", "DONE">>) \/ Answer(r, <<"error", "DONE">>)
    BY <1>5 DEF ReadStream, StreamEnd, engineVars
  <2>2. CASE KeepReading /\ UNCHANGED out
    BY <2>1, <2>2, NothingHandedOver DEF KeepReading
  <2>3. CASE KeepReading /\ ToClient(r, <<"text">>)
    BY <2>1, <2>3, ToClientTyped, SayingsSpelled, NothingHandedOver DEF KeepReading
  <2>4. CASE \/ Answer(r, <<>>) \/ Answer(r, <<"DONE">>)
             \/ Answer(r, <<"finish", "DONE">>) \/ Answer(r, <<"error", "DONE">>)
    BY <2>1, <2>4, AnswersNoWipe, SayingsSpelled, NothingHandedOver
  <2> QED
    BY <2>1, <2>2, <2>3, <2>4
<1>6. ASSUME NEW w \in Wipes, Wipe(w) PROVE WipeInv'
  <2>1. /\ at[w] = "new" /\ at' = [at EXCEPT ![w] = "queued"]
        /\ jobs' = jobs \/ jobs' = Append(jobs, w)
        /\ before' = [before EXCEPT ![w] = {r \in Completions : receiver[r] # "none"}]
        /\ receiver' = receiver /\ out' = out /\ engine' = engine /\ held' = held
    BY <1>6 DEF Wipe, Send, engineVars
  <2>2. ~Queued(w) /\ out[w] = <<>> /\ <<>> # <<"wiped">>
    BY <2>1 DEF WipeInv
  <2>3. /\ \A q \in Requests : at'[q] = IF q = w THEN "queued" ELSE at[q]
        /\ \A v \in Wipes : v # w => before'[v] = before[v]
        /\ \A r \in before'[w] : r \in Completions /\ receiver[r] # "none"
    BY <2>1, <1>a
  <2>4. /\ Len(jobs) \in Nat /\ \A i \in Places : i \in 1..Len(jobs') /\ jobs'[i] = jobs[i]
        /\ \A i \in 1..Len(jobs') : i \in Places \/ (i = Len(jobs) + 1 /\ jobs'[i] = w)
    <3>1. CASE jobs' = jobs
      BY <3>1, <1>a DEF Places
    <3>2. CASE jobs' = Append(jobs, w)
      BY <3>2, <1>a, AppendPlaces DEF Places
    <3> QED
      BY <2>1, <3>1, <3>2
  <2>5. \A q : Queued(q)' => Queued(q) \/ q = w
    BY <2>4 DEF Queued, Places
  <2>6. \A i, j \in 1..Len(jobs') :
            i < j /\ jobs'[i] \in Wipes => jobs'[j] \notin before'[jobs'[i]]
    <3> SUFFICES ASSUME NEW i \in 1..Len(jobs'), NEW j \in 1..Len(jobs'), i < j, jobs'[i] \in Wipes
                 PROVE  jobs'[j] \notin before'[jobs'[i]]
      OBVIOUS
    <3>1. i \in Places /\ (j \in Places \/ jobs'[j] = w)
      BY <2>4 DEF Places
    <3>2. jobs'[i] = jobs[i] /\ jobs[i] # w /\ before'[jobs[i]] = before[jobs[i]]
      BY <3>1, <2>2, <2>3, <2>4 DEF Queued
    <3>3. before[jobs[i]] \subseteq Completions /\ w \notin Completions
      BY <3>2, <1>a
    <3> QED
      BY <3>1, <3>2, <3>3, <2>4 DEF WipeInv
  <2>7. ASSUME NEW q \in Completions
        PROVE  /\ at'[q] \in {"new", "slot"} => receiver'[q] = "none"
               /\ receiver'[q] = "none" =>
                     /\ ~Queued(q)' /\ engine' # q /\ q \notin held'
                     /\ \A v \in Wipes : q \notin before'[v]
    BY <2>1, <2>3, <2>5 DEF WipeInv
  <2>8. ASSUME NEW v \in Wipes
        PROVE  /\ at'[v] = "new" => ~Queued(v)'
               /\ at'[v] \in {"new", "queued"} => out'[v] = <<>>
               /\ out'[v] = <<"wiped">> =>
                      \A q \in before'[v] : ~Queued(q)' /\ engine' # q /\ q \notin held'
    <3>1. before[v] \subseteq Completions
      BY <1>a
    <3> QED
      BY <3>1, <2>1, <2>2, <2>3, <2>5 DEF WipeInv
  <2> QED
    BY <2>6, <2>7, <2>8 DEF WipeInv, Places
<1>7. ASSUME NEW w \in Wipes, WipeRefused(w) PROVE WipeInv'
  <2>1. /\ jobs' = jobs /\ before' = before /\ engine' = engine /\ held' = held
        /\ receiver' = receiver /\ at' = [at EXCEPT ![w] = "answered"]
        /\ at[w] = "queued" /\ ToClient(w, <<"not wiped">>)
    BY <1>7 DEF WipeRefused, engineVars
  <2>2. out[w] = <<>>
    BY <2>1 DEF WipeInv
  <2>3. /\ \A q \in Requests : q # w => out'[q] = out[q]
        /\ out'[w] = <<>> \/ out'[w] = <<>> \o <<"not wiped">>
    BY <2>1, <2>2, ToClientTyped, SayingsSpelled
  <2>4. <<>> # <<"wiped">> /\ <<>> \o <<"not wiped">> # <<"wiped">>
    OBVIOUS
  <2>5. \A q \in Requests : at'[q] = IF q = w THEN "answered" ELSE at[q]
    BY <2>1, <1>a
  <2>6. /\ at'[w] = "answered" /\ out'[w] # <<"wiped">>
        /\ \A q \in Requests : q # w => at'[q] = at[q] /\ out'[q] = out[q]
    BY <2>3, <2>4, <2>5
  <2> QED
    BY <2>1, <2>6, NothingHandedOver
<1>8. ASSUME NEW r \in Requests, Disconnect(r) PROVE WipeInv'
  <2>1. /\ jobs' = jobs /\ before' = before /\ engine' = engine /\ held' = held
        /\ out' = out /\ at[r] # "new"
    BY <1>8 DEF Disconnect, engineVars
  <2>2. \A q \in Requests : at'[q] = at[q] \/ (q = r /\ at'[q] = "answered")
    BY <1>8, <1>a DEF Disconnect
  <2>3. \A q \in Completions : \/ receiver'[q] = receiver[q]
                               \/ q = r /\ receiver'[q] = "dropped" /\ at[q] = "queued"
    BY <1>8, <1>a DEF Disconnect, ReceiverInHandler
  <2> QED
    BY <2>1, <2>2, <2>3, NothingHandedOver
<1>9. CASE TakeJob
  <2> DEFINE h == Head(jobs)
  <2>1. /\ engine = None /\ jobs # <<>> /\ jobs' = Tail(jobs)
        /\ before' = before /\ receiver' = receiver
    BY <1>9 DEF TakeJob
  <2>2. /\ h = jobs[1] /\ h \in Requests /\ 1 \in Places
        /\ Len(jobs) \in Nat /\ Len(jobs') = Len(jobs) - 1
        /\ \A i \in 1..Len(jobs') : i + 1 \in Places /\ jobs'[i] = jobs[i + 1]
    BY <2>1, <1>a, TailPlaces DEF Places
  <2>3. (\A q : Queued(q)' => Queued(q)) /\ Queued(h)
    BY <2>2 DEF Queued, Places
  <2>4. \A i, j \in 1..Len(jobs') :
            i < j /\ jobs'[i] \in Wipes => jobs'[j] \notin before'[jobs'[i]]
    <3> SUFFICES ASSUME NEW i \in 1..Len(jobs'), NEW j \in 1..Len(jobs'), i < j, jobs'[i] \in Wipes
                 PROVE  jobs'[j] \notin before[jobs'[i]]
      BY <2>1
    <3>1. /\ i + 1 \in Places /\ jobs'[i] = jobs[i + 1]
          /\ j + 1 \in Places /\ jobs'[j] = jobs[j + 1]
      BY <2>2
    <3>2. i + 1 < j + 1
      BY <2>2
    <3> QED
      BY <3>1, <3>2 DEF WipeInv
  <2>5. h \in Wipes => \A q \in before[h] : ~Queued(q)'
    <3> SUFFICES ASSUME h \in Wipes, NEW i \in 1..Len(jobs') PROVE jobs'[i] \notin before[h]
      BY DEF Queued, Places
    <3>1. i + 1 \in Places /\ 1 < i + 1 /\ jobs'[i] = jobs[i + 1]
      BY <2>2
    <3> QED
      BY <3>1, <2>2 DEF WipeInv
  <2>6. CASE h \in Completions
    <3>1. engine' = h /\ at' = at /\ out' = out /\ held' = held
      BY <1>9, <2>6 DEF TakeJob
    <3>2. receiver[h] # "none"
      BY <2>3, <2>6 DEF WipeInv
    <3>3. ASSUME NEW q \in Completions
          PROVE  /\ at'[q] \in {"new", "slot"} => receiver'[q] = "none"
                 /\ receiver'[q] = "none" =>
                       /\ ~Queued(q)' /\ engine' # q /\ q \notin held'
                       /\ \A v \in Wipes : q \notin before'[v]
      BY <2>1, <2>3, <3>1, <3>2 DEF WipeInv
    <3>4. ASSUME NEW v \in Wipes
          PROVE  /\ at'[v] = "new" => ~Queued(v)'
                 /\ at'[v] \in {"new", "queued"} => out'[v] = <<>>
                 /\ out'[v] = <<"wiped">> =>
                        \A q \in before'[v] : ~Queued(q)' /\ engine' # q /\ q \notin held'
      BY <2>1, <2>3, <3>1 DEF WipeInv
    <3> QED
      BY <2>4, <3>3, <3>4 DEF WipeInv, Places
  <2>7. CASE h \notin Completions
    <3>1. /\ h \in Wipes /\ engine' = engine /\ held' = {}
          /\ at' = [at EXCEPT ![h] = "answered"] /\ ToClient(h, <<"wiped">>)
      BY <1>9, <2>2, <2>7 DEF TakeJob, Requests
    <3>2. /\ \A q \in Requests : q # h => out'[q] = out[q] /\ at'[q] = at[q]
          /\ at'[h] = "answered"
      BY <3>1, <2>2, <1>a, ToClientTyped, SayingsSpelled
    <3>3. ASSUME NEW q \in Completions
          PROVE  /\ at'[q] \in {"new", "slot"} => receiver'[q] = "none"
                 /\ receiver'[q] = "none" =>
                       /\ ~Queued(q)' /\ engine' # q /\ q \notin held'
                       /\ \A v \in Wipes : q \notin before'[v]
      BY <2>1, <2>3, <3>1, <3>2 DEF WipeInv
    <3>4. ASSUME NEW v \in Wipes
          PROVE  /\ at'[v] = "new" => ~Queued(v)'
                 /\ at'[v] \in {"new", "queued"} => out'[v] = <<>>
                 /\ out'[v] = <<"wiped">> =>
                        \A q \in before'[v] : ~Queued(q)' /\ engine' # q /\ q \notin held'
      <4>1. \A q \in before[v] : q \in Completions /\ q # None
        BY <1>a
      <4>2. CASE v = h
        BY <4>1, <4>2, <2>1, <2>5, <3>1, <3>2
      <4>3. CASE v # h
        BY <4>1, <4>3, <2>1, <2>3, <3>1, <3>2 DEF WipeInv
      <4> QED
        BY <4>2, <4>3
    <3> QED
      BY <2>4, <3>3, <3>4 DEF WipeInv, Places
  <2> QED
    BY <2>6, <2>7
<1>10. CASE Prefill
  <2>1. /\ jobs' = jobs /\ before' = before /\ engine' \in {engine, None}
        /\ held' = held \/ held' = {engine} \/ held' = held \cup {engine}
        /\ at' = at /\ out' = out /\ receiver' = receiver
    BY <1>10 DEF Prefill, EndJob, clientVars
  <2> QED
    BY <2>1, NothingHandedOver
<1>11. CASE Draw
  <2>1. /\ jobs' = jobs /\ before' = before /\ engine' \in {engine, None} /\ held' = held
        /\ at' = at /\ out' = out /\ receiver' = receiver
    BY <1>11 DEF Draw, EndJob, clientVars
  <2> QED
    BY <2>1, NothingHandedOver
<1>12. CASE Panic
  <2>1. /\ jobs' = <<>> /\ before' = before /\ engine' = "dead" /\ held' = {}
        /\ at' = at /\ out' = out /\ receiver' = receiver
    BY <1>12 DEF Panic, clientVars
  <2> QED
    BY <2>1, NothingHandedOver
<1>13. CASE UNCHANGED vars
  BY <1>13, NothingHandedOver DEF vars
<1> QED
  BY <1>1, <1>2, <1>3, <1>4, <1>5, <1>6, <1>7, <1>8, <1>9, <1>10, <1>11, <1>12, <1>13
  DEF Next, Handlers, Engine

-----------------------------------------------------------------------------
(* A job is handed over once.                                              *)

LEMMA InitJobInv == Init => JobInv
  BY DEF Init, JobInv, Places, Queued

\* A step that neither hands a job over nor takes one up.
LEMMA JobsKept ==
    ASSUME JobInv,
           jobs' = jobs \/ jobs' = <<>>,
           engine' \in {engine, None, "dead"},
           engine' = "dead" => engine = "dead" \/ jobs' = <<>>,
           ready' = ready,
           \A r \in Completions : receiver'[r] = "none" => receiver[r] = "none"
    PROVE  JobInv'
<1> USE Apart
<1>1. \A r : Queued(r)' => Queued(r)
  BY DEF Queued, Places
<1>2. engine = "dead" => jobs' = <<>>
  BY DEF JobInv
<1>3. \A i, j \in 1..Len(jobs') : jobs'[i] = jobs'[j] /\ jobs'[i] \in Completions => i = j
  BY DEF JobInv, Places
<1>4. \A r \in Completions : Queued(r)' => engine' # r /\ r \notin ready'
  BY <1>1 DEF JobInv
<1> QED
  BY <1>2, <1>3, <1>4 DEF JobInv, Places

LEMMA NextJobInv ==
    ASSUME TypeInv, TypeInv', WipeInv, JobInv, [Next]_vars
    PROVE  JobInv'
<1> USE Apart
<1>a. /\ jobs \in Seq(Requests)
      /\ receiver \in [Completions -> {"none", "open", "dropped"}]
  BY DEF TypeInv
<1>1. ASSUME NEW r \in Completions, ChatCompletions(r) PROVE JobInv'
  BY <1>1, JobsKept DEF ChatCompletions, engineVars
<1>2. ASSUME NEW r \in Completions, Submit(r) PROVE JobInv'
  <2>1. /\ at[r] = "slot"
        /\ jobs' = IF engine = "dead" THEN jobs ELSE Append(jobs, r)
        /\ receiver' = [receiver EXCEPT ![r] = "open"]
        /\ engine' = engine /\ ready' = ready
    BY <1>2 DEF Submit, Send, engineVars
  <2>2. receiver[r] = "none"
    BY <2>1 DEF WipeInv
  <2>3. ~Queued(r) /\ engine # r /\ r \notin ready
    BY <2>2 DEF WipeInv, JobInv
  <2>4. \A q \in Completions : receiver'[q] = "none" => receiver[q] = "none"
    BY <2>1, <1>a
  <2>5. CASE engine = "dead"
    BY <2>1, <2>4, <2>5, JobsKept
  <2>6. CASE engine # "dead"
    <3>1. /\ Len(jobs) \in Nat /\ Len(jobs') = Len(jobs) + 1 /\ jobs'[Len(jobs) + 1] = r
          /\ \A i \in 1..Len(jobs) : jobs'[i] = jobs[i] /\ jobs[i] # r
      BY <2>1, <2>3, <2>6, <1>a, AppendPlaces DEF Queued, Places
    <3>2. ASSUME NEW i \in 1..Len(jobs'), NEW j \in 1..Len(jobs'),
                 jobs'[i] = jobs'[j], jobs'[i] \in Completions
          PROVE  i = j
      <4>1. /\ i \in 1..Len(jobs) \/ i = Len(jobs) + 1
            /\ j \in 1..Len(jobs) \/ j = Len(jobs) + 1
        BY <3>1
      <4> QED
        BY <3>1, <3>2, <4>1 DEF JobInv, Places
    <3>3. ASSUME NEW q \in Completions, Queued(q)' PROVE engine' # q /\ q \notin ready'
      <4>1. Queued(q) \/ q = r
        <5>1. PICK i \in 1..Len(jobs') : jobs'[i] = q
          BY <3>3 DEF Queued, Places
        <5>2. i \in 1..Len(jobs) \/ i = Len(jobs) + 1
          BY <3>1
        <5> QED
          BY <3>1, <5>1, <5>2 DEF Queued, Places
      <4> QED
        BY <2>1, <2>3, <4>1 DEF JobInv
    <3> QED
      BY <2>1, <2>4, <2>6, <3>2, <3>3 DEF JobInv, Places
  <2> QED
    BY <2>5, <2>6
<1>3. ASSUME NEW r \in Completions, Started(r) PROVE JobInv'
  BY <1>3, JobsKept DEF Started, engineVars
<1>4. ASSUME NEW r \in Completions, ReadPlain(r) \/ ReadStream(r) PROVE JobInv'
  <2>1. /\ jobs' = jobs /\ engine' = engine /\ ready' = ready
        /\ receiver' = receiver \/ receiver' = [receiver EXCEPT ![r] = "dropped"]
    <3>1. KeepReading \/ \E s : Answer(r, s)
      BY <1>4 DEF ReadPlain, ReadStream
    <3> QED
      BY <1>4, <3>1 DEF ReadPlain, ReadStream, KeepReading, Answer, engineVars
  <2>2. \A q \in Completions : receiver'[q] = "none" => receiver[q] = "none"
    BY <2>1, <1>a
  <2> QED
    BY <2>1, <2>2, JobsKept
<1>5. ASSUME NEW w \in Wipes, Wipe(w) PROVE JobInv'
  <2>1. /\ jobs' = IF engine = "dead" THEN jobs ELSE Append(jobs, w)
        /\ receiver' = receiver /\ engine' = engine /\ ready' = ready
    BY <1>5 DEF Wipe, Send, engineVars
  <2>2. w \notin Completions /\ w \in Requests
    OBVIOUS
  <2>3. CASE engine = "dead"
    BY <2>1, <2>3, JobsKept
  <2>4. CASE engine # "dead"
    <3>1. /\ Len(jobs) \in Nat /\ Len(jobs') = Len(jobs) + 1 /\ jobs'[Len(jobs) + 1] = w
          /\ \A i \in 1..Len(jobs) : jobs'[i] = jobs[i]
      BY <2>1, <2>2, <2>4, <1>a, AppendPlaces
    <3>2. \A i \in 1..Len(jobs') : jobs'[i] \in Completions => i \in 1..Len(jobs)
      BY <2>2, <3>1
    <3>3. \A i, j \in 1..Len(jobs') : jobs'[i] = jobs'[j] /\ jobs'[i] \in Completions => i = j
      BY <3>1, <3>2 DEF JobInv, Places
    <3>4. ASSUME NEW q \in Completions, Queued(q)' PROVE Queued(q)
      BY <3>1, <3>2, <3>4 DEF Queued, Places
    <3> QED
      BY <2>1, <2>4, <3>3, <3>4 DEF JobInv, Places
  <2> QED
    BY <2>3, <2>4
<1>6. ASSUME NEW w \in Wipes, WipeRefused(w) PROVE JobInv'
  BY <1>6, JobsKept DEF WipeRefused, engineVars
<1>7. ASSUME NEW r \in Requests, Disconnect(r) PROVE JobInv'
  <2>1. /\ jobs' = jobs /\ engine' = engine /\ ready' = ready
        /\ receiver' = receiver \/ receiver' = [receiver EXCEPT ![r] = "dropped"]
    BY <1>7 DEF Disconnect, engineVars
  <2>2. \A q \in Completions : receiver'[q] = "none" => receiver[q] = "none"
    BY <2>1, <1>a
  <2> QED
    BY <2>1, <2>2, JobsKept
<1>8. CASE TakeJob
  <2> DEFINE h == Head(jobs)
  <2>1. /\ engine = None /\ jobs # <<>> /\ jobs' = Tail(jobs) /\ receiver' = receiver
        /\ \/ h \in Completions /\ engine' = h /\ ready' = ready \cup {h}
           \/ h \notin Completions /\ engine' = None /\ ready' = ready
    BY <1>8 DEF TakeJob
  <2>2. /\ h = jobs[1] /\ h \in Requests /\ 1 \in Places
        /\ \A i \in 1..Len(jobs') : i + 1 \in Places /\ jobs'[i] = jobs[i + 1]
    BY <2>1, <1>a, TailPlaces DEF Places
  <2> HIDE DEF h
  <2>3. \A i, j \in 1..Len(jobs') : jobs'[i] = jobs'[j] /\ jobs'[i] \in Completions => i = j
    <3> SUFFICES ASSUME NEW i \in 1..Len(jobs'), NEW j \in 1..Len(jobs'),
                        jobs'[i] = jobs'[j], jobs'[i] \in Completions
                 PROVE  i = j
      OBVIOUS
    <3>1. /\ i + 1 \in Places /\ jobs'[i] = jobs[i + 1]
          /\ j + 1 \in Places /\ jobs'[j] = jobs[j + 1]
      BY <2>2
    <3>2. i + 1 = j + 1
      BY <3>1 DEF JobInv
    <3> QED
      BY <3>2
  <2>4. ASSUME NEW q \in Completions, Queued(q)' PROVE Queued(q) /\ q # h
    <3>1. PICK i \in 1..Len(jobs') : jobs'[i] = q
      BY <2>4 DEF Queued, Places
    <3>2. i + 1 \in Places /\ jobs[i + 1] = q
      BY <2>2, <3>1
    <3>3. q = h => i + 1 = 1
      BY <2>2, <3>2 DEF JobInv
    <3>4. i + 1 # 1
      BY <3>1
    <3> QED
      BY <3>2, <3>3, <3>4 DEF Queued
  <2>5. \A q \in Completions : Queued(q)' => engine' # q /\ q \notin ready'
    BY <2>1, <2>4 DEF JobInv
  <2>6. engine' # "dead"
    BY <2>1
  <2>7. \A q \in Completions : receiver'[q] = "none" => q \notin ready'
    <3>1. h \in Completions => receiver[h] # "none"
      BY <2>2 DEF WipeInv, Queued
    <3> QED
      BY <2>1, <3>1 DEF JobInv
  <2> QED
    BY <2>3, <2>5, <2>6, <2>7 DEF JobInv, Places
<1>9. CASE Prefill \/ Draw
  <2>1. /\ jobs' = jobs /\ ready' = ready /\ receiver' = receiver
        /\ engine \in Completions /\ engine' \in {engine, None}
    BY <1>9 DEF Prefill, Draw, EndJob
  <2>2. engine' # "dead"
    BY <2>1
  <2> QED
    BY <2>1, <2>2, JobsKept
<1>10. CASE Panic
  BY <1>10, JobsKept DEF Panic
<1>11. CASE UNCHANGED vars
  <2>1. engine' = engine /\ jobs' = jobs /\ ready' = ready /\ receiver' = receiver
    BY <1>11 DEF vars
  <2> QED
    BY <2>1, JobsKept
<1> QED
  BY <1>1, <1>2, <1>3, <1>4, <1>5, <1>6, <1>7, <1>8, <1>9, <1>10, <1>11
  DEF Next, Handlers, Engine

-----------------------------------------------------------------------------
(* What the engine drew is what is in the channel.                         *)

\* How many of the first n events are texts, and the texts they are.
LEMMA TextPlaces ==
    ASSUME NEW s, NEW n \in Nat
    PROVE  /\ IsFiniteSet({j \in 1..n : s[j] = "text"})
           /\ Cardinality({j \in 1..n : s[j] = "text"}) \in Nat
           /\ TextsIn(s, n) \in Seq({"text"})
<1>1. IsFiniteSet(1..n)
  BY FS_Interval
<1>2. IsFiniteSet({j \in 1..n : s[j] = "text"})
  BY <1>1, FS_Subset
<1>3. Cardinality({j \in 1..n : s[j] = "text"}) \in Nat
  BY <1>2, FS_CardinalityType
<1>4. ASSUME NEW k \in Nat PROVE [i \in 1..k |-> "text"] \in Seq({"text"})
  OBVIOUS
<1>5. TextsIn(s, n) \in Seq({"text"})
  BY <1>3, <1>4 DEF TextsIn
<1> QED
  BY <1>2, <1>3, <1>5

\* One more text.
LEMMA OneMoreText ==
    ASSUME NEW k \in Nat
    PROVE  [i \in 1..(k + 1) |-> "text"] = [i \in 1..k |-> "text"] \o <<"text">>
  OBVIOUS

\* Reading one more event adds a text exactly when it is one.
LEMMA TextsGrow ==
    ASSUME NEW s, NEW n \in Nat
    PROVE  TextsIn(s, n + 1) = IF s[n + 1] = "text" THEN TextsIn(s, n) \o <<"text">>
                               ELSE TextsIn(s, n)
<1> DEFINE S(m) == {j \in 1..m : s[j] = "text"}
<1>1. IsFiniteSet(S(n)) /\ Cardinality(S(n)) \in Nat
  BY TextPlaces
<1>2. CASE s[n + 1] = "text"
  <2>1. S(n + 1) = S(n) \cup {n + 1} /\ n + 1 \notin S(n)
    BY <1>2
  <2>2. Cardinality(S(n + 1)) = Cardinality(S(n)) + 1
    BY <1>1, <2>1, FS_AddElement
  <2> DEFINE c == Cardinality(S(n))
  <2>4. [i \in 1..(c + 1) |-> "text"] = [i \in 1..c |-> "text"] \o <<"text">>
    BY <1>1, OneMoreText
  <2> QED
    BY <1>2, <2>2, <2>4 DEF TextsIn
<1>3. CASE s[n + 1] # "text"
  <2>1. S(n + 1) = S(n)
    BY <1>3
  <2> QED
    BY <1>3, <2>1 DEF TextsIn
<1> QED
  BY <1>2, <1>3

\* The texts depend on the events read alone.
LEMMA SameTexts ==
    ASSUME NEW s, NEW t, NEW n \in Nat, \A i \in 1..n : s[i] = t[i]
    PROVE  TextsIn(s, n) = TextsIn(t, n)
<1>1. {j \in 1..n : s[j] = "text"} = {j \in 1..n : t[j] = "text"}
  OBVIOUS
<1> QED
  BY <1>1 DEF TextsIn

\* Before the first event there is none.
LEMMA NoTexts ==
    ASSUME NEW s
    PROVE  TextsIn(s, 0) = <<>>
<1>1. {j \in 1..0 : s[j] = "text"} = {}
  OBVIOUS
<1>2. Cardinality({j \in 1..0 : s[j] = "text"}) = 0
  BY <1>1, FS_EmptySet
<1>3. [i \in 1..0 |-> "text"] = <<>>
  OBVIOUS
<1> QED
  BY <1>2, <1>3 DEF TextsIn

LEMMA InitChannelInv == Init => ChannelInv
<1> SUFFICES ASSUME Init, NEW r \in Completions PROVE ChannelOk(r)
  BY DEF ChannelInv
<1>1. /\ receiver[r] = "none" /\ events[r] = <<>> /\ made[r] = 0 /\ ended[r] = "no"
  BY DEF Init
<1> QED
  BY <1>1 DEF ChannelOk

\* A step that is not the engine's on this job.
LEMMA ChannelKept ==
    ASSUME NEW q \in Completions, ChannelOk(q),
           events'[q] = events[q], made'[q] = made[q], ended'[q] = ended[q],
           receiver'[q] # "dropped" => receiver'[q] = receiver[q],
           ended[q] # "no" /\ engine # q /\ ~Queued(q) => engine' # q /\ ~Queued(q)'
    PROVE  ChannelOk(q)'
  BY DEF ChannelOk, TextsMade

\* A step of the engine on its job.
LEMMA EngineChannel ==
    ASSUME TypeInv, JobInv, WipeInv, NEW q \in Completions, ChannelOk(q), engine = q,
           NEW e \in {"prefill", "text", "blank"} \cup Ends, Post(e),
           receiver' = receiver, jobs' = jobs,
           receiver[q] # "dropped" => made'[q] = IF e = "text" THEN made[q] + 1 ELSE made[q],
           \/ ended'[q] = ended[q] /\ e \notin Ends
           \/ /\ e \in Ends /\ engine' = None
              /\ ended'[q] = e \/ (receiver[q] = "dropped" /\ ended'[q] = "cut")
    PROVE  ChannelOk(q)'
<1> USE Apart
<1> DEFINE s == events[q]
           n == Len(events[q])
<1>1. /\ receiver[q] # "none" /\ ended[q] = "no" /\ ~Queued(q)
      /\ \A i \in 1..n : s[i] \notin Ends
  BY DEF WipeInv, ChannelOk, JobInv
<1>2. n \in Nat /\ made[q] \in Nat /\ s \in Seq({"prefill", "text", "blank"} \cup Ends)
      /\ receiver[q] \in {"open", "dropped"}
  BY <1>1 DEF TypeInv
<1>3. ~Queued(q)'
  BY <1>1 DEF Queued, Places
<1>4. ended'[q] # "no" => engine' # q
  BY <1>1 
<1>5. CASE receiver[q] = "dropped"
  <2>1. events' = events
    BY <1>5, PostPlaces
  <2> QED
    BY <1>1, <1>3, <1>4, <1>5, <2>1 DEF ChannelOk
<1>6. CASE receiver[q] = "open"
  <2>1. events'[q] = Append(s, e)
    BY <1>6, PostPlaces
  <2>2. /\ Len(events'[q]) = n + 1 /\ events'[q][n + 1] = e
        /\ \A i \in 1..n : events'[q][i] = s[i]
    BY <1>2, <2>1, AppendPlaces
  <2>3. TextsIn(events'[q], n) = TextsMade(q)
    <3>1. TextsIn(events'[q], n) = TextsIn(s, n)
      BY <1>2, <2>2, SameTexts
    <3> QED
      BY <1>6, <3>1 DEF ChannelOk
  <2>4. TextsIn(events'[q], n + 1) = IF e = "text" THEN TextsIn(events'[q], n) \o <<"text">>
                                     ELSE TextsIn(events'[q], n)
    BY <1>2, <2>2, TextsGrow
  <2>5. TextsIn(events'[q], n + 1) = TextsMade(q)'
    <3>1. CASE e = "text"
      <4>1. made'[q] = made[q] + 1
        BY <1>6, <3>1
      <4>2. [i \in 1..(made[q] + 1) |-> "text"] = [i \in 1..made[q] |-> "text"] \o <<"text">>
        BY <1>2, OneMoreText
      <4> QED
        BY <2>3, <2>4, <3>1, <4>1, <4>2 DEF TextsMade
    <3>2. CASE e # "text"
      BY <1>6, <2>3, <2>4, <3>2 DEF TextsMade
    <3> QED
      BY <3>1, <3>2
  <2>6. /\ receiver'[q] = "open" /\ ended'[q] # "cut"
        /\ ended'[q] # "no" => e \in Ends /\ ended'[q] = e
        /\ ended'[q] = "no" => e \notin Ends
    BY <1>1, <1>6 DEF Ends
  <2>7. ended'[q] = "no" => \A i \in 1..(n + 1) : events'[q][i] \notin Ends
    <3> SUFFICES ASSUME ended'[q] = "no", NEW i \in 1..(n + 1) PROVE events'[q][i] \notin Ends
      OBVIOUS
    <3>1. i \in 1..n \/ i = n + 1
      BY <1>2
    <3> QED
      BY <1>1, <2>2, <2>6, <3>1
  <2>8. \A i \in 1..n : events'[q][i] \notin Ends
    BY <1>1, <2>2
  <2>9. Len(events'[q]) > 0 /\ Len(events'[q]) - 1 = n
    BY <1>2, <2>2
  <2>a. TextsIn(events'[q], Len(events'[q])) = TextsMade(q)'
    BY <2>2, <2>5
  <2>b. ended'[q] = "no" => \A i \in 1..Len(events'[q]) : events'[q][i] \notin Ends
    BY <2>2, <2>7
  <2>c. \A i \in 1..(Len(events'[q]) - 1) : events'[q][i] \notin Ends
    BY <2>8, <2>9
  <2>d. ended'[q] # "no" => events'[q][Len(events'[q])] = ended'[q]
    BY <2>2, <2>6
  <2> QED
    BY <1>3, <1>4, <2>6, <2>9, <2>a, <2>b, <2>c, <2>d DEF ChannelOk
<1> QED
  BY <1>2, <1>5, <1>6

\* What a step of the engine on its job does to what is said of it.
LEMMA EngineSteps ==
    ASSUME TypeInv, Prefill \/ Draw
    PROVE  /\ engine \in Completions /\ jobs' = jobs /\ receiver' = receiver /\ seen' = seen
           /\ UNCHANGED clientVars /\ ready' = ready /\ engine' \in {engine, None}
           /\ \A q \in Completions : q # engine => made'[q] = made[q] /\ ended'[q] = ended[q]
           /\ \E e \in {"prefill", "text", "blank"} \cup Ends :
                 /\ Post(e)
                 /\ receiver[engine] # "dropped" =>
                       made'[engine] = IF e = "text" THEN made[engine] + 1 ELSE made[engine]
                 /\ \/ ended'[engine] = ended[engine] /\ e \notin Ends
                    \/ /\ e \in Ends /\ engine' = None
                       /\ \/ ended'[engine] = e
                          \/ receiver[engine] = "dropped" /\ ended'[engine] = "cut"
<1>a. made \in [Completions -> Nat] /\ ended \in [Completions -> {"no", "done", "error", "cut"}]
  BY DEF TypeInv
<1>1. CASE Prefill
  <2>0. /\ engine \in Completions /\ jobs' = jobs /\ receiver' = receiver /\ seen' = seen
        /\ UNCHANGED clientVars /\ ready' = ready /\ made' = made
    BY <1>1 DEF Prefill
  <2>1. CASE EndJob("error", "error")
    BY <2>0, <2>1, <1>a DEF EndJob, Ends
  <2>2. CASE Post("prefill") /\ UNCHANGED <<engine, ended>>
    BY <2>0, <2>2 DEF Ends
  <2> QED
    BY <1>1, <2>1, <2>2 DEF Prefill
<1>2. CASE Draw
  <2>0. /\ engine \in Completions /\ jobs' = jobs /\ receiver' = receiver /\ seen' = seen
        /\ UNCHANGED clientVars /\ ready' = ready
    BY <1>2 DEF Draw
  <2>1. CASE receiver[engine] = "dropped" /\ EndJob("done", "cut") /\ made' = made
    BY <2>0, <2>1, <1>a DEF EndJob, Ends
  <2>2. CASE /\ Post("text") /\ made' = [made EXCEPT ![engine] = made[engine] + 1]
             /\ UNCHANGED <<engine, ended>>
    BY <2>0, <2>2, <1>a DEF Ends
  <2>3. CASE Post("blank") /\ made' = made /\ UNCHANGED <<engine, ended>>
    BY <2>0, <2>3 DEF Ends
  <2>4. ASSUME NEW e \in Ends, EndJob(e, e), made' = made
        PROVE  /\ engine' = None /\ Post(e) /\ ended' = [ended EXCEPT ![engine] = e]
    BY <2>4 DEF EndJob
  <2>5. CASE \E e \in Ends : EndJob(e, e) /\ made' = made
    <3>1. PICK e \in Ends : EndJob(e, e) /\ made' = made
      BY <2>5
    <3>2. e \in {"prefill", "text", "blank"} \cup Ends /\ e # "text"
      BY DEF Ends
    <3> QED
      BY <2>0, <2>4, <3>1, <3>2, <1>a
  <2> QED
    BY <1>2, <2>1, <2>2, <2>3, <2>5 DEF Draw, HungUp, Ends
<1> QED
  BY <1>1, <1>2

LEMMA NextChannelInv ==
    ASSUME TypeInv, TypeInv', WipeInv, JobInv, JobInv', ChannelInv, [Next]_vars
    PROVE  ChannelInv'
<1> USE Apart
<1> SUFFICES ASSUME NEW q \in Completions PROVE ChannelOk(q)'
  BY DEF ChannelInv
<1>a. /\ ChannelOk(q) /\ q \in Requests /\ q # None /\ q # "dead" /\ q \notin Wipes
      /\ jobs \in Seq(Requests)
      /\ receiver \in [Completions -> {"none", "open", "dropped"}]
  BY DEF ChannelInv, TypeInv
<1>b. Queued(q)' = \E i \in 1..Len(jobs') : jobs'[i] = q
  BY DEF Queued, Places
<1>1. ASSUME NEW r \in Completions, ChatCompletions(r) PROVE ChannelOk(q)'
  <2>1. UNCHANGED <<jobs, receiver, events, engine, made, ended>>
    BY <1>1 DEF ChatCompletions, engineVars
  <2> QED
    BY <2>1, <1>a, <1>b, ChannelKept DEF Queued, Places
<1>2. ASSUME NEW r \in Completions, Submit(r) PROVE ChannelOk(q)'
  <2>1. /\ at[r] = "slot" /\ UNCHANGED <<events, engine, made, ended>>
        /\ jobs' = jobs \/ jobs' = Append(jobs, r)
        /\ receiver' = [receiver EXCEPT ![r] = "open"]
    BY <1>2 DEF Submit, Send, engineVars
  <2>2. CASE q = r
    <3>1. receiver[q] = "none" /\ receiver'[q] = "open"
      BY <2>1, <2>2, <1>a DEF WipeInv
    <3>2. events'[q] = <<>> /\ made'[q] = 0 /\ ended'[q] = "no"
      BY <2>1, <3>1, <1>a DEF ChannelOk
    <3>3. TextsIn(events'[q], 0) = <<>> /\ TextsMade(q)' = <<>> /\ Len(events'[q]) = 0
      BY <3>2, NoTexts DEF TextsMade
    <3>4. TextsIn(events'[q], Len(events'[q])) = TextsMade(q)'
      BY <3>3
    <3> QED
      BY <3>1, <3>2, <3>3, <3>4 DEF ChannelOk
  <2>3. CASE q # r
    <3>1. Queued(q)' => Queued(q)
      <4>1. CASE jobs' = jobs
        BY <4>1, <1>b DEF Queued, Places
      <4>2. CASE jobs' = Append(jobs, r)
        <5>1. /\ Len(jobs) \in Nat /\ Len(jobs') = Len(jobs) + 1 /\ jobs'[Len(jobs) + 1] = r
              /\ \A i \in 1..Len(jobs) : jobs'[i] = jobs[i]
          BY <4>2, <1>a, AppendPlaces
        <5>2. \A i \in 1..Len(jobs') : i \in 1..Len(jobs) \/ i = Len(jobs) + 1
          BY <5>1
        <5> QED
          BY <2>3, <5>1, <5>2, <1>b DEF Queued, Places
      <4> QED
        BY <2>1, <4>1, <4>2
    <3>2. receiver'[q] = receiver[q]
      BY <2>1, <2>3, <1>a
    <3> QED
      BY <2>1, <3>1, <3>2, <1>a, ChannelKept
  <2> QED
    BY <2>2, <2>3
<1>3. ASSUME NEW r \in Completions, Started(r) PROVE ChannelOk(q)'
  <2>1. UNCHANGED <<jobs, receiver, events, engine, made, ended>>
    BY <1>3 DEF Started, engineVars
  <2> QED
    BY <2>1, <1>a, <1>b, ChannelKept DEF Queued, Places
<1>4. ASSUME NEW r \in Completions, ReadPlain(r) \/ ReadStream(r) PROVE ChannelOk(q)'
  <2>1. /\ UNCHANGED <<jobs, events, engine, made, ended>>
        /\ receiver' = receiver \/ receiver' = [receiver EXCEPT ![r] = "dropped"]
    <3>1. KeepReading \/ \E s : Answer(r, s)
      BY <1>4 DEF ReadPlain, ReadStream
    <3> QED
      BY <1>4, <3>1 DEF ReadPlain, ReadStream, KeepReading, Answer, engineVars
  <2>2. receiver'[q] # "dropped" => receiver'[q] = receiver[q]
    BY <2>1, <1>a
  <2> QED
    BY <2>1, <2>2, <1>a, <1>b, ChannelKept DEF Queued, Places
<1>5. ASSUME NEW w \in Wipes, Wipe(w) PROVE ChannelOk(q)'
  <2>1. /\ UNCHANGED <<receiver, events, engine, made, ended>>
        /\ jobs' = jobs \/ jobs' = Append(jobs, w)
    BY <1>5 DEF Wipe, Send, engineVars
  <2>2. Queued(q)' => Queued(q)
    <3>1. CASE jobs' = jobs
      BY <3>1, <1>b DEF Queued, Places
    <3>2. CASE jobs' = Append(jobs, w)
      <4>1. /\ Len(jobs) \in Nat /\ Len(jobs') = Len(jobs) + 1 /\ jobs'[Len(jobs) + 1] = w
            /\ \A i \in 1..Len(jobs) : jobs'[i] = jobs[i]
        BY <3>2, <1>a, AppendPlaces
      <4>2. \A i \in 1..Len(jobs') : i \in 1..Len(jobs) \/ i = Len(jobs) + 1
        BY <4>1
      <4> QED
        BY <4>1, <4>2, <1>a, <1>b DEF Queued, Places
    <3> QED
      BY <2>1, <3>1, <3>2
  <2> QED
    BY <2>1, <2>2, <1>a, ChannelKept
<1>6. ASSUME NEW w \in Wipes, WipeRefused(w) PROVE ChannelOk(q)'
  <2>1. UNCHANGED <<jobs, receiver, events, engine, made, ended>>
    BY <1>6 DEF WipeRefused, engineVars
  <2> QED
    BY <2>1, <1>a, <1>b, ChannelKept DEF Queued, Places
<1>7. ASSUME NEW r \in Requests, Disconnect(r) PROVE ChannelOk(q)'
  <2>1. /\ UNCHANGED <<jobs, events, engine, made, ended>>
        /\ receiver' = receiver \/ receiver' = [receiver EXCEPT ![r] = "dropped"]
    BY <1>7 DEF Disconnect, engineVars
  <2>2. receiver'[q] # "dropped" => receiver'[q] = receiver[q]
    BY <2>1, <1>a
  <2> QED
    BY <2>1, <2>2, <1>a, <1>b, ChannelKept DEF Queued, Places
<1>8. CASE TakeJob
  <2>1. /\ jobs # <<>> /\ jobs' = Tail(jobs) /\ UNCHANGED <<receiver, events, made, ended>>
        /\ engine' = Head(jobs) \/ engine' = engine
    BY <1>8 DEF TakeJob
  <2>2. /\ Head(jobs) = jobs[1] /\ 1 \in 1..Len(jobs)
        /\ \A i \in 1..Len(jobs') : i + 1 \in 1..Len(jobs) /\ jobs'[i] = jobs[i + 1]
    BY <2>1, <1>a, TailPlaces
  <2>3. ~Queued(q) => Head(jobs) # q /\ ~Queued(q)'
    BY <2>2, <1>b DEF Queued, Places
  <2> QED
    BY <2>1, <2>3, <1>a, ChannelKept
<1>9. CASE Prefill \/ Draw
  <2>1. PICK e \in {"prefill", "text", "blank"} \cup Ends :
                 /\ Post(e)
                 /\ receiver[engine] # "dropped" =>
                       made'[engine] = IF e = "text" THEN made[engine] + 1 ELSE made[engine]
                 /\ \/ ended'[engine] = ended[engine] /\ e \notin Ends
                    \/ /\ e \in Ends /\ engine' = None
                       /\ \/ ended'[engine] = e
                          \/ receiver[engine] = "dropped" /\ ended'[engine] = "cut"
    BY <1>9, EngineSteps
  <2>2. /\ engine \in Completions /\ jobs' = jobs /\ receiver' = receiver
        /\ engine' \in {engine, None}
        /\ q # engine => made'[q] = made[q] /\ ended'[q] = ended[q]
    BY <1>9, EngineSteps
  <2>3. CASE q = engine
    BY <2>1, <2>2, <2>3, <1>a, EngineChannel
  <2>4. CASE q # engine
    <3>1. events'[q] = events[q]
      BY <2>1, <2>2, <2>4, PostPlaces
    <3> QED
      BY <2>2, <2>4, <3>1, <1>a, <1>b, ChannelKept DEF Queued, Places
  <2> QED
    BY <2>3, <2>4
<1>10. CASE Panic
  <2>1. UNCHANGED <<receiver, events, made, ended>> /\ jobs' = <<>> /\ engine' = "dead"
    BY <1>10 DEF Panic, clientVars
  <2>2. ~Queued(q)'
    BY <2>1, <1>b
  <2> QED
    BY <2>1, <2>2, <1>a, ChannelKept
<1>11. CASE UNCHANGED vars
  <2>1. UNCHANGED <<jobs, receiver, events, engine, made, ended>>
    BY <1>11 DEF vars
  <2> QED
    BY <2>1, <1>a, <1>b, ChannelKept DEF Queued, Places
<1> QED
  BY <1>1, <1>2, <1>3, <1>4, <1>5, <1>6, <1>7, <1>8, <1>9, <1>10, <1>11
  DEF Next, Handlers, Engine

-----------------------------------------------------------------------------
(* What a client that stays is sent.                                       *)

\* The event that ends a generation is its last, and all its texts came before it.
LEMMA EndRead ==
    ASSUME TypeInv, NEW r \in Completions, ChannelOk(r), receiver[r] = "open",
           NEW n \in Nat, n < Len(events[r]), events[r][n + 1] \in Ends
    PROVE  /\ ended[r] = events[r][n + 1] /\ engine # r /\ ~Queued(r)
           /\ TextsIn(events[r], n) = TextsMade(r)
<1>1. Len(events[r]) \in Nat /\ n + 1 \in 1..Len(events[r])
  BY DEF TypeInv
<1>2. ended[r] # "no"
  BY <1>1 DEF ChannelOk
<1>3. n + 1 = Len(events[r])
  <2>1. n + 1 \notin 1..(Len(events[r]) - 1)
    BY <1>2 DEF ChannelOk
  <2> QED
    BY <1>1, <2>1
<1>4. ended[r] = events[r][n + 1] /\ engine # r /\ ~Queued(r)
  BY <1>2, <1>3 DEF ChannelOk
<1>5. TextsIn(events[r], n + 1) = TextsMade(r)
  BY <1>3 DEF ChannelOk
<1>6. TextsIn(events[r], n + 1) = TextsIn(events[r], n)
  <2>1. events[r][n + 1] # "text"
    BY DEF Ends
  <2> QED
    BY <2>1, TextsGrow
<1> QED
  BY <1>4, <1>5, <1>6

\* A channel that is over without such an event: the generation never ended.
LEMMA EndMissing ==
    ASSUME TypeInv, JobInv, NEW r \in Completions, ChannelOk(r), receiver[r] = "open", Over(r),
           \A i \in 1..Len(events[r]) : events[r][i] \notin Ends
    PROVE  /\ ended[r] = "no" /\ engine # r /\ ~Queued(r)
           /\ TextsIn(events[r], Len(events[r])) = TextsMade(r)
<1>1. Len(events[r]) \in Nat /\ ended[r] \in {"no", "done", "error", "cut"}
  BY DEF TypeInv
<1>2. ended[r] = "no"
  <2> SUFFICES ASSUME ended[r] # "no" PROVE FALSE
    OBVIOUS
  <2>1. /\ Len(events[r]) \in 1..Len(events[r]) /\ events[r][Len(events[r])] = ended[r]
        /\ ended[r] \in Ends
    BY <1>1 DEF ChannelOk, Ends
  <2> QED
    BY <2>1
<1>3. engine # r /\ ~Queued(r)
  <2>1. CASE engine = "dead"
    BY <2>1, Apart DEF JobInv, Queued, Places
  <2>2. CASE engine # r /\ r \in ready
    BY <2>2 DEF JobInv
  <2> QED
    BY <2>1, <2>2 DEF Over
<1> QED
  BY <1>2, <1>3 DEF ChannelOk

LEMMA InitReaderInv == Init => ReaderInv
<1> SUFFICES ASSUME Init, NEW r \in Completions PROVE ReaderOk(r)
  BY DEF ReaderInv
<1>1. r \in Requests
  BY Apart
<1>2. /\ at[r] = "new" /\ receiver[r] = "none" /\ seen[r] = 0
      /\ out[r] = <<>> /\ events[r] = <<>>
  BY <1>1 DEF Init
<1> QED
  BY <1>2 DEF ReaderOk

\* A step of anyone else: at most more events, and none when the engine is through.
LEMMA OthersReader ==
    ASSUME TypeInv, TypeInv', NEW r \in Completions, ReaderOk(r),
           at'[r] = at[r], receiver'[r] = receiver[r], seen'[r] = seen[r], out'[r] = out[r],
           r \notin gone' => r \notin gone,
           Len(events[r]) <= Len(events'[r]),
           \A i \in 1..Len(events[r]) : events'[r][i] = events[r][i],
           engine # r /\ ~Queued(r) =>
               engine' # r /\ ~Queued(r)' /\ made'[r] = made[r] /\ ended'[r] = ended[r]
    PROVE  ReaderOk(r)'
<1>1. seen[r] \in Nat /\ Len(events[r]) \in Nat /\ Len(events'[r]) \in Nat
  BY DEF TypeInv
<1>2. seen[r] <= Len(events[r]) /\ \A i \in 1..seen[r] : events'[r][i] = events[r][i]
  BY <1>1 DEF ReaderOk
<1>3. TextsIn(events'[r], seen[r]) = TextsIn(events[r], seen[r])
  BY <1>1, <1>2, SameTexts
<1>4. at[r] = "answered" /\ r \notin gone' /\ receiver[r] # "none" =>
         /\ engine' # r /\ ~Queued(r)' /\ ended'[r] # "cut"
         /\ out[r] = IF r \in Streams THEN WholeStream(r)' ELSE WholePlain(r)'
  BY DEF ReaderOk, WholeStream, WholePlain
<1>5. seen'[r] <= Len(events'[r])
  BY <1>1, <1>2
<1>6. at[r] # "answered" => \A i \in 1..seen[r] : events'[r][i] \notin Ends
  BY <1>2 DEF ReaderOk
<1>7. at[r] = "reading" /\ r \notin gone' =>
         out[r] = IF r \in Streams THEN <<"role">> \o TextsIn(events'[r], seen[r]) ELSE <<>>
  BY <1>3 DEF ReaderOk
<1>8. /\ at[r] \in {"queued", "reading"} => receiver[r] = "open"
      /\ at[r] \in {"new", "slot", "queued"} => seen[r] = 0 /\ out[r] = <<>>
  BY DEF ReaderOk
<1> QED
  BY <1>4, <1>5, <1>6, <1>7, <1>8 DEF ReaderOk

\* An answer a reader gives.
LEMMA AnswerReader ==
    ASSUME TypeInv, NEW r \in Completions, NEW s \in Seq(Sayings), Answer(r, s),
           NEW m \in Nat, seen'[r] = m, m <= Len(events'[r]), UNCHANGED <<gone, engineVars, jobs>>,
           r \notin gone =>
              /\ engine # r /\ ~Queued(r) /\ ended[r] # "cut"
              /\ out[r] \o s = IF r \in Streams THEN WholeStream(r) ELSE WholePlain(r)
    PROVE  ReaderOk(r)'
<1>1. at'[r] = "answered" /\ (r \notin gone => out'[r] = out[r] \o s)
  BY AnswerTyped
<1>2. Queued(r)' <=> Queued(r)
  BY DEF Queued, Places
<1>3. WholeStream(r)' = WholeStream(r) /\ WholePlain(r)' = WholePlain(r) /\ ended' = ended
      /\ engine' = engine /\ gone' = gone
  BY DEF WholeStream, WholePlain, engineVars
<1>4. r \notin gone' => /\ engine' # r /\ ~Queued(r)' /\ ended'[r] # "cut"
                        /\ out'[r] = IF r \in Streams THEN WholeStream(r)' ELSE WholePlain(r)'
  BY <1>1, <1>2, <1>3
<1> QED
  BY <1>1, <1>4 DEF ReaderOk

\* The reader of a stream takes one event, or finds its channel over.
LEMMA StreamReader ==
    ASSUME TypeInv, JobInv, NEW r \in Streams, ChannelOk(r), ReaderOk(r), ReadStream(r)
    PROVE  ReaderOk(r)'
<1> USE Apart
<1> DEFINE n == seen[r]
           e == events[r][n + 1]
<1>1. /\ r \in Completions /\ r \in Requests /\ receiver[r] = "open"
      /\ n \in Nat /\ Len(events[r]) \in Nat /\ n <= Len(events[r])
      /\ gone' = gone /\ events' = events /\ at[r] = "reading"
      /\ UNCHANGED <<gone, engineVars, jobs>>
      /\ \A i \in 1..n : events[r][i] \notin Ends
  BY DEF ReadStream, TypeInv, ReaderOk
<1>3. r \notin gone => out[r] = <<"role">> \o TextsIn(events[r], n)
  BY <1>1 DEF ReaderOk
<1>4. CASE n < Len(events[r])
  <2>1. /\ seen' = [seen EXCEPT ![r] = n + 1]
        /\ CASE e \in {"done", "error"} -> Answer(r, StreamEnd(e))
             [] e = "text" /\ r \in gone -> Answer(r, <<>>)
             [] e = "text" /\ r \notin gone -> KeepReading /\ ToClient(r, <<"text">>)
             [] OTHER -> KeepReading /\ UNCHANGED out
    BY <1>4 DEF ReadStream
  <2>2. seen'[r] = n + 1 /\ n + 1 <= Len(events'[r]) /\ n + 1 \in Nat
    BY <1>1, <1>4, <2>1 DEF TypeInv
  <2>3. TextsIn(events[r], n + 1) = IF e = "text" THEN TextsIn(events[r], n) \o <<"text">>
                                    ELSE TextsIn(events[r], n)
    BY <1>1, TextsGrow
  <2>5. CASE e \in {"done", "error"}
    <3>1. Answer(r, StreamEnd(e)) /\ StreamEnd(e) \in Seq(Sayings)
      BY <2>1, <2>5, SayingsSpelled DEF StreamEnd
    <3>2. /\ ended[r] = e /\ engine # r /\ ~Queued(r)
          /\ TextsIn(events[r], n) = TextsMade(r)
      BY <1>1, <1>4, <2>5, EndRead DEF Ends
    <3>3. WholeStream(r) = (<<"role">> \o TextsMade(r)) \o StreamEnd(e)
      <4>1. CASE e = "done"
        BY <3>2, <4>1 DEF WholeStream, TextsMade, StreamEnd
      <4>2. CASE e = "error"
        BY <3>2, <4>2 DEF WholeStream, TextsMade, StreamEnd
      <4> QED
        BY <2>5, <4>1, <4>2
    <3>4. r \notin gone => out[r] \o StreamEnd(e) = WholeStream(r)
      BY <1>3, <3>2, <3>3
    <3>5. ended[r] # "cut"
      BY <2>5, <3>2
    <3> QED
      BY <1>1, <2>2, <3>1, <3>2, <3>4, <3>5, AnswerReader
  <2>6. CASE e = "text" /\ r \in gone
    <3>1. Answer(r, <<>>)
      BY <2>1, <2>6
    <3> QED
      BY <1>1, <2>2, <2>6, <3>1, AnswerReader, SayingsSpelled
  <2>7. CASE e = "text" /\ r \notin gone
    <3>1. at' = at /\ receiver' = receiver /\ ToClient(r, <<"text">>)
      BY <2>1, <2>7 DEF KeepReading
    <3>2. out'[r] = out[r] \o <<"text">>
      BY <1>1, <2>7, <3>1, ToClientTyped, SayingsSpelled
    <3>3. ASSUME NEW s \in Seq({"text"})
          PROVE  (<<"role">> \o s) \o <<"text">> = <<"role">> \o (s \o <<"text">>)
      OBVIOUS
    <3>0. TextsIn(events[r], n) \in Seq({"text"})
      BY <1>1, TextPlaces
    <3>4. out'[r] = <<"role">> \o TextsIn(events[r], n + 1)
      BY <1>1, <1>3, <2>3, <2>7, <3>0, <3>2, <3>3
    <3>5. \A i \in 1..(n + 1) : events[r][i] \notin Ends
      BY <1>1, <2>7 DEF Ends
    <3>6. TextsIn(events[r], n + 1) = TextsIn(events'[r], seen'[r])
      BY <1>1, <2>2
    <3> QED
      BY <1>1, <2>2, <3>1, <3>4, <3>5, <3>6 DEF ReaderOk
  <2>8. CASE e \notin {"done", "error", "text"}
    <3>1. at' = at /\ receiver' = receiver /\ out' = out
      BY <2>1, <2>8 DEF KeepReading
    <3>2. TextsIn(events[r], n + 1) = TextsIn(events[r], n)
      BY <2>3, <2>8
    <3>3. \A i \in 1..(n + 1) : events[r][i] \notin Ends
      BY <1>1, <2>8 DEF Ends
    <3>4. r \notin gone' => out'[r] = <<"role">> \o TextsIn(events'[r], seen'[r])
      BY <1>1, <1>3, <2>2, <3>1, <3>2
    <3> QED
      BY <1>1, <2>2, <3>1, <3>3, <3>4 DEF ReaderOk
  <2> QED
    BY <2>5, <2>6, <2>7, <2>8
<1>5. CASE ~(n < Len(events[r]))
  <2>1. Answer(r, <<"DONE">>) /\ seen' = seen /\ Over(r)
    BY <1>5 DEF ReadStream
  <2>2. n = Len(events[r])
    BY <1>1, <1>5
  <2>3. \A i \in 1..Len(events[r]) : events[r][i] \notin Ends
    BY <1>1, <2>2
  <2>4. /\ ended[r] = "no" /\ engine # r /\ ~Queued(r)
        /\ TextsIn(events[r], n) = TextsMade(r)
    BY <1>1, <2>1, <2>2, <2>3, EndMissing
  <2>5. r \notin gone => out[r] \o <<"DONE">> = WholeStream(r)
    BY <1>3, <2>4 DEF WholeStream, TextsMade
  <2>6. seen'[r] = n /\ n <= Len(events'[r])
    BY <1>1, <2>1
  <2> QED
    BY <1>1, <2>1, <2>4, <2>5, <2>6, AnswerReader, SayingsSpelled
<1> QED
  BY <1>4, <1>5

\* So does that of a plain completion, which has one thing to say.
LEMMA PlainReader ==
    ASSUME TypeInv, JobInv, NEW r \in Plains, ChannelOk(r), ReaderOk(r), ReadPlain(r)
    PROVE  ReaderOk(r)'
<1> USE Apart
<1> DEFINE n == seen[r]
           e == events[r][n + 1]
<1>1. /\ r \in Completions /\ r \in Requests /\ r \notin Streams /\ receiver[r] = "open"
      /\ n \in Nat /\ Len(events[r]) \in Nat /\ n <= Len(events[r])
      /\ gone' = gone /\ events' = events /\ at[r] = "reading"
      /\ UNCHANGED <<gone, engineVars, jobs>>
      /\ \A i \in 1..n : events[r][i] \notin Ends
  BY DEF ReadPlain, TypeInv, ReaderOk
<1>2. \A s : <<>> \o <<s>> = <<s>>
  OBVIOUS
<1>3. r \notin gone => out[r] = <<>>
  BY <1>1 DEF ReaderOk
<1>4. CASE n < Len(events[r])
  <2>1. /\ seen' = [seen EXCEPT ![r] = n + 1]
        /\ CASE e = "done" -> Answer(r, <<"result">>)
             [] e = "error" -> Answer(r, <<"error">>)
             [] OTHER -> KeepReading /\ UNCHANGED out
    BY <1>4 DEF ReadPlain
  <2>2. seen'[r] = n + 1 /\ n + 1 <= Len(events'[r]) /\ n + 1 \in Nat
    BY <1>1, <1>4, <2>1 DEF TypeInv
  <2>3. e \in Ends => ended[r] = e /\ engine # r /\ ~Queued(r)
    BY <1>1, <1>4, EndRead
  <2>4. CASE e = "done"
    <3>1. Answer(r, <<"result">>) /\ ended[r] = "done" /\ engine # r /\ ~Queued(r)
      BY <2>1, <2>3, <2>4 DEF Ends
    <3>2. r \notin gone => out[r] \o <<"result">> = WholePlain(r)
      BY <1>2, <1>3, <3>1 DEF WholePlain
    <3> QED
      BY <1>1, <2>2, <3>1, <3>2, AnswerReader, SayingsSpelled
  <2>5. CASE e = "error"
    <3>1. Answer(r, <<"error">>) /\ ended[r] = "error" /\ engine # r /\ ~Queued(r)
      BY <2>1, <2>3, <2>5 DEF Ends
    <3>2. r \notin gone => out[r] \o <<"error">> = WholePlain(r)
      BY <1>2, <1>3, <3>1 DEF WholePlain
    <3> QED
      BY <1>1, <2>2, <3>1, <3>2, AnswerReader, SayingsSpelled
  <2>6. CASE e \notin Ends
    <3>1. at' = at /\ receiver' = receiver /\ out' = out
      BY <2>1, <2>6 DEF KeepReading, Ends
    <3>2. \A i \in 1..(n + 1) : events[r][i] \notin Ends
      BY <1>1, <2>6
    <3> QED
      BY <1>1, <1>3, <2>2, <3>1, <3>2 DEF ReaderOk
  <2> QED
    BY <2>4, <2>5, <2>6 DEF Ends
<1>5. CASE ~(n < Len(events[r]))
  <2>1. Answer(r, <<"error">>) /\ seen' = seen /\ Over(r)
    BY <1>5 DEF ReadPlain
  <2>2. n = Len(events[r])
    BY <1>1, <1>5
  <2>3. \A i \in 1..Len(events[r]) : events[r][i] \notin Ends
    BY <1>1, <2>2
  <2>4. ended[r] = "no" /\ engine # r /\ ~Queued(r)
    BY <1>1, <2>1, <2>3, EndMissing
  <2>5. r \notin gone => out[r] \o <<"error">> = WholePlain(r)
    BY <1>2, <1>3, <2>4 DEF WholePlain
  <2>6. seen'[r] = n /\ n <= Len(events'[r])
    BY <1>1, <2>1
  <2> QED
    BY <1>1, <2>1, <2>4, <2>5, <2>6, AnswerReader, SayingsSpelled
<1> QED
  BY <1>4, <1>5

LEMMA NextReaderInv ==
    ASSUME TypeInv, TypeInv', WipeInv, JobInv, JobInv', ChannelInv, ReaderInv, [Next]_vars
    PROVE  ReaderInv'
<1> USE Apart
<1> SUFFICES ASSUME NEW q \in Completions PROVE ReaderOk(q)'
  BY DEF ReaderInv
<1>a. /\ q \in Requests /\ q # None /\ q # "dead" /\ q \notin Wipes
      /\ ChannelOk(q) /\ ReaderOk(q) /\ Len(events[q]) \in Nat
      /\ jobs \in Seq(Requests)
  BY DEF ChannelInv, ReaderInv, TypeInv
<1>b. /\ at \in [Requests -> {"new", "slot", "queued", "reading", "answered"}]
      /\ receiver \in [Completions -> {"none", "open", "dropped"}]
      /\ seen \in [Completions -> Nat]
      /\ out \in [Requests -> Seq(Sayings)]
  BY DEF TypeInv
<1>c. /\ Queued(q) <=> \E i \in 1..Len(jobs) : jobs[i] = q
      /\ Queued(q)' <=> \E i \in 1..Len(jobs') : jobs'[i] = q
  BY DEF Queued, Places
<1>d. jobs' = jobs => (Queued(q)' <=> Queued(q))
  BY <1>c
<1>1. ASSUME NEW r \in Completions, ChatCompletions(r) PROVE ReaderOk(q)'
  <2>1. /\ UNCHANGED <<receiver, gone, events, seen, jobs, engine, made, ended>>
        /\ at[r] = "new"
        /\ \/ at' = [at EXCEPT ![r] = "slot"] /\ out' = out
           \/ at' = [at EXCEPT ![r] = "answered"] /\ out' = [out EXCEPT ![r] = <<"error">>]
    BY <1>1 DEF ChatCompletions, engineVars
  <2>2. CASE q = r
    <3>1. receiver'[q] = "none" /\ seen'[q] = 0
      BY <2>1, <2>2, <1>a DEF ReaderOk, WipeInv
    <3>2. (at'[q] = "slot" /\ out'[q] = <<>>) \/ at'[q] = "answered"
      BY <2>1, <2>2, <1>a, <1>b DEF ReaderOk
    <3> QED
      BY <2>1, <3>1, <3>2, <1>a DEF ReaderOk
  <2>3. CASE q # r
    <3>1. at'[q] = at[q] /\ out'[q] = out[q]
      BY <2>1, <2>3, <1>a, <1>b
    <3> QED
      BY <2>1, <3>1, <1>a, <1>d, OthersReader
  <2> QED
    BY <2>2, <2>3
<1>2. ASSUME NEW r \in Completions, Submit(r) PROVE ReaderOk(q)'
  <2>1. /\ UNCHANGED <<gone, events, seen, out, engine, made, ended>>
        /\ at[r] = "slot" /\ at' = [at EXCEPT ![r] = "queued"]
        /\ receiver' = [receiver EXCEPT ![r] = "open"]
        /\ jobs' = jobs \/ jobs' = Append(jobs, r)
    BY <1>2 DEF Submit, Send, engineVars
  <2>2. CASE q = r
    <3>1. at'[q] = "queued" /\ receiver'[q] = "open" /\ seen[q] = 0 /\ out[q] = <<>>
      BY <2>1, <2>2, <1>a, <1>b DEF ReaderOk
    <3> QED
      BY <2>1, <3>1, <1>a DEF ReaderOk
  <2>3. CASE q # r
    <3>1. Queued(q)' => Queued(q)
      <4>1. CASE jobs' = jobs
        BY <4>1, <1>d
      <4>2. CASE jobs' = Append(jobs, r)
        <5>1. /\ Len(jobs) \in Nat /\ Len(jobs') = Len(jobs) + 1 /\ jobs'[Len(jobs) + 1] = r
              /\ \A i \in 1..Len(jobs) : jobs'[i] = jobs[i]
          BY <4>2, <1>a, AppendPlaces
        <5>2. \A i \in 1..Len(jobs') : i \in 1..Len(jobs) \/ i = Len(jobs) + 1
          BY <5>1
        <5> QED
          BY <2>3, <5>1, <5>2, <1>c
      <4> QED
        BY <2>1, <4>1, <4>2
    <3> QED
      BY <2>1, <2>3, <3>1, <1>a, <1>b, OthersReader
  <2> QED
    BY <2>2, <2>3
<1>3. ASSUME NEW r \in Completions, Started(r) PROVE ReaderOk(q)'
  <2>1. /\ UNCHANGED <<gone, events, seen, receiver, jobs, engine, made, ended>>
        /\ at[r] = "queued" /\ at' = [at EXCEPT ![r] = "reading"]
        /\ out' = [out EXCEPT ![r] = IF r \in Streams THEN <<"role">> ELSE <<>>]
    BY <1>3 DEF Started, engineVars
  <2>2. CASE q = r
    <3>1. /\ at'[q] = "reading" /\ receiver'[q] = "open" /\ seen'[q] = 0
          /\ out'[q] = IF q \in Streams THEN <<"role">> ELSE <<>>
      BY <2>1, <2>2, <1>a, <1>b DEF ReaderOk
    <3>2. TextsIn(events'[q], seen'[q]) = <<>> /\ <<"role">> \o <<>> = <<"role">>
      BY <3>1, NoTexts
    <3>3. out'[q] = IF q \in Streams THEN <<"role">> \o TextsIn(events'[q], seen'[q]) ELSE <<>>
      BY <3>1, <3>2
    <3> QED
      BY <2>1, <3>1, <3>3, <1>a DEF ReaderOk
  <2>3. CASE q # r
    BY <2>1, <2>3, <1>a, <1>b, <1>d, OthersReader
  <2> QED
    BY <2>2, <2>3
<1>4. ASSUME NEW r \in Completions, ReadPlain(r) \/ ReadStream(r) PROVE ReaderOk(q)'
  <2>1. CASE q = r
    <3>1. CASE ReadPlain(r)
      BY <2>1, <3>1, <1>a, PlainReader DEF ReadPlain
    <3>2. CASE ReadStream(r)
      BY <2>1, <3>2, <1>a, StreamReader DEF ReadStream
    <3> QED
      BY <1>4, <3>1, <3>2
  <2>2. CASE q # r
    <3>1. /\ UNCHANGED <<gone, events, jobs, engine, made, ended>>
          /\ seen' = seen \/ seen' = [seen EXCEPT ![r] = seen[r] + 1]
          /\ \/ KeepReading /\ UNCHANGED out
             \/ KeepReading /\ ToClient(r, <<"text">>)
             \/ \E s \in Seq(Sayings) : Answer(r, s)
      <4>1. CASE ReadPlain(r)
        BY <4>1, SayingsSpelled DEF ReadPlain, engineVars
      <4>2. CASE ReadStream(r)
        BY <4>2, SayingsSpelled DEF ReadStream, StreamEnd, engineVars
      <4> QED
        BY <1>4, <4>1, <4>2
    <3>2. at'[q] = at[q] /\ receiver'[q] = receiver[q] /\ out'[q] = out[q]
      <4>1. CASE KeepReading
        BY <2>2, <3>1, <4>1, <1>a, ToClientTyped, AnswersOthers, SayingsSpelled DEF KeepReading
      <4>2. CASE ~KeepReading
        BY <2>2, <3>1, <4>2, <1>a, AnswersOthers
      <4> QED
        BY <4>1, <4>2
    <3>3. seen'[q] = seen[q]
      BY <2>2, <3>1, <1>a, <1>b
    <3> QED
      BY <3>1, <3>2, <3>3, <1>a, <1>d, OthersReader
  <2> QED
    BY <2>1, <2>2
<1>6. ASSUME NEW w \in Wipes, Wipe(w) PROVE ReaderOk(q)'
  <2>1. /\ at'[q] = at[q]
        /\ UNCHANGED <<receiver, out, seen, gone, events, engine, made, ended>>
        /\ jobs' = jobs \/ jobs' = Append(jobs, w)
    BY <1>6, <1>a, <1>b DEF Wipe, Send, engineVars
  <2>2. Queued(q)' => Queued(q)
    <3>1. CASE jobs' = jobs
      BY <3>1, <1>d
    <3>2. CASE jobs' = Append(jobs, w)
      <4>1. /\ Len(jobs) \in Nat /\ Len(jobs') = Len(jobs) + 1 /\ jobs'[Len(jobs) + 1] = w
            /\ \A i \in 1..Len(jobs) : jobs'[i] = jobs[i]
        BY <3>2, <1>a, AppendPlaces
      <4>2. \A i \in 1..Len(jobs') : i \in 1..Len(jobs) \/ i = Len(jobs) + 1
        BY <4>1
      <4> QED
        BY <4>1, <4>2, <1>a, <1>c
    <3> QED
      BY <2>1, <3>1, <3>2
  <2> QED
    BY <2>1, <2>2, <1>a, OthersReader
<1>7. ASSUME NEW w \in Wipes, WipeRefused(w) PROVE ReaderOk(q)'
  <2>1. /\ at'[q] = at[q]
        /\ UNCHANGED <<receiver, seen, gone, events, jobs, engine, made, ended>>
    BY <1>7, <1>a, <1>b DEF WipeRefused, engineVars
  <2>2. out'[q] = out[q]
    <3>1. q # w /\ w \in Requests
      BY <1>a
    <3> QED
      BY <1>7, <3>1, <1>a, ToClientTyped, SayingsSpelled DEF WipeRefused
  <2> QED
    BY <2>1, <2>2, <1>a, <1>d, OthersReader
<1>8. ASSUME NEW r \in Requests, Disconnect(r) PROVE ReaderOk(q)'
  <2>1. /\ UNCHANGED <<out, seen, events, jobs, engine, made, ended>> /\ gone' = gone \cup {r}
        /\ receiver' = receiver \/ receiver' = [receiver EXCEPT ![r] = "dropped"]
        /\ at' = at \/ at' = [at EXCEPT ![r] = "answered"]
    BY <1>8 DEF Disconnect, engineVars
  <2>2. CASE q # r
    <3>1. at'[q] = at[q] /\ receiver'[q] = receiver[q]
      BY <2>1, <2>2, <1>a, <1>b
    <3> QED
      BY <2>1, <2>2, <3>1, <1>a, <1>d, OthersReader
  <2>3. CASE q = r
    <3>1. q \in gone'
      BY <2>1, <2>3
    <3>2. at'[q] = "answered" \/ (at'[q] = at[q] /\ receiver'[q] = receiver[q])
      <4>1. CASE q \in Streams
        BY <1>8, <2>3, <4>1 DEF Disconnect
      <4>2. CASE q \notin Streams /\ at[q] = "reading"
        BY <1>8, <2>3, <4>2 DEF Disconnect, ReceiverInHandler
      <4>3. CASE q \notin Streams /\ at[q] # "reading"
        BY <1>8, <2>3, <4>3, <1>a, <1>b DEF Disconnect
      <4> QED
        BY <4>1, <4>2, <4>3
    <3> QED
      BY <2>1, <3>1, <3>2, <1>a DEF ReaderOk
  <2> QED
    BY <2>2, <2>3
<1>9. CASE TakeJob
  <2>1. /\ jobs # <<>> /\ jobs' = Tail(jobs)
        /\ UNCHANGED <<receiver, seen, gone, events, made, ended>>
        /\ engine' = Head(jobs) \/ engine' = engine
        /\ \/ at' = at /\ out' = out
           \/ /\ Head(jobs) \notin Completions /\ at' = [at EXCEPT ![Head(jobs)] = "answered"]
              /\ ToClient(Head(jobs), <<"wiped">>)
    BY <1>9 DEF TakeJob
  <2>2. /\ Head(jobs) \in Requests /\ Head(jobs) = jobs[1] /\ 1 \in 1..Len(jobs)
        /\ \A i \in 1..Len(jobs') : i + 1 \in 1..Len(jobs) /\ jobs'[i] = jobs[i + 1]
    BY <2>1, <1>a, TailPlaces
  <2>3. at'[q] = at[q] /\ out'[q] = out[q]
    <3>1. CASE at' = at /\ out' = out
      BY <3>1
    <3>2. CASE /\ Head(jobs) \notin Completions
               /\ at' = [at EXCEPT ![Head(jobs)] = "answered"]
               /\ ToClient(Head(jobs), <<"wiped">>)
      <4>1. Head(jobs) # q /\ <<"wiped">> \in Seq(Sayings)
        BY <3>2, SayingsSpelled
      <4>2. out'[q] = out[q]
        BY <2>2, <3>2, <4>1, <1>a, ToClientTyped
      <4> QED
        BY <2>2, <3>2, <4>1, <4>2, <1>a, <1>b
    <3> QED
      BY <2>1, <3>1, <3>2
  <2>4. ~Queued(q) => Head(jobs) # q /\ ~Queued(q)'
    BY <2>2, <1>c
  <2> QED
    BY <2>1, <2>3, <2>4, <1>a, OthersReader
<1>10. CASE Prefill \/ Draw
  <2>1. /\ engine \in Completions /\ at' = at /\ gone' = gone /\ out' = out
        /\ receiver' = receiver /\ seen' = seen /\ jobs' = jobs /\ engine' \in {engine, None}
        /\ q # engine => made'[q] = made[q] /\ ended'[q] = ended[q]
        /\ \E e \in {"prefill", "text", "blank"} \cup Ends : Post(e)
    BY <1>10, EngineSteps DEF clientVars
  <2>2. /\ Len(events[q]) <= Len(events'[q])
        /\ \A i \in 1..Len(events[q]) : events'[q][i] = events[q][i]
    BY <2>1, <1>a, PostTyped
  <2> QED
    BY <2>1, <2>2, <1>a, <1>d, OthersReader
<1>11. CASE Panic
  <2>1. /\ UNCHANGED <<at, receiver, out, seen, gone, events, made, ended>>
        /\ jobs' = <<>> /\ engine' = "dead"
    BY <1>11 DEF Panic, clientVars
  <2>2. ~Queued(q)'
    BY <2>1, <1>c
  <2> QED
    BY <2>1, <2>2, <1>a, OthersReader
<1>12. CASE UNCHANGED vars
  BY <1>12, <1>a, <1>d, OthersReader DEF vars
<1> QED
  BY <1>1, <1>2, <1>3, <1>4, <1>6, <1>7, <1>8, <1>9, <1>10, <1>11, <1>12
  DEF Next, Handlers, Engine

-----------------------------------------------------------------------------
(* The slot.                                                               *)

\* A completion between its turn and its answer holds the slot, but for a plain one
\* whose client hung up: its handler is gone, its reader and its generation are not.
SlotInv ==
    \A r \in Completions :
        at[r] \in {"queued", "reading"} /\ (r \in Streams \/ r \notin gone) => slot = r

LEMMA InitSlotInv == Init => SlotInv
  BY Apart DEF Init, SlotInv

LEMMA NextSlotInv ==
    ASSUME TypeInv, SlotInv, [Next]_vars
    PROVE  SlotInv'
<1> USE Apart
<1> SUFFICES ASSUME NEW q \in Completions, at'[q] \in {"queued", "reading"},
                    q \in Streams \/ q \notin gone'
             PROVE  slot' = q
  BY DEF SlotInv
<1>a. /\ at \in [Requests -> {"new", "slot", "queued", "reading", "answered"}]
      /\ q \in Requests /\ q # None
      /\ at[q] \in {"queued", "reading"} /\ (q \in Streams \/ q \notin gone) => slot = q
  BY DEF TypeInv, SlotInv
<1>1. ASSUME NEW r \in Completions, ChatCompletions(r) PROVE slot' = q
  BY <1>1, <1>a DEF ChatCompletions
<1>2. ASSUME NEW r \in Completions, Submit(r) PROVE slot' = q
  <2>1. /\ at' = [at EXCEPT ![r] = "queued"] /\ slot = None /\ slot' = r /\ gone' = gone
    BY <1>2 DEF Submit
  <2> QED
    BY <2>1, <1>a
<1>3. ASSUME NEW r \in Completions, Started(r) PROVE slot' = q
  BY <1>3, <1>a DEF Started
<1>4. ASSUME NEW r \in Completions, ReadPlain(r) \/ ReadStream(r) PROVE slot' = q
  <2>1. gone' = gone /\ ((at' = at /\ slot' = slot) \/ \E s : Answer(r, s))
    BY <1>4 DEF ReadPlain, ReadStream, KeepReading
  <2>2. CASE at' = at /\ slot' = slot
    BY <2>1, <2>2, <1>a
  <2>3. CASE \E s : Answer(r, s)
    <3>1. at' = [at EXCEPT ![r] = "answered"] /\ (slot' = IF slot = r THEN None ELSE slot)
      BY <2>3 DEF Answer, Leave
    <3> QED
      BY <2>1, <3>1, <1>a
  <2> QED
    BY <2>1, <2>2, <2>3
<1>5. ASSUME NEW w \in Wipes, Wipe(w) \/ WipeRefused(w) PROVE slot' = q
  <2>1. /\ gone' = gone /\ slot' = slot
        /\ at' = [at EXCEPT ![w] = "queued"] \/ at' = [at EXCEPT ![w] = "answered"]
    BY <1>5 DEF Wipe, WipeRefused
  <2> QED
    BY <2>1, <1>a
<1>6. ASSUME NEW r \in Requests, Disconnect(r) PROVE slot' = q
  <2>1. /\ gone' = gone \cup {r}
        /\ r \in Streams => slot' = slot
        /\ slot' = slot \/ slot' = IF slot = r THEN None ELSE slot
        /\ at' = at \/ at' = [at EXCEPT ![r] = "answered"]
    BY <1>6 DEF Disconnect, Leave
  <2> QED
    BY <2>1, <1>a
<1>7. CASE TakeJob
  <2>1. gone' = gone /\ slot' = slot /\ (at' = at \/ at' = [at EXCEPT ![Head(jobs)] = "answered"])
    BY <1>7 DEF TakeJob
  <2> QED
    BY <2>1, <1>a
<1>8. CASE Prefill \/ Draw \/ Panic \/ UNCHANGED vars
  BY <1>8, <1>a DEF Prefill, Draw, Panic, clientVars, vars
<1> QED
  BY <1>1, <1>2, <1>3, <1>4, <1>5, <1>6, <1>7, <1>8 DEF Next, Handlers, Engine

-----------------------------------------------------------------------------
IInv == TypeInv /\ WipeInv /\ JobInv /\ ChannelInv /\ ReaderInv /\ SlotInv

LEMMA IInvHolds == Spec => []IInv
<1>1. Init => IInv
  BY InitTypeInv, InitWipeInv, InitJobInv, InitChannelInv, InitReaderInv, InitSlotInv DEF IInv
<1>2. IInv /\ [Next]_vars => IInv'
  <2> SUFFICES ASSUME IInv, [Next]_vars PROVE IInv'
    OBVIOUS
  <2>1. TypeInv /\ WipeInv /\ JobInv /\ ChannelInv /\ ReaderInv /\ SlotInv
    BY DEF IInv
  <2>2. TypeInv'
    BY <2>1, NextTypeInv
  <2>3. WipeInv'
    BY <2>1, <2>2, NextWipeInv
  <2>4. JobInv'
    BY <2>1, <2>2, NextJobInv
  <2>5. ChannelInv'
    BY <2>1, <2>2, <2>4, NextChannelInv
  <2>6. ReaderInv'
    BY <2>1, <2>2, <2>4, NextReaderInv
  <2>7. SlotInv'
    BY <2>1, NextSlotInv
  <2> QED
    BY <2>2, <2>3, <2>4, <2>5, <2>6, <2>7 DEF IInv
<1> QED
  BY <1>1, <1>2, PTL DEF Spec

\* Once a wipe is answered, nothing handed to the engine before it is resident
\* (Job::Wipe), whatever hung up, failed or panicked meanwhile.
THEOREM WipedIsGoneHolds == Spec => []WipedIsGone
<1>1. IInv => WipedIsGone
  <2> SUFFICES ASSUME IInv, NEW w \in Wipes, out[w] = <<"wiped">>
               PROVE  held \cap before[w] = {}
    BY DEF WipedIsGone
  <2> QED
    BY DEF IInv, WipeInv
<1> QED
  BY <1>1, IInvHolds, PTL

\* A client that stays has the slot while its generation is unfinished, and is answered
\* with all the engine drew for it and with how it ended (AppState::slot), whoever else
\* hangs up, fails or is queued.
THEOREM ServedAloneAndWholeHolds == Spec => []ServedAloneAndWhole
<1>1. IInv => OneForAClient
  <2> SUFFICES ASSUME IInv, NEW r \in Completions, r \notin gone, Unfinished(r)
               PROVE  slot = r
    BY DEF OneForAClient
  <2>1. engine = r \/ Queued(r)
    BY DEF IInv, TypeInv, Unfinished, Queued, Places
  <2>2. receiver[r] # "none" /\ at[r] \notin {"new", "slot"}
    BY <2>1 DEF IInv, WipeInv
  <2>3. at[r] # "answered"
    BY <2>1, <2>2 DEF IInv, ReaderInv, ReaderOk
  <2>4. at[r] \in {"queued", "reading"}
    BY <2>2, <2>3, Apart DEF IInv, TypeInv
  <2> QED
    BY <2>4 DEF IInv, SlotInv
<1>2. IInv => NothingLeftOut
  BY DEF IInv, ReaderInv, ReaderOk, NothingLeftOut
<1>3. IInv => ServedAloneAndWhole
  BY <1>1, <1>2 DEF ServedAloneAndWhole
<1> QED
  BY <1>3, IInvHolds, PTL

\* The slot keeps a second completion out: two are between their turn and their answer
\* only when a plain one's client hung up.
OneAtATime ==
    \A q, r \in Completions :
        /\ at[q] \in {"queued", "reading"} /\ (q \in Streams \/ q \notin gone)
        /\ at[r] \in {"queued", "reading"} /\ (r \in Streams \/ r \notin gone)
        => q = r

\* Two completions are past the slot together only when a plain one was abandoned.
THEOREM OneAtATimeHolds == Spec => []OneAtATime
<1>1. IInv => OneAtATime
  BY DEF IInv, SlotInv, OneAtATime
<1> QED
  BY <1>1, IInvHolds, PTL
=============================================================================
