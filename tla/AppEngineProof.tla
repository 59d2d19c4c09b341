--------------------------- MODULE AppEngineProof ---------------------------
(***************************************************************************)
(* What the safety of the engine thread rests on, for any number of turns, *)
(* conversations, loads and leaving threads.                               *)
(*                                                                         *)
(* None of the properties is inductive.  That a resolved shutdown is final *)
(* needs that the flag `closing` is up whenever a last wipe is queued       *)
(* (ExitInv); that a wiped conversation stays away needs the order of the  *)
(* channel: every turn queued behind a wipe was sent from a later          *)
(* conversation (OrderInv); that a cancelled turn runs no more calls than  *)
(* its round holds needs the calls left in the round counted with those    *)
(* already run late (CancelInv).                                           *)
(***************************************************************************)
EXTENDS AppEngine, TLAPS

Queue == 1..Len(chan)
IsGen(c) == c.op = "gen"
IsNewChat(c) == c.op = "wipe" /\ c.by = "window"
IsLast(c) == c.op = "wipe" /\ c.by # "window"

\* The command in hand fits what the thread is doing, and its turn was sent.
CmdInv ==
    /\ Busy => IsGen(cmd)
    /\ pc = "ack" => cmd.op = "wipe" /\ held = {}
    /\ pc \in {"recv", "wipeOld", "mark", "load"} => cmd.op \in {"none", "load"}
    /\ pc = "tools" => step < MaxSteps
    /\ \A i \in Queue : IsGen(chan[i]) => turnConv[chan[i].turn] # None
    /\ IsGen(cmd) => turnConv[cmd.turn] # None

\* A last wipe, queued, in hand or resolved, means that closing is up.
ExitInv ==
    /\ LoadFlagTruth
    /\ pc \in {"mark", "load"} => held = {} /\ ~model
    /\ \A e \in Exiters : exit[e] # "run" => closing
    /\ \A i \in Queue : IsLast(chan[i]) => closing
    /\ IsLast(cmd) => closing
    /\ ShutdownIsFinal

\* Turns of a conversation are ahead of its wipe, or gone.
OrderInv ==
    /\ \A c \in wiped : c < conv
    /\ \A i \in Queue : IsNewChat(chan[i]) => chan[i].conv < conv
    /\ IsNewChat(cmd) => cmd.conv < conv
    /\ \A i, j \in Queue :
          (i < j /\ IsNewChat(chan[i]) /\ IsGen(chan[j])) =>
              chan[i].conv < turnConv[chan[j].turn]
    /\ \A j \in Queue : IsGen(chan[j]) =>
          /\ turnConv[chan[j].turn] \notin wiped
          /\ IsNewChat(cmd) => cmd.conv < turnConv[chan[j].turn]
    /\ IsGen(cmd) => turnConv[cmd.turn] \notin wiped
    /\ WipedStaysWiped

IInv == TypeOK /\ CmdInv /\ ExitInv /\ OrderInv

-----------------------------------------------------------------------------
\* What a command's fields are, by its kind.
LEMMA CommandFields ==
    ASSUME NEW c \in Commands
    PROVE  /\ c.op \in {"load", "gen", "wipe"}
           /\ IsGen(c) => c.turn \in Turns
           /\ IsNewChat(c) => c.conv \in Convs
           /\ IsLast(c) => c.by \in Exiters
<1>1. CASE c = Load
  BY <1>1 DEF Load, IsGen, IsNewChat, IsLast
<1>2. ASSUME NEW t \in Turns, c = Gen(t)
      PROVE  c.op = "gen" /\ c.turn = t
  BY <1>2 DEF Gen
<1>3. ASSUME NEW v \in Convs, c = Wipe(v)
      PROVE  c.op = "wipe" /\ c.by = "window" /\ c.conv = v
  BY <1>3 DEF Wipe
<1>4. ASSUME NEW e \in Exiters, c = LastWipe(e)
      PROVE  c.op = "wipe" /\ c.by = e
  BY <1>4 DEF LastWipe
<1> QED
  BY <1>1, <1>2, <1>3, <1>4, BoundsAssumption DEF Commands, IsGen, IsNewChat, IsLast

\* The commands that are sent.
LEMMA CommandsMade ==
    /\ Load \in Commands /\ Load.op = "load"
    /\ \A t \in Turns : Gen(t) \in Commands /\ Gen(t).op = "gen" /\ Gen(t).turn = t
    /\ \A c \in Convs : /\ Wipe(c) \in Commands /\ Wipe(c).op = "wipe"
                        /\ Wipe(c).by = "window" /\ Wipe(c).conv = c
    /\ \A e \in Exiters : /\ LastWipe(e) \in Commands /\ LastWipe(e).op = "wipe"
                          /\ LastWipe(e).by = e /\ e # "window"
    /\ Nothing.op = "none"
  BY BoundsAssumption DEF Commands, Load, Gen, Wipe, LastWipe, Nothing

\* Appending leaves every earlier place as it was.
LEMMA AppendPlaces ==
    ASSUME NEW S, NEW s \in Seq(S), NEW x \in S
    PROVE  /\ Append(s, x) \in Seq(S)
           /\ Len(Append(s, x)) = Len(s) + 1
           /\ \A i \in 1..Len(s) : Append(s, x)[i] = s[i]
           /\ Append(s, x)[Len(s) + 1] = x
  OBVIOUS

\* Taking the head moves every other place up by one.
LEMMA TailPlaces ==
    ASSUME NEW S, NEW s \in Seq(S), s # <<>>
    PROVE  /\ Head(s) = s[1] /\ s[1] \in S /\ 1 \in 1..Len(s)
           /\ Tail(s) \in Seq(S)
           /\ Len(Tail(s)) = Len(s) - 1
           /\ \A i \in 1..Len(Tail(s)) : i + 1 \in 1..Len(s) /\ Tail(s)[i] = s[i + 1]
  OBVIOUS

\* A running turn was sent, from a conversation.
LEMMA TurnSent ==
    ASSUME TypeOK, CmdInv, Busy
    PROVE  /\ cmd \in Commands /\ Turn \in Turns
           /\ turnConv[Turn] \in Convs
<1>1. IsGen(cmd) /\ cmd # Nothing
  BY CommandsMade DEF CmdInv, IsGen
<1>2. cmd \in Commands
  BY <1>1 DEF TypeOK
<1>3. cmd.turn \in Turns
  BY <1>1, <1>2, CommandFields
<1>4. turnConv[cmd.turn] # None
  BY <1>1 DEF CmdInv
<1> QED
  BY <1>2, <1>3, <1>4 DEF TypeOK, Turn

\* A turn that ends leaves its variables in range.
LEMMA EndsTyped ==
    ASSUME TypeOK, NEW r \in {"done", "error"}, Ends(r)
    PROVE  /\ outcome' \in [Turns -> {"none", "done", "error", "lost"}]
           /\ pc' = "recv" /\ cmd' = Nothing
           /\ step' \in 0..MaxSteps /\ toks' \in 0..MaxTokens
           /\ calls' \in 0..MaxCalls /\ late' \in Nat
<1>1. outcome' \in [Turns -> {"none", "done", "error", "lost"}]
  BY DEF TypeOK, Ends
<1> QED
  BY <1>1, BoundsAssumption DEF Ends

-----------------------------------------------------------------------------
LEMMA InitIInv == Init => IInv
<1> SUFFICES ASSUME Init PROVE IInv
  OBVIOUS
<1>1. Convs # {} /\ 1 \in Convs
  BY BoundsAssumption, SMT DEF Convs
<1>2. TypeOK
  <2>1. chan \in Seq(Commands)
    BY DEF Init
  <2>2. cmd \in Commands \union {Nothing}
    BY DEF Init
  <2>3. /\ loading \in BOOLEAN /\ closing \in BOOLEAN /\ alive \in BOOLEAN
        /\ model \in BOOLEAN
    BY DEF Init
  <2>4. /\ step \in 0..MaxSteps /\ toks \in 0..MaxTokens
        /\ calls \in 0..MaxCalls /\ late \in Nat /\ loads \in 0..MaxLoads
    BY BoundsAssumption DEF Init
  <2>5. /\ turnConv \in [Turns -> Convs \union {None}]
        /\ receiver \in [Turns -> {"none", "open", "dropped"}]
        /\ outcome \in [Turns -> {"none", "done", "error", "lost"}]
        /\ exit \in [Exiters -> {"run", "check", "wait", "cleaned", "skipped"}]
    BY DEF Init
  <2> QED
    BY <1>1, <2>1, <2>2, <2>3, <2>4, <2>5 DEF Init, TypeOK
<1>3. CmdInv /\ ExitInv /\ OrderInv
  BY CommandsMade
  DEF Init, CmdInv, ExitInv, OrderInv, Queue, IsGen, IsNewChat, IsLast,
     LoadFlagTruth, ShutdownIsFinal, WipedStaysWiped, Busy
<1> QED
  BY <1>2, <1>3 DEF IInv

LEMMA SendTurnIInv ==
    ASSUME IInv, NEW t \in Turns, SendTurn(t)
    PROVE  IInv'
<1>1. TypeOK'
  BY CommandsMade DEF IInv, TypeOK, SendTurn, engineVars
<1>2. CmdInv'
  <2>1. turnConv'[t] # None /\ \A u \in Turns : u # t => turnConv'[u] = turnConv[u]
    BY DEF IInv, TypeOK, SendTurn, Convs, None
  <2>2. chan' = Append(chan, Gen(t)) /\ Gen(t) \in Commands /\ Gen(t).turn = t
    BY CommandsMade DEF SendTurn
  <2>3. \A i \in Queue' : IsGen(chan'[i]) => turnConv'[chan'[i].turn] # None
    BY <2>1, <2>2, CommandFields DEF IInv, TypeOK, CmdInv, Queue
  <2>4. IsGen(cmd') => turnConv'[cmd'.turn] # None
    BY <2>1 DEF IInv, CmdInv, SendTurn, engineVars
  <2> QED
    BY <2>3, <2>4 DEF IInv, CmdInv, SendTurn, engineVars, Busy
<1>3. ExitInv'
  BY CommandsMade
  DEF IInv, ExitInv, SendTurn, engineVars, Queue, IsLast, Busy, LoadFlagTruth,
     ShutdownIsFinal
<1>4. OrderInv'
  <2>1. turnConv'[t] = conv /\ \A u \in Turns : u # t => turnConv'[u] = turnConv[u]
    BY DEF IInv, TypeOK, SendTurn
  <2>2. /\ chan' = Append(chan, Gen(t)) /\ Gen(t) \in Commands /\ Gen(t).turn = t
        /\ IsGen(Gen(t)) /\ ~IsNewChat(Gen(t))
    BY CommandsMade DEF SendTurn, IsGen, IsNewChat
  <2>3. /\ Queue' = 1..(Len(chan) + 1) /\ chan'[Len(chan) + 1] = Gen(t)
        /\ \A i \in Queue : chan'[i] = chan[i] /\ chan[i] \in Commands
    BY <2>2 DEF IInv, TypeOK, Queue
  <2>4. \A i \in Queue : IsGen(chan[i]) =>
            turnConv'[chan[i].turn] = turnConv[chan[i].turn]
    BY <2>1, <2>3 DEF IInv, CmdInv, SendTurn
  <2>5. IsGen(cmd) => turnConv'[cmd.turn] = turnConv[cmd.turn]
    BY <2>1 DEF IInv, CmdInv, SendTurn
  <2>6. /\ cmd' = cmd /\ held' = held /\ wiped' = wiped /\ conv' = conv
        /\ conv \in Nat /\ Len(chan) \in Nat
    BY DEF IInv, TypeOK, SendTurn, engineVars, Convs
  <2>7. \A i, j \in Queue' :
            (i < j /\ IsNewChat(chan'[i]) /\ IsGen(chan'[j])) =>
                chan'[i].conv < turnConv'[chan'[j].turn]
    BY <2>1, <2>2, <2>3, <2>4, <2>6 DEF IInv, OrderInv, Queue
  <2>8. \A j \in Queue' : IsGen(chan'[j]) =>
            /\ turnConv'[chan'[j].turn] \notin wiped
            /\ IsNewChat(cmd) => cmd.conv < turnConv'[chan'[j].turn]
    BY <2>1, <2>2, <2>3, <2>4, <2>6 DEF IInv, OrderInv, Queue
  <2>9. \A i \in Queue' : IsNewChat(chan'[i]) => chan'[i].conv < conv
    BY <2>2, <2>3, <2>6 DEF IInv, OrderInv, Queue
  <2> QED
    BY <2>5, <2>6, <2>7, <2>8, <2>9 DEF IInv, OrderInv, WipedStaysWiped
<1> QED
  BY <1>1, <1>2, <1>3, <1>4 DEF IInv

LEMMA TurnReadIInv ==
    ASSUME IInv, TurnRead
    PROVE  IInv'
<1>1. TypeOK'
  BY DEF IInv, TypeOK, TurnRead, engineVars, TaskCancelled
<1>2. CmdInv'
  BY DEF IInv, CmdInv, TurnRead, engineVars, Queue, Busy
<1>3. ExitInv'
  BY DEF IInv, ExitInv, TurnRead, engineVars, Queue, Busy, LoadFlagTruth,
     ShutdownIsFinal
<1>4. OrderInv'
  BY DEF IInv, OrderInv, TurnRead, engineVars, Queue, WipedStaysWiped
<1> QED
  BY <1>1, <1>2, <1>3, <1>4 DEF IInv

LEMMA StopIInv ==
    ASSUME IInv, Stop
    PROVE  IInv'
<1>1. TypeOK'
  BY DEF IInv, TypeOK, Stop, engineVars, TaskCancelled
<1>2. CmdInv'
  BY DEF IInv, CmdInv, Stop, engineVars, Queue, Busy
<1>3. ExitInv'
  BY DEF IInv, ExitInv, Stop, engineVars, Queue, Busy, LoadFlagTruth,
     ShutdownIsFinal
<1>4. OrderInv'
  BY DEF IInv, OrderInv, Stop, engineVars, Queue, WipedStaysWiped
<1> QED
  BY <1>1, <1>2, <1>3, <1>4 DEF IInv

LEMMA PickModelIInv ==
    ASSUME IInv, PickModel
    PROVE  IInv'
<1>1. TypeOK'
  BY CommandsMade, BoundsAssumption
  DEF IInv, TypeOK, PickModel, engineVars, TaskCancelled
<1>2. CmdInv'
  BY CommandsMade DEF IInv, CmdInv, PickModel, engineVars, Queue, IsGen, Busy
<1>3. ExitInv'
  BY CommandsMade
  DEF IInv, ExitInv, PickModel, engineVars, Queue, IsLast, Busy,
     LoadFlagTruth, ShutdownIsFinal
<1>4. OrderInv'
  BY CommandsMade
  DEF IInv, OrderInv, PickModel, engineVars, Queue, IsGen, IsNewChat,
     WipedStaysWiped
<1> QED
  BY <1>1, <1>2, <1>3, <1>4 DEF IInv

LEMMA NewChatIInv ==
    ASSUME IInv, NewChat
    PROVE  IInv'
<1>1. TypeOK'
  <2>1. conv' \in Convs /\ Wipe(conv) \in Commands
    BY CommandsMade, BoundsAssumption DEF IInv, TypeOK, NewChat, Convs
  <2>2. chan' \in Seq(Commands)
    BY <2>1 DEF IInv, TypeOK, NewChat
  <2>3. running' \in Turns \union {None}
    BY DEF NewChat, TaskCancelled
  <2>4. receiver' \in [Turns -> {"none", "open", "dropped"}]
    BY DEF IInv, TypeOK, NewChat, TaskCancelled
  <2> QED
    BY <2>1, <2>2, <2>3, <2>4 DEF IInv, TypeOK, NewChat, engineVars
<1>2. CmdInv'
  BY CommandsMade DEF IInv, TypeOK, CmdInv, NewChat, engineVars, Queue, IsGen, Busy
<1>3. ExitInv'
  BY CommandsMade
  DEF IInv, TypeOK, ExitInv, NewChat, engineVars, Queue, IsLast, Busy,
     LoadFlagTruth, ShutdownIsFinal
<1>4. OrderInv'
  <2>1. /\ chan' = Append(chan, Wipe(conv)) /\ Wipe(conv) \in Commands
        /\ Wipe(conv).conv = conv /\ ~IsGen(Wipe(conv))
    BY CommandsMade DEF IInv, TypeOK, NewChat, IsGen
  <2>2. /\ Queue' = 1..(Len(chan) + 1) /\ chan'[Len(chan) + 1] = Wipe(conv)
        /\ \A i \in Queue : chan'[i] = chan[i] /\ chan[i] \in Commands
    BY <2>1 DEF IInv, TypeOK, Queue
  <2>3. /\ cmd' = cmd /\ held' = held /\ wiped' = wiped /\ turnConv' = turnConv
        /\ conv' = conv + 1 /\ conv \in Nat /\ Len(chan) \in Nat
    BY DEF IInv, TypeOK, NewChat, engineVars, Convs
  <2>4. \A c \in wiped : c < conv'
    BY <2>3 DEF IInv, TypeOK, OrderInv, Convs
  <2>5. \A i \in Queue' : IsNewChat(chan'[i]) => chan'[i].conv < conv'
    <3>1. \A i \in Queue : IsNewChat(chan[i]) => chan[i].conv \in Convs
      BY <2>2, CommandFields
    <3> QED
      BY <3>1, <2>1, <2>2, <2>3 DEF IInv, OrderInv, Queue, Convs
  <2>6. IsNewChat(cmd) => cmd.conv < conv'
    <3>1. IsNewChat(cmd) => cmd.conv \in Convs
      BY CommandFields, CommandsMade DEF IInv, TypeOK, IsNewChat
    <3> QED
      BY <3>1, <2>3 DEF IInv, OrderInv, Convs
  <2>7. \A j \in Queue' : IsGen(chan'[j]) => j \in Queue /\ chan'[j] = chan[j]
    BY <2>1, <2>2, <2>3 DEF Queue
  <2>8. \A i, j \in Queue' : (i < j /\ j \in Queue) => i \in Queue /\ chan'[i] = chan[i]
    BY <2>2, <2>3 DEF Queue
  <2> QED
    BY <2>3, <2>4, <2>5, <2>6, <2>7, <2>8 DEF IInv, OrderInv, WipedStaysWiped
<1> QED
  BY <1>1, <1>2, <1>3, <1>4 DEF IInv

LEMMA DropIInv ==
    ASSUME IInv, Drop
    PROVE  IInv'
<1>1. TypeOK'
  BY TailPlaces DEF IInv, TypeOK, Drop, engineVars, uiVars, NextCommand
<1>2. CmdInv'
  BY DEF IInv, CmdInv, Drop, engineVars, uiVars, Queue, Busy
<1>3. ExitInv'
  BY DEF IInv, ExitInv, Drop, engineVars, Busy, LoadFlagTruth, ShutdownIsFinal
<1>4. OrderInv'
  BY DEF IInv, OrderInv, Drop, engineVars, uiVars, Queue, WipedStaysWiped
<1> QED
  BY <1>1, <1>2, <1>3, <1>4 DEF IInv

LEMMA TakeLoadIInv ==
    ASSUME IInv, TakeLoad
    PROVE  IInv'
<1>1. TypeOK'
  BY CommandsMade DEF IInv, TypeOK, TakeLoad, uiVars, NextCommand
<1>2. CmdInv'
  BY CommandsMade DEF IInv, CmdInv, TakeLoad, uiVars, Queue, IsGen, Busy
<1>3. ExitInv'
  BY CommandsMade
  DEF IInv, ExitInv, TakeLoad, Queue, IsLast, LoadFlagTruth, ShutdownIsFinal,
     NextCommand
<1>4. OrderInv'
  <2>1. /\ \A i \in Queue' : i + 1 \in Queue /\ chan'[i] = chan[i + 1]
        /\ Queue' \subseteq Nat
    BY DEF TakeLoad, Queue
  <2>2. ~IsGen(cmd') /\ ~IsNewChat(cmd')
    BY CommandsMade DEF TakeLoad, IsGen, IsNewChat
  <2>3. held' = held /\ wiped' = wiped /\ turnConv' = turnConv /\ conv' = conv
    BY DEF TakeLoad, uiVars
  <2>4. \A i, j \in Queue' : i < j => i + 1 < j + 1
    BY <2>1
  <2> QED
    BY <2>1, <2>2, <2>3, <2>4 DEF IInv, OrderInv, WipedStaysWiped
<1> QED
  BY <1>1, <1>2, <1>3, <1>4 DEF IInv

LEMMA WipeOldIInv ==
    ASSUME IInv, WipeOld
    PROVE  IInv'
<1>1. TypeOK'
  BY DEF IInv, TypeOK, WipeOld, uiVars
<1>2. CmdInv'
  BY DEF IInv, CmdInv, WipeOld, uiVars, Queue, Busy
<1>3. ExitInv'
  BY DEF IInv, ExitInv, WipeOld, Queue, Busy, LoadFlagTruth, ShutdownIsFinal
<1>4. OrderInv'
  BY DEF IInv, OrderInv, WipeOld, uiVars, Queue, WipedStaysWiped
<1> QED
  BY <1>1, <1>2, <1>3, <1>4 DEF IInv

LEMMA MarkLoadingIInv ==
    ASSUME IInv, MarkLoading
    PROVE  IInv'
<1>1. TypeOK'
  BY DEF IInv, TypeOK, MarkLoading, uiVars
<1>2. CmdInv'
  BY DEF IInv, CmdInv, MarkLoading, uiVars, Queue, Busy
<1>3. ExitInv'
  BY DEF IInv, ExitInv, MarkLoading, Queue, Busy, LoadFlagTruth,
     ShutdownIsFinal
<1>4. OrderInv'
  BY DEF IInv, OrderInv, MarkLoading, uiVars, Queue, WipedStaysWiped
<1> QED
  BY <1>1, <1>2, <1>3, <1>4 DEF IInv

LEMMA LoadEndsIInv ==
    ASSUME IInv, NEW ok \in BOOLEAN, LoadEnds(ok)
    PROVE  IInv'
<1>1. TypeOK'
  BY DEF IInv, TypeOK, LoadEnds, uiVars
<1>2. CmdInv'
  BY CommandsMade DEF IInv, CmdInv, LoadEnds, uiVars, Queue, IsGen, Busy
<1>3. ExitInv'
  BY CommandsMade
  DEF IInv, ExitInv, LoadEnds, Queue, IsLast, Busy, LoadFlagTruth,
     ShutdownIsFinal
<1>4. OrderInv'
  BY CommandsMade
  DEF IInv, OrderInv, LoadEnds, uiVars, Queue, IsGen, IsNewChat,
     WipedStaysWiped
<1> QED
  BY <1>1, <1>2, <1>3, <1>4 DEF IInv

LEMMA RefuseTurnIInv ==
    ASSUME IInv, RefuseTurn
    PROVE  IInv'
<1>1. TypeOK'
  BY TailPlaces DEF IInv, TypeOK, RefuseTurn, engineVars, uiVars, NextCommand
<1>2. CmdInv'
  BY DEF IInv, CmdInv, RefuseTurn, engineVars, uiVars, Queue, Busy
<1>3. ExitInv'
  BY DEF IInv, ExitInv, RefuseTurn, engineVars, Queue, LoadFlagTruth,
     ShutdownIsFinal
<1>4. OrderInv'
  BY DEF IInv, OrderInv, RefuseTurn, engineVars, uiVars, Queue,
     WipedStaysWiped
<1> QED
  BY <1>1, <1>2, <1>3, <1>4 DEF IInv

LEMMA TakeTurnIInv ==
    ASSUME IInv, TakeTurn
    PROVE  IInv'
<1>1. TypeOK'
  BY DEF IInv, TypeOK, TakeTurn, uiVars, NextCommand
<1>2. CmdInv'
  BY DEF IInv, CmdInv, TakeTurn, uiVars, Queue, IsGen, NextCommand
<1>3. ExitInv'
  BY DEF IInv, ExitInv, TakeTurn, Queue, IsLast, LoadFlagTruth,
     ShutdownIsFinal
<1>4. OrderInv'
  BY DEF IInv, OrderInv, TakeTurn, uiVars, Queue, WipedStaysWiped, NextCommand
<1> QED
  BY <1>1, <1>2, <1>3, <1>4 DEF IInv

LEMMA PrefillIInv ==
    ASSUME IInv, Prefill
    PROVE  IInv'
<1>1. TypeOK'
  <2>1. Busy
    BY DEF Prefill, Busy
  <2>2. held' \subseteq Convs
    BY <2>1, TurnSent DEF IInv, TypeOK, Prefill
  <2> QED
    BY <2>2, BoundsAssumption DEF IInv, TypeOK, Prefill, uiVars
<1>2. CmdInv'
  BY DEF IInv, CmdInv, Prefill, uiVars, Queue, Busy
<1>3. ExitInv'
  BY DEF IInv, ExitInv, Prefill, Queue, Busy, LoadFlagTruth, ShutdownIsFinal
<1>4. OrderInv'
  BY DEF IInv, CmdInv, OrderInv, Prefill, uiVars, Queue, Busy,
     WipedStaysWiped, Turn
<1> QED
  BY <1>1, <1>2, <1>3, <1>4 DEF IInv

LEMMA RoundFailsIInv ==
    ASSUME IInv, RoundFails
    PROVE  IInv'
<1>1. TypeOK'
  <2>1. Ends("error")
    BY DEF RoundFails
  <2>2. Busy
    BY DEF RoundFails, Busy
  <2>3. held' \subseteq Convs
    BY <2>2, TurnSent DEF IInv, TypeOK, RoundFails
  <2> QED
    BY <2>1, <2>3, EndsTyped DEF IInv, TypeOK, RoundFails, uiVars
<1>2. CmdInv'
  BY CommandsMade DEF IInv, CmdInv, RoundFails, uiVars, Queue, IsGen, Busy, Ends
<1>3. ExitInv'
  BY CommandsMade
  DEF IInv, ExitInv, RoundFails, Queue, IsLast, Busy, LoadFlagTruth,
     ShutdownIsFinal, Ends
<1>4. OrderInv'
  BY CommandsMade
  DEF IInv, CmdInv, OrderInv, RoundFails, uiVars, Queue, IsGen, IsNewChat,
     Busy, WipedStaysWiped, Ends, Turn
<1> QED
  BY <1>1, <1>2, <1>3, <1>4 DEF IInv

LEMMA TokenIInv ==
    ASSUME IInv, NEW hasText \in BOOLEAN, Token(hasText)
    PROVE  IInv'
<1>1. TypeOK'
  BY BoundsAssumption DEF IInv, TypeOK, Token, uiVars
<1>2. CmdInv'
  BY DEF IInv, CmdInv, Token, uiVars, Queue, Busy
<1>3. ExitInv'
  BY DEF IInv, ExitInv, Token, Queue, Busy, LoadFlagTruth, ShutdownIsFinal
<1>4. OrderInv'
  BY DEF IInv, OrderInv, Token, uiVars, Queue, WipedStaysWiped
<1> QED
  BY <1>1, <1>2, <1>3, <1>4 DEF IInv

LEMMA RoundStopsIInv ==
    ASSUME IInv, RoundStops
    PROVE  IInv'
<1>1. TypeOK'
  BY DEF IInv, TypeOK, RoundStops, uiVars
<1>2. CmdInv'
  BY DEF IInv, CmdInv, RoundStops, uiVars, Queue, Busy
<1>3. ExitInv'
  BY DEF IInv, ExitInv, RoundStops, Queue, Busy, LoadFlagTruth,
     ShutdownIsFinal
<1>4. OrderInv'
  BY DEF IInv, OrderInv, RoundStops, uiVars, Queue, WipedStaysWiped
<1> QED
  BY <1>1, <1>2, <1>3, <1>4 DEF IInv

LEMMA AnswerIInv ==
    ASSUME IInv, Answer
    PROVE  IInv'
<1>1. TypeOK'
  <2>1. Ends("done")
    BY DEF Answer
  <2> QED
    BY <2>1, EndsTyped DEF IInv, TypeOK, Answer, uiVars
<1>2. CmdInv'
  BY CommandsMade DEF IInv, CmdInv, Answer, uiVars, Queue, IsGen, Busy, Ends
<1>3. ExitInv'
  BY CommandsMade
  DEF IInv, ExitInv, Answer, Queue, IsLast, Busy, LoadFlagTruth,
     ShutdownIsFinal, Ends
<1>4. OrderInv'
  BY CommandsMade
  DEF IInv, OrderInv, Answer, uiVars, Queue, IsGen, IsNewChat,
     WipedStaysWiped, Ends
<1> QED
  BY <1>1, <1>2, <1>3, <1>4 DEF IInv

LEMMA RunCallsIInv ==
    ASSUME IInv, NEW n \in 1..MaxCalls, RunCalls(n)
    PROVE  IInv'
<1>1. TypeOK'
  BY DEF IInv, TypeOK, RunCalls, uiVars
<1>2. CmdInv'
  BY BoundsAssumption
  DEF IInv, TypeOK, CmdInv, RunCalls, uiVars, Queue, Busy, Declared
<1>3. ExitInv'
  BY DEF IInv, ExitInv, RunCalls, Queue, LoadFlagTruth, ShutdownIsFinal
<1>4. OrderInv'
  BY DEF IInv, OrderInv, RunCalls, uiVars, Queue, WipedStaysWiped
<1> QED
  BY <1>1, <1>2, <1>3, <1>4 DEF IInv

LEMMA ToolCallIInv ==
    ASSUME IInv, ToolCall
    PROVE  IInv'
<1>1. TypeOK'
  BY BoundsAssumption DEF IInv, TypeOK, ToolCall, uiVars
<1>2. CmdInv'
  BY DEF IInv, CmdInv, ToolCall, uiVars, Queue, Busy
<1>3. ExitInv'
  BY DEF IInv, ExitInv, ToolCall, Queue, Busy, LoadFlagTruth, ShutdownIsFinal
<1>4. OrderInv'
  BY DEF IInv, OrderInv, ToolCall, uiVars, Queue, WipedStaysWiped
<1> QED
  BY <1>1, <1>2, <1>3, <1>4 DEF IInv

LEMMA NextRoundIInv ==
    ASSUME IInv, NextRound
    PROVE  IInv'
<1>1. TypeOK'
  <2>1. step < MaxSteps
    BY DEF IInv, CmdInv, NextRound
  <2>2. step' = step + 1 /\ pc' = "prefill"
    BY <2>1 DEF NextRound
  <2>3. step' \in 0..MaxSteps
    BY <2>1, <2>2, BoundsAssumption DEF IInv, TypeOK
  <2> QED
    BY <2>2, <2>3 DEF IInv, TypeOK, NextRound, uiVars
<1>2. CmdInv'
  BY DEF IInv, CmdInv, NextRound, uiVars, Queue, Busy
<1>3. ExitInv'
  BY DEF IInv, ExitInv, NextRound, Queue, Busy, LoadFlagTruth, ShutdownIsFinal
<1>4. OrderInv'
  BY DEF IInv, OrderInv, NextRound, uiVars, Queue, WipedStaysWiped
<1> QED
  BY <1>1, <1>2, <1>3, <1>4 DEF IInv

LEMMA ResultsUnreadIInv ==
    ASSUME IInv, ResultsUnread
    PROVE  IInv'
<1>1. TypeOK'
  <2>1. Ends("done")
    BY DEF ResultsUnread
  <2> QED
    BY <2>1, EndsTyped DEF IInv, TypeOK, ResultsUnread, uiVars
<1>2. CmdInv'
  BY CommandsMade DEF IInv, CmdInv, ResultsUnread, uiVars, Queue, IsGen, Busy, Ends
<1>3. ExitInv'
  BY CommandsMade
  DEF IInv, ExitInv, ResultsUnread, Queue, IsLast, Busy, LoadFlagTruth,
     ShutdownIsFinal, Ends
<1>4. OrderInv'
  BY CommandsMade
  DEF IInv, OrderInv, ResultsUnread, uiVars, Queue, IsGen, IsNewChat,
     WipedStaysWiped, Ends
<1> QED
  BY <1>1, <1>2, <1>3, <1>4 DEF IInv

LEMMA TakeWipeIInv ==
    ASSUME IInv, TakeWipe
    PROVE  IInv'
<1>1. TypeOK'
  BY DEF IInv, TypeOK, TakeWipe, uiVars, NextCommand
<1>2. CmdInv'
  BY DEF IInv, CmdInv, TakeWipe, uiVars, Queue, IsGen, Busy
<1>3. ExitInv'
  BY DEF IInv, ExitInv, TakeWipe, Queue, Busy, LoadFlagTruth, ShutdownIsFinal,
     NextCommand
<1>4. OrderInv'
  BY DEF IInv, OrderInv, TakeWipe, uiVars, Queue, WipedStaysWiped, NextCommand
<1> QED
  BY <1>1, <1>2, <1>3, <1>4 DEF IInv

LEMMA AckWipeIInv ==
    ASSUME IInv, AckWipe
    PROVE  IInv'
<1>1. TypeOK'
  <2>1. cmd \in Commands /\ cmd.op = "wipe"
    BY CommandsMade DEF IInv, TypeOK, CmdInv, AckWipe
  <2>2. wiped' \subseteq Convs
    BY <2>1, CommandFields DEF IInv, TypeOK, AckWipe, IsNewChat
  <2>3. exit' \in [Exiters -> {"run", "check", "wait", "cleaned", "skipped"}]
    BY DEF IInv, TypeOK, AckWipe
  <2> QED
    BY <2>2, <2>3 DEF IInv, TypeOK, AckWipe, uiVars
<1>2. CmdInv'
  BY CommandsMade DEF IInv, CmdInv, AckWipe, uiVars, Queue, IsGen, Busy
<1>3. ExitInv'
  BY CommandsMade
  DEF IInv, CmdInv, ExitInv, AckWipe, Queue, IsLast, Busy, LoadFlagTruth,
     ShutdownIsFinal
<1>4. OrderInv'
  <2>1. /\ cmd \in Commands /\ cmd.op = "wipe" /\ held = {}
        /\ ~IsGen(cmd') /\ ~IsNewChat(cmd')
    BY CommandsMade DEF IInv, TypeOK, CmdInv, AckWipe, IsGen, IsNewChat
  <2>2. /\ chan' = chan /\ held' = held /\ conv' = conv /\ turnConv' = turnConv
    BY DEF AckWipe, uiVars
  <2>3. CASE cmd.by # "window"
    BY <2>1, <2>2, <2>3 DEF IInv, OrderInv, AckWipe, Queue, WipedStaysWiped
  <2>4. CASE cmd.by = "window"
    <3>1. IsNewChat(cmd) /\ cmd.conv \in Nat /\ wiped' = wiped \union {cmd.conv}
      BY <2>1, <2>4, CommandFields DEF AckWipe, IsNewChat, Convs
    <3>2. \A c \in wiped' : c < conv'
      BY <3>1, <2>2 DEF IInv, OrderInv
    <3>3. \A j \in Queue : IsGen(chan[j]) => turnConv[chan[j].turn] # cmd.conv
      BY <3>1 DEF IInv, OrderInv
    <3> QED
      BY <3>1, <3>2, <3>3, <2>1, <2>2 DEF IInv, OrderInv, Queue, WipedStaysWiped
  <2> QED
    BY <2>3, <2>4
<1> QED
  BY <1>1, <1>2, <1>3, <1>4 DEF IInv

LEMMA EnginePanicIInv ==
    ASSUME IInv, EnginePanic
    PROVE  IInv'
<1>1. TypeOK'
  BY DEF IInv, TypeOK, EnginePanic, engineVars, uiVars
<1>2. CmdInv'
  BY DEF IInv, CmdInv, EnginePanic, engineVars, uiVars, Queue, Busy
<1>3. ExitInv'
  BY DEF IInv, ExitInv, EnginePanic, engineVars, Queue, Busy, LoadFlagTruth,
     ShutdownIsFinal
<1>4. OrderInv'
  BY DEF IInv, OrderInv, EnginePanic, engineVars, uiVars, Queue,
     WipedStaysWiped
<1> QED
  BY <1>1, <1>2, <1>3, <1>4 DEF IInv

LEMMA SwapIInv ==
    ASSUME IInv, NEW e \in Exiters, Swap(e)
    PROVE  IInv'
<1>1. TypeOK'
  BY DEF IInv, TypeOK, Swap, engineVars, uiVars
<1>2. CmdInv'
  BY DEF IInv, CmdInv, Swap, engineVars, uiVars, Queue, Busy
<1>3. ExitInv'
  BY DEF IInv, ExitInv, Swap, engineVars, Busy, LoadFlagTruth, ShutdownIsFinal
<1>4. OrderInv'
  BY DEF IInv, OrderInv, Swap, engineVars, uiVars, Queue, WipedStaysWiped
<1> QED
  BY <1>1, <1>2, <1>3, <1>4 DEF IInv

LEMMA CheckIInv ==
    ASSUME IInv, NEW e \in Exiters, Check(e)
    PROVE  IInv'
<1>1. TypeOK'
  <2>1. chan' \in Seq(Commands)
    BY AppendPlaces, CommandsMade DEF IInv, TypeOK, Check
  <2>2. exit' \in [Exiters -> {"run", "check", "wait", "cleaned", "skipped"}]
    BY DEF IInv, TypeOK, Check
  <2> QED
    BY <2>1, <2>2 DEF IInv, TypeOK, Check, engineVars, uiVars
<1>2. CmdInv'
  BY CommandsMade DEF IInv, CmdInv, Check, engineVars, uiVars, Queue, IsGen, Busy
<1>3. ExitInv'
  BY DEF IInv, TypeOK, ExitInv, Check, engineVars, Busy, LoadFlagTruth,
     ShutdownIsFinal
<1>4. OrderInv'
  <2>1. /\ cmd' = cmd /\ held' = held /\ wiped' = wiped /\ conv' = conv
        /\ turnConv' = turnConv
    BY DEF Check, engineVars, uiVars
  <2>2. CASE loading
    BY <2>1, <2>2 DEF IInv, OrderInv, Check, Queue, WipedStaysWiped
  <2>3. CASE ~loading
    <3>1. /\ chan' = Append(chan, LastWipe(e)) /\ LastWipe(e) \in Commands
          /\ ~IsGen(LastWipe(e)) /\ ~IsNewChat(LastWipe(e))
      BY <2>3, CommandsMade DEF Check, IsGen, IsNewChat
    <3>2. /\ Queue' = 1..(Len(chan) + 1) /\ chan'[Len(chan) + 1] = LastWipe(e)
          /\ Len(chan) \in Nat
          /\ \A i \in Queue : chan'[i] = chan[i]
      BY <3>1 DEF Queue
    <3>3. \A i \in Queue' : (IsGen(chan'[i]) \/ IsNewChat(chan'[i])) =>
              i \in Queue /\ chan'[i] = chan[i]
      BY <3>1, <3>2 DEF Queue
    <3> QED
      BY <2>1, <3>3 DEF IInv, OrderInv, WipedStaysWiped
  <2> QED
    BY <2>2, <2>3
<1> QED
  BY <1>1, <1>2, <1>3, <1>4 DEF IInv

LEMMA LeaveIInv ==
    ASSUME IInv, NEW e \in Exiters, Leave(e)
    PROVE  IInv'
<1>1. TypeOK'
  BY DEF IInv, TypeOK, Leave, engineVars, uiVars
<1>2. CmdInv'
  BY DEF IInv, CmdInv, Leave, engineVars, uiVars, Queue, Busy
<1>3. ExitInv'
  BY DEF IInv, ExitInv, Leave, engineVars, Busy, LoadFlagTruth,
     ShutdownIsFinal
<1>4. OrderInv'
  BY DEF IInv, OrderInv, Leave, engineVars, uiVars, Queue, WipedStaysWiped
<1> QED
  BY <1>1, <1>2, <1>3, <1>4 DEF IInv

\* Nothing but the state is read by the invariant.
LEMMA StutterIInv ==
    ASSUME IInv, UNCHANGED vars
    PROVE  IInv'
<1>1. TypeOK'
  BY DEF IInv, TypeOK, vars, engineVars, uiVars
<1>2. CmdInv' /\ ExitInv' /\ OrderInv'
  BY DEF IInv, CmdInv, ExitInv, OrderInv, vars, engineVars, uiVars, Queue,
     Busy, LoadFlagTruth, ShutdownIsFinal, WipedStaysWiped
<1> QED
  BY <1>1, <1>2 DEF IInv

LEMMA NextIInv == IInv /\ [Next]_vars => IInv'
<1> SUFFICES ASSUME IInv, [Next]_vars PROVE IInv'
  OBVIOUS
<1>1. CASE Window
  BY <1>1, SendTurnIInv, TurnReadIInv, StopIInv, PickModelIInv, NewChatIInv
  DEF Window
<1>2. CASE EngineStep
  BY <1>2, DropIInv, TakeLoadIInv, WipeOldIInv, MarkLoadingIInv, LoadEndsIInv,
     RefuseTurnIInv, TakeTurnIInv, PrefillIInv, RoundFailsIInv, TokenIInv,
     RoundStopsIInv, AnswerIInv, RunCallsIInv, ToolCallIInv, NextRoundIInv,
     ResultsUnreadIInv, TakeWipeIInv, AckWipeIInv
  DEF EngineStep
<1>3. CASE EnginePanic
  BY <1>3, EnginePanicIInv
<1>4. ASSUME NEW e \in Exiters, Swap(e) \/ Check(e) \/ Leave(e) PROVE IInv'
  BY <1>4, SwapIInv, CheckIInv, LeaveIInv
<1>5. CASE UNCHANGED vars
  BY <1>5, StutterIInv
<1> QED
  BY <1>1, <1>2, <1>3, <1>4, <1>5 DEF Next

LEMMA IInvHolds == Spec => []IInv
  BY InitIInv, NextIInv, PTL DEF Spec

-----------------------------------------------------------------------------
\* Every variable stays within its declared range; so turn() never runs past
\* its last step either.
THEOREM TypeCorrect == Spec => []TypeOK
<1>1. IInv => TypeOK
  BY DEF IInv
<1> QED
  BY <1>1, IInvHolds, PTL

\* What was called for nobody was called in the round in hand, by a turn that was
\* cancelled, and counts against the calls of that round.
CancelInv ==
    /\ late # 0 => pc = "tools" /\ Cancelled
    /\ pc = "tools" => late + calls <= MaxCalls

\* The window never takes a cancellation back.
LEMMA WindowCancels ==
    ASSUME TypeOK, CmdInv, CancelInv, Window
    PROVE  CancelInv'
<1>1. UNCHANGED <<pc, cmd, late, calls>>
  BY DEF Window, SendTurn, TurnRead, Stop, PickModel, NewChat, engineVars
<1>2. ASSUME pc = "tools", Cancelled  PROVE Cancelled'
  <2>0. /\ Turn \in Turns /\ turnConv[Turn] # None /\ Turn' = Turn
        /\ receiver[Turn] = "dropped" /\ receiver \in [Turns -> {"none", "open", "dropped"}]
    BY <1>1, <1>2, TurnSent DEF Busy, TypeOK, Turn, Convs, None, Cancelled
  <2>1. ASSUME NEW t \in Turns, SendTurn(t)  PROVE receiver'[Turn] = "dropped"
    BY <2>0, <2>1 DEF SendTurn
  <2>2. ASSUME TaskCancelled  PROVE receiver'[Turn] = "dropped"
    BY <2>0, <2>2 DEF TaskCancelled
  <2> QED
    BY <2>0, <2>1, <2>2 DEF Window, TurnRead, Stop, PickModel, NewChat, Cancelled
<1> QED
  BY <1>1, <1>2 DEF CancelInv

\* The engine thread counts a call, or starts over with none to count.
LEMMA EngineCancels ==
    ASSUME TypeOK, CancelInv, EngineStep
    PROVE  CancelInv'
<1> USE BoundsAssumption
<1>0. late \in Nat /\ calls \in 0..MaxCalls /\ MaxCalls \in Nat
  BY DEF TypeOK
<1>1. CASE ToolCall
  <2>1. calls \in Nat /\ calls > 0 /\ calls' = calls - 1 /\ pc = "tools" /\ pc' = pc /\ (Cancelled' <=> Cancelled)
    BY <1>0, <1>1 DEF ToolCall, uiVars, Cancelled, Turn
  <2>2. late' = IF Cancelled THEN late + 1 ELSE late
    BY <1>1 DEF ToolCall
  <2> QED
    BY <1>0, <2>1, <2>2 DEF CancelInv
<1>2. ASSUME NEW n \in 1..MaxCalls, RunCalls(n)  PROVE CancelInv'
  <2>1. late = 0 /\ late' = 0 /\ calls' = n /\ pc = "round"
    BY <1>2 DEF RunCalls, CancelInv
  <2> QED
    BY <1>0, <2>1 DEF CancelInv
<1>3. CASE NextRound
  <2>1. late = 0 /\ late' = 0 /\ pc' # "tools"
    BY <1>3 DEF NextRound, CancelInv
  <2> QED
    BY <2>1 DEF CancelInv
<1>4. CASE (\E ok \in BOOLEAN : LoadEnds(ok)) \/ RoundFails \/ Answer \/ ResultsUnread
  <2>1. late' = 0 /\ pc' # "tools"
    BY <1>4 DEF LoadEnds, RoundFails, Answer, ResultsUnread, Ends, CancelInv
  <2> QED
    BY <2>1 DEF CancelInv
<1>5. CASE Drop \/ RefuseTurn
  <2>1. pc = "recv" /\ late' = late /\ pc' = pc
    BY <1>5 DEF Drop, RefuseTurn, NextCommand, engineVars
  <2> QED
    BY <2>1 DEF CancelInv
<1>6. CASE TakeLoad \/ WipeOld \/ MarkLoading \/ TakeTurn \/ Prefill \/ RoundStops \/ TakeWipe \/ AckWipe
           \/ \E hasText \in BOOLEAN : Token(hasText)
  <2>1. pc # "tools" /\ pc' # "tools" /\ late' = late
    BY <1>6 DEF TakeLoad, WipeOld, MarkLoading, TakeTurn, Prefill, RoundStops, TakeWipe, AckWipe, Token, NextCommand
  <2> QED
    BY <2>1 DEF CancelInv
<1> QED
  BY <1>1, <1>2, <1>3, <1>4, <1>5, <1>6 DEF EngineStep

\* turn() never reaches its `unreachable!`, and a turn that was cancelled runs no
\* more than the calls of the round it is in.
THEOREM RoundsEndHolds == Spec => []RoundsEnd
<1>1. Init => CancelInv
  BY DEF Init, CancelInv
<1>2. IInv /\ CancelInv /\ [Next]_vars => CancelInv'
  <2> SUFFICES ASSUME IInv, CancelInv, [Next]_vars  PROVE CancelInv'
    OBVIOUS
  <2>1. TypeOK /\ CmdInv
    BY DEF IInv
  <2>2. CASE Window
    BY <2>1, <2>2, WindowCancels
  <2>3. CASE EngineStep
    BY <2>1, <2>3, EngineCancels
  <2>4. CASE EnginePanic \/ (\E e \in Exiters : Swap(e) \/ Check(e) \/ Leave(e)) \/ UNCHANGED vars
    <3>1. UNCHANGED <<pc, cmd, late, calls, receiver>>
      BY <2>4 DEF EnginePanic, Swap, Check, Leave, vars, engineVars, uiVars
    <3> QED
      BY <3>1 DEF CancelInv, Cancelled, Turn
  <2> QED
    BY <2>2, <2>3, <2>4 DEF Next
<1>3. IInv /\ CancelInv => RoundsEnd
  BY BoundsAssumption DEF IInv, TypeOK, CancelInv, RoundsEnd
<1> QED
  BY <1>1, <1>2, <1>3, IInvHolds, PTL DEF Spec

\* While Engine::loading is up there is no model and nothing is resident, so
\* shutdown() is right to return without a wipe.
THEOREM LoadFlagTruthHolds == Spec => []LoadFlagTruth
<1>1. IInv => LoadFlagTruth
  BY DEF IInv, ExitInv
<1> QED
  BY <1>1, IInvHolds, PTL

\* Once shutdown() has returned true, nothing is resident and no turn runs,
\* whatever other threads queue, send or panic at afterwards.
THEOREM ShutdownIsFinalHolds == Spec => []ShutdownIsFinal
<1>1. IInv => ShutdownIsFinal
  BY DEF IInv, ExitInv
<1> QED
  BY <1>1, IInvHolds, PTL

\* Once New chat's wipe has resolved, nothing of that conversation is ever
\* resident again.
THEOREM WipedStaysWipedHolds == Spec => []WipedStaysWiped
<1>1. IInv => WipedStaysWiped
  BY DEF IInv, OrderInv
<1> QED
  BY <1>1, IInvHolds, PTL

-----------------------------------------------------------------------------
\* With a single thread that may leave, and no panic, the process ends wiped.

SoleExit == ~EnginePanics /\ \A e, f \in Exiters : e = f

\* Nobody skips the wipe, since nobody finds `closing` up, and the process has
\* ended only after a shutdown that returned true.
SoleInv ==
    /\ \A e \in Exiters : exit[e] # "skipped"
    /\ closing => \A e \in Exiters : exit[e] # "run"
    /\ ~alive => \E e \in Exiters : exit[e] = "cleaned"

LEMMA WindowLeavesExits ==
    Window => UNCHANGED <<closing, alive, exit>>
BY DEF Window, SendTurn, TurnRead, Stop, PickModel, NewChat

LEMMA EngineLeavesExits ==
    EngineStep => AckWipe \/ UNCHANGED <<closing, alive, exit>>
BY DEF EngineStep, Drop, TakeLoad, WipeOld, MarkLoading, LoadEnds, RefuseTurn,
   TakeTurn, Prefill, RoundFails, Token, RoundStops, Answer, RunCalls, ToolCall,
   NextRound, ResultsUnread, TakeWipe

LEMMA SoleNext ==
    ASSUME SoleExit, IInv, SoleInv, [Next]_vars
    PROVE  SoleInv'
<1>1. exit \in [Exiters -> {"run", "check", "wait", "cleaned", "skipped"}]
  BY DEF IInv, TypeOK
<1>2. CASE UNCHANGED <<closing, alive, exit>>
  BY <1>2 DEF SoleInv
<1>3. CASE AckWipe
  <2>1. closing' = closing /\ alive /\ alive' = alive
    BY <1>3 DEF AckWipe
  <2>2. exit' = exit \/ exit' = [exit EXCEPT ![cmd.by] = "cleaned"]
    BY <1>3 DEF AckWipe
  <2> QED
    BY <1>1, <2>1, <2>2 DEF SoleInv
<1>4. ASSUME NEW e \in Exiters, Swap(e)
      PROVE  SoleInv'
  <2>1. ~closing /\ alive /\ alive' = alive /\ exit' = [exit EXCEPT ![e] = "check"]
    BY <1>4 DEF Swap, SoleInv
  <2> QED
    BY <1>1, <2>1 DEF SoleInv, SoleExit
<1>5. ASSUME NEW e \in Exiters, Check(e)
      PROVE  SoleInv'
  <2>1. /\ alive /\ alive' = alive /\ closing' = closing
        /\ \/ exit' = [exit EXCEPT ![e] = "cleaned"]
           \/ exit' = [exit EXCEPT ![e] = "wait"]
    BY <1>5 DEF Check
  <2> QED
    BY <1>1, <2>1 DEF SoleInv
<1>6. ASSUME NEW e \in Exiters, Leave(e)
      PROVE  SoleInv'
  <2>1. exit[e] = "cleaned" /\ exit' = exit /\ closing' = closing
    BY <1>6 DEF Leave, SoleInv
  <2> QED
    BY <2>1 DEF SoleInv
<1>7. ~EnginePanic
  BY DEF EnginePanic, SoleExit
<1>8. UNCHANGED vars => UNCHANGED <<closing, alive, exit>>
  BY DEF vars
<1> QED
  BY <1>2, <1>3, <1>4, <1>5, <1>6, <1>7, <1>8, WindowLeavesExits,
     EngineLeavesExits DEF Next

\* README: "Every exit path wipes before the process ends".  It does when only
\* one thread leaves and the engine thread does not panic, whatever is queued,
\* loading or answering at that moment.
THEOREM ExitIsWipedAlone == SoleExit => (Spec => []ExitIsWiped)
<1> SUFFICES ASSUME SoleExit PROVE Spec => []ExitIsWiped
  OBVIOUS
<1>1. Init => SoleInv
  BY DEF Init, SoleInv
<1>2. IInv /\ SoleInv /\ [Next]_vars => SoleInv'
  BY SoleNext
<1>3. IInv /\ SoleInv => ExitIsWiped
  BY DEF IInv, ExitInv, SoleInv, ShutdownIsFinal, ExitIsWiped
<1> QED
  BY <1>1, <1>2, <1>3, IInvHolds, PTL DEF Spec

=============================================================================
