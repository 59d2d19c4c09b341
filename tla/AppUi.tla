------------------------------- MODULE AppUi -------------------------------
(***************************************************************************)
(* The window of the app (crates/app/src/ui.rs) and its clipboard          *)
(* (clip.rs).  Handlers and the polls of spawned tasks run one at a time   *)
(* on the UI's executor; what the engine sends (AppEngine) comes in        *)
(* between, in any order it can.  Whatever came out of a conversation is   *)
(* tagged with its number: 0 stands for "empty".                           *)
(***************************************************************************)
EXTENDS Integers, Sequences, FiniteSetsExt

CONSTANTS
    MaxConv,   \* bound: conversations, one more with each New chat
    MaxTurns,  \* bound: turns of a conversation
    MaxPicks   \* bound: models picked

VARIABLES
    conv,     \* the number of the conversation
    status,   \* <<"NoModel">>, or <<"Loading" | "Ready" | "Failed", model>>
    turns, draft, error,
    running,  \* 0, or the oldest conversation the request in hand was made from
    folder,   \* the grant and the folder row: open, draft, error, allow_protected
    clip,     \* the system's clipboard: a copy made here, or 0
    copied,   \* clip.rs STATE: -1 no handle, 0 handle and no text, or the text
    slipped,  \* a call on the clipboard failed
    dialogs,  \* open file dialogs
    loads,    \* models being loaded, in the order the engine takes them
    picked    \* models picked so far

talk == <<turns, draft, error, running>>
board == <<clip, copied, slipped>>
models == <<status, dialogs, loads, picked>>
vars == <<conv, talk, folder, board, models>>

NoFolder == [grant |-> 0, open |-> FALSE, draft |-> 0, error |-> 0, protected |-> 0]

\* take_initial: a model named on the command line is loading when the window opens.
Init ==
    /\ conv = 1 /\ turns = <<>> /\ draft = 0 /\ error = 0 /\ running = 0
    /\ folder = NoFolder /\ clip = 0 /\ copied = -1 /\ slipped = FALSE /\ dialogs = 0
    /\ \/ status = <<"NoModel">> /\ loads = <<>> /\ picked = 0
       \/ status = <<"Loading", 1>> /\ loads = <<1>> /\ picked = 1

-----------------------------------------------------------------------------
(* A turn.                                                                 *)

Type == draft' = conv /\ UNCHANGED <<conv, turns, error, running, folder, board, models>>

Turn(role, of, text) == [role |-> role, of |-> of, text |-> text, tools |-> FALSE]

\* The oldest conversation anything of the request comes from.
Oldest(history, grant) ==
    Min({history[i].of : i \in DOMAIN history} \cup ({grant} \ {0}))

Send ==
    /\ running = 0 /\ status[1] = "Ready" /\ draft # 0 /\ Len(turns) < MaxTurns
    /\ LET history == Append(turns, Turn("user", draft, "full"))
       IN /\ running' = Oldest(history, folder.grant)
          /\ turns' = Append(history, Turn("assistant", running', ""))
    /\ draft' = 0 /\ error' = 0
    /\ UNCHANGED <<conv, folder, board, models>>

\* if let Some(last) = turns.write().last_mut()
Write(text, tools) ==
    turns' = IF turns = <<>> THEN turns
             ELSE [turns EXCEPT ![Len(turns)].text = text, ![Len(turns)].tools = @ \/ tools,
                                ![Len(turns)].of = running]

Token == running # 0 /\ Write("part", FALSE)
         /\ UNCHANGED <<conv, draft, error, running, folder, board, models>>
Tools == running # 0 /\ Write("", TRUE)
         /\ UNCHANGED <<conv, draft, error, running, folder, board, models>>
Done == running # 0 /\ Write("full", FALSE) /\ running' = 0
        /\ UNCHANGED <<conv, draft, error, folder, board, models>>

\* The reply and its prompt leave the history; the prompt goes back to the draft.
Popped(n) == SubSeq(turns, 1, Len(turns) - n)
FailKeepingPrompt ==
    /\ running # 0
    /\ turns' = IF turns = <<>> THEN turns ELSE Popped(1)
    /\ UNCHANGED draft
    /\ error' = running /\ running' = 0
    /\ UNCHANGED <<conv, folder, board, models>>
Fail ==
    /\ running # 0
    /\ turns' = IF Len(turns) < 2 THEN <<>> ELSE Popped(2)
    /\ draft' = IF Len(turns) < 2 THEN draft ELSE turns[Len(turns) - 1].of
    /\ error' = running /\ running' = 0
    /\ UNCHANGED <<conv, folder, board, models>>

\* The engine dropped the sender: the loop ends with what there is.
Closed == running # 0 /\ running' = 0
          /\ UNCHANGED <<conv, turns, draft, error, folder, board, models>>

\* The stop button: the task, and its receiver with it, is dropped.
Stop == running # 0 /\ running' = 0
        /\ UNCHANGED <<conv, turns, draft, error, folder, board, models>>

-----------------------------------------------------------------------------
(* The folder row, the copy button, New chat.                              *)

Folder(next) == folder' = next /\ UNCHANGED <<conv, talk, board, models>>
FolderToggle == folder.grant = 0 /\ status[1] \in {"Loading", "Ready"}
                /\ Folder([folder EXCEPT !.open = ~@, !.error = 0])
FolderType == folder.open /\ folder.grant = 0 /\ Folder([folder EXCEPT !.draft = conv])
AllowProtected == folder.open /\ folder.grant = 0
                  /\ Folder([folder EXCEPT !.protected = IF @ = 0 THEN conv ELSE 0])
GrantFolder ==
    /\ folder.open /\ folder.grant = 0 /\ folder.draft # 0
    /\ \/ Folder([folder EXCEPT !.grant = @ + folder.draft, !.open = FALSE, !.draft = 0, !.error = 0])
       \/ Folder([folder EXCEPT !.error = folder.draft])
Revoke == folder.grant # 0 /\ Folder([folder EXCEPT !.grant = 0])

\* The button is under every reply but an empty one and the one being written.
Copy ==
    /\ \E i \in DOMAIN turns :
          /\ turns[i].role = "assistant" /\ turns[i].text # ""
          /\ i < Len(turns) \/ running = 0
          /\ \/ clip' = turns[i].of /\ copied' = turns[i].of /\ UNCHANGED slipped
             \/ copied' = (IF copied = -1 THEN -1 ELSE 0) /\ slipped' = TRUE /\ UNCHANGED clip
    /\ UNCHANGED <<conv, talk, folder, models>>

CopiedElsewhere == clip # 0 /\ clip' = 0
                   /\ UNCHANGED <<conv, talk, folder, copied, slipped, models>>

Forget ==
    /\ copied' = -1
    /\ \/ clip' = (IF copied > 0 /\ clip = copied THEN 0 ELSE clip) /\ UNCHANGED slipped
       \/ copied > 0 /\ slipped' = TRUE /\ UNCHANGED clip

Wipe ==
    /\ conv < MaxConv /\ conv' = conv + 1
    /\ Forget
    /\ turns' = <<>> /\ draft' = 0 /\ error' = 0 /\ running' = 0
    /\ folder' = NoFolder
    /\ UNCHANGED models

-----------------------------------------------------------------------------
(* Picking a model: whether one is loading is asked before the dialog.     *)

Pick == /\ status[1] # "Loading" /\ dialogs + picked < MaxPicks
        /\ dialogs' = dialogs + 1
        /\ UNCHANGED <<conv, talk, folder, board, status, loads, picked>>

Cancelled == /\ dialogs > 0 /\ dialogs' = dialogs - 1
             /\ UNCHANGED <<conv, talk, folder, board, status, loads, picked>>

PickedFile ==
    /\ dialogs > 0 /\ dialogs' = dialogs - 1
    /\ picked' = picked + 1
    /\ running' = 0
    /\ status' = <<"Loading", picked'>>
    /\ loads' = Append(loads, picked')
    /\ UNCHANGED <<conv, turns, draft, error, folder, board>>

\* The engine takes loads in order, and a dead engine answers them all as failed.
ShownOnce(outcome, model) == IF status[1] = "Loading" THEN <<outcome, model>> ELSE status
Shown(outcome, model) == <<outcome, model>>
FinishLoad ==
    /\ loads # <<>> /\ loads' = Tail(loads)
    /\ \E outcome \in {"Ready", "Failed"} : status' = Shown(outcome, Head(loads))
    /\ UNCHANGED <<conv, talk, folder, board, dialogs, picked>>

Next ==
    \/ Type \/ Send \/ Token \/ Tools \/ Done \/ Fail \/ Closed \/ Stop
    \/ FolderToggle \/ FolderType \/ AllowProtected \/ GrantFolder \/ Revoke
    \/ Copy \/ CopiedElsewhere \/ Wipe
    \/ Pick \/ Cancelled \/ PickedFile \/ FinishLoad

Spec == Init /\ [][Next]_vars

-----------------------------------------------------------------------------
(* Properties.                                                             *)

\* Nothing in the window comes from an earlier conversation, and neither does what is
\* on the clipboard unless a call on it failed: New chat races replies, copies and the
\* answers of the engine.
NewChatIsClean ==
    /\ \A i \in DOMAIN turns : turns[i].of = conv
    /\ {draft, error, running, folder.grant, folder.draft, folder.error, folder.protected}
           \subseteq {0, conv}
    /\ ~slipped => clip \in {0, conv}

\* What a request replays alternates, the prompt last: a failed turn left neither its
\* reply nor its prompt behind, whatever was written into it before it failed.
HistoryAlternates ==
    /\ Len(turns) % 2 = 0
    /\ \A i \in DOMAIN turns : turns[i].role = IF i % 2 = 1 THEN "user" ELSE "assistant"

\* With two dialogs open two loads can run at once; when none runs, the window shows the
\* outcome of the last one the engine did.
SettlesOnLast ==
    loads = <<>> => IF picked = 0 THEN status = <<"NoModel">>
                    ELSE status \in {<<"Ready", picked>>, <<"Failed", picked>>}
=============================================================================
