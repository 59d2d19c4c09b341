------------------------------ MODULE Programs ------------------------------
(***************************************************************************)
(* The programs and libraries that stand alone: the app's window, the      *)
(* private REPL, granted reads, locked memory, the browser's session and   *)
(* its lab.  None of them shares state: a behaviour is one of one program, *)
(* and the others stay idle.                                               *)
(***************************************************************************)
EXTENDS Integers, Sequences

CONSTANTS
    Suite,      \* the programs that may run
    \* AppUi
    MaxConv, UiTurns, MaxPicks,
    \* Repl
    ReplTurns, ReplTokens,
    \* ReadGrant
    TurnBudget, Suffix, MaxText, MaxNames, MaxDepth, MaxFiles, MaxCalls,
    \* Secret
    Page, Size, MinCap, MaxLen, Values,
    \* WasmSession and Lab: the vocabulary and the token that ends a reply
    Tokens, Eog,
    \* WasmSession
    WasmCtx, MaxBatch, WasmHeadroom, MaxNew, WasmPrompt, MaxReplies, HeaderNeed, FileSize,
    \* Lab
    ChatCtx, ProbeCtx, LabHeadroom, LabPrompt, MaxOps

ASSUME ProgramsAssumption ==
    /\ {TurnBudget, Suffix, MaxText} \subseteq Nat
    /\ {Page, Size, MinCap} \subseteq Nat \ {0} /\ MaxLen \in Nat
    /\ WasmCtx \in Nat \ {0} /\ {MaxBatch, WasmHeadroom, MaxNew} \subseteq Nat
    /\ {ChatCtx, ProbeCtx, LabHeadroom} \subseteq Nat

VARIABLES
    program,
    chats, outlook, turns, draft, error, running, folder, clip, copied, slipped, dialogs, loads, picked,
    at, history, flag, signals, cut, turn, cmds, engine, events, sent, open, held, said,
    tool, opened, stamp, folders, files, left, after, result, read, budget, given, calls,
    cap, len, bytes, locked, wiped, wants, armed, heap, leaked,
    step, want, zeroing, cached, rows, prompt, next, fresh, limit, stop, asked, replies,
    chat, ids, logits, reply, heard, probe, worker, stopping, bare, ops

uiVars == <<chats, outlook, turns, draft, error, running, folder, clip, copied, slipped, dialogs, loads, picked>>
replVars == <<at, history, flag, signals, cut, turn, cmds, engine, events, sent, open, held, said>>
readVars == <<tool, opened, stamp, folders, files, left, after, result, read, budget, given, calls>>
secretVars == <<cap, len, bytes, locked, wiped, wants, armed, heap, leaked>>
wasmVars == <<step, want, zeroing, cached, rows, prompt, next, fresh, limit, stop, asked, replies>>
labVars == <<chat, ids, logits, reply, heard, probe, worker, stopping, bare, ops>>

-----------------------------------------------------------------------------

AppUi == INSTANCE AppUi WITH MaxTurns <- UiTurns, conv <- chats, status <- outlook
Repl == INSTANCE Repl WITH MaxTurns <- ReplTurns, MaxTokens <- ReplTokens
ReadGrant == INSTANCE ReadGrant WITH open <- opened, held <- stamp
Secret == INSTANCE Secret
WasmSession == INSTANCE WasmSession WITH
    NCtx <- WasmCtx, Headroom <- WasmHeadroom, MaxPrompt <- WasmPrompt,
    at <- step, armed <- zeroing, history <- asked
Lab == INSTANCE Lab WITH Headroom <- LabHeadroom, MaxPrompt <- LabPrompt, history <- heard

-----------------------------------------------------------------------------

UiIdle ==
    /\ chats = 0 /\ outlook = 0 /\ turns = 0 /\ draft = 0 /\ error = 0 /\ running = 0 /\ folder = 0
    /\ clip = 0 /\ copied = 0 /\ slipped = 0 /\ dialogs = 0 /\ loads = 0 /\ picked = 0
ReplIdle ==
    /\ at = 0 /\ history = 0 /\ flag = 0 /\ signals = 0 /\ cut = 0 /\ turn = 0 /\ cmds = 0
    /\ engine = 0 /\ events = 0 /\ sent = 0 /\ open = 0 /\ held = 0 /\ said = 0
ReadIdle ==
    /\ tool = 0 /\ opened = 0 /\ stamp = 0 /\ folders = 0 /\ files = 0 /\ left = 0
    /\ after = 0 /\ result = 0 /\ read = 0 /\ budget = 0 /\ given = 0 /\ calls = 0
SecretIdle ==
    /\ cap = 0 /\ len = 0 /\ bytes = 0 /\ locked = 0 /\ wiped = 0 /\ wants = 0
    /\ armed = 0 /\ heap = 0 /\ leaked = 0
WasmIdle ==
    /\ step = 0 /\ want = 0 /\ zeroing = 0 /\ cached = 0 /\ rows = 0 /\ prompt = 0
    /\ next = 0 /\ fresh = 0 /\ limit = 0 /\ stop = 0 /\ asked = 0 /\ replies = 0
LabIdle ==
    /\ chat = 0 /\ ids = 0 /\ logits = 0 /\ reply = 0 /\ heard = 0 /\ probe = 0
    /\ worker = 0 /\ stopping = 0 /\ bare = 0 /\ ops = 0

ProgramsInit ==
    /\ program \in Suite
    /\ IF program = "ui" THEN AppUi!Init ELSE UiIdle
    /\ IF program = "repl" THEN Repl!Init ELSE ReplIdle
    /\ IF program = "read" THEN ReadGrant!Init ELSE ReadIdle
    /\ IF program = "secret" THEN Secret!Init ELSE SecretIdle
    /\ IF program = "wasm" THEN WasmSession!Init ELSE WasmIdle
    /\ IF program = "lab" THEN Lab!Init ELSE LabIdle

UiNext == program = "ui" /\ AppUi!Next
          /\ UNCHANGED <<program, replVars, readVars, secretVars, wasmVars, labVars>>
ReplNext == program = "repl" /\ Repl!Next
            /\ UNCHANGED <<program, uiVars, readVars, secretVars, wasmVars, labVars>>
ReadNext == program = "read" /\ ReadGrant!Next
            /\ UNCHANGED <<program, uiVars, replVars, secretVars, wasmVars, labVars>>
SecretNext == program = "secret" /\ Secret!Next
              /\ UNCHANGED <<program, uiVars, replVars, readVars, wasmVars, labVars>>
WasmNext == program = "wasm" /\ WasmSession!Next
            /\ UNCHANGED <<program, uiVars, replVars, readVars, secretVars, labVars>>
LabNext == program = "lab" /\ Lab!Next
           /\ UNCHANGED <<program, uiVars, replVars, readVars, secretVars, wasmVars>>

ProgramsNext == UiNext \/ ReplNext \/ ReadNext \/ SecretNext \/ WasmNext \/ LabNext

programVars == <<program, uiVars, replVars, readVars, secretVars, wasmVars, labVars>>

ProgramsSpec == ProgramsInit /\ [][ProgramsNext]_programVars

-----------------------------------------------------------------------------
(* Properties.                                                             *)

\* What the user was told is forgotten is gone: a new chat in the app, and a line of
\* the private program that says it wiped.
ForgottenIsGone ==
    /\ program = "ui" => AppUi!NewChatIsClean
    /\ program = "repl" => Repl!WipedMeansWiped

\* A conversation's history alternates between user and assistant, an error or a stop
\* in any turn included.
HistoriesAlternate ==
    /\ program = "ui" => AppUi!HistoryAlternates
    /\ program = "repl" => Repl!HistoryAlternates

\* The app's status settles on the model that was picked last.
SettlesOnLast == program = "ui" => AppUi!SettlesOnLast

\* Ctrl-C breaks off only the turn it was meant for.
CutsOwnTurn == program = "repl" => Repl!CutsOwnTurn

\* A tool call of a granted folder leaves no access time changed and reads nothing more
\* when one could not be put back, reads what the grant allows, and keeps to its budget.
ReadsPrivately == program = "read" => ReadGrant!LeavesNoTrace /\ ReadGrant!ReadsOnlyAllowed /\ ReadGrant!BudgetHolds

\* No value is in memory that was freed, or in a buffer that was wiped; and growing a
\* locked buffer loses nothing.
SecretsAreZeroed == program = "secret" => Secret!NothingLeftBehind /\ Secret!HoldsWhatWasPut

\* In the browser, whatever comes between two awaits, each cache holds rows of its own
\* tokens and no others, and the lab's worker stops only where a wipe took its logits.
BrowserCachesAreOwn ==
    /\ program = "wasm" => WasmSession!CachedIsResident
    /\ program = "lab" => Lab!CachesAreOwn /\ Lab!TrapsOnlyWhenWiped
=============================================================================
