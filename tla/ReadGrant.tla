----------------------------- MODULE ReadGrant -----------------------------
(***************************************************************************)
(* Private file reading (crates/app/src/read.rs): the tool calls of one    *)
(* turn.  What lstat saw under a name and what openat then opened need not *)
(* be the same file, and putting an access time back may fail.  Texts are  *)
(* lengths; a folder is the number of names not yet looked at.             *)
(***************************************************************************)
EXTENDS Integers, Sequences

CONSTANTS
    TurnBudget,  \* TURN_BUDGET
    Suffix,      \* length of the line that says a text was cut off
    MaxText,     \* bound: length of a tool's text
    MaxNames,    \* bound: names in a folder
    MaxDepth,    \* bound: folders inside one another
    MaxFiles,    \* SEARCH_FILES
    MaxCalls     \* bound: tool calls of a turn

VARIABLES
    tool,     \* the call in hand, or "none"
    open,     \* what the walk stands before: nothing, or the file to read next
    held,     \* its access time: "none", "saved", "moved", or "back"
    folders,  \* search: names left in each open folder, the innermost last
    files,    \* search: files counted
    left,     \* files whose access time this call left changed
    after,    \* something was read after a restore had failed
    result,   \* what the last call came to
    read,     \* what was read in this turn
    budget, given, calls

walk == <<folders, files>>
turn == <<result, budget, given, calls>>
vars == <<tool, open, held, walk, left, after, read, turn>>

\* st_mode, and what may be wrong with it: "guarded" is a protected folder when the
\* grant does not allow those.
Kinds == {"file", "folder", "link", "other"}
Traits == {"fine", "network", "placeholder", "foreign", "guarded"}
Node == [kind : Kinds, trait : Traits]
Nothing == [kind |-> "none", trait |-> "none"]

Init ==
    /\ tool = "none" /\ open = Nothing /\ held = "none" /\ folders = <<>> /\ files = 0
    /\ left = 0 /\ after = FALSE /\ result = "none" /\ read = {}
    /\ budget = TurnBudget /\ given = 0 /\ calls = 0

-----------------------------------------------------------------------------
(* Grant::step and Grant::check.                                           *)

\* fstatat, then openat(O_NOFOLLOW), which refuses a link whatever was seen.
Step(seen, got, wantDir) ==
    /\ seen.trait \notin {"guarded", "placeholder"} /\ seen.kind # "link"
    /\ got.kind # "link" /\ (wantDir => got.kind = "folder")
    \* The path is the path, whichever file is there.
    /\ got.trait # "guarded"

Check(seen, got) == got.trait \notin {"network", "placeholder", "foreign"}
                    /\ got.kind \in {"file", "folder"}

-----------------------------------------------------------------------------
(* call.                                                                   *)

\* Refusals are not charged.
Refused == /\ result' = "refused" /\ tool' = "none" /\ folders' = <<>> /\ files' = 0
           /\ UNCHANGED <<budget, given>>

LenCut(n) == IF n > budget THEN budget + Suffix ELSE n
Charged(n) == LET len == LenCut(n) IN IF len > budget THEN 0 ELSE budget - len

Answered ==
    \E n \in 0..MaxText :
        /\ result' = "ok" /\ tool' = "none" /\ folders' = <<>> /\ files' = 0
        /\ budget' = Charged(n)
        /\ given' = given + LenCut(n)

BeginCall ==
    /\ tool = "none" /\ calls < MaxCalls /\ calls' = calls + 1
    /\ left' = 0 /\ after' = FALSE
    /\ UNCHANGED <<held, read>>
    /\ \/ \* the budget is used up, the path leaves the grant, or open_rel fails on the way
          Refused /\ UNCHANGED open
       \/ /\ budget > 0
          /\ \E t \in {"list_dir", "read_file", "search"}, seen, got \in Node :
                /\ Step(seen, got, FALSE)
                /\ IF /\ Check(seen, got)
                      /\ t = "list_dir" => got.kind = "folder"
                      /\ t = "read_file" => got.kind = "file"
                   THEN tool' = t /\ open' = got /\ folders' = <<>> /\ files' = 0
                        /\ UNCHANGED <<result, budget, given>>
                   ELSE Refused /\ UNCHANGED open

-----------------------------------------------------------------------------
(* Held: saved when opened, moved by the read, put back and confirmed.     *)

TooLarge == tool = "search" /\ open.kind = "file"
Hold ==
    /\ open # Nothing /\ held = "none"
    /\ IF tool = "search" /\ open.kind = "file" THEN files' = files + 1 ELSE UNCHANGED files
    /\ \/ held' = "saved" /\ UNCHANGED open
       \/ \* SEARCH_FILE_MAX: skipped without a read
          TooLarge /\ open' = Nothing /\ UNCHANGED held
    /\ UNCHANGED <<tool, folders, left, after, read, turn>>

\* read_at or read_names.
Read ==
    /\ held = "saved"
    /\ held' = "moved"
    /\ read' = read \cup {open}
    /\ after' = (after \/ left > 0)
    /\ UNCHANGED <<tool, open, walk, left, turn>>

\* The read failed: Held is dropped, which puts the time back and asks no more.
ReadFails ==
    /\ held = "moved"
    /\ held' = "none" /\ open' = Nothing
    /\ left' \in {left, left + 1}
    /\ Refused
    /\ UNCHANGED <<after, read, calls>>

GoOn == UNCHANGED <<tool, walk, result, budget, given>>
RestoreFailsSkips == GoOn
RestoreFails == Refused

\* restore: what follows the read only begins once the time is back.
Restore ==
    /\ held = "moved"
    /\ held' = "none" /\ open' = Nothing
    /\ UNCHANGED <<after, read, calls>>
    /\ \/ left' = left + 1 /\ RestoreFails
       \/ /\ UNCHANGED left
          /\ CASE tool = "list_dir" -> Answered
               [] tool = "read_file" -> Answered \/ Refused  \* decode: not text
               [] tool = "search" /\ open.kind = "folder" ->
                      /\ \E n \in 0..MaxNames : folders' = Append(folders, n)
                      /\ UNCHANGED <<tool, files, result, budget, given>>
               [] OTHER -> GoOn

-----------------------------------------------------------------------------
(* search_dir.                                                             *)

Deeper == [folders EXCEPT ![Len(folders)] = @ - 1]

\* The next name: hidden, skipped, gone, refused, or opened.
Child ==
    /\ tool = "search" /\ open = Nothing /\ folders # <<>> /\ folders[Len(folders)] > 0
    /\ files < MaxFiles
    /\ folders' = Deeper
    /\ \/ UNCHANGED open
       \/ \E seen, got \in Node :
             /\ seen.kind = "folder" => Len(folders) < MaxDepth
             /\ Step(seen, got, seen.kind = "folder") /\ seen.kind \in {"file", "folder"}
             /\ Check(seen, got)
             \* a folder that took a file's place is read as a file
             /\ open' = [got EXCEPT !.kind = seen.kind]
    /\ UNCHANGED <<tool, held, files, left, after, read, turn>>

\* A folder at its end, or the limit on files reached, or the one on hits.
FolderEnds ==
    /\ tool = "search" /\ open = Nothing /\ folders # <<>>
    /\ folders[Len(folders)] = 0 \/ files > 0
    /\ folders' = SubSeq(folders, 1, Len(folders) - 1)
    /\ UNCHANGED <<tool, open, held, files, left, after, read, turn>>

SearchEnds ==
    /\ tool = "search" /\ open = Nothing /\ folders = <<>> /\ held = "none"
    /\ Answered
    /\ UNCHANGED <<open, held, left, after, read, calls>>

Next == BeginCall \/ Hold \/ Read \/ ReadFails \/ Restore \/ Child \/ FolderEnds \/ SearchEnds

-----------------------------------------------------------------------------
(* Properties.                                                             *)

\* A call that succeeds left no access time changed, however many files it read, and
\* after one that could not be put back nothing more is read.
LeavesNoTrace == (tool = "none" /\ result = "ok" => left = 0) /\ ~after /\ left <= 1

\* Only files and folders that pass the rules are read, whatever is swapped in between
\* lstat and open.
ReadsOnlyAllowed == \A f \in read : f.trait = "fine" /\ f.kind \in {"file", "folder"}

\* A turn's results stay within the budget, but for the line that says one was cut off.
BudgetHolds == given <= TurnBudget + Suffix
=============================================================================
