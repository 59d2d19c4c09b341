------------------------------ MODULE Download ------------------------------
(***************************************************************************)
(* What fetching a checkpoint promises, with no partial files in sight:    *)
(* the finished name changes at one stroke, from nothing, or from what the *)
(* user forced it to replace, to the whole of the version the call was     *)
(* begun for; and a call that ends any other way leaves it as it was.      *)
(***************************************************************************)
EXTENDS Integers

CONSTANTS
    Fetchers,  \* processes
    Versions   \* contents the remote file has had

None == 0

VARIABLES
    server,    \* the version the server has
    finished,  \* the version under the finished name, or None
    asked,     \* process -> the version its call was begun for, or None
    forced,    \* process -> whether its call may replace what is there
    answer     \* process -> how its last call ended

vars == <<server, finished, asked, forced, answer>>

Init ==
    /\ server \in Versions
    /\ finished = None
    /\ asked = [p \in Fetchers |-> None]
    /\ forced = [p \in Fetchers |-> FALSE]
    /\ answer = [p \in Fetchers |-> "none"]

Begin(p, force) ==
    /\ asked[p] = None
    /\ asked' = [asked EXCEPT ![p] = server]
    /\ forced' = [forced EXCEPT ![p] = force]
    /\ answer' = [answer EXCEPT ![p] = "none"]
    /\ UNCHANGED <<server, finished>>

Ends(p, how) ==
    /\ asked[p] # None
    /\ asked' = [asked EXCEPT ![p] = None]
    /\ forced' = [forced EXCEPT ![p] = FALSE]
    /\ answer' = [answer EXCEPT ![p] = how]
    /\ UNCHANGED server

Succeeds(p) ==
    /\ Ends(p, "ok")
    /\ finished \in {None, asked[p]} \/ forced[p]
    /\ finished' = asked[p]

GivesUp(p) == Ends(p, "failed") /\ UNCHANGED finished

Replaced(v) == server' = v /\ UNCHANGED <<finished, asked, forced, answer>>

\* No call outlives the machine; what is finished does.
PowerLoss ==
    /\ asked' = [p \in Fetchers |-> None]
    /\ forced' = [p \in Fetchers |-> FALSE]
    /\ answer' = [p \in Fetchers |-> "failed"]
    /\ UNCHANGED <<server, finished>>

Next ==
    \/ \E p \in Fetchers, force \in BOOLEAN : Begin(p, force)
    \/ \E p \in Fetchers : Succeeds(p) \/ GivesUp(p)
    \/ \E v \in Versions : Replaced(v)
    \/ PowerLoss

Spec == Init /\ [][Next]_vars
=============================================================================
