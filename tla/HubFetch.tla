------------------------------ MODULE HubFetch ------------------------------
(***************************************************************************)
(* hub::fetch: downloading a checkpoint into a directory, resumably, with  *)
(* a `.part` file that takes its real name once it has been verified.      *)
(*                                                                         *)
(* The directory is modelled with its inodes, since a process that has the *)
(* partial file open keeps writing to the same file after another one has  *)
(* renamed it.  A file's content is a sequence of blocks; a block is the   *)
(* version of the remote file it came from, or Hole where the file was     *)
(* extended or lost without being written.  Equal hashes mean equal        *)
(* contents.  Each step below is one access to the directory or the        *)
(* network; between any two of them the process may be killed, another one *)
(* may act, the file on the server may be replaced, or the power may fail. *)
(***************************************************************************)
EXTENDS Integers, Sequences

CONSTANTS
    Fetchers,       \* processes fetching this file into this directory
    Versions,       \* contents the remote file has had, as it is replaced
    Size,           \* version -> number of blocks
    SizeSent,       \* whether HEAD sends a size, as it may: subset of BOOLEAN
    PublishesHash,  \* the server sends x-linked-etag
    Options,        \* command lines: [force, verify, adopt : BOOLEAN]
    TwinVersion,    \* version that is there under another name, or None
    Files,          \* inodes
    TwinFile,       \* the inode of that other name
    PowerFails,     \* whether the machine may lose power
    MaxFaults       \* bound: things that go wrong

None == 0
Hole == -1

ASSUME FetchAssumption ==
    /\ Versions \subseteq Nat \ {None}
    /\ Size \in [Versions -> Nat \ {0}]
    /\ SizeSent \subseteq BOOLEAN /\ PublishesHash \in BOOLEAN
    /\ PowerFails \in BOOLEAN
    /\ Options \subseteq [force : BOOLEAN, verify : BOOLEAN, adopt : BOOLEAN]
    /\ TwinVersion \in Versions \union {None}
    /\ Files \subseteq Nat \ {None} /\ TwinFile \in Files
    /\ MaxFaults \in Nat

VARIABLES
    server,  \* the version the server has now
    data,    \* inode -> content
    synced,  \* inode -> how much of it would survive a power failure
    part,    \* inode of <name>.part, or None
    dest,    \* inode of the finished name, or None
    run,     \* process -> the call in progress
    faults   \* things that went wrong so far

vars == <<server, data, synced, part, dest, run, faults>>

AtMost(a, b) == IF a <= b THEN a ELSE b
Whole(v) == [i \in 1..Size[v] |-> v]

\* File::set_len: a file made longer reads as zeros there.
SetLen(s, n) == [i \in 1..n |-> IF i <= Len(s) THEN s[i] ELSE Hole]

\* A block written at position k, wherever the file ends.
WriteAt(s, k, b) ==
    [i \in 1..(IF k > Len(s) THEN k ELSE Len(s)) |->
        IF i = k THEN b ELSE IF i <= Len(s) THEN s[i] ELSE Hole]

\* Gguf::open: the header is there, and no tensor it lists runs past the end.
Parses(s) == Len(s) > 0 /\ s[1] \in Versions /\ Len(s) >= Size[s[1]]

\* What HEAD told the process: the size (0 if unpublished) and the hash.
KnownSize(p) == IF run[p].sized THEN Size[run[p].ver] ELSE 0
HashIs(p, s) == s = Whole(run[p].ver)

Idle(result) ==
    [pc |-> "idle", force |-> FALSE, verify |-> FALSE, adopt |-> FALSE,
     ver |-> None, sized |-> FALSE, have |-> 0, fd |-> None, pos |-> 0,
     digest |-> <<>>, stream |-> None, result |-> result]

Finish(p, result) ==
    run' = [run EXCEPT ![p] = [Idle(result) EXCEPT !.ver = run[p].ver]]
Fails(p) == Finish(p, "failed")
At(p, pc) == run[p].pc = pc
Unused(f) == f \notin {TwinFile, part, dest} \union {run[p].fd : p \in Fetchers}

-----------------------------------------------------------------------------
Init ==
    /\ server \in Versions
    /\ data = [f \in Files |->
                  IF f = TwinFile /\ TwinVersion # None THEN Whole(TwinVersion)
                  ELSE <<>>]
    /\ synced = [f \in Files |-> Len(data[f])]
    /\ part = None /\ dest = None
    /\ run = [p \in Fetchers |-> Idle("none")]
    /\ faults = 0

\* llmoxide-fetch: HEAD, then fetch().
Start(p, o, sized) ==
    /\ At(p, "idle")
    /\ run' = [run EXCEPT ![p] = [Idle("none") EXCEPT
                  !.pc = "dest", !.ver = server, !.force = o.force,
                  !.verify = o.verify, !.adopt = o.adopt, !.sized = sized]]
    /\ UNCHANGED <<server, data, synced, part, dest, faults>>

CheckDestBySize(p) ==
    /\ At(p, "dest")
    /\ IF dest = None \/ run[p].force
       THEN run' = [run EXCEPT ![p].pc = "twin"]
       ELSE IF Len(data[dest]) = KnownSize(p)
       THEN Finish(p, "ok") ELSE Fails(p)
    /\ UNCHANGED <<server, data, synced, part, dest, faults>>

\* A file of the finished name is kept if it has the size and, when that can
\* be told, the hash of the remote one; anything else is left to --force.
CheckDest(p) ==
    /\ At(p, "dest")
    /\ IF dest = None \/ run[p].force
       THEN run' = [run EXCEPT ![p].pc = "twin"]
       ELSE IF /\ Len(data[dest]) = KnownSize(p)
               /\ (run[p].verify /\ PublishesHash) => HashIs(p, data[dest])
       THEN Finish(p, "ok") ELSE Fails(p)
    /\ UNCHANGED <<server, data, synced, part, dest, faults>>

\* The same file under another name is linked; a name taken meanwhile is an
\* error of hard_link.
AdoptTwin(p) ==
    /\ At(p, "twin")
    /\ IF /\ run[p].adopt /\ ~run[p].force
          /\ TwinVersion # None /\ PublishesHash
          /\ KnownSize(p) # 0 /\ Len(data[TwinFile]) = KnownSize(p)
          /\ HashIs(p, data[TwinFile])
       THEN IF dest = None
            THEN dest' = TwinFile /\ Finish(p, "ok")
            ELSE Fails(p) /\ UNCHANGED dest
       ELSE run' = [run EXCEPT ![p].pc = "measure"] /\ UNCHANGED dest
    /\ UNCHANGED <<server, data, synced, part, faults>>

\* How much of a partial file there is to resume from.
Measure(p) ==
    /\ At(p, "measure")
    /\ LET len == IF run[p].force \/ part = None THEN 0 ELSE Len(data[part])
       IN  run' = [run EXCEPT ![p].pc = "rehash",
                              ![p].have = IF len > KnownSize(p) THEN 0 ELSE len]
    /\ UNCHANGED <<server, data, synced, part, dest, faults>>

RehashNothing(p) ==
    /\ At(p, "rehash")
    /\ run' = [run EXCEPT ![p].pc = "open"]
    /\ UNCHANGED <<server, data, synced, part, dest, faults>>

\* What is resumed from goes through the hasher first.
Rehash(p) ==
    /\ At(p, "rehash")
    /\ IF run[p].have = 0 THEN run' = [run EXCEPT ![p].pc = "open"]
       ELSE IF part = None THEN Fails(p)
       ELSE LET n == AtMost(run[p].have, Len(data[part]))
            IN  run' = [run EXCEPT ![p].pc = "open", ![p].have = n,
                                   ![p].digest = SubSeq(data[part], 1, n)]
    /\ UNCHANGED <<server, data, synced, part, dest, faults>>

\* Open or create the partial file, cut or extend it to what was hashed.
OpenPart(p, f) ==
    /\ At(p, "open")
    /\ IF part = None THEN Unused(f) ELSE f = part
    /\ LET n == run[p].have
           old == IF part = None THEN <<>> ELSE data[f]
       IN  /\ data' = [data EXCEPT ![f] = SetLen(old, n)]
           /\ synced' = [synced EXCEPT ![f] =
                            IF part = None THEN 0 ELSE AtMost(@, n)]
           /\ run' = [run EXCEPT ![p].fd = f, ![p].pos = n, ![p].pc =
                         IF n < KnownSize(p) \/ KnownSize(p) = 0
                         THEN "get" ELSE "sync"]
    /\ part' = f
    /\ UNCHANGED <<server, dest, faults>>

\* GET, from where the partial file ends.  A range that starts past the end of
\* what the server has now is refused.
GetRange(p) ==
    /\ At(p, "get")
    /\ IF run[p].have < Size[server]
       THEN run' = [run EXCEPT ![p].pc = "recv", ![p].stream = server]
       ELSE Fails(p)
    /\ UNCHANGED <<server, data, synced, part, dest, faults>>

GetWholeHashingOn(p) ==
    /\ At(p, "get")
    /\ run[p].have > 0
    /\ data' = [data EXCEPT ![run[p].fd] = <<>>]
    /\ synced' = [synced EXCEPT ![run[p].fd] = 0]
    /\ run' = [run EXCEPT ![p].pc = "recv", ![p].stream = server,
                          ![p].have = 0, ![p].pos = 0]
    /\ UNCHANGED <<server, part, dest, faults>>

\* The server ignored the range: start over with the whole file.
GetWhole(p) ==
    /\ At(p, "get")
    /\ run[p].have > 0
    /\ data' = [data EXCEPT ![run[p].fd] = <<>>]
    /\ synced' = [synced EXCEPT ![run[p].fd] = 0]
    /\ run' = [run EXCEPT ![p].pc = "recv", ![p].stream = server,
                          ![p].have = 0, ![p].pos = 0, ![p].digest = <<>>]
    /\ UNCHANGED <<server, part, dest, faults>>

\* A block arrives: it is written and hashed.
Receive(p) ==
    LET f == run[p].fd
        k == run[p].pos + 1
        b == run[p].stream
    IN  /\ At(p, "recv")
        /\ k <= Size[b]
        /\ data' = [data EXCEPT ![f] = WriteAt(@, k, b)]
        /\ synced' = [synced EXCEPT ![f] = AtMost(@, k - 1)]
        /\ run' = [run EXCEPT ![p].pos = k, ![p].digest = Append(@, b)]
        /\ UNCHANGED <<server, part, dest, faults>>

\* The stream ended, at its end or, cleanly, before it.
StreamEnds(p) ==
    /\ At(p, "recv")
    /\ \/ run[p].pos = Size[run[p].stream] /\ UNCHANGED faults
       \/ /\ run[p].pos < Size[run[p].stream]
          /\ faults < MaxFaults
          /\ faults' = faults + 1
    /\ run' = [run EXCEPT ![p].pc = "sync"]
    /\ UNCHANGED <<server, data, synced, part, dest>>

SyncNothing(p) ==
    /\ At(p, "sync")
    /\ IF KnownSize(p) > 0 /\ Len(data[run[p].fd]) # KnownSize(p)
       THEN Fails(p)
       ELSE run' = [run EXCEPT ![p].pc = "verify"]
    /\ UNCHANGED <<server, data, synced, part, dest, faults>>

\* sync_all, and the first check: the length.
Sync(p) ==
    /\ At(p, "sync")
    /\ synced' = [synced EXCEPT ![run[p].fd] = Len(data[run[p].fd])]
    /\ IF KnownSize(p) > 0 /\ Len(data[run[p].fd]) # KnownSize(p)
       THEN Fails(p)
       ELSE run' = [run EXCEPT ![p].pc = "verify"]
    /\ UNCHANGED <<server, data, part, dest, faults>>

\* The other two: the hash of what was received, and the tensor table of what
\* the partial file's name leads to.
Verify(p) ==
    /\ At(p, "verify")
    /\ IF run[p].verify => /\ PublishesHash => HashIs(p, run[p].digest)
                           /\ part # None /\ Parses(data[part])
       THEN run' = [run EXCEPT ![p].pc = "rename"] ELSE Fails(p)
    /\ UNCHANGED <<server, data, synced, part, dest, faults>>

\* The partial file takes its name.
Rename(p) ==
    /\ At(p, "rename")
    /\ IF part = None
       THEN Fails(p) /\ UNCHANGED <<part, dest>>
       ELSE Finish(p, "ok") /\ dest' = part /\ part' = None
    /\ UNCHANGED <<server, data, synced, faults>>

Step(p) ==
    \/ CheckDest(p) \/ AdoptTwin(p) \/ Measure(p) \/ Rehash(p)
    \/ \E f \in Files : OpenPart(p, f)
    \/ GetRange(p) \/ GetWhole(p) \/ Receive(p) \/ StreamEnds(p)
    \/ Sync(p) \/ Verify(p) \/ Rename(p)

-----------------------------------------------------------------------------
(* What goes wrong.                                                        *)

Fault == faults < MaxFaults /\ faults' = faults + 1

\* A request or a read returns an error, or the process is killed.
Stops(p) ==
    /\ Fault
    /\ ~At(p, "idle")
    /\ Fails(p)
    /\ UNCHANGED <<server, data, synced, part, dest>>

\* The file on the server is replaced.
Replaced(v) ==
    /\ Fault
    /\ v \in Versions \ {server}
    /\ server' = v
    /\ UNCHANGED <<data, synced, part, dest, run>>

\* What was not synced is cut off, or reads as zeros, or survived.
AfterPowerLoss(f) ==
    {data[f], SubSeq(data[f], 1, synced[f]),
     SetLen(SubSeq(data[f], 1, synced[f]), Len(data[f]))}

PowerLoss ==
    /\ PowerFails
    /\ Fault
    /\ data' \in [Files -> UNION {AfterPowerLoss(f) : f \in Files}]
    /\ \A f \in Files : data'[f] \in AfterPowerLoss(f)
    /\ synced' = [f \in Files |-> Len(data'[f])]
    /\ run' = [p \in Fetchers |-> [Idle("failed") EXCEPT !.ver = run[p].ver]]
    /\ UNCHANGED <<server, part, dest>>

Next ==
    \/ \E p \in Fetchers, o \in Options, s \in SizeSent : Start(p, o, s)
    \/ \E p \in Fetchers : Step(p)
    \/ \E p \in Fetchers : Stops(p)
    \/ \E v \in Versions : Replaced(v)
    \/ PowerLoss

\* A process keeps running, the server keeps answering, and the user keeps
\* running the command.
Fairness ==
    \A p \in Fetchers :
        /\ WF_vars(Step(p))
        /\ WF_vars(\E o \in Options, s \in SizeSent : Start(p, o, s))

Spec == Init /\ [][Next]_vars
FairSpec == Spec /\ Fairness

-----------------------------------------------------------------------------
Blocks == Versions \union {Hole}
OpenFile(p) == run[p].pc \in {"get", "recv", "sync", "verify", "rename"}

\* Every variable stays within its declared range, and a process has a file
\* open exactly while it transfers.
TypeOK ==
    /\ server \in Versions
    /\ data \in [Files -> Seq(Blocks)]
    /\ synced \in [Files -> Nat]
    /\ part \in Files \union {None} /\ dest \in Files \union {None}
    /\ faults \in 0..MaxFaults
    /\ run \in [Fetchers ->
          [pc : {"idle", "dest", "twin", "measure", "rehash", "open", "get",
                 "recv", "sync", "verify", "rename"},
           force : BOOLEAN, verify : BOOLEAN, adopt : BOOLEAN,
           ver : Versions \union {None}, sized : BOOLEAN, have : Nat,
           fd : Files \union {None},
           pos : Nat, digest : Seq(Blocks), stream : Versions \union {None},
           result : {"none", "ok", "failed"}]]
    /\ \A p \in Fetchers : run[p].fd # None <=> OpenFile(p)

\* models.md: "Nothing is called finished until three things agree", so that
\* "an interrupted fetch can never be mistaken for a complete one": whatever
\* has the finished name is, block for block, a version of the remote file.
FinishedIsWhole ==
    dest # None => \E v \in Versions : data[dest] = Whole(v)

\* The hash is taken of the stream, never of the file; still it is the hash of
\* what the file holds, resumed parts and restarts included.
HashedIsWritten ==
    \A p \in Fetchers : OpenFile(p) => data[run[p].fd] = run[p].digest

\* fetch() returns Ok only if the version that HEAD described is there under
\* the finished name, whether it was found, adopted or downloaded.
OkMeansThere ==
    \A p \in Fetchers :
        run[p].result = "ok" => dest # None /\ HashIs(p, data[dest])

\* The version a file is the whole of, or Hole.
Holds(s) == IF \E v \in Versions : s = Whole(v) THEN CHOOSE v \in Versions : s = Whole(v) ELSE Hole

Finished == IF dest = None THEN None ELSE Holds(data[dest])
Asked == [p \in Fetchers |-> IF At(p, "idle") THEN None ELSE run[p].ver]
Forced == [p \in Fetchers |-> run[p].force]
Answer == [p \in Fetchers |-> run[p].result]

Promise == INSTANCE Download WITH
    finished <- Finished, asked <- Asked, forced <- Forced, answer <- Answer

\* One fetch at a time cannot be told from a download that happens at one stroke:
\* whatever is killed, cut off or lost in between, the finished name goes from
\* nothing, or from what --force gave up, to the whole version the call asked for,
\* and Ok is answered then and only then.
ImplementsDownload == Promise!Spec

\* The partial file is a beginning of what the server has, and nothing else
\* is there under the finished name.
Resumable ==
    /\ part # None => \E n \in 0..Size[server] :
                          data[part] = SubSeq(Whole(server), 1, n)
    /\ dest # None => data[dest] = Whole(server)

\* models.md: "Transfers resume -- interrupt one, run the same command again":
\* once things stop going wrong, whatever honest beginning they left behind is
\* completed by running the command again, and never refused.
RetriesFinish ==
    <>[]Resumable => <>(dest # None /\ data[dest] = Whole(server))
=============================================================================
