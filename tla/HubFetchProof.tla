--------------------------- MODULE HubFetchProof ----------------------------
(***************************************************************************)
(* What one fetch at a time leaves under the finished name, for every set  *)
(* of versions and sizes, interrupted, resumed and losing power any number *)
(* of times, when the hash is published and every run verifies.            *)
(***************************************************************************)
EXTENDS HubFetch, SequenceTheorems, TLAPS

OneFetch ==
    /\ \A p, q \in Fetchers : p = q
    /\ PublishesHash
    /\ \A o \in Options : o.verify

RunRecord ==
    [pc : {"idle", "dest", "twin", "measure", "rehash", "open", "get",
           "recv", "sync", "verify", "rename"},
     force : BOOLEAN, verify : BOOLEAN, adopt : BOOLEAN,
     ver : Versions \union {None}, sized : BOOLEAN, have : Nat,
     fd : Files \union {None},
     pos : Nat, digest : Seq(Blocks), stream : Versions \union {None},
     result : {"none", "ok", "failed"}]

\* The call in progress, against the partial file.
CallInv(p) ==
    LET r == run[p]
    IN  /\ r.pc # "idle" => r.verify /\ r.ver \in Versions /\ r.result = "none"
        /\ r.pc \in {"dest", "twin", "measure", "rehash"} => r.digest = <<>>
        /\ (r.pc \in {"rehash", "open"} /\ r.have > 0) =>
              part # None /\ r.have <= Len(data[part])
        /\ r.pc = "open" =>
              r.digest = IF part = None THEN <<>>
                         ELSE SubSeq(data[part], 1, r.have)
        /\ r.pc \in {"get", "recv"} => r.pos = Len(r.digest)
        /\ r.pc = "recv" => r.stream \in Versions
        /\ r.fd # None => r.fd = part
        /\ r.pc \in {"verify", "rename"} => synced[r.fd] = Len(data[r.fd])
        /\ r.pc = "rename" => data[r.fd] = Whole(r.ver)

\* The directory: three files that are never one another, but for the twin
\* and the finished one; what is finished is on the disk.
FileInv ==
    /\ part # None => part \notin {TwinFile, dest}
    /\ data[TwinFile] = IF TwinVersion # None THEN Whole(TwinVersion) ELSE <<>>
    /\ synced[TwinFile] = Len(data[TwinFile])
    /\ \A f \in Files : synced[f] <= Len(data[f])
    /\ dest # None => synced[dest] = Len(data[dest])
    /\ FinishedIsWhole

IInv ==
    /\ TypeOK
    /\ FileInv
    /\ \A p \in Fetchers : CallInv(p)
    /\ HashedIsWritten
    /\ OkMeansThere

-----------------------------------------------------------------------------
\* Facts about file contents.

LEMMA WholeType ==
    ASSUME NEW v \in Versions
    PROVE  Whole(v) \in Seq(Blocks) /\ Len(Whole(v)) = Size[v] /\ Size[v] \in Nat
<1>1. Size[v] \in Nat
  BY FetchAssumption
<1>2. Whole(v) \in [1..Size[v] -> Blocks]
  BY DEF Whole, Blocks
<1> QED
  BY <1>1, <1>2

LEMMA SetLenType ==
    ASSUME NEW s \in Seq(Blocks), NEW n \in Nat
    PROVE  SetLen(s, n) \in Seq(Blocks) /\ Len(SetLen(s, n)) = n
<1>1. \A i \in 1..Len(s) : s[i] \in Blocks
  BY ElementOfSeq
<1>2. SetLen(s, n) \in [1..n -> Blocks]
  BY <1>1, LenProperties DEF SetLen, Blocks
<1> QED
  BY <1>2

LEMMA PrefixType ==
    ASSUME NEW s \in Seq(Blocks), NEW n \in 0..Len(s)
    PROVE  /\ SubSeq(s, 1, n) \in Seq(Blocks) /\ Len(SubSeq(s, 1, n)) = n
           /\ \A i \in 1..n : SubSeq(s, 1, n)[i] = s[i]
<1>1. Len(s) \in Nat
  BY LenProperties
<1>2. \A i \in 1..n : s[i] \in Blocks
  BY <1>1, ElementOfSeq
<1> QED
  BY <1>1, <1>2, SubSeqProperties

LEMMA SetLenCuts ==
    ASSUME NEW s \in Seq(Blocks), NEW n \in 0..Len(s)
    PROVE  SetLen(s, n) = SubSeq(s, 1, n)
<1>1. Len(s) \in Nat
  BY LenProperties
<1>2. SetLen(s, n) \in Seq(Blocks) /\ Len(SetLen(s, n)) = n
  BY <1>1, SetLenType
<1>3. \A i \in 1..n : SetLen(s, n)[i] = s[i]
  BY <1>1 DEF SetLen
<1> QED
  BY <1>2, <1>3, PrefixType, SeqEqual

LEMMA WholePrefix ==
    ASSUME NEW s \in Seq(Blocks)
    PROVE  SubSeq(s, 1, Len(s)) = s
BY LenProperties, SubSeqProperties

LEMMA WriteAtEnd ==
    ASSUME NEW s \in Seq(Blocks), NEW b \in Blocks
    PROVE  WriteAt(s, Len(s) + 1, b) = Append(s, b)
<1> DEFINE w == WriteAt(s, Len(s) + 1, b)
<1>1. Len(s) \in Nat
  BY LenProperties
<1>2. w = [i \in 1..(Len(s) + 1) |-> IF i = Len(s) + 1 THEN b ELSE s[i]]
  BY <1>1 DEF WriteAt
<1>3. \A i \in 1..Len(s) : s[i] \in Blocks
  BY ElementOfSeq
<1>4. w \in [1..(Len(s) + 1) -> Blocks]
  BY <1>1, <1>2, <1>3
<1>5. w \in Seq(Blocks) /\ Len(w) = Len(s) + 1
  BY <1>1, <1>4
<1>6. \A i \in 1..(Len(s) + 1) : w[i] = Append(s, b)[i]
  BY <1>1, <1>2, AppendProperties
<1> QED
  BY <1>5, <1>6, AppendProperties, SeqEqual

\* What has been synced survives as it is, and what has not is still blocks.
LEMMA SurvivesPowerLoss ==
    ASSUME NEW f \in Files, data[f] \in Seq(Blocks), synced[f] \in Nat,
           synced[f] <= Len(data[f])
    PROVE  /\ AfterPowerLoss(f) \subseteq Seq(Blocks)
           /\ synced[f] = Len(data[f]) => AfterPowerLoss(f) = {data[f]}
<1> DEFINE s == data[f]
           c == SubSeq(s, 1, synced[f])
<1>1. Len(s) \in Nat
  BY LenProperties
<1>2. c \in Seq(Blocks)
  BY <1>1, PrefixType
<1>3. SetLen(c, Len(s)) \in Seq(Blocks)
  BY <1>1, <1>2, SetLenType
<1>4. ASSUME synced[f] = Len(s) PROVE c = s
  BY <1>4, WholePrefix
<1>5. SetLen(s, Len(s)) = s
  <2>1. Len(s) \in 0..Len(s)
    BY <1>1
  <2> QED
    BY <2>1, SetLenCuts, WholePrefix
<1>6. AfterPowerLoss(f) = {s, c, SetLen(c, Len(s))}
  BY DEF AfterPowerLoss
<1> QED
  BY <1>2, <1>3, <1>4, <1>5, <1>6

-----------------------------------------------------------------------------
\* Each step keeps the invariant.

LEMMA Alone ==
    ASSUME OneFetch, NEW p \in Fetchers
    PROVE  Fetchers = {p}
BY DEF OneFetch

\* The initial directory has nothing in it but the twin.
LEMMA InitHolds ==
    ASSUME Init
    PROVE  IInv
<1>1. \A f \in Files : data[f] \in Seq(Blocks) /\ Len(data[f]) \in Nat
  <2>1. \A f \in Files : data[f] = <<>> \/ \E v \in Versions : data[f] = Whole(v)
    BY FetchAssumption DEF Init
  <2>2. ASSUME NEW f \in Files PROVE data[f] \in Seq(Blocks)
    BY <2>1, WholeType, EmptySeq
  <2> QED
    BY <2>2, LenProperties
<1>2. data \in [Files -> Seq(Blocks)] /\ synced \in [Files -> Nat]
  BY <1>1 DEF Init
<1>3. TypeOK
  BY <1>2, FetchAssumption, EmptySeq DEF Init, TypeOK, Idle, OpenFile
<1>4. FileInv
  BY <1>1, FetchAssumption DEF Init, FileInv, FinishedIsWhole
<1>5. \A p \in Fetchers : CallInv(p)
  BY DEF Init, CallInv, Idle, None
<1>6. HashedIsWritten /\ OkMeansThere
  BY DEF Init, HashedIsWritten, OkMeansThere, Idle, OpenFile
<1> QED
  BY <1>3, <1>4, <1>5, <1>6 DEF IInv

LEMMA CallTyped ==
    ASSUME IInv, NEW p \in Fetchers
    PROVE  run[p] \in RunRecord
BY DEF IInv, TypeOK, RunRecord

LEMMA CallBecomes ==
    ASSUME IInv, NEW p \in Fetchers, NEW r \in RunRecord,
           run' = [run EXCEPT ![p] = r]
    PROVE  run' \in [Fetchers -> RunRecord] /\ run'[p] = r
BY DEF IInv, TypeOK, RunRecord

LEMMA CallRuns ==
    ASSUME IInv, NEW p \in Fetchers, run[p].pc # "idle"
    PROVE  /\ run[p].verify /\ run[p].ver \in Versions
           /\ run[p].result = "none"
BY DEF IInv, CallInv

\* What is open is the partial file, and what was hashed is what it holds.
LEMMA OpenIsPart ==
    ASSUME IInv, NEW p \in Fetchers, OpenFile(p)
    PROVE  /\ run[p].fd = part /\ part \in Files
           /\ part # TwinFile /\ part # dest
           /\ data[part] = run[p].digest /\ data[part] \in Seq(Blocks)
           /\ synced[part] \in 0..Len(data[part])
<1>1. run[p].fd # None /\ run[p].fd = part
  BY DEF IInv, TypeOK, CallInv
<1>2. part \in Files
  BY <1>1 DEF IInv, TypeOK
<1> QED
  BY <1>1, <1>2 DEF IInv, TypeOK, FileInv, HashedIsWritten

\* A step that leaves the directory alone is known by what it makes of the
\* call in progress.
LEMMA DirectoryLeftAlone ==
    ASSUME OneFetch, IInv, NEW p \in Fetchers,
           UNCHANGED <<data, synced, part, dest>>,
           server' \in Versions, faults' \in 0..MaxFaults,
           run' \in [Fetchers -> RunRecord],
           run'[p].fd # None <=> OpenFile(p)',
           CallInv(p)',
           OpenFile(p)' => data[run'[p].fd] = run'[p].digest,
           run'[p].result = "ok" => dest # None /\ HashIs(p, data[dest])'
    PROVE  IInv'
<1>1. Fetchers = {p}
  BY Alone
<1>2. TypeOK'
  BY <1>1 DEF IInv, TypeOK, RunRecord
<1>3. FileInv'
  BY DEF IInv, FileInv, FinishedIsWhole
<1>4. (HashedIsWritten /\ OkMeansThere)'
  BY <1>1 DEF HashedIsWritten, OkMeansThere
<1> QED
  BY <1>1, <1>2, <1>3, <1>4 DEF IInv

\* A call that gives up closes what it had open.
LEMMA FailsHolds ==
    ASSUME OneFetch, IInv, NEW p \in Fetchers, Fails(p),
           UNCHANGED <<server, data, synced, part, dest>>,
           faults' \in 0..MaxFaults
    PROVE  IInv'
<1>1. run' = [run EXCEPT ![p] = [Idle("failed") EXCEPT !.ver = run[p].ver]]
  BY DEF Fails, Finish
<1>2. run' \in [Fetchers -> RunRecord]
  BY <1>1, EmptySeq DEF IInv, TypeOK, RunRecord, Idle
<1>3. run'[p].fd = None /\ run'[p].pc = "idle" /\ run'[p].result = "failed"
  BY <1>1 DEF IInv, TypeOK, Idle
<1>4. CallInv(p)'
  BY <1>3 DEF CallInv
<1>5. ~OpenFile(p)'
  BY <1>3 DEF OpenFile
<1>6. run'[p].fd # None <=> OpenFile(p)'
  BY <1>3, <1>5
<1>7. server' \in Versions
  BY DEF IInv, TypeOK
<1>8. run'[p].result # "ok"
  BY <1>3
<1> QED
  BY <1>2, <1>4, <1>5, <1>6, <1>7, <1>8, DirectoryLeftAlone

\* The steps before the transfer.
LEMMA StartHolds ==
    ASSUME OneFetch, IInv, NEW p \in Fetchers, NEW o \in Options,
           NEW s \in SizeSent, Start(p, o, s)
    PROVE  IInv'
<1>1. /\ o \in [force : BOOLEAN, verify : BOOLEAN, adopt : BOOLEAN] /\ o.verify
      /\ s \in BOOLEAN
  BY FetchAssumption DEF OneFetch
<1>2. run' \in [Fetchers -> RunRecord]
  BY <1>1, EmptySeq DEF Start, IInv, TypeOK, RunRecord, Idle
<1>3. /\ run'[p].pc = "dest" /\ run'[p].verify /\ run'[p].ver = server
      /\ run'[p].result = "none" /\ run'[p].fd = None /\ run'[p].digest = <<>>
  BY <1>1 DEF Start, IInv, TypeOK, Idle
<1>4. CallInv(p)'
  BY <1>3 DEF CallInv, IInv, TypeOK, Start
<1>5. ~OpenFile(p)'
  BY <1>3 DEF OpenFile
<1> QED
  BY <1>2, <1>3, <1>4, <1>5, DirectoryLeftAlone DEF Start, IInv, TypeOK

LEMMA CheckDestHolds ==
    ASSUME OneFetch, IInv, NEW p \in Fetchers, CheckDest(p)
    PROVE  IInv'
<1>1. CASE dest = None \/ run[p].force
  <2> DEFINE r == [run[p] EXCEPT !.pc = "twin"]
  <2>1. run' = [run EXCEPT ![p] = r] /\ r \in RunRecord
    BY <1>1, CallTyped DEF CheckDest, RunRecord
  <2>2. run' \in [Fetchers -> RunRecord] /\ run'[p] = r
    BY <2>1, CallBecomes
  <2>3. /\ run[p].pc = "dest" /\ run[p].fd = None /\ run[p].verify
        /\ run[p].ver \in Versions /\ run[p].result = "none"
        /\ run[p].digest = <<>>
    BY DEF CheckDest, At, IInv, TypeOK, OpenFile, CallInv
  <2>5. /\ run'[p].pc = "twin" /\ run'[p].fd = None /\ run'[p].verify
        /\ run'[p].ver \in Versions /\ run'[p].result = "none"
        /\ run'[p].digest = <<>>
    BY <2>2, <2>3, CallTyped DEF RunRecord
  <2>6. CallInv(p)'
    BY <2>5 DEF CallInv
  <2>7. ~OpenFile(p)'
    BY <2>5 DEF OpenFile
  <2> QED
    BY <2>2, <2>5, <2>6, <2>7, DirectoryLeftAlone DEF CheckDest, IInv, TypeOK
<1>2. CASE Fails(p)
  BY <1>2, FailsHolds DEF CheckDest, IInv, TypeOK
<1>3. CASE /\ Finish(p, "ok") /\ dest # None
           /\ (run[p].verify /\ PublishesHash) => HashIs(p, data[dest])
  <2>1. run' = [run EXCEPT ![p] = [Idle("ok") EXCEPT !.ver = run[p].ver]]
    BY <1>3 DEF Finish
  <2>2. run' \in [Fetchers -> RunRecord]
    BY <2>1, EmptySeq DEF IInv, TypeOK, RunRecord, Idle
  <2>3. run'[p].fd = None /\ run'[p].pc = "idle" /\ run'[p].ver = run[p].ver
    BY <2>1 DEF IInv, TypeOK, Idle
  <2>4. CallInv(p)'
    BY <2>3 DEF CallInv
  <2>5. ~OpenFile(p)'
    BY <2>3 DEF OpenFile
  <2>6. run[p].verify
    BY DEF CheckDest, At, IInv, CallInv
  <2>7. HashIs(p, data[dest])'
    BY <1>3, <2>3, <2>6 DEF HashIs, OneFetch, CheckDest
  <2> QED
    BY <1>3, <2>2, <2>3, <2>4, <2>5, <2>7, DirectoryLeftAlone
       DEF CheckDest, IInv, TypeOK
<1> QED
  BY <1>1, <1>2, <1>3 DEF CheckDest

LEMMA MeasureHolds ==
    ASSUME OneFetch, IInv, NEW p \in Fetchers, Measure(p)
    PROVE  IInv'
<1>1. PICK h : /\ run' = [run EXCEPT ![p].pc = "rehash", ![p].have = h]
               /\ h = 0 \/ (part # None /\ h = Len(data[part]))
  BY DEF Measure
<1> DEFINE r == [run[p] EXCEPT !.pc = "rehash", !.have = h]
<1>2. h \in Nat
  BY <1>1, LenProperties DEF IInv, TypeOK
<1>3. /\ run[p].pc = "measure" /\ run[p].fd = None /\ run[p].verify
      /\ run[p].ver \in Versions /\ run[p].result = "none"
      /\ run[p].digest = <<>>
  BY DEF Measure, At, IInv, TypeOK, OpenFile, CallInv
<1>4. run' = [run EXCEPT ![p] = r] /\ r \in RunRecord
  BY <1>1, <1>2, CallTyped DEF RunRecord
<1>5. run' \in [Fetchers -> RunRecord] /\ run'[p] = r
  BY <1>4, CallBecomes
<1>6. /\ run'[p].pc = "rehash" /\ run'[p].fd = None /\ run'[p].verify
      /\ run'[p].ver \in Versions /\ run'[p].result = "none"
      /\ run'[p].digest = <<>> /\ run'[p].have = h
  BY <1>3, <1>5, CallTyped DEF RunRecord
<1>7. CallInv(p)'
  BY <1>1, <1>2, <1>6 DEF CallInv, Measure
<1>8. ~OpenFile(p)'
  BY <1>6 DEF OpenFile
<1> QED
  BY <1>5, <1>6, <1>7, <1>8, DirectoryLeftAlone DEF Measure, IInv, TypeOK

LEMMA RehashHolds ==
    ASSUME OneFetch, IInv, NEW p \in Fetchers, Rehash(p)
    PROVE  IInv'
<1>1. run[p].pc = "rehash" /\ run[p].fd = None /\ run[p].digest = <<>>
  BY DEF Rehash, At, IInv, TypeOK, OpenFile, CallInv
<1>2. run[p].verify /\ run[p].ver \in Versions /\ run[p].result = "none"
  BY <1>1, CallRuns
<1>3. run[p].have \in Nat
  BY CallTyped DEF RunRecord
<1>4. CASE run[p].have # 0 /\ part = None
  BY <1>4, FailsHolds DEF Rehash, IInv, TypeOK
<1>5. CASE run[p].have = 0 \/ part # None
  <2>1. part # None => data[part] \in Seq(Blocks) /\ Len(data[part]) \in Nat
    BY LenProperties DEF IInv, TypeOK
  <2>2. run[p].have # 0 => part # None /\ run[p].have <= Len(data[part])
    BY <1>1, <1>3 DEF IInv, CallInv
  <2> DEFINE d == IF run[p].have = 0 THEN <<>>
                  ELSE SubSeq(data[part], 1, run[p].have)
             r == [run[p] EXCEPT !.pc = "open", !.digest = d]
  <2>3. d \in Seq(Blocks)
    BY <1>3, <2>1, <2>2, PrefixType, EmptySeq
  <2>4. run' = [run EXCEPT ![p] = r] /\ r \in RunRecord
    <3>1. CASE run[p].have = 0
      <4>1. r = [run[p] EXCEPT !.pc = "open"]
        BY <1>1, <3>1, CallTyped DEF RunRecord
      <4> QED
        BY <3>1, <4>1, <2>3, CallTyped DEF Rehash, RunRecord
    <3>2. CASE run[p].have # 0
      <4>1. AtMost(run[p].have, Len(data[part])) = run[p].have
        BY <3>2, <2>2 DEF AtMost
      <4>2. r = [run[p] EXCEPT !.pc = "open", !.have = run[p].have,
                               !.digest = SubSeq(data[part], 1, run[p].have)]
        BY <3>2, CallTyped DEF RunRecord
      <4>3. run' = [run EXCEPT ![p] = r]
        BY <1>5, <3>2, <4>1, <4>2 DEF Rehash
      <4> QED
        BY <4>3, <2>3, CallTyped DEF RunRecord
    <3> QED
      BY <3>1, <3>2
  <2>5. run' \in [Fetchers -> RunRecord] /\ run'[p] = r
    BY <2>4, CallBecomes
  <2>6. /\ run'[p].pc = "open" /\ run'[p].fd = None /\ run'[p].verify
        /\ run'[p].ver \in Versions /\ run'[p].result = "none"
        /\ run'[p].digest = d /\ run'[p].have = run[p].have
    BY <1>1, <1>2, <2>5, CallTyped DEF RunRecord
  <2>7. d = IF part = None THEN <<>> ELSE SubSeq(data[part], 1, run[p].have)
    <3>1. CASE run[p].have # 0
      BY <2>2, <3>1
    <3>2. CASE run[p].have = 0
      <4>1. SubSeq(data[part], 1, 0) = <<>>
        BY SubSeqEmpty
      <4> QED
        BY <3>2, <4>1
    <3> QED
      BY <3>1, <3>2
  <2>8. CallInv(p)'
    BY <2>2, <2>6, <2>7 DEF CallInv, Rehash
  <2>9. ~OpenFile(p)'
    BY <2>6 DEF OpenFile
  <2> QED
    BY <2>5, <2>6, <2>8, <2>9, DirectoryLeftAlone DEF Rehash, IInv, TypeOK
<1> QED
  BY <1>4, <1>5

\* One file that is neither the twin nor the finished one changes.
LEMMA PartChanges ==
    ASSUME IInv, NEW f \in Files, f # TwinFile, f # dest,
           NEW s \in Seq(Blocks), NEW n \in 0..Len(s),
           data' = [data EXCEPT ![f] = s], synced' = [synced EXCEPT ![f] = n],
           part' = f, UNCHANGED dest
    PROVE  /\ FileInv'
           /\ data' \in [Files -> Seq(Blocks)] /\ synced' \in [Files -> Nat]
           /\ part' \in Files /\ data'[f] = s /\ synced'[f] = n
<1>1. Len(s) \in Nat
  BY LenProperties
<1>2. data' \in [Files -> Seq(Blocks)] /\ synced' \in [Files -> Nat]
  BY <1>1 DEF IInv, TypeOK
<1>3. data'[f] = s /\ synced'[f] = n
  BY DEF IInv, TypeOK
<1>4. \A g \in Files \ {f} : data'[g] = data[g] /\ synced'[g] = synced[g]
  BY DEF IInv, TypeOK
<1>5. \A g \in Files : synced'[g] <= Len(data'[g])
  BY <1>1, <1>3, <1>4 DEF IInv, FileInv
<1>6. TwinFile \in Files
  BY FetchAssumption
<1>7. dest # None => data'[dest] = data[dest] /\ synced'[dest] = synced[dest]
  BY <1>4 DEF IInv, TypeOK
<1> QED
  BY <1>2, <1>3, <1>4, <1>5, <1>6, <1>7 DEF IInv, FileInv, FinishedIsWhole

\* A step that writes the partial file, when what it wrote it hashed.
LEMMA WrittenIsHashed ==
    ASSUME OneFetch, IInv, NEW p \in Fetchers,
           NEW f \in Files, f # TwinFile, f # dest,
           NEW s \in Seq(Blocks), NEW n \in 0..Len(s),
           data' = [data EXCEPT ![f] = s], synced' = [synced EXCEPT ![f] = n],
           part' = f, UNCHANGED <<server, dest, faults>>,
           run' \in [Fetchers -> RunRecord],
           run'[p].fd = f, run'[p].digest = s, run'[p].result = "none",
           OpenFile(p)', CallInv(p)'
    PROVE  IInv'
<1>1. Fetchers = {p}
  BY Alone
<1>2. /\ FileInv'
      /\ data' \in [Files -> Seq(Blocks)] /\ synced' \in [Files -> Nat]
      /\ part' \in Files /\ data'[f] = s
  BY PartChanges
<1>3. f # None
  BY FetchAssumption
<1>4. TypeOK'
  BY <1>1, <1>2, <1>3 DEF IInv, TypeOK, RunRecord
<1>5. (HashedIsWritten /\ OkMeansThere)'
  BY <1>1, <1>2 DEF HashedIsWritten, OkMeansThere
<1> QED
  BY <1>1, <1>2, <1>4, <1>5 DEF IInv

LEMMA OpenPartHolds ==
    ASSUME OneFetch, IInv, NEW p \in Fetchers, NEW f \in Files, OpenPart(p, f)
    PROVE  IInv'
<1>1. run[p].pc = "open"
  BY DEF OpenPart, At
<1>2. run[p].verify /\ run[p].ver \in Versions /\ run[p].result = "none"
  BY <1>1, CallRuns
<1> DEFINE n == run[p].have
           old == IF part = None THEN <<>> ELSE data[f]
           pc == IF n < KnownSize(p) \/ KnownSize(p) = 0 THEN "get" ELSE "sync"
           r == [run[p] EXCEPT !.fd = f, !.pos = n, !.pc = pc]
           m == IF part = None THEN 0 ELSE AtMost(synced[f], n)
<1>3. f # TwinFile /\ f # dest /\ (part # None => f = part)
  BY DEF OpenPart, Unused, IInv, FileInv
<1>4. old \in Seq(Blocks) /\ n \in 0..Len(old)
  <2>1. n \in Nat /\ Len(<<>>) = 0
    BY CallTyped, EmptySeq DEF RunRecord
  <2>2. n # 0 => part # None /\ n <= Len(data[part])
    BY <1>1, <2>1 DEF IInv, CallInv
  <2>3. old \in Seq(Blocks)
    BY EmptySeq DEF IInv, TypeOK
  <2>4. Len(old) \in Nat
    BY <2>3, LenProperties
  <2> QED
    BY <1>3, <2>1, <2>2, <2>3, <2>4
<1>5. SetLen(old, n) = run[p].digest
  <2>1. CASE part = None
    <3>1. n = 0 /\ run[p].digest = <<>>
      BY <1>1, <2>1, CallTyped DEF IInv, CallInv, RunRecord
    <3>2. SubSeq(old, 1, 0) = <<>>
      BY SubSeqEmpty
    <3> QED
      BY <3>1, <3>2, <1>4, SetLenCuts
  <2>2. CASE part # None
    <3>1. run[p].digest = SubSeq(data[part], 1, n)
      BY <1>1, <2>2 DEF IInv, CallInv
    <3>2. old = data[part]
      BY <1>3, <2>2
    <3> HIDE DEF old, n
    <3> QED
      BY <3>1, <3>2, <1>4, SetLenCuts
  <2> QED
    BY <2>1, <2>2
<1>6. SetLen(old, n) \in Seq(Blocks) /\ Len(SetLen(old, n)) = n /\ n \in Nat
  <2> HIDE DEF old, n
  <2>1. n \in Nat
    BY <1>4, LenProperties
  <2> QED
    BY <1>4, <2>1, SetLenType
<1>7. m \in 0..n
  BY <1>6 DEF AtMost, IInv, TypeOK
<1>8. run' = [run EXCEPT ![p] = r] /\ r \in RunRecord
  BY <1>6, CallTyped DEF OpenPart, RunRecord
<1>9. run' \in [Fetchers -> RunRecord] /\ run'[p] = r
  BY <1>8, CallBecomes
<1>10. /\ run'[p].pc = pc /\ run'[p].fd = f /\ run'[p].verify
       /\ run'[p].ver \in Versions /\ run'[p].result = "none"
       /\ run'[p].digest = run[p].digest /\ run'[p].pos = n
  BY <1>2, <1>9, CallTyped DEF RunRecord
<1>11. /\ data' = [data EXCEPT ![f] = SetLen(old, n)]
       /\ synced' = [synced EXCEPT ![f] = m]
       /\ part' = f
  BY DEF OpenPart, IInv, TypeOK
<1>12. CallInv(p)'
  BY <1>5, <1>6, <1>10, <1>11 DEF CallInv
<1>13. OpenFile(p)'
  BY <1>10 DEF OpenFile
<1> DEFINE s == SetLen(old, n)
<1>14. /\ s \in Seq(Blocks) /\ m \in 0..Len(s) /\ run'[p].digest = s
       /\ data' = [data EXCEPT ![f] = s]
  BY <1>5, <1>6, <1>7, <1>10, <1>11
<1>15. UNCHANGED <<server, dest, faults>>
  BY DEF OpenPart
<1> HIDE DEF m, n, pc, old, r, s
<1> QED
  BY <1>3, <1>9, <1>10, <1>11, <1>12, <1>13, <1>14, <1>15, WrittenIsHashed

\* The transfer.
LEMMA GetRangeHolds ==
    ASSUME OneFetch, IInv, NEW p \in Fetchers, GetRange(p)
    PROVE  IInv'
<1>1. run[p].pc = "get"
  BY DEF GetRange, At
<1>2. run[p].verify /\ run[p].ver \in Versions /\ run[p].result = "none"
  BY <1>1, CallRuns
<1>3. CASE Fails(p)
  BY <1>3, FailsHolds DEF GetRange, IInv, TypeOK
<1>4. CASE run' = [run EXCEPT ![p].pc = "recv", ![p].stream = server]
  <2> DEFINE r == [run[p] EXCEPT !.pc = "recv", !.stream = server]
  <2>1. run' = [run EXCEPT ![p] = r] /\ r \in RunRecord
    BY <1>4, CallTyped DEF RunRecord, IInv, TypeOK
  <2>2. run' \in [Fetchers -> RunRecord] /\ run'[p] = r
    BY <2>1, CallBecomes
  <2>3. /\ run'[p].pc = "recv" /\ run'[p].fd = run[p].fd /\ run'[p].verify
        /\ run'[p].ver \in Versions /\ run'[p].result = "none"
        /\ run'[p].digest = run[p].digest /\ run'[p].pos = run[p].pos
        /\ run'[p].stream = server
    BY <1>2, <2>2, CallTyped DEF RunRecord
  <2>4. OpenFile(p) /\ OpenFile(p)' /\ run[p].fd # None
    BY <1>1, <2>3 DEF OpenFile, IInv, TypeOK
  <2>5. CallInv(p)'
    BY <1>1, <2>3 DEF CallInv, GetRange, IInv, TypeOK
  <2>6. run'[p].fd # None /\ data[run'[p].fd] = run'[p].digest
    BY <2>3, <2>4 DEF IInv, HashedIsWritten
  <2> QED
    BY <2>2, <2>3, <2>4, <2>5, <2>6, DirectoryLeftAlone
       DEF GetRange, IInv, TypeOK
<1> QED
  BY <1>3, <1>4 DEF GetRange

LEMMA GetWholeHolds ==
    ASSUME OneFetch, IInv, NEW p \in Fetchers, GetWhole(p)
    PROVE  IInv'
<1> DEFINE r == [run[p] EXCEPT !.pc = "recv", !.stream = server,
                               !.have = 0, !.pos = 0, !.digest = <<>>]
<1>1. run[p].pc = "get" /\ OpenFile(p)
  BY DEF GetWhole, At, OpenFile
<1>2. run[p].verify /\ run[p].ver \in Versions /\ run[p].result = "none"
  BY <1>1, CallRuns
<1>3. run[p].fd = part /\ part \in Files /\ part # TwinFile /\ part # dest
  BY <1>1, OpenIsPart
<1>4. run' = [run EXCEPT ![p] = r] /\ r \in RunRecord
  BY EmptySeq, CallTyped DEF GetWhole, RunRecord, IInv, TypeOK
<1>5. run' \in [Fetchers -> RunRecord] /\ run'[p] = r
  BY <1>4, CallBecomes
<1>6. /\ run'[p].pc = "recv" /\ run'[p].fd = part /\ run'[p].verify
      /\ run'[p].ver \in Versions /\ run'[p].result = "none"
      /\ run'[p].digest = <<>> /\ run'[p].pos = 0 /\ run'[p].stream = server
  BY <1>2, <1>3, <1>5, CallTyped DEF RunRecord
<1>7. OpenFile(p)'
  BY <1>6 DEF OpenFile
<1>8. CallInv(p)'
  BY <1>6, EmptySeq DEF CallInv, GetWhole, IInv, TypeOK
<1>9. <<>> \in Seq(Blocks) /\ 0 \in 0..Len(<<>>)
  BY EmptySeq
<1>10. /\ data' = [data EXCEPT ![part] = <<>>]
       /\ synced' = [synced EXCEPT ![part] = 0]
       /\ UNCHANGED <<server, part, dest, faults>>
  BY <1>3 DEF GetWhole
<1> QED
  BY <1>3, <1>5, <1>6, <1>7, <1>8, <1>9, <1>10, WrittenIsHashed

LEMMA ReceiveHolds ==
    ASSUME OneFetch, IInv, NEW p \in Fetchers, Receive(p)
    PROVE  IInv'
<1> DEFINE k == run[p].pos + 1
           b == run[p].stream
           s == Append(data[part], b)
           m == AtMost(synced[part], k - 1)
           r == [run[p] EXCEPT !.pos = k, !.digest = Append(run[p].digest, b)]
<1>1. run[p].pc = "recv" /\ OpenFile(p)
  BY DEF Receive, At, OpenFile
<1>2. run[p].verify /\ run[p].ver \in Versions /\ run[p].result = "none"
  BY <1>1, CallRuns
<1>3. /\ run[p].fd = part /\ part \in Files /\ part # TwinFile /\ part # dest
      /\ data[part] = run[p].digest /\ data[part] \in Seq(Blocks)
      /\ synced[part] \in 0..Len(data[part])
  BY <1>1, OpenIsPart
<1>4. b \in Blocks /\ b \in Versions /\ run[p].pos = Len(data[part])
  BY <1>1, <1>3 DEF IInv, CallInv, Blocks
<1>5. Len(data[part]) \in Nat
  BY <1>3, LenProperties
<1>6. /\ s \in Seq(Blocks) /\ Len(s) = k
      /\ WriteAt(data[part], k, b) = s
  BY <1>3, <1>4, AppendProperties, WriteAtEnd
<1>7. m \in 0..Len(s)
  BY <1>3, <1>4, <1>5, <1>6 DEF AtMost
<1>8. run' = [run EXCEPT ![p] = r] /\ r \in RunRecord
  <2>1. Append(run[p].digest, b) \in Seq(Blocks) /\ k \in Nat
    BY <1>3, <1>4, <1>5, <1>6
  <2>2. r \in RunRecord
    <3> HIDE DEF k, b
    <3> QED
      BY <2>1, CallTyped DEF RunRecord
  <2>3. run' = [run EXCEPT ![p] = r]
    BY DEF Receive
  <2> QED
    BY <2>2, <2>3
<1>9. run' \in [Fetchers -> RunRecord] /\ run'[p] = r
  BY <1>8, CallBecomes
<1>10. /\ run'[p].pc = "recv" /\ run'[p].fd = part /\ run'[p].verify
       /\ run'[p].ver \in Versions /\ run'[p].result = "none"
       /\ run'[p].digest = s /\ run'[p].pos = k /\ run'[p].stream = b
  BY <1>1, <1>2, <1>3, <1>9, CallTyped DEF RunRecord
<1>11. OpenFile(p)'
  BY <1>10 DEF OpenFile
<1>12. /\ data' = [data EXCEPT ![part] = s]
       /\ synced' = [synced EXCEPT ![part] = m]
       /\ UNCHANGED <<server, part, dest, faults>>
  BY <1>3, <1>6 DEF Receive, IInv, TypeOK
<1>13. CallInv(p)'
  BY <1>4, <1>6, <1>10, <1>12 DEF CallInv
<1> HIDE DEF k, b, s, m, r
<1> QED
  BY <1>3, <1>6, <1>7, <1>9, <1>10, <1>11, <1>12, <1>13, WrittenIsHashed

LEMMA StreamEndsHolds ==
    ASSUME OneFetch, IInv, NEW p \in Fetchers, StreamEnds(p)
    PROVE  IInv'
<1> DEFINE r == [run[p] EXCEPT !.pc = "sync"]
<1>1. run[p].pc = "recv" /\ OpenFile(p)
  BY DEF StreamEnds, At, OpenFile
<1>2. run[p].verify /\ run[p].ver \in Versions /\ run[p].result = "none"
  BY <1>1, CallRuns
<1>3. run' = [run EXCEPT ![p] = r] /\ r \in RunRecord
  BY CallTyped DEF StreamEnds, RunRecord
<1>4. run' \in [Fetchers -> RunRecord] /\ run'[p] = r
  BY <1>3, CallBecomes
<1>5. run[p].fd = part /\ part \in Files /\ data[part] = run[p].digest
  BY <1>1, OpenIsPart
<1>6. /\ run'[p].pc = "sync" /\ run'[p].fd = part /\ run'[p].verify
      /\ run'[p].ver \in Versions /\ run'[p].result = "none"
      /\ run'[p].digest = run[p].digest
  BY <1>2, <1>4, <1>5, CallTyped DEF RunRecord
<1>7. OpenFile(p)' /\ run'[p].fd # None
  BY <1>5, <1>6, FetchAssumption DEF OpenFile
<1>8. CallInv(p)'
  BY <1>6 DEF CallInv, StreamEnds
<1>9. server' \in Versions /\ faults' \in 0..MaxFaults
  BY FetchAssumption DEF StreamEnds, IInv, TypeOK
<1> QED
  BY <1>4, <1>5, <1>6, <1>7, <1>8, <1>9, DirectoryLeftAlone DEF StreamEnds

\* The checks, the name, and what goes wrong.
LEMMA SyncHolds ==
    ASSUME OneFetch, IInv, NEW p \in Fetchers, Sync(p)
    PROVE  IInv'
<1>1. run[p].pc = "sync" /\ OpenFile(p)
  BY DEF Sync, At, OpenFile
<1>2. run[p].verify /\ run[p].ver \in Versions /\ run[p].result = "none"
  BY <1>1, CallRuns
<1>3. /\ run[p].fd = part /\ part \in Files /\ part # TwinFile /\ part # dest
      /\ data[part] = run[p].digest /\ data[part] \in Seq(Blocks)
  BY <1>1, OpenIsPart
<1> DEFINE n == Len(data[part])
<1>4. n \in 0..n
  BY <1>3, LenProperties
<1>5. /\ data' = [data EXCEPT ![part] = data[part]]
      /\ synced' = [synced EXCEPT ![part] = n]
      /\ UNCHANGED <<server, part, dest, faults>>
  BY <1>3 DEF Sync, IInv, TypeOK
<1>6. CASE Fails(p)
  <2>1. /\ FileInv'
        /\ data' \in [Files -> Seq(Blocks)] /\ synced' \in [Files -> Nat]
    BY <1>3, <1>4, <1>5, PartChanges
  <2>2. run' = [run EXCEPT ![p] = [Idle("failed") EXCEPT !.ver = run[p].ver]]
    BY <1>6 DEF Fails, Finish
  <2>3. run' \in [Fetchers -> RunRecord]
    BY <2>2, EmptySeq DEF IInv, TypeOK, RunRecord, Idle
  <2>4. run'[p].fd = None /\ run'[p].pc = "idle" /\ run'[p].result = "failed"
    BY <2>2 DEF IInv, TypeOK, Idle
  <2>5. Fetchers = {p}
    BY Alone
  <2>6. CallInv(p)' /\ ~OpenFile(p)'
    BY <2>4 DEF CallInv, OpenFile
  <2>7. TypeOK'
    BY <1>5, <2>1, <2>3, <2>4, <2>5, <2>6 DEF IInv, TypeOK, RunRecord
  <2>8. (HashedIsWritten /\ OkMeansThere)'
    BY <2>4, <2>5, <2>6 DEF HashedIsWritten, OkMeansThere
  <2> QED
    BY <2>1, <2>5, <2>6, <2>7, <2>8 DEF IInv
<1>7. CASE run' = [run EXCEPT ![p].pc = "verify"]
  <2> DEFINE r == [run[p] EXCEPT !.pc = "verify"]
  <2>1. run' = [run EXCEPT ![p] = r] /\ r \in RunRecord
    BY <1>7, CallTyped DEF RunRecord
  <2>2. run' \in [Fetchers -> RunRecord] /\ run'[p] = r
    BY <2>1, CallBecomes
  <2>3. /\ run'[p].pc = "verify" /\ run'[p].fd = part /\ run'[p].verify
        /\ run'[p].ver \in Versions /\ run'[p].result = "none"
        /\ run'[p].digest = data[part]
    BY <1>2, <1>3, <2>2, CallTyped DEF RunRecord
  <2>4. OpenFile(p)'
    BY <2>3 DEF OpenFile
  <2>5. synced'[part] = Len(data'[part])
    BY <1>3, <1>5 DEF IInv, TypeOK
  <2>6. CallInv(p)'
    BY <1>5, <2>3, <2>5 DEF CallInv
  <2> QED
    BY <1>3, <1>4, <1>5, <2>2, <2>3, <2>4, <2>6, WrittenIsHashed
<1> QED
  BY <1>6, <1>7 DEF Sync

LEMMA VerifyHolds ==
    ASSUME OneFetch, IInv, NEW p \in Fetchers, Verify(p)
    PROVE  IInv'
<1>1. run[p].pc = "verify" /\ OpenFile(p)
  BY DEF Verify, At, OpenFile
<1>2. run[p].verify /\ run[p].ver \in Versions /\ run[p].result = "none"
  BY <1>1, CallRuns
<1>3. run[p].fd = part /\ part \in Files /\ data[part] = run[p].digest
  BY <1>1, OpenIsPart
<1>4. CASE Fails(p)
  BY <1>4, FailsHolds DEF Verify, IInv, TypeOK
<1>5. CASE /\ run' = [run EXCEPT ![p].pc = "rename"]
           /\ PublishesHash => HashIs(p, run[p].digest)
  <2> DEFINE r == [run[p] EXCEPT !.pc = "rename"]
  <2>1. run' = [run EXCEPT ![p] = r] /\ r \in RunRecord
    BY <1>5, CallTyped DEF RunRecord
  <2>2. run' \in [Fetchers -> RunRecord] /\ run'[p] = r
    BY <2>1, CallBecomes
  <2>3. /\ run'[p].pc = "rename" /\ run'[p].fd = part /\ run'[p].verify
        /\ run'[p].ver = run[p].ver /\ run'[p].result = "none"
        /\ run'[p].digest = data[part]
    BY <1>2, <1>3, <2>2, CallTyped DEF RunRecord
  <2>4. data[part] = Whole(run[p].ver) /\ synced[part] = Len(data[part])
    BY <1>1, <1>3, <1>5 DEF OneFetch, HashIs, IInv, CallInv
  <2>5. OpenFile(p)' /\ run'[p].fd # None
    BY <1>3, <2>3, FetchAssumption DEF OpenFile
  <2>6. CallInv(p)'
    BY <1>2, <2>3, <2>4 DEF CallInv, Verify
  <2> QED
    BY <2>2, <2>3, <2>5, <2>6, DirectoryLeftAlone DEF Verify, IInv, TypeOK
<1> QED
  BY <1>2, <1>4, <1>5 DEF Verify

\* A name is given: by linking the twin, or by renaming the partial file.
LEMMA Named ==
    ASSUME OneFetch, IInv, NEW p \in Fetchers, Finish(p, "ok"),
           NEW f \in Files, dest' = f, part' \in {part, None}, part' # f,
           run[p].ver \in Versions, data[f] = Whole(run[p].ver),
           synced[f] = Len(data[f]), UNCHANGED <<server, data, synced, faults>>
    PROVE  IInv'
<1>1. run' = [run EXCEPT ![p] = [Idle("ok") EXCEPT !.ver = run[p].ver]]
  BY DEF Finish
<1>2. run' \in [Fetchers -> RunRecord]
  BY <1>1, EmptySeq DEF IInv, TypeOK, RunRecord, Idle
<1>3. run'[p].fd = None /\ run'[p].pc = "idle" /\ run'[p].ver = run[p].ver
  BY <1>1 DEF IInv, TypeOK, Idle
<1>4. Fetchers = {p}
  BY Alone
<1>5. CallInv(p)' /\ ~OpenFile(p)'
  BY <1>3 DEF CallInv, OpenFile
<1>6. TypeOK'
  BY <1>2, <1>3, <1>4, <1>5 DEF IInv, TypeOK, RunRecord
<1>7. FileInv'
  BY DEF IInv, FileInv, FinishedIsWhole
<1>8. f # None
  BY FetchAssumption
<1>9. (HashedIsWritten /\ OkMeansThere)'
  BY <1>3, <1>4, <1>5, <1>8 DEF HashedIsWritten, OkMeansThere, HashIs
<1> QED
  BY <1>4, <1>5, <1>6, <1>7, <1>9 DEF IInv

LEMMA RenameHolds ==
    ASSUME OneFetch, IInv, NEW p \in Fetchers, Rename(p)
    PROVE  IInv'
<1>1. run[p].pc = "rename" /\ OpenFile(p)
  BY DEF Rename, At, OpenFile
<1>2. run[p].fd = part /\ part \in Files
  BY <1>1, OpenIsPart
<1>3. /\ run[p].ver \in Versions /\ data[part] = Whole(run[p].ver)
      /\ synced[part] = Len(data[part])
  BY <1>1, <1>2 DEF IInv, CallInv
<1>4. part # None
  BY <1>2, FetchAssumption
<1> QED
  BY <1>2, <1>3, <1>4, Named DEF Rename

LEMMA AdoptTwinHolds ==
    ASSUME OneFetch, IInv, NEW p \in Fetchers, AdoptTwin(p)
    PROVE  IInv'
<1>1. run[p].pc = "twin" /\ run[p].fd = None /\ run[p].digest = <<>>
  BY DEF AdoptTwin, At, IInv, TypeOK, OpenFile, CallInv
<1>2. run[p].verify /\ run[p].ver \in Versions /\ run[p].result = "none"
  BY <1>1, CallRuns
<1>3. CASE Fails(p) /\ UNCHANGED dest
  BY <1>3, FailsHolds DEF AdoptTwin, IInv, TypeOK
<1>4. CASE run' = [run EXCEPT ![p].pc = "measure"] /\ UNCHANGED dest
  <2> DEFINE r == [run[p] EXCEPT !.pc = "measure"]
  <2>1. run' = [run EXCEPT ![p] = r] /\ r \in RunRecord
    BY <1>4, CallTyped DEF RunRecord
  <2>2. run' \in [Fetchers -> RunRecord] /\ run'[p] = r
    BY <2>1, CallBecomes
  <2>3. /\ run'[p].pc = "measure" /\ run'[p].fd = None /\ run'[p].verify
        /\ run'[p].ver \in Versions /\ run'[p].result = "none"
        /\ run'[p].digest = <<>>
    BY <1>1, <1>2, <2>2, CallTyped DEF RunRecord
  <2>4. CallInv(p)' /\ ~OpenFile(p)'
    BY <2>3 DEF CallInv, OpenFile
  <2> QED
    BY <1>4, <2>2, <2>3, <2>4, DirectoryLeftAlone DEF AdoptTwin, IInv, TypeOK
<1>5. CASE Finish(p, "ok") /\ dest' = TwinFile /\ HashIs(p, data[TwinFile])
  <2>1. TwinFile \in Files /\ TwinFile # None
    BY FetchAssumption
  <2>2. part' = part /\ part # TwinFile
    BY <2>1 DEF AdoptTwin, IInv, FileInv
  <2>3. data[TwinFile] = Whole(run[p].ver) /\ synced[TwinFile] = Len(data[TwinFile])
    BY <1>5 DEF HashIs, IInv, FileInv
  <2> QED
    BY <1>2, <1>5, <2>1, <2>2, <2>3, Named DEF AdoptTwin
<1> QED
  BY <1>3, <1>4, <1>5 DEF AdoptTwin

LEMMA ReplacedHolds ==
    ASSUME OneFetch, IInv, NEW v \in Versions, Replaced(v)
    PROVE  IInv'
<1>1. server' \in Versions /\ faults' \in 0..MaxFaults
  BY FetchAssumption DEF Replaced, Fault, IInv, TypeOK
<1>2. UNCHANGED <<data, synced, part, dest, run>>
  BY DEF Replaced
<1>3. TypeOK'
  BY <1>1, <1>2 DEF IInv, TypeOK, OpenFile
<1>4. FileInv' /\ HashedIsWritten'
  BY <1>2 DEF IInv, FileInv, FinishedIsWhole, HashedIsWritten, OpenFile
<1>5. OkMeansThere'
  BY <1>2 DEF IInv, OkMeansThere, HashIs
<1>6. \A p \in Fetchers : CallInv(p)'
  BY <1>2 DEF IInv, CallInv
<1> QED
  BY <1>3, <1>4, <1>5, <1>6 DEF IInv

LEMMA StopsHolds ==
    ASSUME OneFetch, IInv, NEW p \in Fetchers, Stops(p)
    PROVE  IInv'
<1>1. faults' \in 0..MaxFaults
  BY FetchAssumption DEF Stops, Fault, IInv, TypeOK
<1> QED
  BY <1>1, FailsHolds DEF Stops

LEMMA PowerLossHolds ==
    ASSUME OneFetch, IInv, PowerLoss
    PROVE  IInv'
<1>1. faults' \in 0..MaxFaults /\ UNCHANGED <<server, part, dest>>
  <2>1. Fault /\ UNCHANGED <<server, part, dest>>
    BY DEF PowerLoss
  <2>2. faults \in 0..MaxFaults
    BY DEF IInv, TypeOK
  <2> QED
    BY <2>1, <2>2, FetchAssumption DEF Fault
<1>2. ASSUME NEW f \in Files
      PROVE  /\ data'[f] \in Seq(Blocks) /\ synced'[f] = Len(data'[f])
             /\ synced[f] = Len(data[f]) => data'[f] = data[f]
  <2>1. /\ data[f] \in Seq(Blocks) /\ synced[f] \in Nat
        /\ synced[f] <= Len(data[f])
    BY <1>2 DEF IInv, TypeOK, FileInv
  <2>2. data'[f] \in AfterPowerLoss(f) /\ synced'[f] = Len(data'[f])
    BY <1>2 DEF PowerLoss
  <2> QED
    BY <1>2, <2>1, <2>2, SurvivesPowerLoss
<1>3. data' \in [Files -> Seq(Blocks)]
  <2>1. data' \in [Files -> UNION {AfterPowerLoss(f) : f \in Files}]
    BY DEF PowerLoss
  <2> QED
    BY <1>2, <2>1
<1>4. \A f \in Files : Len(data'[f]) \in Nat
  BY <1>2, LenProperties
<1>5. synced' \in [Files -> Nat]
  BY <1>4 DEF PowerLoss
<1>6. TwinFile \in Files
  BY FetchAssumption
<1>7. FileInv'
  BY <1>1, <1>2, <1>4, <1>6 DEF IInv, TypeOK, FileInv, FinishedIsWhole
<1>8. run' \in [Fetchers -> RunRecord]
  <2>1. \A p \in Fetchers : run[p].ver \in Versions \union {None}
    BY CallTyped DEF RunRecord
  <2>2. \A p \in Fetchers :
          [Idle("failed") EXCEPT !.ver = run[p].ver] \in RunRecord
    BY <2>1, EmptySeq DEF Idle, RunRecord
  <2> QED
    BY <2>2 DEF PowerLoss
<1>9. \A p \in Fetchers : /\ run'[p].pc = "idle" /\ run'[p].fd = None
                         /\ run'[p].result = "failed"
  BY DEF PowerLoss, Idle
<1>10. \A p \in Fetchers : CallInv(p)' /\ ~OpenFile(p)'
  BY <1>9 DEF CallInv, OpenFile
<1>11. TypeOK'
  BY <1>1, <1>3, <1>5, <1>8, <1>9, <1>10 DEF IInv, TypeOK, RunRecord
<1>12. (HashedIsWritten /\ OkMeansThere)'
  BY <1>9, <1>10 DEF HashedIsWritten, OkMeansThere
<1> QED
  BY <1>7, <1>10, <1>11, <1>12 DEF IInv

LEMMA NextHolds ==
    ASSUME OneFetch, IInv, [Next]_vars
    PROVE  IInv'
<1>1. ASSUME NEW p \in Fetchers, NEW o \in Options, NEW s \in SizeSent,
             Start(p, o, s)
      PROVE  IInv'
  BY <1>1, StartHolds
<1>2. ASSUME NEW p \in Fetchers, Step(p) PROVE IInv'
  BY <1>2, CheckDestHolds, AdoptTwinHolds, MeasureHolds, RehashHolds,
     OpenPartHolds, GetRangeHolds, GetWholeHolds, ReceiveHolds,
     StreamEndsHolds, SyncHolds, VerifyHolds, RenameHolds DEF Step
<1>3. ASSUME NEW p \in Fetchers, Stops(p) PROVE IInv'
  BY <1>3, StopsHolds
<1>4. ASSUME NEW v \in Versions, Replaced(v) PROVE IInv'
  BY <1>4, ReplacedHolds
<1>5. CASE PowerLoss
  BY <1>5, PowerLossHolds
<1>6. CASE UNCHANGED vars
  BY <1>6 DEF vars, IInv, TypeOK, FileInv, CallInv, FinishedIsWhole,
              HashedIsWritten, OkMeansThere, OpenFile, HashIs
<1> QED
  BY <1>1, <1>2, <1>3, <1>4, <1>5, <1>6 DEF Next

LEMMA IInvHolds == OneFetch => (Spec => []IInv)
<1> SUFFICES ASSUME OneFetch PROVE Spec => []IInv
  OBVIOUS
<1>1. Init => IInv
  BY InitHolds
<1>2. IInv /\ [Next]_vars => IInv'
  BY NextHolds
<1> QED
  BY <1>1, <1>2, PTL DEF Spec

-----------------------------------------------------------------------------
\* The variables stay within their ranges, for any number of versions, blocks
\* and failures, when no other process fetches the same file.
THEOREM TypeCorrect == OneFetch => (Spec => []TypeOK)
<1>1. IInv => TypeOK
  BY DEF IInv
<1> QED
  BY <1>1, IInvHolds, PTL

\* "Nothing is called finished until three things agree": with the hash
\* published and verified, what fetch() leaves under the finished name is a
\* whole version of the remote file, whatever was interrupted, replaced or
\* lost on the way, and it stays that after a power failure.
THEOREM FinishedIsWholeHolds == OneFetch => (Spec => []FinishedIsWhole)
<1>1. IInv => FinishedIsWhole
  BY DEF IInv, FileInv
<1> QED
  BY <1>1, IInvHolds, PTL

\* The hash fetch() takes of the stream is the hash of the partial file at
\* every block, over resumed parts and ignored ranges.
THEOREM HashedIsWrittenHolds == OneFetch => (Spec => []HashedIsWritten)
<1>1. IInv => HashedIsWritten
  BY DEF IInv
<1> QED
  BY <1>1, IInvHolds, PTL

\* When fetch() returns Ok, found, adopted or downloaded, the version that
\* probe() described is under the finished name.
THEOREM OkMeansThereHolds == OneFetch => (Spec => []OkMeansThere)
<1>1. IInv => OkMeansThere
  BY DEF IInv
<1> QED
  BY <1>1, IInvHolds, PTL

-----------------------------------------------------------------------------
\* The abstract download.  Once a call has looked at the finished name, there is
\* nothing there unless it was told to replace it.
PlaceInv ==
    \A p \in Fetchers :
        /\ At(p, "idle") => ~run[p].force
        /\ run[p].pc \notin {"idle", "dest"} /\ ~run[p].force => dest = None

\* What a step of a call does, as far as the abstract download can see: it goes
\* on, gives up, or names a file that is whole.
GoesOn(p) ==
    /\ ~At(p, "idle") /\ ~At(p, "idle")'
    /\ run'[p].ver = run[p].ver /\ run'[p].force = run[p].force
    /\ run'[p].result = run[p].result
    /\ At(p, "dest") => dest = None \/ run[p].force
    /\ UNCHANGED <<server, dest>>
    /\ dest # None => data'[dest] = data[dest]
EndsBadly(p) == ~At(p, "idle") /\ Fails(p) /\ UNCHANGED <<server, data, dest>>
EndsWell(p) ==
    /\ ~At(p, "idle") /\ Finish(p, "ok") /\ UNCHANGED <<server, data>>
    /\ dest' # None /\ data[dest'] = Whole(run[p].ver)
    /\ dest' = dest \/ (At(p, "twin") /\ dest = None) \/ At(p, "rename")

LEMMA HoldsWhole ==
    ASSUME NEW v \in Versions
    PROVE  Holds(Whole(v)) = v
<1>1. ASSUME NEW w \in Versions, Whole(w) = Whole(v) PROVE w = v
  <2>1. Size[v] \in Nat \ {0} /\ Size[w] \in Nat \ {0}
    BY FetchAssumption
  <2>2. Whole(v)[1] = v /\ Whole(w)[1] = w
    BY <2>1 DEF Whole
  <2> QED
    BY <1>1, <2>2
<1> QED
  BY <1>1 DEF Holds

LEMMA CheckDestSeen ==
    ASSUME IInv, NEW p \in Fetchers, CheckDest(p), PublishesHash
    PROVE  GoesOn(p) \/ EndsBadly(p) \/ EndsWell(p)
<1>1. ~At(p, "idle") /\ run[p].verify
  BY CallRuns DEF CheckDest, At
<1>2. CASE dest = None \/ run[p].force
  <2>1. run' = [run EXCEPT ![p] = [run[p] EXCEPT !.pc = "twin"]]
    BY <1>2 DEF CheckDest
  <2> QED
    BY <1>1, <1>2, <2>1, CallTyped DEF CheckDest, GoesOn, At, IInv, TypeOK, RunRecord
<1>3. CASE ~(dest = None \/ run[p].force)
  BY <1>1, <1>3 DEF CheckDest, EndsBadly, EndsWell, HashIs
<1> QED
  BY <1>2, <1>3

LEMMA AdoptTwinSeen ==
    ASSUME IInv, NEW p \in Fetchers, AdoptTwin(p)
    PROVE  GoesOn(p) \/ EndsBadly(p) \/ EndsWell(p)
<1>1. ~At(p, "idle") /\ ~At(p, "dest") /\ At(p, "twin") /\ TwinFile # None
  BY FetchAssumption DEF AdoptTwin, At
<1>2. CASE run' = [run EXCEPT ![p].pc = "measure"] /\ UNCHANGED dest
  <2>1. run' = [run EXCEPT ![p] = [run[p] EXCEPT !.pc = "measure"]]
    BY <1>2
  <2> QED
    BY <1>1, <1>2, <2>1, CallTyped DEF AdoptTwin, GoesOn, At, IInv, TypeOK, RunRecord
<1>3. CASE Fails(p) /\ UNCHANGED dest
  BY <1>1, <1>3 DEF AdoptTwin, EndsBadly
<1>4. CASE /\ dest = None /\ dest' = TwinFile /\ Finish(p, "ok")
           /\ HashIs(p, data[TwinFile])
  BY <1>1, <1>4 DEF AdoptTwin, EndsWell, HashIs
<1> QED
  BY <1>2, <1>3, <1>4 DEF AdoptTwin

LEMMA RenameSeen ==
    ASSUME IInv, NEW p \in Fetchers, Rename(p)
    PROVE  GoesOn(p) \/ EndsBadly(p) \/ EndsWell(p)
<1>1. run[p].pc = "rename" /\ ~At(p, "idle") /\ OpenFile(p)
  BY DEF Rename, At, OpenFile
<1>2. run[p].fd = part /\ part # None
  BY <1>1, OpenIsPart, FetchAssumption
<1>3. data[part] = Whole(run[p].ver)
  BY <1>1, <1>2 DEF IInv, CallInv
<1> QED
  BY <1>1, <1>2, <1>3 DEF Rename, EndsWell, At

\* The steps that only read, or that change the partial file.
LEMMA BetweenSeen ==
    ASSUME IInv, NEW p \in Fetchers,
           \/ Measure(p) \/ Rehash(p) \/ (\E f \in Files : OpenPart(p, f))
           \/ GetRange(p) \/ GetWhole(p) \/ Receive(p) \/ StreamEnds(p)
           \/ Sync(p) \/ Verify(p)
    PROVE  GoesOn(p) \/ EndsBadly(p) \/ EndsWell(p)
<1>1. /\ run[p] \in RunRecord /\ run \in [Fetchers -> RunRecord]
      /\ data \in [Files -> Seq(Blocks)] /\ dest \in Files \union {None}
  BY CallTyped DEF IInv, TypeOK, RunRecord
<1>2. OpenFile(p) => run[p].fd # dest
  BY OpenIsPart
<1>3. CASE Measure(p)
  BY <1>1, <1>3 DEF Measure, GoesOn, At, RunRecord
<1>4. CASE Rehash(p)
  <2>1. CASE Fails(p)
    BY <1>4, <2>1 DEF Rehash, EndsBadly, At
  <2>2. CASE run' = [run EXCEPT ![p].pc = "open"]
    BY <1>1, <1>4, <2>2 DEF Rehash, GoesOn, At, RunRecord
  <2>3. ASSUME NEW n, run' = [run EXCEPT ![p].pc = "open", ![p].have = n,
                                 ![p].digest = SubSeq(data[part], 1, n)]
        PROVE  GoesOn(p)
    BY <1>1, <1>4, <2>3 DEF Rehash, GoesOn, At, RunRecord
  <2> QED
    BY <1>4, <2>1, <2>2, <2>3 DEF Rehash
<1>5. ASSUME NEW f \in Files, OpenPart(p, f) PROVE GoesOn(p)
  <2>1. f # dest
    BY <1>5 DEF OpenPart, Unused, IInv, FileInv
  <2>2. dest # None => data'[dest] = data[dest]
    BY <1>1, <1>5, <2>1 DEF OpenPart
  <2>3. /\ run'[p].pc \in {"get", "sync"} /\ run'[p].ver = run[p].ver
        /\ run'[p].force = run[p].force /\ run'[p].result = run[p].result
    BY <1>1, <1>5 DEF OpenPart, RunRecord
  <2> QED
    BY <1>5, <2>2, <2>3 DEF OpenPart, GoesOn, At
<1>6. CASE GetRange(p)
  <2>1. CASE Fails(p)
    BY <1>6, <2>1 DEF GetRange, EndsBadly, At
  <2> QED
    BY <1>1, <1>6, <2>1 DEF GetRange, GoesOn, At, RunRecord
<1>7. CASE GetWhole(p)
  <2>1. run[p].fd # dest
    BY <1>2, <1>7 DEF GetWhole, At, OpenFile
  <2>2. dest # None => data'[dest] = data[dest]
    BY <1>1, <1>7, <2>1 DEF GetWhole
  <2> QED
    BY <1>1, <1>7, <2>2 DEF GetWhole, GoesOn, At, RunRecord
<1>8. CASE Receive(p)
  <2>1. run[p].fd # dest
    BY <1>2, <1>8 DEF Receive, At, OpenFile
  <2>2. dest # None => data'[dest] = data[dest]
    BY <1>1, <1>8, <2>1 DEF Receive
  <2> QED
    BY <1>1, <1>8, <2>2 DEF Receive, GoesOn, At, RunRecord
<1>9. CASE StreamEnds(p)
  BY <1>1, <1>9 DEF StreamEnds, GoesOn, At, RunRecord
<1>10. CASE Sync(p)
  <2>1. CASE Fails(p)
    BY <1>10, <2>1 DEF Sync, EndsBadly, At
  <2> QED
    BY <1>1, <1>10, <2>1 DEF Sync, GoesOn, At, RunRecord
<1>11. CASE Verify(p)
  <2>1. CASE Fails(p)
    BY <1>11, <2>1 DEF Verify, EndsBadly, At
  <2> QED
    BY <1>1, <1>11, <2>1 DEF Verify, GoesOn, At, RunRecord
<1> QED
  BY <1>3, <1>4, <1>5, <1>6, <1>7, <1>8, <1>9, <1>10, <1>11

LEMMA StepSeen ==
    ASSUME OneFetch, IInv, NEW p \in Fetchers, Step(p)
    PROVE  GoesOn(p) \/ EndsBadly(p) \/ EndsWell(p)
BY CheckDestSeen, AdoptTwinSeen, RenameSeen, BetweenSeen DEF Step, OneFetch

\* What each of these is to the abstract download, and to PlaceInv.
Simulates == [Promise!Next]_(Promise!vars) /\ PlaceInv'

LEMMA GoesOnSimulates ==
    ASSUME OneFetch, IInv, PlaceInv, NEW p \in Fetchers, GoesOn(p)
    PROVE  Simulates
<1>1. Fetchers = {p}
  BY Alone
<1>2. Finished' = Finished
  BY DEF GoesOn, Finished
<1>3. Asked' = Asked /\ Forced' = Forced /\ Answer' = Answer
  BY <1>1 DEF GoesOn, Asked, Forced, Answer, At
<1>4. PlaceInv'
  BY <1>1 DEF GoesOn, PlaceInv, At
<1> QED
  BY <1>2, <1>3, <1>4 DEF GoesOn, Simulates, Promise!vars

\* A call that has ended, as both ends leave it.
LEMMA CallEnds ==
    ASSUME OneFetch, IInv, NEW p \in Fetchers, ~At(p, "idle"),
           NEW how \in {"ok", "failed"}, Finish(p, how), UNCHANGED server
    PROVE  Promise!Ends(p, how) /\ PlaceInv' /\ Asked[p] = run[p].ver
<1>1. Fetchers = {p}
  BY Alone
<1>2. run \in [Fetchers -> RunRecord]
  BY DEF IInv, TypeOK, RunRecord
<1>3. run' = [run EXCEPT ![p] = [Idle(how) EXCEPT !.ver = run[p].ver]]
  BY DEF Finish
<1>4. /\ run'[p].pc = "idle" /\ run'[p].force = FALSE /\ run'[p].result = how
  BY <1>2, <1>3 DEF Idle
<1>5. Asked[p] = run[p].ver /\ run[p].ver # None
  BY CallRuns, FetchAssumption DEF Asked, At
<1>6. /\ Asked' = [Asked EXCEPT ![p] = None]
      /\ Forced' = [Forced EXCEPT ![p] = FALSE]
      /\ Answer' = [Answer EXCEPT ![p] = how]
  BY <1>1, <1>4 DEF Asked, Forced, Answer, At
<1>7. PlaceInv'
  BY <1>1, <1>4 DEF PlaceInv, At
<1> QED
  BY <1>5, <1>6, <1>7 DEF Promise!Ends, Promise!None, None

LEMMA EndsBadlySimulates ==
    ASSUME OneFetch, IInv, PlaceInv, NEW p \in Fetchers, EndsBadly(p)
    PROVE  Simulates
<1>1. Promise!Ends(p, "failed") /\ PlaceInv'
  BY CallEnds DEF EndsBadly, Fails
<1>2. Finished' = Finished
  BY DEF EndsBadly, Finished
<1> QED
  BY <1>1, <1>2 DEF Simulates, Promise!Next, Promise!GivesUp

LEMMA EndsWellSimulates ==
    ASSUME OneFetch, IInv, PlaceInv, NEW p \in Fetchers, EndsWell(p)
    PROVE  Simulates
<1>1. /\ Promise!Ends(p, "ok") /\ PlaceInv' /\ Asked[p] = run[p].ver
      /\ run[p].ver \in Versions
  BY CallEnds, CallRuns DEF EndsWell, At
<1>2. Finished' = Asked[p]
  BY <1>1, HoldsWhole DEF EndsWell, Finished
<1>3. Finished \in {None, Asked[p]} \/ Forced[p]
  <2>1. CASE dest' = dest
    BY <1>1, <2>1, HoldsWhole DEF EndsWell, Finished
  <2>2. CASE dest = None
    BY <2>2 DEF Finished
  <2>3. CASE At(p, "rename")
    BY <2>2, <2>3 DEF PlaceInv, At, Forced
  <2> QED
    BY <2>1, <2>2, <2>3 DEF EndsWell
<1> QED
  BY <1>1, <1>2, <1>3 DEF Simulates, Promise!Next, Promise!Succeeds, Promise!None, None

LEMMA StartSimulates ==
    ASSUME OneFetch, IInv, PlaceInv, NEW p \in Fetchers, NEW o \in Options,
           NEW s \in SizeSent, Start(p, o, s)
    PROVE  Simulates
<1>1. Fetchers = {p} /\ o.force \in BOOLEAN
  BY Alone, FetchAssumption
<1>2. /\ run'[p].pc = "dest" /\ run'[p].ver = server /\ run'[p].force = o.force
      /\ run'[p].result = "none"
  BY DEF Start, Idle, IInv, TypeOK
<1>3. /\ Asked[p] = None
      /\ Asked' = [Asked EXCEPT ![p] = server]
      /\ Forced' = [Forced EXCEPT ![p] = o.force]
      /\ Answer' = [Answer EXCEPT ![p] = "none"]
  BY <1>1, <1>2 DEF Asked, Forced, Answer, At, Start
<1>4. Finished' = Finished /\ server' = server
  BY DEF Finished, Start
<1>5. Promise!Begin(p, o.force)
  BY <1>3, <1>4 DEF Promise!Begin, Promise!None, None
<1>6. PlaceInv'
  BY <1>1, <1>2 DEF PlaceInv, At
<1> QED
  BY <1>1, <1>5, <1>6 DEF Simulates, Promise!Next

LEMMA PowerLossSimulates ==
    ASSUME OneFetch, IInv, PlaceInv, PowerLoss
    PROVE  Simulates
<1>1. \A p \in Fetchers : /\ run'[p].pc = "idle" /\ run'[p].force = FALSE
                         /\ run'[p].result = "failed"
  BY DEF PowerLoss, Idle
<1>2. /\ Asked' = [p \in Fetchers |-> None] /\ Forced' = [p \in Fetchers |-> FALSE]
      /\ Answer' = [p \in Fetchers |-> "failed"]
  BY <1>1 DEF Asked, Forced, Answer, At
<1>3. dest # None => data'[dest] = data[dest]
  <2> SUFFICES ASSUME dest # None PROVE data'[dest] = data[dest]
    OBVIOUS
  <2>1. /\ dest \in Files /\ data[dest] \in Seq(Blocks) /\ synced[dest] = Len(data[dest])
        /\ synced[dest] \in Nat /\ synced[dest] <= Len(data[dest])
    BY DEF IInv, TypeOK, FileInv
  <2>2. data'[dest] \in AfterPowerLoss(dest)
    BY <2>1 DEF PowerLoss
  <2> QED
    BY <2>1, <2>2, SurvivesPowerLoss
<1>4. Finished' = Finished /\ server' = server
  BY <1>3 DEF Finished, PowerLoss
<1>5. PlaceInv'
  BY <1>1 DEF PlaceInv, At
<1> QED
  BY <1>2, <1>4, <1>5 DEF Simulates, Promise!Next, Promise!PowerLoss, Promise!None, None

LEMMA NextSimulates ==
    ASSUME OneFetch, IInv, PlaceInv, [Next]_vars
    PROVE  Simulates
<1>1. ASSUME NEW p \in Fetchers, NEW o \in Options, NEW s \in SizeSent,
             Start(p, o, s)
      PROVE  Simulates
  BY <1>1, StartSimulates
<1>2. ASSUME NEW p \in Fetchers, Step(p) PROVE Simulates
  BY <1>2, StepSeen, GoesOnSimulates, EndsBadlySimulates, EndsWellSimulates
<1>3. ASSUME NEW p \in Fetchers, Stops(p) PROVE Simulates
  BY <1>3, EndsBadlySimulates DEF Stops, EndsBadly
<1>4. ASSUME NEW v \in Versions, Replaced(v) PROVE Simulates
  <2>1. UNCHANGED <<Finished, Asked, Forced, Answer>> /\ server' = v /\ PlaceInv'
    BY <1>4 DEF Replaced, Finished, Asked, Forced, Answer, At, PlaceInv
  <2> QED
    BY <2>1 DEF Simulates, Promise!Next, Promise!Replaced
<1>5. CASE PowerLoss
  BY <1>5, PowerLossSimulates
<1>6. CASE UNCHANGED vars
  BY <1>6 DEF vars, Simulates, Promise!vars, Finished, Asked, Forced, Answer, At, PlaceInv
<1> QED
  BY <1>1, <1>2, <1>3, <1>4, <1>5, <1>6 DEF Next

\* One fetch at a time implements the download that happens at one stroke, for any
\* versions, sizes, options and faults: however a call is stopped, and whatever a
\* power failure takes, the finished name changes only to the whole version the
\* call asked for, with the answer Ok, and only from nothing or under --force.
THEOREM ImplementsDownloadHolds == OneFetch => (Spec => ImplementsDownload)
<1> SUFFICES ASSUME OneFetch PROVE Spec => Promise!Spec
  BY DEF ImplementsDownload
<1>1. Init => Promise!Init /\ PlaceInv
  BY DEF Init, Promise!Init, Promise!None, None, Finished, Asked, Forced, Answer, At, Idle,
         PlaceInv
<1>2. IInv /\ PlaceInv /\ [Next]_vars => [Promise!Next]_(Promise!vars) /\ PlaceInv'
  BY NextSimulates DEF Simulates
<1> QED
  BY <1>1, <1>2, IInvHolds, PTL DEF Spec, Promise!Spec
=============================================================================
