# llmoxide in TLA+

Models of the parts of llmoxide whose correctness depends on the order in which
things happen, TLC runs that check them on small instances, and TLAPS proofs of
what matters most for every size. Every definition is translated from the code;
`PROJECT.json` maps each one to its lines.

    tlc -workers 2 -config MCSession.cfg MCSession      # check one model
    tlapm AppEngineProof.tla                            # check one set of proofs

## The system

llmoxide runs a GGUF chat checkpoint in process and forgets the conversation
when told to. Its layers, from the weights up:

| Component | State it keeps | Operations | Talks to |
|---|---|---|---|
| **Attention cache** (`crates/model/src/cache.rs`, `cpu.rs`, `crates/gpu/src/forward.rs`, `attn.wgsl`, `ops.wgsl`) | a position; per owning layer a ring (sliding window) or a flat array (global) of key/value rows; which layer shares whose rows | `forward(batch)`: per layer store the batch, then attend; `clear`/`reset` rewinds without overwriting; `wipe` overwrites | called by the session through `Backend` |
| **Forward passes and kernels** (`forward.rs`, `qwen35.rs`, `vision.rs` of `crates/gpu` and their CPU counterparts, `shaders/`) | scratch buffers, reused many times in a pass | one dispatch plan per batch; the CPU pass it mirrors | the cache, the recurrent state, the arena |
| **GPU buffers and recurrent state** (`crates/gpu`, `crates/model/src/qwen35/state.rs`) | every device buffer; convolution and delta-net state per linear layer | `forward`, `reset`, `wipe` | owned by a GPU backend |
| **Weight upload** (`crates/gpu/src/arena.rs`, `lib.rs`) | the packing plan, the buffers, sampled spans to verify | `upload_streaming`, `upload` | reads the file, writes through the driver |
| **Session** (`llmoxide/src/session.rs`, `backend.rs`) | `cached`, the tokens it believes resident; `cache_comparable` | `generate`: decide on reuse, prefill in chunks, sample, append; `wipe` | owns a `Backend`, a tokenizer, a chat dialect and an optional image encoder; called by the app, the server and the REPL |
| **App engine thread** (`crates/app/src/engine.rs`, exit paths of `main.rs`) | the session; flags `loading` and `closing`; a FIFO channel of commands | load, turn with rounds of tool calls, wipe, shutdown | called by the window, the signal watcher, `atexit`, the panic hook |
| **App window** (`crates/app/src/ui.rs`, `clip.rs`) | transcript, draft, running task, model status, granted folder, the clipboard | send, stop, pick a model, new chat, grant, copy | engine thread by channel; every reply by stream |
| **Granted folder reads** (`crates/app/src/read.rs`) | traversal, byte budget, access times to put back | list, search, read | called by the engine thread inside a turn |
| **HTTP server**, **private REPL** (`crates/server`) | one generation slot, a job channel; an interrupt flag, a history | chat request, streaming, disconnect; the REPL's commands | own an engine thread with a session |
| **Checkpoint download** (`crates/hub`) | partial files, finished files, hashes | resume, verify, adopt, rename | file system, HTTP |
| **Locked memory** (`crates/secret`) | locked buffers, an allocator that zeroes on free once armed | push, grow, wipe, drop | holds every token id of the session |
| **Chat dialects, tokenizer** (`crates/chat`, `crates/tokenizer`) | none between calls (the decoder keeps a partial character) | messages to prompt and reply to message; text to tokens and back | called by the session |
| **Browser session and lab** (`crates/wasm`, `crates/lab`) | second copies of the session's loop, which let the page in between tokens | reply, stop, forget; inspect | JavaScript |
| **Sampler, GGUF reader, image preprocessing** | none | pure functions | called by the session and by loading |

What is hard about it:

* the ring: a batch is stored whole before any of its rows reads, rewinding
  leaves old rows in place, shared layers read rows they did not write, and the
  same arithmetic is written three times (CPU, kernel, stride of the scratch);
* reuse: the session cannot see the cache; it keeps a description of it, and
  every path (embedding spans, stop tokens, errors, wipes) must keep the
  description true or mark it unusable;
* the engine thread is asked to forget or to exit at any moment of a load, a
  turn or a tool call, by several threads at once;
* failure: forward calls fail half-way, downloads stop at any byte, access
  times cannot be restored, a panic arrives on the thread that holds the secret,
  a driver drops writes;
* two of everything: every pass is written for the CPU and as a list of GPU
  dispatches over a few buffers that are overwritten many times; quantized
  blocks are decoded by the CPU and, repacked, by a dozen kernels;
* forgetting: what a wipe must reach is spread over locked memory, the heap,
  device buffers, histories, the clipboard, and threads still generating.

What makes each part correct:

| Component | Properties | Where |
|---|---|---|
| Attention cache | a row reads exactly the positions it may see, of its own conversation only; scores stay in their stride | `KvRing` |
| Forward passes | the GPU computes at every step what the CPU computes; a plan binds no buffer twice and outgrows none; no data race in a workgroup; the same bits and cells on both sides | `Gemma4`, `Qwen35`, `VisionTower`, `Mirror`, `Workgroup`, `QuantLayout`, `Shaders` |
| GPU buffers, recurrent state | logits come from the conversation served; a wipe leaves nothing | `Device` |
| Weight upload | every block lands where the shaders look for it; a lost buffer is noticed | `Upload` |
| Session | a turn with reuse cannot be told from one computed afresh; every forward call is one the backend accepts; calls return | `Session`, `Conversation` |
| App engine | no exit with a conversation resident; a wipe that resolved is final; every turn ends; shutdown never blocks for ever | `AppEngine` |
| App window | nothing of an earlier conversation is left after New chat; no half turn in the history; the status settles on the model picked last | `AppUi` |
| Folder reads | every access time read is restored or the search stops; only what the rules allow is read; the budget holds | `ReadGrant` |
| Server, REPL | an answered wipe left nothing; a client that stays is served alone and whole; every request ends; ctrl-C cuts the turn it was meant for | `Server`, `Repl` |
| Download | a finished name never holds unverified bytes; a stopped fetch can be resumed | `HubFetch`, `Download` |
| Locked memory | no block that held a secret is released or left behind unzeroed | `Secret` |
| Dialects, tokenizer | round trips against reference definitions; a replayed turn extends the cache | `Dialects`, `Dsl`, `Bpe`, `Split` |
| Browser loops | caches hold exactly the tokens recorded, whatever comes between two tokens | `WasmSession`, `Lab` |

`PROJECT.json` lists the hazards line by line, with the properties that cover
each.

## Modules

### KvRing

`len`, `kv` and `epoch` are the cache: the position (`KvCache::len`,
`GpuModel::pos`), the rows, and a number for the conversation that a rewind or a
wipe increments. A row is abstracted to *(epoch, position)*, the only thing the
properties ask of it. `batch`, `layer` and `todo` are the forward call in
progress.

A call is `Begin`, then per layer one `StoreRow` per row of the batch, in any
order, then `Attend`. The stores of one layer are a single GPU dispatch
(`write_cache`), so the order is not defined there; the CPU's loop is one of the
orders. On a layer that shares another's rows nothing is stored. `Clear` rewinds
and leaves the rows; `Wipe` overwrites them. `Slot`, `FirstVisible`,
`LastVisible` and `MaxVis` are the index functions, used by the actions and the
properties alike; what a property compares is the row *found* there.

### Conversation, Session

`Conversation` is what a session promises, without a cache: a turn reads its
prompt, and each token is drawn given that prompt and the tokens emitted so far.

`Session` is `session.rs` over any backend that keeps the contract of
`backend.rs`. `resident` is what the backend holds; the session's own view is
`cached` and `comparable`. A call is `Accept` (the length test, the decision on
reuse, a wipe if there is none), `PrefillChunk` until the prompt is in, `Record`,
then `Sample`/`Forward` until `Finish`. `PrefillFails` and `ForwardFails` are an
`Err` from the backend: it refused the batch, or, when `CanFail`, it failed with
or without having stored it. Neither corrects anything, as in the code. Text
(decoding, stop strings, parsing) appears as the free choice of when sampling
ends.

`ImplementsConversation` is the refinement: `asked` is the prompt, `context`
is the sequence the latest logits were computed from.

### AppEngine

Three kinds of process: the window's thread, the engine thread, and the threads
in `Exiters` that leave the process. `chan` is the command channel; `loading`
and `closing` are the two atomic flags. Every access to them and every send is a
step of its own, since nothing else orders the threads. What the model's memory
holds is the set `held` of conversations of which anything is resident; a
`Prefill` may extend or replace it, a failed round may leave any of the outcomes.
`exit[e]` follows `shutdown()`: `Swap` (the exchange on `closing`), `Check` (the
load of `loading`, the last wipe), the wait, `Leave`. `alive` becomes false at
`Leave` and at `EnginePanic`, and nothing moves after that.

The window is represented by what it does to the engine: it sends, stops,
changes models and starts new chats, with `running` as the guard it has in
`ui.rs`. Its thread stops acting once it is leaving.

### HubFetch

`hub::fetch` against the directory and the server. The directory is modelled
with its inodes (`data`, `part`, `dest`), because a process that holds the
partial file open goes on writing to the same file after another has renamed it.
A file is a sequence of blocks; a block is the version of the remote file it came
from, or `Hole`. Equal hashes mean equal contents. `synced` is the part of each
file that a power failure leaves as it is.

One step per access to the directory or the network: `Start` (the HEAD request,
with or without a size in the answer), `CheckDest`, `AdoptTwin`, `Measure`,
`Rehash`, `OpenPart`, `GetRange` or `GetWhole` (the server ignored the range),
`Receive` and `StreamEnds`, `Sync`, `Verify`, `Rename`. Between any two, `Stops`
kills the process or fails the call, `Replaced` puts another version on the
server, `PowerLoss` loses or zeroes what was not synced. Names in the directory
are taken to survive a power failure.

`Download` is the abstract specification: a call is begun for the version the server
has, and ends at one stroke, with that version under the finished name or with
everything as it was. It knows no partial file, no hash and no resume. `HubFetch`
implements it (`ImplementsDownload`) under the mapping `Promise`: what is finished is the version
that the named file is the whole of, and what is asked is the version of the HEAD
answer while a call runs.

### Kernels, Gemma4, Qwen35, VisionTower, Mirror

A forward pass on the GPU is a list of dispatches, and `build_plan_for` and
`build_plan` are the code that writes it. `Gemma4`, `Qwen35` and `VisionTower`
hold these plans, one operator for each group of dispatches, next to the CPU pass
the code says they mirror. `Kernels` gives both sides their meaning as symbolic
terms: a dispatch reads the terms in the buffers bound to it and writes a term,
and two computations agree when their terms are equal. Arithmetic is therefore
taken at its word (a `matvec` is a matvec), and what is compared is the order, the
buffers, the weights and the arguments.

`Mirror` runs one stage at a time (inputs, each layer, the head). Buffers that
outlive a stage start with the same symbols on both sides, all others start
*stale*, so a stage that reads what it did not write is seen; what agrees stage by
stage agrees for any depth. A case is an architecture with its configuration:
which layers slide, share, take V from K, carry per-layer embeddings, are
recurrent; tokens or embedding rows; which vision weights carry calibration
ranges.

### Device

The same plans, with data lineage for values: every row of every buffer is the
set of conversations it was computed from. `Forward` and `ForwardEmbeds` stage a
batch and play the plan over the rows of that batch; `Reset` and `Wipe` clear
what the code clears. Rows outside a batch keep what they had, which is the point.
`Loadable` is what the code asks of a configuration before it makes the buffers.

### Workgroup, QuantLayout, Shaders

`Workgroup` is the shared memory of one workgroup. A kernel that cooperates is a
loop over what every thread does to it: fill its own cell, wait at a barrier, fold
halves in an inner loop that a barrier ends, take the sum, scan what all staged.
Threads run in any order between barriers, each at its own place in the loop. `QuantLayout` says which bits of a stored block each reader takes, for
the CPU decoders and for every kernel, which reads the copy that `arena.rs`
repacked. `Shaders` is the index arithmetic: which thread writes which output,
which cells it reads, against the loops of the CPU code.

### Upload

The packing plan, and the two uploads: streamed, a chunk of whole blocks at a
time through a callback that may come up short, and mapped, a buffer at a time.
The driver may drop a write silently; head and tail of each buffer are sampled
and read back.

### AppUi

The handlers of the window and the polls of its tasks, one at a time, with
everything the engine may answer in between. Each piece of state carries the
number of the conversation it came from, so "nothing from an earlier conversation"
can be said of the transcript, the draft, the error line, the grant and the
clipboard. Dialogs and loads are awaited, and two can be open at once.

### Server, Repl

`Server` keeps handlers, the fair slot lock, the job channel, the event channel
of each generation and the engine thread apart. A streamed completion runs in its
own task and keeps the slot to its end; a plain one holds it in the handler,
which the runtime drops when the client hangs up while its reader goes on. Two
history variables, `made` and `ended`, keep what the engine drew for each
completion and how it stopped, heard or not; no step reads them, and
`NothingLeftOut` holds what a client was sent against them. `Repl` has the reading
thread, the engine thread and ctrl-C at any moment.

### ReadGrant

The tool calls of one turn. What `fstatat` saw and what `openat` opened need not
be the same file; a read moves the access time, and putting it back may fail. A
search walks folders with limits on depth and files.

### Secret

`SecretVec` byte by byte in an allocator that hands freed memory back as it is,
with an `mlock` that may fail, and one block of the zeroing heap, before and
after it is armed.

### WasmSession, Lab

The browser's copies of the session's loop. `WasmSession` yields to the page
inside each forward pass; a second call is kept out by wasm-bindgen's borrow, a
stop is not. `Lab` has two conversations, and a worker that answers token by
token and takes any message in between.

### Split, Bpe, Dsl, Dialects

Pure algorithms, each beside a plain definition of what it should do: the three
hand-compiled splits, which never backtrack, against the regular expressions of
`pre.rs`, and that no piece is spelled like a control token; merging with
a queue of pairs that may be stale against merging by hand; decoding a stream cut
anywhere against the text; encoding a tool call and parsing it back; a prompt built
from a reply as it was parsed against the tokens the reply was generated as.

### Programs, Compute, MCCompute, MCParts

These modules share no state and most are small, so they are checked side by
side: `program` and `part` pick one module, the variables of the others stay idle,
and a state of the whole is a state of one. `Programs` holds `AppUi`, `Repl`,
`ReadGrant`, `Secret`, `WasmSession` and `Lab`; their sizes are constants with
`ProgramsAssumption`, so that the theorems about `ProgramsSpec` are about each
of them at every size. `Compute` does the same for `Workgroup`, `Upload`, `Device` and the
index operators of `QuantLayout` and `Shaders`, of which a behaviour tries one *shape* (a kernel
with the sizes it is given), with `ComputeAssumption` and `DeviceAssumption`. `MCCompute` adds
`Mirror` to it, with its bounds in the INSTANCE. `MCParts` joins
the two, gives `Programs` and `Compute` their sizes in `MCParts.cfg`, and adds the text algorithms.

## Runs

| Run | Question | Bounds |
|---|---|---|
| `kv_ring` | Do the ring, the sharing and the index functions give each row its window? | three blocks (sliding, global, shared sliding), window 3, batches of 1 to 3 rows, context 7, two conversations |
| `kv_ring_wrap` | Is what `cache.rs` says of the ring true of *every* row of a batch? No. | the same |
| `session` | Is reuse invisible, and does every call fit? | all prompts of up to 4 positions over two tokens and embedding spans, batch 2, context 6, `max_tokens` 0, 2 and 5 |
| `session_fail` | What is left to rely on when forward calls fail? | prompts of up to 3, context 5, failures anywhere |
| `session_ghost` | Does the record survive a failed forward call? No. | the same |
| `app_engine` | Safety of the engine thread with two threads leaving and panics; do shutdown and turns end? | two turns, two conversations, two loads, two tool steps of up to two calls, one token a round |
| `app_engine_exits` | Is nothing left at exit, with two threads leaving? No. | the same, no panic |
| `hub_fetch` | Is what a single fetch finishes whole, is its hash that of the file, can it be told from a download at one stroke, and does running the command again complete it? | three versions, two of them of three blocks and one of two, one of them there under another name, three faults, sizes sent or not |
| `hub_fetch_two` | Does the promise hold with two processes? No. | one version, one fault |
| `server` | Does an answered wipe mean what it says, is a client that stays served alone and whole, does every request end? | a streamed completion, a plain one and a wipe, two tokens, clients that hang up, a panic |
| `parts` | Do GPU and CPU agree, do wipes and uploads do what they say, do the programs around the engine keep their conversations apart, do the text algorithms match their definitions? | see below |
| `device_wipe` | Does a wipe clear every buffer of a model with per-layer embeddings? No. | two layers, context 4, batch 2, three conversations |

The bounds of `parts`, module by module:

| Module | Bounds |
|---|---|
| `Mirror` | every pattern of up to four layers with every number of shared layers, V from K or not, per-layer embeddings or not, logits capped or not, tokens or embeddings; hybrid and plain qwen up to four blocks; towers of up to four layers with no, some or all ranges |
| `Device` | gemma4 with a sliding, a global and a shared layer, qwen35 with a linear and a full layer, qwen3 with two layers; context 4, batch 2, window 2, three conversations |
| `Workgroup` | eight threads, four to a row of a matvec, two rounds |
| `Upload` | up to three tensors, quantized or dense, of several sizes, buffers of 16 cells aligned to 4, chunks of 5, samples of 2 |
| `QuantLayout`, `Shaders` | a workgroup of eight threads, four to a row, tiles of 2, and of 4 by 2; two blocks of every format; up to 9 outputs, 5 tokens and grids of at most 3 groups; heads of 4 and 8 lanes; convolution kernels of 2 to 4 taps over any cut of 9 tokens into two batches |
| `AppUi` | two conversations of up to four turns, two models picked |
| `Repl` | three prompts, two events a turn |
| `ReadGrant` | three calls, folders two deep with two names, two files a search |
| `Secret` | elements of 3 bytes in pages of 4, up to five elements |
| `WasmSession`, `Lab` | contexts of 7, and of 5 and 3, prompts of up to 5 and 4, two replies, four messages |
| `Split` | every text of up to four characters of eleven classes |
| `Bpe` | every list of three merges over eight spellings, texts of up to five characters; all streams of two tokens of up to three bytes |
| `Dsl`, `Dialects` | one or two arguments, nested once; two messages, then a reply and the next turn |

Why these bounds are enough. *KvRing*: a context of 7 over a window of 3 wraps
the ring twice, inside a batch and between batches, and batches reach the full
width of the window; the second conversation runs over the rows of the first.
*Session*: prompts of 4 over batches of 2 have runs that need several chunks,
spans in every place, prompts that extend, repeat, shorten and diverge from what
is resident; context 6 with a headroom of 1 makes the budget meet its end.
*AppEngine*: two turns of two conversations give a turn queued on either side of
a wipe, two loads give one queued behind the other, two steps give a round with
and one without tools, two calls a call made after the cancellation of the first.
*HubFetch*: three blocks are cut at the
start, the middle and the end; a shorter and an equally long version tell the
length check from the hash; three faults replace the file, cut a stream and lose
power in one download. *Server*: the hazard is a generation without a client
under the slot's next holder, for which one request of each kind is enough.
*Mirror*: layers only differ by kind, sharing and place, and four layers hold an
owner and a sharer of each kind. *Device*: two rows a batch and a context of four
leave rows of an earlier conversation beside those of the current one. *Workgroup*:
eight threads fold three times, and the barriers of a loop are exercised by its
second round. *Upload*: three tensors
end in the middle of a buffer, at its end, and in the next. What is independent of
the sizes is proved, where a proof is listed.

Deadlock is checked for the session, which can always take another call or a
wipe, and for the download, which can always be run again. The ring model and
`MCParts` stop when their bounds are used up, the engine model when the process
has ended, the server when every request has been answered.

### What the violated runs show

1. **`kv_ring_wrap`**: when a batch of several rows ends past the window, its
   earlier rows read slots that its later rows already overwrote. The last row,
   whose logits are used, reads its own window exactly (`LastRowExact`); the
   earlier rows' hidden states, and so the keys and values they leave for later
   layers, do not come from the window `cache.rs` describes. With shipped
   windows (512, 1024) and batches (256) this is every prefill chunk past the
   window. `OverrunStaysInBatch` bounds the damage: what is read instead is
   always a later row of the same batch, never another conversation's.
2. **`session_ghost`**: a sampled token is pushed onto `cached` before it is
   computed and stays there when `forward` fails, and a failed prefill leaves
   `cached` describing what was resident before it. The next prompt that extends
   `cached` is read on top of something else. `CallsFit` shows that the
   refusals of the built-in backends cannot cause it, and a readback that fails
   on the built-in GPU backend panics; a backend given to `Session::new` whose
   `forward` returns an error can. `FreshTurnExact` shows that the first call
   that reuses nothing heals it.
3. **`app_engine_exits`**: `shutdown()` returns at once in every caller but the
   first, and that caller goes on to end the process while the first still waits
   for its wipe.
4. **`hub_fetch_two`**: nothing keeps two processes from fetching the same file.
   The second measures the partial file while the first is writing it, and cuts
   it to that length (`set_len`) after the first has passed its checks, which
   look at the stream's hash and not at the file, and before its rename. The
   first reports success and a short file has the finished name. If the second
   goes on it writes the missing bytes into it; if it is stopped they stay
   missing.

5. **`device_wipe`**: the list of buffers a wipe clears lacks the four that
   hold per-layer embeddings, on models that have them. Rows of `ple`,
   `ple_proj`, `ple_cur` and `ple_gate` stay until a later batch overwrites them.
   For the other models `WipedIsClean` holds, in the run `parts`.

### Other differences met while modelling

These are not runs, because a comment states them only in passing, because they
concern a value and not an order, or because the model takes them for granted.

* A panic on the engine thread skips `shutdown()`, which would wait for itself,
  and `_exit` follows without a wipe (`main.rs:124-129`), although
  `docs/privacy.md:106` says that a panic wipes. `ShutdownIsFinal` includes panics
  because nothing lives after one; `ExitIsWipedAlone` excludes them.
* A cancelled turn looks at its receiver once a round and then makes all the calls
  of the round (`engine.rs:272`, `290-304`; `engine.rs:123` speaks of the next
  call). `RoundsEnd` states the bound that does hold.
* `upload_streaming` requires that the bytes it sent equal the planned total, which
  includes the padding between tensors (`gpu/src/lib.rs:606-613`): a file with
  a tensor whose size is not a multiple of 256 is refused though nothing was lost.
  `ResidentAsFiled` asks that honest uploads load of lists without padding.
* The GPU vision tower clamps a shared input in place where the CPU clamps a copy;
  `StepForStep` is checked for towers in which the projections of one input have
  the same range, or none.
* The GPU divides by a row of parameters when the file has no `rope_freqs.weight`,
  where the CPU divides by nothing; `Mirror` takes the tensor to be there. The GPU's gemma4 head always multiplies by
  `token_embd`, the CPU's by `output.weight` when there is one.
* `config.rs:172-183` asks that the two layers below the sharing boundary are of different
  kinds, but gives the sliding layers the first of them in any case: a file with the
  global one first would be accepted and read with the wrong window.
  `LayersAssumption` and `Loadable` take the order of the shipped files.
* `delta_recur` stages one lane per thread and covers head widths up to 128.
* After a panic of its engine the REPL still prints "wiped": the buffers were freed,
  not cleared (`WipedMeansWiped` has this case). A failed read of a line leaves
  without a wipe.
* `clip.rs`: when a second copy fails, `forget` no longer knows the first
  (`NewChatIsClean` excludes a failed clipboard call).
* `read.rs`: refusals and the line that says a text was cut off are not charged
  to the budget; after a failed read the access time is put back unconfirmed.
* The lab never arms the zeroing allocator its comments rely on; a wipe during a
  reply clears the logits the next token is drawn from and the sampler panics
  (`TrapsOnlyWhenWiped`).
* `dsl.rs`: `find_bare_calls` counts braces inside quoted strings, so it is
  checked for strings whose braces pair. `take_valid` in the decoder flushes all that
  is pending when its first byte is invalid, a partial character at its end included.
* gemma4 checkpoints of the E series, whose template does not suppress thinking,
  are replayed with an empty thought channel that generation never opened, so every
  turn is read again from there; `Dialects` is checked for templates that do. It is
  also checked only for replies whose tokens are those the tokenizer gives for the
  pieces the replay encodes one by one: a model may spell the same text otherwise. Text
  next to tool calls is not replayed. The server answers with `reasoning_content`
  and reads `reasoning`, so reasoning that a client echoes is dropped.

### Fairness

`Session!Fairness` says that a call, once accepted, keeps running; nobody has to
make one. `AppEngine!Fairness` says that the engine thread, when it has something
to do, does it, and that a thread inside `shutdown()` is scheduled: one weak
fairness condition for the whole engine thread, since it is sequential, and one
per leaving thread. Nothing is assumed of the window or the user: no turn needs
to be sent, read or stopped. A turn's tokens and tool calls are bounded by the
code (`max_tokens`, `MAX_STEPS`, the calls of one reply), and by constants here.

`Server!FairSpec` says that the runtime polls tasks that are ready, that the
engine thread is scheduled, and that the handler of a wipe whose channel is dead
notices. Clients may do nothing: none has to send, to read on, or to hang up.

`HubFetch!Fairness` says that a running process keeps running and is answered,
and that the user keeps running the command, without `--force` if he likes; that
is the premise of the sentence in `models.md` that `RetriesFinish` states. The
property is about a partial file that stays a beginning of what the server has.
A partial file of full size and wrong content, which a replaced remote file or a
power failure can leave, is refused by every further run until `--force`.

## Proofs

`KvRingProof`, `SessionProof`, `AppEngineProof`, `HubFetchProof` and `ServerProof`
are about the specification of the same name, for every value of the constants.
`ProgramsProof` is about `ProgramsSpec`, in
which any one of the programs runs; every step that the run `parts` takes is a step of
`ProgramsSpec` or leaves all of its variables alone; `ComputeProof` and `DeviceProof` are
about `ComputeSpec` in the same way. Each has an inductive invariant;
what follows says what it adds to the properties and why.

**KvRing.** Assumptions: the sizes are positive, `LayersAssumption` (what
`Config::from_gguf` builds: a shared layer reads an earlier owning layer of its
own kind) and, in the theorems that say so, `BatchFits`: no batch is wider than
a sliding window. The shipped windows are 512 and 1024 and the default batch is
256; without it two rows of one store pass may share a slot and the GPU may
keep either. `Newest` strengthens `ResidentWindow` from "between calls" to
every point inside a call: at each owning layer, for each slot, the newest
position *stored so far* that maps to it is the one it holds. What a layer holds
depends on whether the running call has reached it, so the strengthening speaks
of the end of what is stored, layer by layer. The arithmetic core is that two
positions less than `Slots(l)` apart never share a slot. From it follow
`ResidentWindowHolds`, `LastRowExactHolds`, `UnwrappedExactHolds`,
`OverrunStaysInBatchHolds`; `ScoresFitStrideHolds` needs only `TypeCorrect`.

**Session.** Assumption: `ConstantsAssumption`. `Sound` is the condition under
which the session's view is right: the backend never fails, or the running call
took nothing over from the cache. `CallInv` follows the counters of a call.
`CacheInv` follows, under `Sound`, what the backend holds through prefill and
sampling, and says that between calls it is `cached` if the backend never fails.
From it follow `CachedIsResidentHolds`, `PrefillOnPromptHolds`,
`SamplesOwnContextHolds` and `CallsFitHolds` with a backend that does not fail,
`FreshTurnExactHolds` with any, and `Implements`: with a backend that does not
fail every step maps to a step of `Conversation` or to a stutter, so that the
session with its cache implements the one without.

**AppEngine.** Assumption: `BoundsAssumption`; any set of leaving threads, and
panics. `CmdInv` ties the command in hand to what the thread is doing, and every
queued turn to one that was sent. `ExitInv` says that `closing` is up whenever a
last wipe is queued, in hand or resolved, so that nothing before it in the queue
can make a conversation resident after it, and that nothing is resident while a
model is read. `OrderInv` says that every turn queued behind the wipe of a New
chat was sent from a later conversation, so that after the wipe no turn of the
wiped one is left. With them `LoadFlagTruth`, `ShutdownIsFinal`,
`WipedStaysWiped` and the ranges are inductive together. `CancelInv`, on top of them, counts the calls
left in a round with those already made for nobody, from which `RoundsEndHolds` follows.
`ExitIsWipedAlone` adds `SoleInv` for a single leaving thread and no panic:
nobody finds `closing` up before its own exchange, so nobody skips the wait, and
the process has ended only after a shutdown that returned true.

**HubFetch.** Assumptions: `FetchAssumption` and `OneFetch`, that is one process
fetches the file, the hash is published and the runs verify; any number of
versions, blocks and faults, power failures included. `FileInv` keeps the partial
file apart from the twin and the finished one, and says that what has the
finished name is synced to its end, which is why a power failure cannot undo it.
`CallInv` follows the call: from `Rehash` on, what was hashed is what the partial
file holds up to where the next block goes. From these follow `FinishedIsWholeHolds`,
`HashedIsWrittenHolds` and `OkMeansThereHolds`. `ImplementsDownloadHolds` adds `PlaceInv`: past the look
at the finished name nothing is under it, unless the call is forced. Every step then goes on with the call, and the mapped state stutters
(`GoesOn`), ends it with the finished name untouched (`EndsBadly`) or with the wanted version under it
(`EndsWell`). With two processes the open file also
changes by steps of the other, and the theorem is false (`hub_fetch_two`).

**Server.** Assumption: `ServerAssumption`, that the names of streams, plain
completions and wipes are different ones; any number of each, of tokens, hang-ups
and panics. `WipeInv` is the order of the job channel: a completion is handed over
once, so whatever was handed over before a wipe is never behind it in the channel,
and once the wipe is answered it is neither queued, nor in hand, nor resident.
From it follows `WipedIsGoneHolds`. `ServedAloneAndWholeHolds` compares what a client
was sent with the engine's own account of its generation (`made`, `ended`), which is
kept whether or not anybody listens. `JobInv` says that a job is in the channel once
and never again when it was taken up, so that this account is final when the engine
is through; `ChannelOk` that an open channel holds all of it, with the ending last
and nowhere else; `ReaderOk` that a reader is somewhere along its channel and
answers only at that ending, or when there is none and the channel is over.
`SlotInv` says that a generation under way that still has a task, a stream's in
any case and a plain one's while its client is there, holds the slot itself
(`OneAtATimeHolds`).

**Programs.** Assumption: `ProgramsAssumption`: sizes are natural numbers; a page, an
element, a vector's first capacity and the browser's context are not zero.

*The window* (`UiInv`). Every turn, and every other piece of state that carries a
conversation, carries the current one or none; the clipboard holds what `copied` says
unless a call on it failed; and the last load in the engine's queue is the
last pick, from which `SettlesOnLast` and `ForgottenIsGone` are inductive.

*The REPL* (`ReplInv`). While the reader waits for a wipe it is the last command in
the channel; when it is gone nothing is behind it, the engine is back in its
loop and what it holds was wiped after the last turn, or the thread is dead and
everything was freed with it. With the parity of the history (odd during a turn,
even otherwise) this gives the REPL's half of `ForgottenIsGoneHolds` and
`HistoriesAlternateHolds`, and `CutsOwnTurnHolds`.

*Granted reads* (`ReadInv`). `TraceInv`: a call goes on only while every access
time it moved has been put back; `AllowedInv`: what is open passed the test on
what was opened, not on what was seen before; `BudgetInv`: one answer ends the
call, so that at most one suffix is added to what the budget covers. They hold
whatever is put in a file's place between the two looks, at any depth.

*Locked memory* (`SecretInv`). `VecInv`: an allocation is as long as its layout, which
is what zeroing covers, the bytes of each element are where it was put, and after
a wipe all are zero; `HeapInv`: nothing was leaked, and a block is on the zeroing
heap only once that is armed. It is stated byte by byte, for every page and element
size; that a vector always grows enough rests on there being a power of two
above every number, which is shown by well-founded induction.

*The browser*. `ResidentInv`: during a prefill the rows are a
prefix of the prompt, during decoding they are `prompt \o fresh`, and they stay
within the context however often the page is let in. `ArmedInv`: nothing is asked
before the heap is zeroed as it is freed. `ChatInv` and `ProbeInv`: each of
the lab's caches is its tokens up to its length; `TrapInv`: logits are missing
only after a wipe. Together they give `BrowserCachesAreOwnHolds`.

**Compute.** Assumption: `ComputeAssumption`: the threads of a workgroup and the lanes
of a row are powers of two above one (the code has 256 and 32), rows divide the
workgroup, tensors have blocks that take room, the alignment and the sample are not
zero, nor are tiles, heads, taps, patches and the limit on groups. Batches, outputs and
rows may be empty.

*A workgroup* (`WorkgroupInv`). Between two barriers all threads are at one place of the
kernel or past it (`Stretch`), and the place says what may have been touched and what
each cell holds. `Resting`: nothing. `Filling`: own cells only, each with its own part.
`Folding`: a thread below half `h` has its own sharers at a distance of `2h` before
its fold and of `h` after it, while the upper half still has what it had; nobody
writes there, so what is read is what the last barrier left. `Taking` and
`Scanning`: reads only. The arithmetic core (`SharersOfHalf`) is that the lanes at a
multiple of `h` are those at a multiple of `2h` and those `h` further, so that with a
power of two the last fold leaves lane 0 with the whole group; it is where a
workgroup of another size would lose lanes. `NoDataRace` follows from the
stretch, `TakesWholeRound` is carried along as values are taken, and `ReductionsAreSafeHolds` joins the
two, for every kernel, any number of threads and of rounds.

*Upload* (`UploadInv`). `PlanOk` is what the packing plan promises after every tensor:
handles in range, aligned, inside their buffer and apart, no buffer above its target,
a tensor at the front of every buffer that is not empty, and, without padding, sizes
that sum to what was packed. It is shown for every prefix of the plan by taking the
least one that breaks it (`LeastNumber`). Then, while a file is streamed: `Cursor`,
where it has come to; `SentIsThere`, if no write was dropped, every cell sent so far is on
the device as encoded; `Heads` and `Spans`, a buffer that something was sent to has a
sample that starts with real data and lies wholly behind what is still to be written,
which is why later chunks cannot spoil it; `Counted`, for lists without padding,
the bytes counted are those of the plan up to the cursor. `Mapping` says the same of
the mapped upload a buffer at a time, and `Outcome` of the verdict. With them
`ResidentAsFiledHolds`, for every list of tensors, chunk and sample size.

*Indices*. `KernelsIndexAlike` is about functions, so its invariant only says that the shape tried
is one of `AnyShape`; the work is in the lemmas on each kernel. Reads
(`ReadsAsFiledHolds`): an element's number has digits in the bases of its format
(block, part, group, lane), every unit of a kernel takes the elements at its places, and
its word, byte and shift are those of the digits (`MatvecQ6kReads` and the like); the
places of the units split the row (`RunsArePartition`, `StripsArePartition`), and
repacking moves a field's first byte and nothing else (`TakesAsFiledHolds`). Writes
(`WrittenOnceHolds`): from the output a thread stores, its place in the grid, its turn of
the strided loop and its place in the tile can be computed back, so that threads and
outputs correspond one to one (`BackAndForth`), at the tails of tiles too and where
the grid is clamped. Cells (`GathersAlikeHolds`, `RotatesAlikeHolds`): quotient and remainder of a flat
index are the loop counters of the CPU. The convolution (`ConvolvesAlikeHolds`) slides
its window token by token on the CPU and once a batch on the GPU: `Window`, by
induction on the tokens, says that both leave the same rows, wherever a prompt is cut.

**Device.** Assumption: `DeviceAssumption`: every model is `Loadable`, a layer that shares a
cache takes that of an earlier layer of its own kind and no two layers have a buffer in
common, and context, batch and window are not zero; any number and pattern of layers, of
conversations and of models. A buffer is *sound* in a pass (`Sound`) when the
rows the pass looks at hold the conversation it runs for and nothing else, and never
nothing where the logits need it. What the pass looks at differs by buffer (`Area`): the rows of the batch in
scratch, the slots up to its last position in a cache, the one row of
recurrent state. `OwnBefore` keeps apart what an earlier pass left and this one has not
written yet.

Then three levels. A kernel *leads* from some sound buffers to others, whatever else is on
the device (`Leads`): `SeenIsOwn` is the heart for attention, that every slot a row can see
is one the conversation has stored; `WriteLeads` that a store in the ring spoils no slot
that is still to be read; `CommitLeads` that recurrent state is carried over. A list of dispatches *flows* (`Flows`) when
its kernels lead from one to the next; a layer of either architecture is a
chain of them (`GemmaLayerFlows`, `QwenLayerFlows`), which reads nothing but `h`, the
caches of its own and earlier layers, and what it has written itself. A
plan is the layers one after another, and flows by taking the first layer at which it would not
(`BodyFlows`, with `LeastNumber`); that is the induction over the configuration. `DeviceInv`
is what remains between calls: rows behind `pos` are of the conversation served,
whatever lies beyond; a reset moves `pos` to 0 and needs recurrent state to
be cleared, which is where it matters that it is (`RewindKeeps`). After a wipe all that
`WipeClears` names is empty, and what no dispatch writes never held anything (`Still`); for
models with per-layer embeddings that leaves out four buffers, hence the hypothesis of
`WipedIsCleanHolds` and the run `device_wipe`.

**Only model-checked**: all liveness, which is outside the reach of the prover, as
is anything that needs ENABLED; `Split`, `Bpe`, `Dsl` and `Dialects`
(`TextAsReference`), which are RECURSIVE over their data; and that the plans compute what
the CPU computes and bind no buffer twice (`StepForStep`, `PlansRun`): these compare the
terms and arguments of every dispatch of a configuration, of which the proofs above only
use what a dispatch reads and writes.

## Not modelled, and why

* Floating point: what a matvec, a norm or a softmax computes, dequantized values,
  image preprocessing, the sampler's sort and draw, the lab's attribution. None
  keeps state between calls.
* `KvCache::truncate`: no caller. The wipe after the engine's receive loop: the
  `ENGINE` static keeps a sender, so the loop does not end while the process
  lives.
* The CPU backend asserts where the GPU backend refuses a batch; `CallsFit`
  shows that the session gives it no reason to.
* In `AppEngine`, what a turn computes (that is `Session`), and what a tool reads
  (that is `ReadGrant`).
* Of downloads, everything before the HEAD request (specs, aliases, the choice of a
  file in a repository, the check of its header) and the progress display.
* The walk over a GGUF header: straight-line parsing in which every read is
  checked against the end of the file.
* The generated table `unicode.rs`, whose classes `Split` takes as given; tool
  declarations in prompts; JSON.
* Opening a device, pipelines, subgroup and fallback variants that differ only in
  arithmetic; the bisect, check and benchmark programs.
* Markdown rendering, icons, progress bars, command lines.

## Plan

What is left is proof. `PlansRun` for every configuration, one segment of a plan at a
time (the list `Dispatches` of `Mirror` would become a set of dispatches first).
`StepForStep` compares terms of every dispatch, and `TextAsReference` is recursive over
its data: both stay with TLC.
