# SoftSIM verification

TLA+ models of the nRF91 SoftSIM port in this repository, the TLC configurations
that check them on small instances, and TLAPS proofs of their safety properties
and refinements for every size.
`PROJECT.json` lists every run, mutant, theorem and hazard and maps each
definition to the lines it models.

## The system

A SoftSIM is a SIM card in software. The modem sends it requests (power on,
power off, reset, APDU) as if it were a card.

| Part | Source | State | Operations |
|---|---|---|---|
| Request handler | `lib/nrf_softsim.c` | request FIFO, work item, SIM context | init, interrupt handler, work task (INIT, DEINIT, RESET, APDU, unknown), commit |
| Filesystem and cache | `lib/ss_fs.c`, `lib/ss_cache.c` | directory table, 10 slots of buffered files, NVS | mount, unmount, commit, open, close, read, write, seek, put, remove, size |
| Provisioning | `nrf_softsim_provision`, `port_provision`, key import in `lib/ss_crypto.c` | PSA keys KI, KIC, KID; the records IMSI, ICCID, A001, A004, SMSP | decode, import keys, write records, check |
| Sample application | `samples/softsim_external_profile` | boot flow, receive buffer, semaphores, delayed work | init, check, receive, provision, factory reset, reboot, connect, transmit |
| Crypto port | `lib/ss_crypto.c` | PSA keys, the PSA operation of a call | AES in place, CMAC, key setup |
| Heap, logging, build asserts | `lib/ss_heap.c`, `lib/ss_logp_zephyr.c`, `lib/build_asserts.c` | none that matters here | – |
| UICC core | external submodule | the card's logic | called with APDUs; opens, reads and writes files |

How they interact: the modem library calls the request handler in an
**interrupt**. The handler queues a node and submits a work item. A **work queue
thread** drains the FIFO, calls the UICC core, which uses the filesystem,
answers, commits when the request asks for it, and frees the request. The
application's **main thread** provisions a profile before it activates the
modem. The **serial interrupt** fills the buffer `main()` reads the profile from;
the modem's **LTE event handler** and a **delayed work item** take over once the
device is on the network.

What is hard to get right, and to test: interrupts between any two steps of the
worker; power loss between any two flash writes; NVS and the key store refusing
a write; memory running out; the directory table being compacted under live
buffers; eviction of changed files; 16-bit positions; a directory record cut off
in flash; a cipher that fails half-way through a buffer it works on in place.
`PROJECT.json` lists these hazards at their lines.

## Modules

| Module | Models | How it corresponds |
|---|---|---|
| `FileStore` | what the filesystem promises the core | files with the content the core sees (`view`) and the content in flash (`disk`), and the open file (`open`); only a write to the open file, a removal or a power loss changes the view |
| `SoftSimFs` | `ss_fs.c`, `ss_cache.c` | `nvs`, `fs_dir`, `fs_slots`, `fs_is_initialized` are the code's; `fp` and `opened` are the handle the core's storage backend holds; one action per call |
| `SsFile` | the bytes of one open file | `buf`, `p`, `l`, `dirty` are `buf`, `_p`, `_l`, `_b_dirty`; `wrote` is what was last loaded or written at each place, `stray` the accesses that left the buffer; one action per call, with any arguments |
| `DirTable`, `Fnv` | `ss_dir_table_from_blob`, `ss_dir_find`, `fnv1a` | `blob`, `cursor`, `count`, `dir` are the code's; one step per iteration of a loop; the hash is a parameter of `DirTable`, and `Fnv` is the code's on fewer bits |
| `SlotScan` | `ss_slot_acquire` | the two loops with their three running minima, on the tables of `SoftSimFs`; `SoftSimFs!ss_slot_acquire` is the declarative definition they must agree with |
| `RequestServer` | what the handler promises the modem | requests accepted, answered in order, or lost with the power |
| `SoftSimHandler` | `nrf_softsim.c` | `fifo`, `queued`, `ctx` are the FIFO, the work item and the context; `boot` is how far `nrf_softsim_init` has come, `pc` is the worker; one action per case of the dispatch and per step that an interrupt can separate from the next |
| `Provision` | `nrf_softsim_provision` and what it calls | `step` is the flash write the call is at; one action per write; `smsp` has the parts of EF.SMSP |
| `SampleBoot` | the sample, with `nrf_softsim_init` and the modem hooks | `build` is the Kconfig choice; `main_pc` is `main()`; `rx`, `rx_enabled`, `profile_received` are the receiver's; `work` is the delayed work item |
| `SsCrypto` | the cipher and checksum calls of `ss_crypto.c` | `buf` is the caller's buffer, `done` and `out_len` are `bytes_written` and `*output_len`, `op` is the PSA operation; one action per call into PSA |
| `MC...` | – | the constants of the runs |
| `SoftSimFsProofs`, `SoftSimFsRefines` | – | theorems about `SoftSimFs` |
| `SsFileProofs` | – | theorems about `SsFile` |
| `CacheProofs` | – | theorems about `DirTable` and `SlotScan` |
| `SsCryptoProofs` | – | theorems about `SsCrypto` |
| `SoftSimHandlerProofs`, `SoftSimHandlerRefines` | – | theorems about `SoftSimHandler` |
| `SampleBootProofs` | – | theorems about `Provision` and `SampleBoot` |

Composition: `SoftSimHandler` uses `FileStore` (`FS == INSTANCE FileStore`) as its
filesystem, and `SoftSimFs` is proved to implement `FileStore`; `SoftSimHandler` in
turn is proved to implement `RequestServer`. `SlotScan` extends `SoftSimFs`, whose one-line slot
search it implements. `SampleBoot` extends `Provision` and runs it inside
`nrf_softsim_init` and `main()`.

Operators whose comment begins with "Fault:" are not part of any specification.
Each is a plausible mistake in the definition below it, and substituting it makes
the property it is paired with in `PROJECT.json` fail.

### Abstractions

* `SoftSimFs`: a file is its path. The hash and the NVS key stand for it one to
  one. A content is a value with a size. The storage backend opens one file at a
  time, so there is one handle. A removal of the open file does not occur.
* `SoftSimHandler`: an APDU is told apart by its instruction byte only (STATUS,
  ENVELOPE or other). The core's file operations during an APDU are arbitrary.
  "Answered" means that the call to `nrf_modem_softsim_res` or
  `nrf_modem_softsim_err` was made; when the modem library refuses it, the
  request times out in the modem, as `docs/architecture.md` says.
  The interrupt is enabled once the handler is registered where `EarlyModem` is
  set, else once `nrf_softsim_init` has returned, as the documentation asks for.
* `Provision`: a key or record is the profile it came from. The length check, the
  decoder and the check for missing fields are one: `BAD` is what they reject.
  EF.SMSP is four parts, since it is overlaid and not replaced.
* `SampleBoot`: the network admits a device whose software SIM is selected, whose
  request handler is registered and whose KI is that of its IMSI.
* `DirTable`: a byte past the end of the blob reads as zero; that none is read is
  the property `ReadInBlob`. `starts` and `read` are history variables.
* `SsCrypto`: a byte is the input byte or the output byte of its position, zero, or
  junk. PSA enforces a key's policy, gives out whole blocks in order, now or
  later, and may leave junk where a failed call was to write.
* `SsFile`: `WORD` is 16 instead of 2^16, with every conversion kept. Fresh memory
  holds any bytes. NUL and newline are the same value in the runs, since the code
  treats them alike. The caller makes any calls, seeks past the end or before the
  start included. A read outside the buffer returns any bytes. After a write
  outside the buffer anything may happen; the model then only starts again.

## Runs

| Run | Shows |
|---|---|
| `fs_cache` | through loads, evictions and removals every buffer belongs to its entry; a clean buffer equals its record; a handle keeps its file; a refused change stays buffered; a commit-on-close file is durable after its close; sizes are those of what a read returns, and of a buffered file never an error; the cache is transparent: `SoftSimFs` implements `FileStore`; the proofs' inductive invariant (types and unique entries included) holds |
| `file_bytes` | whatever reads, line reads, seeks, puts, writes, commits and reloads come, the buffer holds every byte where it was put, and a clean file is its record to the byte; a call from inside the file, or from its end, stays in the buffer and reads what was written |
| `file_growth` | *violated*: a commit does not store what `ss_fwrite` wrote past the end |
| `cache_tables` | the DIR parser reads nothing past the record, ends, and builds exactly the table of the complete records; in a table it accepts a hash identifies one file; the loops of the slot search find the slot `SoftSimFs` takes |
| `crypto_ops` | an AES call leaves the whole result or zeros; a key serves its purpose only; no PSA operation stays set up; a checksum covers all data once |
| `handler_safety` | with any modem, even one that does not wait for `nrf_softsim_init`: every request is answered once, no wakeup is lost, payloads and contexts are balanced, only plain APDUs' writes are at risk between requests, a suspended card is kept, the core gets a NULL context only from a request outside a session, and the handler implements `RequestServer`, which has the order of the answers |
| `handler_liveness` | every queued request is answered, or lost with the power or in the fault of a NULL context |
| `handler_payload_leak` | *violated*: the payload of a request that got no node is not freed |
| `handler_init_order` | *violated*: INIT resets the card before the filesystem is up |
| `provisioned_without_key` | *violated*: a failed key query counts as a key |
| `sample_boot` | the receive buffer is stable while `main()` uses it and never overfull; the modem comes up only with an identity (without the factory reset); keys are in place before the identity is; a call that returns 0 wrote all records and overlaid EF.SMSP in the right order |
| `sample_once` | in every configuration: a configured factory reset comes before the network, unless the power went first; a provisioned device sends messages for ever |

The violated properties each state what a test, comment or document of the
repository says; `findings` in `PROJECT.json` quotes it.

More things the models show, and no run asks about:

* A modem that sends RESET or an APDU outside a session (before INIT, after DEINIT,
  or after an INIT that failed) makes the worker hand the core a NULL context:
  `pc` becomes "fault". `NullOnlyOutsideSession` says that this is the only way, but
  for a modem that did not wait for `nrf_softsim_init`. A read after a seek past the
  end leaves the buffer, and so does a put from a place more than one growth step
  past it; `InsideStaysInside` says that only such a position leads there.
  `nrf_softsim_provision` returns 0 when a key import failed, and the 3DES functions
  leave the buffer as it was. The tests of the repository record the NULL context, the
  seeks and these two as expected failures (`tests/handler`, `tests/fs`,
  `tests/crypto`).
* A power loss after the IMSI and before the other records leaves a device that
  reports a profile and is not provisioned again; `docs/provisioning.md` describes
  the check as key and IMSI only.
* A request that comes between the registration of the handler and the start of
  the work queue waits for the next request, and the context it creates may leak:
  `NoLostWakeup` and `OneContext` name this exception (`early`, `hasty`).
* When `ss_init_fs` fails and a static profile then brings the filesystem up,
  `nrf_softsim_init` still returns -1 from its old `rc`, until the next boot.
* When `lte_lc_connect_async` fails, `main()` waits for ever.

### Bounds

* Filesystem: three files over two slots, so a third open evicts, a removal
  moves an entry that is buffered, and all slots can be dirty. One file is
  commit-on-close. Contents of two sizes make both branches of the buffer reuse
  and of the growth happen. `HITS_MAX` 1 makes the counter saturate at once;
  the ranking of victims by their hits is checked in `cache_tables`, with 2.
* `SsFile`: a record of up to two bytes and a buffer of up to four, so that a put
  grows the buffer, and elements of one and two bytes (`MAX_IO`), so that a read
  ends in a partial element. Seeks are by up to 8 either way from each origin; with
  `WORD` 16 this reaches every position, by wrapping around too.
* Handler: three requests put one at the worker and two in the FIFO, and make INIT,
  DEINIT, INIT and INIT, DEINIT, RESET possible. Two file operations per request
  cover a write and an eviction in one APDU.
* `DirTable`: blobs of up to ten bytes, room for three records, over bytes that
  give a name of no, of one and of too many characters, keys with and without the
  commit flag, and on four bits of hash names that collide, also of entries that
  are not neighbours.
* `SlotScan`: three slots with every counter, size and dirty flag, so that each of
  the three candidates wins, and ties and ceilings occur.
* `SsCrypto`: blocks of two bytes and buffers of up to seven: none, one, several
  blocks and parts of one, and output held back for more than a call.
* Provisioning and sample: three profiles, one with SMSP and SMSC, one with the
  SMSC only and one with neither, of two characters in a buffer for three, so that the buffer fills
  up. `sample_boot` has all faults, two provisioning calls, so that a profile is
  replaced or a failed call repeated, and one power loss; `sample_once` has all
  twenty configurations (static profile of each kind, a rejected one or none,
  auto-init, factory reset), three calls, two power losses and no faults.
* `CHECK_DEADLOCK FALSE` is for the sample and for `cache_tables`: `main()` returns
  when there is no UART, and the two functions of the cache return.

### Fairness

* `SoftSimHandler!FairSpec`: weak fairness of the worker. The work queue has its
  own thread and priority, and nothing in the task waits. Nothing is assumed of
  the modem.
* `SampleBoot!FairSpec`: weak fairness of `main()`, of the work queue and its timer,
  and of the registration of a device the network admits. Nothing is assumed of
  the host that sends the profile, and power losses are bounded.
* `MCCache!CacheSpec`: weak fairness of the one thread that runs the call.

## Proofs

Every safety invariant, action property and refinement that a passing run checks
is also a theorem, for every value of the constants that satisfies the named
assumptions. Each component has one inductive invariant, which a run checks
first wherever the table names a run; `Spec => []Inv` is proved from it with one
lemma per action and, under it, one step per conjunct the action disturbs.

| Module | Inductive invariant (run) | Theorems |
|---|---|---|
| `SoftSimFsProofs` | `IInv` (`fs_cache`) | `Invariance`, `TypeCorrect`, `TablesConsistent`, `CleanSlotsDurable`, `HandleSafe`, `CloseDurable`, `RefusedKept` |
| `SoftSimFsRefines` | `IInv` | `Refinement`, `SizesOfViews` |
| `SsFileProofs` | `FileInv` (`file_bytes`) | `FileInvariance`, `BytesKept`, `AccessesInBuffer`, `ReadsAreExact`, `CleanIsStored` |
| `CacheProofs` | `ScanInv` | `ScanInvariance`, `ScanCorrect` |
| `CacheProofs` | `ParseInv`, `TableInv` (`cache_tables`) | `ParseInvariance`, `ReadsStayInBlob`, `TableInvariance`, `TableFromBlob`, `LookupsExact` |
| `SsCryptoProofs` | `CryptoInv` | `CryptoInvariance`, `NoHalfCipheredBuffer`, `KeysDoTheirJob`, `OperationsReleased`, `ChecksumIsOfTheData` |
| `SoftSimHandlerProofs` | `HandlerInv` (`handler_safety`) | `HandlerInvariance`, `RequestsAnsweredOnce`, `PayloadsFreedOnce`, `WakeupsKept`, `ContextsBalanced`, `RiskIsLazy`, `SuspensionKept` |
| `SoftSimHandlerRefines` | `HandlerInv`, `SessionInv` | `ContextInSession`, `ServesInOrder` |
| `SampleBootProofs` | `SampleInv` (`sample_boot`), `ResetOwed` | `BootInvariance`, `BootTypeCorrect`, `KeysComeFirst`, `OkIsComplete`, `ModemNeedsIdentity`, `BufferKept`, `ResetBeforeNetwork` |

### Filesystem

`FsAssumption` says that there is a slot, that the DIR record names every file
once, and that contents fit the largest buffer.

The invariants are not inductive one by one. That a clean buffer equals its
record survives `ss_remove` only if every buffer belongs to exactly one entry, as
otherwise the re-pointed buffer could be that of another file; this needs the
directory to name a file once. The handle keeps its file through a removal for
the same reason. A commit-on-close file is durable only if the flag of its entry
is that of its key after the entry has moved (`FlagsFromKey`), and a mount
overwrites nothing only if there is nothing to overwrite (`DownIsEmpty`). `IInv`
is the conjunction.

`Refinement` is `Spec => ImplementsFileStore`. The
refinement mapping takes the content the core sees to be that of the buffer, else
of the record, and nothing for a removed file (`View`); the open file is the
path of the handle. Each action is a step of `FileStore` (`ss_fwrite` and `ss_fputc`
are `Write`; a commit, and an eviction whose load then fails, are `Flush`; an open
that evicts is `Open` with the files it flushed; the rest by name) or leaves it
unchanged. The open file in the abstract state is what gives the theorem its
force: without it an eviction that dropped a change would pass for a write of the
old content. `SizesOfViews` rests on the same mapping: the slot `ss_file_size`
finds is the only one of that file. `ss_file_size` returns -1 when NVS cannot be
read, which the theorem confines to files that are not buffered.

### Bytes of a file

`FileAssumption`: bytes include NUL and newline, and no buffer the heap can give is
as long as the 16-bit fields can count. Nothing is assumed of the caller: the
position may be any 16-bit number.

`FileInv` says that the length stays inside the buffer until a write leaves it, that
the buffer holds every byte in its place, and that a clean file is its record.
The last needs the first, since a commit writes the first `_l` bytes, and the
second survives a growth only because the old bytes are copied before the new
ones go in. `InsideStaysInside` and `ReadsTheFile` are about calls from a position
`p <= l`, where `_l - _p` does not wrap. What a read should return is
defined as the most whole elements, or the longest part of a line, that the file
still has; that these exist and are what the code's division and loop arrive at
is proved from the least-number principle (`LeastExists`).

### Directory table

Nothing is assumed but that the blob is a sequence of bytes; the hash is arbitrary.

That the second pass stays inside the record is not evident from its own code: it
has no test for truncation and relies on the first. `ParseInv` says why: the
offsets at which the first pass found records (`starts`) follow each other from 0,
none is truncated, and the second pass is always at the next of them.

`TableInv` relates the two loops to the definition of the blob's records, the
recursive function `Records`: the records counted, followed by `Records[cursor]`,
are `Records[0]` in the first pass; in the second, entry `k` is made of the record
at `starts[k]`; a table is returned only when it is complete and no two hashes
collide. That `Records` satisfies its own equation is proved, not assumed: the
offsets at which it does are shown to have no last exception (`LastExists`,
`RecordsExist`, `RecordsUnfold`). `TableFromBlob` and `LookupsExact` follow.

### Slot search

`ScanCorrect`: the two loops return the slot that `SoftSimFs!ss_slot_acquire` defines
as the least used of the best class, the first of equals, and one always exists,
also with every counter at its ceiling. `ScanInv` says that no free slot was
passed over and that each running minimum belongs to the first least used of the
eligible slots seen so far.

### Crypto

`CryptoAssumption` is that a block has a length. `CipherProgress` is the invariant of
the in-place loop: the buffer begins with the output so far, PSA has been given
the input so far, and the input still to be given has not been overwritten,
which needs that PSA never gives out more than it was given. `MacProgress` says
the same of the two pieces of a checksum, and that the first stays a whole
number of blocks. `CallState` says that PSA has admitted the key before anything
is written. `CryptoInv` has been checked with TLC in the configuration of
`crypto_ops`, which checks the four properties it implies.

### Request handler

`HandlerAssumption` and `NodeAssumption` only tell NULL from contents and nodes and
give the bounds their types. `HandlerInv` needs: that request ids ascend from the
worker's request through the FIFO to the next one (`IdsInOrder`), so that a node is
in one place only; that nothing is known of a request that has not come
(`FutureIsBlank`); what the worker holds at each of its steps (`ThreadState`); that a
wakeup is pending already between the last `k_fifo_get` and the return
(`WakeupPending`), where `NoLostWakeup` alone is not inductive; and why flash lags
behind for each file it lags behind on (`LagExplained`).

`ServesInOrder` is `Spec => ImplementsRequestServer`. Pending requests are the
worker's, while it is unanswered, followed by the FIFO (`PendingIds`). The interrupt is
`Accept` or `Refuse`, the step that answers is `Serve`, a power loss is `Lose`, and all
other steps leave the abstract state alone.

`ContextInSession` is `Spec => []NullOnlyOutsideSession`. A session is open from the
answer to an INIT that succeeded to the answer to the next DEINIT or failed INIT,
or a power loss; the modem is free to send what it likes in or outside of
one. `SessionInv` adds that an open session has a context, also while a request is
at the worker, unless the modem was hasty. All theorems hold for any modem.

### Provisioning and sample

`ProvisionAssumption` and `BootAssumption` tell the special values from profiles and
give bounds and build options their types. `CallInv` ties how far a call has come
to what it has written: a key is imported or still pending (`KeyPending`), a record
is written once its step is past (`EfWritten`). `BootInv` says that a call is under
way only while the boot waits for it, and that RX is enabled only while `main()`
waits for a profile that was not signalled. `SampleInv` is both with the types.
`BufferKept` follows step by step: an interrupt that could change the buffer needs
RX enabled.

`ResetBeforeNetwork` assumes that NVS and the modem do not fail a call, as
`sample_once` does; the key store may fail. Its invariant `ResetOwed` says that a
modem that remembers another SIM than the one in flash belongs to a boot that
will still reset it.

### Only model-checked

* Liveness: `QueuedIsAnswered`, `ProvisionedKeepsSending`, `ParseEnds`. The prover
  has neither ENABLED nor fairness.
* What `fnv1a` computes: `Fnv` gives TLC the code's hash on few bits. The theorems
  about `DirTable` hold for every hash.

The induction theorems of the library take an operator as a parameter, which the
provers cannot instantiate, and operators declared RECURSIVE cost the SMT
backend. The proofs use neither: loops and the one recursive function are handled
with least and last elements of sets of numbers, from the well-foundedness of `<`.

## Not modelled

* The UICC core, the modem library, PSA, NVS and Zephyr are external: the models
  let them do what the code here must cope with.
* The bytes of the provisioned records: a record is the profile it came from.
* The flags `port_provision` clears. In the template none of the files it writes
  has one set (only the sequence-number files have), so this changes nothing.
* Provisioning while the modem is active, which `docs/architecture.md` excludes.
* A failed allocation of the buffer for the DIR record (`ss_init_fs` does not check
  it): what NVS then does is not in this repository.
* Logging, the heap's layout, the build-time assertions, the template, and what
  the sample sends.

## Plan

Every part with state of its own is modelled, and what the runs check of its
safety is proved. Possible next steps:

1. A theorem that relates the bytes of `SsFile` to the contents of `SoftSimFs`, so
   that the two levels compose as `SoftSimFs` and `FileStore` do.
2. An abstract specification of provisioning (a profile is installed, or is not)
   that `Provision` implements when no power is lost.
