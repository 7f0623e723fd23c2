# A verification development for libFirmwareUpdate++

libFirmwareUpdate++ downloads firmware to USB devices in DFU mode: plain DFU 1.1
and the DfuSe extension of ST. It is a C++ library; the application calls
`DfuDownloader::run`, and everything else happens in the calling thread, against
a device that works on its own between the transfers. The hard part is exactly
that pairing: the library never knows what the device is doing except through
status polls, and each of those can be lost, late, or stale. One object, the
`Context`, may be shared by several threads.

Paths below are relative to the repository root.

## 1. Inventory

| component | state | operations | works with |
|---|---|---|---|
| `DfuDownloader` (`src/dfu/DfuDownloader.cpp`) | the probe, the file, options | `run`: search, detach, search again, status loop, download, final reset | `DfuFinder` for the search, `DfuInterface` for requests, one of the two controllers |
| `DfuController_download` (`src/dfu/DfuController.cpp`) | bytes sent, block number, progress (locals of `run`) | `run`: chunk, poll, ..., end marker, poll | `DfuInterface`, `DfuFile` |
| `DfuseController_download` (`src/dfuse/DfuseController.cpp`) | last erased page, leave address, reader position, options | `run`, `dnload_dfuseFile`, `dnload_element`, `dnload_chunk`, `specialCommand`, `abortToIdle` | the same and `MemLayout`, `DfuseFilePart` |
| `DfuInterface` (`src/dfu/DfuInterface.cpp`) | handle open, interface claimed | `open`, `claim`, `release`, `close`, `getStatus`, `clearStatus`, `abort`, `detach`, `download` | libusb |
| `MemLayout` (`src/dfuse/MemLayout.cpp`) | the segments of a device's memory | parse the interface name, find a segment | - |
| `DfuFile` (`src/dfu/DfuFile.cpp`) | data, sizes of its parts, fields of prefix and suffix | `loadFile`, `loadStdIn`, `storeFile`, search id | `PackedData`, `CRC32` |
| `DfuseFilePart` | headers of a DfuSe file | parse | `PackedData` |
| `DfuFinder`, `DfuFinderImpl` (`src/dfu/DfuFinderImpl.cpp`) | results, the descriptor at hand, an open handle | `find`: walk over devices, configurations, settings | libusb, `UsbId`, `UsbDfuFuncDescriptor`, `quirks` |
| `UsbId` | vendor and product, each may be unset | match, merge, default | - |
| `Context`, `ContextImpl` (`src/ContextImpl.cpp`) | handlers, log level, libusb context, a recursive mutex | set handlers and level, `log`, `progress`, `getLibUsbCtx` | all of the above; may be used from several threads |
| `PackedData`, `CRC32`, `UsbDfuFuncDescriptor`, `quirks`, `Util` | - | pure functions and tables | - |

What is hard, and what would make each component right:

* **The polling loops.** After each block the host polls until the device shows
  `dfuDNLOAD_IDLE` or `dfuERROR`. The device programs in its own time; polls fail,
  return short, and the status structure is then what it was preset to. Right
  means: the next block is sent only after the last one has been programmed, no
  block twice, "done" only with the whole file there, and the loop ends.
* **Pages.** DfuSe memory has to be erased page by page before it is written, and
  pages have different sizes. Chunks neither start nor end at pages. Right means:
  nothing is written where nothing was erased, and nothing is erased that was
  written.
* **Names.** The map of that memory comes as the name of the interface, read with
  `sscanf` and the number of characters it says it has read, which it only says when
  it gets to the end of its format. Right means: the map is the device's.
* **Re-enumeration.** A device that is told to detach vanishes and comes back under
  another id. Right means: the one that comes back is the one that left, and no
  handle is kept open across it.
* **The way through `run`.** The device may be found in any of its states, and
  three gotos lead back to the status loop or into the middle of the path. Right
  means: on each path the interface is claimed when a request is made, given back on
  every exit, and the controllers get a device they can start from.
* **The search.** Any call into libusb may fail in the middle of four nested loops,
  descriptors may be missing, short, or of length zero, and one descriptor variable
  serves all configurations. Right means: a failure costs no other setting its place,
  each result has its own descriptor, what was opened is closed, and the walk ends.
* **Files.** Prefix, payload and suffix are told apart by sizes held apart from the
  bytes; a DfuSe file counts its images and elements and may be torn anywhere.
  Right means: sizes never overlap; a torn file does not pass for one with a suffix; what is
  stored can be read again; no read goes beyond the payload.
* **Threads.** `ContextImpl` calls handlers with its mutex held, and they call it
  again, replace each other, or throw; the level is stored first and libusb told
  later; the progress handler is read without the lock. Right means: the lock is held
  as often as there are guards, libusb is asked for one context and ends up with the
  level that was set, and every call returns.

`PROJECT.json` lists every hazard with its line and the properties about it.

## 2. Modules

```
StreamDownload    FlashDownload             abstract: what a download promises
      ^                 ^
DfuController   DfuseController             run() of the two controllers
      |  ^              |   |
      |  DfuDownloader  |   MemLayout, DfuseFilePart
      |       |         |                   run() around them, the bus
      +-------+---------+
       DfuControllerBase                    transfer size, states handed over
              |
         DfuInterface                       requests
              |
          DfuDevice                         external: the device

DfuFinder -- UsbDfuFuncDescriptor, UsbId, quirks      the search
DfuFile   -- PackedData, UsbId                        files
ContextImpl                                           what threads share

DfuDeviceProofs <- DfuControllerProofs <- DfuDownloaderProofs      proofs
DfuDeviceProofs, MemLayoutProofs <- DfuseControllerProofs
DfuFileProofs   DfuFinderProofs   ContextProofs
```

An arrow is a refinement or an INSTANCE, a line EXTENDS; `DfuDownloader` extends
`UsbId`, and the modules that read bytes `PackedData`, as well. Each `MC...` module only
defines values for the constants. A definition named `X_Something` beside `X` is a way to
get `X` wrong: it shows that a property can fail, and is part of no behaviour.

**DfuDevice** is not code of this repository. It is the DFU 1.1 state machine the
library relies on, as a record of protocol state, whether bStatus is OK, and
whether the device has work left for the last request. It stalls what it does not
accept. A plain DFU device may begin to program a block once it has it; a DfuSe
device begins when it is asked for its status, as ST's bootloader does, which is
what `specialCommand` counts on when it demands `dfuDNBUSY` from the first poll.

**DfuInterface** gives each request the set of outcomes it can have: accepted; accepted
by the device but reported as failed (a timeout); lost before it got there;
stalled. A request to the device that returns without an error has been taken whole. That is libusb's and the
device's part: a device stalls a control transfer of which it does not take all. The code relies on it,
as `assert_usbXferOk` (`src/ContextImpl.cpp:221`) looks for negative returns only, so that a short count would
pass for a sent block at `src/dfu/DfuController.cpp:97`; `dnload_element` alone compares the count. `getStatus` presets its result and may come back failed, short, or
answered; both the device's state and what the host believes are in the outcome.

**DfuController** is `DfuController_download::run`. Its `pc` stands for the place in
the code, and one control transfer is one step: `Begin` (lines 71-89 and the transfer
size in the base class), `SendChunk`, `PollChunk`, `SendCompletion`, `PollManifest`,
and the device's `DeviceProgram`, `DeviceManifest`, `DeviceFail` in between. Bytes of
the file are named by their offsets, so `image` shows which bytes are on the device,
in which order. A job is what one call finds: sizes of the file and of its suffix,
what the device advertises.

**DfuseController** does the same for DfuSe. `Begin` parses the interface name and
turns the options into commands; `OpenFile`, `NextImage`, `EndOfImage` and `NextElement`
are `dnload_dfuseFile`, with the reader's position `pos`, the bounds checks, and the
loop counter `image`, which is a `uint8_t` in the code and counts modulo `ImageNumbers`
here; `NextChunk`, `ErasePages`, `EraseTail`, `SetAddress`, `WriteChunk`, `PollChunk`
are `dnload_element` and `dnload_chunk`. A special command is the pair `CommandSend`
and `CommandStatus` with the place to go on at; then `SendAbort`, `CheckAborted`,
`SendLeave`, `PollLeave`. What the device is and what the host thinks it is are kept
apart: `job.memory` is the memory, `layout` the segments parsed from its name. The memory
is seen through the run: `flash` maps addresses to the bytes of the file, `blank` holds
erased addresses, `spoiled` those programmed without an erase.

**MemLayout.parseDesc** takes the name as a sequence of characters. The two loops of the
code are the states `Scan` goes through: the position, the address so far, the segments, and
`scanned`, the variable behind `%n`, which keeps its old value after a scan that ends
early. A position beyond the end of the name is reported as `overrun`; what the code would
find there is not guessed, and the jobs of the runs have no such name. `PageStart` is the mask
`address & ~(page_size - 1)` for any page size, also one that is no power of two, where it is not the start of a page.
The device counts its pages from the start of the segment (`PageAt`).

**DfuDownloader** is `DfuDownloader::run`, one action for each request or decision, its
`phase` the place in the code. It composes: its `RunController` is the `Host` of
`DfuController` on shared variables, run twice, as line 242 does; a DfuSe run is one step
with the outcomes `FlashDownload` allows. Its search takes the units whose ids pass
`matchesProbe` of `UsbId`, the operator that `DfuFinder` applies in its walk. `Reenumerate`, `Vanish`
and `PlugOrUnplug` are the bus. A `Throw` anywhere is the catch block and the
destructor of `dif`.

**DfuFinder** is `DfuFinder::find`, from the list of devices to the results, in steps of one
call into libusb each. `NextDevice` and `NextConfig` go through the lists;
`PassDescriptor`, `FindDescriptor`, `NoDescriptor` are `find_descriptor` over the bytes of
the configuration's and the settings' extra descriptors; `AskDevice` and `Asked` request
the descriptor from the device; `PassSetting`, `OpenSetting`, `Identify` go
through the settings, with the quirks and what could be read of the names.
Whatever libusb refuses is recorded in `lost`, a variable of the model only, so that `FindsAll`
can say what may be missing.

**ContextImpl** gives each thread a stack of frames, one per call that has not
returned, with the place it stands at. `Lock` takes the recursive mutex, `Leave` ends a
function that holds it, `Unwind` is an exception: it leaves frames up to one that
handles it, with the guards among them. `Call` is an application's call, made
from outside or in a handler. A step that is undefined behaviour may set `crashed`, after which nothing
happens any more: the progress handler read while another thread overwrites it, a handler replaced by
itself while it runs. `getLibUsbCtx` logs twice and throws if libusb cannot be
initialised, all under the lock.

**DfuFile** keeps bytes as bytes. `LoadFile`, `LoadNotOpened`, `LoadNotRead`, `loadStdIn`,
`SetPrefix`, `SetId`, `storeFile`, `StoreNotOpened` are the calls of an application;
`Damage` and `Replace` happen to the file outside. `memory` is what `data.data()`
points at, which is more than the vector holds once it has shrunk. The checksum is a
constant operator. A store may come to the disk in part, with the failure seen (a
write that empties the stream's buffer) or unseen (the flush in its destructor).
The object starts out as after `reset()`: before that its sizes are
uninitialised, since the constructor sets none.

## 3. Runs

| run | question | result |
|---|---|---|
| `download` | Does `run` deliver the file in order, number its blocks, keep the device out of errors and end? | holds |
| `download_manifest` | Is a device that fails while manifesting reported as failed? | no: reported as done |
| `dfuse` | Is the map the device's, only erased memory programmed, and nothing erased after it was, for elements in the order of their addresses, in any number of images, torn files included? Does it end? | holds |
| `dfuse_shrinking` | Are all pages erased where they get smaller within a chunk? | no: pages are skipped |
| `dfuse_no_multiplier` | Is the map the device's if a segment's size has no multiplier? | no: the segments behind it are lost |
| `downloader` | Are handles used rightly on all paths, is what the controllers assume true, does Success mean delivered, is it the right unit, does it end? | holds |
| `downloader_completion` | Is the end of the file signalled once? | no: twice |
| `downloader_file_id` | Is a file for another device refused? | no, for a device found in DFU mode |
| `file` | Are sizes consistent, torn files seen, fields of earlier files gone, stored files read back? | holds |
| `file_stdin` | Is what was read from standard input in memory? | no |
| `finder` | Does the search find what it is asked for with the right descriptors, whatever fails, hold nothing afterwards, and end? | holds |
| `context` | Does the lock stay balanced, is there one libusb context that follows the level, are handlers safe from other threads, does every call return? | holds |

Each of the "no" rows is a disagreement between the code and one of its own
statements, quoted under "findings" in `PROJECT.json`.

### What the properties say

*`download`.* `ImplementsStream`: the run refines `StreamDownload`; the device only ever
holds prefixes of the file and "done" comes with all of it. `Delivery`: the inductive
invariant behind it (section 5). `NeverRefused`: once the first block is in, no request of the host
makes the device fail; only its own work can. `BlockNumbered`: also after wBlockNum has
wrapped. `BlockFits`: no block exceeds what the device advertised and a page, unless less than one packet was
advertised. `ProgressMonotone`, `Terminates`.

*`dfuse`.* `MapAsNamed`: the host works on the device's own map; with a segment
whose type cannot be read it may have fewer segments, never wrong ones. `ImplementsFlash`,
`ErasedFirst`, `RememberedPage` (the page that is taken for erased is), `LeavesComplete`
(leave is commanded only with the file complete and the pointer at the first address of the
file), `NeverRefused`, `Terminates`. `TypeOK` has the reader stay within the payload.

*`downloader`.* `Standing` (the inductive invariant, section 5), `HandleDiscipline`, `HandsOver` (the assumption about the device's state with
which the controllers are checked on their own is what this code guarantees),
`ControllerSound` (the controller's invariant in the composition, in the second run as
well), `SuccessDelivers`, `RightUnit`, `Terminates`. `RightUnit` claims nothing when
units are plugged in meanwhile: then only `match_usbId_dfu` helps, which is unset by default.

*`file`.* `PartsFit` (no unsigned size wraps), `SuffixMeansWhole` (what is loaded with a suffix is what was
meant to be there: the checksum shows damage and torn stores, also those that end in something like a suffix; only a store
that stopped at the end of a whole file packed in the payload passes for that file), `NothingLeftOver`,
`ReadBack`.

*`finder`.* `FindsAll`: the results are the settings that a look at the whole bus would
select, in its order, less those that libusb gave no access to, of an interface whose device could
not be opened the later settings, and of a device with a configuration that could not be read, or is empty, the later
configurations. `OwnDescriptor`: a result's descriptor is that of its configuration,
never left over from another. Both speak of each configuration whose lists of descriptors are
well formed up to a zero length or a cut at their end (`Regular`), whatever lists the others have: what one
configuration sends spoils no other one. `NothingHeld`: no handle, configuration descriptor or reference is
kept beyond those of the results, on any path. `Terminates`, for descriptors of any length.

*`context`.* `LockBalance`: the mutex is held once for each guard on its owner's stack, and by no other
thread. `OneContext`, `DebugAgrees` (when all updates are through, libusb logs exactly if the level says
so), `NotReplacedInUse` (the log handler is never replaced while another thread is in
it), `Returns`.

### Bounds, and why they are enough

* `download`: files of 0 to 6 bytes, suffixes of 0 to 2, transfers of 1 to 3 after
  the page limit 3, packets of 1 and 2. That has the empty file, the file that is all
  suffix, exact multiples, a short last chunk, up to six chunks. Block numbers wrap after 2, so every longer file wraps.
* `dfuse`: memories of up to 16 bytes, pages of 2 and 4, in one job of 3, uniform, growing, and with read-only
  and not eraseable segments; up to three images of up to two elements, adjacent or with a gap, that start
  and end inside pages, transfers of 2, 3 and 5 bytes. Chunks cover less than a page,
  several pages, and the border between page sizes. `ImageNumbers` = 4 stands for 2^8: files of
  two and of three images are those just below the limit and at it. `AddressSpace` = 2^24 for 2^32.
  Names are written from the memories, so that the parser is held against an independent
  definition; further ones have sizes in K and M, a gap between stretches, a title only, and types that
  are wrong. Files are cut at each of their parts, longer than they say, or count too many or too few images.
* `downloader`: one or two units, each in either mode, two vendors, every combination of
  ids in the file, the probe and the DFU probe; the options on one pair of units; a file
  of two chunks. Two units are what it takes to mistake one for another.
* `file`: `MaxCalls` = 4 calls or outside changes. The longest story a
  property needs is load, edit, store in part, load. Eight initial files cover
  the two prefixes, a payload that looks like one, suffixes of right, greater and impossible
  length, and a payload that holds another file and something like a suffix. `Cuts` names where a transfer to
  or from the disk may stop and which byte is damaged: 10 is too short for a suffix, 19 the end of the file in
  that payload, and 35 that of what looks like a suffix but for its checksum.
  The checksum of the run is a polynomial modulo a prime, so that any single wrong
  byte shows; nothing is claimed about the quality of CRC-32.
* `finder`: buses of up to two devices, one of them with two configurations, so that a second
  one finds what the first left; up to two interfaces of up to three settings, descriptors that are whole, short, cut, of length zero, of
  another type, misaligned or missing; each filter on its own, and any call into
  libusb may fail. Two filters at once only intersect.
* `context`: two threads, `MaxCalls` = 2 calls of each, those of its handlers included, one handler, the level it starts with and
  the lowest and highest. Two threads and a call within a handler are what the races and the recursion take;
  the lock, the single context and the handler in use are proved for any number (section 5).
* `CHECK_DEADLOCK FALSE` everywhere: a run ends, and an application may stop calling.

### Fairness

`FairSpec` of the controllers has weak fairness for the host (its thread keeps running) and for the device
(it gets its work over, well or badly). The host's part is written
`WF_vars(Host /\ Answered)`: a poll that is lost ends a loop in this code, so plain
`WF_vars(Host)` could be satisfied by a step that is only possible because a poll may be
lost. `Answered` leaves these out; a loop has to end on an answer. Nothing is
assumed of the bus. A device that polls busy for ever is excluded by fairness of the
device; the code has no timeout of its own for it, so the assumption is needed.

The search is one thread that waits for nobody: `WF_vars(Next)`. In `context` each thread has weak
fairness for its `Step`, which does not include `Call`: nobody has to call. A `Step` that waits for the
lock is disabled, and weak fairness is enough since with `MaxCalls` no other thread can
take the lock for ever. A handler is assumed to come to its end; one that does not holds the lock.

## 4. Disagreements without a run

Met on the way, and not claimed by any property:

* `storeFile` looks at the stream before its destructor flushes it, so a disk that is full at
  that moment is not reported (`src/dfu/DfuFile.cpp:115`). `file` shows that a torn file is not taken for one with a
  suffix when it is loaded, unless what there is of it is a whole file.
* The length in an LPC prefix does not count a prefix that was added rather than loaded
  (`src/dfu/DfuFile.cpp:325`); nothing in the library reads it.
* An element that returns to an earlier page erases what was written there
  (`src/dfuse/DfuseController.cpp:205`): hence the files of `dfuse` ascend.
* Names may give page sizes that are no powers of two (`2*3Kg`). The code's mask is then not the start of a page: with
  3 KiB, 0x400 and 0xC00 are both masked to 0x400 (`src/dfuse/DfuseController.cpp:52`, 205, 210), so that pages are taken for
  erased that are not, and others are erased again. Nothing is claimed for such maps, but for one job of `dfuse` in which
  the chunk lies in the first page.
* Addresses are unsigned and wrap at 2^32: an element that goes over the end passes the check of its last address
  (`src/dfuse/DfuseController.cpp:176`) if the start of the address space is writeable, and a page loop at the end starts
  from zero again (line 204). `JobsAssumption` leaves these out.
* Sizes of elements are unsigned and compared as `int`: one of 2^31 bytes or more is skipped
  (`src/dfuse/DfuseController.cpp:182`). Page sizes of zero are not refused (line 204). A mass
  erase is carried out before the file is looked at (line 334).
* When a configuration is asked for, the descriptor is looked at before it is checked for being there
  (`src/dfu/DfuFinderImpl.cpp:95`); `SearchesAssumption` leaves such a search out. The list of devices is freed
  without its references (line 36).
* `transferSizeOverride` is stored and overwritten in the next line (`src/dfu/DfuController.cpp:48`).
* A `va_list` is used twice (`src/ContextImpl.cpp:16`); the constructor of `DfuFile` sets no sizes
  (`src/dfu/DfuFile.cpp:30`); a segment of no sectors at address 0 ends at 2^32 - 1
  (`src/dfuse/MemLayout.cpp:117`).

## 5. Proofs

Each module of proofs holds the theorems of one component, for every value of its constants
that satisfies the named assumptions; TLC evaluates those in each run. `DfuDeviceProofs` has the lemmas
about the outcomes of a request (`XferOutcome`, `DownloadOutcome`, `GetStatusOutcome`, ...) that the
proofs about the host share.

### One plain download: `DfuControllerProofs`

| theorem | statement |
|---|---|
| `TypeCorrect` | `Spec => []TypeOK` |
| `DeliveryCorrect` | `Spec => []Delivery` |
| `StreamRefinement` | `Spec => ImplementsStream` |
| `RequestsAccepted` | `Spec => NeverRefused` |
| `NumberingCorrect` | `Spec => []Numbering` |
| `BlocksNumbered` | `Spec => []BlockNumbered` |
| `BlocksFit` | `Spec => []BlockFits` |
| `ProgressNeverBack` | `Spec => ProgressMonotone` |

They hold for every set of jobs, page size and width of the block number. The assumptions are that jobs have
natural sizes and a suffix no longer than the file, that packets and pages are not empty, and that
block numbers count modulo at least one.

`TypeOK` is inductive by itself. That the image is a prefix of the file is not: a device may be
holding a block while the host goes on. `Delivery` adds what is needed: a block that is still to be
programmed is the one that follows the image (`PendingBlock`), and where `run` stands says how
far the device has come: `BeforeFirst` (nothing taken yet, and not in a state from
which a block would be appended to an old image), `BetweenChunks` (all that was sent is programmed),
`WithinChunk` (either the pending block ends at `bytes_sent` or all of it is there),
`AfterLast`. The step lemmas go through the actions one by one; the refinement
maps `DeviceProgram` to `Store`, the last poll to `Finish`, and all else to `Fail` or a stutter.

That blocks are numbered right rests on a fact `run` nowhere states: only the last chunk is a
short one. `Numbering` says so. As long as there is more to send, `bytes_sent` is a multiple of the transfer size
and `transaction` that multiple modulo `BlockNums` (`WholeChunks`, `Counted`), and so is a block that is pending
(`BlockCounted`); the size in use is one that `getDefaultTransferSize` gives (`SizeChosen`); and the
progress last reported is what the code computes from the bytes sent (`Reported`), so that it grows
with them. `ModNext` and `DivOfMultiple` are the arithmetic of it.

### One DfuSe download: `DfuseControllerProofs`

| theorem | statement |
|---|---|
| `TypeCorrect` | `Spec => []TypeOK` |
| `RequestsAccepted` | `Spec => NeverRefused` |
| `ErasedBeforeWritten` | `Spec /\ Regular => []ErasedFirst` |
| `LastPageClean` | `Spec /\ Regular => []RememberedPage` |
| `LeftComplete` | `Spec /\ Regular => []LeavesComplete` |
| `FlashRefinement` | `Spec /\ Regular => ImplementsFlash` |

The first two hold for every job: any memory, any file, torn or not, any size of transfers, any options. `JobsAssumption`
says that jobs are well typed, that the parser does not read behind the end of their names, that no
segment has a size of zero, with which the page loop would stand still, and that segments end a page and more below the end of the
address space and elements within it, so that no address wraps around (section 4);
`ImageNumbersAssumption` that the image counter counts to more than one.

The others are false for some jobs, and `Regular` says for which they are proved. It speaks of the job, which no
step changes:

* The map is regular (`RegularMap` in `MemLayoutProofs`): segments come in the order of their addresses and
  do not overlap; each consists of whole pages of more than one byte (1 is the value of `last_erased_page` that means
  none), whose size is a power of two (`IsPowerOfTwo`), since only then is the mask of the code the start of a page
  (`StartOfPage`) and the same one that the device counts (`CountedFrom`); from one eraseable segment to a later one pages do not get smaller; and no segment that cannot be erased
  runs on into one that can. Without the last two, `EraseTail` or the step of the page loop
  misses a page: `dfuse_shrinking` shows it for smaller pages.
* The host parsed this map. That it does is `MapAsNamed`, which TLC checks.
* The file has no more images than its prefix counts, or the count is below the limit of the loop
  counter, which otherwise comes round to 0.
* The elements for the alternate setting come in the order of their addresses and do not overlap. One that returns to
  an earlier page erases what was written there (section 4).

The sizes of segments, elements and transfers are free, those of pages among the powers of two, and so is how they
lie to each other. In the run `dfuse` each job that gets as far as the images of its file is regular but for the one with
pages of three bytes, so that the hypothesis leaves out nothing else of what TLC looks at there.

`Types` strengthens `TypeOK` by what `run` relies on where it stands (`Standing`): the reader has
checked that an element is there before it is written, and the page loop is in a segment.
`Protocol` says what the device is ready for: `Quiet` has it ready where `run` is about to give it
something, `Asked` has it busy with what `run` is waiting for, and `Goal` says where each command leads. From it
follows `RequestsAccepted`. `Counting` says that the images begun are counted, so that at the
end none is left.

What is in the memory takes five more parts. `Contents`: nothing is spoiled, and what is programmed is what the file wants
there. `Pending`: a request that the device has yet to carry out is `Harmless`; it writes erased addresses
with what belongs there, and erases a page that holds nothing of the file. `Stored`: what
is programmed are exactly the elements before the one under way, what lies before its current chunk (`Written`), and
the chunk if the device is through with it. `Ordered`, `Carried` and `Aimed` take a command from the decision to its
effect, and `FirstKept` the address for leaving. `Pages` is the page loop: `Loop` says of each address that the loop has passed over
that it is erased or in a page that reaches up to where the loop is, `Covered` and
`TailErased` what follows once it ends, `Remembered` that the page erased last has been reached and holds nothing foreign,
`LastReached` that nothing eraseable is programmed behind it. The last two are why the page of a chunk's first address
may be skipped if it is the page erased last, and must not be skipped otherwise. The conjunction `Inv` was
checked by TLC as an invariant before it was proved.

The proof has a lemma for each action and each part: `...Types`, `...Protocol`, `...Counting`, `...Progress`.
The steps of the device are the converse of `Harmless`: `ProgramHarmless` and `EraseHarmless` say what a harmless request does,
`CommandExecuted` and `ChunkExecuted` that `run` finds it done. The claims of a regular file are apart and in order
(`ClaimsApart`, `WantedAt`), so that all that is written lies below the chunk under way (`WrittenBelow`).
`MemLayoutProofs` has the arithmetic: `findSegment` finds the first segment (`Found`), pages are the same or apart
(`PageShared`, `PagesMeet`), an address that the page loop steps over lies in a page that the next step comes to (`SkippedInPage`), and a page that
starts where the one erased last starts is that page (`StartMatches`, `PageRevisited`). The refinement maps `Device` to `Store`, the
end of `run` to `Finish` or `Fail`, and all else to a stutter.

### The whole of `run`: `DfuDownloaderProofs`

| theorem | statement |
|---|---|
| `TypeCorrect` | `Spec => []TypeOK` |
| `HandlesReleased` | `Spec => []HandleDiscipline` |
| `StandingCorrect` | `Spec => []Standing` |
| `HandOver` | `Spec => []HandsOver` |
| `ControllerStaysSound` | `Spec => []ControllerSound` |
| `SuccessMeansDelivered` | `Spec => []SuccessDelivers` |
| `RightUnitProgrammed` | `Spec => []RightUnit` |

They hold for any setups: any number of units with any ids, each in either mode, and all options. Beyond the
assumptions of `DfuController`, setups are well typed and no unit is about to leave the bus when the
run starts, as nobody has told it to.

The inductive invariant is `Standing` with the types, the flags of the handle and `HandleDiscipline`. `DeviceStands`
follows the device through the phases of the status loop to the ones the controllers take over.
`RunStands` says where the download stands: nothing is programmed before a first run of the
controller (`Nothing`), the controller's `Delivery` holds during it, and after it all of the file is there if it was done
(`AfterRun`). `UnitStands` follows the unit that was found first: it is the one the handle is on, or it is
re-enumerating and nothing else could be taken for it. The run of the controller within `run` is
not proved again: `DfuControllerProofs` is instantiated as `P`, and its lemmas about steps are cited as `P!...`, once
it is shown that its definitions are those instantiated in `DfuDownloader`. That its initial condition holds
also when `run` starts it for a second time is `HandOver`.

### Files: `DfuFileProofs`

| theorem | statement |
|---|---|
| `TypeCorrect` | `CrcBytes => (Spec => []TypeOK)` |
| `PartsAlwaysFit` | `CrcBytes => (Spec => []PartsFit)` |
| `NothingOfEarlierFiles` | `CrcBytes => (Spec => []NothingLeftOver)` |
| `WrittenIsReadBack` | `CrcBytes => (Spec => []ReadBack)` |

They hold for files of any contents, edits to any id and address, stores and loads cut at any byte, and any
damage. `CrcBytes` says of the checksum that it is four bytes, whatever it is computed of; it is a
hypothesis and no assumption of the module because TLC cannot go through all byte sequences.

`Types` strengthens the first three: all fields have their type, and both sizes are within the memory. That
it is inductive rests on what reading finds in any bytes at all (`SuffixFound`, `ReadFound`), starting from
an object that has been reset (`ResetEmpty`): the suffix is no longer than the file, and the
prefix is looked for in what the suffix leaves. For the object after `loadStdIn`, which probes
whatever its memory holds, it is the same lemma.

`ReadBack` needs `WrittenMeant`, that the intended contents of the disk are the image of the object
that was stored, and then one lemma about all objects, `ImageReadAgain`: an image with a suffix is read as the object
it was made of. The suffix is found at the end, with signature and checksum where the writer
put them (`SuffixBelieved`); its words are the fields modulo their width (`SuffixReadAgain`); the prefix, if one was
written, is taken for the kind it is (`PrefixReadAgain`); and the payload is the middle one of the three parts
(`JoinedMiddle`). Below it are lemmas about single bytes: what joining sequences
does to their elements, and what writing words and double words gives.

### Threads: `ContextProofs`

| theorem | statement |
|---|---|
| `TypeCorrect` | `Spec => []TypeOK` |
| `LockBalanced` | `Spec => []LockBalance` |
| `HandlerSafe` | `Spec => NotReplacedInUse` |
| `OneContextKept` | `Spec => []OneContext` |
| `LevelReachesLibUsb` | `Spec => []DebugAgrees` |

They hold for any threads, handlers, levels and number of calls.
The only assumption, `ContextAssumption`, says that calls are calls and that `NoThread` and `Empty`
are neither thread nor handler. `LockBalance` counts guards on stacks and is not inductive: a frame that
returns gives up one lock, and that it has one depends on where it stands. `Balanced`
adds `WellNested`: which frames can stand where (`Placed`), and that all frames but the running one wait in
a handler or in `getLibUsbCtx`. The actions are then made of a few moves, each a lemma: a frame goes on
(`GotoKeeps`), returns (`ReturnKeeps`), leaves with its lock (`LeaveKeeps`), calls another
member (`InnerKeeps`), or is unwound (`UnwindKeeps`), resting on what appending to and cutting a
sequence do to the count (`LocksInAppend`, `Popped`, `Pushed`, `Cut`). `HandlerSafe` follows at once: both
setter and handler hold the lock. `OneContextKept` needs `NoneYet`: a thread that is about to make a context has found
none, and as it holds the lock (`MakingOwns`), no other thread is about to.

The level is stored without the lock, so a thread can tell libusb a level that is no longer the one
set. `LevelFollowed` says why that is mended: if libusb does not follow the level, some thread is about to
read it or has read the level that counts; and behind a thread that has read another one, the thread
that changed it waits for the lock, and will read it then. That an update in its middle owns the lock
(`UpdaterOwns`) keeps two of them from crossing.

### The search: `DfuFinderProofs`

| theorem | statement |
|---|---|
| `TypeCorrect` | `Spec => []TypeOK` |
| `NothingKept` | `Spec => []NothingHeld` |
| `SearchInvariance` | `Spec => [](IInv /\ SInv)` |
| `FindsEverything` | `Spec => []FindsAll` |
| `DescriptorIsOwn` | `Spec => []OwnDescriptor` |

They hold for any bus, any filters and whichever calls fail; `SearchesAssumption` says that
descriptors are descriptors. `NothingHeld` speaks of the moments between two devices, and is not inductive.
`Held` ties the handle and the configuration descriptor to where `find` stands, and `Referenced` has as
many references to each device as there are results for it, counted as a cardinality.
`AtHand` says that what is left to do are alternate settings of the device at hand.

`FindsAll` compares the results with the bus when the search is over, so that an invariant has to say at every
step before what the results so far are. `SearchInvariance` is `Spec => [](IInv /\ SInv)`, and the parts of `SInv` are:

* `InOrder`: what is still to be tried is in the order of the bus, and of an interface that has been begun it
  is the rest;
* `Walk`: the walk over the lists stands where a descriptor starts and has passed no functional one, and
  behind the walk `func_dfu` is `DescriptorOf` the configuration;
* `Reached`: where `find` is, the filters sent it, and no configuration of the device up to here was an empty one;
* `LostBehind`: no call has failed for what has not been reached yet, nor for settings that are still to be tried;
* `Whole`: of what has been passed, the results are just what is wanted and in reach (`FoundSoFar`), in order
  (`ResultsInOrder`), with their own descriptors (`OwnDescriptor`).

`Passed` is the place of the search as a relation between settings and the state. A step that finds nothing keeps `Whole`
if it takes nothing back and passes nothing that is to be found (`WholeKept`); `...Finds` shows for each
action that it keeps `SInv`, and `Identify` alone adds a result. At the end everything has been passed (`AllPassed`).
`SInv` was checked by TLC as an invariant before it was proved.

The lists are joined by the community module's `FlattenSeq`, of which the libraries know nothing. Shown here, by an
induction over the length that needs no operator as a parameter (`Induction`, from well-foundedness): what it
is a sequence of (`FlattenType`), where each part begins in it and that its elements are there (`FlattenStarts`), which elements it has
(`FlattenRange`), and that parts in order give a whole in order (`FlattenSorted`). `TakenIsIt` says that the bytes `find_descriptor`
takes at the start of a descriptor parse as that descriptor does, also when it says it is longer than the list.

### What is only model-checked

* Liveness and everything that involves fairness: the provers do not reach it.
* Of `DfuseController` that the map is the device's (`MapAsNamed`): `parseDesc` is a recursion over characters.
  Jobs that are not regular are looked at by TLC alone.
* Of `DfuFile` that what has a suffix is what was meant (`SuffixMeansWhole`): it says how good a checksum is, and CRC-32
  is not in the model. No checksum of four bytes sees all damage, so that a theorem would have to
  assume that this one does.
* What `MemLayout.parseDesc` and the folds over files compute. The lemmas about `FlattenSeq` show what an induction over data
  costs here; these would take one for each function.

`Numbering` and `LevelFollowed` are strengthenings that no run lists: the theorems they are for are listed.

## 6. Not modelled

* `CRC32`: the constant `Crc` stands for it. `Util`, `LogMsg`, options and build files have no state of their own.
* `DfuInterface`: `upload` and `getState`, which no download calls, and poll timeouts with their quirk: time
  is not part of any model, and no property depends on how long a wait is.
* `UsbId::mergeFrom` and the search mode `matchesSearch_wildSelfFFFF`, which nothing calls.
* `PackedData`: big-endian, 24-bit and string forms, which differ in width and order only.
* `MemLayout`: upper-case digits, blanks and signs, which `sscanf` takes as well; reading on behind
  the end of a name.
* The id that one `DfuDownloader::run` leaves in the probe for the next one is not carried over: a run that
  starts with it is one of the setups whose probe has an id.
* The `DfuseController`'s progress reports, names in its files, and sizes the code reads and does not use.
* Texts of messages and how they are put together and printed.
