------------------------------ MODULE DfuController ------------------------------
(***************************************************************************)
(* DfuController_download::run: a plain DFU download, one control transfer *)
(* per host step, interleaved with the device's own work.                  *)
(*                                                                         *)
(* A job is what one call finds: the file's total and suffix sizes, the    *)
(* wTransferSize and bMaxPacketSize0 the device advertises, and whether it *)
(* is manifestation tolerant.  A byte of the file is named by its offset,  *)
(* so image, the memory the device has programmed in this transfer, is a   *)
(* sequence of offsets.                                                    *)
(***************************************************************************)
EXTENDS DfuControllerBase, Sequences

CONSTANTS
  Jobs,       \* the jobs a run may start with
  BlockNums   \* wBlockNum is an unsigned short: counts modulo this

ASSUME JobsAssumption ==
  Jobs \subseteq [total : Nat, suffix : Nat, wTransferSize : Nat,
                  bMaxPacketSize0 : Nat \ {0}, tolerant : BOOLEAN]
ASSUME SuffixAssumption == \A j \in Jobs : j.suffix <= j.total
ASSUME BlockNumsAssumption == BlockNums \in Nat \ {0}

(* Definitions named X_Something, here and in the other modules, are ways  *)
(* to get X wrong; they are part of no behaviour.                          *)

VARIABLES
  job,
  pc,            \* where run() stands
  transferSize,
  bytes_sent,
  chunk_size,
  transaction,
  progress,      \* last value reported, in percent
  dev,           \* the device, see DfuDevice
  block,         \* the block of the file it accepted last
  image          \* what it has programmed

hostVars == <<job, transferSize, bytes_sent, chunk_size, transaction, progress>>
vars == <<job, pc, transferSize, bytes_sent, chunk_size, transaction, progress,
          dev, block, image>>

expected_size == job.total - job.suffix

FirstBytes(n) == [i \in 1 .. n |-> i - 1]

NoBlock == [from |-> 0, len |-> 0, num |-> 0]

Init ==
  /\ job \in Jobs
  /\ pc = "start"
  /\ transferSize = 0 /\ bytes_sent = 0 /\ chunk_size = 0 /\ transaction = 0
  /\ progress = 0
  /\ dev \in HandedOver
  /\ block = NoBlock
  /\ image = FirstBytes(0)

Begin ==
  /\ pc = "start"
  /\ IF job.wTransferSize = 0
       THEN /\ pc' = "failed"
            /\ UNCHANGED <<transferSize, progress>>
       ELSE /\ pc' = "send"
            /\ transferSize' = getDefaultTransferSize(job)
            /\ progress' = 5
  /\ UNCHANGED <<job, bytes_sent, chunk_size, transaction, dev, block, image>>

(* The device keeps the block of an accepted request; a block that arrives *)
(* in dfuIDLE starts its image afresh.                                     *)
Receive(o, from, len, num) ==
  /\ dev' = o.dev
  /\ block' = IF o.got THEN [from |-> from, len |-> len, num |-> num] ELSE block
  /\ image' = IF o.got /\ dev.state = "dfuIDLE" THEN FirstBytes(0) ELSE image

AllSent_WholeChunks == bytes_sent + transferSize > expected_size
AllSent == bytes_sent >= expected_size

NextSize_Unlimited == transferSize
NextSize ==
  LET bytes_left == expected_size - bytes_sent
  IN  IF bytes_left < transferSize THEN bytes_left ELSE transferSize

NextTransaction_Saturating ==
  IF transaction + 1 < BlockNums THEN transaction + 1 ELSE transaction
NextTransaction == (transaction + 1) % BlockNums

SendChunk ==
  /\ pc = "send"
  /\ ~AllSent
  /\ \E o \in download(dev) :
       /\ Receive(o, bytes_sent, NextSize, transaction)
       /\ IF o.ret = "error"
            THEN /\ pc' = "failed"
                 /\ UNCHANGED <<bytes_sent, chunk_size, transaction>>
            ELSE /\ pc' = "poll"
                 /\ bytes_sent' = bytes_sent + NextSize
                 /\ chunk_size' = NextSize
                 /\ transaction' = NextTransaction
  /\ UNCHANGED <<job, transferSize, progress>>

(***************************************************************************)
(* One round of the loop that waits while the device programs: where it    *)
(* goes on, and the progress, which is computed from the bytes that were   *)
(* left before the chunk was sent.                                         *)
(***************************************************************************)
AfterPoll_StatusIgnored(r) ==
  IF r.ret = "ok" /\ r.bState \notin {"dfuDNLOAD_IDLE", "dfuERROR"} THEN "poll"
  ELSE IF r.ret = "ok" THEN "send" ELSE "failed"
AfterPoll_ErrorNotFinal(r) ==
  IF r.ret = "ok" /\ r.bState # "dfuDNLOAD_IDLE" THEN "poll"
  ELSE IF r.ret = "ok" /\ r.ok THEN "send" ELSE "failed"
AfterPoll(r) ==
  IF r.ret = "ok" /\ r.bState \notin {"dfuDNLOAD_IDLE", "dfuERROR"} THEN "poll"
  ELSE IF r.ret = "ok" /\ r.ok THEN "send" ELSE "failed"

Percent_OfChunk == (chunk_size * 90) \div (expected_size + chunk_size) + 5
Percent == (bytes_sent * 90) \div (expected_size + chunk_size) + 5

PollChunk ==
  /\ pc = "poll"
  /\ \E r \in getStatus(dev) : dev' = r.dev /\ pc' = AfterPoll(r)
  /\ progress' = IF pc' = "send" THEN Percent ELSE progress
  /\ UNCHANGED <<job, transferSize, bytes_sent, chunk_size, transaction, block, image>>

SendCompletion ==
  /\ pc = "send"
  /\ AllSent
  /\ \E o \in downloadEnd(dev) :
       /\ dev' = o.dev
       /\ IF o.ret = "error"
            THEN pc' = "failed" /\ UNCHANGED progress
            ELSE pc' = "manifest" /\ progress' = 95
  /\ UNCHANGED <<job, transferSize, bytes_sent, chunk_size, transaction, block, image>>

(***************************************************************************)
(* The status loop after completion.  It leaves on a transfer error, and   *)
(* on any state but the two it waits in, whatever bStatus says.            *)
(***************************************************************************)
AfterManifestPoll(r) ==
  IF r.ret = "ok" /\ r.bState \in {"dfuMANIFEST_SYNC", "dfuMANIFEST"} THEN "manifest" ELSE "done"

PollManifest ==
  /\ pc = "manifest"
  /\ \E r \in getStatus(dev) : dev' = r.dev /\ pc' = AfterManifestPoll(r)
  /\ UNCHANGED <<hostVars, block, image>>

Host == Begin \/ SendChunk \/ PollChunk \/ SendCompletion \/ PollManifest

(* The device programs the block it holds, or manifests, or fails to.      *)
DeviceProgram ==
  /\ Programming(dev)
  /\ dev' = Programmed(dev)
  /\ image' = image \o [i \in 1 .. block.len |-> block.from + i - 1]
  /\ UNCHANGED <<hostVars, pc, block>>

DeviceManifest ==
  /\ Manifesting(dev)
  /\ dev' = Manifested(dev, job.tolerant)
  /\ UNCHANGED <<hostVars, pc, block, image>>

DeviceFail ==
  /\ Programming(dev) \/ Manifesting(dev)
  /\ dev' = InError
  /\ UNCHANGED <<hostVars, pc, block, image>>

Device == DeviceProgram \/ DeviceManifest \/ DeviceFail

Next == Host \/ Device

Spec == Init /\ [][Next]_vars

(* The host thread keeps running, and a device that has work gets it over  *)
(* with, well or badly.  A host that only polls waits: that one of its     *)
(* polls must be lost in the end, and so end the wait, is not assumed.     *)
Answered ==
  /\ pc = "poll" => pc' = AfterPoll(answer(dev))
  /\ pc = "manifest" => pc' = AfterManifestPoll(answer(dev))

FairSpec == Spec /\ WF_vars(Host /\ Answered) /\ WF_vars(Device)

-------------------------------------------------------------------------------
(* Every variable keeps its type; bytes_sent never passes the end of the   *)
(* file (the int arithmetic of run()), and no chunk is empty.              *)
TypeOK ==
  /\ job \in Jobs
  /\ pc \in {"start", "send", "poll", "manifest", "done", "failed"}
  /\ transferSize \in Nat
  /\ pc \in {"send", "poll", "manifest"} => transferSize > 0
  /\ bytes_sent \in 0 .. expected_size
  /\ pc = "poll" => bytes_sent > 0
  /\ chunk_size \in Nat
  /\ transaction \in 0 .. BlockNums - 1
  /\ progress \in Nat
  /\ dev \in Devices
  /\ block \in [from : Nat, len : Nat, num : Nat]
  /\ image \in Seq(Nat)

(* What run() promises, seen without the protocol.                         *)
outcome == CASE pc = "done" -> "done" [] pc = "failed" -> "failed" [] OTHER -> "running"

Stream == INSTANCE StreamDownload WITH size <- expected_size

(* The run implements StreamDownload: at every moment the device has       *)
(* programmed a prefix of the file, however status polls, device failures  *)
(* and lost transfers interleave, and run() returns normally only when the *)
(* device has programmed all of it.                                        *)
ImplementsStream == Stream!Spec

(* Once the first block is in, no request of the host drives the device    *)
(* into dfuERROR: only the device's own work can fail.  This is what the   *)
(* polling loop of run() is for.                                           *)
NeverRefused == [][bytes_sent > 0 /\ dev.ok /\ ~dev'.ok => pc' = pc]_vars

(* A block is numbered by its position in the file, modulo the width of    *)
(* wBlockNum, also after the counter has wrapped.                          *)
BlockNumbered ==
  dev.work /\ block.len > 0 => block.num = (block.from \div transferSize) % BlockNums

(* No block is larger than the device advertised and a page allows, unless *)
(* the device advertised less than one packet.                             *)
BlockFits ==
  \/ block.len <= job.bMaxPacketSize0
  \/ block.len <= job.wTransferSize /\ block.len <= PageSize

(* The progress reported by one run never goes back, although it is        *)
(* computed with the size of the chunk in its denominator.                 *)
ProgressMonotone == [][progress' >= progress]_progress

(* A run ends, whatever fails, as long as the device gets its work done.   *)
Terminates == <>(pc \in {"done", "failed"})

(* A device that shows dfuERROR once all is sent ("Device's firmware is    *)
(* corrupt", "Programmed memory failed verification", the names of its     *)
(* status in src/dfu/DfuInterface.cpp:107 and :101) does not end in the    *)
(* "Done!" of src/dfu/DfuController.cpp:157.                               *)
NotDoneFromError == [][pc = "manifest" /\ ~dev.ok => pc' # "done"]_pc

-------------------------------------------------------------------------------
(* Why ImplementsStream and NeverRefused hold: the image is a prefix of    *)
(* the file, a block the device still has to program is the one that       *)
(* follows it, and where run() stands says how far the device has come.    *)
Prefix == image = FirstBytes(Len(image)) /\ Len(image) <= expected_size

PendingBlock ==
  Programming(dev) =>
    \/ block.len = 0
    \/ block.from = Len(image) /\ block.from + block.len <= expected_size

ErrorState == /\ dev.ok <=> dev.state # "dfuERROR"
              /\ dev.state \in {"dfuERROR", "dfuDNLOAD_IDLE"} => ~dev.work

BeforeFirst ==
  pc = "start" \/ (pc = "send" /\ bytes_sent = 0) =>
    /\ bytes_sent = 0 /\ image = FirstBytes(0) /\ block = NoBlock
    /\ dev.state \in {"dfuIDLE", "dfuDNBUSY", "dfuDNLOAD_SYNC", "dfuMANIFEST",
                      "dfuMANIFEST_SYNC", "dfuMANIFEST_WAIT_RST", "dfuERROR"}

BetweenChunks ==
  pc = "send" /\ bytes_sent > 0 =>
    dev.state = "dfuDNLOAD_IDLE" /\ image = FirstBytes(bytes_sent)

WithinChunk ==
  pc = "poll" =>
    /\ bytes_sent > 0
    /\ dev.state \in {"dfuDNLOAD_SYNC", "dfuDNBUSY", "dfuDNLOAD_IDLE", "dfuERROR"}
    /\ dev.work => block.len > 0 /\ block.from + block.len = bytes_sent
    /\ dev.ok /\ ~dev.work => image = FirstBytes(bytes_sent)

AfterLast ==
  pc \in {"manifest", "done"} =>
    /\ image = FirstBytes(expected_size)
    /\ dev.state \in {"dfuMANIFEST_SYNC", "dfuMANIFEST", "dfuMANIFEST_WAIT_RST",
                      "dfuIDLE", "dfuERROR"}

Delivery == /\ Prefix /\ PendingBlock /\ ErrorState
            /\ BeforeFirst /\ BetweenChunks /\ WithinChunk /\ AfterLast
(* Why BlockNumbered, BlockFits and ProgressMonotone hold: while there is  *)
(* more to send, only whole chunks have been sent, and they were counted;  *)
(* the block with the device carries the count it was sent under; and the  *)
(* value last reported is at most the one the next report computes.        *)
Counted(from, num) ==
  \E k \in 0 .. from : from = k * transferSize /\ num = k % BlockNums

SizeChosen ==
  \/ pc \in {"start", "failed"} /\ bytes_sent = 0 /\ block = NoBlock
  \/ pc # "start" /\ transferSize = getDefaultTransferSize(job) /\ transferSize > 0

WholeChunks ==
  bytes_sent < expected_size =>
    /\ Counted(bytes_sent, transaction)
    /\ bytes_sent > 0 => chunk_size = transferSize

BlockCounted ==
  block.len > 0 => block.len <= transferSize /\ Counted(block.from, block.num)

Reported ==
  /\ pc = "start" => progress = 0
  /\ pc \in {"send", "poll"} => progress <= IF bytes_sent = 0 THEN 5 ELSE Percent

Numbering == SizeChosen /\ WholeChunks /\ BlockCounted /\ Reported
===============================================================================
