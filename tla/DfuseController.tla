----------------------------- MODULE DfuseController -----------------------------
(***************************************************************************)
(* DfuseController_download::run: a DfuSe download, one control transfer   *)
(* or one decision of the host per step, interleaved with the device.      *)
(*                                                                         *)
(* A job is what one call finds: the device's memory, the name of the      *)
(* interface that describes it and whether that gives each segment a type, *)
(* the options, the alternate setting, and the file: whether it begins as  *)
(* a DfuSe file does and how many images its prefix counts, the images in  *)
(* order, and the length of the whole payload.  A byte of the file is      *)
(* named by its image, its element there and its offset in that.           *)
(*                                                                         *)
(* The device's memory is seen through the run: flash maps an address to   *)
(* the byte of the file programmed there, blank are the erased addresses,  *)
(* spoiled those programmed without having been erased.                    *)
(***************************************************************************)
EXTENDS DfuControllerBase, DfuseFilePart, MemLayout, Functions

CONSTANT Jobs   \* the jobs a run may start with

(* What parseDesc makes of their names; on a segment of size zero the page *)
(* loop of dnload_element would stand still, so none has one.  Addresses   *)
(* are unsigned int in the code: the segments end a page and more below    *)
(* the end of the address space, and the elements in it, so that neither   *)
(* the ends of elements and chunks nor the page loop wrap around to zero.  *)
Parsed == [name \in {j.alt_name : j \in Jobs} |-> parseDesc(name)]

ASSUME JobsAssumption ==
  \A j \in Jobs :
    /\ {j.wTransferSize, j.altsetting} \subseteq Nat /\ j.bMaxPacketSize0 \in Nat \ {0}
    /\ j.memory \in Seq(MemSegments) /\ j.alt_name \in Seq(STRING)
    /\ ~Parsed[j.alt_name].overrun /\ Parsed[j.alt_name].segments \in Seq(MemSegments)
    /\ \A seg, other \in Chars(Parsed[j.alt_name].segments) :
         seg.lastAddr + other.pagesize < AddressSpace
    /\ \A part \in Chars(j.file.images) : \A e \in Chars(part.elements) :
         e.address + e.size <= AddressSpace
    /\ {j.named, j.bcd11a, j.force, j.leave, j.unprotect, j.massErase} \subseteq BOOLEAN
    /\ j.file \in Files

VARIABLES
  job,
  pc,                \* where run() stands
  transferSize,
  layout,            \* memLayout.segments
  image,             \* the loop counter
  target,            \* how many images have been begun
  element,           \* the element of the last one being parsed or written
  pos,               \* the position of the reader
  p,                 \* the offset of the current chunk in the element
  erase_address,
  last_erased_page,
  dfuse_address, bFirstAddressSaved,
  cmd,               \* the special command under way and where run() goes on after it
  firstpoll,
  dev,               \* the device, see DfuDevice
  request,           \* what it was last given to do
  pointer,           \* its address pointer
  flash, blank, spoiled

callVars == <<job, transferSize, layout>>
imageVars == <<image, target, dfuse_address, bFirstAddressSaved>>
posVars == <<imageVars, element, pos, p>>
memVars == <<pointer, flash, blank, spoiled>>
vars == <<job, pc, transferSize, layout, image, target, element, pos, p, erase_address,
          last_erased_page, dfuse_address, bFirstAddressSaved, cmd, firstpoll, dev, request,
          pointer, flash, blank, spoiled>>

AllAddresses ==
  UNION {job.memory[i].firstAddr .. job.memory[i].lastAddr : i \in DOMAIN job.memory}

images == job.file.images
Current == images[target].elements[element]
address == Current.address + p
chunk_size == IF p + transferSize > Current.size THEN Current.size - p ELSE transferSize
AddressesFrom(a, n) == a .. a + n - 1

(* What the file puts where, for this alternate setting; of two elements   *)
(* that claim an address the later one counts.                             *)
Claims ==
  UNION {{i} \X DOMAIN images[i].elements :
           i \in {k \in DOMAIN images : /\ k <= job.file.targetsCount
                                       /\ images[k].alternateSetting = job.altsetting}}

ClaimedBy(c) ==
  AddressesFrom(images[c[1]].elements[c[2]].address, images[c[1]].elements[c[2]].size)

wanted ==
  LET Last(a) == CHOOSE c \in Claims :
        /\ a \in ClaimedBy(c)
        /\ \A d \in Claims : a \in ClaimedBy(d) => d[1] < c[1] \/ (d[1] = c[1] /\ d[2] <= c[2])
  IN  [a \in UNION {ClaimedBy(c) : c \in Claims} |->
         Last(a) \o <<a - images[Last(a)[1]].elements[Last(a)[2]].address>>]

NoRequest == [kind |-> "none", address |-> 0, from |-> <<0, 0, 0>>, size |-> 0]
NoCommand == [command |-> "none", address |-> 0, then |-> "failed"]

Init ==
  /\ job \in Jobs
  /\ pc = "start"
  /\ transferSize = 0 /\ layout = << >>
  /\ image = 0 /\ target = 0 /\ element = 0 /\ pos = 0 /\ p = 0 /\ erase_address = 0
  /\ last_erased_page = 1     \* "non-aligned value, won't match"
  /\ dfuse_address = 0 /\ bFirstAddressSaved = FALSE
  /\ cmd = NoCommand /\ firstpoll = TRUE
  /\ dev \in HandedOver /\ request = NoRequest /\ pointer = 0
  /\ flash = Restrict(wanted, {}) /\ blank = {} /\ spoiled = {}

(***************************************************************************)
(* specialCommand: what it does before its first transfer.  then is where  *)
(* the caller goes on when the command has been carried out.               *)
(***************************************************************************)
specialCommand(a, command, then) ==
  IF command = "ErasePage" /\ ~isAddressEraseable(layout, a)
    THEN /\ pc' = "failed"
         /\ UNCHANGED <<cmd, last_erased_page>>
    ELSE /\ pc' = "command"
         /\ cmd' = [command |-> command, address |-> a, then |-> then]
         /\ last_erased_page' = IF command = "ErasePage"
                                  THEN PageStart(a, findSegment(layout, a).pagesize)
                                  ELSE last_erased_page

Fail == pc' = "failed" /\ UNCHANGED <<cmd, last_erased_page>>

Begin ==
  /\ pc = "start"
  /\ transferSize' = IF job.wTransferSize = 0 THEN 0 ELSE getDefaultTransferSize(job)
  /\ layout' = IF job.wTransferSize = 0 THEN layout ELSE Parsed[job.alt_name].segments
  /\ IF \/ job.wTransferSize = 0 \/ ~Parsed[job.alt_name].ret
        \/ (job.unprotect \/ job.massErase) /\ ~job.force
       THEN Fail
       ELSE IF job.unprotect THEN specialCommand(0, "ReadUnprotect", "unprotected")
       ELSE IF job.massErase THEN specialCommand(0, "MassErase", "file")
       ELSE pc' = "file" /\ UNCHANGED <<cmd, last_erased_page>>
  /\ UNCHANGED <<job, posVars, erase_address, firstpoll, dev, request, memVars>>

(* req_dnload of a command or a chunk, and what the device makes of it.    *)
Send(req, next) ==
  \E o \in download(dev) :
    /\ dev' = o.dev
    /\ request' = IF o.got THEN req ELSE request
    /\ pc' = IF o.ret = "error" THEN "failed" ELSE next

CommandSend ==
  /\ pc = "command"
  /\ Send([NoRequest EXCEPT !.kind = cmd.command, !.address = cmd.address], "status")
  /\ firstpoll' = TRUE
  /\ UNCHANGED <<callVars, posVars, erase_address, last_erased_page, cmd, memVars>>

(* Where a status answer leaves specialCommand.                            *)
AfterStatus_NoWait(r) ==
  IF r.ret = "error" \/ (firstpoll /\ r.bState # "dfuDNBUSY") THEN "failed"
  ELSE IF r.ok THEN cmd.then ELSE "failed"
AfterStatus_ResultIgnored(r) ==
  IF r.ret = "error" \/ (firstpoll /\ r.bState # "dfuDNBUSY") THEN "failed"
  ELSE IF r.bState = "dfuDNBUSY" THEN "status" ELSE cmd.then
AfterStatus(r) ==
  IF r.ret = "error" \/ (firstpoll /\ r.bState # "dfuDNBUSY") THEN "failed"
  ELSE IF cmd.command = "ReadUnprotect" THEN cmd.then
  ELSE IF r.bState = "dfuDNBUSY" THEN "status"
  ELSE IF r.ok THEN cmd.then ELSE "failed"

CommandStatus ==
  /\ pc = "status"
  /\ \E r \in getStatus(dev) : dev' = r.dev /\ pc' = AfterStatus(r)
  /\ firstpoll' = FALSE
  /\ UNCHANGED <<callVars, posVars, erase_address, last_erased_page, cmd, request, memVars>>

(***************************************************************************)
(* dnload_dfuseFile: one image and one element after the other; elements   *)
(* for another alternate setting are skipped, but the first of all gives   *)
(* the address to leave to.  The counter of images has a width, and the    *)
(* loop does not end where that cannot hold one more than the count.       *)
(***************************************************************************)
Enough(count) == enoughBytes(pos, job.file.length, count)

OpenFile ==
  /\ pc = "file"
  /\ IF job.bcd11a /\ Enough(PrefixSize + TargetPrefixSize + ElementHeaderSize) /\ job.file.DfuSe
       THEN pc' = "image" /\ pos' = pos + PrefixSize
       ELSE pc' = "failed" /\ UNCHANGED pos
  /\ image' = 1
  /\ UNCHANGED <<callVars, target, element, p, dfuse_address, bFirstAddressSaved, erase_address,
                 last_erased_page, cmd, firstpoll, dev, request, memVars>>

(* What follows the last image is no target prefix.                        *)
NextImage ==
  /\ pc = "image"
  /\ IF image > job.file.targetsCount THEN pc' = "abort" /\ UNCHANGED <<target, element, pos>>
     ELSE IF Enough(TargetPrefixSize) /\ target < Len(images) /\ images[target + 1].signed
       THEN /\ pc' = "element" /\ target' = target + 1 /\ element' = 0
            /\ pos' = pos + TargetPrefixSize
       ELSE pc' = "failed" /\ UNCHANGED <<target, element, pos>>
  /\ layout' = IF pc' = "abort" THEN << >> ELSE layout     \* memLayout.clear()
  /\ UNCHANGED <<job, transferSize, image, p, dfuse_address, bFirstAddressSaved, erase_address,
                 last_erased_page, cmd, firstpoll, dev, request, memVars>>

EndOfImage ==
  /\ pc = "element" /\ element = Len(images[target].elements)
  /\ pc' = "image"
  /\ image' = (image + 1) % ImageNumbers
  /\ UNCHANGED <<callVars, target, element, pos, p, dfuse_address, bFirstAddressSaved,
                 erase_address, last_erased_page, cmd, firstpoll, dev, request, memVars>>

LeaveAddress_Last(e) == e.address
LeaveAddress(e) == IF bFirstAddressSaved THEN dfuse_address ELSE e.address

(* Where the element at the position of the reader is taken from there.    *)
(* An empty one at address 0 ends outside of any map, at -1 or 2^32 - 1.   *)
ReadElement(e) ==
  IF ~Enough(ElementHeaderSize + e.size) THEN "failed"
  ELSE IF images[target].alternateSetting # job.altsetting THEN "element"
  ELSE IF isAddressWriteable(layout, e.address + e.size - 1) THEN "chunk" ELSE "failed"

NextElement ==
  /\ pc = "element" /\ element < Len(images[target].elements)
  /\ element' = element + 1 /\ p' = 0
  /\ LET e == images[target].elements[element']
     IN  /\ pc' = ReadElement(e)
         /\ IF Enough(ElementHeaderSize)
              THEN dfuse_address' = LeaveAddress(e) /\ bFirstAddressSaved' = TRUE
              ELSE UNCHANGED <<dfuse_address, bFirstAddressSaved>>
         /\ pos' = pos + (IF pc' = "element" THEN ElementHeaderSize + e.size
                          ELSE ElementHeaderSize)
  /\ UNCHANGED <<callVars, image, target, erase_address, last_erased_page, cmd, firstpoll, dev,
                 request, memVars>>

(***************************************************************************)
(* dnload_element: for each chunk, erase the pages it touches, set the     *)
(* address pointer, write it.                                              *)
(***************************************************************************)
ElementDone_OffByOne == p > Current.size
ElementDone == p >= Current.size

NextChunk ==
  /\ pc = "chunk"
  /\ pc' = IF ElementDone THEN "element"
           ELSE IF ~isAddressWriteable(layout, address) THEN "failed"
           ELSE IF isAddressEraseable(layout, address) /\ ~job.massErase THEN "erase"
           ELSE "address"
  /\ erase_address' = IF pc' = "erase" THEN address ELSE erase_address
  /\ pos' = IF pc' = "element" THEN pos + Current.size ELSE pos
  /\ UNCHANGED <<callVars, imageVars, element, p, last_erased_page, cmd, firstpoll, dev, request, memVars>>

page_size == findSegment(layout, address).pagesize
ErasedLast_NotMasked(a) == a = last_erased_page
ErasedLast(a) == PageStart(a, page_size) = last_erased_page

ErasePages ==
  /\ pc = "erase"
  /\ erase_address < address + chunk_size
  /\ erase_address' = erase_address + page_size
  /\ IF ErasedLast(erase_address)
       THEN UNCHANGED <<pc, cmd, last_erased_page>>
       ELSE specialCommand(erase_address, "ErasePage", "erase")
  /\ UNCHANGED <<callVars, posVars, firstpoll, dev, request, memVars>>

EraseTail_Dropped ==
  /\ pc = "erase"
  /\ erase_address >= address + chunk_size
  /\ pc' = "address"
  /\ UNCHANGED <<callVars, posVars, erase_address, last_erased_page, cmd, firstpoll, dev,
                 request, memVars>>
EraseTail ==
  /\ pc = "erase"
  /\ erase_address >= address + chunk_size
  /\ IF ErasedLast(address + chunk_size - 1)
       THEN pc' = "address" /\ UNCHANGED <<cmd, last_erased_page>>
       ELSE specialCommand(address + chunk_size - 1, "ErasePage", "address")
  /\ UNCHANGED <<callVars, posVars, erase_address, firstpoll, dev, request, memVars>>

SetAddress ==
  /\ pc = "address"
  /\ specialCommand(address, "SetAddress", "write")
  /\ UNCHANGED <<callVars, posVars, erase_address, firstpoll, dev, request, memVars>>

WriteChunk ==
  /\ pc = "write"
  /\ Send([kind |-> "data", address |-> pointer, from |-> <<target, element, p>>,
           size |-> chunk_size], "poll")
  /\ UNCHANGED <<callVars, posVars, erase_address, last_erased_page, cmd, firstpoll, memVars>>

(* dnload_chunk waits for one of three states.                             *)
Waiting_ErrorNotFinal(r) == r.ret = "ok" /\ r.bState \notin {"dfuDNLOAD_IDLE", "dfuMANIFEST"}
Waiting(r) == r.ret = "ok" /\ r.bState \notin {"dfuDNLOAD_IDLE", "dfuERROR", "dfuMANIFEST"}

AfterWrite(r) == IF Waiting(r) THEN "poll" ELSE IF r.ret = "ok" /\ r.ok THEN "chunk" ELSE "failed"

PollChunk ==
  /\ pc = "poll"
  /\ \E r \in getStatus(dev) : dev' = r.dev /\ pc' = AfterWrite(r)
  /\ p' = IF pc' = "chunk" THEN p + transferSize ELSE p
  /\ UNCHANGED <<callVars, imageVars, element, pos, erase_address, last_erased_page, cmd,
                 firstpoll, request, memVars>>

(***************************************************************************)
(* abortToIdle, and the commands that make the device leave DFU mode; what *)
(* dnload_chunk returns for the empty chunk is not looked at.              *)
(***************************************************************************)
SendAbort ==
  /\ pc = "abort"
  /\ \E o \in abort(dev) :
       /\ dev' = o.dev
       /\ pc' = IF o.ret = "error" THEN "failed" ELSE "aborted"
  /\ UNCHANGED <<callVars, posVars, erase_address, last_erased_page, cmd, firstpoll, request,
                 memVars>>

CheckAborted ==
  /\ pc = "aborted"
  /\ \E r \in getStatus(dev) :
       /\ dev' = r.dev
       /\ IF r.ret = "error" \/ r.bState # "dfuIDLE" THEN Fail
          ELSE IF job.leave THEN specialCommand(dfuse_address, "SetAddress", "leave")
          ELSE pc' = "done" /\ UNCHANGED <<cmd, last_erased_page>>
  /\ UNCHANGED <<callVars, posVars, erase_address, firstpoll, request, memVars>>

SendLeave ==
  /\ pc = "leave"
  /\ \E o \in downloadEnd(dev) :
       /\ dev' = o.dev
       /\ pc' = IF o.ret = "error" THEN "failed" ELSE "leaving"
  /\ UNCHANGED <<callVars, posVars, erase_address, last_erased_page, cmd, firstpoll, request,
                 memVars>>

AfterLeave(r) == IF Waiting(r) THEN "leaving" ELSE IF r.ret = "ok" THEN "done" ELSE "failed"

PollLeave ==
  /\ pc = "leaving"
  /\ \E r \in getStatus(dev) : dev' = r.dev /\ pc' = AfterLeave(r)
  /\ UNCHANGED <<callVars, posVars, erase_address, last_erased_page, cmd, firstpoll, request,
                 memVars>>

Host == \/ Begin \/ CommandSend \/ CommandStatus \/ OpenFile \/ NextImage \/ EndOfImage
        \/ NextElement \/ NextChunk \/ ErasePages \/ EraseTail \/ SetAddress \/ WriteChunk \/ PollChunk
        \/ SendAbort \/ CheckAborted \/ SendLeave \/ PollLeave

(***************************************************************************)
(* The device carries out what it was given once it has been asked for its *)
(* status, or fails to; it cannot program what its map does not hold.      *)
(***************************************************************************)
Erase(S) ==
  /\ blank' = blank \cup S
  /\ flash' = Restrict(flash, DOMAIN flash \ S)
  /\ spoiled' = spoiled \ S
  /\ UNCHANGED pointer

Program(S) ==
  LET clean == {a \in S : a \in blank \/ ~isAddressEraseable(job.memory, a)}
  IN  /\ \A a \in S : isAddressWriteable(job.memory, a)
      /\ blank' = blank \ S
      /\ flash' = [a \in (DOMAIN flash \ S) \cup clean |->
                     IF a \in clean
                       THEN [request.from EXCEPT ![3] = @ + (a - request.address)]
                       ELSE flash[a]]
      /\ spoiled' = (spoiled \ S) \cup (S \ clean)
      /\ UNCHANGED pointer

DeviceExecute ==
  /\ Executing(dev)
  /\ dev' = Programmed(dev)
  /\ CASE request.kind = "ErasePage" -> Erase(PageAt(job.memory, request.address))
       [] request.kind \in {"MassErase", "ReadUnprotect"} -> Erase(AllAddresses)
       [] request.kind = "SetAddress" ->
            pointer' = request.address /\ UNCHANGED <<flash, blank, spoiled>>
       [] request.kind = "data" -> Program(AddressesFrom(request.address, request.size))
       [] OTHER -> UNCHANGED memVars
  /\ UNCHANGED <<callVars, pc, posVars, erase_address, last_erased_page, cmd, firstpoll,
                 request>>

DeviceManifest ==
  /\ Manifesting(dev)
  /\ \E tolerant \in BOOLEAN : dev' = Manifested(dev, tolerant)
  /\ UNCHANGED <<callVars, pc, posVars, erase_address, last_erased_page, cmd, firstpoll,
                 request, memVars>>

DeviceFail ==
  /\ Executing(dev) \/ Manifesting(dev)
  /\ dev' = InError
  /\ UNCHANGED <<callVars, pc, posVars, erase_address, last_erased_page, cmd, firstpoll,
                 request, memVars>>

Device == DeviceExecute \/ DeviceManifest \/ DeviceFail

Next == Host \/ Device

Spec == Init /\ [][Next]_vars

(* The host thread keeps running, and a device that has work gets it over  *)
(* with, well or badly.  A host that only polls waits: that one of its     *)
(* polls must be lost in the end, and so end the wait, is not assumed.     *)
Answered ==
  /\ pc = "status" => pc' = AfterStatus(answer(dev))
  /\ pc = "poll" => pc' = AfterWrite(answer(dev))
  /\ pc = "leaving" => pc' = AfterLeave(answer(dev))

FairSpec == Spec /\ WF_vars(Host /\ Answered) /\ WF_vars(Device)

-------------------------------------------------------------------------------
(* Every variable keeps its type, what is known of an address is one thing *)
(* only, a chunk starts inside its element, and the reader stays in the    *)
(* payload.                                                                *)
TypeOK ==
  /\ job \in Jobs
  /\ pc \in {"start", "file", "image", "element", "chunk", "erase", "address", "write", "poll",
             "command", "status", "abort", "aborted", "leave", "leaving",
             "done", "unprotected", "failed"}
  /\ transferSize \in Nat /\ layout \in Seq(MemSegments)
  /\ image \in 0 .. ImageNumbers - 1 /\ target \in 0 .. Len(images)
  /\ element \in 0 .. (IF target = 0 THEN 0 ELSE Len(images[target].elements))
  /\ pos \in 0 .. job.file.length \/ pc = "failed"
  /\ p \in Nat
  /\ pc \in {"erase", "address", "write", "poll"} => p < Current.size
  /\ erase_address \in Nat /\ last_erased_page \in Nat
  /\ dfuse_address \in Nat /\ {bFirstAddressSaved, firstpoll} \subseteq BOOLEAN
  /\ cmd \in [command : {"none", "ErasePage", "SetAddress", "MassErase", "ReadUnprotect"},
              address : Nat,
              then : {"failed", "unprotected", "file", "erase", "address", "write", "leave"}]
  /\ dev \in Devices
  /\ pointer \in Nat
  /\ blank \cap DOMAIN flash = {} /\ blank \cap spoiled = {} /\ spoiled \cap DOMAIN flash = {}

(* What run() promises, seen without the protocol and the pages.           *)
outcome == IF pc \in {"done", "unprotected", "failed"} THEN pc ELSE "running"

Flash == INSTANCE FlashDownload

(* The run implements FlashDownload: a byte of the file that has reached   *)
(* the memory stays there, whatever pages are erased after it, and run()   *)
(* returns normally only when all bytes for its alternate setting are in.  *)
ImplementsFlash == Flash!Spec

(* No eraseable address is programmed without having been erased first:    *)
(* the page loop of dnload_element and its tail check cover every page a   *)
(* chunk touches.                                                          *)
ErasedFirst == spoiled = {}

(* The page in last_erased_page, which is not erased again, holds nothing  *)
(* but erased bytes and bytes of this run, unless its erase is under way.  *)
RememberedPage ==
  \/ pc \in {"command", "status", "failed"}
  \/ last_erased_page = 1
  \/ PageAt(job.memory, last_erased_page) \subseteq blank \cup DOMAIN flash

(* Between its start and its end, no request of run() drives the device    *)
(* into dfuERROR.                                                          *)
NeverRefused ==
  [][pc \notin {"start", "failed"} /\ request # NoRequest /\ dev.ok /\ ~dev'.ok => pc' = pc]_vars

(* A device is told to leave only when it holds all of the file, with its  *)
(* pointer at the first address the file names (zero if it names none).    *)
FirstAddress(list) ==
  LET used == {i \in DOMAIN list : list[i].elements # << >>}
  IN  IF used = {} THEN 0
      ELSE list[CHOOSE i \in used : \A k \in used : i <= k].elements[1].address

LeavesComplete ==
  pc = "leaving" =>
    /\ flash = wanted
    /\ pointer = FirstAddress(SubSeq(images, 1, job.file.targetsCount))

(* A run ends, whatever fails, as long as the device gets its work done.   *)
Terminates == <>(outcome # "running")

(* The host works on the device's own map: parseDesc makes of a name the   *)
(* map that it describes; one with a segment whose type cannot be read may *)
(* lose segments, but those it has are where and what the device's are.    *)
MapAsNamed ==
  [][pc = "start" /\ pc' # pc /\ job.wTransferSize # 0 =>
       /\ Chars(layout') \subseteq Chars(job.memory)
       /\ job.named => layout' = job.memory]_vars
===============================================================================
