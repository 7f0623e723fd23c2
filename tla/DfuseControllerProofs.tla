-------------------------- MODULE DfuseControllerProofs --------------------------
(***************************************************************************)
(* The theorems about a DfuSe download.  Types and the standing of run()   *)
(* come first, then the protocol, both for any job.  What is programmed    *)
(* where, for the jobs that are regular, takes the claims of the file,     *)
(* the invariants that relate the place in the file to the memory, one     *)
(* lemma for each action, and the steps of the device.  The refinement of  *)
(* FlashDownload comes last.                                               *)
(***************************************************************************)
EXTENDS DfuseController, DfuDeviceProofs, MemLayoutProofs, SequenceTheorems

(* Where run() stands, or goes on once the command under way is done.      *)
Site == IF pc \in {"command", "status"} THEN cmd.then ELSE pc

(* The places inside dnload_element, and those of them inside its loop.    *)
ElementSites == {"chunk", "erase", "address", "write", "poll"}
ChunkSites == {"erase", "address", "write", "poll"}

(* The values that the control state takes.                                *)
PCs == {"start", "file", "image", "element", "chunk", "erase", "address", "write", "poll",
        "command", "status", "abort", "aborted", "leave", "leaving",
        "done", "unprotected", "failed"}
Commands == {"none", "ErasePage", "SetAddress", "MassErase", "ReadUnprotect"}
Thens == {"failed", "unprotected", "file", "erase", "address", "write", "leave"}

-------------------------------------------------------------------------------
(***************************************************************************)
(* Types                                                                   *)
(***************************************************************************)
Call == job \in Jobs /\ transferSize \in Nat /\ layout \in Seq(MemSegments)

(* Where run() stands in the file, and what it has read of it.             *)
Place ==
  /\ image \in 0 .. ImageNumbers - 1 /\ target \in 0 .. Len(images)
  /\ element \in 0 .. (IF target = 0 THEN 0 ELSE Len(images[target].elements))
  /\ pos \in Nat /\ p \in Nat
  /\ dfuse_address \in Nat /\ bFirstAddressSaved \in BOOLEAN

(* The control state, with the command and the page under way.             *)
Control ==
  /\ pc \in PCs
  /\ cmd \in [command : Commands, address : Nat, then : Thens]
  /\ erase_address \in Nat /\ last_erased_page \in Nat /\ firstpoll \in BOOLEAN

(* The device, and the request that it has been given.                     *)
Unit == dev \in Devices /\ request.address \in Nat /\ pointer \in Nat

(* No address is two of erased, spoiled and programmed.                    *)
Memory == blank \cap DOMAIN flash = {} /\ blank \cap spoiled = {} /\ spoiled \cap DOMAIN flash = {}

(* What run() relies on where it stands.                                   *)
Standing(s) ==
  /\ s \notin {"start", "failed"} => transferSize # 0
  /\ pc # "failed" => pos <= job.file.length
  /\ s \in {"element"} \cup ElementSites => target # 0
  /\ s \in ElementSites => element # 0
  /\ s \in ElementSites /\ pc # "failed" => pos + Current.size <= job.file.length
  /\ s \in ChunkSites => p < Current.size
  /\ s = "erase" => SegmentsAt(layout, address) # {}

(* The invariant for types.                                                *)
Types == Call /\ Place /\ Control /\ Unit /\ Memory /\ Standing(Site)

(* What the assumption on the jobs gives for one of them.                  *)
LEMMA JobTypes ==
  ASSUME job \in Jobs
  PROVE  /\ images \in Seq(Images) /\ job.memory \in Seq(MemSegments)
         /\ Parsed[job.alt_name].segments \in Seq(MemSegments)
         /\ job.file.targetsCount \in 0 .. ImageNumbers - 1 /\ job.file.length \in Nat
         /\ {job.wTransferSize, job.altsetting} \subseteq Nat /\ job.bMaxPacketSize0 \in Nat \ {0}
BY JobsAssumption DEF images, Files

(* Elements lie in the images.                                             *)
LEMMA ElementTypes ==
  ASSUME Call, NEW i \in 1 .. Len(images), NEW k \in 1 .. Len(images[i].elements)
  PROVE  /\ images[i].elements \in Seq(Elements) /\ images[i].alternateSetting \in Nat
         /\ images[i].elements[k].address \in Nat /\ images[i].elements[k].size \in Nat
<1>1. images \in Seq(Images)  BY JobTypes DEF Call
<1>2. images[i] \in Images  BY <1>1
<1>3. images[i].elements \in Seq(Elements) /\ images[i].alternateSetting \in Nat  BY <1>2 DEF Images
<1>4. images[i].elements[k] \in Elements  BY <1>3
<1>5. QED  BY <1>3, <1>4 DEF Elements

(* The element under way, its address and the chunk of it.                 *)
LEMMA CurrentTypes ==
  ASSUME Call, Place, target # 0, element # 0
  PROVE  /\ target \in 1 .. Len(images) /\ element \in 1 .. Len(images[target].elements)
         /\ Current.address \in Nat /\ Current.size \in Nat /\ address \in Nat
         /\ address = Current.address + p
<1>1. target \in 1 .. Len(images) /\ element \in 1 .. Len(images[target].elements)
  <2>1. images \in Seq(Images)  BY JobTypes DEF Call
  <2>2. Len(images) \in Nat  BY <2>1
  <2>3. target \in 1 .. Len(images)  BY <2>2 DEF Place
  <2>4. images[target] \in Images  BY <2>1, <2>3
  <2>5. Len(images[target].elements) \in Nat  BY <2>4 DEF Images
  <2>6. QED  BY <2>3, <2>5 DEF Place
<1>2. Current.address \in Nat /\ Current.size \in Nat  BY <1>1, ElementTypes DEF Current
<1>3. p \in Nat  BY DEF Place
<1>4. QED  BY <1>1, <1>2, <1>3 DEF address

(* A chunk is not empty and stays inside its element.                      *)
LEMMA ChunkTypes ==
  ASSUME Call, Place, target # 0, element # 0, transferSize # 0, p < Current.size
  PROVE  /\ chunk_size \in Nat /\ chunk_size > 0 /\ p + chunk_size <= Current.size
         /\ chunk_size <= transferSize
         /\ p + transferSize < Current.size => chunk_size = transferSize
         /\ p + transferSize >= Current.size => p + chunk_size = Current.size
<1>1. Current.size \in Nat /\ p \in Nat /\ transferSize \in Nat  BY CurrentTypes DEF Place, Call
<1>2. QED  BY <1>1 DEF chunk_size

(* What specialCommand comes to before its first transfer.                 *)
LEMMA SpecialCommand ==
  ASSUME Types, NEW a \in Nat, NEW c \in Commands, NEW t \in Thens, specialCommand(a, c, t)
  PROVE  /\ last_erased_page' \in Nat
         /\ \/ pc' = "failed" /\ cmd' = cmd /\ last_erased_page' = last_erased_page
            \/ /\ pc' = "command" /\ cmd' = [command |-> c, address |-> a, then |-> t]
               /\ c # "ErasePage" => last_erased_page' = last_erased_page
               /\ c = "ErasePage" =>
                    /\ isAddressEraseable(layout, a)
                    /\ last_erased_page' = PageStart(a, findSegment(layout, a).pagesize)
<1>1. last_erased_page \in Nat /\ layout \in Seq(MemSegments)  BY DEF Types, Control, Call
<1>2. CASE c = "ErasePage" /\ ~isAddressEraseable(layout, a)  BY <1>1, <1>2 DEF specialCommand
<1>3. CASE c = "ErasePage" /\ isAddressEraseable(layout, a)
  <2>1. findSegment(layout, a) \in MemSegments  BY <1>1, <1>3, Found DEF isAddressEraseable
  <2>2. findSegment(layout, a).pagesize \in Nat \ {0}  BY <2>1, SegmentFields
  <2>3. PageStart(a, findSegment(layout, a).pagesize) \in Nat  BY <2>2, StartIsAddress
  <2>4. QED  BY <1>3, <2>3 DEF specialCommand
<1>4. CASE c # "ErasePage"  BY <1>1, <1>4 DEF specialCommand
<1>5. QED  BY <1>2, <1>3, <1>4

(* A step that leaves everything of the file where it is.                  *)
LEMMA StandingKept ==
  ASSUME Types, UNCHANGED <<callVars, posVars>>, Site' \in {Site, "failed"},
         pc' = "failed" \/ pc # "failed"
  PROVE  Standing(Site)'
BY DEF Types, Standing, callVars, posVars, imageVars, images, Current, address,
       ElementSites, ChunkSites

(* The types of the job and the place, in a step that leaves both alone.   *)
LEMMA CallPlaceKept ==
  ASSUME Types, UNCHANGED <<callVars, posVars>>
  PROVE  Call' /\ Place'
BY DEF Types, Call, Place, callVars, posVars, imageVars, images

(* Types hold before run() is called.                                      *)
LEMMA InitTypes == Init => Types
<1> SUFFICES ASSUME Init PROVE Types  OBVIOUS
<1> USE DEF Init
<1>1. Call  BY DEF Call
<1>2. job.file.length \in Nat /\ Len(images) \in Nat
  <2>1. images \in Seq(Images) /\ job.file.length \in Nat  BY JobTypes
  <2>2. QED  BY <2>1
<1>3. Place
  <2>1. image = 0 /\ target = 0 /\ element = 0 /\ pos = 0 /\ p = 0 /\ dfuse_address = 0  OBVIOUS
  <2>2. 0 \in 0 .. ImageNumbers - 1  BY ImageNumbersAssumption
  <2>3. 0 \in 0 .. Len(images)  BY <1>2
  <2>4. 0 \in 0 .. (IF target = 0 THEN 0 ELSE Len(images[target].elements))  BY <2>1
  <2>5. bFirstAddressSaved \in BOOLEAN  OBVIOUS
  <2>6. QED  BY <2>1, <2>2, <2>3, <2>4, <2>5 DEF Place
<1>4. Control  BY DEF Control, PCs, NoCommand, Commands, Thens
<1>5. Unit  BY HandedOverDevices DEF Unit, NoRequest
<1>6. Memory  BY DEF Memory, Restrict
<1>7. Standing(Site)  BY <1>2 DEF Standing, Site, ElementSites, ChunkSites
<1>8. QED  BY <1>1, <1>3, <1>4, <1>5, <1>6, <1>7 DEF Types

(* run() up to its first command.                                          *)
LEMMA BeginTypes ==
  ASSUME Types, Begin
  PROVE  Types'
<1>1. Call'
  <2>1. /\ Parsed[job.alt_name].segments \in Seq(MemSegments)
        /\ job.wTransferSize \in Nat /\ job.bMaxPacketSize0 \in Nat
    BY JobTypes DEF Types, Call
  <2>2. getDefaultTransferSize(job) \in Nat  BY <2>1, PageSizeAssumption DEF getDefaultTransferSize
  <2>3. QED  BY <2>1, <2>2 DEF Types, Call, Begin
<1>2. Place'  BY DEF Types, Place, Begin, posVars, imageVars, images
<1>3. /\ Control' /\ Site' \in {"failed", "file", "unprotected"}
  <2>1. CASE Fail  BY <2>1 DEF Fail, Types, Control, Begin, PCs, Site
  <2>2. CASE specialCommand(0, "ReadUnprotect", "unprotected")
    <3>1. "ReadUnprotect" \in Commands /\ "unprotected" \in Thens  BY DEF Commands, Thens
    <3>2. QED  BY <2>2, <3>1, SpecialCommand DEF Types, Control, Begin, PCs, Site
  <2>3. CASE specialCommand(0, "MassErase", "file")
    <3>1. "MassErase" \in Commands /\ "file" \in Thens  BY DEF Commands, Thens
    <3>2. QED  BY <2>3, <3>1, SpecialCommand DEF Types, Control, Begin, PCs, Site
  <2>4. CASE pc' = "file" /\ UNCHANGED <<cmd, last_erased_page>>
    BY <2>4 DEF Types, Control, Begin, PCs, Site
  <2>5. QED  BY <2>1, <2>2, <2>3, <2>4 DEF Begin
<1>4. Unit' /\ Memory'  BY DEF Types, Unit, Memory, Begin, memVars
<1>5. Site' # "failed" => transferSize' # 0
  <2>1. job.wTransferSize \in Nat /\ job.bMaxPacketSize0 \in Nat \ {0}
    BY JobTypes DEF Types, Call
  <2>2. job.wTransferSize # 0 => getDefaultTransferSize(job) # 0
    BY <2>1, PageSizeAssumption DEF getDefaultTransferSize
  <2>3. job.wTransferSize = 0 => Site' = "failed"  BY DEF Begin, Fail, Site
  <2>4. QED  BY <2>2, <2>3 DEF Begin
<1>6. Standing(Site)'
  <2>1. pos' = pos /\ job' = job /\ pc # "failed"  BY DEF Begin, posVars
  <2>2. pos <= job.file.length  BY <2>1 DEF Types, Standing
  <2>3. QED  BY <1>3, <1>5, <2>1, <2>2 DEF Standing, ElementSites, ChunkSites
<1>7. QED  BY <1>1, <1>2, <1>3, <1>4, <1>6 DEF Types

(* What a transfer leaves, and a status request.                           *)
LEMMA SendStep ==
  ASSUME Types, NEW req, NEW next, Send(req, next)
  PROVE  /\ dev' \in Devices /\ request' \in {req, request} /\ pc' \in {next, "failed"}
         /\ pc' # "failed" =>
              /\ dev.state \in {"dfuIDLE", "dfuDNLOAD_IDLE"}
              /\ dev' = TakeData(dev) /\ request' = req
         /\ \/ dev' = dev /\ request' = request
            \/ /\ dev.state \in {"dfuIDLE", "dfuDNLOAD_IDLE"}
               /\ dev' = TakeData(dev) /\ request' = req
            \/ /\ dev.state \notin {"dfuIDLE", "dfuDNLOAD_IDLE"}
               /\ dev' = Stall(dev) /\ request' = request
<1>1. dev \in Devices  BY DEF Types, Unit
<1>2. PICK o \in download(dev) : /\ dev' = o.dev
                                 /\ request' = IF o.got THEN req ELSE request
                                 /\ pc' = IF o.ret = "error" THEN "failed" ELSE next
  BY DEF Send
<1>3. QED  BY <1>1, <1>2, DownloadOutcome

(* The request of specialCommand.                                          *)
LEMMA CommandSendTypes ==
  ASSUME Types, CommandSend
  PROVE  Types' /\ Site' \in {Site, "failed"}
<1>1. Send([NoRequest EXCEPT !.kind = cmd.command, !.address = cmd.address], "status")
  BY DEF CommandSend
<1>2. /\ dev' \in Devices /\ pc' \in {"status", "failed"}
      /\ request' \in {request, [NoRequest EXCEPT !.kind = cmd.command, !.address = cmd.address]}
  BY <1>1, SendStep
<1>3. UNCHANGED <<callVars, posVars>> /\ pc = "command" /\ UNCHANGED cmd  BY DEF CommandSend
<1>4. Site' \in {Site, "failed"}  BY <1>2, <1>3 DEF Site
<1>5. Call' /\ Place'  BY <1>3, CallPlaceKept
<1>6. Standing(Site)'  BY <1>3, <1>4, StandingKept
<1>7. Control'  BY <1>2 DEF CommandSend, Types, Control, PCs
<1>8. Unit' /\ Memory'  BY <1>2 DEF CommandSend, Types, Control, Unit, Memory, memVars, NoRequest
<1>9. QED  BY <1>4, <1>5, <1>6, <1>7, <1>8 DEF Types

(* The status requests of specialCommand, and where they lead.             *)
LEMMA CommandStatusTypes ==
  ASSUME Types, CommandStatus
  PROVE  Types' /\ Site' \in {Site, "failed"}
<1>1. PICK r \in getStatus(dev) : dev' = r.dev /\ pc' = AfterStatus(r)  BY DEF CommandStatus
<1>2. dev' \in Devices  BY <1>1, GetStatusOutcome DEF Types, Unit
<1>3. pc' \in {"failed", "status", cmd.then}  BY <1>1 DEF AfterStatus
<1>4. UNCHANGED <<callVars, posVars>> /\ pc = "status" /\ UNCHANGED cmd  BY DEF CommandStatus
<1>5. cmd.then \in Thens  BY DEF Types, Control
<1>6. Site' \in {Site, "failed"} /\ pc' \in PCs  BY <1>3, <1>4, <1>5 DEF Site, Thens, PCs
<1>7. Call' /\ Place'  BY <1>4, CallPlaceKept
<1>8. Standing(Site)'  BY <1>4, <1>6, StandingKept
<1>9. Control'  BY <1>6 DEF CommandStatus, Types, Control
<1>10. Unit' /\ Memory'  BY <1>2 DEF CommandStatus, Types, Unit, Memory, memVars
<1>11. QED  BY <1>6, <1>7, <1>8, <1>9, <1>10 DEF Types

(* The prefix of the file.                                                 *)
LEMMA OpenFileTypes ==
  ASSUME Types, OpenFile
  PROVE  Types'
<1>1. /\ UNCHANGED <<callVars, target, element, p, dfuse_address, bFirstAddressSaved>>
      /\ pc' \in {"image", "failed"} /\ image' = 1 /\ pc = "file"
      /\ pos' = pos \/ (pos' = pos + PrefixSize /\ Enough(PrefixSize + TargetPrefixSize + ElementHeaderSize))
  BY DEF OpenFile
<1>2. Call'  BY <1>1 DEF Types, Call, callVars
<1>3. /\ pos \in Nat /\ pos' \in Nat /\ pos <= job.file.length /\ pos' <= job.file.length
      /\ job.file.length \in Nat
  <2>1. pos \in Nat /\ pos <= job.file.length /\ job.file.length \in Nat
    BY <1>1, JobTypes DEF Types, Place, Standing, Call
  <2>2. QED  BY <1>1, <2>1 DEF Enough, enoughBytes, PrefixSize, TargetPrefixSize, ElementHeaderSize
<1>4. Site \notin {"start", "failed"} /\ transferSize # 0  BY <1>1 DEF Site, Types, Standing
<1>5. Place'
  <2>1. image' \in 0 .. ImageNumbers - 1  BY <1>1, ImageNumbersAssumption
  <2>2. QED  BY <1>1, <1>3, <2>1 DEF Types, Place, callVars, images
<1>6. Control' /\ Site' \in {"image", "failed"}
  BY <1>1 DEF Types, Control, PCs, OpenFile, Site
<1>7. Unit' /\ Memory'  BY DEF OpenFile, Types, Unit, Memory, memVars
<1>8. Standing(Site)'
  BY <1>1, <1>3, <1>4, <1>6 DEF Standing, callVars, ElementSites, ChunkSites
<1>9. QED  BY <1>2, <1>5, <1>6, <1>7, <1>8 DEF Types

(* The target prefix of the next image, or the end of them.                *)
LEMMA NextImageTypes ==
  ASSUME Types, NextImage
  PROVE  Types'
<1>1. /\ UNCHANGED <<job, transferSize, image, p, dfuse_address, bFirstAddressSaved>>
      /\ pc' \in {"abort", "element", "failed"} /\ pc = "image"
      /\ layout' = IF pc' = "abort" THEN << >> ELSE layout
  BY DEF NextImage
<1>2. \/ /\ pc' = "element" /\ target' = target + 1 /\ element' = 0
         /\ pos' = pos + TargetPrefixSize /\ Enough(TargetPrefixSize) /\ target < Len(images)
      \/ pc' # "element" /\ UNCHANGED <<target, element, pos>>
  BY DEF NextImage
<1>3. Call'  BY <1>1 DEF Types, Call
<1>4. pos \in Nat /\ pos <= job.file.length /\ job.file.length \in Nat
  BY <1>1, JobTypes DEF Types, Place, Standing, Call
<1>5. pos' \in Nat /\ pos' <= job.file.length
  BY <1>2, <1>4 DEF Enough, enoughBytes, TargetPrefixSize
<1>6. images \in Seq(Images) /\ Len(images) \in Nat
  <2>1. images \in Seq(Images)  BY JobTypes DEF Types, Call
  <2>2. QED  BY <2>1
<1>7. Place'
  <2>1. /\ target \in 0 .. Len(images)
        /\ element \in 0 .. (IF target = 0 THEN 0 ELSE Len(images[target].elements))
        /\ image \in 0 .. ImageNumbers - 1 /\ p \in Nat /\ dfuse_address \in Nat
        /\ bFirstAddressSaved \in BOOLEAN
    BY DEF Types, Place
  <2>2. images' = images  BY <1>1 DEF images
  <2>3. target' \in 0 .. Len(images)  BY <1>2, <1>6, <2>1
  <2>4. element' \in 0 .. (IF target' = 0 THEN 0 ELSE Len(images[target'].elements))
    <3>1. CASE pc' = "element"
      <4>1. target' \in 1 .. Len(images) /\ element' = 0  BY <1>2, <1>6, <2>1, <3>1
      <4>2. images[target'] \in Images  BY <1>6, <4>1
      <4>3. Len(images[target'].elements) \in Nat  BY <4>2 DEF Images
      <4>4. QED  BY <4>1, <4>3
    <3>2. CASE pc' # "element"  BY <1>2, <2>1, <3>2
    <3>3. QED  BY <3>1, <3>2
  <2>5. QED  BY <1>1, <1>5, <2>1, <2>2, <2>3, <2>4 DEF Place
<1>8. Control' /\ Site' = pc'
  <2>1. Site' = pc'  BY <1>1 DEF Site
  <2>2. QED  BY <1>1, <2>1 DEF Types, Control, PCs, NextImage
<1>9. Unit' /\ Memory'  BY DEF NextImage, Types, Unit, Memory, memVars
<1>10. Standing(Site)'
  <2>1. transferSize' # 0  BY <1>1 DEF Types, Standing, Site
  <2>2. pc' = "element" => target' # 0  BY <1>2, <1>6 DEF Types, Place
  <2>3. QED  BY <1>1, <1>5, <1>8, <2>1, <2>2 DEF Standing, ElementSites, ChunkSites
<1>11. QED  BY <1>3, <1>7, <1>8, <1>9, <1>10 DEF Types

(* The end of an image, from where the next is begun.                      *)
LEMMA EndOfImageTypes ==
  ASSUME Types, EndOfImage
  PROVE  Types'
<1>1. /\ UNCHANGED <<callVars, target, element, pos, p, dfuse_address, bFirstAddressSaved>>
      /\ pc = "element" /\ pc' = "image" /\ image' = (image + 1) % ImageNumbers
  BY DEF EndOfImage
<1>2. Call'  BY <1>1 DEF Types, Call, callVars
<1>3. Place'
  <2>1. image' \in 0 .. ImageNumbers - 1  BY <1>1, ImageNumbersAssumption DEF Types, Place
  <2>2. QED  BY <1>1, <2>1 DEF Types, Place, callVars, images
<1>4. Control' /\ Site' = "image"  BY <1>1 DEF Types, Control, PCs, EndOfImage, Site
<1>5. Unit' /\ Memory'  BY DEF EndOfImage, Types, Unit, Memory, memVars
<1>6. Standing(Site)'
  BY <1>1, <1>4 DEF Types, Standing, Site, ElementSites, ChunkSites, callVars
<1>7. QED  BY <1>2, <1>3, <1>4, <1>5, <1>6 DEF Types

(* The header of the next element, which dnload_element takes up or skips. *)
LEMMA NextElementTypes ==
  ASSUME Types, NextElement
  PROVE  /\ Types' /\ pc' \in {"element", "chunk", "failed"} /\ Site' = pc'
         /\ target \in 1 .. Len(images) /\ element' \in 1 .. Len(images[target].elements)
         /\ element' = element + 1 /\ p' = 0
<1> DEFINE e == images[target].elements[element + 1]
<1>1. /\ UNCHANGED <<callVars, image, target>> /\ pc = "element"
      /\ element < Len(images[target].elements) /\ element' = element + 1 /\ p' = 0
      /\ pc' = ReadElement(e)
      /\ pos' = pos + (IF pc' = "element" THEN ElementHeaderSize + e.size ELSE ElementHeaderSize)
      /\ \/ dfuse_address' = LeaveAddress(e) /\ bFirstAddressSaved' = TRUE
         \/ UNCHANGED <<dfuse_address, bFirstAddressSaved>>
  BY DEF NextElement
<1>2. Call'  BY <1>1 DEF Types, Call, callVars
<1>3. target # 0 /\ transferSize # 0 /\ pos <= job.file.length
  BY <1>1 DEF Types, Standing, Site
<1>4. images \in Seq(Images) /\ Len(images) \in Nat /\ job.file.length \in Nat
  <2>1. images \in Seq(Images) /\ job.file.length \in Nat  BY JobTypes DEF Types, Call
  <2>2. QED  BY <2>1
<1>5. target \in 1 .. Len(images)  BY <1>3, <1>4 DEF Types, Place
<1>6. Len(images[target].elements) \in Nat
  <2>1. images[target] \in Images  BY <1>4, <1>5
  <2>2. QED  BY <2>1 DEF Images
<1>7. element' \in 1 .. Len(images[target].elements)
  BY <1>1, <1>3, <1>6 DEF Types, Place
<1>8. e.address \in Nat /\ e.size \in Nat
  BY <1>1, <1>5, <1>7, ElementTypes DEF Types
<1>9. e = Current'  BY <1>1 DEF Current, images, callVars
<1> HIDE DEF e
<1>10. /\ pc' \in {"element", "chunk", "failed"}
       /\ pc' # "failed" => Enough(ElementHeaderSize + e.size)
  BY <1>1 DEF ReadElement
<1>11. Site' = pc'  BY <1>10 DEF Site
<1>12. /\ pos' \in Nat
       /\ pc' # "failed" => pos' <= job.file.length
       /\ pc' = "chunk" => pos' + e.size <= job.file.length
  <2>1. pos \in Nat /\ ElementHeaderSize \in Nat  BY DEF Types, Place, ElementHeaderSize
  <2>2. pc' # "failed" => pos + (ElementHeaderSize + e.size) <= job.file.length
    BY <1>10 DEF Enough, enoughBytes
  <2>3. \/ pc' = "element" /\ pos' = pos + (ElementHeaderSize + e.size)
        \/ pc' # "element" /\ pos' = pos + ElementHeaderSize
    BY <1>1
  <2>4. ElementHeaderSize + e.size \in Nat /\ job.file.length \in Int  BY <1>4, <1>8, <2>1
  <2>5. pc' = "chunk" => pos + ElementHeaderSize + e.size <= job.file.length
    BY <1>8, <2>1, <2>2, <2>4
  <2>6. CASE pc' = "element"  BY <2>1, <2>2, <2>3, <2>4, <2>6
  <2>7. CASE pc' # "element"  BY <1>8, <2>1, <2>2, <2>3, <2>4, <2>5, <2>7
  <2>8. QED  BY <2>6, <2>7
<1>13. Place'
  <2>1. dfuse_address' \in Nat /\ bFirstAddressSaved' \in BOOLEAN
    BY <1>1, <1>8 DEF LeaveAddress, Types, Place
  <2>2. /\ image' \in 0 .. ImageNumbers - 1 /\ target' \in 0 .. Len(images') /\ p' \in Nat
        /\ images' = images
    BY <1>1 DEF Types, Place, images, callVars
  <2>3. element' \in 0 .. (IF target' = 0 THEN 0 ELSE Len(images'[target'].elements))
    BY <1>1, <1>3, <1>6, <1>7, <2>2
  <2>4. QED  BY <1>12, <2>1, <2>2, <2>3 DEF Place
<1>14. Control'  BY <1>10 DEF Types, Control, PCs, NextElement
<1>15. Unit' /\ Memory'  BY DEF NextElement, Types, Unit, Memory, memVars
<1>16. Standing(Site)'
  <2>1. job' = job /\ target' # 0 /\ transferSize' # 0 /\ element' # 0
    BY <1>1, <1>3, <1>7 DEF callVars
  <2>2. QED  BY <1>9, <1>10, <1>11, <1>12, <2>1 DEF Standing, ElementSites, ChunkSites
<1>17. QED  BY <1>1, <1>2, <1>5, <1>7, <1>10, <1>11, <1>13, <1>14, <1>15, <1>16 DEF Types

(* The next chunk of dnload_element.                                       *)
LEMMA NextChunkTypes ==
  ASSUME Types, NextChunk
  PROVE  Types' /\ Site' = pc'
<1>1. /\ UNCHANGED <<callVars, imageVars, element, p, last_erased_page, cmd>> /\ pc = "chunk"
      /\ pc' \in {"element", "failed", "erase", "address"}
      /\ pc' = "element" <=> ElementDone
      /\ pc' = "erase" => isAddressEraseable(layout, address)
      /\ erase_address' = IF pc' = "erase" THEN address ELSE erase_address
      /\ pos' = IF pc' = "element" THEN pos + Current.size ELSE pos
  BY DEF NextChunk
<1>2. Call'  BY <1>1 DEF Types, Call, callVars
<1>3. /\ target # 0 /\ element # 0 /\ transferSize # 0
      /\ pos + Current.size <= job.file.length /\ pos <= job.file.length
  BY <1>1 DEF Types, Standing, Site, ElementSites
<1>4. /\ Current.size \in Nat /\ address \in Nat /\ pos \in Nat /\ p \in Nat
      /\ job.file.length \in Nat
  BY <1>3, CurrentTypes, JobTypes DEF Types, Place, Call
<1>5. Site' = pc'  BY <1>1 DEF Site
<1>6. /\ pos' \in Nat /\ pos' <= job.file.length
      /\ pc' \in {"erase", "address"} => pos' + Current.size <= job.file.length /\ p < Current.size
  BY <1>1, <1>3, <1>4 DEF ElementDone
<1>7. Place'  BY <1>1, <1>6 DEF Types, Place, callVars, imageVars, images
<1>8. Control'  BY <1>1, <1>4 DEF Types, Control, PCs, NextChunk
<1>9. Unit' /\ Memory'  BY DEF NextChunk, Types, Unit, Memory, memVars
<1>10. UNCHANGED <<job, layout, target, element, transferSize, p>>
       /\ Current' = Current /\ address' = address
  BY <1>1 DEF callVars, imageVars, images, Current, address
<1>11. pc' = "erase" => SegmentsAt(layout, address) # {}  BY <1>1 DEF isAddressEraseable
<1>12. Standing(Site)'
  BY <1>1, <1>3, <1>5, <1>6, <1>10, <1>11 DEF Standing, ElementSites, ChunkSites
<1>13. QED  BY <1>2, <1>5, <1>7, <1>8, <1>9, <1>12 DEF Types

(* The chunk under way while its pages are erased.                         *)
LEMMA ErasingTypes ==
  ASSUME Types, Site = "erase"
  PROVE  /\ address \in Nat /\ chunk_size \in Nat /\ chunk_size > 0
         /\ address + chunk_size - 1 \in Nat
         /\ page_size \in Nat /\ page_size # 0 /\ SegmentsAt(layout, address) # {}
<1>1. /\ target # 0 /\ element # 0 /\ transferSize # 0 /\ p < Current.size
      /\ SegmentsAt(layout, address) # {}
  BY DEF Types, Standing, ElementSites, ChunkSites
<1>2. address \in Nat /\ chunk_size \in Nat /\ chunk_size > 0
  BY <1>1, CurrentTypes, ChunkTypes DEF Types
<1>3. findSegment(layout, address) \in MemSegments  BY <1>1, Found DEF Types, Call
<1>4. page_size \in Nat \ {0}  BY <1>3, SegmentFields DEF page_size
<1>5. QED  BY <1>1, <1>2, <1>4

(* A command for a page or an address of the chunk that is under way.      *)
LEMMA CommandTypes ==
  ASSUME Types, pc \in {"erase", "address"}, NEW a \in Nat, NEW c \in Commands,
         NEW t \in {"erase", "address", "write"}, t = "erase" => pc = "erase",
         specialCommand(a, c, t), erase_address' \in Nat,
         UNCHANGED <<callVars, posVars, firstpoll, dev, request, memVars>>
  PROVE  Types' /\ Site' \in {t, "failed"}
<1>1. t \in Thens  BY DEF Thens
<1>2. /\ last_erased_page' \in Nat
      /\ \/ pc' = "failed" /\ cmd' = cmd
         \/ pc' = "command" /\ cmd' = [command |-> c, address |-> a, then |-> t]
  BY <1>1, SpecialCommand
<1>3. Site' \in {t, "failed"}  BY <1>2 DEF Site
<1>4. Call' /\ Place'  BY CallPlaceKept
<1>5. Control'  BY <1>1, <1>2 DEF Types, Control, PCs
<1>6. Unit' /\ Memory'  BY DEF Types, Unit, Memory, memVars
<1>7. Standing(Site)'
  <2>1. UNCHANGED <<callVars, posVars>>  OBVIOUS
  <2>2. Standing(t)
    <3>1. Site = pc /\ Standing(Site)  BY DEF Site, Types
    <3>2. QED  BY <3>1 DEF Standing, ElementSites, ChunkSites
  <2>3. pc # "failed"  OBVIOUS
  <2>4. QED
    BY <1>3, <2>1, <2>2, <2>3 DEF Standing, callVars, posVars, imageVars, images, Current,
       address, ElementSites, ChunkSites
<1>8. QED  BY <1>3, <1>4, <1>5, <1>6, <1>7 DEF Types

(* The page loop of the erasing of a chunk.                                *)
LEMMA ErasePagesTypes ==
  ASSUME Types, ErasePages
  PROVE  Types' /\ Site' \in {"erase", "failed"}
<1>1. /\ UNCHANGED <<callVars, posVars, firstpoll, dev, request, memVars>> /\ pc = "erase"
      /\ erase_address' = erase_address + page_size
  BY DEF ErasePages
<1>2. erase_address \in Nat /\ erase_address' \in Nat
  BY <1>1, ErasingTypes DEF Types, Control, Site
<1>3. CASE UNCHANGED <<pc, cmd, last_erased_page>>
  <2>1. UNCHANGED <<callVars, posVars>> /\ Site' = Site /\ Site = "erase"
    BY <1>1, <1>3 DEF Site
  <2>2. Call' /\ Place' /\ Standing(Site)'  BY <1>1, <2>1, CallPlaceKept, StandingKept
  <2>3. Control'  BY <1>1, <1>2, <1>3 DEF Types, Control
  <2>4. Unit' /\ Memory'  BY <1>1 DEF Types, Unit, Memory, memVars
  <2>5. QED  BY <2>1, <2>2, <2>3, <2>4 DEF Types
<1>4. CASE specialCommand(erase_address, "ErasePage", "erase")
  <2>1. "ErasePage" \in Commands  BY DEF Commands
  <2>2. QED  BY <1>1, <1>2, <1>4, <2>1, CommandTypes
<1>5. QED  BY <1>3, <1>4 DEF ErasePages

(* The page at the last address of a chunk.                                *)
LEMMA EraseTailTypes ==
  ASSUME Types, EraseTail
  PROVE  Types' /\ Site' \in {"address", "failed"}
<1>1. /\ UNCHANGED <<callVars, posVars, erase_address, firstpoll, dev, request, memVars>>
      /\ pc = "erase"
  BY DEF EraseTail
<1>2. address + chunk_size - 1 \in Nat /\ erase_address' \in Nat
  BY <1>1, ErasingTypes DEF Types, Control, Site
<1>3. CASE pc' = "address" /\ UNCHANGED <<cmd, last_erased_page>>
  <2>1. UNCHANGED <<callVars, posVars>> /\ Site' = "address" /\ Site = "erase"
    BY <1>1, <1>3 DEF Site
  <2>2. Call' /\ Place'  BY <1>1, CallPlaceKept
  <2>3. Standing(Site)'
    BY <1>1, <1>3, <2>1 DEF Types, Standing, callVars, posVars, imageVars, images, Current,
       ElementSites, ChunkSites
  <2>4. Control'  BY <1>1, <1>2, <1>3 DEF Types, Control, PCs
  <2>5. Unit' /\ Memory'  BY <1>1 DEF Types, Unit, Memory, memVars
  <2>6. QED  BY <2>1, <2>2, <2>3, <2>4, <2>5 DEF Types
<1>4. CASE specialCommand(address + chunk_size - 1, "ErasePage", "address")
  <2>1. "ErasePage" \in Commands  BY DEF Commands
  <2>2. QED  BY <1>1, <1>2, <1>4, <2>1, CommandTypes
<1>5. QED  BY <1>3, <1>4 DEF EraseTail

(* The address command of a chunk.                                         *)
LEMMA SetAddressTypes ==
  ASSUME Types, SetAddress
  PROVE  Types' /\ Site' \in {"write", "failed"} /\ address \in Nat
<1>1. /\ UNCHANGED <<callVars, posVars, erase_address, firstpoll, dev, request, memVars>>
      /\ pc = "address" /\ specialCommand(address, "SetAddress", "write")
  BY DEF SetAddress
<1>2. address \in Nat
  <2>1. target # 0 /\ element # 0
    BY <1>1 DEF Types, Standing, Site, ElementSites
  <2>2. QED  BY <2>1, CurrentTypes DEF Types
<1>3. erase_address' \in Nat  BY <1>1 DEF Types, Control
<1>4. "SetAddress" \in Commands  BY DEF Commands
<1>5. QED  BY <1>1, <1>2, <1>3, <1>4, CommandTypes

(* The transfer of a chunk.                                                *)
LEMMA WriteChunkTypes ==
  ASSUME Types, WriteChunk
  PROVE  Types' /\ Site' = pc'
<1> DEFINE req == [kind |-> "data", address |-> pointer, from |-> <<target, element, p>>,
                   size |-> chunk_size]
<1>1. Send(req, "poll")  BY DEF WriteChunk
<1>2. req.address = pointer  OBVIOUS
<1> HIDE DEF req
<1>3. dev' \in Devices /\ pc' \in {"poll", "failed"} /\ request' \in {req, request}
  BY <1>1, SendStep
<1>4. UNCHANGED <<callVars, posVars>> /\ pc = "write"  BY DEF WriteChunk
<1>5. Site' = pc' /\ Site = "write"  BY <1>3, <1>4 DEF Site
<1>6. Call' /\ Place'  BY <1>4, CallPlaceKept
<1>7. Standing(Site)'
  BY <1>3, <1>4, <1>5 DEF Types, Standing, callVars, posVars, imageVars, images, Current,
     ElementSites, ChunkSites
<1>8. Control'  BY <1>3 DEF WriteChunk, Types, Control, PCs
<1>9. Unit' /\ Memory'  BY <1>2, <1>3 DEF WriteChunk, Types, Unit, Memory, memVars
<1>10. QED  BY <1>5, <1>6, <1>7, <1>8, <1>9 DEF Types

(* The status requests after the transfer of a chunk.                      *)
LEMMA PollChunkTypes ==
  ASSUME Types, PollChunk
  PROVE  Types' /\ Site' = pc' /\ Site = "poll" /\ pc' \in {"poll", "chunk", "failed"}
<1>1. PICK r \in getStatus(dev) : dev' = r.dev /\ pc' = AfterWrite(r)  BY DEF PollChunk
<1>2. dev' \in Devices  BY <1>1, GetStatusOutcome DEF Types, Unit
<1>3. pc' \in {"poll", "chunk", "failed"}  BY <1>1 DEF AfterWrite
<1>4. /\ UNCHANGED <<callVars, imageVars, element, pos>> /\ pc = "poll"
      /\ p' = IF pc' = "chunk" THEN p + transferSize ELSE p
  BY DEF PollChunk
<1>5. Site' = pc' /\ Site = "poll"  BY <1>3, <1>4 DEF Site
<1>6. Call'  BY <1>4 DEF Types, Call, callVars
<1>7. p' \in Nat  BY <1>4 DEF Types, Place, Call
<1>8. Place'  BY <1>4, <1>7 DEF Types, Place, callVars, imageVars, images
<1>9. Standing(Site)'
  BY <1>3, <1>4, <1>5 DEF Types, Standing, callVars, imageVars, images, Current, ElementSites,
     ChunkSites
<1>10. Control'  BY <1>3 DEF PollChunk, Types, Control, PCs
<1>11. Unit' /\ Memory'  BY <1>2 DEF PollChunk, Types, Unit, Memory, memVars
<1>12. QED  BY <1>3, <1>5, <1>6, <1>8, <1>9, <1>10, <1>11 DEF Types

(* The steps at the end of a run, which leave the file where it is.        *)
LEMMA EndingTypes ==
  ASSUME Types, UNCHANGED <<callVars, posVars, erase_address, memVars, request, firstpoll>>,
         dev' \in Devices, pc \in {"abort", "aborted", "leave", "leaving"},
         last_erased_page' = last_erased_page,
         \/ /\ pc' \in {"aborted", "leaving", "done", "failed"}
            /\ cmd' = cmd
         \/ /\ pc' = "command"
            /\ cmd' = [command |-> "SetAddress", address |-> dfuse_address, then |-> "leave"]
  PROVE  Types'
<1>1. UNCHANGED <<callVars, posVars>>  OBVIOUS
<1>2. Site' \in {"aborted", "leaving", "done", "failed", "leave"} /\ Site = pc  BY DEF Site
<1>3. Call' /\ Place'  BY <1>1, CallPlaceKept
<1>4. Standing(Site)'
  BY <1>1, <1>2 DEF Types, Standing, callVars, posVars, ElementSites, ChunkSites
<1>5. dfuse_address \in Nat  BY DEF Types, Place
<1>6. Control'  BY <1>5 DEF Types, Control, PCs, Commands, Thens
<1>7. Unit' /\ Memory'  BY DEF Types, Unit, Memory, memVars
<1>8. QED  BY <1>3, <1>4, <1>6, <1>7 DEF Types

(* The request to abort, once the file is in.                              *)
LEMMA SendAbortTypes ==
  ASSUME Types, SendAbort
  PROVE  Types'
<1>1. PICK o \in abort(dev) : /\ dev' = o.dev
                              /\ pc' = IF o.ret = "error" THEN "failed" ELSE "aborted"
  BY DEF SendAbort
<1>2. dev' \in Devices
  <2>1. dev \in Devices  BY DEF Types, Unit
  <2>2. Stall(dev) \in Devices /\ ToIdle(dev) \in Devices
    BY <2>1, DeviceRecords DEF ToIdle, Devices, DfuStates
  <2>3. o.dev \in {dev, Stall(dev), ToIdle(dev)}
    BY DEF abort, dfuXferOut
  <2>4. QED  BY <1>1, <2>1, <2>2, <2>3
<1>3. QED  BY <1>1, <1>2, EndingTypes DEF SendAbort

(* The answer to it, and the address command for the start.                *)
LEMMA CheckAbortedTypes ==
  ASSUME Types, CheckAborted
  PROVE  Types'
<1>1. PICK r \in getStatus(dev) : dev' = r.dev  BY DEF CheckAborted
<1>2. dev' \in Devices  BY <1>1, GetStatusOutcome DEF Types, Unit
<1>3. UNCHANGED <<callVars, posVars, erase_address, memVars, request, firstpoll>> /\ pc = "aborted"
  BY DEF CheckAborted
<1>4. CASE Fail  BY <1>2, <1>3, <1>4, EndingTypes DEF Fail
<1>5. CASE pc' = "done" /\ UNCHANGED <<cmd, last_erased_page>>
  BY <1>2, <1>3, <1>5, EndingTypes
<1>6. CASE specialCommand(dfuse_address, "SetAddress", "leave")
  <2>1. /\ dfuse_address \in Nat /\ "SetAddress" \in Commands /\ "leave" \in Thens
    BY DEF Types, Place, Commands, Thens
  <2>2. /\ last_erased_page' = last_erased_page
        /\ \/ pc' = "failed" /\ cmd' = cmd
           \/ /\ pc' = "command"
              /\ cmd' = [command |-> "SetAddress", address |-> dfuse_address, then |-> "leave"]
    BY <1>6, <2>1, SpecialCommand
  <2>3. QED  BY <1>2, <1>3, <2>2, EndingTypes
<1>7. QED  BY <1>4, <1>5, <1>6 DEF CheckAborted

(* The empty transfer that makes the device leave.                         *)
LEMMA SendLeaveTypes ==
  ASSUME Types, SendLeave
  PROVE  Types'
<1>1. PICK o \in downloadEnd(dev) : /\ dev' = o.dev
                                    /\ pc' = IF o.ret = "error" THEN "failed" ELSE "leaving"
  BY DEF SendLeave
<1>2. dev' \in Devices  BY <1>1, DownloadEndOutcome DEF Types, Unit
<1>3. QED  BY <1>1, <1>2, EndingTypes DEF SendLeave

(* The status request after it.                                            *)
LEMMA PollLeaveTypes ==
  ASSUME Types, PollLeave
  PROVE  Types'
<1>1. PICK r \in getStatus(dev) : dev' = r.dev /\ pc' = AfterLeave(r)  BY DEF PollLeave
<1>2. dev' \in Devices  BY <1>1, GetStatusOutcome DEF Types, Unit
<1>3. pc' \in {"leaving", "done", "failed"}  BY <1>1 DEF AfterLeave
<1>4. QED  BY <1>2, <1>3, EndingTypes DEF PollLeave

(* What the device does to its memory.                                     *)
LEMMA ErasedMemory ==
  ASSUME Memory, NEW S, Erase(S)
  PROVE  Memory' /\ pointer' = pointer
BY DEF Memory, Erase, Restrict

(* Programming keeps the three sets apart as well.                         *)
LEMMA ProgrammedMemory ==
  ASSUME Memory, NEW S, Program(S)
  PROVE  Memory' /\ pointer' = pointer
<1> DEFINE clean == {a \in S : a \in blank \/ ~isAddressEraseable(job.memory, a)}
<1>1. /\ blank' = blank \ S /\ DOMAIN flash' = (DOMAIN flash \ S) \cup clean
      /\ spoiled' = (spoiled \ S) \cup (S \ clean) /\ pointer' = pointer
  BY DEF Program
<1>2. clean \subseteq S  OBVIOUS
<1> HIDE DEF clean
<1>3. QED  BY <1>1, <1>2 DEF Memory

(* What the device does on its own.                                        *)
LEMMA DeviceTypes ==
  ASSUME Types, Device
  PROVE  Types' /\ UNCHANGED <<callVars, posVars, pc, cmd, erase_address, last_erased_page>>
<1>1. UNCHANGED <<callVars, posVars, pc, cmd, erase_address, last_erased_page, firstpoll, request>>
  BY DEF Device, DeviceExecute, DeviceManifest, DeviceFail
<1>2. dev' \in Devices
  BY DeviceRecords DEF Device, DeviceExecute, DeviceManifest, DeviceFail, Types, Unit
<1>3. Memory' /\ pointer' \in Nat
  <2>1. Memory /\ pointer \in Nat /\ request.address \in Nat  BY DEF Types, Unit
  <2>2. CASE UNCHANGED memVars  BY <2>1, <2>2 DEF memVars, Memory
  <2>3. CASE \E S : Erase(S)  BY <2>1, <2>3, ErasedMemory
  <2>4. CASE \E S : Program(S)  BY <2>1, <2>4, ProgrammedMemory
  <2>5. CASE pointer' = request.address /\ UNCHANGED <<flash, blank, spoiled>>
    BY <2>1, <2>5 DEF Memory
  <2>6. UNCHANGED memVars \/ (\E S : Erase(S)) \/ (\E S : Program(S))
        \/ (pointer' = request.address /\ UNCHANGED <<flash, blank, spoiled>>)
    <3>1. CASE DeviceExecute
      <4>1. CASE request.kind = "ErasePage"  BY <3>1, <4>1 DEF DeviceExecute
      <4>2. CASE request.kind \in {"MassErase", "ReadUnprotect"}  BY <3>1, <4>2 DEF DeviceExecute
      <4>3. CASE request.kind = "SetAddress"  BY <3>1, <4>3 DEF DeviceExecute
      <4>4. CASE request.kind = "data"  BY <3>1, <4>4 DEF DeviceExecute
      <4>5. CASE request.kind \notin {"ErasePage", "MassErase", "ReadUnprotect", "SetAddress", "data"}
        BY <3>1, <4>5 DEF DeviceExecute
      <4>6. QED  BY <4>1, <4>2, <4>3, <4>4, <4>5
    <3>2. CASE DeviceManifest \/ DeviceFail  BY <3>2 DEF DeviceManifest, DeviceFail
    <3>3. QED  BY <3>1, <3>2 DEF Device
  <2>7. QED  BY <2>2, <2>3, <2>4, <2>5, <2>6
<1>4. UNCHANGED <<callVars, posVars>> /\ Site' = Site /\ pc' = pc  BY <1>1 DEF Site
<1>5. Call' /\ Place'  BY <1>4, CallPlaceKept
<1>6. Standing(Site)'  BY <1>4, StandingKept
<1>7. Control'  BY <1>1 DEF Types, Control
<1>8. Unit'  BY <1>1, <1>2, <1>3 DEF Types, Unit
<1>9. QED  BY <1>1, <1>3, <1>5, <1>6, <1>7, <1>8 DEF Types

(* Types are kept by every step.                                           *)
LEMMA StepTypes == Types /\ [Next]_vars => Types'
<1> SUFFICES ASSUME Types, [Next]_vars PROVE Types'  OBVIOUS
<1>1. CASE Host
  BY <1>1, BeginTypes, CommandSendTypes, CommandStatusTypes, OpenFileTypes, NextImageTypes,
     EndOfImageTypes, NextElementTypes, NextChunkTypes, ErasePagesTypes, EraseTailTypes,
     SetAddressTypes, WriteChunkTypes, PollChunkTypes, SendAbortTypes, CheckAbortedTypes,
     SendLeaveTypes, PollLeaveTypes DEF Host
<1>2. CASE Device  BY <1>2, DeviceTypes
<1>3. CASE UNCHANGED vars
  BY <1>3 DEF Types, Call, Place, Control, Unit, Memory, Standing, Site, images, Current,
     address, vars, ElementSites, ChunkSites
<1>4. QED  BY <1>1, <1>2, <1>3 DEF Next

(* Types hold in every state.                                              *)
LEMMA TypesHold == Spec => []Types
<1>1. QED  BY InitTypes, StepTypes, PTL DEF Spec

(* Every variable keeps its type, no address is two things at once, a      *)
(* chunk starts inside its element, and the reader stays in the payload,   *)
(* for every job.                                                          *)
THEOREM TypeCorrect == Spec => []TypeOK
<1>1. Types => TypeOK
  <2> SUFFICES ASSUME Types PROVE TypeOK  OBVIOUS
  <2>1. Call /\ Place /\ Control /\ Unit /\ Memory /\ Standing(Site)  BY DEF Types
  <2>2. pos \in 0 .. job.file.length \/ pc = "failed"
    BY <2>1, JobTypes DEF Place, Standing, Call
  <2>3. pc \in {"erase", "address", "write", "poll"} => p < Current.size
    BY <2>1 DEF Standing, Site, ChunkSites
  <2>4. {bFirstAddressSaved, firstpoll} \subseteq BOOLEAN  BY <2>1 DEF Place, Control
  <2>5. /\ job \in Jobs /\ pc \in PCs /\ transferSize \in Nat /\ layout \in Seq(MemSegments)
        /\ image \in 0 .. ImageNumbers - 1 /\ target \in 0 .. Len(images)
        /\ element \in 0 .. (IF target = 0 THEN 0 ELSE Len(images[target].elements))
        /\ p \in Nat /\ erase_address \in Nat /\ last_erased_page \in Nat
        /\ dfuse_address \in Nat /\ dev \in Devices /\ pointer \in Nat
        /\ cmd \in [command : Commands, address : Nat, then : Thens]
    BY <2>1 DEF Call, Place, Control, Unit
  <2>6. QED  BY <2>1, <2>2, <2>3, <2>4, <2>5 DEF TypeOK, PCs, Commands, Thens, Memory
<1>2. QED  BY <1>1, TypesHold, PTL

-------------------------------------------------------------------------------
(***************************************************************************)
(* The protocol: where run() stands says what the device it has given      *)
(* something to do is ready for.                                           *)
(***************************************************************************)
Ready == dev.state = "dfuDNLOAD_IDLE" /\ dev.ok /\ ~dev.work

(* A device that has not been given anything since it was reset.           *)
Idle == dev.state = "dfuIDLE" /\ dev.ok /\ ~dev.work

(* The places where run() has nothing under way at the device.             *)
ReadySites == {"start", "file", "image", "element", "chunk", "erase", "address", "write",
               "abort", "leave"}

(* A device is in dfuERROR exactly when it has stalled or failed.          *)
Sane == (dev.ok <=> dev.state # "dfuERROR") /\ (dev.state = "dfuERROR" => ~dev.work)

(* The device is ready where run() is about to give it something to do, or *)
(* idle where it has been told to abort.                                   *)
Quiet ==
  /\ request # NoRequest =>
       /\ pc \in ReadySites \/ (pc = "command" /\ cmd.then # "leave") => Ready
       /\ pc = "aborted" \/ (pc = "command" /\ cmd.then = "leave") => Idle
       /\ pc \in {"leaving", "done"} => dev.state \notin {"dfuDNLOAD_SYNC", "dfuDNBUSY"}
  /\ pc \in {"write", "leave", "leaving"} => request # NoRequest

(* The request of the command under way, and that of the chunk.            *)
CommandRequest == [NoRequest EXCEPT !.kind = cmd.command, !.address = cmd.address]
ChunkRequest == [kind |-> "data", address |-> pointer, from |-> <<target, element, p>>,
                 size |-> chunk_size]

(* The request that the device has is the one that run() waits for.        *)
Asked ==
  /\ pc = "status" => request = CommandRequest
  /\ pc = "poll" => request = ChunkRequest
  /\ pc \in {"status", "poll"} /\ dev.ok =>
       /\ dev.state \in {"dfuDNLOAD_SYNC", "dfuDNBUSY", "dfuDNLOAD_IDLE"}
       /\ dev.state = "dfuDNBUSY" => dev.work
       /\ dev.state = "dfuDNLOAD_IDLE" => ~dev.work

(* What each command is for: where run() goes on once it is done.          *)
Goal ==
  pc \in {"command", "status"} =>
    \/ cmd.command = "ErasePage" /\ cmd.then \in {"erase", "address"}
    \/ cmd.command = "SetAddress" /\ cmd.then = "write" /\ cmd.address = address
    \/ cmd.command = "SetAddress" /\ cmd.then = "leave" /\ cmd.address = dfuse_address
    \/ cmd.command = "MassErase" /\ cmd.then = "file"
    \/ cmd.command = "ReadUnprotect" /\ cmd.then = "unprotected"

(* The invariant for the protocol.                                         *)
Protocol == Sane /\ Quiet /\ Asked /\ Goal

(* The protocol holds before run() is called.                              *)
LEMMA InitProtocol == Init => Protocol
<1> SUFFICES ASSUME Init PROVE Protocol  OBVIOUS
<1>1. dev \in HandedOver /\ request = NoRequest /\ pc = "start"  BY DEF Init
<1>2. Sane  BY <1>1, HandedOverDevices DEF Sane
<1>3. QED  BY <1>1, <1>2 DEF Protocol, Quiet, Asked, Goal

(* A step of run() with no transfer in it.                                 *)
LEMMA MoveProtocol ==
  ASSUME Protocol, pc \in ReadySites, dev' = dev, request' = request, Goal',
         pc' \in (ReadySites \ {"write", "leave"}) \cup {"failed"}
         \/ (pc' = "command" /\ cmd'.then # "leave")
  PROVE  Protocol'
BY DEF Protocol, Sane, Quiet, Asked, Ready, Idle, ReadySites

(* Where a command that was begun leads.                                   *)
LEMMA CommandBegun ==
  ASSUME Types, NEW a \in Nat, NEW c \in Commands, NEW t \in Thens, specialCommand(a, c, t)
  PROVE  /\ pc' \in {"failed", "command"}
         /\ pc' = "command" => cmd'.command = c /\ cmd'.address = a /\ cmd'.then = t
BY SpecialCommand

(* run() up to its first command.                                          *)
LEMMA BeginProtocol ==
  ASSUME Types, Protocol, Begin
  PROVE  Protocol'
<1>1. pc = "start" /\ dev' = dev /\ request' = request  BY DEF Begin
<1>2. CASE Fail
  <2>1. pc' = "failed"  BY <1>2 DEF Fail
  <2>2. QED  BY <1>1, <2>1, MoveProtocol DEF Goal, ReadySites
<1>3. CASE pc' = "file"
  BY <1>1, <1>3, MoveProtocol DEF Goal, ReadySites
<1>4. CASE specialCommand(0, "ReadUnprotect", "unprotected")
  <2>1. "ReadUnprotect" \in Commands /\ "unprotected" \in Thens  BY DEF Commands, Thens
  <2>2. /\ pc' \in {"failed", "command"}
        /\ pc' = "command" => cmd'.command = "ReadUnprotect" /\ cmd'.then = "unprotected"
    BY <1>4, <2>1, CommandBegun
  <2>3. QED  BY <1>1, <2>2, MoveProtocol DEF Goal, ReadySites
<1>5. CASE specialCommand(0, "MassErase", "file")
  <2>1. "MassErase" \in Commands /\ "file" \in Thens  BY DEF Commands, Thens
  <2>2. /\ pc' \in {"failed", "command"}
        /\ pc' = "command" => cmd'.command = "MassErase" /\ cmd'.then = "file"
    BY <1>5, <2>1, CommandBegun
  <2>3. QED  BY <1>1, <2>2, MoveProtocol DEF Goal, ReadySites
<1>6. QED  BY <1>2, <1>3, <1>4, <1>5 DEF Begin

(* A request leaves the device sane, whether it accepts it or stalls.      *)
LEMMA SaneAfter ==
  ASSUME dev \in Devices, Sane,
         \/ dev' = dev
         \/ dev.state # "dfuERROR" /\ dev' \in {TakeData(dev), TakeEnd(dev)}
         \/ dev' = Stall(dev)
  PROVE  Sane'
<1>1. CASE dev' = dev  BY <1>1 DEF Sane
<1>2. CASE dev.state # "dfuERROR" /\ dev' \in {TakeData(dev), TakeEnd(dev)}
  <2>1. dev.ok  BY <1>2 DEF Sane
  <2>2. dev'.ok /\ dev'.state # "dfuERROR"
    <3>1. CASE dev' = TakeData(dev)
      <4>1. dev'.state = "dfuDNLOAD_SYNC" /\ dev'.ok = dev.ok  BY <3>1, DeviceFields
      <4>2. QED  BY <2>1, <4>1
    <3>2. CASE dev' = TakeEnd(dev)
      <4>1. dev'.state = "dfuMANIFEST_SYNC" /\ dev'.ok = dev.ok  BY <3>2, DeviceFields
      <4>2. QED  BY <2>1, <4>1
    <3>3. QED  BY <1>2, <3>1, <3>2
  <2>3. QED  BY <2>2 DEF Sane
<1>3. CASE dev' = Stall(dev)
  <2>1. dev' = dev \/ dev' = InError  BY <1>3 DEF Stall
  <2>2. CASE dev' = InError
    <3>1. dev'.state = "dfuERROR" /\ ~dev'.ok /\ ~dev'.work  BY <2>2 DEF InError
    <3>2. QED  BY <3>1 DEF Sane
  <2>3. QED  BY <1>1, <2>1, <2>2
<1>4. QED  BY <1>1, <1>2, <1>3

(* The request of specialCommand.                                          *)
LEMMA CommandSendProtocol ==
  ASSUME Types, Protocol, CommandSend
  PROVE  Protocol'
<1>1. pc = "command" /\ UNCHANGED <<callVars, posVars, cmd>> /\ dev \in Devices
      /\ Send(CommandRequest, "status")
  BY DEF CommandSend, CommandRequest, Types, Unit
<1>2. Goal'  BY <1>1 DEF Protocol, Goal, address, Current, images, callVars, posVars, imageVars
<1>3. /\ pc' \in {"status", "failed"}
      /\ pc' # "failed" => dev' = TakeData(dev) /\ request' = CommandRequest
      /\ \/ dev' = dev
         \/ dev.state \in {"dfuIDLE", "dfuDNLOAD_IDLE"} /\ dev' = TakeData(dev)
         \/ dev' = Stall(dev)
  BY <1>1, SendStep
<1>4. CommandRequest' = CommandRequest  BY <1>1 DEF CommandRequest
<1>5. Sane'
  <2>1. Sane  BY DEF Protocol
  <2>2. QED  BY <1>1, <1>3, <2>1, SaneAfter
<1>6. pc' = "status" => dev'.state = "dfuDNLOAD_SYNC"
  <2>1. TakeData(dev).state = "dfuDNLOAD_SYNC"  BY <1>1, DeviceFields
  <2>2. QED  BY <1>3, <2>1
<1>7. Quiet'  BY <1>3 DEF Quiet, ReadySites
<1>8. Asked'  BY <1>3, <1>4, <1>6 DEF Asked
<1>9. QED  BY <1>2, <1>5, <1>7, <1>8 DEF Protocol

(* What one answer can tell of a device that is asked what it does.        *)
LEMMA AnswerMeans ==
  ASSUME dev \in Devices, Sane, pc \in {"status", "poll"}, Asked, NEW r \in getStatus(dev)
  PROVE  /\ r.dev \in Devices /\ (r.dev.ok <=> r.dev.state # "dfuERROR")
         /\ r.dev.state = "dfuERROR" => ~r.dev.work
         /\ r.dev.ok = dev.ok /\ r.dev.work = dev.work
         /\ r.dev.ok =>
              /\ r.dev.state \in {"dfuDNLOAD_SYNC", "dfuDNBUSY", "dfuDNLOAD_IDLE"}
              /\ r.dev.state = "dfuDNBUSY" => r.dev.work
              /\ r.dev.state = "dfuDNLOAD_IDLE" => ~r.dev.work
         /\ r.ret = "ok" /\ r.ok =>
              /\ dev.ok /\ r.bState = r.dev.state
              /\ r.bState # "dfuDNBUSY" => r.dev.state = "dfuDNLOAD_IDLE" /\ ~dev.work
<1>1. r.dev \in {dev, Sync(dev)} /\ r.dev \in Devices  BY GetStatusOutcome
<1>2. r.ret = "ok" /\ r.ok => r.dev = Sync(dev) /\ r.bState = Sync(dev).state /\ Sync(dev).ok
  BY GetStatusOutcome
<1>3. dev.ok \in BOOLEAN /\ dev.work \in BOOLEAN  BY DeviceFields
<1>4. Sync(dev).ok = dev.ok /\ Sync(dev).work = dev.work  BY SyncFields
<1>5. dev.state = "dfuERROR" => Sync(dev).state = "dfuERROR"  BY SyncFields
<1>6. dev.ok =>
        /\ Sync(dev).state \in {"dfuDNBUSY", "dfuDNLOAD_IDLE"}
        /\ Sync(dev).state = "dfuDNBUSY" => dev.work
        /\ Sync(dev).state = "dfuDNLOAD_IDLE" => ~dev.work
  <2>1. CASE dev.state = "dfuDNLOAD_SYNC" /\ dev.work  BY <2>1, SyncFields
  <2>2. CASE dev.state = "dfuDNLOAD_SYNC" /\ ~dev.work  BY <2>2, SyncFields
  <2>3. CASE dev.state \in {"dfuDNBUSY", "dfuDNLOAD_IDLE"}
    <3>1. Sync(dev).state = dev.state  BY <2>3, SyncFields
    <3>2. QED  BY <2>3, <3>1 DEF Asked
  <2>4. QED  BY <2>1, <2>2, <2>3 DEF Asked
<1>7. QED  BY <1>1, <1>2, <1>3, <1>4, <1>5, <1>6 DEF Sane, Asked

(* When a command is done, the device is ready for the next, unless it has *)
(* been told to remove the protection of its memory.                       *)
LEMMA CommandStatusProtocol ==
  ASSUME Types, Protocol, CommandStatus
  PROVE  /\ Protocol' /\ request' = request /\ pc = "status"
         /\ pc' \in {"failed", "status", cmd.then}
         /\ pc' \notin {"failed", "status", "unprotected"} => pc' = cmd.then /\ dev.ok /\ ~dev.work
<1>1. PICK r \in getStatus(dev) : dev' = r.dev /\ pc' = AfterStatus(r)  BY DEF CommandStatus
<1>2. pc = "status" /\ UNCHANGED <<callVars, posVars, cmd, request>>
  BY DEF CommandStatus
<1>3. dev \in Devices /\ Sane /\ Asked /\ Goal  BY DEF Types, Unit, Protocol
<1>4. /\ dev'.ok <=> dev'.state # "dfuERROR"
      /\ dev'.state = "dfuERROR" => ~dev'.work
      /\ dev'.ok = dev.ok /\ dev'.work = dev.work
      /\ dev'.ok =>
              /\ dev'.state \in {"dfuDNLOAD_SYNC", "dfuDNBUSY", "dfuDNLOAD_IDLE"}
              /\ dev'.state = "dfuDNBUSY" => dev'.work
              /\ dev'.state = "dfuDNLOAD_IDLE" => ~dev'.work
      /\ r.ret = "ok" /\ r.ok =>
              /\ dev.ok /\ r.bState = dev'.state
              /\ r.bState # "dfuDNBUSY" => dev'.state = "dfuDNLOAD_IDLE" /\ ~dev.work
  BY <1>1, <1>2, <1>3, AnswerMeans
<1>5. r.ret \in {"ok", "error"}  BY GetStatusOutcome, <1>3
<1>6. /\ pc' \in {"failed", "status", cmd.then}
      /\ pc' \notin {"failed", "status"} /\ cmd.command # "ReadUnprotect" =>
           r.ret = "ok" /\ r.ok /\ r.bState # "dfuDNBUSY"
  BY <1>1, <1>5 DEF AfterStatus
<1>7. /\ cmd.command = "ReadUnprotect" => cmd.then = "unprotected"
      /\ cmd.then \in {"erase", "address", "write", "leave", "file", "unprotected"}
      /\ cmd.command # "none"
  BY <1>2, <1>3 DEF Goal
<1>8. pc' \notin {"failed", "status", "unprotected"} =>
        pc' = cmd.then /\ dev.ok /\ ~dev.work /\ dev'.state = "dfuDNLOAD_IDLE" /\ dev'.ok /\ ~dev'.work
  <2>1. SUFFICES ASSUME pc' \notin {"failed", "status", "unprotected"}
                 PROVE  /\ pc' = cmd.then /\ dev.ok /\ ~dev.work
                        /\ dev'.state = "dfuDNLOAD_IDLE" /\ dev'.ok /\ ~dev'.work
    OBVIOUS
  <2>2. cmd.command # "ReadUnprotect" /\ pc' = cmd.then  BY <1>6, <1>7, <2>1
  <2>3. r.ret = "ok" /\ r.ok /\ r.bState # "dfuDNBUSY"  BY <1>6, <2>1, <2>2
  <2>4. dev.ok /\ dev'.state = "dfuDNLOAD_IDLE" /\ ~dev.work  BY <1>4, <2>3
  <2>5. QED  BY <1>4, <2>2, <2>4
<1>9. request = CommandRequest /\ CommandRequest' = CommandRequest /\ request # NoRequest
  <2>1. request = CommandRequest  BY <1>2, <1>3 DEF Asked
  <2>2. CommandRequest.kind = cmd.command /\ NoRequest.kind = "none"  BY DEF CommandRequest, NoRequest
  <2>3. QED  BY <1>2, <1>7, <2>1, <2>2 DEF CommandRequest
<1>10. Sane'  BY <1>4 DEF Sane
<1>11. Quiet'  BY <1>2, <1>6, <1>7, <1>8, <1>9 DEF Quiet, Ready, ReadySites
<1>12. Asked'  BY <1>2, <1>4, <1>6, <1>7, <1>9 DEF Asked
<1>13. Goal'
  BY <1>2, <1>3, <1>6, <1>7 DEF Goal, address, Current, images, callVars, posVars, imageVars
<1>14. QED  BY <1>2, <1>6, <1>8, <1>10, <1>11, <1>12, <1>13 DEF Protocol

(* The decisions of dnload_dfuseFile and dnload_element.                   *)
LEMMA DecisionProtocol ==
  ASSUME Types, Protocol, OpenFile \/ NextImage \/ EndOfImage \/ NextElement \/ NextChunk
  PROVE  Protocol' /\ dev' = dev
<1>1. CASE OpenFile
  BY <1>1, MoveProtocol DEF OpenFile, Goal, ReadySites
<1>2. CASE NextImage
  BY <1>2, MoveProtocol DEF NextImage, Goal, ReadySites
<1>3. CASE EndOfImage
  BY <1>3, MoveProtocol DEF EndOfImage, Goal, ReadySites
<1>4. CASE NextElement
  <2>1. pc' \in {"element", "chunk", "failed"}  BY <1>4, NextElementTypes
  <2>2. pc = "element" /\ dev' = dev /\ request' = request  BY <1>4 DEF NextElement
  <2>3. QED  BY <2>1, <2>2, MoveProtocol DEF Goal, ReadySites
<1>5. CASE NextChunk
  <2>1. /\ pc' \in {"element", "failed", "erase", "address"}
        /\ pc = "chunk" /\ dev' = dev /\ request' = request
    BY <1>5 DEF NextChunk
  <2>2. QED  BY <2>1, MoveProtocol DEF Goal, ReadySites
<1>6. dev' = dev  BY DEF OpenFile, NextImage, EndOfImage, NextElement, NextChunk
<1>7. QED  BY <1>1, <1>2, <1>3, <1>4, <1>5, <1>6

(* The erase and address commands are begun with the device ready.         *)
LEMMA CommandsProtocol ==
  ASSUME Types, Protocol, ErasePages \/ EraseTail \/ SetAddress
  PROVE  Protocol' /\ dev' = dev
<1>1. /\ dev' = dev /\ request' = request /\ pc \in {"erase", "address"}
      /\ UNCHANGED <<callVars, posVars>>
  BY DEF ErasePages, EraseTail, SetAddress
<1>2. address' = address  BY <1>1 DEF address, Current, images, callVars, posVars, imageVars
<1>3. {"ErasePage", "SetAddress"} \subseteq Commands /\ {"erase", "address", "write"} \subseteq Thens
  BY DEF Commands, Thens
<1>4. CASE ErasePages
  <2>1. CASE UNCHANGED pc
    BY <1>1, <1>4, <2>1, MoveProtocol DEF ErasePages, Goal, ReadySites
  <2>2. CASE specialCommand(erase_address, "ErasePage", "erase")
    <3>1. /\ pc' \in {"failed", "command"}
          /\ pc' = "command" => cmd'.command = "ErasePage" /\ cmd'.then = "erase"
      <4>1. erase_address \in Nat  BY DEF Types, Control
      <4>2. QED  BY <1>3, <2>2, <4>1, CommandBegun
    <3>2. QED  BY <1>1, <3>1, MoveProtocol DEF Goal, ReadySites
  <2>3. QED  BY <1>4, <2>1, <2>2 DEF ErasePages
<1>5. CASE EraseTail
  <2>1. CASE pc' = "address"
    BY <1>1, <1>5, <2>1, MoveProtocol DEF Goal, ReadySites
  <2>2. CASE specialCommand(address + chunk_size - 1, "ErasePage", "address")
    <3>1. /\ pc' \in {"failed", "command"}
          /\ pc' = "command" => cmd'.command = "ErasePage" /\ cmd'.then = "address"
      <4>1. Site = "erase"  BY <1>5 DEF EraseTail, Site
      <4>2. address + chunk_size - 1 \in Nat  BY <4>1, ErasingTypes
      <4>3. QED  BY <1>3, <2>2, <4>2, CommandBegun
    <3>2. QED  BY <1>1, <3>1, MoveProtocol DEF Goal, ReadySites
  <2>3. QED  BY <1>5, <2>1, <2>2 DEF EraseTail
<1>6. CASE SetAddress
  <2>1. /\ pc' \in {"failed", "command"}
        /\ pc' = "command" =>
             cmd'.command = "SetAddress" /\ cmd'.address = address /\ cmd'.then = "write"
    <3>1. address \in Nat  BY <1>6, SetAddressTypes
    <3>2. QED  BY <1>3, <1>6, <3>1, CommandBegun DEF SetAddress
  <2>2. QED  BY <1>1, <1>2, <2>1, MoveProtocol DEF Goal, ReadySites
<1>7. QED  BY <1>1, <1>4, <1>5, <1>6

(* A chunk is sent to a device that is ready.                              *)
LEMMA WriteChunkProtocol ==
  ASSUME Types, Protocol, WriteChunk
  PROVE  Protocol'
<1>1. pc = "write" /\ UNCHANGED <<callVars, posVars, memVars>> /\ dev \in Devices
      /\ Send(ChunkRequest, "poll")
  BY DEF WriteChunk, ChunkRequest, Types, Unit
<1>2. /\ pc' \in {"poll", "failed"}
      /\ pc' # "failed" => dev' = TakeData(dev) /\ request' = ChunkRequest
      /\ \/ dev' = dev
         \/ dev.state \in {"dfuIDLE", "dfuDNLOAD_IDLE"} /\ dev' = TakeData(dev)
         \/ dev' = Stall(dev)
  BY <1>1, SendStep
<1>3. ChunkRequest' = ChunkRequest
  BY <1>1 DEF ChunkRequest, callVars, posVars, imageVars, memVars, chunk_size, Current, images
<1>4. Sane'
  <2>1. Sane  BY DEF Protocol
  <2>2. QED  BY <1>1, <1>2, <2>1, SaneAfter
<1>5. pc' = "poll" => dev'.state = "dfuDNLOAD_SYNC"
  <2>1. TakeData(dev).state = "dfuDNLOAD_SYNC"  BY <1>1, DeviceFields
  <2>2. QED  BY <1>2, <2>1
<1>6. Quiet'  BY <1>2 DEF Quiet, ReadySites
<1>7. Asked'  BY <1>2, <1>3, <1>5 DEF Asked
<1>8. Goal'  BY <1>2 DEF Goal
<1>9. QED  BY <1>4, <1>6, <1>7, <1>8 DEF Protocol

(* When the transfer of a chunk is over, the device is ready for the next. *)
LEMMA PollChunkProtocol ==
  ASSUME Types, Protocol, PollChunk
  PROVE  /\ Protocol' /\ pc' \in {"failed", "poll", "chunk"} /\ request' = request
         /\ pc = "poll"
         /\ pc' = "chunk" => dev.ok /\ ~dev.work
<1>1. PICK r \in getStatus(dev) : dev' = r.dev /\ pc' = AfterWrite(r)  BY DEF PollChunk
<1>2. pc = "poll" /\ request' = request /\ UNCHANGED <<callVars, imageVars, element>>
      /\ (pc' # "chunk" => p' = p)
  BY DEF PollChunk
<1>3. dev \in Devices /\ Sane /\ Asked  BY DEF Types, Unit, Protocol
<1>4. /\ dev'.ok <=> dev'.state # "dfuERROR"
      /\ dev'.state = "dfuERROR" => ~dev'.work
      /\ dev'.ok = dev.ok /\ dev'.work = dev.work
      /\ dev'.ok =>
              /\ dev'.state \in {"dfuDNLOAD_SYNC", "dfuDNBUSY", "dfuDNLOAD_IDLE"}
              /\ dev'.state = "dfuDNBUSY" => dev'.work
              /\ dev'.state = "dfuDNLOAD_IDLE" => ~dev'.work
      /\ r.ret = "ok" /\ r.ok =>
              /\ dev.ok /\ r.bState = dev'.state
              /\ r.bState # "dfuDNBUSY" => dev'.state = "dfuDNLOAD_IDLE" /\ ~dev.work
  BY <1>1, <1>2, <1>3, AnswerMeans
<1>5. /\ pc' \in {"failed", "poll", "chunk"}
      /\ pc' = "chunk" => r.ret = "ok" /\ r.ok /\ r.bState # "dfuDNBUSY"
  BY <1>1 DEF AfterWrite, Waiting
<1>6. request = ChunkRequest /\ request # NoRequest
  <2>1. request = ChunkRequest  BY <1>2, <1>3 DEF Asked
  <2>2. ChunkRequest.kind = "data" /\ NoRequest.kind = "none"  BY DEF ChunkRequest, NoRequest
  <2>3. QED  BY <2>1, <2>2
<1>7. pc' = "chunk" =>
        dev.ok /\ ~dev.work /\ dev'.state = "dfuDNLOAD_IDLE" /\ dev'.ok /\ ~dev'.work
  <2>1. SUFFICES ASSUME pc' = "chunk"
                 PROVE  /\ dev.ok /\ ~dev.work
                        /\ dev'.state = "dfuDNLOAD_IDLE" /\ dev'.ok /\ ~dev'.work
    OBVIOUS
  <2>2. r.ret = "ok" /\ r.ok /\ r.bState # "dfuDNBUSY"  BY <1>5, <2>1
  <2>3. dev.ok /\ dev'.state = "dfuDNLOAD_IDLE" /\ ~dev.work  BY <1>4, <2>2
  <2>4. QED  BY <1>4, <2>3
<1>8. pc' = "poll" => ChunkRequest' = ChunkRequest
  BY <1>2 DEF PollChunk, ChunkRequest, memVars, callVars, imageVars, chunk_size, Current, images
<1>9. Sane'  BY <1>4 DEF Sane
<1>10. Quiet'  BY <1>2, <1>5, <1>6, <1>7 DEF Quiet, Ready, ReadySites
<1>11. Asked'  BY <1>2, <1>4, <1>5, <1>6, <1>8 DEF Asked
<1>12. Goal'  BY <1>5 DEF Goal
<1>13. QED  BY <1>2, <1>5, <1>7, <1>9, <1>10, <1>11, <1>12 DEF Protocol

(* The device accepts the request to abort.                                *)
LEMMA SendAbortProtocol ==
  ASSUME Types, Protocol, SendAbort
  PROVE  Protocol' /\ (request # NoRequest => dev'.ok)
<1>1. PICK o \in abort(dev) : /\ dev' = o.dev
                              /\ pc' = IF o.ret = "error" THEN "failed" ELSE "aborted"
  BY DEF SendAbort
<1>2. pc = "abort" /\ request' = request /\ dev \in Devices  BY DEF SendAbort, Types, Unit
<1>3. \/ o.ret = "error" /\ dev' = dev
      \/ dev' = ToIdle(dev)
      \/ o.ret = "error" /\ ~AcceptsAbort(dev) /\ dev' = Stall(dev)
  BY <1>1 DEF abort, dfuXferOut
<1>4. request # NoRequest => Ready  BY <1>2 DEF Protocol, Quiet, ReadySites
<1>5. Ready => AcceptsAbort(dev)  BY DEF Ready, AcceptsAbort
<1>6. ToIdle(dev).state = "dfuIDLE" /\ ToIdle(dev).ok /\ ~ToIdle(dev).work  BY DEF ToIdle
<1>7. Sane'
  <2>1. CASE dev' = ToIdle(dev)  BY <1>6, <2>1 DEF Sane
  <2>2. CASE dev' = dev \/ dev' = Stall(dev)  BY <1>2, <2>2, SaneAfter DEF Protocol
  <2>3. QED  BY <1>3, <2>1, <2>2
<1>8. pc' \in {"failed", "aborted"} /\ (pc' = "aborted" => dev' = ToIdle(dev))
  BY <1>1, <1>3
<1>9. Quiet'
  <2>1. pc' = "aborted" => Idle'  BY <1>6, <1>8 DEF Idle
  <2>2. QED  BY <1>8, <2>1 DEF Quiet, ReadySites
<1>10. Asked' /\ Goal'  BY <1>8 DEF Asked, Goal
<1>11. request # NoRequest => dev'.ok
  <2>1. SUFFICES ASSUME request # NoRequest  PROVE dev'.ok  OBVIOUS
  <2>2. dev' = dev \/ dev' = ToIdle(dev)  BY <1>3, <1>4, <1>5, <2>1
  <2>3. dev.ok  BY <1>4, <2>1 DEF Ready
  <2>4. QED  BY <1>6, <2>2, <2>3
<1>12. QED  BY <1>7, <1>9, <1>10, <1>11 DEF Protocol

(* A status answer never changes whether the device is in dfuERROR.        *)
LEMMA StatusSane ==
  ASSUME dev \in Devices, Sane, NEW r \in getStatus(dev), dev' = r.dev
  PROVE  Sane' /\ dev'.ok = dev.ok /\ dev'.work = dev.work
<1>1. dev' \in {dev, Sync(dev)}  BY GetStatusOutcome
<1>2. Sync(dev).ok = dev.ok /\ Sync(dev).work = dev.work  BY SyncFields
<1>3. dev.state = "dfuERROR" => Sync(dev).state = "dfuERROR"  BY SyncFields
<1>4. dev.state # "dfuERROR" => Sync(dev).state # "dfuERROR"  BY DEF Sync, Devices
<1>5. CASE dev' = dev  BY <1>5 DEF Sane
<1>6. CASE dev' = Sync(dev)
  <2>1. dev'.ok = dev.ok /\ dev'.work = dev.work /\ (dev'.state = "dfuERROR" <=> dev.state = "dfuERROR")
    BY <1>2, <1>3, <1>4, <1>6
  <2>2. QED  BY <2>1 DEF Sane
<1>7. QED  BY <1>1, <1>5, <1>6

(* It is idle afterwards.                                                  *)
LEMMA CheckAbortedProtocol ==
  ASSUME Types, Protocol, CheckAborted
  PROVE  Protocol' /\ pc' \in {"failed", "done", "command"} /\ request' = request
<1>1. PICK r \in getStatus(dev) :
        /\ dev' = r.dev
        /\ IF r.ret = "error" \/ r.bState # "dfuIDLE" THEN Fail
           ELSE IF job.leave THEN specialCommand(dfuse_address, "SetAddress", "leave")
           ELSE pc' = "done" /\ UNCHANGED <<cmd, last_erased_page>>
  BY DEF CheckAborted
<1>2. /\ pc = "aborted" /\ request' = request /\ dev \in Devices /\ Sane
      /\ UNCHANGED posVars
  BY DEF CheckAborted, Types, Unit, Protocol
<1>3. Sane'  BY <1>1, <1>2, StatusSane
<1>4. r.ret \in {"ok", "error"}  BY <1>2, GetStatusOutcome
<1>5. /\ pc' \in {"failed", "done", "command"}
      /\ pc' # "failed" => r.ret = "ok" /\ r.bState = "dfuIDLE"
      /\ pc' = "command" => /\ cmd'.command = "SetAddress" /\ cmd'.then = "leave"
                            /\ cmd'.address = dfuse_address
  <2>1. "SetAddress" \in Commands /\ "leave" \in Thens /\ dfuse_address \in Nat
    BY DEF Commands, Thens, Types, Place
  <2>2. CASE r.ret = "error" \/ r.bState # "dfuIDLE"  BY <1>1, <2>2 DEF Fail
  <2>3. CASE ~(r.ret = "error" \/ r.bState # "dfuIDLE") /\ job.leave
    BY <1>1, <1>4, <2>1, <2>3, CommandBegun
  <2>4. CASE ~(r.ret = "error" \/ r.bState # "dfuIDLE") /\ ~job.leave  BY <1>1, <1>4, <2>4
  <2>5. QED  BY <2>2, <2>3, <2>4
<1>6. pc' # "failed" => dev' = Sync(dev) /\ dev'.state = "dfuIDLE"
  BY <1>1, <1>2, <1>5, GetStatusOutcome
<1>7. request # NoRequest /\ pc' # "failed" => Idle'
  <2>1. SUFFICES ASSUME request # NoRequest, pc' # "failed"  PROVE Idle'  OBVIOUS
  <2>2. dev.ok /\ ~dev.work  BY <1>2, <2>1 DEF Protocol, Quiet, Idle
  <2>3. dev'.ok = dev.ok /\ dev'.work = dev.work  BY <1>1, <1>2, StatusSane
  <2>4. QED  BY <1>6, <2>1, <2>2, <2>3 DEF Idle
<1>8. Quiet'  BY <1>2, <1>5, <1>7 DEF Quiet, Idle, ReadySites
<1>9. Asked'  BY <1>5 DEF Asked
<1>10. Goal'  BY <1>2, <1>5 DEF Goal, posVars, imageVars
<1>11. QED  BY <1>2, <1>3, <1>5, <1>8, <1>9, <1>10 DEF Protocol

(* It accepts the empty transfer.                                          *)
LEMMA SendLeaveProtocol ==
  ASSUME Types, Protocol, SendLeave
  PROVE  Protocol' /\ pc = "leave" /\ pc' \in {"failed", "leaving"} /\ request' = request /\ dev'.ok
<1>1. PICK o \in downloadEnd(dev) : /\ dev' = o.dev
                                    /\ pc' = IF o.ret = "error" THEN "failed" ELSE "leaving"
  BY DEF SendLeave
<1>2. pc = "leave" /\ request' = request /\ dev \in Devices /\ Sane
  BY DEF SendLeave, Types, Unit, Protocol
<1>3. Ready /\ request # NoRequest  BY <1>2 DEF Protocol, Quiet, ReadySites
<1>4. \/ o.ret = "error" /\ dev' = dev
      \/ dev' = TakeEnd(dev)
  BY <1>1, <1>2, <1>3, DownloadEndOutcome DEF Ready
<1>5. dev.state # "dfuERROR"  BY <1>3 DEF Ready
<1>6. Sane'  BY <1>2, <1>4, <1>5, SaneAfter
<1>7. TakeEnd(dev).state = "dfuMANIFEST_SYNC" /\ TakeEnd(dev).ok = dev.ok  BY <1>2, DeviceFields
<1>8. pc' \in {"failed", "leaving"} /\ (pc' = "leaving" => dev'.state = "dfuMANIFEST_SYNC")
  BY <1>1, <1>4, <1>7
<1>9. dev'.ok  BY <1>3, <1>4, <1>7 DEF Ready
<1>10. Quiet' /\ Asked' /\ Goal'  BY <1>2, <1>3, <1>8 DEF Quiet, Asked, Goal, ReadySites
<1>11. QED  BY <1>2, <1>6, <1>8, <1>9, <1>10 DEF Protocol

(* Nothing is asked of a device that has left.                             *)
LEMMA PollLeaveProtocol ==
  ASSUME Types, Protocol, PollLeave
  PROVE  Protocol' /\ pc = "leaving" /\ pc' \in {"leaving", "done", "failed"} /\ request' = request
<1>1. PICK r \in getStatus(dev) : dev' = r.dev /\ pc' = AfterLeave(r)  BY DEF PollLeave
<1>2. pc = "leaving" /\ request' = request /\ dev \in Devices /\ Sane
  BY DEF PollLeave, Types, Unit, Protocol
<1>3. pc' \in {"leaving", "done", "failed"}  BY <1>1 DEF AfterLeave
<1>4. Sane'  BY <1>1, <1>2, StatusSane
<1>5. request # NoRequest /\ dev.state \notin {"dfuDNLOAD_SYNC", "dfuDNBUSY"}
  BY <1>2 DEF Protocol, Quiet
<1>6. dev' \in {dev, Sync(dev)}  BY <1>1, <1>2, GetStatusOutcome
<1>7. dev'.state \notin {"dfuDNLOAD_SYNC", "dfuDNBUSY"}
  <2>1. Sync(dev).state \notin {"dfuDNLOAD_SYNC", "dfuDNBUSY"}  BY <1>2, <1>5 DEF Sync, Devices
  <2>2. QED  BY <1>5, <1>6, <2>1
<1>8. Quiet' /\ Asked' /\ Goal'  BY <1>2, <1>3, <1>5, <1>7 DEF Quiet, Asked, Goal, ReadySites
<1>9. QED  BY <1>2, <1>3, <1>4, <1>8 DEF Protocol

(* What the device does on its own is what it was asked to do.             *)
LEMMA DeviceProtocol ==
  ASSUME Types, Protocol, Device
  PROVE  Protocol' /\ pc' = pc
<1>1. UNCHANGED <<callVars, posVars, pc, cmd, request>> /\ dev \in Devices
  BY DEF Device, DeviceExecute, DeviceManifest, DeviceFail, Types, Unit
<1>2. \/ dev.work /\ dev.state = "dfuDNBUSY" /\ dev' = Programmed(dev)
      \/ dev.work /\ dev.state = "dfuMANIFEST" /\ \E t \in BOOLEAN : dev' = Manifested(dev, t)
      \/ dev.work /\ dev.state \in {"dfuDNBUSY", "dfuMANIFEST"} /\ dev' = InError
  BY DEF Device, DeviceExecute, DeviceManifest, DeviceFail, Executing, Manifesting
<1>3. dev.work /\ dev.state \in {"dfuDNBUSY", "dfuMANIFEST"}  BY <1>2
<1>4. Sane /\ Quiet /\ Asked /\ Goal  BY DEF Protocol
<1>5. \/ dev.state = "dfuDNBUSY" /\ dev'.state = "dfuDNLOAD_SYNC" /\ ~dev'.work /\ dev'.ok = dev.ok
      \/ /\ dev.state = "dfuMANIFEST" /\ dev'.state \in {"dfuMANIFEST_SYNC", "dfuMANIFEST_WAIT_RST"}
         /\ ~dev'.work /\ dev'.ok = dev.ok
      \/ dev'.state = "dfuERROR" /\ ~dev'.work /\ ~dev'.ok
  <2>1. CASE dev.state = "dfuDNBUSY" /\ dev' = Programmed(dev)  BY <1>1, <2>1, DeviceFields
  <2>2. CASE dev.state = "dfuMANIFEST" /\ \E t \in BOOLEAN : dev' = Manifested(dev, t)
    <3>1. PICK t \in BOOLEAN : dev' = Manifested(dev, t)  BY <2>2
    <3>2. /\ Manifested(dev, t).state \in {"dfuMANIFEST_SYNC", "dfuMANIFEST_WAIT_RST"}
          /\ Manifested(dev, t).work = FALSE /\ Manifested(dev, t).ok = dev.ok
      BY <1>1 DEF Manifested, Devices
    <3>3. QED  BY <2>2, <3>1, <3>2
  <2>3. CASE dev' = InError  BY <2>3 DEF InError
  <2>4. QED  BY <1>2, <2>1, <2>2, <2>3
<1>6. dev.ok  BY <1>3, <1>4 DEF Sane
<1>7. Sane'  BY <1>5, <1>6 DEF Sane
<1>8. ~Ready /\ ~Idle  BY <1>3 DEF Ready, Idle
<1>9. Quiet'  BY <1>1, <1>3, <1>4, <1>5, <1>8 DEF Quiet, ReadySites
<1>10. Asked'
  <2>1. CommandRequest' = CommandRequest  BY <1>1 DEF CommandRequest
  <2>2. pc = "poll" => ChunkRequest' = ChunkRequest
    <3>1. SUFFICES ASSUME pc = "poll"  PROVE ChunkRequest' = ChunkRequest  OBVIOUS
    <3>2. request = ChunkRequest  BY <1>4, <3>1 DEF Asked
    <3>3. request.kind = "data"  BY <3>2 DEF ChunkRequest
    <3>4. pointer' = pointer
      BY <3>3 DEF Device, DeviceExecute, DeviceManifest, DeviceFail, memVars, Program
    <3>5. QED  BY <1>1, <3>4 DEF ChunkRequest, callVars, posVars, imageVars, chunk_size, Current, images
  <2>3. pc \in {"status", "poll"} /\ dev'.ok => dev'.state = "dfuDNLOAD_SYNC"
    BY <1>3, <1>4, <1>5, <1>6 DEF Asked
  <2>4. QED  BY <1>1, <1>4, <2>1, <2>2, <2>3 DEF Asked
<1>11. Goal'
  BY <1>1, <1>4 DEF Goal, address, Current, images, callVars, posVars, imageVars
<1>12. QED  BY <1>1, <1>7, <1>9, <1>10, <1>11 DEF Protocol

(* The protocol is kept by every step.                                     *)
LEMMA StepProtocol == Types /\ Protocol /\ [Next]_vars => Protocol'
<1> SUFFICES ASSUME Types, Protocol, [Next]_vars PROVE Protocol'  OBVIOUS
<1>1. CASE Host
  BY <1>1, BeginProtocol, CommandSendProtocol, CommandStatusProtocol, DecisionProtocol,
     CommandsProtocol, WriteChunkProtocol, PollChunkProtocol, SendAbortProtocol,
     CheckAbortedProtocol, SendLeaveProtocol, PollLeaveProtocol DEF Host
<1>2. CASE Device  BY <1>2, DeviceProtocol
<1>3. CASE UNCHANGED vars
  BY <1>3 DEF Protocol, Sane, Quiet, Asked, Goal, Ready, Idle, CommandRequest, ChunkRequest,
     vars, images, Current, address, chunk_size
<1>4. QED  BY <1>1, <1>2, <1>3 DEF Next

(* Types and protocol hold in every state, for every job.                  *)
LEMMA ProtocolHolds == Spec => [](Types /\ Protocol)
<1>1. Init => Types /\ Protocol  BY InitTypes, InitProtocol
<1>2. Types /\ Protocol /\ [Next]_vars => (Types /\ Protocol)'  BY StepTypes, StepProtocol
<1>3. QED  BY <1>1, <1>2, PTL DEF Spec

(* After the first request it took, the device accepts every request of    *)
(* run(): where it ends up in dfuERROR, its own work has failed.           *)
THEOREM RequestsAccepted == Spec => NeverRefused
<1> DEFINE Refused ==
      pc \notin {"start", "failed"} /\ request # NoRequest /\ dev.ok /\ ~dev'.ok
<1>1. Types /\ Protocol /\ [Next]_vars => [Refused => pc' = pc]_vars
  <2> SUFFICES ASSUME Types, Protocol, Next, Refused PROVE pc' = pc  OBVIOUS
  <2>1. dev \in Devices /\ dev.ok /\ ~dev'.ok /\ request # NoRequest  BY DEF Types, Unit
  <2>2. ~(dev' = dev)  BY <2>1
  <2>3. CASE Device  BY <2>3, DeviceProtocol
  <2>4. CASE CommandSend \/ WriteChunk
    <3>1. PICK req, next : Send(req, next)  BY <2>4 DEF CommandSend, WriteChunk
    <3>2. Ready \/ Idle
      BY <2>1, <2>4 DEF CommandSend, WriteChunk, Protocol, Quiet, ReadySites
    <3>3. dev.state \in {"dfuIDLE", "dfuDNLOAD_IDLE"}  BY <3>2 DEF Ready, Idle
    <3>4. dev' = TakeData(dev)  BY <2>2, <3>1, <3>3, SendStep
    <3>5. dev'.ok = dev.ok  BY <2>1, <3>4, DeviceFields
    <3>6. QED  BY <2>1, <3>5
  <2>5. CASE CommandStatus \/ PollChunk \/ CheckAborted \/ PollLeave
    <3>1. PICK r \in getStatus(dev) : dev' = r.dev
      BY <2>5 DEF CommandStatus, PollChunk, CheckAborted, PollLeave
    <3>2. dev'.ok = dev.ok  BY <2>1, <3>1, StatusSane DEF Protocol
    <3>3. QED  BY <2>1, <3>2
  <2>6. CASE SendAbort  BY <2>1, <2>6, SendAbortProtocol
  <2>7. CASE SendLeave  BY <2>1, <2>7, SendLeaveProtocol
  <2>8. CASE Begin  BY <2>2, <2>8 DEF Begin
  <2>9. CASE OpenFile \/ NextImage \/ EndOfImage \/ NextElement \/ NextChunk
    BY <2>2, <2>9, DecisionProtocol
  <2>10. CASE ErasePages \/ EraseTail \/ SetAddress  BY <2>2, <2>10, CommandsProtocol
  <2>11. QED
    BY <2>3, <2>4, <2>5, <2>6, <2>7, <2>8, <2>9, <2>10 DEF Next, Host
<1>2. QED  BY <1>1, ProtocolHolds, PTL DEF Spec, NeverRefused

-------------------------------------------------------------------------------
(***************************************************************************)
(* What follows holds for regular jobs: the host knows the memory, which   *)
(* has a regular map, the counter of images can count past those that the  *)
(* prefix counts or there are no more, and elements come in the order of   *)
(* their addresses and do not overlap.                                     *)
(***************************************************************************)
Earlier(c, d) == c[1] < d[1] \/ (c[1] = d[1] /\ c[2] < d[2])

(* The element that a claim is made for.                                   *)
ElementOf(c) == images[c[1]].elements[c[2]]

(* The regular jobs.                                                       *)
Regular ==
  /\ RegularMap(job.memory)
  /\ Parsed[job.alt_name].segments = job.memory
  /\ Len(images) <= job.file.targetsCount \/ job.file.targetsCount < ImageNumbers - 1
  /\ \A c, d \in Claims :
       Earlier(c, d) => ElementOf(c).address + ElementOf(c).size <= ElementOf(d).address

(* The images that have been read are counted, and at the end they are     *)
(* those the prefix counts; only elements for the alternate setting are    *)
(* taken up.                                                               *)
EndedSites == {"abort", "aborted", "leave", "leaving", "done"}

(* The images that have been read are counted, and at the end they are     *)
(* those the prefix counts; only elements for the alternate setting are    *)
(* taken up.                                                               *)
Counting ==
  /\ Site \in {"start", "file", "unprotected"} =>
       target = 0 /\ element = 0 /\ last_erased_page = 1
  /\ Site = "image" => image = (target + 1) % ImageNumbers
  /\ Site \in {"element"} \cup ElementSites => image = target % ImageNumbers
  /\ Site \in {"image"} \cup EndedSites =>
       target = 0 \/ element = Len(images[target].elements)
  /\ Site # "failed" => target <= job.file.targetsCount
  /\ Site \in EndedSites => target = job.file.targetsCount
  /\ Site \notin {"start", "failed"} \cup EndedSites => layout = job.memory
  /\ Site \in ElementSites => images[target].alternateSetting = job.altsetting

(* A job stays regular, as run() does not change it.                       *)
LEMMA RegularKept ==
  ASSUME Regular, job' = job
  PROVE  Regular'
<1>1. images' = images  BY DEF images
<1>2. Claims' = Claims  BY <1>1 DEF Claims
<1>3. \A c, d : /\ ElementOf(c).address' = ElementOf(c).address
               /\ ElementOf(c).size' = ElementOf(c).size
               /\ ElementOf(d).address' = ElementOf(d).address
  BY <1>1 DEF ElementOf
<1>4. \A c, d \in Claims' :
        Earlier(c, d) =>
          ElementOf(c).address' + ElementOf(c).size' <= ElementOf(d).address'
  BY <1>2, <1>3 DEF Regular
<1>5. QED  BY <1>1, <1>4 DEF Regular

(* Counting starts at zero.                                                *)
LEMMA InitCounting ==
  ASSUME Init
  PROVE  Counting
<1>1. pc = "start" /\ target = 0 /\ element = 0 /\ last_erased_page = 1 /\ job \in Jobs  BY DEF Init
<1>2. job.file.targetsCount \in 0 .. ImageNumbers - 1  BY <1>1, JobTypes
<1>3. 0 <= job.file.targetsCount  BY <1>2, ImageNumbersAssumption
<1>4. QED  BY <1>1, <1>3 DEF Counting, Site, ElementSites, EndedSites

(* A step between places that are alike.                                   *)
LEMMA CountingKept ==
  ASSUME Counting, UNCHANGED <<job, layout, image, target, element>>,
         \/ Site' = "failed"
         \/ Site' = Site /\ (Site \in {"file", "unprotected"} => last_erased_page' = last_erased_page)
         \/ Site \in ElementSites /\ Site' \in ElementSites
         \/ Site \in EndedSites /\ Site' \in EndedSites,
         Site # "start"
  PROVE  Counting'
<1>1. images' = images  BY DEF images
<1>2. CASE Site' = "failed"  BY <1>2 DEF Counting, ElementSites, EndedSites
<1>3. CASE Site' = Site /\ (Site \in {"file", "unprotected"} => last_erased_page' = last_erased_page)
  BY <1>1, <1>3 DEF Counting
<1>4. CASE Site \in ElementSites /\ Site' \in ElementSites
  BY <1>1, <1>4 DEF Counting, ElementSites, EndedSites
<1>5. CASE Site \in EndedSites /\ Site' \in EndedSites
  BY <1>1, <1>5 DEF Counting, ElementSites, EndedSites
<1>6. QED  BY <1>2, <1>3, <1>4, <1>5

(* The first command, or none, leads on to the file.                       *)
LEMMA BeginCounting ==
  ASSUME Types, Regular, Counting, Begin
  PROVE  Counting' /\ Site' \in {"failed", "file", "unprotected"}
<1>1. /\ UNCHANGED <<job, image, target, element>> /\ pc = "start"
      /\ target = 0 /\ element = 0 /\ target <= job.file.targetsCount /\ last_erased_page = 1
  BY DEF Begin, posVars, imageVars, Counting, Site
<1>2. CASE Fail
  BY <1>1, <1>2 DEF Fail, Site, Counting, ElementSites, EndedSites
<1>3. CASE ~Fail
  <2>1. layout' = job.memory  BY <1>1, <1>3 DEF Begin, Regular
  <2>2. /\ Site' \in {"failed", "file", "unprotected"} /\ last_erased_page' = last_erased_page
    <3>1. CASE specialCommand(0, "ReadUnprotect", "unprotected")
      <4>1. "ReadUnprotect" \in Commands /\ "unprotected" \in Thens  BY DEF Commands, Thens
      <4>2. QED  BY <3>1, <4>1, SpecialCommand DEF Site
    <3>2. CASE specialCommand(0, "MassErase", "file")
      <4>1. "MassErase" \in Commands /\ "file" \in Thens  BY DEF Commands, Thens
      <4>2. QED  BY <3>2, <4>1, SpecialCommand DEF Site
    <3>3. CASE pc' = "file" /\ UNCHANGED <<cmd, last_erased_page>>  BY <3>3 DEF Site
    <3>4. QED  BY <1>3, <3>1, <3>2, <3>3 DEF Begin
  <2>3. QED  BY <1>1, <2>1, <2>2 DEF Counting, ElementSites, EndedSites
<1>4. QED  BY <1>2, <1>3 DEF Fail, Site

(* The count of the prefix is that of the file.                            *)
LEMMA OpenFileCounting ==
  ASSUME Types, Regular, Counting, OpenFile
  PROVE  Counting'
<1>1. /\ pc = "file" /\ pc' \in {"image", "failed"} /\ UNCHANGED <<callVars, target, element>>
      /\ image' = 1
  BY DEF OpenFile
<1>2. target = 0 /\ element = 0 /\ target <= job.file.targetsCount /\ layout = job.memory
  BY <1>1 DEF Counting, Site, EndedSites
<1>3. 1 = (0 + 1) % ImageNumbers  BY ImageNumbersAssumption
<1>4. Site' \in {"image", "failed"}  BY <1>1 DEF Site
<1>5. QED  BY <1>1, <1>2, <1>3, <1>4 DEF Counting, ElementSites, EndedSites, callVars

(* A counter below its limit is its own remainder.                         *)
LEMMA SmallRemainder ==
  ASSUME NEW n \in Nat \ {0}, NEW a \in Nat, a < n
  PROVE  a % n = a
OBVIOUS

(* The next image is begun only up to the count, as the counter does not   *)
(* come round, and none is left when the loop ends.                        *)
LEMMA NextImageCounting ==
  ASSUME Types, Regular, Counting, NextImage
  PROVE  Counting'
<1> DEFINE count == job.file.targetsCount
<1>1. /\ pc = "image" /\ UNCHANGED <<job, image>>
      /\ \/ image > count /\ pc' = "abort" /\ UNCHANGED <<target, element>>
         \/ /\ image <= count /\ pc' = "element" /\ target' = target + 1 /\ element' = 0
            /\ target < Len(images) /\ layout' = layout
         \/ pc' = "failed"
  <2>1. image \in Nat /\ count \in Nat
    <3>1. image \in 0 .. ImageNumbers - 1 /\ count \in 0 .. ImageNumbers - 1
      BY JobTypes DEF Types, Place, Call
    <3>2. QED  BY <3>1
  <2> HIDE DEF count
  <2>2. QED  BY <2>1 DEF NextImage, count
<1>2. /\ image = (target + 1) % ImageNumbers /\ target <= count /\ layout = job.memory
      /\ target = 0 \/ element = Len(images[target].elements)
  BY <1>1 DEF Counting, Site, EndedSites
<1>3. Site' = pc' /\ images' = images  BY <1>1 DEF Site, images
<1>4. count \in Nat /\ count <= ImageNumbers - 1 /\ target \in Nat /\ Len(images) \in Nat
  <2>1. count \in 0 .. ImageNumbers - 1 /\ images \in Seq(Images)  BY JobTypes DEF Types, Call
  <2>2. Len(images) \in Nat  BY <2>1
  <2>3. QED  BY <2>1, <2>2, ImageNumbersAssumption DEF Types, Place
<1>5. Len(images) <= count \/ count < ImageNumbers - 1  BY DEF Regular
<1> HIDE DEF count
<1>6. CASE pc' = "abort"
  <2>1. target = count
    <3>1. image > count  BY <1>1, <1>6
    <3>2. CASE target + 1 < ImageNumbers
      <4>0. target + 1 \in Nat /\ ImageNumbers \in Nat \ {0}  BY <1>4, ImageNumbersAssumption
      <4>1. image = target + 1  BY <1>2, <3>2, <4>0, SmallRemainder
      <4>2. QED  BY <1>2, <1>4, <3>1, <4>1
    <3>3. CASE target + 1 >= ImageNumbers
      <4>1. target + 1 = ImageNumbers  BY <1>2, <1>4, <3>3, ImageNumbersAssumption
      <4>2. image = 0  BY <1>2, <4>1, ImageNumbersAssumption
      <4>3. QED  BY <1>4, <3>1, <4>2
    <3>4. QED  BY <1>4, <3>2, <3>3, ImageNumbersAssumption
  <2>2. UNCHANGED <<job, target, element>>  BY <1>1, <1>6
  <2>3. target <= count  BY <1>2
  <2>4. QED  BY <1>2, <1>3, <1>6, <2>1, <2>2, <2>3 DEF Counting, ElementSites, EndedSites, count
<1>7. CASE pc' = "element"
  <2>1. /\ image <= count /\ target' = target + 1 /\ target < Len(images) /\ layout' = layout
        /\ UNCHANGED <<job, image>>
    BY <1>1, <1>7
  <2>2. target + 1 <= count
    <3>1. CASE Len(images) <= count  BY <1>4, <2>1, <3>1
    <3>2. CASE count < ImageNumbers - 1
      <4>1. target + 1 < ImageNumbers  BY <1>2, <1>4, <3>2, ImageNumbersAssumption
      <4>0. target + 1 \in Nat /\ ImageNumbers \in Nat \ {0}  BY <1>4, ImageNumbersAssumption
      <4>2. image = target + 1  BY <1>2, <4>0, <4>1, SmallRemainder
      <4>3. QED  BY <2>1, <4>2
    <3>3. QED  BY <1>5, <3>1, <3>2
  <2>3. image' = target' % ImageNumbers /\ target' <= count  BY <1>2, <2>1, <2>2
  <2>4. QED  BY <1>2, <1>3, <1>7, <2>1, <2>3 DEF Counting, ElementSites, EndedSites, count
<1>8. CASE pc' = "failed"
  BY <1>3, <1>8 DEF Counting, ElementSites, EndedSites
<1>9. QED  BY <1>1, <1>6, <1>7, <1>8

(* The counter of the images is counted up.                                *)
LEMMA EndOfImageCounting ==
  ASSUME Types, Regular, Counting, EndOfImage
  PROVE  Counting'
<1>1. /\ pc = "element" /\ pc' = "image" /\ UNCHANGED <<callVars, target, element>>
      /\ element = Len(images[target].elements) /\ image' = (image + 1) % ImageNumbers
  BY DEF EndOfImage
<1>2. image = target % ImageNumbers /\ target <= job.file.targetsCount /\ layout = job.memory
  BY <1>1 DEF Counting, Site, EndedSites
<1>3. image' = (target + 1) % ImageNumbers
  <2>1. target \in Nat /\ target <= ImageNumbers - 1
    <3>1. job.file.targetsCount \in 0 .. ImageNumbers - 1 /\ target \in Nat
      BY JobTypes DEF Types, Call, Place
    <3>2. QED  BY <1>2, <3>1, ImageNumbersAssumption
  <2>2. target % ImageNumbers = target  BY <2>1, ImageNumbersAssumption
  <2>3. QED  BY <1>1, <1>2, <2>2
<1>4. Site' = "image" /\ images' = images  BY <1>1 DEF Site, images, callVars
<1>5. QED  BY <1>1, <1>2, <1>3, <1>4 DEF Counting, ElementSites, EndedSites, callVars

(* An element that is taken up belongs to an image for the alternate       *)
(* setting.                                                                *)
LEMMA NextElementCounting ==
  ASSUME Types, Regular, Counting, NextElement
  PROVE  Counting'
<1>1. /\ pc = "element" /\ UNCHANGED <<callVars, target, image>>
      /\ pc' = ReadElement(images[target].elements[element'])
  BY DEF NextElement
<1>2. /\ image = target % ImageNumbers /\ target <= job.file.targetsCount /\ layout = job.memory
  BY <1>1 DEF Counting, Site, EndedSites
<1>3. pc' \in {"element", "chunk", "failed"} /\ Site' = pc' /\ images' = images
  BY <1>1, NextElementTypes DEF images, callVars
<1>4. pc' = "chunk" => images[target].alternateSetting = job.altsetting  BY <1>1 DEF ReadElement
<1>5. QED  BY <1>1, <1>2, <1>3, <1>4 DEF Counting, ElementSites, EndedSites, callVars

(* An element that is written ends, or goes on.                            *)
LEMMA NextChunkCounting ==
  ASSUME Types, Regular, Counting, NextChunk
  PROVE  Counting'
<1>1. /\ pc = "chunk" /\ UNCHANGED <<job, layout, target, element, image>>
      /\ pc' \in {"element", "failed", "erase", "address"}
  BY DEF NextChunk, callVars, imageVars
<1>2. Site = "chunk" /\ Site' = pc'  BY <1>1, NextChunkTypes DEF Site
<1>3. CASE pc' = "element"
  BY <1>1, <1>2, <1>3 DEF Counting, ElementSites, EndedSites
<1>4. CASE pc' # "element"
  BY <1>1, <1>2, <1>4, CountingKept DEF ElementSites
<1>5. QED  BY <1>3, <1>4

(* Counting is kept by every step.                                         *)
LEMMA StepCounting ==
  ASSUME Types, Protocol, Regular, Counting, [Next]_vars
  PROVE  Counting'
<1>1. CASE Begin  BY <1>1, BeginCounting
<1>2. CASE OpenFile  BY <1>2, OpenFileCounting
<1>3. CASE NextImage  BY <1>3, NextImageCounting
<1>4. CASE EndOfImage  BY <1>4, EndOfImageCounting
<1>5. CASE NextElement  BY <1>5, NextElementCounting
<1>6. CASE NextChunk  BY <1>6, NextChunkCounting
<1>7. CASE CommandSend \/ CommandStatus
  <2>1. Site' \in {Site, "failed"}  BY <1>7, CommandSendTypes, CommandStatusTypes
  <2>2. Site # "start"
    BY <1>7 DEF CommandSend, CommandStatus, Site, Protocol, Goal
  <2>3. UNCHANGED <<job, layout, image, target, element, last_erased_page>>
    BY <1>7 DEF CommandSend, CommandStatus, callVars, posVars, imageVars
  <2>4. QED  BY <2>1, <2>2, <2>3, CountingKept
<1>8. CASE ErasePages \/ EraseTail \/ SetAddress \/ WriteChunk \/ PollChunk
  <2>1. Site' \in ElementSites \cup {"failed"}
    BY <1>8, ErasePagesTypes, EraseTailTypes, SetAddressTypes, WriteChunkTypes, PollChunkTypes,
       SendStep DEF WriteChunk, ElementSites
  <2>2. Site \in ElementSites
    BY <1>8 DEF ErasePages, EraseTail, SetAddress, WriteChunk, PollChunk, Site, ElementSites
  <2>3. UNCHANGED <<job, layout, image, target, element>>
    BY <1>8 DEF ErasePages, EraseTail, SetAddress, WriteChunk, PollChunk, callVars, posVars, imageVars
  <2>4. Site # "start"  BY <2>2 DEF ElementSites
  <2>5. QED  BY <2>1, <2>2, <2>3, <2>4, CountingKept
<1>9. CASE SendAbort \/ CheckAborted \/ SendLeave \/ PollLeave
  <2>1. /\ UNCHANGED <<job, layout, image, target, element>> /\ Site \in EndedSites
    BY <1>9 DEF SendAbort, CheckAborted, SendLeave, PollLeave, callVars, posVars, imageVars, Site,
       EndedSites
  <2>2. Site' \in EndedSites \cup {"failed"}
    <3>1. CASE SendAbort \/ SendLeave
      BY <3>1 DEF SendAbort, SendLeave, Site, EndedSites
    <3>2. CASE PollLeave  BY <3>2, PollLeaveProtocol DEF Site, EndedSites
    <3>3. CASE CheckAborted
      <4>1. pc' \in {"failed", "done", "command"}  BY <3>3, CheckAbortedProtocol
      <4>2. CASE pc' # "command"  BY <4>1, <4>2 DEF Site, EndedSites
      <4>3. CASE pc' = "command"
        <5>1. specialCommand(dfuse_address, "SetAddress", "leave")
          BY <3>3, <4>3 DEF CheckAborted, Fail
        <5>2. "SetAddress" \in Commands /\ "leave" \in Thens /\ dfuse_address \in Nat
          BY DEF Commands, Thens, Types, Place
        <5>3. cmd'.then = "leave"  BY <4>3, <5>1, <5>2, CommandBegun
        <5>4. QED  BY <4>3, <5>3 DEF Site, EndedSites
      <4>4. QED  BY <4>2, <4>3
    <3>4. QED  BY <1>9, <3>1, <3>2, <3>3
  <2>3. Site # "start"  BY <2>1 DEF EndedSites
  <2>4. QED  BY <2>1, <2>2, <2>3, CountingKept
<1>10. CASE Device \/ UNCHANGED vars
  <2>1. UNCHANGED <<job, layout, image, target, element, last_erased_page, pc, cmd>>
    <3>1. CASE Device  BY <3>1, DeviceTypes DEF callVars, posVars, imageVars
    <3>2. CASE UNCHANGED vars  BY <3>2 DEF vars
    <3>3. QED  BY <1>10, <3>1, <3>2
  <2>2. QED  BY <2>1 DEF Counting, Site, images
<1>11. QED
  BY <1>1, <1>2, <1>3, <1>4, <1>5, <1>6, <1>7, <1>8, <1>9, <1>10 DEF Next, Host

-------------------------------------------------------------------------------
(***************************************************************************)
(* Claims: an element of an image for the alternate setting claims the     *)
(* addresses it is to be written to.  In a regular job no two of them do.  *)
(***************************************************************************)

(* What claims are.                                                        *)
LEMMA ClaimTypes ==
  ASSUME Call, NEW c \in Claims
  PROVE  /\ c = <<c[1], c[2]>> /\ c[1] \in 1 .. Len(images) /\ c[1] \in Nat
         /\ c[2] \in 1 .. Len(images[c[1]].elements) /\ c[2] \in Nat
         /\ c[1] <= job.file.targetsCount /\ images[c[1]].alternateSetting = job.altsetting
         /\ ElementOf(c).address \in Nat /\ ElementOf(c).size \in Nat
         /\ ClaimedBy(c) = ElementOf(c).address .. ElementOf(c).address + ElementOf(c).size - 1
<1>1. images \in Seq(Images)  BY JobTypes DEF Call
<1>2. PICK i \in DOMAIN images :
        /\ i <= job.file.targetsCount /\ images[i].alternateSetting = job.altsetting
        /\ c \in {i} \X DOMAIN images[i].elements
  BY DEF Claims
<1>3. c = <<c[1], c[2]>> /\ c[1] = i /\ c[2] \in DOMAIN images[i].elements  BY <1>2
<1>4. i \in 1 .. Len(images) /\ i \in Nat  BY <1>1
<1>5. images[i] \in Images  BY <1>1, <1>4
<1>6. c[2] \in 1 .. Len(images[i].elements) /\ c[2] \in Nat  BY <1>3, <1>5 DEF Images
<1>7. ElementOf(c).address \in Nat /\ ElementOf(c).size \in Nat
  BY <1>3, <1>4, <1>6, ElementTypes DEF ElementOf
<1>8. ClaimedBy(c) = ElementOf(c).address .. ElementOf(c).address + ElementOf(c).size - 1
  BY DEF ClaimedBy, AddressesFrom, ElementOf
<1>9. QED  BY <1>2, <1>3, <1>4, <1>6, <1>7, <1>8

(* The addresses that a claim claims.                                      *)
LEMMA Claimed ==
  ASSUME Call, NEW i \in 1 .. Len(images), NEW k \in 1 .. Len(images[i].elements),
         i <= job.file.targetsCount, images[i].alternateSetting = job.altsetting
  PROVE  <<i, k>> \in Claims
<1>1. images \in Seq(Images)  BY JobTypes DEF Call
<1>2. images[i] \in Images /\ i \in DOMAIN images  BY <1>1
<1>3. k \in DOMAIN images[i].elements  BY <1>2 DEF Images
<1>4. <<i, k>> \in {i} \X DOMAIN images[i].elements  BY <1>3
<1>5. QED  BY <1>2, <1>4 DEF Claims

(* Claims come in order, and each claims what none of the others does.     *)
LEMMA ClaimsOrdered ==
  ASSUME Call, NEW c \in Claims, NEW d \in Claims
  PROVE  c = d \/ Earlier(c, d) \/ Earlier(d, c)
<1>1. /\ c = <<c[1], c[2]>> /\ c[1] \in Nat /\ c[2] \in Nat
      /\ d = <<d[1], d[2]>> /\ d[1] \in Nat /\ d[2] \in Nat
  BY ClaimTypes
<1>2. c[1] = d[1] /\ c[2] = d[2] => c = d  BY <1>1
<1>3. QED  BY <1>1, <1>2 DEF Earlier

(* No address has two claims.                                              *)
LEMMA ClaimsApart ==
  ASSUME Call, Regular, NEW c \in Claims, NEW d \in Claims, Earlier(c, d),
         NEW a \in ClaimedBy(c), NEW b \in ClaimedBy(d)
  PROVE  a < b
<1>1. ElementOf(c).address + ElementOf(c).size <= ElementOf(d).address  BY DEF Regular
<1>2. /\ ElementOf(c).address \in Nat /\ ElementOf(c).size \in Nat
      /\ ClaimedBy(c) = ElementOf(c).address .. ElementOf(c).address + ElementOf(c).size - 1
      /\ ElementOf(d).address \in Nat /\ ElementOf(d).size \in Nat
      /\ ClaimedBy(d) = ElementOf(d).address .. ElementOf(d).address + ElementOf(d).size - 1
  BY ClaimTypes
<1>3. QED  BY <1>1, <1>2

(* The claim of an address is the last that is made for it.                *)
LEMMA OneClaim ==
  ASSUME Call, Regular, NEW c \in Claims, NEW d \in Claims,
         NEW a, a \in ClaimedBy(c), a \in ClaimedBy(d)
  PROVE  c = d
<1>1. a \in ElementOf(c).address .. ElementOf(c).address + ElementOf(c).size - 1  BY ClaimTypes
<1>2. a \in Int  BY <1>1
<1>3. ~(a < a)  BY <1>2
<1>4. ~Earlier(c, d) /\ ~Earlier(d, c)  BY <1>3, ClaimsApart
<1>5. QED  BY <1>4, ClaimsOrdered

(* wanted holds, for each address that is claimed, the byte of the file    *)
(* that its claim puts there.                                              *)
LEMMA WantedDomain ==
  ASSUME NEW a
  PROVE  a \in DOMAIN wanted <=> \E c \in Claims : a \in ClaimedBy(c)
BY DEF wanted

(* The byte that wanted puts at an address, as a triple.                   *)
LEMMA TripleOf ==
  ASSUME NEW x \in Int, NEW y \in Int, NEW z \in Int
  PROVE  <<x, y>> \o <<z>> = <<x, y, z>>
<1> DEFINE s == <<x, y>>
           t == <<z>>
           u == <<x, y, z>>
           v == s \o t
<1>1. /\ s \in Seq(Int) /\ Len(s) = 2 /\ t \in Seq(Int) /\ Len(t) = 1
      /\ u \in Seq(Int) /\ Len(u) = 3
  OBVIOUS
<1>2. s[1] = x /\ s[2] = y /\ t[1] = z /\ u[1] = x /\ u[2] = y /\ u[3] = z  OBVIOUS
<1> HIDE DEF s, t, u
<1>3. /\ v \in Seq(Int) /\ Len(v) = Len(s) + Len(t)
      /\ \A i \in 1 .. Len(s) + Len(t) : v[i] = IF i <= Len(s) THEN s[i] ELSE t[i - Len(s)]
  <2>1. s \in Seq(Int) /\ t \in Seq(Int)  BY <1>1
  <2>2. QED  BY <2>1, ConcatProperties, Zenon
<1> HIDE DEF v
<1>4. v[1] = x /\ v[2] = y /\ v[3] = z
  <2>1. \A i \in 1 .. 3 : v[i] = IF i <= 2 THEN s[i] ELSE t[i - 2]  BY <1>1, <1>3
  <2>2. v[1] = s[1] /\ v[2] = s[2] /\ v[3] = t[3 - 2]  BY <2>1
  <2>3. 3 - 2 = 1  OBVIOUS
  <2>4. QED  BY <1>2, <2>2, <2>3
<1>5. v = u
  <2>1. Len(v) = Len(u)  BY <1>1, <1>3
  <2>2. \A i \in 1 .. Len(v) : v[i] = u[i]  BY <1>1, <1>2, <1>3, <1>4
  <2>3. QED  BY <1>1, <1>3, <2>1, <2>2, SeqEqual
<1>6. QED  BY <1>5 DEF s, t, u, v

(* The claim that it comes from.                                           *)
LEMMA WantedAt ==
  ASSUME Call, Regular, NEW c \in Claims, NEW a \in ClaimedBy(c)
  PROVE  wanted[a] = <<c[1], c[2], a - ElementOf(c).address>>
<1> DEFINE Counts(e) ==
      /\ a \in ClaimedBy(e)
      /\ \A d \in Claims : a \in ClaimedBy(d) => d[1] < e[1] \/ (d[1] = e[1] /\ d[2] <= e[2])
           last == CHOOSE e \in Claims : Counts(e)
<1>1. /\ c = <<c[1], c[2]>> /\ c[1] \in Nat /\ c[2] \in Nat  BY ClaimTypes
<1>2. Counts(c)
  <2>1. \A d \in Claims : a \in ClaimedBy(d) => d = c  BY OneClaim
  <2>2. QED  BY <1>1, <2>1
<1>3. \A e \in Claims : Counts(e) => e = c  BY OneClaim
<1>4. a \in UNION {ClaimedBy(d) : d \in Claims}  OBVIOUS
<1>5. wanted[a] = last \o <<a - images[last[1]].elements[last[2]].address>>
  BY <1>4 DEF wanted
<1> HIDE DEF Counts
<1>6. last = c  BY <1>2, <1>3
<1>7. wanted[a] = <<c[1], c[2]>> \o <<a - ElementOf(c).address>>  BY <1>1, <1>5, <1>6 DEF ElementOf
<1>8. a - ElementOf(c).address \in Int
  BY ClaimTypes
<1>9. QED  BY <1>1, <1>7, <1>8, TripleOf

-------------------------------------------------------------------------------
(***************************************************************************)
(* What is programmed, and what is erased.                                 *)
(***************************************************************************)
Alive == pc \notin {"failed", "unprotected"}

(* Pages and segments of the memory of the device.                         *)
Page(a) == PageAt(job.memory, a)
SizeAt(a) == findSegment(job.memory, a).pagesize
Eraseable(a) == isAddressEraseable(job.memory, a)
Writeable(a) == isAddressWriteable(job.memory, a)

(* The element and the chunk under way.                                    *)
Here == <<target, element>>
End == address + chunk_size
Chunk == AddressesFrom(address, chunk_size)

(* The addresses that are full by now: those of earlier elements, and of   *)
(* the one being written what lies before the chunk.  The chunk itself is  *)
(* in when the device has carried out the request.                         *)
Written ==
  {a \in DOMAIN wanted : \E c \in Claims :
     a \in ClaimedBy(c) /\ (Earlier(c, Here) \/ (c = Here /\ (Site \in ElementSites => a < address)))}

(* The device is through with the chunk, and run() has yet to learn of it. *)
Burnt == pc = "poll" /\ dev.ok /\ ~dev.work

(* What is programmed is what is full.                                     *)
Stored == DOMAIN flash = Written \cup (IF Burnt THEN Chunk ELSE {})

(* Memory holds nothing but what the file wants there, and nothing is      *)
(* spoiled.                                                                *)
Contents ==
  spoiled = {} /\ DOMAIN flash \subseteq DOMAIN wanted /\ flash = Restrict(wanted, DOMAIN flash)

(* A request does no harm: what it programs belongs there, is erased if it *)
(* can be, and is not there yet; what it erases holds nothing of the file. *)
Harmless(r) ==
  LET S == AddressesFrom(r.address, r.size)
  IN  /\ r.kind = "data" /\ (\A a \in S : Writeable(a)) =>
           \A a \in S : /\ a \in DOMAIN wanted /\ a \notin DOMAIN flash
                        /\ wanted[a] = [r.from EXCEPT ![3] = @ + (a - r.address)]
                        /\ Eraseable(a) => a \in blank
      /\ r.kind = "ErasePage" => Eraseable(r.address) /\ Page(r.address) \cap DOMAIN flash = {}
      /\ r.kind \in {"MassErase", "ReadUnprotect"} => DOMAIN flash = {}

(* The request that the device has yet to carry out does no harm.          *)
Pending == dev.work /\ dev.state \in {"dfuDNLOAD_SYNC", "dfuDNBUSY"} => Harmless(request)

(* Nor does the command that run() is about to send, or has sent.          *)
Ordered == pc \in {"command", "status"} => Harmless(CommandRequest)

(* What a command has done when the device is through with it.             *)
Carried ==
  pc = "status" /\ dev.ok /\ ~dev.work =>
    /\ cmd.command = "SetAddress" => pointer = cmd.address
    /\ cmd.command = "ErasePage" => Page(cmd.address) \subseteq blank
    /\ cmd.command = "MassErase" => AllAddresses \subseteq blank

(* The pointer of the device is at the chunk when the chunk is sent.       *)
Aimed ==
  /\ pc \in {"write", "poll"} => pointer = address
  /\ pc \in {"leave", "leaving"} => pointer = dfuse_address

(* What the command under way is about to erase counts as erased.          *)
Coming ==
  IF pc \notin {"command", "status"} THEN {}
  ELSE IF cmd.command = "ErasePage" THEN Page(cmd.address)
  ELSE IF cmd.command = "MassErase" THEN AllAddresses
  ELSE {}

(* What is erased or about to be.                                          *)
Fresh == blank \cup Coming

(* After a mass erase, all is erased that is not programmed.               *)
Cleared ==
  job.massErase /\ Site \notin {"start", "unprotected"} =>
    AllAddresses \subseteq Fresh \cup DOMAIN flash

(* The page loop: what it has passed over is erased, or in a page that     *)
(* reaches as far as the loop has come.                                    *)
Loop ==
  Site = "erase" =>
    /\ Eraseable(address) /\ ~job.massErase /\ address <= erase_address
    /\ \A x \in Chunk : x < erase_address /\ Eraseable(x) =>
         x \in Fresh \/ \A y \in Chunk : x <= y /\ y <= erase_address => y \in Page(x)

(* Behind the loop, all of the chunk that can be erased is erased.         *)
Covered ==
  Site \in {"address", "write"} /\ (\A a \in Chunk : Writeable(a)) =>
    \A x \in Chunk : Eraseable(x) => x \in Fresh

(* Behind the loop, the page erased last is that of the end of the chunk.  *)
TailErased ==
  Site \in {"address", "write", "poll"} /\ ~job.massErase /\ Eraseable(address) =>
    last_erased_page # 1 /\ End - 1 \in Page(last_erased_page)

(* The page erased last: it has been reached, and nothing behind it that   *)
(* can be erased.                                                          *)
Remembered ==
  last_erased_page # 1 =>
    /\ Eraseable(last_erased_page) /\ last_erased_page % SizeAt(last_erased_page) = 0
    /\ Page(last_erased_page) \subseteq Fresh \cup DOMAIN flash
    /\ \E w \in Page(last_erased_page) :
         \/ w \in DOMAIN flash
         \/ Site = "erase" /\ w \in Chunk /\ w <= erase_address
         \/ Site \in {"address", "write", "poll"} /\ w \in Chunk

(* The page erased last does not lie behind the place that the writing has *)
(* come to.                                                                *)
LastReached ==
  ~job.massErase =>
    \A w \in DOMAIN flash : Eraseable(w) =>
      last_erased_page # 1 /\ w < last_erased_page + SizeAt(last_erased_page)

(* The invariant for the pages.                                            *)
Pages == Cleared /\ Loop /\ Covered /\ TailErased /\ Remembered /\ LastReached

(* The first address that the file names is the one kept.                  *)
FirstKept ==
  /\ ~bFirstAddressSaved =>
       /\ dfuse_address = 0 /\ (target # 0 => element = 0)
       /\ \A i \in 1 .. target : i < target => images[i].elements = << >>
  /\ bFirstAddressSaved =>
       \E i \in 1 .. target : /\ images[i].elements # << >>
                              /\ dfuse_address = images[i].elements[1].address
                              /\ \A k \in 1 .. i - 1 : images[k].elements = << >>

(* What relates the place in the file to the memory.                       *)
Progress == Stored /\ Ordered /\ Carried /\ Aimed /\ Pages /\ FirstKept

(* The inductive invariant for regular jobs.                               *)
Inv ==
  /\ Types /\ Protocol /\ Regular /\ Counting /\ Contents /\ Pending
  /\ Alive => Progress

(* The chunk under way lies in its claim, and belongs where it is put.     *)
LEMMA HereClaims ==
  ASSUME Types, Regular, Counting, Site \in ElementSites
  PROVE  /\ Here \in Claims /\ ElementOf(Here) = Current
         /\ Here[1] = target /\ Here[2] = element
         /\ target \in Nat /\ element \in Nat /\ address \in Nat
         /\ Current.address \in Nat /\ Current.size \in Nat /\ p \in Nat
         /\ address = Current.address + p
<1>1. target # 0 /\ element # 0 /\ Call /\ Place  BY DEF Types, Standing
<1>2. /\ target \in 1 .. Len(images) /\ element \in 1 .. Len(images[target].elements)
      /\ address \in Nat /\ Current.address \in Nat /\ Current.size \in Nat
      /\ address = Current.address + p
  BY <1>1, CurrentTypes
<1>3. target <= job.file.targetsCount /\ images[target].alternateSetting = job.altsetting
  BY DEF Counting, ElementSites
<1>4. Here \in Claims  BY <1>1, <1>2, <1>3, Claimed DEF Here
<1>5. ElementOf(Here) = Current  BY DEF ElementOf, Here, Current
<1>6. target \in Nat /\ element \in Nat /\ p \in Nat  BY <1>1, <1>2 DEF Place
<1>7. QED  BY <1>2, <1>4, <1>5, <1>6 DEF Here

(* What is left of the element under way lies ahead of all that is full.   *)
LEMMA ChunkAhead ==
  ASSUME Types, Regular, Counting, Site \in ElementSites, p < Current.size
  PROVE  /\ Chunk \subseteq ClaimedBy(Here) /\ Chunk \subseteq DOMAIN wanted
         /\ address \in Nat /\ End \in Nat /\ address \in Chunk /\ End - 1 \in Chunk
         /\ \A a : a \in Chunk <=> a \in Nat /\ address <= a /\ a < End
         /\ \A a \in Chunk : wanted[a] = <<target, element, p + (a - address)>>
<1>1. /\ Here \in Claims /\ ElementOf(Here) = Current /\ Here[1] = target /\ Here[2] = element
      /\ address \in Nat /\ Current.address \in Nat /\ Current.size \in Nat /\ p \in Nat
      /\ address = Current.address + p
  BY HereClaims
<1>2. Call /\ Place /\ target # 0 /\ element # 0 /\ transferSize # 0 /\ p < Current.size
  BY DEF Types, Standing, ElementSites
<1>3. chunk_size \in Nat /\ chunk_size > 0 /\ p + chunk_size <= Current.size
  BY <1>2, ChunkTypes
<1>4. ClaimedBy(Here) = Current.address .. Current.address + Current.size - 1
  BY <1>1, <1>2, ClaimTypes
<1>5. /\ End \in Nat /\ address \in Chunk /\ End - 1 \in Chunk
      /\ \A a : a \in Chunk <=> a \in Nat /\ address <= a /\ a < End
  BY <1>1, <1>3 DEF End, Chunk, AddressesFrom
<1>6. End <= Current.address + Current.size
  <2>1. End = Current.address + p + chunk_size  BY <1>1 DEF End
  <2>2. QED  BY <1>1, <1>3, <2>1
<1>7. Chunk \subseteq ClaimedBy(Here)
  <2>1. SUFFICES ASSUME NEW a \in Chunk  PROVE a \in ClaimedBy(Here)  OBVIOUS
  <2>2. a \in Nat /\ address <= a /\ a < End  BY <1>5
  <2>3. Current.address <= a /\ a <= Current.address + Current.size - 1  BY <1>1, <1>5, <1>6, <2>2
  <2>4. QED  BY <1>1, <1>4, <2>2, <2>3
<1>8. Chunk \subseteq DOMAIN wanted  BY <1>1, <1>7, WantedDomain
<1>9. \A a \in Chunk : wanted[a] = <<target, element, p + (a - address)>>
  <2>1. SUFFICES ASSUME NEW a \in Chunk  PROVE wanted[a] = <<target, element, p + (a - address)>>
    OBVIOUS
  <2>2. wanted[a] = <<Here[1], Here[2], a - ElementOf(Here).address>>
    BY <1>1, <1>2, <1>7, WantedAt
  <2>3. a \in Nat  BY <1>5
  <2>4. a - Current.address = p + (a - address)  BY <1>1, <2>3
  <2>5. QED  BY <1>1, <2>2, <2>4
<1>10. QED  BY <1>1, <1>5, <1>7, <1>8, <1>9

(* The chunk under way belongs to the claim of the element.                *)
LEMMA ChunkClaimed ==
  ASSUME Types, Regular, Counting, Site \in ChunkSites
  PROVE  /\ Chunk \subseteq ClaimedBy(Here) /\ Chunk \subseteq DOMAIN wanted
         /\ address \in Nat /\ End \in Nat /\ address \in Chunk /\ End - 1 \in Chunk
         /\ \A a : a \in Chunk <=> a \in Nat /\ address <= a /\ a < End
         /\ \A a \in Chunk : wanted[a] = <<target, element, p + (a - address)>>
<1>1. Site \in ElementSites  BY DEF ChunkSites, ElementSites
<1>2. p < Current.size  BY DEF Types, Standing
<1>3. QED  BY <1>1, <1>2, ChunkAhead

(* While an element is written, all that is full lies before the address   *)
(* the writing has come to.                                                *)
LEMMA WrittenBelow ==
  ASSUME Types, Regular, Counting, Site \in ElementSites, NEW a \in Written
  PROVE  a \in Nat /\ a < address
<1>1. /\ Here \in Claims /\ ElementOf(Here) = Current /\ address \in Nat
      /\ Current.address \in Nat /\ p \in Nat /\ address = Current.address + p
  BY HereClaims
<1>2. Call  BY DEF Types
<1>3. PICK c \in Claims : a \in ClaimedBy(c) /\ (Earlier(c, Here) \/ (c = Here /\ a < address))
  BY DEF Written
<1>4. /\ ClaimedBy(c) = ElementOf(c).address .. ElementOf(c).address + ElementOf(c).size - 1
      /\ ElementOf(c).address \in Nat /\ ElementOf(c).size \in Nat
  BY <1>2, ClaimTypes
<1>5. a \in Nat /\ a < ElementOf(c).address + ElementOf(c).size  BY <1>3, <1>4
<1>6. CASE Earlier(c, Here)
  <2>1. ElementOf(c).address + ElementOf(c).size <= Current.address
    BY <1>1, <1>6 DEF Regular
  <2>2. QED  BY <1>1, <1>4, <1>5, <2>1
<1>7. CASE c = Here /\ a < address  BY <1>5, <1>7
<1>8. QED  BY <1>3, <1>6, <1>7

(* No address at or behind the chunk under way is full.                    *)
LEMMA FullBelow ==
  ASSUME Types, Regular, Counting, Site \in ElementSites, Stored, ~Burnt, NEW a \in DOMAIN flash
  PROVE  a \in Nat /\ a < address /\ a \notin Chunk
<1>1. a \in Written  BY DEF Stored
<1>2. a \in Nat /\ a < address /\ address \in Nat  BY <1>1, WrittenBelow, HereClaims
<1>3. a \notin Chunk
  BY <1>2 DEF Chunk, AddressesFrom
<1>4. QED  BY <1>2, <1>3

(* What depends on nothing but where run() stands in the file.             *)
LEMMA PlaceKept ==
  ASSUME UNCHANGED <<job, transferSize, target, element, p>>
  PROVE  /\ images' = images /\ Claims' = Claims /\ Here' = Here
         /\ Current' = Current /\ address' = address /\ chunk_size' = chunk_size
         /\ End' = End /\ Chunk' = Chunk /\ AllAddresses' = AllAddresses
         /\ \A a : Page(a)' = Page(a) /\ SizeAt(a)' = SizeAt(a)
         /\ \A a : Eraseable(a)' = Eraseable(a) /\ Writeable(a)' = Writeable(a)
         /\ \A c : ClaimedBy(c)' = ClaimedBy(c) /\ ElementOf(c)' = ElementOf(c)
<1>1. images' = images  BY DEF images
<1>2. Claims' = Claims  BY <1>1 DEF Claims
<1>3. \A c : ClaimedBy(c)' = ClaimedBy(c) /\ ElementOf(c)' = ElementOf(c)
  BY <1>1 DEF ClaimedBy, ElementOf
<1>5. Here' = Here  BY DEF Here
<1>6. Current' = Current  BY <1>1 DEF Current
<1>7. address' = address /\ chunk_size' = chunk_size  BY <1>6 DEF address, chunk_size
<1>8. End' = End /\ Chunk' = Chunk  BY <1>7 DEF End, Chunk
<1>9. AllAddresses' = AllAddresses  BY DEF AllAddresses
<1>10. /\ \A a : Page(a)' = Page(a) /\ SizeAt(a)' = SizeAt(a)
       /\ \A a : Eraseable(a)' = Eraseable(a) /\ Writeable(a)' = Writeable(a)
  BY DEF Page, SizeAt, Eraseable, Writeable
<1>11. QED  BY <1>1, <1>2, <1>3, <1>5, <1>6, <1>7, <1>8, <1>9, <1>10

(* What the file wants, with both ends of its definition at hand.          *)
LEMMA WantedAll ==
  Call /\ Regular =>
    /\ wanted = [a \in DOMAIN wanted |-> wanted[a]]
    /\ \A a : a \in DOMAIN wanted <=> \E c \in Claims : a \in ClaimedBy(c)
    /\ \A c \in Claims : \A a \in ClaimedBy(c) :
         wanted[a] = <<c[1], c[2], a - ElementOf(c).address>>
<1>1. wanted = [a \in DOMAIN wanted |-> wanted[a]]
  <2> DEFINE Last(a) == CHOOSE c \in Claims :
        /\ a \in ClaimedBy(c)
        /\ \A d \in Claims : a \in ClaimedBy(d) => d[1] < c[1] \/ (d[1] = c[1] /\ d[2] <= c[2])
             S == UNION {ClaimedBy(c) : c \in Claims}
             Put(a) == Last(a) \o <<a - images[Last(a)[1]].elements[Last(a)[2]].address>>
  <2>1. wanted = [a \in S |-> Put(a)]  BY DEF wanted
  <2> HIDE DEF S, Put
  <2>2. QED  BY <2>1
<1>2. QED  BY <1>1, WantedDomain, WantedAt

(* What the file wants does not change.                                    *)
LEMMA WantedKept ==
  ASSUME Call, Call', Regular, job' = job
  PROVE  wanted' = wanted
<1>1. (Call /\ Regular =>
         /\ wanted = [a \in DOMAIN wanted |-> wanted[a]]
         /\ \A a : a \in DOMAIN wanted <=> \E c \in Claims : a \in ClaimedBy(c)
         /\ \A c \in Claims : \A a \in ClaimedBy(c) :
              wanted[a] = <<c[1], c[2], a - ElementOf(c).address>>)'
  BY WantedAll, PTL
<1>2. Regular'  BY RegularKept
<1>3. /\ Claims' = Claims
      /\ \A c : ClaimedBy(c)' = ClaimedBy(c) /\ ElementOf(c)' = ElementOf(c)
  BY DEF images, Claims, ClaimedBy, ElementOf
<1> DEFINE v == wanted
           w == wanted'
<1>4. /\ v = [a \in DOMAIN v |-> v[a]]
      /\ \A a : a \in DOMAIN v <=> \E c \in Claims : a \in ClaimedBy(c)
      /\ \A c \in Claims : \A a \in ClaimedBy(c) : v[a] = <<c[1], c[2], a - ElementOf(c).address>>
  BY WantedAll
<1>5. /\ w = [a \in DOMAIN w |-> w[a]]
      /\ \A a : a \in DOMAIN w <=> \E c \in Claims : a \in ClaimedBy(c)
      /\ \A c \in Claims : \A a \in ClaimedBy(c) : w[a] = <<c[1], c[2], a - ElementOf(c).address>>
  BY <1>1, <1>2, <1>3
<1> HIDE DEF v, w
<1>6. DOMAIN v = DOMAIN w  BY <1>4, <1>5
<1>7. \A a \in DOMAIN v : v[a] = w[a]  BY <1>4, <1>5
<1>8. v = w  BY <1>4, <1>5, <1>6, <1>7
<1>9. QED  BY <1>8 DEF v, w

(* What is full does not change when the place in the file does not.       *)
LEMMA WrittenKept ==
  ASSUME UNCHANGED <<job, transferSize, target, element, p>>, wanted' = wanted,
         Site' \in ElementSites <=> Site \in ElementSites
  PROVE  Written' = Written
<1>1. /\ Claims' = Claims /\ Here' = Here /\ address' = address
      /\ \A c : ClaimedBy(c)' = ClaimedBy(c)
  BY PlaceKept
<1> DEFINE E == Site \in ElementSites
<1>2. E' <=> E  OBVIOUS
<1> HIDE DEF E
<1>3. Written = {a \in DOMAIN wanted : \E c \in Claims :
                   a \in ClaimedBy(c) /\ (Earlier(c, Here) \/ (c = Here /\ (E => a < address)))}
  BY DEF Written, E
<1>4. Written' = {a \in DOMAIN wanted' : \E c \in Claims' :
                   a \in ClaimedBy(c)' /\ (Earlier(c, Here') \/ (c = Here' /\ (E' => a < address')))}
  BY DEF Written, E, Earlier
<1>5. QED  BY <1>1, <1>2, <1>3, <1>4

(* Before the first image nothing is written.                              *)
LEMMA NothingWritten ==
  ASSUME Call, target = 0, element = 0
  PROVE  Written = {}
<1>1. SUFFICES ASSUME NEW a \in Written  PROVE FALSE  OBVIOUS
<1>2. PICK c \in Claims : Earlier(c, Here) \/ c = Here  BY DEF Written
<1>3. c[1] \in Nat /\ c[1] > 0  BY ClaimTypes
<1>4. Here[1] = 0 /\ Here[2] = 0  BY DEF Here
<1>5. c[2] \in Nat  BY ClaimTypes
<1>6. QED  BY <1>2, <1>3, <1>4, <1>5 DEF Earlier

(* A request stays harmless as long as memory does not change.             *)
LEMMA HarmlessKept ==
  ASSUME UNCHANGED <<job, flash, blank>>, wanted' = wanted, NEW r, Harmless(r)
  PROVE  Harmless(r)'
BY DEF Harmless, Writeable, Eraseable, Page

(* Erased pages stay erased as long as nothing is programmed.              *)
LEMMA PagesKept ==
  ASSUME Pages, UNCHANGED <<job, transferSize, target, element, p, erase_address, last_erased_page>>,
         DOMAIN flash' = DOMAIN flash, Fresh \subseteq Fresh', Site' = Site
  PROVE  Pages'
<1>1. /\ address' = address /\ End' = End /\ Chunk' = Chunk /\ AllAddresses' = AllAddresses
      /\ \A a : Page(a)' = Page(a) /\ SizeAt(a)' = SizeAt(a)
      /\ \A a : Eraseable(a)' = Eraseable(a) /\ Writeable(a)' = Writeable(a)
  BY PlaceKept
<1>2. Cleared'  BY <1>1 DEF Pages, Cleared
<1>3. Loop'
  <2>1. SUFFICES ASSUME Site = "erase"  PROVE Loop'  BY DEF Loop
  <2>2. Eraseable(address) /\ ~job.massErase /\ address <= erase_address
    BY <2>1 DEF Pages, Loop
  <2>3. \A x \in Chunk : x < erase_address /\ Eraseable(x) =>
         x \in Fresh \/ \A y \in Chunk : x <= y /\ y <= erase_address => y \in Page(x)
    BY <2>1 DEF Pages, Loop
  <2>4. Eraseable(address)' /\ ~job'.massErase /\ address' <= erase_address'
    <3>1. Eraseable(address)'
      BY <1>1, <2>2 DEF Eraseable
    <3>2. QED  BY <1>1, <2>2, <3>1
  <2>5. \A x \in Chunk' : x < erase_address' /\ Eraseable(x)' =>
         x \in Fresh' \/ \A y \in Chunk' : x <= y /\ y <= erase_address' => y \in Page(x)'
    BY <1>1, <2>3
  <2>6. QED  BY <2>4, <2>5 DEF Loop
<1>4. Covered'
  <2>1. SUFFICES ASSUME Site \in {"address", "write"}, \A a \in Chunk : Writeable(a)
                 PROVE  \A x \in Chunk' : Eraseable(x)' => x \in Fresh'
    BY <1>1 DEF Covered
  <2>2. \A x \in Chunk : Eraseable(x) => x \in Fresh  BY <2>1 DEF Pages, Covered
  <2>3. QED  BY <1>1, <2>2
<1>5. TailErased'
  BY <1>1 DEF Pages, TailErased, Eraseable, Page
<1>6. Remembered'
  <2>1. SUFFICES ASSUME last_erased_page # 1  PROVE Remembered'  BY DEF Remembered
  <2>2. /\ Eraseable(last_erased_page) /\ last_erased_page % SizeAt(last_erased_page) = 0
        /\ Page(last_erased_page) \subseteq Fresh \cup DOMAIN flash
    BY <2>1 DEF Pages, Remembered
  <2>3. PICK w \in Page(last_erased_page) :
         \/ w \in DOMAIN flash
         \/ Site = "erase" /\ w \in Chunk /\ w <= erase_address
         \/ Site \in {"address", "write", "poll"} /\ w \in Chunk
    BY <2>1 DEF Pages, Remembered
  <2>4. /\ Eraseable(last_erased_page)' /\ (last_erased_page % SizeAt(last_erased_page) = 0)'
        /\ Page(last_erased_page)' = Page(last_erased_page)
    BY <2>2 DEF Eraseable, SizeAt, Page
  <2>5. Page(last_erased_page)' \subseteq Fresh' \cup DOMAIN flash'  BY <2>2, <2>4
  <2>6. \E v \in Page(last_erased_page)' :
         \/ v \in DOMAIN flash'
         \/ Site' = "erase" /\ v \in Chunk' /\ v <= erase_address'
         \/ Site' \in {"address", "write", "poll"} /\ v \in Chunk'
    BY <1>1, <2>3, <2>4
  <2>7. QED  BY <2>4, <2>5, <2>6 DEF Remembered
<1>7. LastReached'  BY <1>1 DEF Pages, LastReached, SizeAt, Eraseable
<1>8. QED  BY <1>2, <1>3, <1>4, <1>5, <1>6, <1>7 DEF Pages

-------------------------------------------------------------------------------
(***************************************************************************)
(* The steps of run(), action by action: how each moves the place in the   *)
(* file, and what of the memory it relies on.                              *)
(***************************************************************************)

(* Outside of the writing of a chunk, nothing depends on where run() is.   *)
LEMMA MemoryKept ==
  ASSUME Pages, UNCHANGED <<job, last_erased_page>>,
         DOMAIN flash' = DOMAIN flash, Fresh \subseteq Fresh',
         Site \notin ChunkSites \cup {"start", "unprotected"}
  PROVE  Cleared' /\ Remembered' /\ LastReached'
<1>1. /\ AllAddresses' = AllAddresses
      /\ \A a : Page(a)' = Page(a) /\ SizeAt(a)' = SizeAt(a) /\ Eraseable(a)' = Eraseable(a)
  BY DEF AllAddresses, Page, SizeAt, Eraseable
<1>2. Cleared'  BY <1>1 DEF Pages, Cleared
<1>3. Remembered'
  <2>1. SUFFICES ASSUME last_erased_page # 1  PROVE Remembered'  BY DEF Remembered
  <2>2. /\ Eraseable(last_erased_page) /\ last_erased_page % SizeAt(last_erased_page) = 0
        /\ Page(last_erased_page) \subseteq Fresh \cup DOMAIN flash
    BY <2>1 DEF Pages, Remembered
  <2>3. PICK w \in Page(last_erased_page) : w \in DOMAIN flash
    BY <2>1 DEF Pages, Remembered, ChunkSites
  <2>4. /\ Eraseable(last_erased_page)' /\ (last_erased_page % SizeAt(last_erased_page) = 0)'
        /\ Page(last_erased_page)' = Page(last_erased_page)
    BY <2>2 DEF Eraseable, SizeAt, Page
  <2>5. QED  BY <2>2, <2>3, <2>4 DEF Remembered
<1>4. LastReached'  BY <1>1 DEF Pages, LastReached, SizeAt, Eraseable
<1>5. QED  BY <1>2, <1>3, <1>4

(* Pages stay as they are where no chunk is under way.                     *)
LEMMA PagesMoved ==
  ASSUME Pages, UNCHANGED <<job, last_erased_page>>,
         DOMAIN flash' = DOMAIN flash, Fresh \subseteq Fresh',
         Site \notin ChunkSites \cup {"start", "unprotected"}, Site' \notin ChunkSites
  PROVE  Pages'
<1>1. Cleared' /\ Remembered' /\ LastReached'  BY MemoryKept
<1>2. Loop' /\ Covered' /\ TailErased'  BY DEF Loop, Covered, TailErased, ChunkSites
<1>3. QED  BY <1>1, <1>2 DEF Pages

(* From the address command to the end of the transfer of the chunk.       *)
LEMMA PagesCarried ==
  ASSUME Pages, UNCHANGED <<job, transferSize, target, element, p, last_erased_page>>,
         DOMAIN flash' = DOMAIN flash, Fresh \subseteq Fresh',
         Site \in {"address", "write"}, Site' \in {"write", "poll"}
  PROVE  Pages'
<1>1. /\ address' = address /\ End' = End /\ Chunk' = Chunk /\ AllAddresses' = AllAddresses
      /\ \A a : Page(a)' = Page(a) /\ SizeAt(a)' = SizeAt(a)
      /\ \A a : Eraseable(a)' = Eraseable(a) /\ Writeable(a)' = Writeable(a)
  BY PlaceKept
<1>2. Cleared'  BY <1>1 DEF Pages, Cleared
<1>3. Loop'  BY DEF Loop
<1>4. Covered'
  <2>1. SUFFICES ASSUME \A a \in Chunk : Writeable(a)
                 PROVE  \A x \in Chunk' : Eraseable(x)' => x \in Fresh'
    BY <1>1 DEF Covered
  <2>2. \A x \in Chunk : Eraseable(x) => x \in Fresh  BY <2>1 DEF Pages, Covered
  <2>3. QED  BY <1>1, <2>2
<1>5. TailErased'
  BY <1>1 DEF Pages, TailErased, Eraseable, Page
<1>6. Remembered'
  <2>1. SUFFICES ASSUME last_erased_page # 1  PROVE Remembered'  BY DEF Remembered
  <2>2. /\ Eraseable(last_erased_page) /\ last_erased_page % SizeAt(last_erased_page) = 0
        /\ Page(last_erased_page) \subseteq Fresh \cup DOMAIN flash
    BY <2>1 DEF Pages, Remembered
  <2>3. PICK w \in Page(last_erased_page) : w \in DOMAIN flash \/ w \in Chunk
    BY <2>1 DEF Pages, Remembered
  <2>4. /\ Eraseable(last_erased_page)' /\ (last_erased_page % SizeAt(last_erased_page) = 0)'
        /\ Page(last_erased_page)' = Page(last_erased_page)
    BY <2>2 DEF Eraseable, SizeAt, Page
  <2>5. \E v \in Page(last_erased_page)' :
         v \in DOMAIN flash' \/ (Site' \in {"address", "write", "poll"} /\ v \in Chunk')
    BY <1>1, <2>3, <2>4
  <2>6. QED  BY <2>2, <2>4, <2>5 DEF Remembered
<1>7. LastReached'  BY <1>1 DEF Pages, LastReached, SizeAt, Eraseable
<1>8. QED  BY <1>2, <1>3, <1>4, <1>5, <1>6, <1>7 DEF Pages

(* The address kept stays the first.                                       *)
LEMMA FirstKeptStays ==
  ASSUME FirstKept, UNCHANGED <<job, target, element, dfuse_address, bFirstAddressSaved>>
  PROVE  FirstKept'
BY DEF FirstKept, images

(* What is programmed stays what is full.                                  *)
LEMMA StoredKept ==
  ASSUME Stored, ~Burnt, ~Burnt', flash' = flash, Written' = Written
  PROVE  Stored'
BY DEF Stored

(* Progress, action by action: run() up to its first command.              *)
LEMMA BeginProgress ==
  ASSUME Types, Regular, Counting, Progress, Begin, wanted' = wanted, Counting', Alive'
  PROVE  Progress'
<1>1. /\ pc = "start" /\ UNCHANGED <<job, posVars, erase_address, dev, request, memVars>>
      /\ Site' \in {"file", "unprotected"} /\ Site = "start"
  <2>1. Site' \in {"failed", "file", "unprotected"}  BY BeginCounting
  <2>2. Site' # "failed"
    <3>1. pc' # "failed"  BY DEF Alive
    <3>2. CASE Fail  BY <3>1, <3>2 DEF Fail
    <3>3. CASE pc' = "file"  BY <3>3 DEF Site
    <3>4. CASE specialCommand(0, "ReadUnprotect", "unprotected")
      <4>1. "ReadUnprotect" \in Commands /\ "unprotected" \in Thens  BY DEF Commands, Thens
      <4>2. QED  BY <3>1, <3>4, <4>1, SpecialCommand DEF Site
    <3>5. CASE specialCommand(0, "MassErase", "file")
      <4>1. "MassErase" \in Commands /\ "file" \in Thens  BY DEF Commands, Thens
      <4>2. QED  BY <3>1, <3>5, <4>1, SpecialCommand DEF Site
    <3>6. QED  BY <3>2, <3>3, <3>4, <3>5 DEF Begin
  <2>3. QED  BY <2>1, <2>2 DEF Begin, Site
<1>2. /\ target = 0 /\ element = 0 /\ target' = 0 /\ element' = 0 /\ last_erased_page' = 1
      /\ Call
  BY <1>1 DEF Counting, posVars, imageVars, Types
<1>3. DOMAIN flash = {} /\ Written = {}
  <2>1. Written = {}  BY <1>2, NothingWritten
  <2>2. QED  BY <1>1, <2>1 DEF Progress, Stored, Burnt
<1>4. pc' \in {"file", "command"}
      /\ (pc' = "command" => cmd'.command \in {"MassErase", "ReadUnprotect"})
      /\ (job.massErase /\ Site' = "file" => pc' = "command" /\ cmd'.command = "MassErase")
  <2>0. pc' # "failed"  BY DEF Alive
  <2>1. CASE Fail  BY <2>0, <2>1 DEF Fail
  <2>2. CASE job.unprotect /\ specialCommand(0, "ReadUnprotect", "unprotected")
    <3>1. "ReadUnprotect" \in Commands /\ "unprotected" \in Thens  BY DEF Commands, Thens
    <3>2. QED  BY <2>0, <2>2, <3>1, SpecialCommand DEF Site
  <2>3. CASE specialCommand(0, "MassErase", "file")
    <3>1. "MassErase" \in Commands /\ "file" \in Thens  BY DEF Commands, Thens
    <3>2. QED  BY <2>0, <2>3, <3>1, SpecialCommand DEF Site
  <2>4. CASE ~job.massErase /\ pc' = "file"  BY <2>4
  <2>5. QED  BY <2>1, <2>2, <2>3, <2>4 DEF Begin
<1>5. flash' = flash /\ blank' = blank  BY <1>1 DEF memVars
<1>6. Stored'
  <2>1. Written' = {}
    <3>1. Claims' = Claims /\ Here' = Here
          /\ \A c : ClaimedBy(c)' = ClaimedBy(c)
      BY <1>1, <1>2 DEF images, Claims, Here, ClaimedBy
    <3>2. SUFFICES ASSUME NEW a \in Written'  PROVE FALSE  OBVIOUS
    <3>3. PICK c \in Claims : Earlier(c, Here) \/ c = Here  BY <3>1 DEF Written, Earlier
    <3>4. c[1] \in Nat /\ c[1] > 0 /\ c[2] \in Nat /\ Here[1] = 0 /\ Here[2] = 0
      BY <1>2, ClaimTypes DEF Here
    <3>5. QED  BY <3>3, <3>4 DEF Earlier
  <2>2. ~Burnt'  BY <1>4 DEF Burnt
  <2>3. QED  BY <1>3, <1>5, <2>1, <2>2 DEF Stored
<1>7. Ordered'
  <2>1. SUFFICES ASSUME pc' = "command"  PROVE Harmless(CommandRequest)'
    BY <1>4 DEF Ordered
  <2>2. CommandRequest'.kind \in {"MassErase", "ReadUnprotect"}
    BY <1>4, <2>1 DEF CommandRequest, NoRequest
  <2>3. QED  BY <1>3, <1>5, <2>2 DEF Harmless
<1>8. Carried' /\ Aimed'  BY <1>4 DEF Carried, Aimed
<1>9. Pages'
  <2>1. Cleared'
    <3>1. job.massErase /\ Site' = "file" => AllAddresses' \subseteq Coming'
      BY <1>4 DEF Coming
    <3>2. QED  BY <1>1, <3>1 DEF Cleared, Fresh
  <2>2. Loop' /\ Covered' /\ TailErased' /\ Remembered'
    BY <1>1, <1>2 DEF Loop, Covered, TailErased, Remembered
  <2>3. LastReached'  BY <1>3, <1>5 DEF LastReached
  <2>4. QED  BY <2>1, <2>2, <2>3 DEF Pages
<1>10. FirstKept'
  BY <1>1, FirstKeptStays DEF Progress, posVars, imageVars
<1>11. QED  BY <1>6, <1>7, <1>8, <1>9, <1>10 DEF Progress

(* The request of specialCommand.                                          *)
LEMMA CommandSendProgress ==
  ASSUME Types, Protocol, Progress, CommandSend, wanted' = wanted, Alive'
  PROVE  Progress'
<1>1. /\ pc = "command" /\ UNCHANGED <<callVars, posVars, erase_address, last_erased_page, cmd, memVars>>
      /\ Send(CommandRequest, "status")
  BY DEF CommandSend, CommandRequest
<1>2. pc' = "status" /\ dev' = TakeData(dev)
  <2>1. pc' # "failed"  BY DEF Alive
  <2>2. QED  BY <1>1, <2>1, SendStep
<1>3. /\ UNCHANGED <<job, transferSize, target, element, p, erase_address, last_erased_page>>
      /\ UNCHANGED <<flash, blank, pointer, dfuse_address, bFirstAddressSaved>>
  BY <1>1 DEF callVars, posVars, imageVars, memVars
<1>4. Site' = Site  BY <1>1, <1>2 DEF Site
<1>5. Fresh' = Fresh
  BY <1>1, <1>2, <1>3, PlaceKept DEF Fresh, Coming
<1>6. Pages'  BY <1>3, <1>4, <1>5, PagesKept DEF Progress
<1>7. Stored'
  <2>1. Written' = Written  BY <1>3, <1>4, WrittenKept
  <2>2. ~Burnt /\ ~Burnt'  BY <1>1, <1>2 DEF Burnt
  <2>3. QED  BY <1>3, <2>1, <2>2, StoredKept DEF Progress
<1>8. Ordered'
  <2>1. Harmless(CommandRequest)  BY <1>1 DEF Progress, Ordered
  <2>2. CommandRequest' = CommandRequest  BY <1>1 DEF CommandRequest
  <2>3. QED  BY <1>3, <2>1, <2>2, HarmlessKept DEF Ordered
<1>9. Carried'
  <2>1. dev'.work = TRUE  BY <1>2, DeviceFields DEF Types, Unit
  <2>2. QED  BY <2>1 DEF Carried
<1>10. Aimed'  BY <1>2 DEF Aimed
<1>11. FirstKept'  BY <1>3, FirstKeptStays DEF Progress
<1>12. QED  BY <1>6, <1>7, <1>8, <1>9, <1>10, <1>11 DEF Progress

(* A command that is done has done what it was begun for.                  *)
LEMMA CommandStatusProgress ==
  ASSUME Types, Protocol, Progress, CommandStatus, wanted' = wanted, Alive'
  PROVE  Progress'
<1>1. /\ pc = "status" /\ UNCHANGED <<callVars, posVars, erase_address, last_erased_page, cmd, memVars>>
  BY DEF CommandStatus
<1>2. /\ pc' \in {"failed", "status", cmd.then}
      /\ pc' \notin {"failed", "status", "unprotected"} => pc' = cmd.then /\ dev.ok /\ ~dev.work
  BY CommandStatusProtocol
<1>3. /\ UNCHANGED <<job, transferSize, target, element, p, erase_address, last_erased_page>>
      /\ UNCHANGED <<flash, blank, pointer, dfuse_address, bFirstAddressSaved>>
  BY <1>1 DEF callVars, posVars, imageVars, memVars
<1>4. \/ cmd.command = "ErasePage" /\ cmd.then \in {"erase", "address"}
      \/ cmd.command = "SetAddress" /\ cmd.then = "write" /\ cmd.address = address
      \/ cmd.command = "SetAddress" /\ cmd.then = "leave" /\ cmd.address = dfuse_address
      \/ cmd.command = "MassErase" /\ cmd.then = "file"
      \/ cmd.command = "ReadUnprotect" /\ cmd.then = "unprotected"
  BY <1>1 DEF Protocol, Goal
<1>5. pc' \notin {"failed", "unprotected"}  BY DEF Alive
<1>6. Site' = Site
  <2>1. CASE pc' = "status"  BY <1>1, <2>1 DEF Site
  <2>2. CASE pc' = cmd.then  BY <1>1, <1>4, <2>2 DEF Site
  <2>3. QED  BY <1>2, <1>5, <2>1, <2>2
<1>7. pc' # "status" => /\ cmd.command = "SetAddress" => pointer = cmd.address
                        /\ Fresh \subseteq blank
  <2>1. SUFFICES ASSUME pc' # "status"
                 PROVE  (cmd.command = "SetAddress" => pointer = cmd.address) /\ Fresh \subseteq blank
    OBVIOUS
  <2>2. dev.ok /\ ~dev.work  BY <1>2, <1>5, <2>1
  <2>3. Carried  BY DEF Progress
  <2>4. Coming \subseteq blank  BY <1>1, <2>2, <2>3 DEF Carried, Coming
  <2>5. QED  BY <1>1, <2>2, <2>3, <2>4 DEF Carried, Fresh
<1>8. Fresh \subseteq Fresh'
  <2>1. CASE pc' = "status"
    <3>1. Fresh' = Fresh  BY <1>1, <1>3, <2>1, PlaceKept DEF Fresh, Coming
    <3>2. QED  BY <3>1
  <2>2. CASE pc' # "status"
    <3>1. blank' \subseteq Fresh'  BY DEF Fresh
    <3>2. QED  BY <1>3, <1>7, <2>2, <3>1
  <2>3. QED  BY <2>1, <2>2
<1>9. Pages'  BY <1>3, <1>6, <1>8, PagesKept DEF Progress
<1>10. pc' # "poll"  BY <1>2, <1>4, <1>5
<1>11. Stored'
  <2>1. Written' = Written  BY <1>3, <1>6, WrittenKept
  <2>2. ~Burnt /\ ~Burnt'  BY <1>1, <1>10 DEF Burnt
  <2>3. QED  BY <1>3, <2>1, <2>2, StoredKept DEF Progress
<1>12. Ordered'
  <2>1. Harmless(CommandRequest)  BY <1>1 DEF Progress, Ordered
  <2>2. CommandRequest' = CommandRequest  BY <1>1 DEF CommandRequest
  <2>3. QED  BY <1>3, <2>1, <2>2, HarmlessKept DEF Ordered
<1>13. Carried'
  <2>1. SUFFICES ASSUME pc' = "status", dev'.ok, ~dev'.work  PROVE Carried'  BY DEF Carried
  <2>2. PICK r \in getStatus(dev) : dev' = r.dev  BY DEF CommandStatus
  <2>3. dev'.ok = dev.ok /\ dev'.work = dev.work
    BY <2>2, StatusSane DEF Types, Unit, Protocol
  <2>4. /\ cmd.command = "SetAddress" => pointer = cmd.address
        /\ cmd.command = "ErasePage" => Page(cmd.address) \subseteq blank
        /\ cmd.command = "MassErase" => AllAddresses \subseteq blank
    BY <1>1, <2>1, <2>3 DEF Progress, Carried
  <2>5. QED  BY <1>1, <1>3, <2>4, PlaceKept DEF Carried, Page
<1>14. Aimed'
  <2>1. address' = address  BY <1>3, PlaceKept
  <2>2. CASE pc' = "status"  BY <2>2 DEF Aimed
  <2>3. CASE pc' # "status"
    <3>1. pc' = cmd.then  BY <1>2, <1>5, <2>3
    <3>2. QED  BY <1>3, <1>4, <1>7, <2>1, <2>3, <3>1 DEF Aimed
  <2>4. QED  BY <2>2, <2>3
<1>15. FirstKept'  BY <1>3, FirstKeptStays DEF Progress
<1>16. QED  BY <1>9, <1>11, <1>12, <1>13, <1>14, <1>15 DEF Progress

(* Steps of dnload_dfuseFile from one part of the file to the next: what   *)
(* is full does not change, however the place is put.                      *)
LEMMA FileStepProgress ==
  ASSUME Progress, UNCHANGED <<job, last_erased_page, cmd, memVars>>,
         pc \in {"file", "image", "element", "chunk"},
         pc' \in {"image", "element", "chunk", "abort"},
         Written' = Written, FirstKept'
  PROVE  Progress'
<1>1. /\ Site = pc /\ Site' = pc' /\ UNCHANGED <<flash, blank>>  BY DEF Site, memVars
<1>2. Stored'
  <2>1. ~Burnt /\ ~Burnt'  BY DEF Burnt
  <2>2. QED  BY <1>1, <2>1, StoredKept DEF Progress
<1>3. Ordered' /\ Carried' /\ Aimed'  BY DEF Ordered, Carried, Aimed
<1>4. Pages'
  <2>1. Fresh \subseteq Fresh'  BY <1>1 DEF Fresh, Coming
  <2>2. Site \notin ChunkSites \cup {"start", "unprotected"} /\ Site' \notin ChunkSites
    BY <1>1 DEF ChunkSites
  <2>3. QED  BY <1>1, <2>1, <2>2, PagesMoved DEF Progress
<1>5. QED  BY <1>2, <1>3, <1>4 DEF Progress

(* The prefix of the file changes nothing.                                 *)
LEMMA OpenFileProgress ==
  ASSUME Progress, OpenFile, wanted' = wanted, Alive'
  PROVE  Progress'
<1>1. /\ pc = "file" /\ pc' \in {"image", "failed"}
      /\ UNCHANGED <<job, transferSize, target, element, p, last_erased_page, cmd, memVars,
                     dfuse_address, bFirstAddressSaved>>
  BY DEF OpenFile, callVars
<1>2. pc' = "image"  BY <1>1 DEF Alive
<1>3. Site \notin ElementSites /\ Site' \notin ElementSites  BY <1>1, <1>2 DEF Site, ElementSites
<1>4. Written' = Written  BY <1>1, <1>3, WrittenKept
<1>5. FirstKept'  BY <1>1, FirstKeptStays DEF Progress
<1>6. QED  BY <1>1, <1>2, <1>4, <1>5, FileStepProgress

(* Neither does the end of an image.                                       *)
LEMMA EndOfImageProgress ==
  ASSUME Progress, EndOfImage, wanted' = wanted
  PROVE  Progress'
<1>1. /\ pc = "element" /\ pc' = "image"
      /\ UNCHANGED <<job, transferSize, target, element, p, last_erased_page, cmd, memVars,
                     dfuse_address, bFirstAddressSaved>>
  BY DEF EndOfImage, callVars
<1>2. Site \notin ElementSites /\ Site' \notin ElementSites  BY <1>1 DEF Site, ElementSites
<1>3. Written' = Written  BY <1>1, <1>2, WrittenKept
<1>4. FirstKept'  BY <1>1, FirstKeptStays DEF Progress
<1>5. QED  BY <1>1, <1>3, <1>4, FileStepProgress

(* When an image is begun, all elements of the one before have been read.  *)
LEMMA NextImageProgress ==
  ASSUME Types, Counting, Progress, NextImage, wanted' = wanted, Alive'
  PROVE  Progress'
<1>1. /\ pc = "image" /\ pc' \in {"abort", "element", "failed"}
      /\ UNCHANGED <<job, transferSize, p, last_erased_page, cmd, memVars,
                     dfuse_address, bFirstAddressSaved>>
      /\ pc' = "abort" => UNCHANGED <<target, element>>
      /\ pc' = "element" => target' = target + 1 /\ element' = 0 /\ target < Len(images)
  BY DEF NextImage
<1>2. pc' # "failed"  BY DEF Alive
<1>3. Site = "image" /\ Site' = pc' /\ Site \notin ElementSites /\ Site' \notin ElementSites
  BY <1>1, <1>2 DEF Site, ElementSites
<1>4. CASE pc' = "abort"
  <2>1. Written' = Written  BY <1>1, <1>3, <1>4, WrittenKept
  <2>2. FirstKept'  BY <1>1, <1>4, FirstKeptStays DEF Progress
  <2>3. QED  BY <1>1, <1>4, <2>1, <2>2, FileStepProgress
<1>5. CASE pc' = "element"
  <2>1. /\ Call /\ target \in Nat /\ element \in Nat /\ images \in Seq(Images)
        /\ target # 0 => target \in 1 .. Len(images) /\ element = Len(images[target].elements)
    <3>1. Call /\ target \in 0 .. Len(images) /\ images \in Seq(Images)
      BY JobTypes DEF Types, Place, Call
    <3>2. element \in 0 .. (IF target = 0 THEN 0 ELSE Len(images[target].elements))
      BY DEF Types, Place
    <3>3. target \in Nat /\ (target # 0 => target \in 1 .. Len(images))  BY <3>1
    <3>4. target # 0 => images[target] \in Images  BY <3>1, <3>3
    <3>5. target # 0 => Len(images[target].elements) \in Nat  BY <3>4 DEF Images
    <3>6. element \in Nat  BY <3>2, <3>5
    <3>7. target # 0 => element = Len(images[target].elements)  BY <1>3 DEF Counting
    <3>8. QED  BY <3>1, <3>3, <3>6, <3>7
  <2>2. Here' = <<target + 1, 0>>  BY <1>1, <1>5 DEF Here
  <2>3. /\ images' = images /\ Claims' = Claims
        /\ \A c : ClaimedBy(c)' = ClaimedBy(c)
    BY <1>1 DEF images, Claims, ClaimedBy
  <2>4. \A c \in Claims : Earlier(c, Here) \/ c = Here <=> Earlier(c, Here') \/ c = Here'
    <3>1. SUFFICES ASSUME NEW c \in Claims
                   PROVE  Earlier(c, Here) \/ c = Here <=> Earlier(c, Here') \/ c = Here'
      OBVIOUS
    <3>2. /\ c = <<c[1], c[2]>> /\ c[1] \in Nat /\ c[1] > 0 /\ c[2] \in Nat /\ c[2] > 0
          /\ c[2] <= Len(images[c[1]].elements)
      <4>1. c = <<c[1], c[2]>> /\ c[1] \in 1 .. Len(images) /\ c[1] \in Nat
            /\ c[2] \in 1 .. Len(images[c[1]].elements) /\ c[2] \in Nat
        BY <2>1, ClaimTypes
      <4>2. images[c[1]] \in Images  BY <2>1, <4>1
      <4>3. Len(images[c[1]].elements) \in Nat  BY <4>2 DEF Images
      <4>4. QED  BY <4>1, <4>3
    <3>3. c = Here <=> c[1] = target /\ c[2] = element  BY <3>2 DEF Here
    <3>4. c # Here'  BY <2>2, <3>2
    <3>5. Earlier(c, Here) <=> c[1] < target \/ (c[1] = target /\ c[2] < element)
      BY DEF Earlier, Here
    <3>6. Earlier(c, Here') <=> c[1] < target + 1 \/ (c[1] = target + 1 /\ c[2] < 0)
      BY <2>2 DEF Earlier
    <3>7. c[1] = target => c[2] <= element
      <4>1. c[1] = target => target # 0  BY <3>2
      <4>2. QED  BY <2>1, <3>2, <4>1
    <3>8. QED  BY <2>1, <3>2, <3>3, <3>4, <3>5, <3>6, <3>7
  <2>5. Written' = Written
    <3>1. Written = {a \in DOMAIN wanted : \E c \in Claims :
                       a \in ClaimedBy(c) /\ (Earlier(c, Here) \/ c = Here)}
      BY <1>3 DEF Written
    <3>2. Written' = {a \in DOMAIN wanted' : \E c \in Claims' :
                        a \in ClaimedBy(c)' /\ (Earlier(c, Here') \/ c = Here')}
      BY <1>3 DEF Written, Earlier
    <3>3. QED  BY <2>3, <2>4, <3>1, <3>2
  <2>6. FirstKept'
    <3>1. images' = images /\ target' = target + 1 /\ element' = 0 /\ dfuse_address' = dfuse_address
          /\ bFirstAddressSaved' = bFirstAddressSaved
      BY <1>1, <1>5, <2>3
    <3>2. CASE bFirstAddressSaved
      <4>1. PICK i \in 1 .. target : /\ images[i].elements # << >>
                                     /\ dfuse_address = images[i].elements[1].address
                                     /\ \A k \in 1 .. i - 1 : images[k].elements = << >>
        BY <3>2 DEF Progress, FirstKept
      <4>2. i \in 1 .. target'  BY <2>1, <3>1
      <4>3. QED  BY <3>1, <3>2, <4>1, <4>2 DEF FirstKept
    <3>3. CASE ~bFirstAddressSaved
      <4>1. /\ dfuse_address = 0 /\ (target # 0 => element = 0)
            /\ \A i \in 1 .. target : i < target => images[i].elements = << >>
        BY <3>3 DEF Progress, FirstKept
      <4>2. target # 0 => images[target].elements = << >>
        <5>1. SUFFICES ASSUME target # 0  PROVE images[target].elements = << >>  OBVIOUS
        <5>2. images[target] \in Images  BY <2>1, <5>1
        <5>3. images[target].elements \in Seq(Elements)  BY <5>2 DEF Images
        <5>4. Len(images[target].elements) = 0  BY <2>1, <4>1, <5>1
        <5>5. QED  BY <5>3, <5>4
      <4>3. \A i \in 1 .. target' : i < target' => images[i].elements = << >>
        <5>1. SUFFICES ASSUME NEW i \in 1 .. target', i < target'  PROVE images[i].elements = << >>
          OBVIOUS
        <5>2. i \in 1 .. target /\ (i < target \/ i = target)  BY <2>1, <3>1, <5>1
        <5>3. QED  BY <4>1, <4>2, <5>2
      <4>4. QED  BY <3>1, <3>3, <4>1, <4>3 DEF FirstKept
    <3>4. bFirstAddressSaved \in BOOLEAN  BY DEF Types, Place
    <3>5. QED  BY <3>2, <3>3, <3>4
  <2>7. QED  BY <1>1, <1>5, <2>5, <2>6, FileStepProgress
<1>6. QED  BY <1>1, <1>2, <1>4, <1>5

(* The next element is either skipped, as no claim is made for it, or      *)
(* begun with nothing of it written.                                       *)
LEMMA NextElementWritten ==
  ASSUME Types, Types', Regular, Counting, Counting', NextElement, wanted' = wanted,
         pc' \in {"element", "chunk"}
  PROVE  Written' = Written
<1>1. /\ Call /\ pc = "element" /\ UNCHANGED <<callVars, target>>
      /\ element' = element + 1 /\ p' = 0 /\ Site' = pc'
      /\ target \in 1 .. Len(images) /\ element' \in 1 .. Len(images[target].elements)
      /\ pc' = ReadElement(images[target].elements[element'])
  BY NextElementTypes DEF NextElement, Types
<1>2. /\ job' = job /\ images' = images /\ Claims' = Claims
      /\ \A c : ClaimedBy(c)' = ClaimedBy(c) /\ ElementOf(c)' = ElementOf(c)
  BY <1>1 DEF images, Claims, ClaimedBy, ElementOf, callVars
<1>3. target \in Nat /\ element \in Nat
  <2>1. target \in 0 .. Len(images) /\ Len(images[target].elements) \in Nat
    <3>1. images \in Seq(Images)  BY JobTypes DEF Types, Call
    <3>2. images[target] \in Images  BY <1>1, <3>1
    <3>3. images[target].elements \in Seq(Elements)  BY <3>2 DEF Images
    <3>4. Len(images[target].elements) \in Nat  BY <3>3
    <3>5. target \in 0 .. Len(images)  BY DEF Types, Place
    <3>6. QED  BY <3>4, <3>5
  <2>2. target \in Nat /\ target # 0  BY <1>1, <2>1
  <2>3. QED  BY <2>1, <2>2 DEF Types, Place
<1>4. \A c \in Claims : Earlier(c, Here') <=> Earlier(c, Here) \/ c = Here
  <2>1. SUFFICES ASSUME NEW c \in Claims
                 PROVE  Earlier(c, Here') <=> Earlier(c, Here) \/ c = Here
    OBVIOUS
  <2>2. c = <<c[1], c[2]>> /\ c[1] \in Nat /\ c[2] \in Nat  BY <1>1, ClaimTypes
  <2>3. c = Here <=> c[1] = target /\ c[2] = element  BY <2>2 DEF Here
  <2>4. Earlier(c, Here) <=> c[1] < target \/ (c[1] = target /\ c[2] < element)
    BY DEF Earlier, Here
  <2>5. Earlier(c, Here') <=> c[1] < target \/ (c[1] = target /\ c[2] < element + 1)
    BY <1>1 DEF Earlier, Here
  <2>6. QED  BY <1>3, <2>2, <2>3, <2>4, <2>5
<1>5. \A a : \A c \in Claims :
        a \in ClaimedBy(c) => ~(c = Here' /\ (Site' \in ElementSites => a < address'))
  <2>1. SUFFICES ASSUME NEW a, NEW c \in Claims, a \in ClaimedBy(c), c = Here',
                        Site' \in ElementSites => a < address'
                 PROVE  FALSE
    OBVIOUS
  <2>2. c[1] = target /\ c[2] = element'  BY <1>1, <2>1 DEF Here
  <2>3. /\ images[target].alternateSetting = job.altsetting
        /\ ElementOf(c) = images[target].elements[element']
        /\ ClaimedBy(c) = ElementOf(c).address .. ElementOf(c).address + ElementOf(c).size - 1
        /\ ElementOf(c).address \in Nat /\ ElementOf(c).size \in Nat
    BY <1>1, <2>2, ClaimTypes DEF ElementOf
  <2>4. pc' = "chunk"  BY <1>1, <2>3 DEF ReadElement
  <2>5. a < address'  BY <1>1, <2>1, <2>4 DEF ElementSites
  <2>6. address' = ElementOf(c).address
    <3>1. address' = images'[target'].elements[element'].address + p'  BY DEF address, Current
    <3>2. address' = ElementOf(c).address + 0  BY <1>1, <1>2, <2>3, <3>1 DEF callVars
    <3>3. QED  BY <2>3, <3>2
  <2>7. QED  BY <2>1, <2>3, <2>5, <2>6
<1>6. Site \notin ElementSites  BY <1>1 DEF Site, ElementSites
<1>7. Written = {a \in DOMAIN wanted : \E c \in Claims :
                   a \in ClaimedBy(c) /\ (Earlier(c, Here) \/ c = Here)}
  BY <1>6 DEF Written
<1>8. Written' = {a \in DOMAIN wanted' : \E c \in Claims' :
                    a \in ClaimedBy(c)' /\ (Earlier(c, Here')
                       \/ (c = Here' /\ (Site' \in ElementSites => a < address')))}
  BY DEF Written, Earlier
<1>9. Written' = {a \in DOMAIN wanted : \E c \in Claims : a \in ClaimedBy(c) /\ Earlier(c, Here')}
  BY <1>2, <1>5, <1>8
<1>10. QED  BY <1>4, <1>7, <1>9

(* The next element, skipped or begun.                                     *)
LEMMA NextElementProgress ==
  ASSUME Types, Types', Regular, Counting, Counting', Progress, NextElement, wanted' = wanted, Alive'
  PROVE  Progress'
<1> DEFINE e == images[target].elements[element']
<1>1. /\ pc = "element" /\ pc' \in {"element", "chunk"}
      /\ UNCHANGED <<job, target, last_erased_page, cmd, memVars>> /\ element' = element + 1
      /\ target \in 1 .. Len(images) /\ element' \in 1 .. Len(images[target].elements)
      /\ pc' = ReadElement(e)
  <2>1. pc' # "failed"  BY DEF Alive
  <2>2. QED  BY <2>1, NextElementTypes DEF NextElement, callVars
<1>2. Written' = Written  BY <1>1, NextElementWritten
<1>3. Enough(ElementHeaderSize)
  <2>1. Enough(ElementHeaderSize + e.size)  BY <1>1 DEF ReadElement
  <2>2. e.size \in Nat  BY <1>1, ElementTypes DEF Types
  <2>3. pos \in Nat /\ job.file.length \in Nat  BY JobTypes DEF Types, Place, Call
  <2> HIDE DEF e
  <2>4. QED  BY <2>1, <2>2, <2>3 DEF Enough, enoughBytes, ElementHeaderSize
<1>4. dfuse_address' = LeaveAddress(e) /\ bFirstAddressSaved' = TRUE
  BY <1>3 DEF NextElement
<1>5. FirstKept'
  <2>1. images' = images /\ target' = target  BY <1>1 DEF images
  <2>2. CASE bFirstAddressSaved = TRUE
    <3>1. dfuse_address' = dfuse_address  BY <1>4, <2>2 DEF LeaveAddress
    <3>2. PICK i \in 1 .. target : /\ images[i].elements # << >>
                                   /\ dfuse_address = images[i].elements[1].address
                                   /\ \A k \in 1 .. i - 1 : images[k].elements = << >>
      BY <2>2 DEF Progress, FirstKept
    <3>3. QED  BY <1>4, <2>1, <3>1, <3>2 DEF FirstKept
  <2>3. CASE bFirstAddressSaved = FALSE
    <3>1. dfuse_address' = e.address  BY <1>4, <2>3 DEF LeaveAddress
    <3>2. images \in Seq(Images) /\ target \in Nat /\ target # 0
      BY <1>1, JobTypes DEF Types, Call
    <3>3. /\ element = 0
          /\ \A i \in 1 .. target : i < target => images[i].elements = << >>
      BY <2>3, <3>2 DEF Progress, FirstKept
    <3>4. e = images[target].elements[1]  BY <1>1, <3>3
    <3>5. images[target].elements # << >>
      <4>1. images[target].elements \in Seq(Elements)
        BY <1>1, ElementTypes DEF Types
      <4>2. Len(images[target].elements) \in Nat /\ Len(images[target].elements) # 0
        BY <1>1, <4>1
      <4>3. QED  BY <4>2
    <3>6. \A k \in 1 .. target - 1 : images[k].elements = << >>  BY <3>2, <3>3
    <3>7. target \in 1 .. target  BY <3>2
    <3>8. QED  BY <1>4, <2>1, <3>1, <3>4, <3>5, <3>6, <3>7 DEF FirstKept
  <2>4. bFirstAddressSaved \in BOOLEAN  BY DEF Types, Place
  <2>5. QED  BY <2>2, <2>3, <2>4
<1>6. QED  BY <1>1, <1>2, <1>5, FileStepProgress

(* A chunk that passes the check of its addresses can be written.          *)
LEMMA InAllAddresses ==
  ASSUME Call, NEW a \in Nat, Writeable(a)
  PROVE  a \in AllAddresses
<1>1. SegmentsAt(job.memory, a) # {} /\ job.memory \in Seq(MemSegments)
  BY JobTypes DEF Writeable, isAddressWriteable, Call
<1>2. PICK i \in SegmentsAt(job.memory, a) : TRUE  BY <1>1
<1>3. i \in DOMAIN job.memory /\ job.memory[i].firstAddr <= a /\ a <= job.memory[i].lastAddr
  BY DEF SegmentsAt
<1>4. job.memory[i] \in MemSegments  BY <1>1, <1>3
<1>5. {job.memory[i].firstAddr, job.memory[i].lastAddr} \subseteq Nat  BY <1>4, SegmentFields
<1>6. a \in job.memory[i].firstAddr .. job.memory[i].lastAddr  BY <1>3, <1>5
<1>7. QED  BY <1>3, <1>6 DEF AllAddresses

(* A chunk of which all addresses can be written, and the first need not   *)
(* or cannot be erased: it is erased as a whole, or holds nothing that can *)
(* be erased.                                                              *)
LEMMA PlainChunk ==
  ASSUME Types, Regular, Counting, Site \in ElementSites, p < Current.size, ~Eraseable(address),
         \A a \in Chunk : Writeable(a), NEW x \in Chunk
  PROVE  ~Eraseable(x)
<1>1. /\ address \in Nat /\ \A a : a \in Chunk <=> a \in Nat /\ address <= a /\ a < End
      /\ End \in Nat
  BY ChunkAhead
<1>2. job.memory \in Seq(MemSegments) /\ RegularMap(job.memory)
  BY JobTypes DEF Types, Call, Regular
<1>3. x \in Nat /\ address <= x /\ x < End  BY <1>1
<1>4. \A y \in Nat : address <= y /\ y <= x => SegmentsAt(job.memory, y) # {}
  <2>1. SUFFICES ASSUME NEW y \in Nat, address <= y, y <= x  PROVE SegmentsAt(job.memory, y) # {}
    OBVIOUS
  <2>2. y \in Chunk  BY <1>1, <1>3, <2>1
  <2>3. QED  BY <2>2 DEF Writeable, isAddressWriteable
<1>5. QED  BY <1>1, <1>2, <1>3, <1>4, StaysPlain DEF Eraseable

(* NextChunk, when the next thing to do is to set the address.             *)
LEMMA NothingToErase ==
  ASSUME Types, Regular, Counting, Site \in ElementSites, p < Current.size, Stored, ~Burnt, Cleared,
         job.massErase \/ ~Eraseable(address), \A a \in Chunk : Writeable(a), NEW x \in Chunk,
         Eraseable(x)
  PROVE  x \in Fresh
<1>1. job.massErase  BY PlainChunk
<1>2. x \in Nat  BY ChunkAhead
<1>3. x \in AllAddresses  BY <1>2, InAllAddresses DEF Types
<1>4. x \in Fresh \cup DOMAIN flash
  BY <1>1, <1>3 DEF Cleared, ElementSites
<1>5. x \notin DOMAIN flash  BY FullBelow
<1>6. QED  BY <1>4, <1>5

(* The next chunk, whose pages are erased or need not be.                  *)
LEMMA NextChunkProgress ==
  ASSUME Types, Types', Regular, Counting, Counting', Progress, NextChunk, wanted' = wanted,
         Regular', Alive'
  PROVE  Progress'
<1>1. /\ pc = "chunk" /\ pc' \in {"element", "erase", "address"} /\ Site = "chunk" /\ Site' = pc'
      /\ UNCHANGED <<job, transferSize, target, element, p, last_erased_page, cmd, memVars,
                     dfuse_address, bFirstAddressSaved>>
      /\ pc' = "element" => p >= Current.size
      /\ pc' # "element" => ~(p >= Current.size)
      /\ pc' = "erase" => /\ isAddressEraseable(layout, address) /\ ~job.massErase
                          /\ erase_address' = address
      /\ pc' = "address" => job.massErase \/ ~isAddressEraseable(layout, address)
  <2>1. pc' # "failed"  BY DEF Alive
  <2>2. QED  BY <2>1 DEF NextChunk, Site, callVars, imageVars, ElementDone
<1>2. /\ address' = address /\ Current' = Current /\ Chunk' = Chunk /\ Here' = Here /\ Claims' = Claims
      /\ \A c : ClaimedBy(c)' = ClaimedBy(c)
      /\ \A a : Eraseable(a)' = Eraseable(a) /\ Writeable(a)' = Writeable(a)
  BY <1>1, PlaceKept
<1>3. FirstKept'  BY <1>1, FirstKeptStays DEF Progress
<1>4. CASE pc' = "element"
  <2>1. Written' = Written
    <3>1. \A a \in ClaimedBy(Here) : a < address
      <4>1. /\ Here \in Claims /\ ElementOf(Here) = Current /\ address = Current.address + p
            /\ Current.address \in Nat /\ Current.size \in Nat /\ p \in Nat
        BY <1>1, HereClaims DEF ElementSites
      <4>2. ClaimedBy(Here) = Current.address .. Current.address + Current.size - 1
        BY <4>1, ClaimTypes DEF Types
      <4>3. p >= Current.size  BY <1>1, <1>4
      <4>4. QED  BY <4>1, <4>2, <4>3
    <3>2. Site' \notin ElementSites /\ Site \in ElementSites  BY <1>1, <1>4 DEF ElementSites
    <3>3. Written = {a \in DOMAIN wanted : \E c \in Claims :
                       a \in ClaimedBy(c) /\ (Earlier(c, Here) \/ (c = Here /\ a < address))}
      BY <3>2 DEF Written
    <3>4. Written' = {a \in DOMAIN wanted' : \E c \in Claims' :
                        a \in ClaimedBy(c)' /\ (Earlier(c, Here') \/ c = Here')}
      BY <3>2 DEF Written, Earlier
    <3>5. QED  BY <1>2, <3>1, <3>3, <3>4
  <2>2. QED  BY <1>1, <1>3, <1>4, <2>1, FileStepProgress
<1>5. CASE pc' # "element"
  <2>1. /\ pc' \in {"erase", "address"} /\ Fresh' = Fresh /\ flash' = flash
        /\ Site' \in ChunkSites /\ Site' \in ElementSites /\ Site \in ElementSites
    BY <1>1, <1>5 DEF Fresh, Coming, memVars, ChunkSites, ElementSites
  <2>2. Written' = Written  BY <1>1, <2>1, WrittenKept
  <2>3. Stored'
    <3>1. ~Burnt /\ ~Burnt'  BY <1>1, <2>1 DEF Burnt
    <3>2. QED  BY <2>1, <2>2, <3>1, StoredKept DEF Progress
  <2>4. Ordered' /\ Carried' /\ Aimed'  BY <2>1 DEF Ordered, Carried, Aimed
  <2>5. Cleared' /\ Remembered' /\ LastReached'
    <3>1. Site \notin ChunkSites \cup {"start", "unprotected"}  BY <1>1 DEF ChunkSites
    <3>2. QED  BY <1>1, <2>1, <3>1, MemoryKept DEF Progress
  <2>6. layout = job.memory  BY <1>1 DEF Counting, EndedSites
  <2>7. Loop'
    <3>1. SUFFICES ASSUME pc' = "erase"  PROVE Loop'  BY <1>1 DEF Loop
    <3>2. Eraseable(address)' /\ ~job'.massErase /\ address' <= erase_address'
      <4>1. address \in Nat  BY <2>1, HereClaims
      <4>2. Eraseable(address) /\ address' = address /\ erase_address' = address
        BY <1>1, <1>2, <2>6, <3>1 DEF Eraseable
      <4>3. Eraseable(address)'  BY <1>1, <1>2, <4>2 DEF Eraseable
      <4>4. QED  BY <1>1, <3>1, <4>1, <4>2, <4>3
    <3>3. \A x \in Chunk' : ~(x < erase_address')
      <4>1. \A x \in Chunk' : x \in Nat /\ address' <= x
        <5>1. p < Current.size  BY <1>1, <1>5, <2>1, HereClaims
        <5>2. QED  BY <1>2, <2>1, <5>1, ChunkAhead
      <4>2. erase_address' = address' /\ address' \in Nat  BY <1>1, <1>2, <3>1, <2>1, HereClaims
      <4>3. QED  BY <4>1, <4>2
    <3>4. QED  BY <3>2, <3>3 DEF Loop
  <2>8. TailErased'
    <3>1. SUFFICES ASSUME pc' = "address", ~job'.massErase, Eraseable(address)'  PROVE FALSE
      BY <1>1, <2>1 DEF TailErased
    <3>2. Eraseable(address)  BY <1>1, <1>2, <3>1 DEF Eraseable
    <3>3. QED  BY <1>1, <2>6, <3>1, <3>2 DEF Eraseable
  <2>9. Covered'
    <3>1. SUFFICES ASSUME pc' = "address", \A a \in Chunk : Writeable(a), NEW x \in Chunk, Eraseable(x)
                   PROVE  x \in Fresh
      BY <1>1, <1>2, <2>1 DEF Covered
    <3>2. p < Current.size  BY <1>1, <1>5, <2>1, HereClaims
    <3>3. Stored /\ Cleared /\ ~Burnt  BY <1>1 DEF Progress, Pages, Burnt
    <3>4. job.massErase \/ ~Eraseable(address)  BY <1>1, <2>6, <3>1 DEF Eraseable
    <3>5. QED  BY <2>1, <3>1, <3>2, <3>3, <3>4, NothingToErase
  <2>10. QED  BY <1>3, <2>3, <2>4, <2>5, <2>7, <2>8, <2>9 DEF Progress, Pages
<1>6. QED  BY <1>4, <1>5

(* The address command is begun with all pages of the chunk erased.        *)
LEMMA SetAddressProgress ==
  ASSUME Types, Types', Regular, Counting, Progress, SetAddress, wanted' = wanted, Alive'
  PROVE  Progress'
<1>1. /\ pc = "address" /\ specialCommand(address, "SetAddress", "write")
      /\ UNCHANGED <<job, transferSize, target, element, p, dfuse_address, bFirstAddressSaved,
                     dev, flash, blank, pointer>>
  BY DEF SetAddress, callVars, posVars, imageVars, memVars
<1>2. /\ pc' = "command" /\ cmd' = [command |-> "SetAddress", address |-> address, then |-> "write"]
      /\ last_erased_page' = last_erased_page
  <2>1. address \in Nat  BY SetAddressTypes
  <2>2. "SetAddress" \in Commands /\ "write" \in Thens  BY DEF Commands, Thens
  <2>3. pc' # "failed"  BY DEF Alive
  <2>4. QED  BY <1>1, <2>1, <2>2, <2>3, SpecialCommand
<1>3. Site = "address" /\ Site' = "write"  BY <1>1, <1>2 DEF Site
<1>4. Fresh \subseteq Fresh'  BY <1>1 DEF Fresh, Coming
<1>5. Pages'  BY <1>1, <1>2, <1>3, <1>4, PagesCarried DEF Progress
<1>6. Stored'
  <2>1. Written' = Written  BY <1>1, <1>3, WrittenKept DEF ElementSites
  <2>2. ~Burnt /\ ~Burnt'  BY <1>1, <1>2 DEF Burnt
  <2>3. QED  BY <1>1, <2>1, <2>2, StoredKept DEF Progress
<1>7. Ordered'
  <2>1. CommandRequest'.kind = "SetAddress"  BY <1>2 DEF CommandRequest, NoRequest
  <2>2. QED  BY <2>1 DEF Ordered, Harmless
<1>8. Carried' /\ Aimed'  BY <1>2 DEF Carried, Aimed
<1>9. FirstKept'  BY <1>1, FirstKeptStays DEF Progress
<1>10. QED  BY <1>5, <1>6, <1>7, <1>8, <1>9 DEF Progress

(* The chunk is sent, to where the pointer is.                             *)
LEMMA WriteChunkProgress ==
  ASSUME Types, Regular, Counting, Progress, WriteChunk, wanted' = wanted, Alive'
  PROVE  Progress'
<1>1. /\ pc = "write" /\ Send(ChunkRequest, "poll")
      /\ UNCHANGED <<job, transferSize, target, element, p, dfuse_address, bFirstAddressSaved,
                     last_erased_page, flash, blank, pointer>>
  BY DEF WriteChunk, callVars, posVars, imageVars, memVars, ChunkRequest
<1>2. pc' = "poll" /\ dev' = TakeData(dev)
  <2>1. pc' # "failed"  BY DEF Alive
  <2>2. QED  BY <1>1, <2>1, SendStep
<1>3. Site = "write" /\ Site' = "poll"  BY <1>1, <1>2 DEF Site
<1>4. Fresh \subseteq Fresh'  BY <1>1 DEF Fresh, Coming
<1>5. Pages'  BY <1>1, <1>3, <1>4, PagesCarried DEF Progress
<1>6. Stored'
  <2>1. Written' = Written  BY <1>1, <1>3, WrittenKept DEF ElementSites
  <2>2. dev'.work = TRUE  BY <1>2, DeviceFields DEF Types, Unit
  <2>3. ~Burnt /\ ~Burnt'  BY <1>1, <2>2 DEF Burnt
  <2>4. QED  BY <1>1, <2>1, <2>3, StoredKept DEF Progress
<1>7. Ordered' /\ Carried'  BY <1>2 DEF Ordered, Carried
<1>8. Aimed'
  <2>1. pointer = address  BY <1>1 DEF Progress, Aimed
  <2>2. address' = address  BY <1>1, PlaceKept
  <2>3. QED  BY <1>1, <1>2, <2>1, <2>2 DEF Aimed
<1>9. FirstKept'  BY <1>1, FirstKeptStays DEF Progress
<1>10. QED  BY <1>5, <1>6, <1>7, <1>8, <1>9 DEF Progress

(* A chunk that is in belongs to what is full, once the next is begun.     *)
LEMMA ChunkWritten ==
  ASSUME Types, Types', Regular, Counting, UNCHANGED <<job, transferSize, target, element>>,
         wanted' = wanted, Site = "poll", Site' = "chunk", p' = p + transferSize
  PROVE  Written' = Written \cup Chunk
<1>0. Site \in ElementSites /\ Site' \in ElementSites /\ Site \in ChunkSites
  BY DEF ElementSites, ChunkSites
<1>1. /\ Here \in Claims /\ ElementOf(Here) = Current
      /\ address \in Nat /\ Current.address \in Nat /\ Current.size \in Nat /\ p \in Nat
      /\ address = Current.address + p
  BY <1>0, HereClaims
<1>2. /\ target # 0 /\ element # 0 /\ transferSize # 0 /\ transferSize \in Nat
      /\ p < Current.size /\ Call /\ Place
  BY <1>0 DEF Types, Standing, ElementSites, Call
<1>3. /\ chunk_size \in Nat /\ chunk_size > 0 /\ p + chunk_size <= Current.size
      /\ chunk_size <= transferSize
      /\ p + transferSize < Current.size => chunk_size = transferSize
      /\ p + transferSize >= Current.size => p + chunk_size = Current.size
  BY <1>2, ChunkTypes
<1>4. /\ Claims' = Claims /\ Here' = Here /\ Current' = Current
      /\ \A c : ClaimedBy(c)' = ClaimedBy(c)
  BY DEF images, Claims, Here, Current, ClaimedBy
<1>5. address' = address + transferSize  BY <1>1, <1>2, <1>4 DEF address
<1>6. ClaimedBy(Here) = Current.address .. Current.address + Current.size - 1
  BY <1>1, <1>2, ClaimTypes
<1>7. /\ Chunk \subseteq ClaimedBy(Here) /\ Chunk \subseteq DOMAIN wanted
      /\ \A a : a \in Chunk <=> a \in Nat /\ address <= a /\ a < address + chunk_size
  BY <1>0, ChunkClaimed DEF End
<1>8. \A a \in ClaimedBy(Here) : a < address' <=> (a < address \/ a \in Chunk)
  <2>1. SUFFICES ASSUME NEW a \in ClaimedBy(Here)
                 PROVE  a < address' <=> (a < address \/ a \in Chunk)
    OBVIOUS
  <2>2. a \in Nat /\ a < Current.address + Current.size  BY <1>1, <1>6
  <2>3. CASE p + transferSize < Current.size  BY <1>1, <1>2, <1>3, <1>5, <1>7, <2>2, <2>3
  <2>4. CASE p + transferSize >= Current.size
    <3>1. Current.address + Current.size = address + chunk_size  BY <1>1, <1>2, <1>3, <2>4
    <3>2. a < address'  BY <1>1, <1>2, <1>5, <2>2, <2>4
    <3>3. a < address \/ a \in Chunk  BY <1>1, <1>3, <1>7, <2>2, <3>1
    <3>4. QED  BY <3>2, <3>3
  <2>5. QED  BY <1>1, <1>2, <2>3, <2>4
<1>9. Written = {a \in DOMAIN wanted : \E c \in Claims :
                   a \in ClaimedBy(c) /\ (Earlier(c, Here) \/ (c = Here /\ a < address))}
  BY <1>0 DEF Written
<1>10. Written' = {a \in DOMAIN wanted' : \E c \in Claims' :
                   a \in ClaimedBy(c)' /\ (Earlier(c, Here') \/ (c = Here' /\ a < address'))}
  BY <1>0 DEF Written, Earlier
<1>11. Written' = {a \in DOMAIN wanted : \E c \in Claims :
                   a \in ClaimedBy(c) /\ (Earlier(c, Here)
                      \/ (c = Here /\ (a < address \/ a \in Chunk)))}
  BY <1>4, <1>8, <1>10
<1>12. QED  BY <1>1, <1>7, <1>9, <1>11

(* The transfer of the chunk is over.                                      *)
LEMMA PollChunkProgress ==
  ASSUME Types, Types', Regular, Counting, Protocol, Progress, PollChunk, wanted' = wanted, Alive'
  PROVE  Progress'
<1>1. /\ pc = "poll" /\ pc' \in {"poll", "chunk"} /\ (pc' = "chunk" => dev.ok /\ ~dev.work)
      /\ UNCHANGED <<job, transferSize, target, element, dfuse_address, bFirstAddressSaved,
                     erase_address, last_erased_page, flash, blank, pointer>>
      /\ p' = IF pc' = "chunk" THEN p + transferSize ELSE p
  <2>1. pc' # "failed"  BY DEF Alive
  <2>2. QED  BY <2>1, PollChunkProtocol DEF PollChunk, callVars, imageVars, memVars
<1>2. Site = "poll" /\ Site' = pc'  BY <1>1 DEF Site
<1>3. Fresh \subseteq Fresh'  BY <1>1 DEF Fresh, Coming
<1>4. Ordered' /\ Carried'  BY <1>1 DEF Ordered, Carried
<1>5. FirstKept'  BY <1>1, FirstKeptStays DEF Progress
<1>6. CASE pc' = "poll"
  <2>1. UNCHANGED <<job, transferSize, target, element, p>>  BY <1>1, <1>6
  <2>2. Pages'  BY <1>1, <1>2, <1>3, <1>6, <2>1, PagesKept DEF Progress
  <2>3. Stored'
    <3>1. Written' = Written  BY <1>2, <1>6, <2>1, WrittenKept
    <3>2. PICK r \in getStatus(dev) : dev' = r.dev  BY DEF PollChunk
    <3>3. dev'.ok = dev.ok /\ dev'.work = dev.work
      BY <3>2, StatusSane DEF Types, Unit, Protocol
    <3>4. Burnt' <=> Burnt  BY <1>1, <1>6, <3>3 DEF Burnt
    <3>5. Chunk' = Chunk  BY <2>1, PlaceKept
    <3> DEFINE B == Burnt
    <3>6. DOMAIN flash = Written \cup (IF B THEN Chunk ELSE {})  BY DEF Progress, Stored
    <3>7. DOMAIN flash' = Written' \cup (IF B' THEN Chunk' ELSE {})
      <4>1. B' <=> B  BY <3>4
      <4> HIDE DEF B
      <4>2. CASE B  BY <1>1, <3>1, <3>5, <3>6, <4>1, <4>2
      <4>3. CASE ~B  BY <1>1, <3>1, <3>5, <3>6, <4>1, <4>3
      <4>4. QED  BY <4>2, <4>3
    <3>8. QED  BY <3>7 DEF Stored
  <2>4. Aimed'
    <3>1. address' = address /\ pointer = address  BY <1>1, <2>1, PlaceKept DEF Progress, Aimed
    <3>2. QED  BY <1>1, <1>6, <3>1 DEF Aimed
  <2>5. QED  BY <1>4, <1>5, <2>2, <2>3, <2>4 DEF Progress
<1>7. CASE pc' = "chunk"
  <2>1. Burnt  BY <1>1, <1>7 DEF Burnt
  <2>2. DOMAIN flash = Written \cup Chunk  BY <2>1 DEF Progress, Stored
  <2>3. Stored'
    <3>1. Written' = Written \cup Chunk  BY <1>1, <1>2, <1>7, ChunkWritten
    <3>2. ~Burnt'  BY <1>7 DEF Burnt
    <3>3. QED  BY <1>1, <2>2, <3>1, <3>2 DEF Stored
  <2>4. /\ AllAddresses' = AllAddresses
        /\ \A a : Page(a)' = Page(a) /\ SizeAt(a)' = SizeAt(a) /\ Eraseable(a)' = Eraseable(a)
    BY <1>1 DEF AllAddresses, Page, SizeAt, Eraseable
  <2>5. Pages'
    <3>1. Cleared'  BY <1>1, <1>2, <1>3, <2>4 DEF Progress, Pages, Cleared
    <3>2. Loop' /\ Covered' /\ TailErased'  BY <1>2, <1>7 DEF Loop, Covered, TailErased
    <3>3. Remembered'
      <4>1. SUFFICES ASSUME last_erased_page # 1  PROVE Remembered'  BY <1>1 DEF Remembered
      <4>2. /\ Eraseable(last_erased_page) /\ last_erased_page % SizeAt(last_erased_page) = 0
            /\ Page(last_erased_page) \subseteq Fresh \cup DOMAIN flash
        BY <4>1 DEF Progress, Pages, Remembered
      <4>3. PICK w \in Page(last_erased_page) : w \in DOMAIN flash \/ w \in Chunk
        BY <1>2, <4>1 DEF Progress, Pages, Remembered
      <4>4. w \in DOMAIN flash  BY <2>2, <4>3
      <4>5. /\ Eraseable(last_erased_page)' /\ (last_erased_page % SizeAt(last_erased_page) = 0)'
            /\ Page(last_erased_page)' = Page(last_erased_page)
        BY <1>1, <4>2 DEF Eraseable, SizeAt, Page
      <4>6. QED  BY <1>1, <1>3, <4>2, <4>4, <4>5 DEF Remembered
    <3>4. LastReached'  BY <1>1, <2>4 DEF Progress, Pages, LastReached, SizeAt, Eraseable
    <3>5. QED  BY <3>1, <3>2, <3>3, <3>4 DEF Pages
  <2>6. Aimed'  BY <1>7 DEF Aimed
  <2>7. QED  BY <1>4, <1>5, <2>3, <2>5, <2>6 DEF Progress
<1>8. QED  BY <1>1, <1>6, <1>7

(* The end of run(): nothing is written or erased any more.                *)
LEMMA EndingProgress ==
  ASSUME Types, Progress, wanted' = wanted,
         pc \in {"abort", "aborted", "leave", "leaving"},
         pc' \in {"aborted", "leaving", "done", "command"},
         UNCHANGED <<job, transferSize, target, element, p, dfuse_address, bFirstAddressSaved,
                     last_erased_page, memVars>>,
         pc' = "leaving" => pc \in {"leave", "leaving"},
         pc' = "command" =>
           cmd' = [command |-> "SetAddress", address |-> dfuse_address, then |-> "leave"]
  PROVE  Progress'
<1>1. /\ Site = pc /\ Site' \in {"aborted", "leaving", "done", "leave"}
      /\ UNCHANGED <<flash, blank, pointer>>
  BY DEF Site, memVars
<1>2. Site \notin ElementSites /\ Site' \notin ElementSites
      /\ Site \notin ChunkSites \cup {"start", "unprotected"} /\ Site' \notin ChunkSites
  BY <1>1 DEF ElementSites, ChunkSites
<1>3. Stored'
  <2>1. Written' = Written  BY <1>2, WrittenKept
  <2>2. ~Burnt /\ ~Burnt'  BY DEF Burnt
  <2>3. QED  BY <1>1, <2>1, <2>2, StoredKept DEF Progress
<1>4. Ordered'
  <2>1. pc' = "command" => CommandRequest'.kind = "SetAddress"  BY DEF CommandRequest, NoRequest
  <2>2. QED  BY <2>1 DEF Ordered, Harmless
<1>5. Carried'  BY DEF Carried
<1>6. Aimed'  BY <1>1 DEF Progress, Aimed
<1>7. Pages'
  <2>1. Fresh \subseteq Fresh'  BY <1>1 DEF Fresh, Coming
  <2>2. QED  BY <1>1, <1>2, <2>1, PagesMoved DEF Progress
<1>8. FirstKept'  BY FirstKeptStays DEF Progress
<1>9. QED  BY <1>3, <1>4, <1>5, <1>6, <1>7, <1>8 DEF Progress

(* The request to abort.                                                   *)
LEMMA SendAbortProgress ==
  ASSUME Types, Progress, SendAbort, wanted' = wanted, Alive'
  PROVE  Progress'
<1>1. pc' # "failed"  BY DEF Alive
<1>2. QED  BY <1>1, EndingProgress DEF SendAbort, callVars, posVars, imageVars

(* The answer to it.                                                       *)
LEMMA CheckAbortedProgress ==
  ASSUME Types, Progress, CheckAborted, wanted' = wanted, Alive'
  PROVE  Progress'
<1>1. pc' # "failed"  BY DEF Alive
<1>2. /\ pc = "aborted"
      /\ UNCHANGED <<job, transferSize, target, element, p, dfuse_address, bFirstAddressSaved, memVars>>
      /\ \/ specialCommand(dfuse_address, "SetAddress", "leave")
         \/ pc' = "done" /\ UNCHANGED <<cmd, last_erased_page>>
  BY <1>1 DEF CheckAborted, Fail, callVars, posVars, imageVars
<1>3. CASE specialCommand(dfuse_address, "SetAddress", "leave")
  <2>1. dfuse_address \in Nat  BY DEF Types, Place
  <2>2. "SetAddress" \in Commands /\ "leave" \in Thens  BY DEF Commands, Thens
  <2>3. /\ pc' = "command" /\ last_erased_page' = last_erased_page
        /\ cmd' = [command |-> "SetAddress", address |-> dfuse_address, then |-> "leave"]
    BY <1>1, <1>3, <2>1, <2>2, SpecialCommand
  <2>4. QED  BY <1>2, <2>3, EndingProgress
<1>4. CASE pc' = "done" /\ UNCHANGED <<cmd, last_erased_page>>  BY <1>2, <1>4, EndingProgress
<1>5. QED  BY <1>2, <1>3, <1>4

(* The empty transfer.                                                     *)
LEMMA SendLeaveProgress ==
  ASSUME Types, Progress, SendLeave, wanted' = wanted, Alive'
  PROVE  Progress'
<1>1. pc' # "failed"  BY DEF Alive
<1>2. QED  BY <1>1, EndingProgress DEF SendLeave, callVars, posVars, imageVars

(* The status request after it.                                            *)
LEMMA PollLeaveProgress ==
  ASSUME Types, Protocol, Progress, PollLeave, wanted' = wanted, Alive'
  PROVE  Progress'
<1>1. pc' # "failed"  BY DEF Alive
<1>2. pc = "leaving" /\ pc' \in {"leaving", "done"}  BY <1>1, PollLeaveProtocol
<1>3. QED  BY <1>2, EndingProgress DEF PollLeave, callVars, posVars, imageVars

-------------------------------------------------------------------------------
(***************************************************************************)
(* The erasing of the pages of a chunk.                                    *)
(***************************************************************************)

(* In the page loop.                                                       *)
LEMMA InLoop ==
  ASSUME Types, Regular, Counting, Progress, pc = "erase"
  PROVE  /\ job.memory \in Seq(MemSegments) /\ RegularMap(job.memory) /\ layout = job.memory
         /\ Site = "erase" /\ Fresh = blank /\ ~job.massErase
         /\ address \in Nat /\ Eraseable(address) /\ SegmentsAt(job.memory, address) # {}
         /\ erase_address \in Nat /\ address <= erase_address /\ last_erased_page \in Nat
         /\ page_size = SizeAt(address) /\ page_size \in Nat \ {0} /\ page_size > 1
         /\ End \in Nat /\ address < End /\ End - 1 \in Chunk
         /\ \A a : a \in Chunk <=> a \in Nat /\ address <= a /\ a < End
         /\ \A w \in DOMAIN flash : w \in Nat /\ w < address
<1>1. Site = "erase" /\ Site \in ChunkSites /\ Site \in ElementSites
  BY DEF Site, ChunkSites, ElementSites
<1>2. /\ address \in Nat /\ End \in Nat /\ address \in Chunk /\ End - 1 \in Chunk
      /\ \A a : a \in Chunk <=> a \in Nat /\ address <= a /\ a < End
  BY <1>1, ChunkClaimed
<1>3. job.memory \in Seq(MemSegments) /\ RegularMap(job.memory)
  BY JobTypes DEF Types, Call, Regular
<1>4. layout = job.memory  BY <1>1 DEF Counting, EndedSites
<1>5. Eraseable(address) /\ ~job.massErase /\ address <= erase_address
  BY <1>1 DEF Progress, Pages, Loop
<1>6. SegmentsAt(job.memory, address) # {}  BY <1>5 DEF Eraseable, isAddressEraseable
<1>7. page_size = SizeAt(address)  BY <1>4 DEF page_size, SizeAt
<1>8. SizeAt(address) \in Nat /\ SizeAt(address) > 1
  BY <1>2, <1>3, <1>6, PageOf DEF SizeAt
<1>9. \A w \in DOMAIN flash : w \in Nat /\ w < address
  <2>1. ~Burnt  BY DEF Burnt
  <2>2. QED  BY <1>1, <2>1, FullBelow DEF Progress
<1>10. Fresh = blank  BY DEF Fresh, Coming
<1>11. erase_address \in Nat /\ last_erased_page \in Nat  BY DEF Types, Control
<1>12. QED  BY <1>1, <1>2, <1>3, <1>4, <1>5, <1>6, <1>7, <1>8, <1>9, <1>10, <1>11

(* The start of the page of an address, as the page erased last.           *)
LEMMA NewLast ==
  ASSUME job.memory \in Seq(MemSegments), RegularMap(job.memory),
         NEW x \in Nat, Eraseable(x), NEW l, l = PageStart(x, SizeAt(x))
  PROVE  /\ l \in Nat /\ l # 1 /\ Eraseable(l) /\ l % SizeAt(l) = 0 /\ Page(l) = Page(x)
         /\ x \in Page(l) /\ x < l + SizeAt(l)
<1>1. SegmentsAt(job.memory, x) # {}  BY DEF Eraseable, isAddressEraseable
<1>2. /\ Page(x) = l .. l + SizeAt(x) - 1 /\ l \in Nat /\ SizeAt(x) \in Nat /\ SizeAt(x) > 1
      /\ l % SizeAt(x) = 0 /\ l <= x /\ x < l + SizeAt(x)
  BY <1>1, PageOf DEF SizeAt, Page
<1>3. l \in PageAt(job.memory, x)
  <2>1. l \in Page(x)  BY <1>2
  <2>2. QED  BY <2>1 DEF Page
<1>4. /\ SegmentsAt(job.memory, l) # {} /\ findSegment(job.memory, l) = findSegment(job.memory, x)
      /\ PageAt(job.memory, l) = PageAt(job.memory, x)
  BY <1>1, <1>3, PageShared
<1>5. SizeAt(l) = SizeAt(x) /\ Page(l) = Page(x)  BY <1>4 DEF SizeAt, Page
<1>6. Eraseable(l)  BY <1>4 DEF Eraseable, isAddressEraseable
<1>7. x \in Page(x)  BY <1>2
<1>8. l # 1
  <2>1. \A n \in Nat : n > 1 => 1 % n = 1  OBVIOUS
  <2>2. QED  BY <1>2, <2>1
<1>9. QED  BY <1>2, <1>5, <1>6, <1>7, <1>8

(* A page that is not erased again holds nothing but erased addresses and  *)
(* such that are full.                                                     *)
LEMMA PageSkipped ==
  ASSUME Types, Regular, Counting, Progress, pc = "erase",
         NEW x \in Nat, address <= x, ErasedLast(x)
  PROVE  /\ last_erased_page # 1 /\ x \in Page(last_erased_page) /\ Page(x) = Page(last_erased_page)
         /\ Eraseable(x) /\ Page(x) \subseteq Fresh \cup DOMAIN flash
<1>1. /\ job.memory \in Seq(MemSegments) /\ RegularMap(job.memory)
      /\ address \in Nat /\ Eraseable(address) /\ last_erased_page \in Nat
      /\ page_size = SizeAt(address) /\ page_size \in Nat \ {0} /\ page_size > 1
  BY InLoop
<1>2. PageStart(x, page_size) = last_erased_page  BY DEF ErasedLast
<1>3. last_erased_page # 1
  <2>1. last_erased_page = page_size * (x \div page_size) /\ x \div page_size \in Int
    <3>1. PageStart(x, page_size) = page_size * (x \div page_size)
      <4>1. SegmentsAt(job.memory, address) # {}  BY <1>1 DEF Eraseable, isAddressEraseable
      <4>2. IsPowerOfTwo(page_size)  BY <1>1, <4>1, PageSizes DEF SizeAt
      <4>3. QED  BY <1>1, <4>2, StartOfPage, Zenon
    <3>2. \A n \in Nat \ {0} : x \div n \in Int  OBVIOUS
    <3>3. QED  BY <1>1, <1>2, <3>1, <3>2, Zenon
  <2>2. last_erased_page % page_size = 0  BY <1>1, <2>1, Multiple
  <2>3. \A n \in Nat : n > 1 => 1 % n = 1  OBVIOUS
  <2>4. QED  BY <1>1, <2>2, <2>3
<1>4. /\ Eraseable(last_erased_page) /\ last_erased_page % SizeAt(last_erased_page) = 0
      /\ Page(last_erased_page) \subseteq Fresh \cup DOMAIN flash
  BY <1>3 DEF Progress, Pages, Remembered
<1>5. x \in PageAt(job.memory, last_erased_page)
  BY <1>1, <1>2, <1>4, StartMatches DEF Eraseable, SizeAt
<1>6. SegmentsAt(job.memory, last_erased_page) # {}  BY <1>4 DEF Eraseable, isAddressEraseable
<1>7. /\ SegmentsAt(job.memory, x) # {}
      /\ findSegment(job.memory, x) = findSegment(job.memory, last_erased_page)
      /\ PageAt(job.memory, x) = PageAt(job.memory, last_erased_page)
  BY <1>1, <1>5, <1>6, PageShared
<1>8. Eraseable(x)  BY <1>4, <1>7 DEF Eraseable, isAddressEraseable
<1>9. QED  BY <1>3, <1>4, <1>5, <1>7, <1>8 DEF Page

(* A page that is erased holds nothing of the file.                        *)
LEMMA PageErased ==
  ASSUME Types, Regular, Counting, Progress, pc = "erase",
         NEW x \in Chunk, ~ErasedLast(x), Eraseable(x),
         x = erase_address \/ (x = End - 1 /\ End <= erase_address)
  PROVE  Page(x) \cap DOMAIN flash = {}
<1>1. SUFFICES ASSUME NEW w \in Page(x), w \in DOMAIN flash  PROVE FALSE  OBVIOUS
<1>2. /\ job.memory \in Seq(MemSegments) /\ RegularMap(job.memory)
      /\ address \in Nat /\ erase_address \in Nat /\ last_erased_page \in Nat
      /\ ~job.massErase /\ End \in Nat
      /\ \A a : a \in Chunk <=> a \in Nat /\ address <= a /\ a < End
      /\ w \in Nat /\ w < address /\ Site = "erase"
      /\ \A v \in DOMAIN flash : v \in Nat /\ v < address
      /\ page_size = SizeAt(address)
  BY <1>1, InLoop
<1>3. x \in Nat /\ address <= x /\ x < End  BY <1>2
<1>4. SegmentsAt(job.memory, x) # {}  BY DEF Eraseable, isAddressEraseable
<1>5. SegmentsAt(job.memory, w) # {} /\ findSegment(job.memory, w) = findSegment(job.memory, x)
  BY <1>1, <1>2, <1>3, <1>4, PageShared DEF Page
<1>6. Eraseable(w)  BY <1>5 DEF Eraseable, isAddressEraseable
<1>7. last_erased_page # 1 /\ w < last_erased_page + SizeAt(last_erased_page)
  BY <1>1, <1>2, <1>6 DEF Progress, Pages, LastReached
<1>8. Eraseable(last_erased_page) /\ last_erased_page % SizeAt(last_erased_page) = 0
  BY <1>7 DEF Progress, Pages, Remembered
<1>9. PICK v \in Page(last_erased_page) :
        v \in DOMAIN flash \/ (v \in Chunk /\ v <= erase_address)
  BY <1>2, <1>7 DEF Progress, Pages, Remembered
<1>10. v \in Nat /\ v <= x
  <2>1. CASE v \in DOMAIN flash  BY <1>2, <1>3, <2>1
  <2>2. CASE v \in Chunk /\ v <= erase_address
    <3>1. v \in Nat /\ v < End  BY <1>2, <2>2
    <3>2. QED  BY <1>2, <1>3, <2>2, <3>1
  <2>3. QED  BY <1>9, <2>1, <2>2
<1>11. SegmentsAt(job.memory, last_erased_page) # {}  BY <1>8 DEF Eraseable, isAddressEraseable
<1>12. last_erased_page <= v
  <2> DEFINE k == SizeAt(last_erased_page)
             f == PageStart(last_erased_page, k)
  <2>0. k \in Nat \ {0} /\ IsPowerOfTwo(k)  BY <1>2, <1>11, PageSizes DEF SizeAt
  <2>1. Page(last_erased_page) = f .. f + k - 1 /\ f \in Nat /\ f <= last_erased_page
    BY <1>2, <1>11, PageOf DEF SizeAt, Page
  <2>2. f = last_erased_page  BY <1>2, <1>8, <2>0, StartOfStart
  <2> HIDE DEF f, k
  <2>3. QED  BY <1>9, <1>10, <2>0, <2>1, <2>2
<1>13. last_erased_page <= x  BY <1>2, <1>3, <1>10, <1>12
<1>14. PageStart(x, findSegment(job.memory, address).pagesize) = last_erased_page
  BY <1>1, <1>2, <1>3, <1>4, <1>7, <1>8, <1>11, <1>13, PageRevisited DEF SizeAt, Page
<1>15. ErasedLast(x)  BY <1>2, <1>14 DEF ErasedLast, SizeAt
<1>16. QED  BY <1>15

(* What the loop has passed over is erased once a page behind it is.       *)
LEMMA PassedOver ==
  ASSUME Types, Regular, Counting, Progress, pc = "erase", NEW F, Fresh \subseteq F,
         NEW x \in Chunk, x <= erase_address, Page(x) \subseteq F \cup DOMAIN flash,
         NEW z \in Chunk, z <= x, z < erase_address, Eraseable(z)
  PROVE  z \in F
<1>1. /\ job.memory \in Seq(MemSegments) /\ RegularMap(job.memory) /\ Site = "erase"
      /\ \A a : a \in Chunk <=> a \in Nat /\ address <= a /\ a < End
      /\ \A v \in DOMAIN flash : v \in Nat /\ v < address
      /\ address \in Nat
  BY InLoop
<1>2. CASE z \in Fresh  BY <1>2
<1>3. CASE z \notin Fresh
  <2>1. x \in Page(z)  BY <1>1, <1>3 DEF Progress, Pages, Loop
  <2>2. SegmentsAt(job.memory, z) # {} /\ z \in Nat /\ address <= z
    BY <1>1 DEF Eraseable, isAddressEraseable
  <2>3. Page(x) = Page(z)  BY <1>1, <2>1, <2>2, PageShared DEF Page
  <2>4. z \in Page(z)  BY <1>1, <2>2, InOwnPage DEF Page
  <2>5. z \notin DOMAIN flash  BY <1>1, <2>2
  <2>6. QED  BY <2>3, <2>4, <2>5
<1>4. QED  BY <1>2, <1>3

(* The loop moves on by a page.                                            *)
LEMMA LoopOn ==
  ASSUME Types, Regular, Counting, Progress, pc = "erase", erase_address < End,
         NEW F, Fresh \subseteq F, Page(erase_address) \subseteq F \cup DOMAIN flash,
         Eraseable(erase_address), NEW z \in Chunk, z < erase_address + page_size, Eraseable(z)
  PROVE  z \in F \/ \A y \in Chunk : z <= y /\ y <= erase_address + page_size => y \in Page(z)
<1>1. /\ job.memory \in Seq(MemSegments) /\ RegularMap(job.memory)
      /\ address \in Nat /\ erase_address \in Nat /\ address <= erase_address
      /\ page_size = SizeAt(address) /\ page_size \in Nat \ {0} /\ Eraseable(address)
      /\ \A a : a \in Chunk <=> a \in Nat /\ address <= a /\ a < End
      /\ \A v \in DOMAIN flash : v \in Nat /\ v < address
  BY InLoop
<1>2. erase_address \in Chunk /\ z \in Nat /\ address <= z /\ z \notin DOMAIN flash  BY <1>1
<1>3. CASE z < erase_address
  <2>1. z <= erase_address /\ erase_address <= erase_address  BY <1>1, <1>2, <1>3
  <2>2. QED  BY <1>2, <1>3, <2>1, PassedOver
<1>4. CASE erase_address <= z /\ z \in Page(erase_address)  BY <1>2, <1>4
<1>5. CASE erase_address <= z /\ z \notin Page(erase_address)
  <2>1. SegmentsAt(job.memory, erase_address) # {}  BY DEF Eraseable, isAddressEraseable
  <2>2. \A y \in Nat : z <= y /\ y <= erase_address + findSegment(job.memory, address).pagesize
                         => y \in PageAt(job.memory, z)
    BY <1>1, <1>2, <1>5, <2>1, SkippedInPage DEF Eraseable, SizeAt, Page
  <2>3. QED  BY <1>1, <2>2 DEF SizeAt, Page
<1>6. QED  BY <1>1, <1>2, <1>3, <1>4, <1>5

(* A page of the chunk is given to the device to erase, or counts as       *)
(* erased.  F is what is erased then.                                      *)
LEMMA NewlyErased ==
  ASSUME Types, Regular, Counting, Progress, pc = "erase",
         NEW x \in Chunk, NEW t \in {"erase", "address"},
         specialCommand(x, "ErasePage", t), ~ErasedLast(x), Alive',
         x = erase_address \/ (x = End - 1 /\ End <= erase_address),
         UNCHANGED <<callVars, posVars, firstpoll, dev, request, memVars>>
  PROVE  /\ pc' = "command" /\ Site' = t
         /\ cmd' = [command |-> "ErasePage", address |-> x, then |-> t]
         /\ Eraseable(x) /\ Fresh' = Fresh \cup Page(x) /\ Ordered'
         /\ last_erased_page' # 1 /\ x \in Page(last_erased_page') /\ Page(last_erased_page') = Page(x)
         /\ Eraseable(last_erased_page') /\ last_erased_page' % SizeAt(last_erased_page') = 0
         /\ x < last_erased_page' + SizeAt(last_erased_page')
         /\ last_erased_page' \in Nat /\ SizeAt(last_erased_page') \in Nat
<1>1. /\ job.memory \in Seq(MemSegments) /\ RegularMap(job.memory) /\ layout = job.memory
      /\ \A a : a \in Chunk <=> a \in Nat /\ address <= a /\ a < End
      /\ Fresh = blank
  BY InLoop
<1>2. x \in Nat  BY <1>1
<1>3. /\ pc' = "command" /\ cmd' = [command |-> "ErasePage", address |-> x, then |-> t]
      /\ Eraseable(x) /\ last_erased_page' = PageStart(x, SizeAt(x))
      /\ last_erased_page' \in Nat
  <2>1. pc' # "failed"  BY DEF Alive
  <2>2. "ErasePage" \in Commands /\ t \in Thens  BY DEF Commands, Thens
  <2>3. QED  BY <1>1, <1>2, <2>1, <2>2, SpecialCommand DEF Eraseable, SizeAt
<1>4. UNCHANGED <<job, flash, blank>>  BY DEF callVars, memVars
<1>5. Site' = t  BY <1>3 DEF Site
<1>6. Fresh' = Fresh \cup Page(x)
  <2>1. Coming' = Page(x)  BY <1>3, <1>4 DEF Coming, Page
  <2>2. QED  BY <1>1, <1>4, <2>1 DEF Fresh
<1>7. Ordered'
  <2>1. Page(x) \cap DOMAIN flash = {}  BY <1>3, PageErased
  <2>2. CommandRequest'.kind = "ErasePage" /\ CommandRequest'.address = x
    BY <1>3 DEF CommandRequest, NoRequest
  <2>3. Harmless(CommandRequest)'
    BY <1>3, <1>4, <2>1, <2>2 DEF Harmless, Eraseable, Page
  <2>4. QED  BY <2>3 DEF Ordered
<1>8. /\ last_erased_page' # 1 /\ x \in Page(last_erased_page') /\ Page(last_erased_page') = Page(x)
      /\ Eraseable(last_erased_page') /\ last_erased_page' % SizeAt(last_erased_page') = 0
      /\ x < last_erased_page' + SizeAt(last_erased_page')
  BY <1>1, <1>2, <1>3, NewLast
<1>9. SizeAt(last_erased_page') \in Nat
  <2>1. SegmentsAt(job.memory, last_erased_page') # {}  BY <1>8 DEF Eraseable, isAddressEraseable
  <2>2. QED  BY <1>1, <1>3, <2>1, PageOf DEF SizeAt
<1>10. QED  BY <1>3, <1>5, <1>6, <1>7, <1>8, <1>9

(* What a step of the page loop leaves alone.                              *)
LEMMA ErasingKeeps ==
  ASSUME Types, Regular, Counting, Progress, pc = "erase", wanted' = wanted,
         UNCHANGED <<job, transferSize, target, element, p, dfuse_address, bFirstAddressSaved,
                     flash, blank, pointer>>,
         pc' \in {"erase", "address"} \/ (pc' = "command" /\ cmd'.then \in {"erase", "address"})
  PROVE  Stored' /\ Cleared' /\ Carried' /\ Aimed' /\ FirstKept'
<1>1. Site = "erase" /\ Site' \in {"erase", "address"} /\ ~job.massErase
  <2>1. Site = "erase" /\ ~job.massErase  BY InLoop
  <2>2. QED  BY <2>1 DEF Site
<1>2. Stored'
  <2>1. Written' = Written  BY <1>1, WrittenKept DEF ElementSites
  <2>2. ~Burnt /\ ~Burnt'  BY DEF Burnt
  <2>3. QED  BY <2>1, <2>2, StoredKept DEF Progress
<1>3. Cleared'  BY <1>1 DEF Cleared
<1>4. Carried' /\ Aimed'  BY DEF Carried, Aimed
<1>5. FirstKept'  BY FirstKeptStays DEF Progress
<1>6. QED  BY <1>2, <1>3, <1>4, <1>5

(* One turn of the page loop, or its end.                                  *)
LEMMA ErasePagesProgress ==
  ASSUME Types, Regular, Counting, Progress, ErasePages, wanted' = wanted, Alive'
  PROVE  Progress'
<1> DEFINE e == erase_address
<1>1. /\ pc = "erase" /\ e < address + chunk_size /\ erase_address' = e + page_size
      /\ UNCHANGED <<callVars, posVars, firstpoll, dev, request, memVars>>
      /\ UNCHANGED <<job, transferSize, target, element, p, dfuse_address, bFirstAddressSaved,
                     flash, blank, pointer>>
  BY DEF ErasePages, callVars, posVars, imageVars, memVars
<1>2. /\ Site = "erase" /\ ~job.massErase /\ address \in Nat /\ e \in Nat /\ address <= e
      /\ page_size \in Nat /\ End \in Nat
      /\ \A a : a \in Chunk <=> a \in Nat /\ address <= a /\ a < End
      /\ \A v \in DOMAIN flash : v \in Nat /\ v < address
      /\ Eraseable(address)
  BY <1>1, InLoop
<1>3. e < End /\ e \in Chunk  BY <1>1, <1>2 DEF End
<1>4. /\ address' = address /\ End' = End /\ Chunk' = Chunk
      /\ \A a : Page(a)' = Page(a) /\ SizeAt(a)' = SizeAt(a)
      /\ \A a : Eraseable(a)' = Eraseable(a)
  BY <1>1, PlaceKept
<1>5. ASSUME Fresh \subseteq Fresh', Page(e) \subseteq Fresh' \cup DOMAIN flash, Eraseable(e),
             Site' = "erase"
      PROVE  Loop' /\ Covered' /\ TailErased'
  <2>1. Eraseable(address)' /\ ~job'.massErase /\ address' <= erase_address'
    <3>1. Eraseable(address)'  BY <1>1, <1>2, <1>4 DEF Eraseable
    <3>2. QED  BY <1>1, <1>2, <1>4, <3>1
  <2>2. \A z \in Chunk : z < e + page_size /\ Eraseable(z) =>
           z \in Fresh' \/ \A y \in Chunk : z <= y /\ y <= e + page_size => y \in Page(z)
    BY <1>1, <1>3, <1>5, LoopOn
  <2>3. \A z \in Chunk' : z < erase_address' /\ Eraseable(z)' =>
           z \in Fresh' \/ \A y \in Chunk' : z <= y /\ y <= erase_address' => y \in Page(z)'
    BY <1>1, <1>4, <2>2
  <2>4. Loop'  BY <2>1, <2>3 DEF Loop
  <2>5. Covered' /\ TailErased'  BY <1>5 DEF Covered, TailErased
  <2>6. QED  BY <2>4, <2>5
<1>6. CASE ErasedLast(e)
  <2>1. pc' = "erase" /\ last_erased_page' = last_erased_page /\ Site' = "erase"
    <3>1. pc' = pc /\ last_erased_page' = last_erased_page  BY <1>6 DEF ErasePages
    <3>2. QED  BY <1>1, <3>1 DEF Site
  <2>2. Fresh' = Fresh  BY <1>1, <2>1 DEF Fresh, Coming
  <2>3. /\ Eraseable(e) /\ Page(e) \subseteq Fresh \cup DOMAIN flash  BY <1>1, <1>2, <1>6, PageSkipped
  <2>4. Loop' /\ Covered' /\ TailErased'  BY <1>5, <2>1, <2>2, <2>3
  <2>5. Remembered'
    <3>1. SUFFICES ASSUME last_erased_page # 1  PROVE Remembered'  BY <2>1 DEF Remembered
    <3>2. /\ Eraseable(last_erased_page) /\ last_erased_page % SizeAt(last_erased_page) = 0
          /\ Page(last_erased_page) \subseteq Fresh \cup DOMAIN flash
      BY <3>1 DEF Progress, Pages, Remembered
    <3>3. PICK w \in Page(last_erased_page) : w \in DOMAIN flash \/ (w \in Chunk /\ w <= e)
      BY <1>2, <3>1 DEF Progress, Pages, Remembered
    <3>4. w \in Chunk => w \in Nat  BY <1>2
    <3>5. w \in DOMAIN flash \/ (w \in Chunk /\ w <= e + page_size)  BY <1>2, <3>3, <3>4
    <3>6. /\ Eraseable(last_erased_page)' /\ (last_erased_page % SizeAt(last_erased_page) = 0)'
          /\ Page(last_erased_page)' = Page(last_erased_page)
      BY <1>1, <2>1, <3>2 DEF Eraseable, SizeAt, Page
    <3>7. \E v \in Page(last_erased_page)' :
             v \in DOMAIN flash' \/ (Site' = "erase" /\ v \in Chunk' /\ v <= erase_address')
      BY <1>1, <1>4, <2>1, <3>5, <3>6
    <3>8. QED  BY <1>1, <2>2, <3>2, <3>6, <3>7 DEF Remembered
  <2>6. LastReached'  BY <1>1, <1>4, <2>1 DEF Progress, Pages, LastReached, SizeAt, Eraseable
  <2>7. Ordered'  BY <2>1 DEF Ordered
  <2>8. Stored' /\ Cleared' /\ Carried' /\ Aimed' /\ FirstKept'  BY <1>1, <2>1, ErasingKeeps
  <2>9. QED  BY <2>4, <2>5, <2>6, <2>7, <2>8 DEF Progress, Pages
<1>7. CASE ~ErasedLast(e)
  <2>1. specialCommand(e, "ErasePage", "erase")  BY <1>7 DEF ErasePages
  <2> DEFINE l == last_erased_page'
  <2>2. /\ pc' = "command" /\ Site' = "erase"
        /\ cmd' = [command |-> "ErasePage", address |-> e, then |-> "erase"]
        /\ Eraseable(e) /\ Fresh' = Fresh \cup Page(e) /\ Ordered'
        /\ l # 1 /\ e \in Page(l) /\ Page(l) = Page(e)
        /\ Eraseable(l) /\ l % SizeAt(l) = 0
        /\ e < l + SizeAt(l) /\ l \in Nat /\ SizeAt(l) \in Nat
    BY <1>1, <1>3, <1>7, <2>1, NewlyErased
  <2>3. Loop' /\ Covered' /\ TailErased'
    BY <1>5, <2>2
  <2>4. Eraseable(last_erased_page)' = Eraseable(l) /\ SizeAt(last_erased_page)' = SizeAt(l)
        /\ Page(last_erased_page)' = Page(l)
    BY <1>1 DEF Eraseable, SizeAt, Page
  <2>5. Remembered'
    <3>1. e <= e + page_size  BY <1>2
    <3>2. \E v \in Page(l) : Site' = "erase" /\ v \in Chunk' /\ v <= erase_address'
      BY <1>1, <1>3, <1>4, <2>2, <3>1
    <3>3. Page(l) \subseteq Fresh' \cup DOMAIN flash'  BY <2>2
    <3>4. (last_erased_page % SizeAt(last_erased_page) = 0)'  BY <2>2, <2>4
    <3>5. Eraseable(last_erased_page)'  BY <2>2, <2>4
    <3> HIDE DEF l
    <3>6. QED  BY <2>4, <3>2, <3>3, <3>4, <3>5 DEF Remembered, l
  <2>6. LastReached'
    <3>1. \A w \in DOMAIN flash : w < l + SizeAt(l)  BY <1>2, <2>2
    <3>2. \A w \in DOMAIN flash' : w < last_erased_page' + SizeAt(last_erased_page)'
      BY <1>1, <2>4, <3>1
    <3>3. QED  BY <2>2, <3>2 DEF LastReached
  <2>7. cmd'.then = "erase"  BY <2>2
  <2>8. Stored' /\ Cleared' /\ Carried' /\ Aimed' /\ FirstKept'
    BY <1>1, <2>2, <2>7, ErasingKeeps
  <2>9. QED  BY <2>2, <2>3, <2>5, <2>6, <2>8 DEF Progress, Pages
<1>8. QED  BY <1>6, <1>7

(* The page at the last address is erased, or has been.                    *)
LEMMA EraseTailProgress ==
  ASSUME Types, Regular, Counting, Progress, EraseTail, wanted' = wanted, Alive'
  PROVE  Progress'
<1> DEFINE x == End - 1
<1>1. /\ pc = "erase" /\ erase_address >= address + chunk_size
      /\ UNCHANGED <<callVars, posVars, erase_address, firstpoll, dev, request, memVars>>
      /\ UNCHANGED <<job, transferSize, target, element, p, dfuse_address, bFirstAddressSaved,
                     flash, blank, pointer>>
  BY DEF EraseTail, callVars, posVars, imageVars, memVars
<1>2. /\ Site = "erase" /\ ~job.massErase /\ address \in Nat /\ erase_address \in Nat
      /\ End \in Nat /\ address < End /\ x \in Chunk
      /\ \A a : a \in Chunk <=> a \in Nat /\ address <= a /\ a < End
      /\ \A v \in DOMAIN flash : v \in Nat /\ v < address
      /\ Eraseable(address)
  BY <1>1, InLoop
<1>3. /\ End <= erase_address /\ x \in Nat /\ address <= x /\ x < erase_address
      /\ address + chunk_size - 1 = x
  <2>1. End = address + chunk_size  BY DEF End
  <2>2. erase_address >= End  BY <1>1, <2>1, Zenon
  <2>3. address + chunk_size - 1 = x
    <3>1. chunk_size \in Nat  BY <1>2, ErasingTypes
    <3>2. QED  BY <1>2, <2>1, <3>1
  <2>4. QED  BY <1>2, <2>2, <2>3
<1>4. /\ address' = address /\ End' = End /\ Chunk' = Chunk
      /\ \A a : Page(a)' = Page(a) /\ SizeAt(a)' = SizeAt(a)
      /\ \A a : Eraseable(a)' = Eraseable(a) /\ Writeable(a)' = Writeable(a)
  BY <1>1, PlaceKept
<1> HIDE DEF x
<1>5. ASSUME Fresh \subseteq Fresh', Page(x) \subseteq Fresh' \cup DOMAIN flash
      PROVE  Covered'
  <2>1. SUFFICES ASSUME NEW z \in Chunk, Eraseable(z)  PROVE z \in Fresh'
    BY <1>4 DEF Covered
  <2>2. z \in Nat /\ z < End  BY <1>2
  <2>3. z <= x /\ z < erase_address /\ x <= erase_address
    BY <1>2, <1>3, <2>2 DEF x
  <2>4. QED  BY <1>1, <1>2, <1>5, <2>1, <2>3, PassedOver
<1>6. CASE ErasedLast(x)
  <2>1. pc' = "address" /\ last_erased_page' = last_erased_page /\ Site' = "address"
    <3>1. pc' = "address" /\ last_erased_page' = last_erased_page
      BY <1>3, <1>6 DEF EraseTail
    <3>2. QED  BY <3>1 DEF Site
  <2>2. Fresh' = Fresh  BY <1>1, <2>1 DEF Fresh, Coming
  <2>3. /\ Eraseable(x) /\ Page(x) \subseteq Fresh \cup DOMAIN flash
        /\ last_erased_page # 1 /\ x \in Page(last_erased_page)
    BY <1>1, <1>3, <1>6, PageSkipped
  <2>4. Covered'  BY <1>5, <2>2, <2>3
  <2>5. Loop'  BY <2>1 DEF Loop
  <2>6. Page(last_erased_page)' = Page(last_erased_page)  BY <1>1, <2>1 DEF Page
  <2>7. TailErased'
    <3>1. (End - 1)' = x  BY <1>4 DEF x
    <3>2. QED  BY <2>1, <2>3, <2>6, <3>1 DEF TailErased
  <2>8. Remembered'
    <3>2. /\ Eraseable(last_erased_page) /\ last_erased_page % SizeAt(last_erased_page) = 0
          /\ Page(last_erased_page) \subseteq Fresh \cup DOMAIN flash
      BY <2>3 DEF Progress, Pages, Remembered
    <3>3. /\ Eraseable(last_erased_page)' /\ (last_erased_page % SizeAt(last_erased_page) = 0)'
      BY <1>1, <2>1, <3>2 DEF Eraseable, SizeAt
    <3>4. \E v \in Page(last_erased_page)' : Site' \in {"address", "write", "poll"} /\ v \in Chunk'
      BY <1>2, <1>4, <2>1, <2>3, <2>6
    <3>5. QED  BY <1>1, <2>2, <2>6, <3>2, <3>3, <3>4 DEF Remembered
  <2>9. LastReached'  BY <1>1, <1>4, <2>1 DEF Progress, Pages, LastReached, SizeAt, Eraseable
  <2>10. Ordered'  BY <2>1 DEF Ordered
  <2>11. Stored' /\ Cleared' /\ Carried' /\ Aimed' /\ FirstKept'  BY <1>1, <2>1, ErasingKeeps
  <2>12. QED  BY <2>4, <2>5, <2>7, <2>8, <2>9, <2>10, <2>11 DEF Progress, Pages
<1>7. CASE ~ErasedLast(x)
  <2>1. specialCommand(x, "ErasePage", "address")  BY <1>3, <1>7 DEF EraseTail
  <2> DEFINE l == last_erased_page'
  <2>2. /\ pc' = "command" /\ Site' = "address"
        /\ cmd' = [command |-> "ErasePage", address |-> x, then |-> "address"]
        /\ Eraseable(x) /\ Fresh' = Fresh \cup Page(x) /\ Ordered'
        /\ l # 1 /\ x \in Page(l) /\ Page(l) = Page(x)
        /\ Eraseable(l) /\ l % SizeAt(l) = 0
        /\ x < l + SizeAt(l) /\ l \in Nat /\ SizeAt(l) \in Nat
    <3>1. x = End - 1 /\ End <= erase_address  BY <1>3 DEF x
    <3>2. x \in Chunk  BY <1>2
    <3>3. QED  BY <1>1, <1>7, <2>1, <3>1, <3>2, NewlyErased
  <2>3. Loop' /\ Covered'
    <3>1. Covered'  BY <1>5, <2>2
    <3>2. QED  BY <2>2, <3>1 DEF Loop
  <2>4. Eraseable(last_erased_page)' = Eraseable(l) /\ SizeAt(last_erased_page)' = SizeAt(l)
        /\ Page(last_erased_page)' = Page(l)
    BY <1>1 DEF Eraseable, SizeAt, Page
  <2>5. TailErased'
    <3>1. (End - 1)' = x  BY <1>4 DEF x
    <3>2. QED  BY <2>2, <2>4, <3>1 DEF TailErased
  <2>6. Remembered'
    <3>1. \E v \in Page(l) : Site' \in {"address", "write", "poll"} /\ v \in Chunk'
      BY <1>2, <1>4, <2>2
    <3>2. Page(l) \subseteq Fresh' \cup DOMAIN flash'  BY <2>2
    <3>3. (last_erased_page % SizeAt(last_erased_page) = 0)'  BY <2>2, <2>4
    <3>4. Eraseable(last_erased_page)'  BY <2>2, <2>4
    <3> HIDE DEF l
    <3>5. QED  BY <2>4, <3>1, <3>2, <3>3, <3>4 DEF Remembered, l
  <2>7. LastReached'
    <3>1. \A w \in DOMAIN flash : w < l + SizeAt(l)  BY <1>2, <1>3, <2>2
    <3>2. \A w \in DOMAIN flash' : w < last_erased_page' + SizeAt(last_erased_page)'
      BY <1>1, <2>4, <3>1
    <3>3. QED  BY <2>2, <3>2 DEF LastReached
  <2>8. cmd'.then = "address"  BY <2>2
  <2>9. Stored' /\ Cleared' /\ Carried' /\ Aimed' /\ FirstKept'
    BY <1>1, <2>2, <2>8, ErasingKeeps
  <2>10. QED  BY <2>2, <2>3, <2>5, <2>6, <2>7, <2>9 DEF Progress, Pages
<1>8. QED  BY <1>6, <1>7

-------------------------------------------------------------------------------
(***************************************************************************)
(* The device: what it is asked to do does no harm, and what it does is    *)
(* what it was asked to do.                                                *)
(***************************************************************************)

(* The chunk that is sent does no harm.                                    *)
LEMMA ChunkHarmless ==
  ASSUME Types, Regular, Counting, Progress, pc = "write"
  PROVE  Harmless(ChunkRequest)
<1>1. Site = "write" /\ Site \in ChunkSites /\ Site \in ElementSites
  BY DEF Site, ChunkSites, ElementSites
<1>2. /\ Chunk \subseteq DOMAIN wanted
      /\ \A a \in Chunk : wanted[a] = <<target, element, p + (a - address)>>
  BY <1>1, ChunkClaimed
<1>3. pointer = address  BY DEF Progress, Aimed
<1>4. /\ ChunkRequest.kind = "data" /\ ChunkRequest.address = address
      /\ ChunkRequest.from = <<target, element, p>> /\ ChunkRequest.size = chunk_size
  BY <1>3 DEF ChunkRequest
<1>5. AddressesFrom(ChunkRequest.address, ChunkRequest.size) = Chunk  BY <1>4 DEF Chunk
<1>6. SUFFICES ASSUME \A a \in Chunk : Writeable(a), NEW a \in Chunk
               PROVE  /\ a \in DOMAIN wanted /\ a \notin DOMAIN flash
                      /\ wanted[a] = [ChunkRequest.from EXCEPT ![3] = @ + (a - ChunkRequest.address)]
                      /\ Eraseable(a) => a \in blank
  BY <1>4, <1>5 DEF Harmless
<1>7. a \notin DOMAIN flash
  <2>1. ~Burnt  BY DEF Burnt
  <2>2. QED  BY <1>1, <2>1, FullBelow DEF Progress
<1>8. wanted[a] = [ChunkRequest.from EXCEPT ![3] = @ + (a - ChunkRequest.address)]
  <2> DEFINE w == a - address
  <2>1. [<<target, element, p>> EXCEPT ![3] = @ + w] = <<target, element, p + w>>  OBVIOUS
  <2>2. QED  BY <1>2, <1>4, <2>1
<1>9. Eraseable(a) => a \in blank
  <2>1. Fresh = blank  BY DEF Fresh, Coming
  <2>2. QED  BY <1>1, <1>6, <2>1 DEF Progress, Pages, Covered
<1>10. QED  BY <1>2, <1>7, <1>8, <1>9

(* What is erased holds nothing of the file, and so the file loses nothing.*)
LEMMA EraseHarmless ==
  ASSUME Contents, NEW S, Erase(S), S \cap DOMAIN flash = {}
  PROVE  flash' = flash /\ blank' = blank \cup S /\ spoiled' = {} /\ pointer' = pointer
<1>1. /\ flash' = Restrict(flash, DOMAIN flash \ S) /\ spoiled' = spoiled \ S
      /\ flash = Restrict(wanted, DOMAIN flash) /\ spoiled = {}
  BY DEF Erase, Contents
<1>2. DOMAIN flash \ S = DOMAIN flash  OBVIOUS
<1> DEFINE D == DOMAIN flash
<1>3. flash' = [a \in D |-> flash[a]]  BY <1>1, <1>2 DEF Restrict
<1>4. flash = [a \in D |-> wanted[a]]  BY <1>1 DEF Restrict
<1>5. flash = [a \in D |-> flash[a]]  BY <1>4
<1>6. flash' = flash  BY <1>3, <1>5
<1>7. QED  BY <1>1, <1>6 DEF Erase

(* What is programmed belongs there.                                       *)
LEMMA ProgramHarmless ==
  ASSUME Contents, Harmless(request), request.kind = "data",
         NEW S, S = AddressesFrom(request.address, request.size), Program(S)
  PROVE  /\ DOMAIN flash' = DOMAIN flash \cup S /\ S \subseteq DOMAIN wanted
         /\ flash' = Restrict(wanted, DOMAIN flash') /\ spoiled' = {}
         /\ blank' = blank \ S /\ pointer' = pointer
         /\ \A a \in S : Writeable(a)
<1> DEFINE clean == {a \in S : a \in blank \/ ~isAddressEraseable(job.memory, a)}
           D == DOMAIN flash
           Put(a) == [request.from EXCEPT ![3] = @ + (a - request.address)]
<1>1. /\ \A a \in S : isAddressWriteable(job.memory, a)
      /\ blank' = blank \ S /\ spoiled' = (spoiled \ S) \cup (S \ clean) /\ pointer' = pointer
      /\ flash' = [a \in (D \ S) \cup clean |-> IF a \in clean THEN Put(a) ELSE flash[a]]
  BY DEF Program
<1>2. \A a \in S : Writeable(a)  BY <1>1 DEF Writeable
<1>3. \A a \in S : /\ a \in DOMAIN wanted /\ a \notin D /\ wanted[a] = Put(a)
                   /\ Eraseable(a) => a \in blank
  BY <1>2 DEF Harmless
<1>4. clean = S  BY <1>3 DEF Eraseable
<1>5. spoiled = {} /\ flash = Restrict(wanted, D)  BY DEF Contents
<1> HIDE DEF clean, Put, D
<1>6. spoiled' = {}  BY <1>1, <1>4, <1>5
<1>7. (D \ S) \cup clean = D \cup S  BY <1>3, <1>4
<1>8. flash' = [a \in D \cup S |-> IF a \in S THEN Put(a) ELSE flash[a]]
  BY <1>1, <1>4, <1>7
<1>9. flash = [a \in D |-> wanted[a]]  BY <1>5 DEF Restrict
<1>10. \A a \in D \cup S : (IF a \in S THEN Put(a) ELSE flash[a]) = wanted[a]
  BY <1>3, <1>9
<1>11. flash' = [a \in D \cup S |-> wanted[a]]  BY <1>8, <1>10
<1>12. DOMAIN flash' = D \cup S  BY <1>11
<1>13. flash' = Restrict(wanted, DOMAIN flash')  BY <1>11, <1>12 DEF Restrict
<1>14. QED  BY <1>1, <1>2, <1>3, <1>6, <1>12, <1>13 DEF D

(* What the device is about to do, when it does.                           *)
LEMMA ContentsStep ==
  ASSUME Types, Contents, Pending, [Next]_vars, wanted' = wanted
  PROVE  Contents' /\ DOMAIN flash \subseteq DOMAIN flash'
<1>1. CASE UNCHANGED <<flash, spoiled>>
  <2>1. Contents'  BY <1>1 DEF Contents
  <2>2. QED  BY <1>1, <2>1
<1>2. CASE DeviceExecute
  <2>1. dev.work /\ dev.state = "dfuDNBUSY"  BY <1>2 DEF DeviceExecute, Executing
  <2>2. Harmless(request)  BY <2>1 DEF Pending
  <2>3. CASE request.kind = "ErasePage"
    <3>1. Erase(Page(request.address))  BY <1>2, <2>3 DEF DeviceExecute, Page
    <3>2. Page(request.address) \cap DOMAIN flash = {}  BY <2>2, <2>3 DEF Harmless
    <3>3. flash' = flash /\ spoiled' = {}  BY <3>1, <3>2, EraseHarmless
    <3>4. QED  BY <3>3 DEF Contents
  <2>4. CASE request.kind \in {"MassErase", "ReadUnprotect"}
    <3>1. Erase(AllAddresses)  BY <1>2, <2>4 DEF DeviceExecute
    <3>2. AllAddresses \cap DOMAIN flash = {}  BY <2>2, <2>4 DEF Harmless
    <3>3. flash' = flash /\ spoiled' = {}  BY <3>1, <3>2, EraseHarmless
    <3>4. QED  BY <3>3 DEF Contents
  <2>5. CASE request.kind = "data"
    <3> DEFINE S == AddressesFrom(request.address, request.size)
    <3>1. Program(S)  BY <1>2, <2>5 DEF DeviceExecute
    <3> HIDE DEF S
    <3>2. /\ DOMAIN flash' = DOMAIN flash \cup S /\ S \subseteq DOMAIN wanted
          /\ flash' = Restrict(wanted, DOMAIN flash') /\ spoiled' = {}
      BY <2>2, <2>5, <3>1, ProgramHarmless DEF S
    <3>3. QED  BY <3>2 DEF Contents
  <2>6. CASE request.kind \notin {"ErasePage", "MassErase", "ReadUnprotect", "data"}
    <3>1. UNCHANGED <<flash, spoiled>>  BY <1>2, <2>6 DEF DeviceExecute, memVars
    <3>2. QED  BY <3>1, <1>1
  <2>7. QED  BY <2>3, <2>4, <2>5, <2>6
<1>3. CASE ~DeviceExecute
  <2>1. UNCHANGED memVars
    BY <1>3 DEF Next, Host, Device, Begin, CommandSend, CommandStatus, OpenFile, NextImage, EndOfImage,
       NextElement, NextChunk, ErasePages, EraseTail, SetAddress, WriteChunk, PollChunk, SendAbort,
       CheckAborted, SendLeave, PollLeave, DeviceManifest, DeviceFail, vars, memVars
  <2>2. QED  BY <2>1, <1>1 DEF memVars
<1>4. QED  BY <1>2, <1>3

(* A request that waits for the device keeps waiting, or a new one comes.  *)
LEMMA PendingKept ==
  ASSUME Pending, UNCHANGED <<job, flash, blank, request>>, wanted' = wanted,
         dev'.work /\ dev'.state \in {"dfuDNLOAD_SYNC", "dfuDNBUSY"} =>
           dev.work /\ dev.state \in {"dfuDNLOAD_SYNC", "dfuDNBUSY"}
  PROVE  Pending'
BY HarmlessKept DEF Pending

(* A stall ends the run.                                                   *)
LEMMA StallEnds ==
  ASSUME NEW d \in Devices, NEW e, e = Stall(d)
  PROVE  e = d \/ ~e.work
<1>1. Stall(d) \in {d, InError} /\ InError.work = FALSE  BY DeviceFields
<1>2. CASE e = InError  BY <1>1, <1>2
<1>3. QED  BY <1>1, <1>2

(* The request that is sent does no harm.                                  *)
LEMMA PendingSent ==
  ASSUME Types, Pending, UNCHANGED <<job, flash, blank>>, wanted' = wanted,
         NEW req, NEW next, Send(req, next), Harmless(req)
  PROVE  Pending'
<1>1. \/ dev' = dev /\ request' = request
      \/ dev' = TakeData(dev) /\ request' = req
      \/ dev' = Stall(dev) /\ request' = request
  BY SendStep
<1>2. CASE dev' = dev /\ request' = request  BY <1>2, PendingKept
<1>3. CASE request' = req
  <2>1. Harmless(req)'  BY HarmlessKept
  <2>2. Harmless(request)'  BY <1>3, <2>1 DEF Harmless, Writeable, Eraseable, Page
  <2>3. QED  BY <2>2 DEF Pending
<1>4. CASE dev' = Stall(dev) /\ request' = request
  <2>1. dev' = dev \/ ~dev'.work  BY <1>4, StallEnds DEF Types, Unit
  <2>2. QED  BY <1>4, <2>1, PendingKept
<1>5. QED  BY <1>1, <1>2, <1>3, <1>4

(* Requests that wait do no harm, after every step.                        *)
LEMMA PendingStep ==
  ASSUME Types, Regular, Counting, Alive => Progress, Pending, [Next]_vars, wanted' = wanted
  PROVE  Pending'
<1>0. dev \in Devices  BY DEF Types, Unit
<1>1. CASE CommandSend
  <2>1. Send(CommandRequest, "status") /\ UNCHANGED <<job, flash, blank>> /\ pc = "command"
    BY <1>1 DEF CommandSend, CommandRequest, callVars, memVars
  <2>2. Harmless(CommandRequest)  BY <2>1 DEF Alive, Progress, Ordered
  <2>3. QED  BY <2>1, <2>2, PendingSent
<1>2. CASE WriteChunk
  <2>1. Send(ChunkRequest, "poll") /\ UNCHANGED <<job, flash, blank>> /\ pc = "write"
    BY <1>2 DEF WriteChunk, ChunkRequest, callVars, memVars
  <2>2. Harmless(ChunkRequest)  BY <2>1, ChunkHarmless DEF Alive
  <2>3. QED  BY <2>1, <2>2, PendingSent
<1>3. CASE \E r \in getStatus(dev) : dev' = r.dev /\ UNCHANGED <<job, flash, blank, request>>
  <2>1. PICK r \in getStatus(dev) : dev' = r.dev  BY <1>3
  <2>2. dev' = dev \/ dev' = Sync(dev)  BY <1>0, <2>1, GetStatusOutcome
  <2>3. CASE dev' = Sync(dev)
    <3>1. /\ Sync(dev).work = dev.work
          /\ dev.state \notin {"dfuDNLOAD_SYNC", "dfuMANIFEST_SYNC"} => Sync(dev).state = dev.state
          /\ dev.state = "dfuMANIFEST_SYNC" /\ dev.work => Sync(dev).state = "dfuMANIFEST"
      BY <1>0, SyncFields
    <3>2. QED  BY <1>3, <2>3, <3>1, PendingKept
  <2>4. QED  BY <1>3, <2>2, <2>3, PendingKept
<1>4. CASE Begin \/ OpenFile \/ NextImage \/ EndOfImage \/ NextElement \/ NextChunk \/ ErasePages
             \/ EraseTail \/ SetAddress
  <2>1. UNCHANGED <<job, flash, blank, request, dev>>
    BY <1>4 DEF Begin, OpenFile, NextImage, EndOfImage, NextElement, NextChunk, ErasePages, EraseTail,
       SetAddress, callVars, memVars
  <2>2. QED  BY <2>1, PendingKept
<1>5. CASE CommandStatus \/ PollChunk \/ CheckAborted \/ PollLeave
  <2>1. \E r \in getStatus(dev) : dev' = r.dev /\ UNCHANGED <<job, flash, blank, request>>
    BY <1>5 DEF CommandStatus, PollChunk, CheckAborted, PollLeave, callVars, memVars
  <2>2. QED  BY <2>1, <1>3
<1>6. CASE SendAbort
  <2>1. PICK o \in abort(dev) : dev' = o.dev  BY <1>6 DEF SendAbort
  <2>2. dev' \in {dev, ToIdle(dev), Stall(dev)}
    <3>1. AcceptsAbort(dev) \in BOOLEAN  BY DEF AcceptsAbort
    <3>2. QED  BY <2>1, <3>1, XferOutcome DEF abort
  <2>3. dev' = dev \/ ~dev'.work
    <3>1. CASE dev' = ToIdle(dev)  BY <3>1 DEF ToIdle
    <3>2. CASE dev' = Stall(dev)  BY <1>0, <3>2, StallEnds
    <3>3. QED  BY <2>2, <3>1, <3>2
  <2>4. UNCHANGED <<job, flash, blank, request>>  BY <1>6 DEF SendAbort, callVars, memVars
  <2>5. QED  BY <2>3, <2>4, PendingKept
<1>7. CASE SendLeave
  <2>1. PICK o \in downloadEnd(dev) : dev' = o.dev  BY <1>7 DEF SendLeave
  <2>2. dev' \in {dev, TakeEnd(dev), Stall(dev)}  BY <1>0, <2>1, DownloadEndOutcome
  <2>3. dev' = dev \/ ~dev'.work \/ dev'.state = "dfuMANIFEST_SYNC"
    <3>1. CASE dev' = TakeEnd(dev)
      <4>1. TakeEnd(dev).state = "dfuMANIFEST_SYNC"  BY <1>0, DeviceFields
      <4>2. QED  BY <3>1, <4>1
    <3>2. CASE dev' = Stall(dev)  BY <1>0, <3>2, StallEnds
    <3>3. QED  BY <2>2, <3>1, <3>2
  <2>4. UNCHANGED <<job, flash, blank, request>>  BY <1>7 DEF SendLeave, callVars, memVars
  <2>5. QED  BY <2>3, <2>4, PendingKept
<1>8. CASE Device
  <2>1. dev'.work = FALSE
    <3>1. CASE dev' = Programmed(dev)  BY <1>0, <3>1, DeviceFields
    <3>2. CASE \E t \in BOOLEAN : dev' = Manifested(dev, t)
      <4>1. PICK t \in BOOLEAN : dev' = Manifested(dev, t)  BY <3>2
      <4>2. Manifested(dev, t).work = FALSE  BY <1>0 DEF Manifested, Devices
      <4>3. QED  BY <4>1, <4>2
    <3>3. CASE dev' = InError  BY <3>3 DEF InError
    <3>4. QED  BY <1>8, <3>1, <3>2, <3>3 DEF Device, DeviceExecute, DeviceManifest, DeviceFail
  <2>2. QED  BY <2>1 DEF Pending
<1>9. CASE UNCHANGED vars
  <2>1. UNCHANGED <<job, flash, blank, request, dev>>  BY <1>9 DEF vars
  <2>2. QED  BY <2>1, PendingKept
<1>10. QED
  BY <1>1, <1>2, <1>4, <1>5, <1>6, <1>7, <1>8, <1>9 DEF Next, Host

(* The device works on its own: run() does not move.                       *)
LEMMA DeviceFrame ==
  ASSUME Progress, wanted' = wanted, Carried', ~Burnt, ~Burnt',
         UNCHANGED <<callVars, pc, posVars, erase_address, last_erased_page, cmd, memVars>>
  PROVE  Progress'
<1>1. /\ UNCHANGED <<job, transferSize, target, element, p, erase_address, last_erased_page>>
      /\ UNCHANGED <<flash, blank, pointer, dfuse_address, bFirstAddressSaved, pc, cmd>>
      /\ Site' = Site
  BY DEF callVars, posVars, imageVars, memVars, Site
<1>2. Fresh' = Fresh  BY <1>1, PlaceKept DEF Fresh, Coming
<1>3. Pages'  BY <1>1, <1>2, PagesKept DEF Progress
<1>4. Stored'
  <2>1. Written' = Written  BY <1>1, WrittenKept
  <2>2. QED  BY <1>1, <2>1, StoredKept DEF Progress
<1>5. Ordered'
  <2>1. CommandRequest' = CommandRequest  BY <1>1 DEF CommandRequest
  <2>2. pc \in {"command", "status"} => Harmless(CommandRequest)  BY DEF Progress, Ordered
  <2>3. QED  BY <1>1, <2>1, <2>2, HarmlessKept DEF Ordered
<1>6. Aimed'
  <2>1. address' = address  BY <1>1, PlaceKept
  <2>2. QED  BY <1>1, <2>1 DEF Progress, Aimed
<1>7. FirstKept'  BY <1>1, FirstKeptStays DEF Progress
<1>8. QED  BY <1>3, <1>4, <1>5, <1>6, <1>7 DEF Progress

(* It carries out the command that run() waits for.                        *)
LEMMA CommandExecuted ==
  ASSUME Types, Protocol, Contents, Pending, Progress, DeviceExecute, pc = "status",
         wanted' = wanted
  PROVE  Progress'
<1>1. /\ UNCHANGED <<callVars, pc, posVars, erase_address, last_erased_page, cmd, request>>
      /\ UNCHANGED <<job, transferSize, target, element, p, erase_address, last_erased_page>>
      /\ UNCHANGED <<dfuse_address, bFirstAddressSaved>>
      /\ Site' = Site /\ dev.work /\ dev.state = "dfuDNBUSY"
  BY DEF DeviceExecute, Executing, callVars, posVars, imageVars, Site
<1>2. Harmless(request)  BY <1>1 DEF Pending
<1>3. request.kind = cmd.command /\ request.address = cmd.address
  BY DEF Protocol, Asked, CommandRequest, NoRequest
<1>4. cmd.command \in {"ErasePage", "SetAddress", "MassErase", "ReadUnprotect"}
  BY DEF Protocol, Goal
<1>5. ~Burnt /\ ~Burnt'  BY <1>1 DEF Burnt
<1>6. CASE cmd.command = "SetAddress"
  <2>1. pointer' = cmd.address /\ UNCHANGED <<flash, blank, spoiled>>
    BY <1>3, <1>6 DEF DeviceExecute
  <2>2. Fresh' = Fresh  BY <1>1, <2>1, PlaceKept DEF Fresh, Coming
  <2>3. Pages'  BY <1>1, <2>1, <2>2, PagesKept DEF Progress
  <2>4. Stored'
    <3>1. Written' = Written  BY <1>1, WrittenKept
    <3>2. QED  BY <1>5, <2>1, <3>1, StoredKept DEF Progress
  <2>5. Ordered'
    <3>1. CommandRequest'.kind = "SetAddress"  BY <1>1, <1>6 DEF CommandRequest, NoRequest
    <3>2. QED  BY <3>1 DEF Ordered, Harmless
  <2>6. Carried'  BY <1>1, <1>6, <2>1 DEF Carried
  <2>7. Aimed'  BY <1>1 DEF Aimed
  <2>8. FirstKept'  BY <1>1, FirstKeptStays DEF Progress
  <2>9. QED  BY <2>3, <2>4, <2>5, <2>6, <2>7, <2>8 DEF Progress
<1>7. CASE cmd.command # "SetAddress"
  <2> DEFINE S == IF cmd.command = "ErasePage" THEN Page(cmd.address) ELSE AllAddresses
  <2>1. Erase(S)
    <3>1. CASE cmd.command = "ErasePage"  BY <1>3, <3>1 DEF DeviceExecute, Page
    <3>2. CASE cmd.command # "ErasePage"  BY <1>3, <1>4, <1>7, <3>2 DEF DeviceExecute
    <3>3. QED  BY <3>1, <3>2
  <2>2. S \cap DOMAIN flash = {}
    <3>1. CASE cmd.command = "ErasePage"  BY <1>2, <1>3, <3>1 DEF Harmless
    <3>2. CASE cmd.command # "ErasePage"  BY <1>2, <1>3, <1>4, <1>7, <3>2 DEF Harmless
    <3>3. QED  BY <3>1, <3>2
  <2> HIDE DEF S
  <2>3. flash' = flash /\ blank' = blank \cup S /\ pointer' = pointer
    BY <2>1, <2>2, EraseHarmless
  <2>4. Coming' = Coming
    BY <1>1, PlaceKept DEF Coming
  <2>5. Fresh \subseteq Fresh'  BY <2>3, <2>4 DEF Fresh
  <2>6. Pages'  BY <1>1, <2>3, <2>5, PagesKept DEF Progress
  <2>7. Stored'
    <3>1. Written' = Written  BY <1>1, WrittenKept
    <3>2. QED  BY <1>5, <2>3, <3>1, StoredKept DEF Progress
  <2>8. Ordered'
    <3>1. CommandRequest' = CommandRequest /\ CommandRequest.kind = cmd.command
      BY <1>1 DEF CommandRequest, NoRequest
    <3>2. Harmless(CommandRequest)  BY DEF Progress, Ordered
    <3>3. Harmless(CommandRequest)'
      BY <1>1, <1>4, <1>7, <2>3, <3>1, <3>2 DEF Harmless, Eraseable, Page
    <3>4. QED  BY <3>3 DEF Ordered
  <2>9. Carried'
    <3>1. cmd.command = "ErasePage" => Page(cmd.address) \subseteq blank'  BY <2>3 DEF S
    <3>2. cmd.command = "MassErase" => AllAddresses \subseteq blank'  BY <2>3 DEF S
    <3>3. Page(cmd.address)' = Page(cmd.address) /\ AllAddresses' = AllAddresses
      BY <1>1 DEF Page, AllAddresses
    <3>4. QED  BY <1>1, <1>7, <3>1, <3>2, <3>3 DEF Carried
  <2>10. Aimed'  BY <1>1 DEF Aimed
  <2>11. FirstKept'  BY <1>1, FirstKeptStays DEF Progress
  <2>12. QED  BY <2>6, <2>7, <2>8, <2>9, <2>10, <2>11 DEF Progress
<1>8. QED  BY <1>6, <1>7

(* It programs the chunk that run() waits for.                             *)
LEMMA ChunkExecuted ==
  ASSUME Types, Protocol, Regular, Counting, Contents, Pending, Progress, DeviceExecute, pc = "poll",
         wanted' = wanted
  PROVE  Progress'
<1>1. /\ UNCHANGED <<callVars, pc, posVars, erase_address, last_erased_page, cmd, request>>
      /\ UNCHANGED <<job, transferSize, target, element, p, erase_address, last_erased_page>>
      /\ UNCHANGED <<dfuse_address, bFirstAddressSaved>>
      /\ Site' = Site /\ Site = "poll" /\ dev.work /\ dev.state = "dfuDNBUSY"
      /\ dev' = Programmed(dev)
  BY DEF DeviceExecute, Executing, callVars, posVars, imageVars, Site
<1>2. Harmless(request)  BY <1>1 DEF Pending
<1>3. pointer = address  BY DEF Progress, Aimed
<1>4. request.kind = "data" /\ AddressesFrom(request.address, request.size) = Chunk
  BY <1>3 DEF Protocol, Asked, ChunkRequest, Chunk
<1>5. Program(Chunk)  BY <1>4 DEF DeviceExecute
<1>6. /\ DOMAIN flash' = DOMAIN flash \cup Chunk /\ blank' = blank \ Chunk /\ pointer' = pointer
      /\ \A a \in Chunk : Writeable(a)
  <2> DEFINE S == Chunk
  <2>1. S = AddressesFrom(request.address, request.size) /\ Program(S)  BY <1>4, <1>5
  <2> HIDE DEF S
  <2>2. /\ DOMAIN flash' = DOMAIN flash \cup S /\ blank' = blank \ S /\ pointer' = pointer
        /\ \A a \in S : Writeable(a)
    BY <1>2, <1>4, <2>1, ProgramHarmless
  <2>3. QED  BY <2>2 DEF S
<1>7. /\ address' = address /\ End' = End /\ Chunk' = Chunk /\ AllAddresses' = AllAddresses
      /\ \A a : Page(a)' = Page(a) /\ SizeAt(a)' = SizeAt(a)
      /\ \A a : Eraseable(a)' = Eraseable(a)
  BY <1>1, PlaceKept
<1>8. Site \in ElementSites /\ Site \in ChunkSites /\ p < Current.size
  BY <1>1 DEF ElementSites, ChunkSites, Types, Standing
<1>9. /\ address \in Nat /\ End \in Nat
      /\ \A a : a \in Chunk <=> a \in Nat /\ address <= a /\ a < End
  BY <1>8, ChunkClaimed
<1>10. Stored'
  <2>1. Written' = Written  BY <1>1, WrittenKept
  <2>2. ~Burnt  BY <1>1 DEF Burnt
  <2>3. Burnt'
    <3>1. dev \in Devices  BY DEF Types, Unit
    <3>2. dev.ok  BY <1>1 DEF Protocol, Sane
    <3>3. Programmed(dev).ok = dev.ok /\ Programmed(dev).work = FALSE  BY <3>1, DeviceFields
    <3>4. dev'.ok  BY <1>1, <3>2, <3>3
    <3>5. ~dev'.work  BY <1>1, <3>3
    <3>6. QED  BY <1>1, <3>4, <3>5 DEF Burnt
  <2>4. DOMAIN flash = Written  BY <2>2 DEF Progress, Stored
  <2>5. QED  BY <1>6, <1>7, <2>1, <2>3, <2>4 DEF Stored
<1>11. Ordered' /\ Carried'  BY <1>1 DEF Ordered, Carried
<1>12. Aimed'  BY <1>1, <1>3, <1>6, <1>7 DEF Aimed
<1>13. FirstKept'  BY <1>1, FirstKeptStays DEF Progress
<1>14. Fresh \cup DOMAIN flash \subseteq Fresh' \cup DOMAIN flash'
  <2>1. Fresh = blank /\ blank' \subseteq Fresh'  BY DEF Fresh, Coming
  <2>2. QED  BY <1>6, <2>1
<1>15. Cleared'  BY <1>1, <1>7, <1>14 DEF Progress, Pages, Cleared
<1>16. Loop' /\ Covered'  BY <1>1 DEF Loop, Covered
<1>17. TailErased'  BY <1>1, <1>7 DEF Progress, Pages, TailErased
<1>18. Remembered'
  <2>1. SUFFICES ASSUME last_erased_page # 1  PROVE Remembered'  BY <1>1 DEF Remembered
  <2>2. /\ Eraseable(last_erased_page) /\ last_erased_page % SizeAt(last_erased_page) = 0
        /\ Page(last_erased_page) \subseteq Fresh \cup DOMAIN flash
    BY <2>1 DEF Progress, Pages, Remembered
  <2>3. PICK w \in Page(last_erased_page) : w \in DOMAIN flash \/ w \in Chunk
    BY <1>1, <2>1 DEF Progress, Pages, Remembered
  <2>4. w \in DOMAIN flash'  BY <1>6, <2>3
  <2>5. /\ Eraseable(last_erased_page)' /\ (last_erased_page % SizeAt(last_erased_page) = 0)'
        /\ Page(last_erased_page)' = Page(last_erased_page)
    BY <1>1, <2>2 DEF Eraseable, SizeAt, Page
  <2>6. Page(last_erased_page) \subseteq Fresh' \cup DOMAIN flash'  BY <1>14, <2>2
  <2>7. QED  BY <2>3, <2>4, <2>5, <2>6 DEF Remembered
<1>19. LastReached'
  <2> DEFINE l == last_erased_page
  <2>1. SUFFICES ASSUME ~job.massErase, NEW w \in DOMAIN flash', Eraseable(w)
                 PROVE  l # 1 /\ w < l + SizeAt(l)
    BY <1>1, <1>7 DEF LastReached, SizeAt, Eraseable
  <2>2. CASE w \in DOMAIN flash  BY <2>1, <2>2 DEF Progress, Pages, LastReached
  <2>3. CASE w \in Chunk
    <3>1. Eraseable(address)  BY <1>6, <1>8, <2>1, <2>3, PlainChunk
    <3>2. l # 1 /\ End - 1 \in Page(l)
      BY <1>1, <2>1, <3>1 DEF Progress, Pages, TailErased
    <3>3. Eraseable(l) /\ l % SizeAt(l) = 0  BY <3>2 DEF Progress, Pages, Remembered
    <3>4. SegmentsAt(job.memory, l) # {}  BY <3>3 DEF Eraseable, isAddressEraseable
    <3>5. job.memory \in Seq(MemSegments) /\ RegularMap(job.memory) /\ l \in Nat
      BY JobTypes DEF Types, Call, Control, Regular
    <3> DEFINE k == SizeAt(l)
               f == PageStart(l, k)
    <3>6. k \in Nat \ {0} /\ k > 1 /\ IsPowerOfTwo(k) /\ Page(l) = f .. f + k - 1 /\ f \in Nat
      <4>1. k \in Nat \ {0} /\ k > 1 /\ IsPowerOfTwo(k)  BY <3>4, <3>5, PageSizes DEF SizeAt
      <4>2. Page(l) = f .. f + k - 1 /\ f \in Nat  BY <3>4, <3>5, PageOf DEF SizeAt, Page
      <4>3. QED  BY <4>1, <4>2
    <3>7. f = l  BY <3>3, <3>5, <3>6, StartOfStart
    <3>8. w \in Nat /\ w < End  BY <1>9, <2>3
    <3> HIDE DEF f, k, l
    <3>9. End - 1 < l + k  BY <1>9, <3>2, <3>5, <3>6, <3>7
    <3>10. w < l + k  BY <1>9, <3>5, <3>6, <3>8, <3>9
    <3>11. QED  BY <3>2, <3>10 DEF k
  <2>4. QED  BY <1>6, <2>1, <2>2, <2>3
<1>20. QED
  BY <1>10, <1>11, <1>12, <1>13, <1>15, <1>16, <1>17, <1>18, <1>19 DEF Progress, Pages

(* What the device does on its own.                                        *)
LEMMA DeviceProgress ==
  ASSUME Types, Protocol, Regular, Counting, Contents, Pending, Progress, Device, Alive,
         wanted' = wanted
  PROVE  Progress'
<1>1. UNCHANGED <<callVars, pc, posVars, erase_address, last_erased_page, cmd, request>>
  BY DEF Device, DeviceExecute, DeviceManifest, DeviceFail
<1>2. dev.work /\ dev.state \in {"dfuDNBUSY", "dfuMANIFEST"} /\ dev.ok
  <2>1. dev.work /\ dev.state \in {"dfuDNBUSY", "dfuMANIFEST"}
    BY DEF Device, DeviceExecute, DeviceManifest, DeviceFail, Executing, Manifesting
  <2>2. QED  BY <2>1 DEF Protocol, Sane
<1>3. ~Burnt  BY <1>2 DEF Burnt
<1>4. CASE DeviceFail
  <2>1. ~dev'.ok  BY <1>4 DEF DeviceFail, InError
  <2>2. Carried' /\ ~Burnt'  BY <2>1 DEF Carried, Burnt
  <2>3. UNCHANGED memVars  BY <1>4 DEF DeviceFail
  <2>4. QED  BY <1>1, <1>3, <2>2, <2>3, DeviceFrame
<1>5. CASE pc \notin {"status", "poll"} /\ UNCHANGED memVars
  <2>1. Carried' /\ ~Burnt'  BY <1>1, <1>5 DEF Carried, Burnt
  <2>2. QED  BY <1>1, <1>3, <1>5, <2>1, DeviceFrame
<1>6. CASE DeviceManifest
  <2>1. dev.state = "dfuMANIFEST"  BY <1>6 DEF DeviceManifest, Manifesting
  <2>2. pc \notin {"status", "poll"}  BY <1>2, <2>1 DEF Protocol, Asked
  <2>3. UNCHANGED memVars  BY <1>6 DEF DeviceManifest
  <2>4. QED  BY <1>5, <2>2, <2>3
<1>7. CASE DeviceExecute
  <2>1. CASE pc = "status"  BY <1>7, <2>1, CommandExecuted
  <2>2. CASE pc = "poll"  BY <1>7, <2>2, ChunkExecuted
  <2>3. CASE pc \notin {"status", "poll"}
    <3>1. dev.state = "dfuDNBUSY"  BY <1>7 DEF DeviceExecute, Executing
    <3>2. request = NoRequest
      <4>1. ~Ready /\ ~Idle  BY <3>1 DEF Ready, Idle
      <4>2. pc \in PCs /\ pc \notin {"failed", "unprotected"}  BY DEF Types, Control, Alive
      <4>3. Quiet  BY DEF Protocol
      <4>4. QED  BY <2>3, <3>1, <4>1, <4>2, <4>3 DEF Quiet, PCs, ReadySites
    <3>3. request.kind = "none"  BY <3>2 DEF NoRequest
    <3>4. UNCHANGED memVars  BY <1>7, <3>3 DEF DeviceExecute
    <3>5. QED  BY <1>5, <2>3, <3>4
  <2>4. QED  BY <2>1, <2>2, <2>3
<1>8. QED  BY <1>4, <1>6, <1>7 DEF Device

(* A step that changes nothing.                                            *)
LEMMA StandStill ==
  ASSUME Progress, UNCHANGED vars, wanted' = wanted
  PROVE  Progress'
<1>1. /\ UNCHANGED <<job, transferSize, target, element, p, erase_address, last_erased_page>>
      /\ UNCHANGED <<flash, blank, pointer, dfuse_address, bFirstAddressSaved, pc, cmd, dev>>
      /\ Site' = Site
  BY DEF vars, Site
<1>2. /\ address' = address /\ Chunk' = Chunk /\ AllAddresses' = AllAddresses
      /\ \A a : Page(a)' = Page(a)
  BY <1>1, PlaceKept
<1>3. Fresh' = Fresh  BY <1>1, PlaceKept DEF Fresh, Coming
<1>4. Pages'  BY <1>1, <1>3, PagesKept DEF Progress
<1>5. Stored'
  <2>1. Written' = Written  BY <1>1, WrittenKept
  <2>2. Burnt' <=> Burnt  BY <1>1 DEF Burnt
  <2>3. CASE Burnt  BY <1>1, <1>2, <2>1, <2>2, <2>3 DEF Progress, Stored
  <2>4. CASE ~Burnt  BY <1>1, <1>2, <2>1, <2>2, <2>4 DEF Progress, Stored
  <2>5. QED  BY <2>3, <2>4
<1>6. Ordered'
  <2>1. CommandRequest' = CommandRequest  BY <1>1 DEF CommandRequest
  <2>2. pc \in {"command", "status"} => Harmless(CommandRequest)  BY DEF Progress, Ordered
  <2>3. QED  BY <1>1, <2>1, <2>2, HarmlessKept DEF Ordered
<1>7. Carried'  BY <1>1, <1>2 DEF Progress, Carried, Page
<1>8. Aimed'  BY <1>1, <1>2 DEF Progress, Aimed
<1>9. FirstKept'  BY <1>1, FirstKeptStays DEF Progress
<1>10. QED  BY <1>4, <1>5, <1>6, <1>7, <1>8, <1>9 DEF Progress

-------------------------------------------------------------------------------
(***************************************************************************)
(* The invariant, and the theorems about regular jobs.                     *)
(***************************************************************************)

(* The invariant holds before run() is called.                             *)
LEMMA InitInv == Init /\ Regular => Inv
<1>1. SUFFICES ASSUME Init, Regular  PROVE Inv  OBVIOUS
<1>2. Types /\ Protocol /\ Counting  BY <1>1, InitTypes, InitProtocol, InitCounting
<1>3. /\ pc = "start" /\ target = 0 /\ element = 0 /\ last_erased_page = 1 /\ dfuse_address = 0
      /\ bFirstAddressSaved = FALSE /\ flash = Restrict(wanted, {}) /\ spoiled = {}
      /\ request = NoRequest /\ Call
  BY <1>1, <1>2 DEF Init, Types
<1>4. Site = "start"  BY <1>3 DEF Site
<1>5. DOMAIN flash = {}  BY <1>3 DEF Restrict
<1>6. Contents  BY <1>3, <1>5 DEF Contents
<1>7. Pending
  <2>1. request.kind = "none"  BY <1>3 DEF NoRequest
  <2>2. QED  BY <2>1 DEF Pending, Harmless
<1>8. Stored
  <2>1. Written = {}  BY <1>3, NothingWritten
  <2>2. QED  BY <1>3, <1>5, <2>1 DEF Stored, Burnt
<1>9. Ordered /\ Carried /\ Aimed  BY <1>3 DEF Ordered, Carried, Aimed
<1>10. Pages
  BY <1>3, <1>4, <1>5 DEF Pages, Cleared, Loop, Covered, TailErased, Remembered, LastReached
<1>11. FirstKept
  <2>1. \A i \in 1 .. 0 : FALSE  OBVIOUS
  <2>2. QED  BY <1>3, <2>1 DEF FirstKept
<1>12. QED  BY <1>1, <1>2, <1>6, <1>7, <1>8, <1>9, <1>10, <1>11 DEF Inv, Progress

(* Progress is kept by every step of run().                                *)
LEMMA HostProgress ==
  ASSUME Inv, Types', Counting', Regular', Host, wanted' = wanted, Alive'
  PROVE  Progress'
<1>1. Alive
  BY DEF Alive, Host, Begin, CommandSend, CommandStatus, OpenFile, NextImage, EndOfImage, NextElement,
     NextChunk, ErasePages, EraseTail, SetAddress, WriteChunk, PollChunk, SendAbort, CheckAborted,
     SendLeave, PollLeave
<1>2. Types /\ Protocol /\ Regular /\ Counting /\ Progress  BY <1>1 DEF Inv
<1>3. CASE Begin  BY <1>2, <1>3, BeginProgress
<1>4. CASE CommandSend  BY <1>2, <1>4, CommandSendProgress
<1>5. CASE CommandStatus  BY <1>2, <1>5, CommandStatusProgress
<1>6. CASE OpenFile  BY <1>2, <1>6, OpenFileProgress
<1>7. CASE NextImage  BY <1>2, <1>7, NextImageProgress
<1>8. CASE EndOfImage  BY <1>2, <1>8, EndOfImageProgress
<1>9. CASE NextElement  BY <1>2, <1>9, NextElementProgress
<1>10. CASE NextChunk  BY <1>2, <1>10, NextChunkProgress
<1>11. CASE ErasePages  BY <1>2, <1>11, ErasePagesProgress
<1>12. CASE EraseTail  BY <1>2, <1>12, EraseTailProgress
<1>13. CASE SetAddress  BY <1>2, <1>13, SetAddressProgress
<1>14. CASE WriteChunk  BY <1>2, <1>14, WriteChunkProgress
<1>15. CASE PollChunk  BY <1>2, <1>15, PollChunkProgress
<1>16. CASE SendAbort  BY <1>2, <1>16, SendAbortProgress
<1>17. CASE CheckAborted  BY <1>2, <1>17, CheckAbortedProgress
<1>18. CASE SendLeave  BY <1>2, <1>18, SendLeaveProgress
<1>19. CASE PollLeave  BY <1>2, <1>19, PollLeaveProgress
<1>20. QED
  BY <1>3, <1>4, <1>5, <1>6, <1>7, <1>8, <1>9, <1>10, <1>11, <1>12, <1>13, <1>14, <1>15, <1>16, <1>17,
     <1>18, <1>19 DEF Host

(* No step changes the job.                                                *)
LEMMA StepJob == [Next]_vars => job' = job
BY DEF Next, Host, Device, Begin, CommandSend, CommandStatus, OpenFile, NextImage, EndOfImage,
   NextElement, NextChunk, ErasePages, EraseTail, SetAddress, WriteChunk, PollChunk, SendAbort,
   CheckAborted, SendLeave, PollLeave, DeviceExecute, DeviceManifest, DeviceFail, vars, callVars

(* The invariant is kept by every step, and the file goes on wanting the   *)
(* same.                                                                   *)
LEMMA StepInv == Inv /\ [Next]_vars => Inv' /\ wanted' = wanted
<1>1. SUFFICES ASSUME Inv, [Next]_vars  PROVE Inv' /\ wanted' = wanted  OBVIOUS
<1>2. /\ Types /\ Protocol /\ Regular /\ Counting /\ Contents /\ Pending /\ (Alive => Progress)
  BY <1>1 DEF Inv
<1>3. Types' /\ Protocol' /\ Counting'  BY <1>1, <1>2, StepTypes, StepProtocol, StepCounting
<1>4. job' = job /\ Call /\ Call'  BY <1>1, <1>2, <1>3, StepJob DEF Types
<1>5. Regular'  BY <1>2, <1>4, RegularKept
<1>6. wanted' = wanted  BY <1>2, <1>4, WantedKept
<1>7. Contents'  BY <1>1, <1>2, <1>6, ContentsStep
<1>8. Pending'  BY <1>1, <1>2, <1>6, PendingStep
<1>9. ASSUME Alive'  PROVE Progress'
  <2>1. CASE Host  BY <1>1, <1>3, <1>5, <1>6, <1>9, <2>1, HostProgress
  <2>2. CASE Device
    <3>1. pc' = pc  BY <2>2 DEF Device, DeviceExecute, DeviceManifest, DeviceFail
    <3>2. Alive  BY <1>9, <3>1 DEF Alive
    <3>3. QED  BY <1>2, <1>6, <2>2, <3>2, DeviceProgress
  <2>3. CASE UNCHANGED vars
    <3>1. Alive  BY <1>9, <2>3 DEF Alive, vars
    <3>2. QED  BY <1>2, <1>6, <2>3, <3>1, StandStill
  <2>4. QED  BY <1>1, <2>1, <2>2, <2>3 DEF Next
<1>10. QED  BY <1>3, <1>5, <1>6, <1>7, <1>8, <1>9 DEF Inv

(* The invariant holds in every state of a regular job.                    *)
LEMMA InvHolds == Spec /\ Regular => []Inv
<1>1. Init /\ Regular => Inv  BY InitInv
<1>2. Inv /\ [Next]_vars => Inv'  BY StepInv
<1>3. QED  BY <1>1, <1>2, PTL DEF Spec

(* No eraseable address is programmed without having been erased first,    *)
(* whatever pages the chunks touch.                                        *)
THEOREM ErasedBeforeWritten == Spec /\ Regular => []ErasedFirst
<1>1. Inv => ErasedFirst  BY DEF Inv, Contents, ErasedFirst
<1>2. QED  BY <1>1, InvHolds, PTL

(* The page that is not erased again holds nothing but erased addresses    *)
(* and bytes of this run.                                                  *)
THEOREM LastPageClean == Spec /\ Regular => []RememberedPage
<1>1. Inv => RememberedPage
  <2>1. SUFFICES ASSUME Inv, pc \notin {"command", "status", "failed"}, last_erased_page # 1
                 PROVE  PageAt(job.memory, last_erased_page) \subseteq blank \cup DOMAIN flash
    BY DEF RememberedPage
  <2>2. pc # "unprotected"
    <3>1. pc = "unprotected" => Site = "unprotected"  BY DEF Site
    <3>2. QED  BY <2>1, <3>1 DEF Inv, Counting
  <2>3. Fresh = blank  BY <2>1 DEF Fresh, Coming
  <2>4. Progress  BY <2>1, <2>2 DEF Inv, Alive
  <2>5. QED  BY <2>1, <2>3, <2>4 DEF Progress, Pages, Remembered, Page
<1>2. QED  BY <1>1, InvHolds, PTL

(* At the end all of the file is in.                                       *)
LEMMA Complete ==
  ASSUME Inv, pc \in {"aborted", "leaving"}
  PROVE  flash = wanted
<1>1. Types /\ Regular /\ Counting /\ Progress /\ Contents  BY DEF Inv, Alive
<1>2. Site \in EndedSites /\ Site \notin ElementSites  BY DEF Site, EndedSites, ElementSites
<1>3. /\ target = job.file.targetsCount
      /\ target = 0 \/ element = Len(images[target].elements)
  BY <1>1, <1>2 DEF Counting
<1>4. Call /\ images \in Seq(Images)  BY <1>1, JobTypes DEF Types, Call
<1>5. \A c \in Claims : Earlier(c, Here) \/ c = Here
  <2>1. SUFFICES ASSUME NEW c \in Claims  PROVE Earlier(c, Here) \/ c = Here  OBVIOUS
  <2>2. /\ c = <<c[1], c[2]>> /\ c[1] \in 1 .. Len(images) /\ c[1] \in Nat
        /\ c[2] \in 1 .. Len(images[c[1]].elements) /\ c[2] \in Nat /\ c[1] <= target
    BY <1>3, <1>4, ClaimTypes
  <2>3. target \in Nat  BY <1>1, <1>4 DEF Types, Place
  <2>4. c[1] = target => c[2] <= element
    <3>1. SUFFICES ASSUME c[1] = target  PROVE c[2] <= element  OBVIOUS
    <3>2. target # 0  BY <2>2, <3>1
    <3>3. images[target] \in Images  BY <1>4, <2>2, <3>1
    <3>4. Len(images[target].elements) \in Nat  BY <3>3 DEF Images
    <3>5. QED  BY <1>3, <2>2, <3>1, <3>2, <3>4
  <2>5. Here = <<target, element>> /\ Here[1] = target /\ Here[2] = element  BY DEF Here
  <2>6. element \in Nat
    <3>1. CASE target = 0  BY <2>2, <3>1
    <3>2. CASE target # 0
      <4>1. target \in 1 .. Len(images)  BY <1>1, <1>4, <2>3, <3>2 DEF Types, Place
      <4>2. images[target] \in Images  BY <1>4, <4>1
      <4>3. Len(images[target].elements) \in Nat  BY <4>2 DEF Images
      <4>4. QED  BY <1>3, <3>2, <4>3
    <3>3. QED  BY <3>1, <3>2
  <2>7. CASE c[1] < target  BY <2>5, <2>7 DEF Earlier
  <2>8. CASE c[1] = target /\ c[2] < element  BY <2>5, <2>8 DEF Earlier
  <2>9. CASE c[1] = target /\ c[2] = element  BY <2>2, <2>5, <2>9
  <2>10. QED  BY <2>2, <2>3, <2>4, <2>6, <2>7, <2>8, <2>9
<1>6. Written = DOMAIN wanted
  <2>1. Written = {a \in DOMAIN wanted : \E c \in Claims :
                     a \in ClaimedBy(c) /\ (Earlier(c, Here) \/ c = Here)}
    BY <1>2 DEF Written
  <2>2. QED  BY <1>5, <2>1, WantedDomain
<1>7. DOMAIN flash = DOMAIN wanted  BY <1>1, <1>6 DEF Progress, Stored, Burnt
<1> DEFINE w == wanted
<1>8. flash = Restrict(w, DOMAIN w)  BY <1>1, <1>7 DEF Contents
<1>9. w = [a \in DOMAIN w |-> w[a]]  BY <1>1, <1>4, WantedAll
<1> HIDE DEF w
<1>10. flash = w  BY <1>8, <1>9 DEF Restrict
<1>11. QED  BY <1>10 DEF w

(* At the end the address kept is the first that the file names.           *)
LEMMA FirstAddressKept ==
  ASSUME Inv, pc = "leaving"
  PROVE  dfuse_address = FirstAddress(SubSeq(images, 1, job.file.targetsCount))
<1>1. Types /\ Counting /\ FirstKept  BY DEF Inv, Alive, Progress
<1>2. Site \in EndedSites  BY DEF Site, EndedSites
<1>3. /\ target = job.file.targetsCount
      /\ target = 0 \/ element = Len(images[target].elements)
  BY <1>1, <1>2 DEF Counting
<1>4. images \in Seq(Images) /\ target \in 0 .. Len(images)  BY <1>1, JobTypes DEF Types, Call, Place
<1> DEFINE list == SubSeq(images, 1, target)
           used == {i \in DOMAIN list : list[i].elements # << >>}
           first == CHOOSE i \in used : \A k \in used : i <= k
<1>5. DOMAIN list = 1 .. target /\ \A i \in 1 .. target : list[i] = images[i]  BY <1>4
<1> HIDE DEF list
<1>6. used = {i \in 1 .. target : images[i].elements # << >>}  BY <1>5
<1>7. FirstAddress(list) = IF used = {} THEN 0 ELSE list[first].elements[1].address
  BY DEF FirstAddress
<1> HIDE DEF used
<1>8. dfuse_address = FirstAddress(list)
  <2>1. CASE bFirstAddressSaved
    <3>1. PICK i \in 1 .. target : /\ images[i].elements # << >>
                                   /\ dfuse_address = images[i].elements[1].address
                                   /\ \A k \in 1 .. i - 1 : images[k].elements = << >>
      BY <1>1, <2>1 DEF FirstKept
    <3>2. i \in used /\ i \in Nat  BY <1>4, <1>6, <3>1
    <3>3. \A k \in used : k \in Nat /\ i <= k
      <4>1. SUFFICES ASSUME NEW k \in used  PROVE k \in Nat /\ i <= k  OBVIOUS
      <4>2. k \in 1 .. target /\ images[k].elements # << >>  BY <1>6
      <4>3. k \notin 1 .. i - 1  BY <3>1, <4>2
      <4>4. QED  BY <1>4, <3>2, <4>2, <4>3
    <3>4. first = i
      <4>1. \A j \in used : (\A k \in used : j <= k) => j = i  BY <3>2, <3>3
      <4>2. QED  BY <3>2, <3>3, <4>1
    <3>5. QED  BY <1>5, <1>7, <3>1, <3>2, <3>4
  <2>2. CASE ~bFirstAddressSaved
    <3>1. /\ dfuse_address = 0 /\ (target # 0 => element = 0)
          /\ \A i \in 1 .. target : i < target => images[i].elements = << >>
      BY <1>1, <2>2 DEF FirstKept
    <3>2. \A i \in 1 .. target : images[i].elements = << >>
      <4>1. SUFFICES ASSUME NEW i \in 1 .. target, i = target  PROVE images[i].elements = << >>
        BY <1>4, <3>1
      <4>2. images[target] \in Images  BY <1>4, <4>1
      <4>3. images[target].elements \in Seq(Elements)  BY <4>2 DEF Images
      <4>4. Len(images[target].elements) = 0  BY <1>3, <1>4, <3>1, <4>1
      <4>5. QED  BY <4>1, <4>3, <4>4
    <3>3. used = {}  BY <1>6, <3>2
    <3>4. QED  BY <1>7, <3>1, <3>3
  <2>3. QED  BY <2>1, <2>2
<1>9. QED  BY <1>3, <1>8 DEF list

(* A device is told to leave only when it holds all of the file, with its  *)
(* pointer at the first address the file names.                            *)
THEOREM LeftComplete == Spec /\ Regular => []LeavesComplete
<1>1. Inv => LeavesComplete
  <2>1. SUFFICES ASSUME Inv, pc = "leaving"
                 PROVE  flash = wanted /\ pointer = FirstAddress(SubSeq(images, 1, job.file.targetsCount))
    BY DEF LeavesComplete
  <2>2. flash = wanted  BY <2>1, Complete
  <2>3. pointer = dfuse_address  BY <2>1 DEF Inv, Alive, Progress, Aimed
  <2>4. QED  BY <2>1, <2>2, <2>3, FirstAddressKept
<1>2. QED  BY <1>1, InvHolds, PTL

-------------------------------------------------------------------------------
(***************************************************************************)
(* Refinement of FlashDownload.                                            *)
(***************************************************************************)
LEMMA FlashInit == Init => Flash!Init
<1>1. SUFFICES ASSUME Init  PROVE Flash!Init  OBVIOUS
<1>2. pc = "start" /\ flash = Restrict(wanted, {})  BY <1>1 DEF Init
<1>3. outcome = "running"  BY <1>2 DEF outcome
<1>4. flash = Flash!Restrict(wanted, {})  BY <1>2 DEF Restrict, Flash!Restrict
<1>5. QED  BY <1>3, <1>4 DEF Flash!Init

(* Where the outcome of run() is settled.                                  *)
LEMMA Settled ==
  ASSUME Types, Protocol, [Next]_vars
  PROVE  \/ outcome' = outcome
         \/ outcome = "running" /\ outcome' = "failed" /\ UNCHANGED memVars
         \/ outcome = "running" /\ outcome' = "done" /\ pc \in {"aborted", "leaving"}
              /\ UNCHANGED memVars
         \/ outcome = "running" /\ outcome' = "unprotected" /\ pc = "status"
              /\ cmd.then = "unprotected" /\ UNCHANGED memVars
<1>1. CASE Device \/ UNCHANGED vars
  BY <1>1 DEF Device, DeviceExecute, DeviceManifest, DeviceFail, vars, outcome
<1>2. CASE Host
  <2>1. UNCHANGED memVars
    BY <1>2 DEF Host, Begin, CommandSend, CommandStatus, OpenFile, NextImage, EndOfImage,
       NextElement, NextChunk, ErasePages, EraseTail, SetAddress, WriteChunk, PollChunk, SendAbort,
       CheckAborted, SendLeave, PollLeave, memVars
  <2>2. pc \notin {"done", "unprotected", "failed"}
    BY <1>2 DEF Host, Begin, CommandSend, CommandStatus, OpenFile, NextImage, EndOfImage,
       NextElement, NextChunk, ErasePages, EraseTail, SetAddress, WriteChunk, PollChunk, SendAbort,
       CheckAborted, SendLeave, PollLeave
  <2>3. pc' = "done" => pc \in {"aborted", "leaving"}
    <3>1. CASE CommandStatus
      <4>1. pc' \in {"failed", "status", cmd.then} /\ cmd.then \in Thens
        BY <3>1, CommandStatusProtocol DEF Types, Control
      <4>2. QED  BY <4>1 DEF Thens
    <3>2. CASE NextElement  BY <3>2, NextElementTypes
    <3>3. CASE PollChunk  BY <3>3, PollChunkProtocol
    <3>4. CASE ~CommandStatus /\ ~NextElement /\ ~PollChunk
      BY <1>2, <3>4 DEF Host, Begin, CommandSend, OpenFile, NextImage, EndOfImage, NextChunk,
         ErasePages, EraseTail, SetAddress, WriteChunk, SendAbort, CheckAborted, SendLeave, PollLeave,
         Send, Fail, specialCommand
    <3>5. QED  BY <3>1, <3>2, <3>3, <3>4
  <2>4. pc' = "unprotected" => pc = "status" /\ cmd.then = "unprotected"
    <3>1. CASE CommandStatus
      <4>1. pc' \in {"failed", "status", cmd.then} /\ pc = "status"
        BY <3>1, CommandStatusProtocol
      <4>2. QED  BY <4>1
    <3>2. CASE NextElement  BY <3>2, NextElementTypes
    <3>3. CASE PollChunk  BY <3>3, PollChunkProtocol
    <3>4. CASE PollLeave  BY <3>4, PollLeaveProtocol
    <3>5. CASE ~CommandStatus /\ ~NextElement /\ ~PollChunk /\ ~PollLeave
      BY <1>2, <3>5 DEF Host, Begin, CommandSend, OpenFile, NextImage, EndOfImage, NextChunk,
         ErasePages, EraseTail, SetAddress, WriteChunk, SendAbort, CheckAborted, SendLeave,
         Send, Fail, specialCommand
    <3>6. QED  BY <3>1, <3>2, <3>3, <3>4, <3>5
  <2>5. QED  BY <2>1, <2>2, <2>3, <2>4 DEF outcome
<1>3. QED  BY <1>1, <1>2 DEF Next

(* Each step is one of FlashDownload, or a stutter.                        *)
LEMMA FlashStep ==
  ASSUME Inv, [Next]_vars
  PROVE  [Flash!Next]_(Flash!vars)
<1>1. Inv' /\ wanted' = wanted  BY StepInv
<1>2. Types /\ Protocol /\ Contents /\ Pending /\ Contents'  BY <1>1 DEF Inv
<1>3. DOMAIN flash \subseteq DOMAIN flash'  BY <1>1, <1>2, ContentsStep
<1>4. CASE outcome' = outcome
  <2>1. /\ DOMAIN flash' \subseteq DOMAIN wanted /\ flash' = Restrict(wanted, DOMAIN flash')
    BY <1>1, <1>2 DEF Contents
  <2>2. flash' = Flash!Restrict(wanted, DOMAIN flash')  BY <2>1 DEF Restrict, Flash!Restrict
  <2>3. Flash!Store  BY <1>1, <1>3, <1>4, <2>1, <2>2 DEF Flash!Store
  <2>4. QED  BY <2>3 DEF Flash!Next
<1>5. CASE outcome = "running" /\ outcome' = "failed" /\ UNCHANGED memVars
  BY <1>1, <1>5 DEF Flash!Next, Flash!Fail, memVars
<1>6. CASE outcome = "running" /\ outcome' = "done" /\ pc \in {"aborted", "leaving"} /\ UNCHANGED memVars
  <2>1. flash = wanted  BY <1>6, Complete
  <2>2. QED  BY <1>1, <1>6, <2>1 DEF Flash!Next, Flash!Finish, memVars
<1>7. CASE outcome = "running" /\ outcome' = "unprotected" /\ pc = "status"
             /\ cmd.then = "unprotected" /\ UNCHANGED memVars
  <2>1. Site = "unprotected"  BY <1>7 DEF Site
  <2>2. target = 0 /\ element = 0 /\ Call  BY <2>1 DEF Inv, Counting, Types
  <2>3. Written = {}  BY <2>2, NothingWritten
  <2>4. DOMAIN flash = {}  BY <1>7, <2>3 DEF Inv, Alive, Progress, Stored, Burnt
  <2>5. QED  BY <1>1, <1>7, <2>4 DEF Flash!Next, Flash!Finish, memVars
<1>8. QED  BY <1>2, <1>4, <1>5, <1>6, <1>7, Settled

(* The run implements FlashDownload: a byte of the file that has reached   *)
(* the memory stays there, and run() returns normally only when all are in.*)
THEOREM FlashRefinement == Spec /\ Regular => ImplementsFlash
<1>1. Init => Flash!Init  BY FlashInit
<1>2. Inv /\ [Next]_vars => [Flash!Next]_(Flash!vars)  BY FlashStep
<1>3. QED  BY <1>1, <1>2, InvHolds, PTL DEF Spec, ImplementsFlash, Flash!Spec
===============================================================================
