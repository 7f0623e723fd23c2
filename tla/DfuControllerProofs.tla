--------------------------- MODULE DfuControllerProofs ---------------------------
(***************************************************************************)
(* Proofs about DfuController for every set of jobs, every page size and   *)
(* every width of wBlockNum.  TypeOK is inductive by itself; Delivery is   *)
(* inductive given TypeOK; the refinement of StreamDownload and the action *)
(* property NeverRefused follow from both.  Numbering is inductive given   *)
(* TypeOK; BlockNumbered, BlockFits and ProgressMonotone follow from it.   *)
(***************************************************************************)
EXTENDS DfuController, DfuDeviceProofs, SequenceTheorems, TLAPS

LEMMA TransferSizePositive ==
  ASSUME NEW j \in Jobs, j.wTransferSize # 0
  PROVE  getDefaultTransferSize(j) \in Nat \ {0}
BY JobsAssumption, PageSizeAssumption DEF getDefaultTransferSize

(* The file that is sent is never longer than the file that was read.      *)
LEMMA ExpectedSize ==
  ASSUME job \in Jobs
  PROVE  expected_size \in Nat
BY JobsAssumption, SuffixAssumption DEF expected_size

LEMMA ImageType ==
  ASSUME NEW img \in Seq(Nat), NEW b \in [from : Nat, len : Nat, num : Nat]
  PROVE  img \o [i \in 1 .. b.len |-> b.from + i - 1] \in Seq(Nat)
<1>1. [i \in 1 .. b.len |-> b.from + i - 1] \in Seq(Nat)
  <2>1. b.len \in Nat /\ b.from \in Nat  OBVIOUS
  <2>2. \A i \in 1 .. b.len : b.from + i - 1 \in Nat  BY <2>1
  <2>3. [i \in 1 .. b.len |-> b.from + i - 1] \in [1 .. b.len -> Nat]  BY <2>2
  <2>4. QED  BY <2>1, <2>3, SeqDef
<1>2. QED  BY <1>1

LEMMA FirstBytesType ==
  ASSUME NEW n \in Nat
  PROVE  /\ FirstBytes(n) \in Seq(Nat) /\ Len(FirstBytes(n)) = n
         /\ \A i \in 1 .. n : FirstBytes(n)[i] = i - 1
<1>1. FirstBytes(n) \in [1 .. n -> Nat]
  <2>1. \A i \in 1 .. n : i - 1 \in Nat  OBVIOUS
  <2>2. QED  BY <2>1 DEF FirstBytes
<1>2. FirstBytes(n) \in Seq(Nat)  BY <1>1, SeqDef
<1>3. DOMAIN FirstBytes(n) = 1 .. n  BY DEF FirstBytes
<1>4. Len(FirstBytes(n)) = n  BY <1>2, <1>3, LenProperties
<1>5. QED  BY <1>2, <1>4 DEF FirstBytes

-------------------------------------------------------------------------------
(* Types.                                                                  *)
LEMMA InitTypeOK == Init => TypeOK
<1> SUFFICES ASSUME Init PROVE TypeOK  OBVIOUS
<1>1. expected_size \in Nat  BY ExpectedSize DEF Init
<1>2. dev \in Devices  BY HandedOverDevices DEF Init
<1>3. block \in [from : Nat, len : Nat, num : Nat]  BY DEF Init, NoBlock
<1>4. image \in Seq(Nat)  BY FirstBytesType DEF Init
<1>5. 0 \in 0 .. BlockNums - 1  BY BlockNumsAssumption
<1>6. QED  BY <1>1, <1>2, <1>3, <1>4, <1>5 DEF Init, TypeOK

LEMMA NextTypeOK == TypeOK /\ [Next]_vars => TypeOK'
<1> SUFFICES ASSUME TypeOK, [Next]_vars PROVE TypeOK'  OBVIOUS
<1>e. expected_size \in Nat  BY ExpectedSize DEF TypeOK
<1>d. dev \in Devices  BY DEF TypeOK
<1>1. CASE Begin
  <2>1. job.wTransferSize # 0 => getDefaultTransferSize(job) \in Nat \ {0}
    BY TransferSizePositive DEF TypeOK
  <2>2. transferSize' \in Nat /\ (pc' = "send" => transferSize' > 0) /\ progress' \in Nat
        /\ pc' \in {"send", "failed"}
    BY <1>1, <2>1 DEF Begin, TypeOK
  <2>3. UNCHANGED <<job, bytes_sent, chunk_size, transaction, dev, block, image>>
    BY <1>1 DEF Begin
  <2>4. QED  BY <2>2, <2>3 DEF TypeOK, expected_size
<1>2. CASE SendChunk
  <2> DEFINE left == expected_size - bytes_sent
             size == NextSize
  <2>1. PICK o \in download(dev) :
          /\ Receive(o, bytes_sent, size, transaction)
          /\ IF o.ret = "error"
               THEN /\ pc' = "failed"
                    /\ UNCHANGED <<bytes_sent, chunk_size, transaction>>
               ELSE /\ pc' = "poll"
                    /\ bytes_sent' = bytes_sent + size
                    /\ chunk_size' = size
                    /\ transaction' = NextTransaction
    BY <1>2 DEF SendChunk
  <2>2. size \in Nat \ {0} /\ size <= left
    BY <1>e, <1>2 DEF TypeOK, SendChunk, NextSize, AllSent
  <2>3. o.dev \in Devices
    BY <1>d, DownloadOutcome
  <2>4. block' \in [from : Nat, len : Nat, num : Nat]
    <3>1. transaction \in Nat /\ bytes_sent \in Nat  BY BlockNumsAssumption, <1>e DEF TypeOK
    <3>2. QED  BY <2>1, <2>2, <3>1 DEF Receive, TypeOK
  <2>5. image' \in Seq(Nat)  BY <2>1, FirstBytesType DEF Receive, TypeOK
  <2>6. NextTransaction \in 0 .. BlockNums - 1
    BY BlockNumsAssumption DEF TypeOK, NextTransaction
  <2>7. expected_size' = expected_size /\ UNCHANGED <<job, transferSize, progress>>
    BY <1>2 DEF SendChunk, expected_size
  <2>8. pc' \in {"failed", "poll"}  BY <2>1
  <2>9. bytes_sent' \in 0 .. expected_size /\ (pc' = "poll" => bytes_sent' > 0)
    BY <1>e, <2>1, <2>2 DEF TypeOK
  <2>10. chunk_size' \in Nat /\ transaction' \in 0 .. BlockNums - 1
    BY <2>1, <2>2, <2>6 DEF TypeOK
  <2>11. dev' \in Devices  BY <2>1, <2>3 DEF Receive
  <2>12. pc = "send"  BY <1>2 DEF SendChunk
  <2>13. QED
    BY <2>4, <2>5, <2>7, <2>8, <2>9, <2>10, <2>11, <2>12 DEF TypeOK
<1>3. CASE PollChunk
  <2>1. \A r \in getStatus(dev) : r.dev \in Devices  BY <1>d, GetStatusOutcome
  <2>2. expected_size' = expected_size  BY <1>3 DEF PollChunk, expected_size
  <2>3. dev' \in Devices /\ pc' \in {"poll", "send", "failed"}
    BY <1>3, <2>1 DEF PollChunk, AfterPoll
  <2>4. progress' \in Nat
    <3> DEFINE sum == expected_size + chunk_size
    <3>1. sum \in Nat \ {0} /\ bytes_sent * 90 \in Nat
      BY <1>e, <1>3 DEF PollChunk, TypeOK
    <3>2. (bytes_sent * 90) \div sum \in Nat  BY <3>1
    <3>3. QED  BY <1>3, <3>2 DEF PollChunk, TypeOK, Percent
  <2>5. UNCHANGED <<job, transferSize, bytes_sent, chunk_size, transaction, block, image>>
        /\ pc = "poll"
    BY <1>3 DEF PollChunk
  <2>6. QED  BY <2>2, <2>3, <2>4, <2>5 DEF TypeOK
<1>4. CASE SendCompletion
  <2>1. \A o \in downloadEnd(dev) : o.dev \in Devices
    BY <1>d, DownloadEndOutcome
  <2>2. QED  BY <1>4, <2>1 DEF SendCompletion, TypeOK, expected_size
<1>5. CASE PollManifest
  <2>1. \A r \in getStatus(dev) : r.dev \in Devices  BY <1>d, GetStatusOutcome
  <2>2. QED  BY <1>5, <2>1 DEF PollManifest, AfterManifestPoll, hostVars, TypeOK, expected_size
<1>6. CASE DeviceProgram
  <2>1. dev' \in Devices  BY <1>6, <1>d, DeviceRecords DEF DeviceProgram
  <2>2. image' \in Seq(Nat)  BY <1>6, ImageType DEF DeviceProgram, TypeOK
  <2>3. QED  BY <1>6, <2>1, <2>2 DEF DeviceProgram, hostVars, TypeOK, expected_size
<1>7. CASE DeviceManifest
  <2>1. job.tolerant \in BOOLEAN  BY JobsAssumption DEF TypeOK
  <2>2. dev' \in Devices  BY <1>7, <1>d, <2>1, DeviceRecords DEF DeviceManifest
  <2>3. QED  BY <1>7, <2>2 DEF DeviceManifest, hostVars, TypeOK, expected_size
<1>8. CASE DeviceFail
  <2>1. dev' \in Devices  BY <1>8, <1>d, DeviceRecords DEF DeviceFail
  <2>2. QED  BY <1>8, <2>1 DEF DeviceFail, hostVars, TypeOK, expected_size
<1>9. CASE UNCHANGED vars  BY <1>9 DEF vars, TypeOK, expected_size
<1>10. QED
  BY <1>1, <1>2, <1>3, <1>4, <1>5, <1>6, <1>7, <1>8, <1>9 DEF Next, Host, Device

(* Every reachable state has its types, whatever the files, the page size  *)
(* and the width of the block counter.                                     *)
THEOREM TypeCorrect == Spec => []TypeOK
BY InitTypeOK, NextTypeOK, PTL DEF Spec

-------------------------------------------------------------------------------
(* Delivery.                                                               *)

(* A block that starts where the image ends makes it a longer prefix.      *)
LEMMA FirstBytesAppend ==
  ASSUME NEW n \in Nat, NEW b \in Nat
  PROVE  FirstBytes(n) \o [i \in 1 .. b |-> n + i - 1] = FirstBytes(n + b)
<1> DEFINE blk == [i \in 1 .. b |-> n + i - 1]
<1>1. blk \in Seq(Nat) /\ Len(blk) = b
  <2>1. \A i \in 1 .. b : n + i - 1 \in Nat  OBVIOUS
  <2>2. blk \in [1 .. b -> Nat]  BY <2>1
  <2>3. blk \in Seq(Nat)  BY <2>2, SeqDef
  <2>4. DOMAIN blk = 1 .. b  OBVIOUS
  <2>5. Len(blk) = b  BY <2>3, <2>4, LenProperties
  <2>6. QED  BY <2>3, <2>5
<1>2. \A i \in 1 .. b : blk[i] = n + i - 1  OBVIOUS
<1> HIDE DEF blk
<1>3. FirstBytes(n) \in Seq(Nat) /\ Len(FirstBytes(n)) = n  BY FirstBytesType
<1>4. FirstBytes(n + b) \in Seq(Nat) /\ Len(FirstBytes(n + b)) = n + b
  BY FirstBytesType
<1>5. /\ FirstBytes(n) \o blk \in Seq(Nat)
      /\ Len(FirstBytes(n) \o blk) = n + b
      /\ \A i \in 1 .. n + b :
           (FirstBytes(n) \o blk)[i] = IF i <= n THEN FirstBytes(n)[i] ELSE blk[i - n]
  <2>1. Len(FirstBytes(n) \o blk) = Len(FirstBytes(n)) + Len(blk)
        /\ FirstBytes(n) \o blk \in Seq(Nat)
    BY <1>1, <1>3, ConcatProperties
  <2>2. \A i \in 1 .. Len(FirstBytes(n)) + Len(blk) :
          (FirstBytes(n) \o blk)[i] = IF i <= Len(FirstBytes(n)) THEN FirstBytes(n)[i]
                                      ELSE blk[i - Len(FirstBytes(n))]
    BY <1>1, <1>3, ConcatProperties
  <2>3. QED  BY <1>1, <1>3, <2>1, <2>2
<1>6. ASSUME NEW i \in 1 .. n + b
      PROVE  (FirstBytes(n) \o blk)[i] = FirstBytes(n + b)[i]
  <2>1. FirstBytes(n + b)[i] = i - 1  BY FirstBytesType
  <2>2. CASE i <= n
    <3>1. i \in 1 .. n  BY <2>2
    <3>2. QED  BY <2>1, <2>2, <3>1, <1>5, FirstBytesType
  <2>3. CASE ~(i <= n)
    <3>1. i - n \in 1 .. b  BY <2>3
    <3>2. blk[i - n] = n + (i - n) - 1  BY <1>2, <3>1
    <3>3. QED  BY <2>1, <2>3, <3>2, <1>5
  <2>4. QED  BY <2>2, <2>3
<1>7. QED  BY <1>4, <1>5, <1>6, SeqEqual DEF blk

LEMMA InitDelivery == Init => Delivery
<1> SUFFICES ASSUME Init PROVE Delivery  OBVIOUS
<1>1. expected_size \in Nat  BY ExpectedSize DEF Init
<1>2. image = FirstBytes(0) /\ Len(image) = 0  BY FirstBytesType DEF Init
<1>3. /\ dev.state \in {"dfuIDLE", "dfuDNBUSY", "dfuDNLOAD_SYNC", "dfuMANIFEST",
                         "dfuMANIFEST_SYNC", "dfuMANIFEST_WAIT_RST", "dfuERROR"}
      /\ dev.ok <=> dev.state # "dfuERROR"
      /\ dev.state = "dfuERROR" => ~dev.work
  BY HandedOverDevices DEF Init
<1>4. Prefix  BY <1>1, <1>2 DEF Prefix
<1>5. PendingBlock  BY DEF Init, PendingBlock, NoBlock
<1>6. ErrorState  BY <1>3 DEF ErrorState
<1>7. BeforeFirst  BY <1>2, <1>3 DEF Init, BeforeFirst
<1>8. BetweenChunks /\ WithinChunk /\ AfterLast
  BY DEF Init, BetweenChunks, WithinChunk, AfterLast
<1>9. QED  BY <1>4, <1>5, <1>6, <1>7, <1>8 DEF Delivery

(* Sending a chunk: the device has not got it, or it holds the block that  *)
(* follows its image.                                                      *)
LEMMA SendChunkDelivery ==
  ASSUME TypeOK, TypeOK', Delivery, SendChunk
  PROVE  Delivery'
<1> DEFINE left == expected_size - bytes_sent
           size == NextSize
<1>e. expected_size \in Nat /\ expected_size' = expected_size
  BY ExpectedSize DEF TypeOK, SendChunk, expected_size
<1>d. dev \in Devices  BY DEF TypeOK
<1>1. PICK o \in download(dev) :
        /\ Receive(o, bytes_sent, size, transaction)
        /\ IF o.ret = "error"
             THEN /\ pc' = "failed"
                  /\ UNCHANGED <<bytes_sent, chunk_size, transaction>>
             ELSE /\ pc' = "poll"
                  /\ bytes_sent' = bytes_sent + size
                  /\ chunk_size' = size
                  /\ transaction' = NextTransaction
  BY DEF SendChunk
<1>2. pc = "send" /\ bytes_sent < expected_size
  BY <1>e DEF SendChunk, AllSent, TypeOK
<1>3. size \in Nat \ {0} /\ size <= left /\ bytes_sent \in Nat
  BY <1>e, <1>2 DEF TypeOK, NextSize
<1> HIDE DEF size
<1>4. CASE o.got = FALSE
  <2>1. o.ret = "error" /\ o.dev \in {dev, Stall(dev)}  BY <1>4, <1>d, DownloadOutcome
  <2>2. Stall(dev) \in {dev, InError}  BY <1>d, DeviceFields
  <2>3. pc' = "failed" /\ block' = block /\ image' = image /\ dev' = o.dev
    BY <1>1, <1>4, <2>1 DEF Receive
  <2>4. Prefix'  BY <2>3, <1>e DEF Delivery, Prefix
  <2>5. CASE dev' = dev
    BY <2>3, <2>4, <2>5, <1>e DEF Delivery, PendingBlock, ErrorState, BeforeFirst,
                              BetweenChunks, WithinChunk, AfterLast
  <2>6. CASE dev' = InError
    <3>1. dev'.state = "dfuERROR" /\ dev'.ok = FALSE /\ dev'.work = FALSE
      BY <2>6, <1>d, DeviceFields
    <3>2. QED
      BY <2>3, <2>4, <3>1 DEF Delivery, PendingBlock, ErrorState, Programming, BeforeFirst,
                              BetweenChunks, WithinChunk, AfterLast
  <2>7. QED  BY <2>1, <2>2, <2>3, <2>5, <2>6
<1>5. CASE o.got = TRUE
  <2>1. /\ dev.state \in {"dfuIDLE", "dfuDNLOAD_IDLE"} /\ dev' = TakeData(dev)
        /\ block' = [from |-> bytes_sent, len |-> size, num |-> transaction]
        /\ image' = IF dev.state = "dfuIDLE" THEN FirstBytes(0) ELSE image
    BY <1>1, <1>5, <1>d, DownloadOutcome DEF Receive
  <2>2. image = FirstBytes(bytes_sent) /\ image' = FirstBytes(bytes_sent)
    BY <2>1, <1>2 DEF Delivery, BeforeFirst, BetweenChunks, TypeOK
  <2>3. Len(image') = bytes_sent  BY <2>2, <1>3, FirstBytesType
  <2>4. /\ dev'.state = "dfuDNLOAD_SYNC" /\ dev'.work = TRUE /\ dev'.ok = dev.ok
        /\ dev.ok
    BY <2>1, <1>d, DeviceFields DEF Delivery, ErrorState
  <2>5. block'.from = bytes_sent /\ block'.len = size  BY <2>1
  <2>6. bytes_sent + size <= expected_size  BY <1>3, <1>e
  <2>7. Prefix'  BY <2>2, <2>3, <1>2, <1>e, <1>3 DEF Prefix
  <2>8. PendingBlock'  BY <2>3, <2>5, <2>6, <1>e DEF PendingBlock
  <2>9. ErrorState'  BY <2>4 DEF ErrorState
  <2>10. pc' \in {"failed", "poll"}  BY <1>1
  <2>11. WithinChunk'
    <3>1. pc' = "poll" => bytes_sent' = bytes_sent + size  BY <1>1
    <3>2. QED  BY <3>1, <2>4, <2>5, <1>3 DEF WithinChunk
  <2>12. BeforeFirst' /\ BetweenChunks' /\ AfterLast'
    BY <2>10 DEF BeforeFirst, BetweenChunks, AfterLast
  <2>13. QED  BY <2>7, <2>8, <2>9, <2>11, <2>12 DEF Delivery
<1>6. QED  BY <1>4, <1>5, <1>1, <1>d, DownloadOutcome

(* A status request that moves the device leaves the block it holds with   *)
(* it, and ends no wait that it should not.                                *)
LEMMA PollDelivery ==
  ASSUME TypeOK, Delivery, NEW e, e \in {dev, Sync(dev)}, dev' = e,
         UNCHANGED <<job, block, image>>
  PROVE  Prefix' /\ PendingBlock' /\ ErrorState'
<1>1. dev \in Devices  BY DEF TypeOK
<1>2. CASE dev' = dev
  BY <1>2 DEF Delivery, Prefix, PendingBlock, ErrorState, expected_size
<1>3. CASE dev' = Sync(dev)
  <2>1. Prefix'  BY DEF Delivery, Prefix, expected_size
  <2>2. Programming(dev') => Programming(dev)
    BY <1>1, <1>3, SyncFields, DeviceFields DEF Programming, AppStates, DfuStates
  <2>3. PendingBlock'  BY <2>2 DEF Delivery, PendingBlock, expected_size
  <2>4. ErrorState'
    BY <1>1, <1>3, SyncFields, DeviceFields DEF Delivery, ErrorState, AppStates, DfuStates
  <2>5. QED  BY <2>1, <2>3, <2>4
<1>4. QED  BY <1>2, <1>3

(* PollChunk goes on to the next chunk only when the device has programmed *)
(* this one and waits for more.                                            *)
LEMMA PollChunkDelivery ==
  ASSUME TypeOK, Delivery, PollChunk
  PROVE  Delivery'
<1>1. PICK r \in getStatus(dev) :
        /\ dev' = r.dev
        /\ pc' = IF r.ret = "ok" /\ r.bState \notin {"dfuDNLOAD_IDLE", "dfuERROR"}
                   THEN "poll"
                   ELSE IF r.ret = "ok" /\ r.ok THEN "send" ELSE "failed"
  BY DEF PollChunk, AfterPoll
<1>2. /\ pc = "poll" /\ UNCHANGED <<job, bytes_sent, block, image>>
      /\ expected_size' = expected_size
  BY DEF PollChunk, expected_size
<1>d. dev \in Devices  BY DEF TypeOK
<1>3. r.dev \in {dev, Sync(dev)}  BY <1>d, GetStatusOutcome
<1>4. Prefix' /\ PendingBlock' /\ ErrorState'
  BY <1>1, <1>2, <1>3, PollDelivery
<1>5. /\ bytes_sent > 0
      /\ dev.state \in {"dfuDNLOAD_SYNC", "dfuDNBUSY", "dfuDNLOAD_IDLE", "dfuERROR"}
      /\ dev.work => block.len > 0 /\ block.from + block.len = bytes_sent
      /\ dev.ok /\ ~dev.work => image = FirstBytes(bytes_sent)
  BY <1>2 DEF Delivery, WithinChunk
<1>6. /\ dev'.state \in {"dfuDNLOAD_SYNC", "dfuDNBUSY", "dfuDNLOAD_IDLE", "dfuERROR"}
      /\ dev'.work = dev.work /\ dev'.ok = dev.ok
  BY <1>1, <1>3, <1>5, <1>d, SyncFields
<1>7. WithinChunk'  BY <1>2, <1>5, <1>6 DEF WithinChunk
<1>8. BetweenChunks'
  <2> SUFFICES ASSUME pc' = "send"
               PROVE  dev'.state = "dfuDNLOAD_IDLE" /\ image' = FirstBytes(bytes_sent')
    BY DEF BetweenChunks
  <2>1. r.ret = "ok" /\ r.ok /\ r.bState \in {"dfuDNLOAD_IDLE", "dfuERROR"}  BY <1>1
  <2>2. dev' = Sync(dev) /\ r.bState = Sync(dev).state /\ Sync(dev).ok
    BY <2>1, <1>1, <1>d, GetStatusOutcome
  <2>3. dev'.state = "dfuDNLOAD_IDLE"
    BY <2>1, <2>2, <1>4 DEF ErrorState
  <2>4. ~dev'.work  BY <2>3, <1>4 DEF ErrorState
  <2>5. QED  BY <2>2, <2>3, <2>4, <1>2, <1>5, <1>6
<1>9. BeforeFirst' /\ AfterLast'
  BY <1>1, <1>2, <1>5 DEF BeforeFirst, AfterLast
<1>10. QED  BY <1>4, <1>7, <1>8, <1>9 DEF Delivery

(* The completion packet is only accepted when every byte is programmed.   *)
LEMMA SendCompletionDelivery ==
  ASSUME TypeOK, Delivery, SendCompletion
  PROVE  Delivery'
<1>e. expected_size \in Nat /\ expected_size' = expected_size
  BY ExpectedSize DEF TypeOK, SendCompletion, expected_size
<1>d. dev \in Devices  BY DEF TypeOK
<1>1. PICK o \in downloadEnd(dev) :
        /\ dev' = o.dev
        /\ pc' = IF o.ret = "error" THEN "failed" ELSE "manifest"
  BY DEF SendCompletion
<1>2. /\ pc = "send" /\ bytes_sent >= expected_size
      /\ UNCHANGED <<bytes_sent, block, image>>
  BY DEF SendCompletion, AllSent
<1>3. bytes_sent = expected_size  BY <1>2, <1>e DEF TypeOK
<1>4. Prefix'  BY <1>2, <1>e DEF Delivery, Prefix
<1>5. pc' \in {"failed", "manifest"}  BY <1>1
<1>6. BeforeFirst' /\ BetweenChunks' /\ WithinChunk'
  BY <1>5 DEF BeforeFirst, BetweenChunks, WithinChunk
<1>7. CASE dev' = dev /\ pc' = "failed"
  <2>1. PendingBlock' /\ ErrorState' /\ AfterLast'
    BY <1>7, <1>2, <1>e DEF Delivery, PendingBlock, ErrorState, AfterLast
  <2>2. QED  BY <2>1, <1>4, <1>6 DEF Delivery
<1>8. CASE dev' = InError /\ pc' = "failed"
  <2>1. dev'.state = "dfuERROR" /\ dev'.ok = FALSE /\ dev'.work = FALSE
    BY <1>8, <1>d, DeviceFields
  <2>2. PendingBlock' /\ ErrorState' /\ AfterLast'
    BY <2>1, <1>8 DEF PendingBlock, Programming, ErrorState, AfterLast
  <2>3. QED  BY <2>2, <1>4, <1>6 DEF Delivery
<1>9. CASE dev' = TakeEnd(dev) /\ dev.state = "dfuDNLOAD_IDLE"
  <2>1. dev'.state = "dfuMANIFEST_SYNC" /\ dev'.work = TRUE /\ dev'.ok = dev.ok
    BY <1>9, <1>d, DeviceFields
  <2>2. dev.ok  BY <1>9 DEF Delivery, ErrorState
  <2>3. image = FirstBytes(expected_size)
    BY <1>2, <1>3, <1>9 DEF Delivery, BeforeFirst, BetweenChunks, TypeOK
  <2>4. PendingBlock' /\ ErrorState'
    BY <2>1, <2>2 DEF PendingBlock, Programming, ErrorState
  <2>5. AfterLast'  BY <2>1, <2>3, <1>2, <1>e DEF AfterLast
  <2>6. QED  BY <2>4, <2>5, <1>4, <1>6 DEF Delivery
<1>10. Stall(dev) \in {dev, InError}  BY <1>d, DeviceFields
<1>11. \/ o.ret = "error" /\ o.dev = dev
       \/ dev.state = "dfuDNLOAD_IDLE" /\ o.dev = TakeEnd(dev)
       \/ o.ret = "error" /\ o.dev = Stall(dev)
  BY <1>d, DownloadEndOutcome
<1>12. QED  BY <1>1, <1>7, <1>8, <1>9, <1>10, <1>11

LEMMA PollManifestDelivery ==
  ASSUME TypeOK, Delivery, PollManifest
  PROVE  Delivery'
<1>d. dev \in Devices  BY DEF TypeOK
<1>1. PICK r \in getStatus(dev) : dev' = r.dev /\ pc' \in {"manifest", "done"}
  BY DEF PollManifest, AfterManifestPoll
<1>2. /\ pc = "manifest" /\ UNCHANGED <<job, bytes_sent, block, image>>
      /\ expected_size' = expected_size
  BY DEF PollManifest, hostVars, expected_size
<1>3. r.dev \in {dev, Sync(dev)}  BY <1>d, GetStatusOutcome
<1>4. Prefix' /\ PendingBlock' /\ ErrorState'  BY <1>1, <1>2, <1>3, PollDelivery
<1>5. dev'.state \in {"dfuMANIFEST_SYNC", "dfuMANIFEST", "dfuMANIFEST_WAIT_RST",
                     "dfuIDLE", "dfuERROR"}
  BY <1>1, <1>2, <1>3, <1>d, SyncFields, DeviceFields DEF Delivery, AfterLast
<1>6. AfterLast'  BY <1>2, <1>5 DEF Delivery, AfterLast
<1>7. BeforeFirst' /\ BetweenChunks' /\ WithinChunk'
  BY <1>1 DEF BeforeFirst, BetweenChunks, WithinChunk
<1>8. QED  BY <1>4, <1>6, <1>7 DEF Delivery

(* The device programs the pending block onto the end of its image.        *)
LEMMA DeviceProgramDelivery ==
  ASSUME TypeOK, Delivery, DeviceProgram
  PROVE  Delivery'
<1>e. expected_size \in Nat /\ expected_size' = expected_size
  BY ExpectedSize DEF TypeOK, DeviceProgram, hostVars, expected_size
<1>d. dev \in Devices  BY DEF TypeOK
<1>b. block \in [from : Nat, len : Nat, num : Nat] /\ image \in Seq(Nat)
  BY DEF TypeOK
<1>1. /\ dev.work /\ dev.state \in {"dfuDNLOAD_SYNC", "dfuDNBUSY"}
      /\ image' = image \o [i \in 1 .. block.len |-> block.from + i - 1]
      /\ UNCHANGED <<job, bytes_sent, pc, block>>
  BY DEF DeviceProgram, Programming, hostVars
<1>2. dev'.state = "dfuDNLOAD_SYNC" /\ dev'.work = FALSE /\ dev'.ok = dev.ok /\ dev.ok
  BY <1>1, <1>d, DeviceFields DEF DeviceProgram, Delivery, ErrorState
<1>3. Programming(dev)  BY DEF DeviceProgram
<1>4. image' = FirstBytes(Len(image) + block.len) /\ Len(image) + block.len <= expected_size
  <2>1. Len(image) \in Nat /\ image = FirstBytes(Len(image)) /\ Len(image) <= expected_size
    BY <1>b DEF Delivery, Prefix
  <2>2. CASE block.len = 0
    <3>1. [i \in 1 .. block.len |-> block.from + i - 1]
            = [i \in 1 .. 0 |-> Len(image) + i - 1]
      BY <2>2
    <3>2. QED  BY <1>1, <2>1, <2>2, <3>1, FirstBytesAppend
  <2>3. CASE block.len # 0
    <3>1. block.from = Len(image) /\ block.from + block.len <= expected_size
      BY <2>3, <1>3 DEF Delivery, PendingBlock
    <3>2. block.len \in Nat  BY <1>b
    <3>3. FirstBytes(Len(image)) \o [i \in 1 .. block.len |-> Len(image) + i - 1]
            = FirstBytes(Len(image) + block.len)
      BY <2>1, <3>2, FirstBytesAppend
    <3>4. QED  BY <1>1, <2>1, <3>1, <3>3
  <2>4. QED  BY <2>2, <2>3
<1>5. Len(image') = Len(image) + block.len  BY <1>4, <1>b, FirstBytesType
<1>6. Prefix'  BY <1>4, <1>5, <1>e DEF Prefix
<1>7. PendingBlock' /\ ErrorState'  BY <1>2 DEF PendingBlock, Programming, ErrorState
<1>8. BeforeFirst'
  <2> SUFFICES ASSUME pc = "start" \/ (pc = "send" /\ bytes_sent = 0)
               PROVE  image' = FirstBytes(0) /\ bytes_sent = 0 /\ block = NoBlock
    BY <1>1, <1>2 DEF BeforeFirst
  <2>1. bytes_sent = 0 /\ image = FirstBytes(0) /\ block = NoBlock
    BY DEF Delivery, BeforeFirst
  <2>2. Len(image) = 0 /\ block.len = 0  BY <2>1, FirstBytesType DEF NoBlock
  <2>3. QED  BY <1>4, <2>1, <2>2
<1>9. BetweenChunks'
  BY <1>1 DEF Delivery, BetweenChunks
<1>10. WithinChunk'
  <2> SUFFICES ASSUME pc = "poll"
               PROVE  bytes_sent > 0 /\ image' = FirstBytes(bytes_sent)
    BY <1>1, <1>2 DEF WithinChunk
  <2>1. bytes_sent > 0 /\ block.len > 0 /\ block.from + block.len = bytes_sent
    BY <1>1 DEF Delivery, WithinChunk
  <2>2. block.from = Len(image)  BY <2>1, <1>3, <1>b DEF Delivery, PendingBlock
  <2>3. QED  BY <1>4, <2>1, <2>2
<1>11. AfterLast'  BY <1>1 DEF Delivery, AfterLast
<1>12. QED  BY <1>6, <1>7, <1>8, <1>9, <1>10, <1>11 DEF Delivery

LEMMA DeviceManifestDelivery ==
  ASSUME TypeOK, Delivery, DeviceManifest
  PROVE  Delivery'
<1>d. dev \in Devices /\ job.tolerant \in BOOLEAN  BY JobsAssumption DEF TypeOK
<1>1. /\ dev.state = "dfuMANIFEST" /\ UNCHANGED <<job, bytes_sent, pc, block, image>>
      /\ expected_size' = expected_size
  BY DEF DeviceManifest, Manifesting, hostVars, expected_size
<1>2. /\ dev'.state \in {"dfuMANIFEST_SYNC", "dfuMANIFEST_WAIT_RST"}
      /\ dev'.work = FALSE /\ dev'.ok = dev.ok /\ dev.ok
  <2>1. dev' = Manifested(dev, job.tolerant)  BY DEF DeviceManifest
  <2>2. /\ Manifested(dev, job.tolerant).state
             \in {"dfuMANIFEST_SYNC", "dfuMANIFEST_WAIT_RST"}
        /\ Manifested(dev, job.tolerant).work = FALSE
        /\ Manifested(dev, job.tolerant).ok = dev.ok
    BY <1>d DEF Manifested, Devices
  <2>3. dev.ok  BY <1>1 DEF Delivery, ErrorState
  <2>4. QED  BY <2>1, <2>2, <2>3
<1>3. Prefix' /\ PendingBlock' /\ ErrorState'
  BY <1>1, <1>2 DEF Delivery, Prefix, PendingBlock, Programming, ErrorState
<1>4. BeforeFirst' /\ BetweenChunks' /\ WithinChunk' /\ AfterLast'
  BY <1>1, <1>2 DEF Delivery, BeforeFirst, BetweenChunks, WithinChunk, AfterLast
<1>5. QED  BY <1>3, <1>4 DEF Delivery

LEMMA DeviceFailDelivery ==
  ASSUME TypeOK, Delivery, DeviceFail
  PROVE  Delivery'
<1>d. dev \in Devices  BY DEF TypeOK
<1>1. /\ dev.work
      /\ dev.state \in {"dfuDNLOAD_SYNC", "dfuDNBUSY", "dfuMANIFEST"}
      /\ UNCHANGED <<job, bytes_sent, pc, block, image>> /\ expected_size' = expected_size
  BY DEF DeviceFail, Programming, Manifesting, hostVars, expected_size
<1>2. dev'.state = "dfuERROR" /\ dev'.work = FALSE /\ dev'.ok = FALSE
  BY <1>d, DeviceFields DEF DeviceFail
<1>3. Prefix' /\ PendingBlock' /\ ErrorState'
  BY <1>1, <1>2 DEF Delivery, Prefix, PendingBlock, Programming, ErrorState
<1>4. BeforeFirst' /\ BetweenChunks' /\ WithinChunk' /\ AfterLast'
  BY <1>1, <1>2 DEF Delivery, BeforeFirst, BetweenChunks, WithinChunk, AfterLast
<1>5. QED  BY <1>3, <1>4 DEF Delivery

LEMMA NextDelivery == TypeOK /\ TypeOK' /\ Delivery /\ [Next]_vars => Delivery'
<1> SUFFICES ASSUME TypeOK, TypeOK', Delivery, [Next]_vars PROVE Delivery'  OBVIOUS
<1>1. CASE Begin
  BY <1>1 DEF Begin, Delivery, Prefix, PendingBlock, ErrorState, BeforeFirst, BetweenChunks,
              WithinChunk, AfterLast, expected_size
<1>2. CASE UNCHANGED vars
  BY <1>2 DEF vars, Delivery, Prefix, PendingBlock, ErrorState, BeforeFirst, BetweenChunks,
              WithinChunk, AfterLast, expected_size
<1>3. QED
  BY <1>1, <1>2, SendChunkDelivery, PollChunkDelivery, SendCompletionDelivery,
     PollManifestDelivery, DeviceProgramDelivery, DeviceManifestDelivery, DeviceFailDelivery
  DEF Next, Host, Device

(* At every moment the device has programmed a prefix of the file and at   *)
(* most holds the block that follows it, and when run() returns normally   *)
(* it has programmed all of it: for every file, transfer size and page     *)
(* size, whatever is lost, refused or failed on the way.                   *)
THEOREM DeliveryCorrect == Spec => []Delivery
BY InitTypeOK, NextTypeOK, InitDelivery, NextDelivery, PTL DEF Spec

-------------------------------------------------------------------------------
(* Refinement of StreamDownload.                                           *)

(* Taking a block never loses what the device has programmed: a device in  *)
(* dfuIDLE has programmed nothing yet.                                     *)
LEMMA ReceiveKeepsImage ==
  ASSUME TypeOK, Delivery, SendChunk
  PROVE  image' = image /\ pc = "send" /\ pc' \in {"failed", "poll"}
<1>1. pc = "send" /\ pc' \in {"failed", "poll"}
      /\ (image' = image \/ (dev.state = "dfuIDLE" /\ image' = FirstBytes(0)))
  BY DEF SendChunk, Receive
<1>2. CASE bytes_sent = 0
  BY <1>1, <1>2 DEF Delivery, BeforeFirst
<1>3. CASE bytes_sent > 0
  BY <1>1, <1>3 DEF Delivery, BetweenChunks
<1>4. bytes_sent = 0 \/ bytes_sent > 0  BY ExpectedSize DEF TypeOK
<1>5. QED  BY <1>1, <1>2, <1>3, <1>4

LEMMA StreamInit == Init => Stream!Init
BY ExpectedSize DEF Init, Stream!Init, Stream!FirstBytes, FirstBytes, outcome

LEMMA StreamStep ==
  ASSUME TypeOK, Delivery, Delivery', [Next]_vars
  PROVE  [Stream!Next]_(Stream!vars)
<1> USE DEF Stream!vars, Stream!FirstBytes
<1>e. expected_size' = expected_size
  BY DEF Next, Host, Device, Begin, SendChunk, PollChunk, SendCompletion, PollManifest,
         DeviceProgram, DeviceManifest, DeviceFail, hostVars, vars, expected_size
<1>1. CASE image' = image /\ pc \in {"start", "send", "poll"} /\ pc' = "failed"
  BY <1>1, <1>e DEF Stream!Next, Stream!Fail, outcome
<1>2. CASE image' = image /\ outcome' = outcome
  BY <1>2, <1>e
<1>3. CASE Begin  BY <1>1, <1>2, <1>3 DEF Begin, outcome
<1>4. CASE SendChunk  BY <1>1, <1>2, <1>4, ReceiveKeepsImage DEF outcome
<1>5. CASE PollChunk
  <2>1. image' = image /\ pc = "poll" /\ pc' \in {"poll", "send", "failed"}
    BY <1>5 DEF PollChunk, AfterPoll
  <2>2. QED  BY <2>1, <1>1, <1>2 DEF outcome
<1>6. CASE SendCompletion
  <2>1. image' = image /\ pc = "send" /\ pc' \in {"manifest", "failed"}
    BY <1>6 DEF SendCompletion
  <2>2. QED  BY <2>1, <1>1, <1>2 DEF outcome
<1>7. CASE PollManifest
  <2>1. image' = image /\ pc = "manifest" /\ pc' \in {"manifest", "done"}
    BY <1>7 DEF PollManifest, AfterManifestPoll
  <2>2. CASE pc' = "manifest"  BY <2>1, <2>2, <1>2 DEF outcome
  <2>3. CASE pc' = "done"
    <3>1. image = FirstBytes(expected_size)  BY <2>1 DEF Delivery, AfterLast
    <3>2. outcome = "running" /\ outcome' = "done"  BY <2>1, <2>3 DEF outcome
    <3>3. Stream!Finish
      BY <2>1, <3>1, <3>2, <1>e DEF Stream!Finish, FirstBytes
    <3>4. QED  BY <3>3 DEF Stream!Next
  <2>4. QED  BY <2>1, <2>2, <2>3
<1>8. CASE DeviceProgram
  <2>1. image' = FirstBytes(Len(image')) /\ Len(image') <= expected_size
    BY <1>e DEF Delivery, Prefix
  <2>2. Len(image') \in Nat /\ Len(image) \in Nat /\ Len(image') >= Len(image)
    <3>1. image \in Seq(Nat) /\ block \in [from : Nat, len : Nat, num : Nat]  BY DEF TypeOK
    <3>2. image' = image \o [i \in 1 .. block.len |-> block.from + i - 1]
      BY <1>8 DEF DeviceProgram
    <3>3. [i \in 1 .. block.len |-> block.from + i - 1] \in Seq(Nat)
      <4>1. block.len \in Nat /\ \A i \in 1 .. block.len : block.from + i - 1 \in Nat
        BY <3>1
      <4>2. [i \in 1 .. block.len |-> block.from + i - 1] \in [1 .. block.len -> Nat]
        BY <4>1
      <4>3. QED  BY <4>1, <4>2, SeqDef
    <3>4. QED  BY <3>1, <3>2, <3>3
  <2>3. expected_size \in Nat  BY ExpectedSize DEF TypeOK
  <2>4. Len(image') \in Len(image) .. expected_size  BY <2>1, <2>2, <2>3
  <2>5. outcome' = outcome  BY <1>8 DEF DeviceProgram, outcome
  <2>6. Stream!Store  BY <2>1, <2>4, <2>5, <1>e DEF Stream!Store, FirstBytes
  <2>7. QED  BY <2>6 DEF Stream!Next
<1>9. CASE DeviceManifest  BY <1>9, <1>2 DEF DeviceManifest, outcome
<1>10. CASE DeviceFail  BY <1>10, <1>2 DEF DeviceFail, outcome
<1>11. CASE UNCHANGED vars  BY <1>11, <1>2 DEF vars, outcome
<1>12. QED
  BY <1>3, <1>4, <1>5, <1>6, <1>7, <1>8, <1>9, <1>10, <1>11 DEF Next, Host, Device

(* run() implements the abstract download: only longer prefixes of the     *)
(* file ever appear, and success is reported only of a complete image.     *)
THEOREM StreamRefinement == Spec => ImplementsStream
<1>1. Init => Stream!Init  BY StreamInit
<1>2. TypeOK /\ Delivery /\ Delivery' /\ [Next]_vars => [Stream!Next]_(Stream!vars)
  BY StreamStep
<1>3. QED
  BY <1>1, <1>2, TypeCorrect, DeliveryCorrect, PTL DEF Spec, ImplementsStream, Stream!Spec

-------------------------------------------------------------------------------
(* No request is refused.                                                  *)
LEMMA StepNeverRefused ==
  ASSUME TypeOK, Delivery, [Next]_vars, bytes_sent > 0, pc' # pc
  PROVE  dev'.ok = dev.ok
<1>d. dev \in Devices  BY DEF TypeOK
<1>1. CASE Begin  BY <1>1 DEF Begin
<1>2. CASE SendChunk
  <2>1. dev.state = "dfuDNLOAD_IDLE"  BY <1>2 DEF SendChunk, Delivery, BetweenChunks
  <2>2. PICK o \in download(dev) : dev' = o.dev  BY <1>2 DEF SendChunk, Receive
  <2>3. o.dev \in {dev, TakeData(dev)}  BY <2>1, <1>d, DownloadOutcome
  <2>4. TakeData(dev).ok = dev.ok  BY <1>d, DeviceFields
  <2>5. QED  BY <2>2, <2>3, <2>4
<1>3. CASE SendCompletion
  <2>1. dev.state = "dfuDNLOAD_IDLE"  BY <1>3 DEF SendCompletion, Delivery, BetweenChunks
  <2>2. PICK o \in downloadEnd(dev) : dev' = o.dev  BY <1>3 DEF SendCompletion
  <2>3. o.dev \in {dev, TakeEnd(dev)}  BY <2>1, <1>d, DownloadEndOutcome
  <2>4. TakeEnd(dev).ok = dev.ok  BY <1>d, DeviceFields
  <2>5. QED  BY <2>2, <2>3, <2>4
<1>4. CASE PollChunk \/ PollManifest
  <2>1. PICK r \in getStatus(dev) : dev' = r.dev  BY <1>4 DEF PollChunk, PollManifest
  <2>2. r.dev \in {dev, Sync(dev)}  BY <1>d, GetStatusOutcome
  <2>3. QED  BY <2>1, <2>2, <1>d, SyncFields
<1>5. CASE Device  BY <1>5 DEF Device, DeviceProgram, DeviceManifest, DeviceFail
<1>6. CASE UNCHANGED vars  BY <1>6 DEF vars
<1>7. QED  BY <1>1, <1>2, <1>3, <1>4, <1>5, <1>6 DEF Next, Host

(* Once the first block is in, run() never sends a request that the device *)
(* is not ready for: polling to dfuDNLOAD_IDLE before each one is enough.  *)
THEOREM RequestsAccepted == Spec => NeverRefused
<1>1. TypeOK /\ Delivery /\ [Next]_vars
        => [bytes_sent > 0 /\ dev.ok /\ ~dev'.ok => pc' = pc]_vars
  BY StepNeverRefused
<1>2. QED  BY <1>1, TypeCorrect, DeliveryCorrect, PTL DEF Spec, NeverRefused
-------------------------------------------------------------------------------
(* Division, as the block numbers and the progress need it.                *)
LEMMA DivMod ==
  ASSUME NEW k \in Nat, NEW d \in Nat \ {0}, NEW r \in 0 .. d - 1
  PROVE  (k * d + r) \div d = k /\ (k * d + r) % d = r
BY SMT

LEMMA DivBound ==
  ASSUME NEW a \in Nat, NEW d \in Nat \ {0}
  PROVE  /\ a \div d \in Nat /\ a % d \in 0 .. d - 1 /\ a = (a \div d) * d + (a % d)
BY SMT

LEMMA ModNext ==
  ASSUME NEW k \in Nat, NEW d \in Nat \ {0}
  PROVE  ((k % d) + 1) % d = (k + 1) % d
<1> DEFINE q == k \div d
           r == k % d
<1>1. q \in Nat /\ r \in 0 .. d - 1 /\ k = q * d + r  BY DivBound
<1> HIDE DEF q, r
<1>2. CASE r + 1 < d
  <2>1. k + 1 = q * d + (r + 1) /\ r + 1 \in 0 .. d - 1  BY <1>1, <1>2
  <2>2. (k + 1) % d = r + 1  BY <1>1, <2>1, DivMod
  <2>3. (0 * d + (r + 1)) % d = r + 1  BY <2>1, DivMod
  <2>4. 0 * d + (r + 1) = r + 1  BY <1>1
  <2>5. QED  BY <2>2, <2>3, <2>4 DEF r
<1>3. CASE r + 1 = d
  <2>1. k + 1 = (q + 1) * d + 0  BY <1>1, <1>3
  <2>2. (k + 1) % d = 0  BY <1>1, <2>1, DivMod
  <2>3. d = 1 * d + 0  OBVIOUS
  <2>4. d % d = 0  BY <2>3, DivMod
  <2>5. QED  BY <1>3, <2>2, <2>4 DEF r
<1>4. QED  BY <1>1, <1>2, <1>3

LEMMA DivMono ==
  ASSUME NEW a \in Nat, NEW b \in Nat, NEW d \in Nat \ {0}, NEW e \in Nat \ {0}, a <= b, e <= d
  PROVE a \div d <= b \div e
BY SMT

LEMMA DivAtMost ==
  ASSUME NEW a \in Nat, NEW d \in Nat \ {0}, NEW q \in Nat, a <= q * d
  PROVE  a \div d <= q
BY SMT

-------------------------------------------------------------------------------
(* Block numbers, block sizes and progress.                                *)
LEMMA InitNumbering == Init => Numbering
<1> SUFFICES ASSUME Init PROVE Numbering  OBVIOUS
<1>1. SizeChosen  BY DEF Init, SizeChosen
<1>2. WholeChunks
  <2>1. 0 \in 0 .. 0 /\ 0 = 0 * 0  OBVIOUS
  <2>2. 0 % BlockNums = 0
    <3>1. 0 = 0 * BlockNums + 0 /\ 0 \in 0 .. BlockNums - 1  BY BlockNumsAssumption
    <3>2. QED  BY <3>1, BlockNumsAssumption, DivMod
  <2>3. Counted(bytes_sent, transaction)  BY <2>1, <2>2 DEF Init, Counted
  <2>4. QED  BY <2>3 DEF Init, WholeChunks
<1>3. BlockCounted  BY DEF Init, NoBlock, BlockCounted
<1>4. Reported  BY DEF Init, Reported
<1>5. QED  BY <1>1, <1>2, <1>3, <1>4 DEF Numbering

(* A step that sends nothing and reports nothing that is checked again.    *)
LEMMA QuietNumbering ==
  ASSUME Numbering,
         UNCHANGED <<job, transferSize, bytes_sent, chunk_size, transaction, block>>,
         \/ UNCHANGED <<pc, progress>>
         \/ pc \in {"send", "poll", "manifest"} /\ pc' \in {"manifest", "done", "failed"}
  PROVE  Numbering'
<1>1. expected_size' = expected_size  BY DEF expected_size
<1>2. SizeChosen'  BY DEF Numbering, SizeChosen
<1>3. WholeChunks' /\ BlockCounted'
  BY <1>1 DEF Numbering, WholeChunks, BlockCounted, Counted
<1>4. Reported'  BY <1>1 DEF Numbering, Reported, Percent
<1>5. QED  BY <1>2, <1>3, <1>4 DEF Numbering

(* The first report is 5; a later one divides at least as many bytes by at *)
(* most the same sum as the one before.                                    *)
LEMMA PercentGrows ==
  ASSUME NEW b \in Nat, NEW e \in Nat, NEW c \in Nat, NEW n \in Nat \ {0}, n <= c
  PROVE  (b * 90) \div (e + c) + 5 <= ((b + n) * 90) \div (e + n) + 5
<1>1. /\ b * 90 \in Nat /\ (b + n) * 90 \in Nat /\ b * 90 <= (b + n) * 90
      /\ e + c \in Nat \ {0} /\ e + n \in Nat \ {0} /\ e + n <= e + c
  OBVIOUS
<1> DEFINE x == b * 90
           y == (b + n) * 90
<1>2. x \in Nat /\ y \in Nat /\ x <= y  BY <1>1
<1> HIDE DEF x, y
<1>3. x \div (e + c) <= y \div (e + n)  BY <1>1, <1>2, DivMono
<1>4. x \div (e + c) \in Nat /\ y \div (e + n) \in Nat  BY <1>1, <1>2, DivBound
<1>5. x \div (e + c) + 5 <= y \div (e + n) + 5  BY <1>3, <1>4
<1>6. QED  BY <1>5 DEF x, y

LEMMA PercentBounds ==
  ASSUME NEW b \in Nat, NEW e \in Nat, NEW c \in Nat, e + c > 0, b <= e
  PROVE  (b * 90) \div (e + c) + 5 \in 5 .. 95
<1> DEFINE x == b * 90
<1>1. x \in Nat /\ x <= 90 * (e + c) /\ e + c \in Nat \ {0}  OBVIOUS
<1> HIDE DEF x
<1>2. x \div (e + c) <= 90 /\ x \div (e + c) \in Nat  BY <1>1, DivAtMost, DivBound
<1>3. x \div (e + c) + 5 \in 5 .. 95  BY <1>2
<1>4. QED  BY <1>3 DEF x

(* Sending a chunk: after a whole one the count is one higher.             *)
LEMMA SendChunkNumbering ==
  ASSUME TypeOK, Numbering, SendChunk
  PROVE  Numbering'
<1> DEFINE size == NextSize
<1>e. expected_size \in Nat /\ expected_size' = expected_size /\ UNCHANGED <<job, transferSize, progress>>
  BY ExpectedSize DEF TypeOK, SendChunk, expected_size
<1>1. PICK o \in download(dev) :
        /\ Receive(o, bytes_sent, size, transaction)
        /\ IF o.ret = "error"
             THEN /\ pc' = "failed"
                  /\ UNCHANGED <<bytes_sent, chunk_size, transaction>>
             ELSE /\ pc' = "poll"
                  /\ bytes_sent' = bytes_sent + size
                  /\ chunk_size' = size
                  /\ transaction' = NextTransaction
  BY DEF SendChunk
<1>2. pc = "send" /\ bytes_sent \in Nat /\ bytes_sent < expected_size
  BY <1>e DEF SendChunk, AllSent, TypeOK
<1>3. /\ transferSize \in Nat \ {0} /\ transferSize = getDefaultTransferSize(job)
      /\ size \in Nat \ {0} /\ size <= transferSize
      /\ size # transferSize => bytes_sent + size = expected_size
  BY <1>e, <1>2 DEF TypeOK, NextSize, Numbering, SizeChosen
<1> HIDE DEF size
<1>4. PICK k \in 0 .. bytes_sent :
        bytes_sent = k * transferSize /\ transaction = k % BlockNums
  BY <1>2 DEF Numbering, WholeChunks, Counted
<1>5. /\ pc' \in {"failed", "poll"}
      /\ pc' = "failed" => UNCHANGED <<bytes_sent, chunk_size, transaction>>
      /\ pc' = "poll" => /\ bytes_sent' = bytes_sent + size
                         /\ chunk_size' = size
                         /\ transaction' = NextTransaction
      /\ block' = block \/ block' = [from |-> bytes_sent, len |-> size, num |-> transaction]
  BY <1>1 DEF Receive
<1>6. SizeChosen'  BY <1>3, <1>5, <1>e DEF SizeChosen
<1>7. WholeChunks'
  <2>1. CASE pc' = "failed"
    BY <2>1, <1>5, <1>e DEF Numbering, WholeChunks, Counted
  <2>2. CASE pc' = "poll" /\ bytes_sent' < expected_size'
    <3>1. size = transferSize  BY <2>2, <1>3, <1>5, <1>e
    <3>2. bytes_sent' = (k + 1) * transferSize
      BY <3>1, <2>2, <1>3, <1>4, <1>5
    <3>3. transaction' = (k + 1) % BlockNums
      <4>1. transaction' = ((k % BlockNums) + 1) % BlockNums
        BY <2>2, <1>4, <1>5 DEF NextTransaction
      <4>2. k \in Nat  BY <1>2, <1>4
      <4>3. QED  BY <4>1, <4>2, BlockNumsAssumption, ModNext
    <3>4. k + 1 \in 0 .. bytes_sent'  BY <2>2, <1>2, <1>3, <1>4, <1>5
    <3>5. Counted(bytes_sent, transaction)'  BY <3>2, <3>3, <3>4, <1>e DEF Counted
    <3>6. QED  BY <3>1, <3>5, <2>2, <1>5, <1>e DEF WholeChunks
  <2>3. QED  BY <2>1, <2>2, <1>5 DEF WholeChunks
<1>8. BlockCounted'
  <2>1. CASE block' = block
    BY <2>1, <1>e DEF Numbering, BlockCounted, Counted
  <2>2. CASE block' = [from |-> bytes_sent, len |-> size, num |-> transaction]
    <3>1. block'.from = bytes_sent /\ block'.len = size /\ block'.num = transaction
      BY <2>2
    <3>2. QED  BY <3>1, <1>3, <1>4, <1>e DEF BlockCounted, Counted
  <2>3. QED  BY <2>1, <2>2, <1>5
<1>9. Reported'
  <2>1. CASE pc' = "failed"  BY <2>1 DEF Reported
  <2>2. CASE pc' = "poll"
    <3>1. bytes_sent' # 0 /\ Percent' = ((bytes_sent + size) * 90) \div (expected_size + size) + 5
      BY <2>2, <1>2, <1>3, <1>5, <1>e DEF Percent
    <3>2. CASE bytes_sent = 0
      <4>1. progress <= 5  BY <3>2, <1>2 DEF Numbering, Reported
      <4>2. Percent' \in 5 .. 95
        <5>1. bytes_sent + size <= expected_size /\ bytes_sent + size \in Nat
              /\ expected_size + size > 0
          BY <1>2, <1>3, <1>e DEF NextSize, size
        <5>2. QED  BY <5>1, <3>1, <1>3, <1>e, PercentBounds
      <4>3. progress' <= Percent'
        <5>1. progress' = progress /\ progress \in Nat  BY <1>e DEF TypeOK
        <5>2. QED  BY <4>1, <4>2, <5>1
      <4>4. QED  BY <2>2, <3>1, <4>3 DEF Reported
    <3>3. CASE bytes_sent > 0
      <4>1. chunk_size = transferSize /\ progress <= Percent
        BY <3>3, <1>2 DEF Numbering, WholeChunks, Reported
      <4>2. Percent <= Percent'
        BY <3>1, <4>1, <1>2, <1>3, <1>e, PercentGrows DEF Percent
      <4>3. Percent \in Int /\ Percent' \in Int
        <5>1. /\ bytes_sent * 90 \in Nat /\ (bytes_sent + size) * 90 \in Nat
              /\ expected_size + chunk_size \in Nat \ {0}
              /\ expected_size + size \in Nat \ {0}
          BY <4>1, <1>2, <1>3, <1>e
        <5>2. (bytes_sent * 90) \div (expected_size + chunk_size) \in Nat
          BY <5>1, DivBound
        <5>3. ((bytes_sent + size) * 90) \div (expected_size + size) \in Nat
          BY <5>1, DivBound
        <5>4. Percent \in Int  BY <5>2 DEF Percent
        <5>5. Percent' \in Int  BY <5>3, <3>1
        <5>6. QED  BY <5>4, <5>5
      <4>4. progress' <= Percent'
        <5>1. progress' = progress /\ progress \in Nat  BY <1>e DEF TypeOK
        <5>2. QED  BY <4>1, <4>2, <4>3, <5>1
      <4>5. QED  BY <2>2, <3>1, <4>4 DEF Reported
    <3>4. QED  BY <3>2, <3>3, <1>2
  <2>3. QED  BY <2>1, <2>2, <1>5
<1>10. QED  BY <1>6, <1>7, <1>8, <1>9 DEF Numbering

LEMMA NextNumbering == TypeOK /\ Numbering /\ [Next]_vars => Numbering'
<1> SUFFICES ASSUME TypeOK, Numbering, [Next]_vars PROVE Numbering'  OBVIOUS
<1>1. CASE Begin
  <2>1. expected_size' = expected_size
        /\ UNCHANGED <<job, bytes_sent, chunk_size, transaction, block>> /\ pc = "start"
    BY <1>1 DEF Begin, expected_size
  <2>2. bytes_sent = 0 /\ block = NoBlock  BY <2>1 DEF Numbering, SizeChosen
  <2>3. SizeChosen'
    BY <1>1, <2>1, <2>2, TransferSizePositive DEF Begin, SizeChosen, TypeOK
  <2>4. WholeChunks'
    <3>1. transferSize' \in Nat  BY NextTypeOK DEF TypeOK
    <3>2. ASSUME bytes_sent < expected_size PROVE transaction = 0 % BlockNums
      <4>1. PICK k \in 0 .. bytes_sent : transaction = k % BlockNums
        BY <3>2 DEF Numbering, WholeChunks, Counted
      <4>2. k = 0  BY <2>2
      <4>3. QED  BY <4>1, <4>2
    <3>3. 0 \in 0 .. 0  OBVIOUS
    <3> DEFINE ts == transferSize'
    <3>4. 0 = 0 * ts
      <4> HIDE DEF ts
      <4>1. ts \in Nat  BY <3>1 DEF ts
      <4>2. QED  BY <4>1
    <3>5. bytes_sent < expected_size => Counted(bytes_sent, transaction)'
      BY <2>1, <2>2, <3>2, <3>3, <3>4 DEF Counted
    <3>6. QED  BY <2>1, <2>2, <3>5 DEF WholeChunks
  <2>5. BlockCounted'
    <3>1. block' = NoBlock /\ NoBlock.len = 0  BY <2>1, <2>2 DEF NoBlock
    <3>2. QED  BY <3>1 DEF BlockCounted
  <2>6. Reported'  BY <1>1, <2>1, <2>2 DEF Begin, Reported
  <2>7. QED  BY <2>3, <2>4, <2>5, <2>6 DEF Numbering
<1>2. CASE SendChunk  BY <1>2, SendChunkNumbering
<1>3. CASE PollChunk
  <2>1. CASE pc' = "send"
    <3>1. /\ UNCHANGED <<job, transferSize, bytes_sent, chunk_size, transaction, block>>
          /\ expected_size' = expected_size /\ pc = "poll" /\ progress' = Percent
      BY <1>3, <2>1 DEF PollChunk, expected_size
    <3>2. bytes_sent # 0  BY <3>1 DEF TypeOK
    <3>3. Percent' = Percent /\ Percent <= Percent
      <4>1. expected_size \in Nat  BY ExpectedSize DEF TypeOK
      <4>2. progress' \in Nat  BY NextTypeOK DEF TypeOK
      <4>3. QED  BY <3>1, <4>2 DEF Percent
    <3>4. Reported'  BY <2>1, <3>1, <3>2, <3>3 DEF Reported
    <3>5. QED
      BY <2>1, <3>1, <3>4 DEF Numbering, SizeChosen, WholeChunks, BlockCounted, Counted
  <2>2. CASE pc' # "send"
    BY <1>3, <2>2, QuietNumbering DEF PollChunk, AfterPoll
  <2>3. QED  BY <2>1, <2>2
<1>4. CASE SendCompletion  BY <1>4, QuietNumbering DEF SendCompletion
<1>5. CASE PollManifest
  BY <1>5, QuietNumbering DEF PollManifest, AfterManifestPoll, hostVars
<1>6. CASE Device
  BY <1>6, QuietNumbering DEF Device, DeviceProgram, DeviceManifest, DeviceFail, hostVars
<1>7. CASE UNCHANGED vars  BY <1>7, QuietNumbering DEF vars
<1>8. QED  BY <1>1, <1>2, <1>3, <1>4, <1>5, <1>6, <1>7 DEF Next, Host

(* Only whole chunks have been sent while there is more to send, and each  *)
(* of them was counted; the progress last reported is the one reached.     *)
THEOREM NumberingCorrect == Spec => []Numbering
BY InitNumbering, NextNumbering, TypeCorrect, PTL DEF Spec

(* Every block the device has to program carries its position in the file  *)
(* as its number, for every file size and every width of wBlockNum.        *)
THEOREM BlocksNumbered == Spec => []BlockNumbered
<1>1. TypeOK /\ Numbering => BlockNumbered
  <2> SUFFICES ASSUME TypeOK, Numbering, block.len > 0
               PROVE  block.num = (block.from \div transferSize) % BlockNums
    BY DEF BlockNumbered
  <2>1. PICK k \in 0 .. block.from :
          block.from = k * transferSize /\ block.num = k % BlockNums
    BY DEF Numbering, BlockCounted, Counted
  <2>2. transferSize \in Nat \ {0}  BY DEF Numbering, SizeChosen, NoBlock, TypeOK
  <2>3. k * transferSize = k * transferSize + 0 /\ 0 \in 0 .. transferSize - 1 /\ k \in Nat
    BY <2>2 DEF TypeOK
  <2>4. (k * transferSize + 0) \div transferSize = k  BY <2>2, <2>3, DivMod
  <2>5. QED  BY <2>1, <2>3, <2>4
<1>2. QED  BY <1>1, TypeCorrect, NumberingCorrect, PTL

(* No block is larger than the device and a page allow, unless the device  *)
(* advertised less than one packet.                                        *)
THEOREM BlocksFit == Spec => []BlockFits
<1>1. TypeOK /\ Numbering => BlockFits
  <2> SUFFICES ASSUME TypeOK, Numbering PROVE BlockFits  OBVIOUS
  <2>1. block.len \in Nat /\ transferSize \in Nat
        /\ job.wTransferSize \in Nat /\ job.bMaxPacketSize0 \in Nat /\ PageSize \in Nat
    BY JobsAssumption, PageSizeAssumption DEF TypeOK
  <2>2. CASE block.len = 0  BY <2>1, <2>2 DEF BlockFits
  <2>3. CASE block.len > 0
    BY <2>1, <2>3 DEF Numbering, SizeChosen, BlockCounted, NoBlock, BlockFits,
                      getDefaultTransferSize
  <2>4. QED  BY <2>1, <2>2, <2>3
<1>2. QED  BY <1>1, TypeCorrect, NumberingCorrect, PTL

(* The progress callback never sees a value below an earlier one.          *)
LEMMA StepProgress ==
  ASSUME TypeOK, Numbering, [Next]_vars
  PROVE  progress' >= progress
<1>1. progress \in Nat /\ expected_size \in Nat  BY ExpectedSize DEF TypeOK
<1>2. CASE Begin
  <2>1. progress = 0  BY <1>2 DEF Begin, Numbering, Reported
  <2>2. QED  BY <1>2, <2>1 DEF Begin
<1>3. CASE PollChunk
  <2>1. bytes_sent # 0 /\ progress <= Percent
    BY <1>3 DEF PollChunk, Numbering, Reported, TypeOK
  <2>2. Percent \in 5 .. 95
    <3>1. bytes_sent \in Nat /\ chunk_size \in Nat /\ bytes_sent <= expected_size
          /\ expected_size + chunk_size > 0
      BY <1>1, <2>1 DEF TypeOK
    <3>2. QED  BY <1>1, <3>1, PercentBounds DEF Percent
  <2>3. QED  BY <1>1, <1>3, <2>1, <2>2 DEF PollChunk
<1>4. CASE SendCompletion
  <2>1. progress <= 95
    <3>1. CASE bytes_sent = 0
      BY <1>1, <1>4, <3>1 DEF SendCompletion, Numbering, Reported
    <3>2. CASE bytes_sent # 0
      <4>1. progress <= Percent  BY <1>4, <3>2 DEF SendCompletion, Numbering, Reported
      <4>2. bytes_sent \in Nat /\ chunk_size \in Nat /\ bytes_sent <= expected_size
            /\ expected_size + chunk_size > 0
        BY <1>1, <3>2 DEF TypeOK
      <4>3. Percent \in 5 .. 95  BY <1>1, <4>2, PercentBounds DEF Percent
      <4>4. QED  BY <1>1, <4>1, <4>3
    <3>3. QED  BY <3>1, <3>2
  <2>2. QED  BY <1>1, <1>4, <2>1 DEF SendCompletion
<1>5. CASE SendChunk \/ PollManifest \/ Device \/ UNCHANGED vars
  BY <1>1, <1>5 DEF SendChunk, PollManifest, Device, DeviceProgram, DeviceManifest,
                    DeviceFail, vars, hostVars
<1>6. QED  BY <1>2, <1>3, <1>4, <1>5 DEF Next, Host

(* The progress that an application is shown never goes back, whatever the *)
(* sizes of the file and of its last chunk.                                *)
THEOREM ProgressNeverBack == Spec => ProgressMonotone
<1>1. TypeOK /\ Numbering /\ [Next]_vars => [progress' >= progress]_progress
  BY StepProgress
<1>2. QED  BY <1>1, TypeCorrect, NumberingCorrect, PTL DEF Spec, ProgressMonotone
===============================================================================
