------------------------------ MODULE ContextProofs ------------------------------
(***************************************************************************)
(* Proofs about ContextImpl for any number of threads, handlers and calls. *)
(***************************************************************************)
EXTENDS ContextImpl, SequenceTheorems, FiniteSetTheorems, TLAPS

-------------------------------------------------------------------------------
(* How many guards a frame has.                                            *)
Guard(frame) == IF Locks(frame) THEN 1 ELSE 0

Guarded(s) == {k \in DOMAIN s : Locks(s[k])}

LEMMA GuardedFinite ==
  ASSUME NEW s \in Seq(Frames)
  PROVE  /\ IsFiniteSet(Guarded(s))
         /\ LocksIn(s) = Cardinality(Guarded(s))
         /\ LocksIn(s) \in Nat
<1>1. DOMAIN s = 1 .. Len(s) /\ Len(s) \in Nat  BY LenProperties
<1>2. IsFiniteSet(1 .. Len(s))  BY <1>1, FS_Interval
<1>3. IsFiniteSet(Guarded(s))  BY <1>1, <1>2, FS_Subset DEF Guarded
<1>4. QED  BY <1>3, FS_CardinalityType DEF LocksIn, Guarded

LEMMA NoFramesNoLocks == LocksIn(<< >>) = 0
<1>1. << >> \in Seq(Frames) /\ DOMAIN << >> = {}  BY EmptySeq
<1>2. Guarded(<< >>) = {}  BY <1>1 DEF Guarded
<1>3. QED  BY <1>1, <1>2, GuardedFinite, FS_EmptySet

(* A new frame adds its own guard.                                         *)
LEMMA LocksInAppend ==
  ASSUME NEW s \in Seq(Frames), NEW x \in Frames
  PROVE  /\ Append(s, x) \in Seq(Frames)
         /\ LocksIn(Append(s, x)) = LocksIn(s) + Guard(x)
<1> DEFINE r == Append(s, x)
<1>1. /\ r \in Seq(Frames) /\ Len(r) = Len(s) + 1
      /\ \A k \in 1 .. Len(s) : r[k] = s[k]
      /\ r[Len(s) + 1] = x
  BY AppendProperties
<1>2. /\ DOMAIN s = 1 .. Len(s) /\ Len(s) \in Nat
      /\ DOMAIN r = 1 .. Len(s) + 1
  BY <1>1, LenProperties
<1> HIDE DEF r
<1>3. CASE Locks(x)
  <2>1. Guarded(r) = Guarded(s) \cup {Len(s) + 1}  BY <1>1, <1>2, <1>3 DEF Guarded
  <2>2. Len(s) + 1 \notin Guarded(s)  BY <1>2 DEF Guarded
  <2>3. Cardinality(Guarded(r)) = Cardinality(Guarded(s)) + 1
    BY <2>1, <2>2, GuardedFinite, FS_AddElement
  <2>4. QED  BY <2>3, <1>1, <1>3, GuardedFinite DEF Guard, r
<1>4. CASE ~Locks(x)
  <2>1. Guarded(r) = Guarded(s)  BY <1>1, <1>2, <1>4 DEF Guarded
  <2>2. LocksIn(r) = LocksIn(s) /\ LocksIn(s) \in Nat  BY <2>1, <1>1, GuardedFinite
  <2>3. QED  BY <2>2, <1>1, <1>4 DEF Guard, r
<1>5. QED  BY <1>3, <1>4

(* A frame with a guard counts.                                            *)
LEMMA LocksInSome ==
  ASSUME NEW s \in Seq(Frames), NEW k \in DOMAIN s, Locks(s[k])
  PROVE  LocksIn(s) > 0
<1>1. Guarded(s) # {}  BY DEF Guarded
<1>2. Cardinality(Guarded(s)) # 0  BY <1>1, GuardedFinite, FS_EmptySet
<1>3. QED  BY <1>2, GuardedFinite

-------------------------------------------------------------------------------
(* The frames below the one that runs wait for a handler or for a call     *)
(* that getLibUsbCtx makes; progress takes no lock.                        *)
Waiting == {"handling", "inited", "failed", "failedTwice"}

Placed(frame) ==
  /\ frame.op = "progress" => frame.at # "lock"
  /\ frame.op = "updateLibUsbLogLevel" => frame.at \in {"lock", "locked", "read"}
  /\ frame.at = "read" => frame.op = "updateLibUsbLogLevel"

WellNested(s) ==
  /\ \A k \in DOMAIN s : Placed(s[k])
  /\ \A k \in DOMAIN s : k < Len(s) => s[k].at \in Waiting

(* What lies below the running frame.                                      *)
LEMMA Popped ==
  ASSUME NEW s \in Seq(Frames), s # << >>, WellNested(s)
  PROVE  /\ s[Len(s)] \in Frames /\ Placed(s[Len(s)])
         /\ Front(s) \in Seq(Frames) /\ WellNested(Front(s))
         /\ \A k \in DOMAIN Front(s) : Front(s)[k] = s[k] /\ s[k].at \in Waiting
         /\ Len(Front(s)) = Len(s) - 1
         /\ LocksIn(Front(s)) = LocksIn(s) - Guard(s[Len(s)])
         /\ s = Append(Front(s), s[Len(s)])
<1>1. /\ Len(s) \in Nat \ {0} /\ DOMAIN s = 1 .. Len(s)
      /\ \A k \in DOMAIN s : s[k] \in Frames
  BY EmptySeq, LenProperties, ElementOfSeq
<1>2. /\ Front(s) \in Seq(Frames)
      /\ Len(Front(s)) = Len(s) - 1
      /\ \A k \in 1 .. Len(s) - 1 : Front(s)[k] = s[k]
  BY <1>1, SubSeqProperties DEF Front
<1>3. DOMAIN Front(s) = 1 .. Len(s) - 1  BY <1>1, <1>2, LenProperties
<1>4. s[Len(s)] \in Frames /\ Placed(s[Len(s)])  BY <1>1 DEF WellNested
<1>5. \A k \in DOMAIN Front(s) : Front(s)[k] = s[k] /\ s[k].at \in Waiting
  BY <1>1, <1>2, <1>3 DEF WellNested
<1>6. WellNested(Front(s))  BY <1>1, <1>2, <1>3 DEF WellNested
<1>7. s = Append(Front(s), s[Len(s)])
  <2> DEFINE b == Front(s)
             r == Append(b, s[Len(s)])
  <2>1. /\ r \in Seq(Frames) /\ Len(r) = Len(b) + 1
        /\ \A k \in 1 .. Len(b) : r[k] = b[k]
        /\ r[Len(b) + 1] = s[Len(s)]
    BY <1>2, <1>4, AppendProperties
  <2>2. Len(b) = Len(s) - 1 /\ \A k \in 1 .. Len(s) - 1 : b[k] = s[k]  BY <1>2
  <2> HIDE DEF b, r
  <2>3. Len(r) = Len(s) /\ \A k \in 1 .. Len(s) : s[k] = r[k]  BY <1>1, <2>1, <2>2
  <2>4. s = r  BY <2>1, <2>3, SeqEqual
  <2>5. QED  BY <2>4 DEF b, r
<1>8. LocksIn(s) = LocksIn(Front(s)) + Guard(s[Len(s)])
  BY <1>2, <1>4, <1>7, LocksInAppend
<1>9. LocksIn(Front(s)) \in Nat /\ Guard(s[Len(s)]) \in Nat  BY <1>2, GuardedFinite DEF Guard
<1>10. QED  BY <1>2, <1>4, <1>5, <1>6, <1>7, <1>8, <1>9

(* A frame on top of others that all wait.                                 *)
LEMMA Pushed ==
  ASSUME NEW s \in Seq(Frames), NEW x \in Frames, Placed(x), WellNested(s),
         \A k \in DOMAIN s : s[k].at \in Waiting
  PROVE  /\ Append(s, x) \in Seq(Frames) /\ WellNested(Append(s, x))
         /\ LocksIn(Append(s, x)) = LocksIn(s) + Guard(x)
         /\ Len(Append(s, x)) = Len(s) + 1 /\ Append(s, x)[Len(s) + 1] = x
         /\ \A k \in DOMAIN s : Append(s, x)[k] = s[k]
<1>1. /\ Append(s, x) \in Seq(Frames) /\ Len(Append(s, x)) = Len(s) + 1
      /\ \A k \in 1 .. Len(s) : Append(s, x)[k] = s[k]
      /\ Append(s, x)[Len(s) + 1] = x
  BY AppendProperties
<1>2. DOMAIN s = 1 .. Len(s) /\ Len(s) \in Nat /\ DOMAIN Append(s, x) = 1 .. Len(s) + 1
  BY <1>1, LenProperties
<1>3. WellNested(Append(s, x))  BY <1>1, <1>2 DEF WellNested
<1>4. QED  BY <1>1, <1>2, <1>3, LocksInAppend

(* What an exception leaves.                                               *)
LEMMA Cut ==
  ASSUME NEW s \in Seq(Frames), NEW n \in 0 .. Len(s), WellNested(s)
  PROVE  /\ SubSeq(s, 1, n) \in Seq(Frames) /\ WellNested(SubSeq(s, 1, n))
         /\ LocksIn(SubSeq(s, 1, n)) \in Nat
         /\ LocksIn(SubSeq(s, 1, n)) <= LocksIn(s)
         /\ Len(SubSeq(s, 1, n)) = n
         /\ \A k \in 1 .. n : SubSeq(s, 1, n)[k] = s[k]
<1> DEFINE r == SubSeq(s, 1, n)
<1>1. /\ Len(s) \in Nat /\ DOMAIN s = 1 .. Len(s) /\ n \in Nat
      /\ \A k \in DOMAIN s : s[k] \in Frames
  BY LenProperties, ElementOfSeq
<1>2. r \in Seq(Frames) /\ Len(r) = n /\ \A k \in 1 .. n : r[k] = s[k]
  BY <1>1, SubSeqProperties
<1>3. DOMAIN r = 1 .. n  BY <1>2, LenProperties
<1> HIDE DEF r
<1>4. WellNested(r)  BY <1>1, <1>2, <1>3 DEF WellNested
<1>5. Guarded(r) \in SUBSET Guarded(s)  BY <1>1, <1>2, <1>3 DEF Guarded
<1>6. LocksIn(r) <= LocksIn(s) /\ LocksIn(r) \in Nat  BY <1>2, <1>5, GuardedFinite, FS_Subset
<1>7. QED  BY <1>2, <1>4, <1>6 DEF r

(* The running frame is replaced, or calls another function.               *)
LEMMA Replaced ==
  ASSUME NEW s \in Seq(Frames), s # << >>, WellNested(s), NEW x \in Frames, Placed(x)
  PROVE  /\ Append(Front(s), x) \in Seq(Frames) /\ WellNested(Append(Front(s), x))
         /\ LocksIn(Append(Front(s), x)) = LocksIn(s) - Guard(s[Len(s)]) + Guard(x)
         /\ Len(Append(Front(s), x)) = Len(s) /\ Append(Front(s), x)[Len(s)] = x
<1> DEFINE b == Front(s)
<1>1. /\ b \in Seq(Frames) /\ WellNested(b) /\ \A k \in DOMAIN b : b[k].at \in Waiting
      /\ Len(b) = Len(s) - 1 /\ LocksIn(b) = LocksIn(s) - Guard(s[Len(s)])
  BY Popped
<1>2. Len(s) \in Nat  BY LenProperties
<1> HIDE DEF b
<1>3. /\ Append(b, x) \in Seq(Frames) /\ WellNested(Append(b, x))
      /\ LocksIn(Append(b, x)) = LocksIn(b) + Guard(x)
      /\ Len(Append(b, x)) = Len(b) + 1 /\ Append(b, x)[Len(b) + 1] = x
  BY <1>1, Pushed
<1>4. Len(b) + 1 = Len(s)  BY <1>1, <1>2
<1>5. QED  BY <1>1, <1>3, <1>4 DEF b

LEMMA Called ==
  ASSUME NEW s \in Seq(Frames), s # << >>, WellNested(s),
         NEW y \in Frames, Placed(y), y.at \in Waiting, NEW x \in Frames, Placed(x)
  PROVE  LET r == Append(Append(Front(s), y), x)
         IN  /\ r \in Seq(Frames) /\ WellNested(r)
             /\ LocksIn(r) = LocksIn(s) - Guard(s[Len(s)]) + Guard(y) + Guard(x)
             /\ Len(r) = Len(s) + 1 /\ r[Len(s) + 1] = x
<1> DEFINE b == Append(Front(s), y)
<1>1. /\ b \in Seq(Frames) /\ WellNested(b)
      /\ LocksIn(b) = LocksIn(s) - Guard(s[Len(s)]) + Guard(y)
      /\ Len(b) = Len(s) /\ b[Len(s)] = y
  BY Replaced
<1>2. DOMAIN b = 1 .. Len(s) /\ Len(s) \in Nat  BY <1>1, LenProperties
<1> HIDE DEF b
<1>3. \A k \in DOMAIN b : b[k].at \in Waiting  BY <1>1, <1>2 DEF WellNested
<1>4. /\ Append(b, x) \in Seq(Frames) /\ WellNested(Append(b, x))
      /\ LocksIn(Append(b, x)) = LocksIn(b) + Guard(x)
      /\ Len(Append(b, x)) = Len(s) + 1 /\ Append(b, x)[Len(s) + 1] = x
  BY <1>1, <1>3, Pushed
<1>5. QED  BY <1>1, <1>4 DEF b

-------------------------------------------------------------------------------
(***************************************************************************)
(* The inductive invariant: the types, the balance of the lock, and how    *)
(* the frames of a thread may be nested.                                   *)
(***************************************************************************)
Balanced ==
  /\ owner \in Threads \cup {NoThread} /\ depth \in Nat
  /\ stack \in [Threads -> Seq(Frames)]
  /\ LockBalance
  /\ \A t \in Threads : WellNested(stack[t])

(* TRUE and FALSE are kept apart from the rest: the provers that know one  *)
(* do not know the other.                                                  *)
Flags == debug \in BOOLEAN /\ destroyed \in BOOLEAN /\ crashed \in BOOLEAN

Values ==
  /\ logHandler \in HandlerArgs /\ progressHandler \in HandlerArgs
  /\ minLogLevel \in Levels
  /\ libusb_ctx \in 0 .. inits /\ inits \in Nat
  /\ live \subseteq 1 .. inits
  /\ calls \in [Threads -> 0 .. MaxCalls]

(* A thread whose locks are as many as before, with the lock left alone.   *)
LEMMA LocksKept ==
  ASSUME Balanced, NEW t \in Threads, NEW s \in Seq(Frames), WellNested(s),
         stack' = [stack EXCEPT ![t] = s], LocksIn(s) = LocksIn(stack[t]), UNCHANGED mtx
  PROVE  Balanced'
BY DEF Balanced, LockBalance, mtx

(* A thread that has got the lock.                                         *)
LEMMA LockTaken ==
  ASSUME Balanced, NEW t \in Threads, NEW s \in Seq(Frames), WellNested(s),
         stack' = [stack EXCEPT ![t] = s], LocksIn(s) = LocksIn(stack[t]) + 1,
         MayLock(t), owner' = t, depth' = depth + 1
  PROVE  Balanced'
<1>1. t # NoThread  BY ContextAssumption
<1>2. \A u \in Threads : LocksIn(stack'[u]) = IF u = t THEN depth + 1 ELSE 0
  BY <1>1 DEF Balanced, LockBalance, MayLock
<1>3. QED  BY <1>1, <1>2 DEF Balanced, LockBalance

(* A thread that gives up n locks.                                         *)
LEMMA LocksReleased ==
  ASSUME Balanced, NEW t \in Threads, NEW s \in Seq(Frames), WellNested(s),
         NEW n \in Nat,
         stack' = [stack EXCEPT ![t] = s], LocksIn(s) = LocksIn(stack[t]) - n, Release(n)
  PROVE  Balanced'
<1>1. LocksIn(s) \in Nat /\ LocksIn(stack[t]) \in Nat  BY GuardedFinite DEF Balanced
<1>2. CASE n = 0
  BY <1>1, <1>2, LocksKept DEF Release, mtx, Balanced, LockBalance
<1>3. CASE n > 0
  <2>1. t = owner /\ LocksIn(stack[t]) = depth  BY <1>1, <1>3 DEF Balanced, LockBalance
  <2>2. t # NoThread  BY ContextAssumption
  <2>3. \A u \in Threads : LocksIn(stack'[u]) = IF u = t THEN depth - n ELSE 0
    BY <2>1, <1>1 DEF Balanced, LockBalance
  <2>4. depth' = depth - n /\ depth' \in Nat  BY <2>1, <1>1 DEF Release, Balanced
  <2>5. QED  BY <2>1, <2>2, <2>3, <2>4 DEF Balanced, LockBalance, Release
<1>4. QED  BY <1>2, <1>3

-------------------------------------------------------------------------------
(***************************************************************************)
(* The moves that the actions are made of.                                 *)
(***************************************************************************)
LEMMA RunningFrame ==
  ASSUME Balanced, NEW t \in Threads, Running(t)
  PROVE  /\ stack[t] \in Seq(Frames) /\ stack[t] # << >> /\ WellNested(stack[t])
         /\ Top(t) = stack[t][Len(stack[t])]
         /\ Top(t) \in Frames /\ Placed(Top(t))
<1>1. stack[t] \in Seq(Frames) /\ stack[t] # << >> /\ WellNested(stack[t])
  BY DEF Balanced, Running
<1>2. QED  BY <1>1, Popped DEF Top

LEMMA ReplaceTop ==
  ASSUME Balanced, NEW t \in Threads, Running(t), NEW x \in Frames, Placed(x),
         Locks(x) = Locks(Top(t)), UNCHANGED mtx,
         stack' = [stack EXCEPT ![t] = Append(Front(@), x)]
  PROVE  Balanced'
<1> DEFINE s == stack[t]
           r == Append(Front(s), x)
<1>1. s \in Seq(Frames) /\ s # << >> /\ WellNested(s) /\ Top(t) = s[Len(s)]  BY RunningFrame
<1>2. /\ r \in Seq(Frames) /\ WellNested(r)
      /\ LocksIn(r) = LocksIn(s) - Guard(s[Len(s)]) + Guard(x)
  BY <1>1, Replaced
<1>3. LocksIn(r) = LocksIn(s)  BY <1>1, <1>2, GuardedFinite DEF Guard
<1>4. stack' = [stack EXCEPT ![t] = r]  OBVIOUS
<1> HIDE DEF r, s
<1>5. QED  BY <1>2, <1>3, <1>4, LocksKept DEF s

Places == {"entry", "calling", "lock", "locked", "storing", "read", "init", "inited",
           "failed", "failedTwice", "handling"}

LEMMA FrameAt ==
  ASSUME NEW x \in Frames, NEW at \in Places
  PROVE  /\ [x EXCEPT !.at = at] \in Frames
         /\ [x EXCEPT !.at = at].op = x.op /\ [x EXCEPT !.at = at].at = at
BY DEF Frames, Places

LEMMA GotoKeeps ==
  ASSUME Balanced, NEW t \in Threads, Running(t), NEW at \in Places \ {"read"}, Goto(t, at),
         UNCHANGED mtx,
         Top(t).op = "progress" => at # "lock",
         Top(t).op # "updateLibUsbLogLevel",
         Top(t).op = "progress" \/ (Top(t).at \in {"entry", "lock"} <=> at \in {"entry", "lock"})
  PROVE  Balanced'
<1> DEFINE x == [Top(t) EXCEPT !.at = at]
<1>1. Top(t) \in Frames /\ Placed(Top(t))  BY RunningFrame
<1>2. x \in Frames /\ x.op = Top(t).op /\ x.at = at  BY <1>1, FrameAt
<1>3. stack' = [stack EXCEPT ![t] = Append(Front(@), x)]  BY DEF Goto
<1> HIDE DEF x
<1>4. Placed(x) /\ Locks(x) = Locks(Top(t))  BY <1>2 DEF Placed, Locks
<1>5. QED  BY <1>2, <1>3, <1>4, ReplaceTop

LEMMA ReturnKeeps ==
  ASSUME Balanced, NEW t \in Threads, Running(t), ~Locks(Top(t)), Return(t), UNCHANGED mtx
  PROVE  Balanced'
<1> DEFINE s == stack[t]
           r == Front(s)
<1>1. s \in Seq(Frames) /\ s # << >> /\ WellNested(s) /\ Top(t) = s[Len(s)]  BY RunningFrame
<1>2. r \in Seq(Frames) /\ WellNested(r) /\ LocksIn(r) = LocksIn(s) - Guard(s[Len(s)])
  BY <1>1, Popped
<1>3. LocksIn(r) = LocksIn(s)  BY <1>1, <1>2, GuardedFinite DEF Guard
<1>4. stack' = [stack EXCEPT ![t] = r]  BY DEF Return
<1> HIDE DEF r, s
<1>5. QED  BY <1>2, <1>3, <1>4, LocksKept DEF s

LEMMA LeaveKeeps ==
  ASSUME Balanced, NEW t \in Threads, Running(t), Locks(Top(t)), Leave(t)
  PROVE  Balanced'
<1> DEFINE s == stack[t]
           r == Front(s)
<1>1. s \in Seq(Frames) /\ s # << >> /\ WellNested(s) /\ Top(t) = s[Len(s)]  BY RunningFrame
<1>2. r \in Seq(Frames) /\ WellNested(r) /\ LocksIn(r) = LocksIn(s) - Guard(s[Len(s)])
  BY <1>1, Popped
<1>3. LocksIn(r) = LocksIn(s) - 1  BY <1>1, <1>2, GuardedFinite DEF Guard
<1>4. stack' = [stack EXCEPT ![t] = r] /\ Release(1)  BY DEF Return, Leave
<1> HIDE DEF r, s
<1>5. QED  BY <1>2, <1>3, <1>4, LocksReleased DEF s

LEMMA NewFrame ==
  ASSUME NEW op \in {"setLogHandler", "setProgressHandler", "setMinLogLevel",
                     "updateLibUsbLogLevel", "setProductName", "getProductName", "log",
                     "progress", "getLibUsbCtx"},
         NEW level \in Levels, NEW handler \in HandlerArgs
  PROVE  LET x == [op |-> op, at |-> Entry(op), level |-> level, handler |-> handler]
         IN  x \in Frames /\ Placed(x) /\ ~Locks(x)
BY DEF Frames, Entry, Placed, Locks

LEMMA InnerKeeps ==
  ASSUME Balanced, NEW t \in Threads, Running(t), Top(t).op = "getLibUsbCtx", Locks(Top(t)),
         NEW at \in Waiting, NEW op \in {"log", "updateLibUsbLogLevel"}, Inner(t, at, op),
         UNCHANGED mtx
  PROVE  Balanced'
<1> DEFINE s == stack[t]
           y == [Top(t) EXCEPT !.at = at]
           x == [op |-> op, at |-> Entry(op), level |-> ErrorLevel, handler |-> Empty]
           r == Append(Append(Front(s), y), x)
<1>1. /\ s \in Seq(Frames) /\ s # << >> /\ WellNested(s) /\ Top(t) = s[Len(s)]
      /\ Top(t) \in Frames
  BY RunningFrame
<1>2. y \in Frames /\ y.op = "getLibUsbCtx" /\ y.at = at
  <2>1. at \in Places  BY DEF Waiting, Places
  <2>2. Top(t) \in Frames  BY <1>1
  <2>3. QED  BY <2>1, <2>2, FrameAt
<1>3. x \in Frames /\ Placed(x) /\ ~Locks(x)
  BY NewFrame, ContextAssumption DEF HandlerArgs
<1>4. stack' = [stack EXCEPT ![t] = r]  BY DEF Inner
<1> HIDE DEF x, y
<1>5. Placed(y) /\ Locks(y)  BY <1>2 DEF Placed, Locks, Waiting
<1>6. /\ r \in Seq(Frames) /\ WellNested(r)
      /\ LocksIn(r) = LocksIn(s) - Guard(s[Len(s)]) + Guard(y) + Guard(x)
  BY <1>1, <1>2, <1>3, <1>5, Called
<1>7. LocksIn(r) = LocksIn(s)  BY <1>1, <1>3, <1>5, <1>6, GuardedFinite DEF Guard
<1> HIDE DEF r, s
<1>8. QED  BY <1>4, <1>6, <1>7, LocksKept DEF s

LEMMA UnwindKeeps ==
  ASSUME Balanced, NEW t \in Threads, Running(t), Unwind(t)
  PROVE  Balanced'
<1> DEFINE s == stack[t]
<1>1. s \in Seq(Frames) /\ WellNested(s)  BY RunningFrame
<1>2. PICK n \in 0 .. Len(s) - 1 :
        /\ stack' = [stack EXCEPT ![t] = SubSeq(s, 1, n)]
        /\ Release(LocksIn(s) - LocksIn(SubSeq(s, 1, n)))
  BY DEF Unwind
<1> DEFINE r == SubSeq(s, 1, n)
<1>3. n \in 0 .. Len(s)  BY <1>1, LenProperties
<1>4. /\ r \in Seq(Frames) /\ WellNested(r) /\ LocksIn(r) \in Nat /\ LocksIn(r) <= LocksIn(s)
  BY <1>1, <1>3, Cut
<1>5. LocksIn(s) - LocksIn(r) \in Nat /\ LocksIn(r) = LocksIn(s) - (LocksIn(s) - LocksIn(r))
  BY <1>1, <1>4, GuardedFinite
<1>6. stack' = [stack EXCEPT ![t] = r] /\ Release(LocksIn(s) - LocksIn(r))  BY <1>2
<1> HIDE DEF r, s
<1>7. QED  BY <1>4, <1>5, <1>6, LocksReleased DEF s

-------------------------------------------------------------------------------
LEMMA LockStep ==
  ASSUME Balanced, NEW t \in Threads, Lock(t)
  PROVE  Balanced'
<1> DEFINE s == stack[t]
           x == [Top(t) EXCEPT !.at = "locked"]
           r == Append(Front(s), x)
<1>1. Running(t) /\ Top(t).at = "lock" /\ MayLock(t) /\ owner' = t /\ depth' = depth + 1
      /\ stack' = [stack EXCEPT ![t] = r]
  BY DEF Lock, Goto
<1>2. /\ s \in Seq(Frames) /\ s # << >> /\ WellNested(s) /\ Top(t) = s[Len(s)]
      /\ Top(t) \in Frames /\ Placed(Top(t))
  BY <1>1, RunningFrame
<1>3. x \in Frames /\ x.op = Top(t).op /\ x.at = "locked"  BY <1>2, FrameAt DEF Places
<1> HIDE DEF x
<1>4. Placed(x) /\ Locks(x) /\ ~Locks(Top(t))  BY <1>1, <1>2, <1>3 DEF Placed, Locks
<1>5. /\ r \in Seq(Frames) /\ WellNested(r)
      /\ LocksIn(r) = LocksIn(s) - Guard(s[Len(s)]) + Guard(x)
  BY <1>2, <1>3, <1>4, Replaced
<1>6. LocksIn(r) = LocksIn(s) + 1  BY <1>2, <1>4, <1>5, GuardedFinite DEF Guard
<1> HIDE DEF r, s
<1>7. QED  BY <1>1, <1>5, <1>6, LockTaken DEF s

LEMMA CallStep ==
  ASSUME Balanced, NEW t \in Threads, Call(t)
  PROVE  Balanced'
<1> DEFINE s == stack[t]
<1>1. PICK c \in Calls : Push(t, c.op, c.level, c.handler)  BY DEF Call
<1> DEFINE x == [op |-> c.op, at |-> Entry(c.op), level |-> c.level, handler |-> c.handler]
           r == Append(s, x)
<1>2. UNCHANGED mtx /\ InApplication(t) /\ stack' = [stack EXCEPT ![t] = r]
  BY <1>1 DEF Call, Push
<1>3. c \in Frames  BY ContextAssumption
<1>4. x \in Frames /\ Placed(x) /\ ~Locks(x)  BY <1>3, NewFrame DEF Frames
<1>5. s \in Seq(Frames) /\ WellNested(s)  BY DEF Balanced
<1>6. Len(s) \in Nat /\ DOMAIN s = 1 .. Len(s)  BY <1>5, LenProperties
<1>7. \A k \in DOMAIN s : s[k].at \in Waiting
  <2> TAKE k \in DOMAIN s
  <2>1. CASE k < Len(s)  BY <1>5, <2>1 DEF WellNested
  <2>2. CASE k = Len(s)
    <3>1. s # << >>  BY <1>6, <2>2
    <3>2. QED  BY <1>2, <2>2, <3>1 DEF InApplication, Running, Top, Waiting
  <2>3. QED  BY <1>6, <2>1, <2>2
<1> HIDE DEF x
<1>8. r \in Seq(Frames) /\ WellNested(r) /\ LocksIn(r) = LocksIn(s) + Guard(x)
  BY <1>4, <1>5, <1>7, Pushed
<1>9. LocksIn(r) = LocksIn(s)  BY <1>4, <1>5, <1>8, GuardedFinite DEF Guard
<1> HIDE DEF r, s
<1>10. QED  BY <1>2, <1>8, <1>9, LocksKept DEF s

LEMMA LevelSteps ==
  ASSUME Balanced, Values, NEW t \in Threads,
         SetMinLogLevel(t) \/ ReadLevel(t) \/ SetDebug(t)
  PROVE  Balanced'
<1>1. CASE SetMinLogLevel(t)
  <2> DEFINE x == [Top(t) EXCEPT !.op = "updateLibUsbLogLevel", !.at = "lock"]
  <2>1. /\ Running(t) /\ Top(t).op = "setMinLogLevel" /\ Top(t).at = "entry" /\ UNCHANGED mtx
        /\ stack' = [stack EXCEPT ![t] = Append(Front(@), x)]
    BY <1>1 DEF SetMinLogLevel, In
  <2>2. Top(t) \in Frames  BY <2>1, RunningFrame
  <2>3. x \in Frames /\ x.op = "updateLibUsbLogLevel" /\ x.at = "lock"
    BY <2>2 DEF Frames
  <2> HIDE DEF x
  <2>4. Placed(x) /\ Locks(x) = Locks(Top(t))  BY <2>1, <2>3 DEF Placed, Locks
  <2>5. QED  BY <2>1, <2>3, <2>4, ReplaceTop
<1>2. CASE ReadLevel(t)
  <2>1. Running(t) /\ Top(t).op = "updateLibUsbLogLevel" /\ Top(t).at = "locked"
    BY <1>2 DEF ReadLevel, In
  <2>2. CASE libusb_ctx = 0
    <3>1. Leave(t) /\ Locks(Top(t))  BY <1>2, <2>1, <2>2 DEF ReadLevel, Locks
    <3>2. QED  BY <2>1, <3>1, LeaveKeeps
  <2>3. CASE libusb_ctx # 0
    <3> DEFINE x == [Top(t) EXCEPT !.at = "read", !.level = minLogLevel]
    <3>1. UNCHANGED mtx /\ stack' = [stack EXCEPT ![t] = Append(Front(@), x)]
      BY <1>2, <2>3 DEF ReadLevel, LevelRead, mtx
    <3>2. Top(t) \in Frames /\ minLogLevel \in Levels  BY <2>1, RunningFrame DEF Values
    <3>3. x \in Frames /\ x.op = "updateLibUsbLogLevel" /\ x.at = "read"
      BY <2>1, <3>2 DEF Frames
    <3> HIDE DEF x
    <3>4. Placed(x) /\ Locks(x) = Locks(Top(t))  BY <2>1, <3>3 DEF Placed, Locks
    <3>5. QED  BY <2>1, <3>1, <3>3, <3>4, ReplaceTop
  <2>4. QED  BY <2>2, <2>3
<1>3. CASE SetDebug(t)
  <2>1. Running(t) /\ Locks(Top(t)) /\ Leave(t)  BY <1>3 DEF SetDebug, In, Locks
  <2>2. QED  BY <2>1, LeaveKeeps
<1>4. QED  BY <1>1, <1>2, <1>3

LEMMA SetterSteps ==
  ASSUME Balanced, NEW t \in Threads,
         SetLogHandler(t) \/ StoreProgressHandler(t) \/ SetProgressHandler(t) \/ ProductName(t)
  PROVE  Balanced'
<1>1. CASE StoreProgressHandler(t)
  <2>1. /\ Running(t) /\ Top(t).op = "setProgressHandler" /\ Top(t).at = "locked"
        /\ Goto(t, "storing") /\ UNCHANGED mtx
    BY <1>1 DEF StoreProgressHandler, In
  <2>2. QED  BY <2>1, GotoKeeps DEF Places
<1>2. CASE SetLogHandler(t) \/ SetProgressHandler(t) \/ ProductName(t)
  <2>1. Running(t) /\ Locks(Top(t)) /\ Leave(t)
    BY <1>2 DEF SetLogHandler, SetProgressHandler, ProductName, In, Locks
  <2>2. QED  BY <2>1, LeaveKeeps
<1>3. QED  BY <1>1, <1>2

LEMMA LibUsbSteps ==
  ASSUME Balanced, NEW t \in Threads,
         \/ GetLibUsbCtx(t) \/ InitLibUsb(t) \/ LeaveInited(t) \/ LogAgain(t)
         \/ ThrowUninitialized(t)
  PROVE  Balanced'
<1>1. CASE GetLibUsbCtx(t)
  <2>1. Running(t) /\ Top(t).op = "getLibUsbCtx" /\ Top(t).at = "locked" /\ Locks(Top(t))
    BY <1>1 DEF GetLibUsbCtx, In, Locks
  <2>2. CASE libusb_ctx # 0  BY <1>1, <2>1, <2>2, LeaveKeeps DEF GetLibUsbCtx
  <2>3. CASE libusb_ctx = 0
    <3>1. Goto(t, "init") /\ UNCHANGED mtx  BY <1>1, <2>3 DEF GetLibUsbCtx
    <3>2. QED  BY <2>1, <3>1, GotoKeeps DEF Places
  <2>4. QED  BY <2>2, <2>3
<1>2. CASE InitLibUsb(t)
  <2>1. Running(t) /\ Top(t).op = "getLibUsbCtx" /\ Locks(Top(t)) /\ UNCHANGED mtx
    BY <1>2 DEF InitLibUsb, In, Locks
  <2>2. Inner(t, "inited", "updateLibUsbLogLevel") \/ Inner(t, "failed", "log")
    BY <1>2 DEF InitLibUsb
  <2>3. QED  BY <2>1, <2>2, InnerKeeps DEF Waiting
<1>3. CASE LeaveInited(t)
  <2>1. Running(t) /\ Locks(Top(t)) /\ Leave(t)  BY <1>3 DEF LeaveInited, In, Locks
  <2>2. QED  BY <2>1, LeaveKeeps
<1>4. CASE LogAgain(t)
  <2>1. /\ Running(t) /\ Top(t).op = "getLibUsbCtx" /\ Locks(Top(t)) /\ UNCHANGED mtx
        /\ Inner(t, "failedTwice", "log")
    BY <1>4 DEF LogAgain, In, Locks
  <2>2. QED  BY <2>1, InnerKeeps DEF Waiting
<1>5. CASE ThrowUninitialized(t)
  BY <1>5, UnwindKeeps DEF ThrowUninitialized, In
<1>6. QED  BY <1>1, <1>2, <1>3, <1>4, <1>5

LEMMA HandleKeeps ==
  ASSUME Balanced, NEW t \in Threads, Running(t), Top(t).op \in {"log", "progress"},
         Top(t).op = "log" => Locks(Top(t)),
         NEW handler \in HandlerArgs, Handle(t, handler), UNCHANGED mtx
  PROVE  Balanced'
<1> DEFINE x == [Top(t) EXCEPT !.at = "handling", !.handler = handler]
<1>1. Top(t) \in Frames  BY RunningFrame
<1>2. x \in Frames /\ x.op = Top(t).op /\ x.at = "handling"  BY <1>1 DEF Frames
<1>3. stack' = [stack EXCEPT ![t] = Append(Front(@), x)]  BY DEF Handle
<1> HIDE DEF x
<1>4. Placed(x) /\ Locks(x) = Locks(Top(t))  BY <1>2 DEF Placed, Locks
<1>5. QED  BY <1>2, <1>3, <1>4, ReplaceTop

LEMMA HandlerSteps ==
  ASSUME Balanced, Values, NEW t \in Threads,
         \/ ShouldLog(t) \/ CallLogHandler(t) \/ TestProgressHandler(t)
         \/ CallProgressHandler(t) \/ HandlerReturns(t) \/ HandlerThrows(t)
  PROVE  Balanced'
<1>1. CASE ShouldLog(t)
  <2>1. Running(t) /\ Top(t).op = "log" /\ Top(t).at = "entry" /\ ~Locks(Top(t)) /\ UNCHANGED mtx
    BY <1>1 DEF ShouldLog, In, Locks
  <2>2. Goto(t, "lock") \/ Return(t)  BY <1>1 DEF ShouldLog
  <2>3. QED  BY <2>1, <2>2, GotoKeeps, ReturnKeeps DEF Places
<1>2. CASE CallLogHandler(t)
  <2>1. Running(t) /\ Top(t).op = "log" /\ Locks(Top(t))
    BY <1>2 DEF CallLogHandler, In, Locks
  <2>2. Leave(t) \/ (Handle(t, logHandler) /\ UNCHANGED mtx)  BY <1>2 DEF CallLogHandler
  <2>3. QED  BY <2>1, <2>2, LeaveKeeps, HandleKeeps DEF Values
<1>3. CASE TestProgressHandler(t)
  <2>1. /\ Running(t) /\ Top(t).op = "progress" /\ ~Locks(Top(t)) /\ UNCHANGED mtx
    BY <1>3 DEF TestProgressHandler, In, Locks
  <2>2. Goto(t, "calling") \/ Return(t)  BY <1>3 DEF TestProgressHandler
  <2>3. QED  BY <2>1, <2>2, GotoKeeps, ReturnKeeps DEF Places
<1>4. CASE CallProgressHandler(t)
  <2>1. Running(t) /\ Top(t).op = "progress"  BY <1>4 DEF CallProgressHandler, In
  <2>2. Unwind(t) \/ (Handle(t, progressHandler) /\ UNCHANGED mtx)
    BY <1>4 DEF CallProgressHandler
  <2>3. QED  BY <2>1, <2>2, UnwindKeeps, HandleKeeps DEF Values
<1>5. CASE HandlerReturns(t)
  <2>1. \/ Running(t) /\ Locks(Top(t)) /\ Leave(t)
        \/ Running(t) /\ ~Locks(Top(t)) /\ Return(t) /\ UNCHANGED mtx
    BY <1>5 DEF HandlerReturns, In, Locks
  <2>2. QED  BY <2>1, LeaveKeeps, ReturnKeeps
<1>6. CASE HandlerThrows(t)
  BY <1>6, UnwindKeeps DEF HandlerThrows, In
<1>7. QED  BY <1>1, <1>2, <1>3, <1>4, <1>5, <1>6

-------------------------------------------------------------------------------
LEMMA StepBalanced ==
  ASSUME Balanced, Values, NEW t \in Threads, Step(t)
  PROVE  Balanced'
<1>1. CASE Lock(t)  BY <1>1, LockStep
<1>2. CASE SetLogHandler(t) \/ StoreProgressHandler(t) \/ SetProgressHandler(t) \/ ProductName(t)
  BY <1>2, SetterSteps
<1>3. CASE SetMinLogLevel(t) \/ ReadLevel(t) \/ SetDebug(t)  BY <1>3, LevelSteps
<1>4. CASE \/ GetLibUsbCtx(t) \/ InitLibUsb(t) \/ LeaveInited(t) \/ LogAgain(t)
           \/ ThrowUninitialized(t)
  BY <1>4, LibUsbSteps
<1>5. CASE \/ ShouldLog(t) \/ CallLogHandler(t) \/ TestProgressHandler(t)
           \/ CallProgressHandler(t) \/ HandlerReturns(t) \/ HandlerThrows(t)
  BY <1>5, HandlerSteps
<1>6. QED  BY <1>1, <1>2, <1>3, <1>4, <1>5 DEF Step

LEMMA StepFlags ==
  ASSUME Flags, NEW t \in Threads, Step(t)
  PROVE  Flags'
<1>1. CASE SetLogHandler(t)
  <2>1. crashed' \in BOOLEAN  BY <1>1, Zenon DEF SetLogHandler
  <2>2. UNCHANGED <<debug, destroyed>>  BY <1>1 DEF SetLogHandler, libusb
  <2>3. QED  BY <2>1, <2>2, Zenon DEF Flags
<1>2. CASE SetProgressHandler(t)
  <2>1. crashed' \in BOOLEAN  BY <1>2, Zenon DEF SetProgressHandler
  <2>2. UNCHANGED <<debug, destroyed>>  BY <1>2 DEF SetProgressHandler, libusb
  <2>3. QED  BY <2>1, <2>2, Zenon DEF Flags
<1>3. CASE TestProgressHandler(t)
  <2>1. crashed' \in BOOLEAN  BY <1>3, Zenon DEF TestProgressHandler, Overwriting
  <2>2. UNCHANGED <<debug, destroyed>>  BY <1>3 DEF TestProgressHandler, libusb
  <2>3. QED  BY <2>1, <2>2, Zenon DEF Flags
<1>4. CASE CallProgressHandler(t)
  <2>1. crashed' \in BOOLEAN  BY <1>4, Zenon DEF CallProgressHandler, Overwriting
  <2>2. UNCHANGED <<debug, destroyed>>  BY <1>4 DEF CallProgressHandler, libusb
  <2>3. QED  BY <2>1, <2>2, Zenon DEF Flags
<1>5. CASE SetDebug(t)
  <2>1. debug' \in BOOLEAN  BY <1>5, SMT DEF SetDebug
  <2>2. UNCHANGED <<destroyed, crashed>>  BY <1>5 DEF SetDebug
  <2>3. QED  BY <2>1, <2>2, Zenon DEF Flags
<1>6. CASE InitLibUsb(t)
  <2>1. debug' = FALSE \/ UNCHANGED libusb  BY <1>6 DEF InitLibUsb
  <2>2. UNCHANGED <<destroyed, crashed>>  BY <1>6 DEF InitLibUsb
  <2>3. debug' = FALSE \/ debug' = debug  BY <2>1 DEF libusb
  <2>4. QED  BY <2>2, <2>3, Zenon DEF Flags
<1>7. CASE \/ Lock(t) \/ StoreProgressHandler(t) \/ ProductName(t) \/ SetMinLogLevel(t)
           \/ ReadLevel(t) \/ GetLibUsbCtx(t) \/ LeaveInited(t) \/ LogAgain(t)
           \/ ThrowUninitialized(t) \/ ShouldLog(t) \/ CallLogHandler(t)
           \/ HandlerReturns(t) \/ HandlerThrows(t)
  <2>1. UNCHANGED <<debug, destroyed, crashed>>
    BY <1>7 DEF Lock, StoreProgressHandler, ProductName, SetMinLogLevel, ReadLevel, GetLibUsbCtx,
                LeaveInited, LogAgain, ThrowUninitialized, ShouldLog, CallLogHandler,
                HandlerReturns, HandlerThrows, libusb
  <2>2. QED  BY <2>1, Zenon DEF Flags
<1>8. QED  BY <1>1, <1>2, <1>3, <1>4, <1>5, <1>6, <1>7 DEF Step

LEMMA StepValues ==
  ASSUME Balanced, Values, NEW t \in Threads, Step(t)
  PROVE  Values'
<1>0. Running(t) => Top(t).level \in Levels /\ Top(t).handler \in HandlerArgs
  BY RunningFrame DEF Frames
<1>1. CASE SetLogHandler(t)
  <2>1. logHandler' \in HandlerArgs  BY <1>0, <1>1 DEF SetLogHandler, In
  <2>2. UNCHANGED <<progressHandler, minLogLevel, libusb, calls>>  BY <1>1 DEF SetLogHandler
  <2>3. QED  BY <2>1, <2>2 DEF Values, libusb
<1>2. CASE SetProgressHandler(t)
  <2>1. progressHandler' \in HandlerArgs  BY <1>0, <1>2 DEF SetProgressHandler, In
  <2>2. UNCHANGED <<logHandler, minLogLevel, libusb, calls>>  BY <1>2 DEF SetProgressHandler
  <2>3. QED  BY <2>1, <2>2 DEF Values, libusb
<1>3. CASE SetMinLogLevel(t)
  <2>1. minLogLevel' \in Levels  BY <1>0, <1>3 DEF SetMinLogLevel, In
  <2>2. UNCHANGED <<handlers, libusb, calls>>  BY <1>3 DEF SetMinLogLevel
  <2>3. QED  BY <2>1, <2>2 DEF Values, libusb, handlers
<1>4. CASE SetDebug(t)
  BY <1>4 DEF SetDebug, Values, handlers
<1>5. CASE InitLibUsb(t)
  <2>1. CASE inits' = inits + 1 /\ libusb_ctx' = inits' /\ live' = live \cup {inits'}
    <3>1. UNCHANGED <<handlers, minLogLevel, calls>>  BY <1>5 DEF InitLibUsb
    <3>2. libusb_ctx' \in 0 .. inits' /\ inits' \in Nat /\ live' \subseteq 1 .. inits'
      BY <2>1 DEF Values
    <3>3. QED  BY <3>1, <3>2 DEF Values, handlers
  <2>2. CASE UNCHANGED libusb
    <3>1. UNCHANGED <<handlers, minLogLevel, calls>>  BY <1>5 DEF InitLibUsb
    <3>2. QED  BY <2>2, <3>1 DEF Values, libusb, handlers
  <2>3. QED  BY <1>5, <2>1, <2>2 DEF InitLibUsb
<1>6. CASE \/ Lock(t) \/ StoreProgressHandler(t) \/ ProductName(t) \/ ReadLevel(t)
           \/ GetLibUsbCtx(t) \/ LeaveInited(t) \/ LogAgain(t) \/ ThrowUninitialized(t)
           \/ ShouldLog(t) \/ CallLogHandler(t) \/ HandlerReturns(t) \/ HandlerThrows(t)
           \/ TestProgressHandler(t) \/ CallProgressHandler(t)
  <2>1. UNCHANGED <<handlers, minLogLevel, libusb, calls>>
    BY <1>6 DEF Lock, StoreProgressHandler, ProductName, ReadLevel, GetLibUsbCtx, LeaveInited,
                LogAgain, ThrowUninitialized, ShouldLog, CallLogHandler, HandlerReturns,
                HandlerThrows, TestProgressHandler, CallProgressHandler
  <2>2. QED  BY <2>1 DEF Values, libusb, handlers
<1>7. QED  BY <1>1, <1>2, <1>3, <1>4, <1>5, <1>6 DEF Step

LEMMA InitBalanced ==
  ASSUME Init
  PROVE  Balanced /\ Values /\ Flags
<1>1. << >> \in Seq(Frames) /\ DOMAIN << >> = {} /\ WellNested(<< >>)
  BY EmptySeq DEF WellNested
<1>2. stack \in [Threads -> Seq(Frames)]  BY <1>1 DEF Init
<1>3. \A t \in Threads : WellNested(stack[t]) /\ LocksIn(stack[t]) = 0
  BY <1>1, NoFramesNoLocks DEF Init
<1>4. Balanced
  <2>1. owner = NoThread /\ depth = 0  BY DEF Init
  <2>2. QED  BY <1>2, <1>3, <2>1 DEF Balanced, LockBalance
<1>5. Values  BY ContextAssumption DEF Init, Values, HandlerArgs
<1>6. Flags  BY Zenon DEF Init, Flags
<1>7. QED  BY <1>4, <1>5, <1>6

LEMMA NextBalanced ==
  ASSUME Balanced, Values, Flags, [Next]_vars
  PROVE  Balanced' /\ Values' /\ Flags'
<1>1. CASE Destroy
  <2>1. UNCHANGED <<owner, depth, stack>>  BY <1>1 DEF Destroy, mtx
  <2>2. Balanced'  BY <2>1 DEF Balanced, LockBalance
  <2>3. Values'  BY <1>1 DEF Destroy, Values, handlers
  <2>4. debug' = FALSE /\ destroyed' = TRUE /\ crashed' = crashed  BY <1>1, Zenon DEF Destroy
  <2>5. QED  BY <2>2, <2>3, <2>4, Zenon DEF Flags
<1>2. ASSUME NEW t \in Threads, Call(t)  PROVE Balanced' /\ Values' /\ Flags'
  <2>1. Balanced'  BY <1>2, CallStep
  <2>2. calls' \in [Threads -> 0 .. MaxCalls]
    BY <1>2, ContextAssumption DEF Call, Values
  <2>3. UNCHANGED <<handlers, minLogLevel, libusb, destroyed, crashed>>  BY <1>2 DEF Call
  <2>4. Values'  BY <2>2, <2>3 DEF Values, libusb, handlers
  <2>5. UNCHANGED <<debug, destroyed, crashed>>  BY <2>3 DEF libusb
  <2>6. QED  BY <2>1, <2>4, <2>5, Zenon DEF Flags
<1>3. ASSUME NEW t \in Threads, Step(t)  PROVE Balanced' /\ Values' /\ Flags'
  BY <1>3, StepBalanced, StepValues, StepFlags
<1>4. CASE UNCHANGED vars
  <2>1. UNCHANGED <<owner, depth, stack>>  BY <1>4 DEF vars, mtx
  <2>2. Balanced'  BY <2>1 DEF Balanced, LockBalance
  <2>3. UNCHANGED <<handlers, minLogLevel, libusb, calls>>  BY <1>4 DEF vars
  <2>4. Values'  BY <2>3 DEF Values, handlers, libusb
  <2>5. UNCHANGED <<debug, destroyed, crashed>>  BY <1>4 DEF vars, libusb
  <2>6. QED  BY <2>2, <2>4, <2>5, Zenon DEF Flags
<1>5. QED  BY <1>1, <1>2, <1>3, <1>4 DEF Next

LEMMA AlwaysBalanced == Spec => [](Balanced /\ Values /\ Flags)
<1>1. Init => Balanced /\ Values /\ Flags  BY InitBalanced
<1>2. Balanced /\ Values /\ Flags /\ [Next]_vars => (Balanced /\ Values /\ Flags)'
  BY NextBalanced
<1>3. QED  BY <1>1, <1>2, PTL DEF Spec

(* Every variable keeps its type, whatever the threads and handlers do.    *)
THEOREM TypeCorrect == Spec => []TypeOK
<1>1. Balanced /\ Values /\ Flags => TypeOK
  BY Zenon DEF Balanced, Values, Flags, TypeOK
<1>2. QED  BY <1>1, AlwaysBalanced, PTL

(* The mutex is held once for each guard on its owner's stack and by no    *)
(* other thread: through calls that handlers make while it is held, and    *)
(* through exceptions that leave any number of calls.                      *)
THEOREM LockBalanced == Spec => []LockBalance
<1>1. Balanced => LockBalance  BY DEF Balanced
<1>2. QED  BY <1>1, AlwaysBalanced, PTL

(* The log handler is replaced by no thread while another one is in it: a  *)
(* thread in a log handler has the lock that setLogHandler takes.          *)
THEOREM HandlerSafe == Spec => NotReplacedInUse
<1>1. ASSUME Balanced, NEW t \in Threads, InLogHandler(t)
      PROVE  t = owner
  <2>1. PICK k \in DOMAIN stack[t] : stack[t][k].op = "log" /\ stack[t][k].at = "handling"
    BY <1>1 DEF InLogHandler
  <2>2. Locks(stack[t][k])  BY <2>1 DEF Locks
  <2>3. LocksIn(stack[t]) > 0  BY <1>1, <2>2, LocksInSome DEF Balanced
  <2>4. QED  BY <1>1, <2>3 DEF Balanced, LockBalance
<1>2. Balanced /\ [Next]_vars =>
        [logHandler' # logHandler => \A t \in Threads : InLogHandler(t) => t = owner]_vars
  BY <1>1
<1>3. QED  BY <1>2, AlwaysBalanced, PTL DEF Spec, NotReplacedInUse

-------------------------------------------------------------------------------
(***************************************************************************)
(* What a step may do to the stack of its thread: a return or an exception *)
(* cuts it, a move within a function replaces its last frame, and a call   *)
(* adds one.  None of these leads to the place at.                         *)
(***************************************************************************)
StandsAt(s, at) == s # << >> /\ s[Len(s)].at = at

Moved(s, r, at) ==
  \/ \E n \in 0 .. Len(s) - 1 : r = SubSeq(s, 1, n)
  \/ \E x \in Frames : x.at # at /\ r = Append(Front(s), x)
  \/ \E y, x \in Frames : x.at # at /\ r = Append(Append(Front(s), y), x)

MovedTo(t, at) == \E r : Moved(stack[t], r, at) /\ stack' = [stack EXCEPT ![t] = r]

LEMMA MovedStands ==
  ASSUME NEW s \in Seq(Frames), s # << >>, WellNested(s), NEW at, at \notin Waiting,
         NEW r, Moved(s, r, at)
  PROVE  ~StandsAt(r, at)
<1>1. /\ Len(s) \in Nat \ {0} /\ DOMAIN s = 1 .. Len(s)
      /\ \A k \in DOMAIN s : s[k] \in Frames
  BY EmptySeq, LenProperties, ElementOfSeq
<1>2. ASSUME NEW n \in 0 .. Len(s) - 1, r = SubSeq(s, 1, n)  PROVE ~StandsAt(r, at)
  <2>1. n \in 0 .. Len(s)  BY <1>1
  <2>2. r \in Seq(Frames) /\ Len(r) = n /\ \A k \in 1 .. n : r[k] = s[k]
    BY <1>2, <2>1, Cut
  <2>3. CASE n = 0
    BY <2>2, <2>3, EmptySeq DEF StandsAt
  <2>4. CASE n > 0
    <3>1. r[n] = s[n] /\ n \in DOMAIN s /\ n < Len(s)  BY <1>1, <2>2, <2>4
    <3>2. s[n].at \in Waiting  BY <3>1 DEF WellNested
    <3>3. QED  BY <2>2, <3>1, <3>2 DEF StandsAt
  <2>5. QED  BY <1>1, <2>3, <2>4
<1>3. Front(s) \in Seq(Frames)  BY Popped
<1>4. ASSUME NEW b \in Seq(Frames), NEW x \in Frames, x.at # at, r = Append(b, x)
      PROVE  ~StandsAt(r, at)
  <2>1. Len(r) = Len(b) + 1 /\ r[Len(b) + 1] = x  BY <1>4, AppendProperties
  <2>2. QED  BY <1>4, <2>1 DEF StandsAt
<1>5. ASSUME NEW y \in Frames, NEW x \in Frames, x.at # at,
             r = Append(Append(Front(s), y), x)
      PROVE  ~StandsAt(r, at)
  <2>1. Append(Front(s), y) \in Seq(Frames)  BY <1>3, AppendProperties
  <2>2. QED  BY <1>4, <1>5, <2>1
<1>6. QED  BY <1>2, <1>3, <1>4, <1>5 DEF Moved

LEMMA ReturnMoves ==
  ASSUME Balanced, NEW t \in Threads, Running(t), NEW at, Return(t)
  PROVE  MovedTo(t, at)
<1>1. Len(stack[t]) \in Nat \ {0}  BY RunningFrame, EmptySeq, LenProperties
<1>2. Len(stack[t]) - 1 \in 0 .. Len(stack[t]) - 1  BY <1>1
<1>3. Moved(stack[t], Front(stack[t]), at)  BY <1>2 DEF Moved, Front
<1>4. QED  BY <1>3 DEF Return, MovedTo

LEMMA ReplaceMoves ==
  ASSUME NEW t \in Threads, NEW at, NEW x \in Frames, x.at # at,
         stack' = [stack EXCEPT ![t] = Append(Front(@), x)]
  PROVE  MovedTo(t, at)
<1>1. Moved(stack[t], Append(Front(stack[t]), x), at)  BY DEF Moved
<1>2. QED  BY <1>1 DEF MovedTo

LEMMA GotoMoves ==
  ASSUME Balanced, NEW t \in Threads, Running(t), NEW at, NEW to \in Places \ {at}, Goto(t, to)
  PROVE  MovedTo(t, at)
<1> DEFINE x == [Top(t) EXCEPT !.at = to]
<1>1. Top(t) \in Frames  BY RunningFrame
<1>2. x \in Frames /\ x.at = to  BY <1>1, FrameAt
<1>3. stack' = [stack EXCEPT ![t] = Append(Front(@), x)]  BY DEF Goto
<1> HIDE DEF x
<1>4. QED  BY <1>2, <1>3, ReplaceMoves

LEMMA UnwindMoves ==
  ASSUME NEW t \in Threads, NEW at, Unwind(t)
  PROVE  MovedTo(t, at)
<1>1. PICK n \in 0 .. Len(stack[t]) - 1 : stack' = [stack EXCEPT ![t] = SubSeq(@, 1, n)]
  BY DEF Unwind
<1>2. Moved(stack[t], SubSeq(stack[t], 1, n), at)  BY DEF Moved
<1>3. QED  BY <1>1, <1>2 DEF MovedTo

LEMMA InnerMoves ==
  ASSUME Balanced, NEW t \in Threads, Running(t), NEW at \in {"init", "read"}, NEW to \in Waiting,
         NEW op \in {"log", "updateLibUsbLogLevel"}, Inner(t, to, op)
  PROVE  MovedTo(t, at)
<1> DEFINE y == [Top(t) EXCEPT !.at = to]
           x == [op |-> op, at |-> Entry(op), level |-> ErrorLevel, handler |-> Empty]
<1>1. Top(t) \in Frames  BY RunningFrame
<1>2. y \in Frames  BY <1>1, FrameAt DEF Waiting, Places
<1>3. x \in Frames  BY NewFrame, ContextAssumption DEF HandlerArgs
<1>4. x.at # at  BY DEF Entry
<1>5. stack' = [stack EXCEPT ![t] = Append(Append(Front(@), y), x)]  BY DEF Inner
<1> HIDE DEF x, y
<1>6. Moved(stack[t], Append(Append(Front(stack[t]), y), x), at)
  BY <1>2, <1>3, <1>4 DEF Moved
<1>7. QED  BY <1>5, <1>6 DEF MovedTo

LEMMA HandleMoves ==
  ASSUME Balanced, NEW t \in Threads, Running(t), NEW at \in {"init", "read"},
         NEW handler \in HandlerArgs, Handle(t, handler)
  PROVE  MovedTo(t, at)
<1> DEFINE x == [Top(t) EXCEPT !.at = "handling", !.handler = handler]
<1>1. Top(t) \in Frames  BY RunningFrame
<1>2. x \in Frames /\ x.at = "handling"  BY <1>1 DEF Frames
<1>3. stack' = [stack EXCEPT ![t] = Append(Front(@), x)]  BY DEF Handle
<1> HIDE DEF x
<1>4. QED  BY <1>2, <1>3, ReplaceMoves

(* Only getLibUsbCtx leads to "init", and only ReadLevel to "read".        *)
LEMMA StepMoves ==
  ASSUME Balanced, Values, NEW t \in Threads, Step(t), NEW at \in {"init", "read"},
         at = "init" => ~(GetLibUsbCtx(t) /\ libusb_ctx = 0),
         at = "read" => ~(ReadLevel(t) /\ libusb_ctx # 0)
  PROVE  Running(t) /\ MovedTo(t, at)
<1>1. CASE Lock(t) \/ StoreProgressHandler(t)
  <2>1. Running(t) /\ (Goto(t, "locked") \/ Goto(t, "storing"))
    BY <1>1 DEF Lock, StoreProgressHandler, In
  <2>2. QED  BY <2>1, GotoMoves DEF Places
<1>2. CASE SetLogHandler(t) \/ SetProgressHandler(t) \/ ProductName(t) \/ SetDebug(t) \/ LeaveInited(t)
  <2>1. Running(t) /\ Return(t)
    BY <1>2 DEF SetLogHandler, SetProgressHandler, ProductName, SetDebug, LeaveInited, In, Leave
  <2>2. QED  BY <2>1, ReturnMoves
<1>3. CASE SetMinLogLevel(t)
  <2> DEFINE x == [Top(t) EXCEPT !.op = "updateLibUsbLogLevel", !.at = "lock"]
  <2>1. Running(t) /\ stack' = [stack EXCEPT ![t] = Append(Front(@), x)]
    BY <1>3 DEF SetMinLogLevel, In
  <2>2. Top(t) \in Frames  BY <2>1, RunningFrame
  <2>3. x \in Frames /\ x.at = "lock"  BY <2>2 DEF Frames
  <2> HIDE DEF x
  <2>4. QED  BY <2>1, <2>3, ReplaceMoves
<1>4. CASE ReadLevel(t)
  <2>1. Running(t)  BY <1>4 DEF ReadLevel, In
  <2>2. CASE libusb_ctx = 0
    BY <1>4, <2>1, <2>2, ReturnMoves DEF ReadLevel, Leave
  <2>3. CASE libusb_ctx # 0
    <3> DEFINE x == [Top(t) EXCEPT !.at = "read", !.level = minLogLevel]
    <3>1. stack' = [stack EXCEPT ![t] = Append(Front(@), x)]
      BY <1>4, <2>3 DEF ReadLevel, LevelRead
    <3>2. Top(t) \in Frames /\ minLogLevel \in Levels  BY <2>1, RunningFrame DEF Values
    <3>3. x \in Frames /\ x.at = "read"  BY <3>2 DEF Frames
    <3> HIDE DEF x
    <3>4. at = "init"  BY <1>4, <2>3
    <3>5. QED  BY <2>1, <3>1, <3>3, <3>4, ReplaceMoves
  <2>4. QED  BY <2>2, <2>3
<1>5. CASE GetLibUsbCtx(t)
  <2>1. Running(t)  BY <1>5 DEF GetLibUsbCtx, In
  <2>2. Return(t) \/ (Goto(t, "init") /\ at = "read")  BY <1>5 DEF GetLibUsbCtx, Leave
  <2>3. QED  BY <2>1, <2>2, ReturnMoves, GotoMoves DEF Places
<1>6. CASE InitLibUsb(t) \/ LogAgain(t)
  <2>1. /\ Running(t)
        /\ \/ Inner(t, "inited", "updateLibUsbLogLevel")
           \/ Inner(t, "failed", "log") \/ Inner(t, "failedTwice", "log")
    BY <1>6 DEF InitLibUsb, LogAgain, In
  <2>2. QED  BY <2>1, InnerMoves DEF Waiting
<1>7. CASE ThrowUninitialized(t) \/ HandlerThrows(t)
  BY <1>7, UnwindMoves DEF ThrowUninitialized, HandlerThrows, In
<1>8. CASE ShouldLog(t)
  <2>1. Running(t) /\ (Goto(t, "lock") \/ Return(t))  BY <1>8 DEF ShouldLog, In
  <2>2. QED  BY <2>1, GotoMoves, ReturnMoves DEF Places
<1>9. CASE CallLogHandler(t)
  <2>1. Running(t) /\ (Return(t) \/ Handle(t, logHandler))
    BY <1>9 DEF CallLogHandler, In, Leave
  <2>2. QED  BY <2>1, HandleMoves, ReturnMoves DEF Values
<1>10. CASE TestProgressHandler(t)
  <2>1. Running(t) /\ (Goto(t, "calling") \/ Return(t))  BY <1>10 DEF TestProgressHandler, In
  <2>2. QED  BY <2>1, GotoMoves, ReturnMoves DEF Places
<1>11. CASE CallProgressHandler(t)
  <2>1. Running(t) /\ (Unwind(t) \/ Handle(t, progressHandler))
    BY <1>11 DEF CallProgressHandler, In
  <2>2. QED  BY <2>1, HandleMoves, UnwindMoves DEF Values
<1>12. CASE HandlerReturns(t)
  <2>1. Running(t) /\ Return(t)  BY <1>12 DEF HandlerReturns, In, Leave
  <2>2. QED  BY <2>1, ReturnMoves
<1>13. QED
  BY <1>1, <1>2, <1>3, <1>4, <1>5, <1>6, <1>7, <1>8, <1>9, <1>10, <1>11, <1>12 DEF Step

(* After such a step the thread does not stand there.                      *)
LEMMA NotThere ==
  ASSUME Balanced, NEW t \in Threads, Running(t), NEW at, at \notin Waiting, MovedTo(t, at)
  PROVE  /\ ~StandsAt(stack'[t], at)
         /\ \A u \in Threads : u # t => stack'[u] = stack[u]
<1>1. PICK r : Moved(stack[t], r, at) /\ stack' = [stack EXCEPT ![t] = r]  BY DEF MovedTo
<1>2. ~StandsAt(r, at)  BY <1>1, RunningFrame, MovedStands
<1>3. stack \in [Threads -> Seq(Frames)]  BY DEF Balanced
<1>4. QED  BY <1>1, <1>2, <1>3

-------------------------------------------------------------------------------
(***************************************************************************)
(* A thread that is about to make a context has found that there is none,  *)
(* and has the lock.                                                       *)
(***************************************************************************)
Making(s) == StandsAt(s, "init") /\ s[Len(s)].op = "getLibUsbCtx"

NoneYet ==
  /\ live = {libusb_ctx} \ {0}
  /\ destroyed => libusb_ctx = 0 /\ \A t \in Threads : stack[t] = << >>
  /\ \A t \in Threads : Making(stack[t]) => libusb_ctx = 0

(* Only one thread can be about to make a context.                         *)
LEMMA MakingOwns ==
  ASSUME Balanced, NEW t \in Threads, Making(stack[t])
  PROVE  t = owner
<1>1. stack[t] \in Seq(Frames) /\ Len(stack[t]) \in DOMAIN stack[t]
  <2>1. stack[t] \in Seq(Frames) /\ stack[t] # << >>  BY DEF Balanced, Making, StandsAt
  <2>2. QED  BY <2>1, EmptySeq, LenProperties
<1>2. Locks(stack[t][Len(stack[t])])  BY DEF Making, StandsAt, Locks
<1>3. LocksIn(stack[t]) > 0  BY <1>1, <1>2, LocksInSome
<1>4. QED  BY <1>3 DEF Balanced, LockBalance

LEMMA StepNoneYet ==
  ASSUME Balanced, Values, NoneYet, NEW t \in Threads, Step(t)
  PROVE  NoneYet'
<1>1. CASE InitLibUsb(t)
  <2>1. Running(t) /\ Making(stack[t])
    BY <1>1 DEF InitLibUsb, In, Running, Top, Making, StandsAt
  <2>2. t = owner /\ libusb_ctx = 0  BY <2>1, MakingOwns DEF NoneYet
  <2>3. ~destroyed /\ UNCHANGED destroyed  BY <1>1, <2>1 DEF NoneYet, Running, InitLibUsb
  <2>4. ~GetLibUsbCtx(t)  BY <1>1 DEF InitLibUsb, GetLibUsbCtx, In
  <2>5. MovedTo(t, "init")  BY <2>4, StepMoves
  <2>6. \A u \in Threads : ~Making(stack'[u])
    <3>1. \A u \in Threads : u # t => ~Making(stack[u])  BY <2>2, MakingOwns
    <3>2. QED  BY <2>1, <2>5, <3>1, NotThere DEF Making, Waiting
  <2>7. live' = {libusb_ctx'} \ {0}
    <3>1. CASE inits' = inits + 1 /\ libusb_ctx' = inits' /\ live' = live \cup {inits'}
      <4>1. live = {} /\ inits' # 0  BY <2>2, <3>1 DEF NoneYet, Values
      <4>2. QED  BY <3>1, <4>1
    <3>2. CASE UNCHANGED libusb  BY <3>2 DEF NoneYet, libusb
    <3>3. QED  BY <1>1, <3>1, <3>2 DEF InitLibUsb
  <2>8. QED  BY <2>3, <2>6, <2>7 DEF NoneYet
<1>2. CASE ~InitLibUsb(t)
  <2>1. UNCHANGED <<libusb_ctx, live, destroyed>>
    BY <1>2 DEF Step, Lock, SetLogHandler, StoreProgressHandler, SetProgressHandler, ProductName,
                SetMinLogLevel, ReadLevel, SetDebug, GetLibUsbCtx, LeaveInited, LogAgain,
                ThrowUninitialized, ShouldLog, CallLogHandler, TestProgressHandler,
                CallProgressHandler, HandlerReturns, HandlerThrows, libusb
  <2>2. CASE GetLibUsbCtx(t) /\ libusb_ctx = 0
    <3>1. stack[t] # << >>  BY <2>2 DEF GetLibUsbCtx, In, Running
    <3>2. ~destroyed  BY <3>1 DEF NoneYet
    <3>3. QED  BY <2>1, <2>2, <3>2 DEF NoneYet
  <2>3. CASE ~(GetLibUsbCtx(t) /\ libusb_ctx = 0)
    <3>1. Running(t) /\ MovedTo(t, "init")  BY <2>3, StepMoves
    <3>2. ~destroyed  BY <3>1 DEF NoneYet, Running
    <3>3. \A u \in Threads : Making(stack'[u]) => Making(stack[u])
      BY <3>1, NotThere DEF Making, Waiting
    <3>4. QED  BY <2>1, <3>2, <3>3 DEF NoneYet
  <2>4. QED  BY <2>2, <2>3
<1>3. QED  BY <1>1, <1>2

LEMMA NextNoneYet ==
  ASSUME Balanced, Values, NoneYet, [Next]_vars
  PROVE  NoneYet'
<1>1. CASE Destroy
  <2>1. /\ \A t \in Threads : stack[t] = << >>
        /\ libusb_ctx' = 0 /\ live' = live \ {libusb_ctx} /\ UNCHANGED stack
    BY <1>1 DEF Destroy, Running
  <2>2. QED  BY <2>1 DEF NoneYet
<1>2. ASSUME NEW t \in Threads, Call(t)  PROVE NoneYet'
  <2>1. PICK c \in Calls : Push(t, c.op, c.level, c.handler)  BY <1>2 DEF Call
  <2> DEFINE x == [op |-> c.op, at |-> Entry(c.op), level |-> c.level, handler |-> c.handler]
             r == Append(stack[t], x)
  <2>2. stack' = [stack EXCEPT ![t] = r]  BY <2>1 DEF Push
  <2>3. UNCHANGED <<libusb_ctx, live, destroyed>> /\ ~destroyed  BY <1>2 DEF Call, libusb
  <2>4. c \in Frames  BY ContextAssumption
  <2>5. x \in Frames /\ Placed(x) /\ ~Locks(x)  BY <2>4, NewFrame DEF Frames
  <2>6. x.at # "init"  BY DEF Entry
  <2> HIDE DEF x
  <2>7. stack \in [Threads -> Seq(Frames)]  BY DEF Balanced
  <2>8. Len(r) = Len(stack[t]) + 1 /\ r[Len(stack[t]) + 1] = x
    BY <2>5, <2>7, AppendProperties
  <2>9. ~Making(r)  BY <2>6, <2>8 DEF Making, StandsAt
  <2> HIDE DEF r
  <2>10. \A u \in Threads : Making(stack'[u]) => Making(stack[u])  BY <2>2, <2>7, <2>9
  <2>11. QED  BY <2>3, <2>10 DEF NoneYet
<1>3. ASSUME NEW t \in Threads, Step(t)  PROVE NoneYet'
  BY <1>3, StepNoneYet
<1>4. CASE UNCHANGED vars
  BY <1>4 DEF vars, libusb, NoneYet
<1>5. QED  BY <1>1, <1>2, <1>3, <1>4 DEF Next

(* libusb is asked for one context at a time, by whichever thread needs it *)
(* first, and the destructor leaves none over.                             *)
THEOREM OneContextKept == Spec => []OneContext
<1>1. Init => NoneYet
  BY DEF Init, NoneYet, Making, StandsAt
<1>2. Balanced /\ Values /\ NoneYet /\ [Next]_vars => NoneYet'  BY NextNoneYet
<1>3. NoneYet => OneContext  BY DEF NoneYet, OneContext
<1>4. QED  BY <1>1, <1>2, <1>3, AlwaysBalanced, PTL DEF Spec

-------------------------------------------------------------------------------
(***************************************************************************)
(* libusb and the level.                                                   *)
(***************************************************************************)

(* Whoever has read the level has the lock; so has whoever is to read it.  *)
LEMMA UpdaterOwns ==
  ASSUME Balanced, NEW t \in Threads, UpdatesAt(t, "read") \/ UpdatesAt(t, "locked")
  PROVE  t = owner
<1>1. stack[t] \in Seq(Frames) /\ Len(stack[t]) \in DOMAIN stack[t]
  <2>1. stack[t] \in Seq(Frames) /\ stack[t] # << >>  BY DEF Balanced, UpdatesAt, Running
  <2>2. QED  BY <2>1, EmptySeq, LenProperties
<1>2. Locks(stack[t][Len(stack[t])])  BY DEF UpdatesAt, Top, Locks
<1>3. LocksIn(stack[t]) > 0  BY <1>1, <1>2, LocksInSome
<1>4. QED  BY <1>3 DEF Balanced, LockBalance

(* A thread that waits for the lock will have libusb follow the level.     *)
LEMMA WaitingFollows ==
  ASSUME NEW t \in Threads, UpdatesAt(t, "lock")'
  PROVE  LevelFollowed'
BY DEF LevelFollowed

(* A thread whose stack stays as it is stands where it stood.              *)
LEMMA SameTop ==
  ASSUME NEW t \in Threads, stack'[t] = stack[t], NEW at
  PROVE  UpdatesAt(t, at)' = UpdatesAt(t, at) /\ Top(t)' = Top(t)
BY DEF UpdatesAt, Running, Top

(* Steps of a thread that is not about to tell libusb anything.            *)
LEMMA OthersFollow ==
  ASSUME Balanced, LevelFollowed, NEW t \in Threads,
         \A at \in {"lock", "locked", "read"} : ~UpdatesAt(t, at),
         ~UpdatesAt(t, "read")', \A u \in Threads : u # t => stack'[u] = stack[u],
         UNCHANGED <<libusb_ctx, debug, minLogLevel>>
  PROVE  LevelFollowed'
<1>1. ASSUME NEW u \in Threads, NEW at \in {"lock", "locked", "read"}, UpdatesAt(u, at)
      PROVE  UpdatesAt(u, at)' /\ Top(u)' = Top(u)
  <2>1. u # t  BY <1>1
  <2>2. QED  BY <1>1, <2>1, SameTop
<1>2. libusb_ctx' # 0 =>
        \/ debug' <=> Verbose3 >= minLogLevel'
        \/ \E u \in Threads : \/ UpdatesAt(u, "lock")' \/ UpdatesAt(u, "locked")'
                              \/ UpdatesAt(u, "read")' /\ Top(u)'.level = minLogLevel'
  BY <1>1 DEF LevelFollowed
<1>3. ASSUME NEW u \in Threads, UpdatesAt(u, "read")', Top(u)'.level # minLogLevel'
      PROVE  \E v \in Threads : UpdatesAt(v, "lock")'
  <2>1. u # t  BY <1>3
  <2>2. UpdatesAt(u, "read") /\ Top(u).level # minLogLevel  BY <1>3, <2>1, SameTop
  <2>3. PICK v \in Threads : UpdatesAt(v, "lock")  BY <2>2 DEF LevelFollowed
  <2>4. QED  BY <1>1, <2>3
<1>4. QED  BY <1>2, <1>3 DEF LevelFollowed

(* The frame a thread has just got on top.                                 *)
LEMMA NewTop ==
  ASSUME stack \in [Threads -> Seq(Frames)], NEW t \in Threads, NEW b \in Seq(Frames),
         NEW x \in Frames, stack' = [stack EXCEPT ![t] = Append(b, x)]
  PROVE  /\ Running(t)' /\ Top(t)' = x
         /\ \A u \in Threads : u # t => stack'[u] = stack[u]
<1> DEFINE r == Append(b, x)
<1>1. r \in Seq(Frames) /\ Len(r) = Len(b) + 1 /\ r[Len(b) + 1] = x  BY AppendProperties
<1>2. Len(b) \in Nat  BY LenProperties
<1>3. r # << >>  BY <1>1, <1>2, EmptySeq
<1>4. stack'[t] = r /\ \A u \in Threads : u # t => stack'[u] = stack[u]  OBVIOUS
<1> HIDE DEF r
<1>5. QED  BY <1>1, <1>3, <1>4 DEF Running, Top

LEMMA ReplacedTop ==
  ASSUME Balanced, NEW t \in Threads, Running(t), NEW x \in Frames,
         stack' = [stack EXCEPT ![t] = Append(Front(@), x)]
  PROVE  /\ Running(t)' /\ Top(t)' = x
         /\ \A u \in Threads : u # t => stack'[u] = stack[u]
<1>1. stack[t] \in Seq(Frames) /\ stack[t] # << >> /\ WellNested(stack[t])  BY RunningFrame
<1>2. Front(stack[t]) \in Seq(Frames)  BY <1>1, Popped
<1>3. stack' = [stack EXCEPT ![t] = Append(Front(stack[t]), x)]  OBVIOUS
<1>4. stack \in [Threads -> Seq(Frames)]  BY DEF Balanced
<1>5. QED  BY <1>2, <1>3, <1>4, NewTop

LEMMA LockFollows ==
  ASSUME Balanced, LevelFollowed, NEW t \in Threads, Lock(t)
  PROVE  LevelFollowed'
<1> DEFINE x == [Top(t) EXCEPT !.at = "locked"]
<1>1. Running(t) /\ Top(t).at = "lock" /\ owner \in {NoThread, t}
      /\ UNCHANGED <<libusb_ctx, debug, minLogLevel>>
      /\ stack' = [stack EXCEPT ![t] = Append(Front(@), x)]
  BY DEF Lock, MayLock, Goto, libusb
<1>2. Top(t) \in Frames  BY <1>1, RunningFrame
<1>3. x \in Frames /\ x.op = Top(t).op /\ x.at = "locked"  BY <1>2, FrameAt DEF Places
<1> HIDE DEF x
<1>4. Running(t)' /\ Top(t)' = x /\ \A u \in Threads : u # t => stack'[u] = stack[u]
  BY <1>1, <1>3, ReplacedTop
<1>5. ~UpdatesAt(t, "read")' /\ (UpdatesAt(t, "lock") => UpdatesAt(t, "locked")')
  BY <1>3, <1>4 DEF UpdatesAt
<1>6. \A u \in Threads : ~UpdatesAt(u, "read")
  <2> SUFFICES ASSUME NEW u \in Threads, UpdatesAt(u, "read") PROVE FALSE  OBVIOUS
  <2>1. u = owner  BY UpdaterOwns
  <2>2. u = t  BY <1>1, <2>1, ContextAssumption
  <2>3. QED  BY <1>1, <2>2 DEF UpdatesAt
<1>7. \A u \in Threads : ~UpdatesAt(u, "read")'
  BY <1>4, <1>5, <1>6, SameTop
<1>8. ASSUME libusb_ctx' # 0, ~(debug' <=> Verbose3 >= minLogLevel')
      PROVE  \E u \in Threads : UpdatesAt(u, "lock")' \/ UpdatesAt(u, "locked")'
  <2>1. PICK u \in Threads : UpdatesAt(u, "lock") \/ UpdatesAt(u, "locked")
    BY <1>1, <1>6, <1>8 DEF LevelFollowed
  <2>2. CASE u = t  BY <1>1, <1>5, <2>1, <2>2 DEF UpdatesAt
  <2>3. CASE u # t  BY <1>4, <2>1, <2>3, SameTop
  <2>4. QED  BY <2>2, <2>3
<1>9. QED  BY <1>7, <1>8 DEF LevelFollowed

LEMMA ReadFollows ==
  ASSUME Balanced, Values, LevelFollowed, NEW t \in Threads, ReadLevel(t)
  PROVE  LevelFollowed'
<1>1. Running(t) /\ UpdatesAt(t, "locked") /\ UNCHANGED <<libusb_ctx, debug, minLogLevel>>
  BY DEF ReadLevel, In, UpdatesAt, libusb
<1>2. t = owner /\ \A u \in Threads : u # t => ~UpdatesAt(u, "read")
  BY <1>1, UpdaterOwns
<1>3. CASE libusb_ctx = 0
  <2>1. MovedTo(t, "read")  BY <1>1, <1>3, ReturnMoves DEF ReadLevel, Leave
  <2>2. /\ ~StandsAt(stack'[t], "read")
        /\ \A u \in Threads : u # t => stack'[u] = stack[u]
    BY <1>1, <2>1, NotThere DEF Waiting
  <2>3. ~UpdatesAt(t, "read")'  BY <2>2 DEF StandsAt, UpdatesAt, Running, Top
  <2>4. \A u \in Threads : ~UpdatesAt(u, "read")'  BY <1>2, <2>2, <2>3, SameTop
  <2>5. QED  BY <1>1, <1>3, <2>4 DEF LevelFollowed
<1>4. CASE libusb_ctx # 0
  <2> DEFINE x == [Top(t) EXCEPT !.at = "read", !.level = minLogLevel]
  <2>1. stack' = [stack EXCEPT ![t] = Append(Front(@), x)]
    BY <1>4 DEF ReadLevel, LevelRead
  <2>2. Top(t) \in Frames /\ minLogLevel \in Levels  BY <1>1, RunningFrame DEF Values
  <2>3. x \in Frames /\ x.op = Top(t).op /\ x.at = "read" /\ x.level = minLogLevel
    BY <2>2 DEF Frames
  <2> HIDE DEF x
  <2>4. Running(t)' /\ Top(t)' = x /\ \A u \in Threads : u # t => stack'[u] = stack[u]
    BY <1>1, <2>1, <2>3, ReplacedTop
  <2>5. UpdatesAt(t, "read")' /\ Top(t)'.level = minLogLevel'
    BY <1>1, <2>3, <2>4 DEF UpdatesAt
  <2>6. \A u \in Threads : u # t => ~UpdatesAt(u, "read")'  BY <1>2, <2>4, SameTop
  <2>7. QED  BY <2>5, <2>6 DEF LevelFollowed
<1>5. QED  BY <1>3, <1>4

LEMMA TellFollows ==
  ASSUME Balanced, LevelFollowed, NEW t \in Threads, SetDebug(t)
  PROVE  LevelFollowed'
<1>1. Running(t) /\ UpdatesAt(t, "read") /\ UNCHANGED <<libusb_ctx, minLogLevel>>
  BY DEF SetDebug, In, UpdatesAt
<1>2. t = owner /\ \A u \in Threads : u # t => ~UpdatesAt(u, "read")
  BY <1>1, UpdaterOwns
<1>3. MovedTo(t, "read")  BY <1>1, ReturnMoves DEF SetDebug, Leave
<1>4. /\ ~StandsAt(stack'[t], "read")
      /\ \A u \in Threads : u # t => stack'[u] = stack[u]
  BY <1>1, <1>3, NotThere DEF Waiting
<1>5. ~UpdatesAt(t, "read")'  BY <1>4 DEF StandsAt, UpdatesAt, Running, Top
<1>6. \A u \in Threads : ~UpdatesAt(u, "read")'  BY <1>2, <1>4, <1>5, SameTop
<1>7. CASE Top(t).level = minLogLevel
  <2>1. debug' <=> Verbose3 >= minLogLevel'  BY <1>1, <1>7 DEF SetDebug
  <2>2. QED  BY <1>6, <2>1 DEF LevelFollowed
<1>8. CASE Top(t).level # minLogLevel
  <2>1. PICK u \in Threads : UpdatesAt(u, "lock")  BY <1>1, <1>8 DEF LevelFollowed
  <2>2. u # t  BY <1>1, <2>1 DEF UpdatesAt
  <2>3. UpdatesAt(u, "lock")'  BY <1>4, <2>1, <2>2, SameTop
  <2>4. QED  BY <2>3, WaitingFollows
<1>9. QED  BY <1>7, <1>8

LEMMA StepFollows ==
  ASSUME Balanced, Values, LevelFollowed, NEW t \in Threads, Step(t)
  PROVE  LevelFollowed'
<1>1. CASE Lock(t)  BY <1>1, LockFollows
<1>2. CASE ReadLevel(t)  BY <1>2, ReadFollows
<1>3. CASE SetDebug(t)  BY <1>3, TellFollows
<1>4. CASE SetMinLogLevel(t)
  <2> DEFINE x == [Top(t) EXCEPT !.op = "updateLibUsbLogLevel", !.at = "lock"]
  <2>1. Running(t) /\ stack' = [stack EXCEPT ![t] = Append(Front(@), x)]
    BY <1>4 DEF SetMinLogLevel, In
  <2>2. Top(t) \in Frames  BY <2>1, RunningFrame
  <2>3. x \in Frames /\ x.op = "updateLibUsbLogLevel" /\ x.at = "lock"  BY <2>2 DEF Frames
  <2> HIDE DEF x
  <2>4. Running(t)' /\ Top(t)' = x  BY <2>1, <2>3, ReplacedTop
  <2>5. UpdatesAt(t, "lock")'  BY <2>3, <2>4 DEF UpdatesAt
  <2>6. QED  BY <2>5, WaitingFollows
<1>a. ASSUME ~Lock(t), ~ReadLevel(t), ~SetDebug(t),
             \A at \in {"lock", "locked", "read"} : ~UpdatesAt(t, at),
             UNCHANGED <<libusb_ctx, debug, minLogLevel>>
      PROVE  LevelFollowed'
  <2>1. Running(t) /\ MovedTo(t, "read")  BY <1>a, StepMoves
  <2>2. /\ ~StandsAt(stack'[t], "read")
        /\ \A u \in Threads : u # t => stack'[u] = stack[u]
    BY <2>1, NotThere DEF Waiting
  <2>3. ~UpdatesAt(t, "read")'  BY <2>2 DEF StandsAt, UpdatesAt, Running, Top
  <2>4. QED  BY <1>a, <2>2, <2>3, OthersFollow
<1>5. CASE InitLibUsb(t)
  <2>1. Running(t) /\ Top(t).op = "getLibUsbCtx" /\ Top(t).at = "init"
        /\ UNCHANGED minLogLevel
    BY <1>5 DEF InitLibUsb, In
  <2>2. CASE Inner(t, "inited", "updateLibUsbLogLevel")
    <3> DEFINE y == [Top(t) EXCEPT !.at = "inited"]
               x == [op |-> "updateLibUsbLogLevel", at |-> Entry("updateLibUsbLogLevel"),
                     level |-> ErrorLevel, handler |-> Empty]
    <3>1. stack' = [stack EXCEPT ![t] = Append(Append(Front(stack[t]), y), x)]
      BY <2>2 DEF Inner
    <3>2. Top(t) \in Frames /\ stack[t] \in Seq(Frames) /\ stack[t] # << >>
          /\ WellNested(stack[t])
      BY <2>1, RunningFrame
    <3>3. y \in Frames  BY <3>2, FrameAt DEF Places
    <3>4. Append(Front(stack[t]), y) \in Seq(Frames)  BY <3>2, <3>3, Popped, AppendProperties
    <3>5. x \in Frames  BY NewFrame, ContextAssumption DEF HandlerArgs
    <3>6. x.op = "updateLibUsbLogLevel" /\ x.at = "lock"  BY DEF Entry
    <3> HIDE DEF x, y
    <3>7. stack \in [Threads -> Seq(Frames)]  BY DEF Balanced
    <3>8. Running(t)' /\ Top(t)' = x  BY <3>1, <3>4, <3>5, <3>7, NewTop
    <3>9. UpdatesAt(t, "lock")'  BY <3>6, <3>8 DEF UpdatesAt
    <3>10. QED  BY <3>9, WaitingFollows
  <2>3. CASE UNCHANGED libusb
    <3>1. \A at \in {"lock", "locked", "read"} : ~UpdatesAt(t, at)  BY <2>1 DEF UpdatesAt
    <3>2. ~Lock(t) /\ ~ReadLevel(t) /\ ~SetDebug(t)
      BY <2>1 DEF Lock, ReadLevel, SetDebug, In
    <3>3. QED  BY <2>1, <2>3, <3>1, <3>2, <1>a DEF libusb
  <2>4. QED  BY <1>5, <2>2, <2>3 DEF InitLibUsb
<1>6. CASE \/ SetLogHandler(t) \/ StoreProgressHandler(t) \/ SetProgressHandler(t)
           \/ ProductName(t) \/ GetLibUsbCtx(t) \/ LeaveInited(t) \/ LogAgain(t)
           \/ ThrowUninitialized(t) \/ ShouldLog(t) \/ CallLogHandler(t)
           \/ TestProgressHandler(t) \/ CallProgressHandler(t) \/ HandlerReturns(t)
           \/ HandlerThrows(t)
  <2>1. UNCHANGED <<libusb_ctx, debug, minLogLevel>>
    BY <1>6 DEF SetLogHandler, StoreProgressHandler, SetProgressHandler, ProductName,
       GetLibUsbCtx, LeaveInited, LogAgain, ThrowUninitialized, ShouldLog, CallLogHandler,
       TestProgressHandler, CallProgressHandler, HandlerReturns, HandlerThrows, libusb
  <2>2. Top(t).op # "updateLibUsbLogLevel" /\ Top(t).at # "lock"
    BY <1>6 DEF SetLogHandler, StoreProgressHandler, SetProgressHandler, ProductName,
       GetLibUsbCtx, LeaveInited, LogAgain, ThrowUninitialized, ShouldLog, CallLogHandler,
       TestProgressHandler, CallProgressHandler, HandlerReturns, HandlerThrows, In
  <2>3. ~Lock(t) /\ ~ReadLevel(t) /\ ~SetDebug(t)
    BY <2>2 DEF Lock, ReadLevel, SetDebug, In
  <2>4. \A at \in {"lock", "locked", "read"} : ~UpdatesAt(t, at)  BY <2>2 DEF UpdatesAt
  <2>5. QED  BY <2>1, <2>3, <2>4, <1>a
<1>7. QED  BY <1>1, <1>2, <1>3, <1>4, <1>5, <1>6 DEF Step

LEMMA NextFollows ==
  ASSUME Balanced, Values, LevelFollowed, [Next]_vars
  PROVE  LevelFollowed'
<1>1. CASE Destroy
  <2>1. libusb_ctx' = 0 /\ UNCHANGED <<stack, minLogLevel>>  BY <1>1 DEF Destroy
  <2>2. \A u \in Threads : ~Running(u)'  BY <1>1, <2>1 DEF Destroy, Running
  <2>3. QED  BY <2>1, <2>2 DEF LevelFollowed, UpdatesAt
<1>2. ASSUME NEW t \in Threads, Call(t)  PROVE LevelFollowed'
  <2>1. PICK c \in Calls : Push(t, c.op, c.level, c.handler)  BY <1>2 DEF Call
  <2> DEFINE x == [op |-> c.op, at |-> Entry(c.op), level |-> c.level, handler |-> c.handler]
  <2>2. stack' = [stack EXCEPT ![t] = Append(stack[t], x)]  BY <2>1 DEF Push
  <2>3. c \in Frames  BY ContextAssumption
  <2>4. x \in Frames
    <3>1. /\ c.op \in {"setLogHandler", "setProgressHandler", "setMinLogLevel",
                       "updateLibUsbLogLevel", "setProductName", "getProductName", "log",
                       "progress", "getLibUsbCtx"}
          /\ c.level \in Levels /\ c.handler \in HandlerArgs
      BY <2>3 DEF Frames
    <3>2. QED  BY <3>1, NewFrame
  <2>5. x.at # "read"  BY DEF Entry
  <2> HIDE DEF x
  <2>6. stack \in [Threads -> Seq(Frames)]  BY DEF Balanced
  <2>7. Top(t)' = x /\ \A u \in Threads : u # t => stack'[u] = stack[u]
    BY <2>2, <2>4, <2>6, NewTop
  <2>8. ~UpdatesAt(t, "read")'  BY <2>5, <2>7 DEF UpdatesAt
  <2>9. \A at \in {"lock", "locked", "read"} : ~UpdatesAt(t, at)
    BY <1>2 DEF Call, InApplication, UpdatesAt
  <2>10. UNCHANGED <<libusb_ctx, debug, minLogLevel>>  BY <1>2 DEF Call, libusb
  <2>11. QED  BY <2>7, <2>8, <2>9, <2>10, OthersFollow
<1>3. ASSUME NEW t \in Threads, Step(t)  PROVE LevelFollowed'
  BY <1>3, StepFollows
<1>4. CASE UNCHANGED vars
  BY <1>4 DEF vars, libusb, LevelFollowed, UpdatesAt, Running, Top
<1>5. QED  BY <1>1, <1>2, <1>3, <1>4 DEF Next

(* When every change of the level has been carried through, libusb logs    *)
(* exactly if the level says so: although the level is stored before the   *)
(* lock is taken, and the last to tell libusb may not be the last to have  *)
(* changed it.                                                             *)
THEOREM LevelReachesLibUsb == Spec => []DebugAgrees
<1>1. Init => LevelFollowed
  BY DEF Init, LevelFollowed, UpdatesAt, Running
<1>2. Balanced /\ Values /\ LevelFollowed /\ [Next]_vars => LevelFollowed'  BY NextFollows
<1>3. Balanced /\ LevelFollowed => DebugAgrees
  <2> SUFFICES ASSUME Balanced, LevelFollowed, libusb_ctx # 0, \A t \in Threads : ~Updating(t)
               PROVE  debug <=> Verbose3 >= minLogLevel
    BY DEF DebugAgrees
  <2>1. ASSUME NEW t \in Threads, NEW at PROVE ~UpdatesAt(t, at)
    <3> SUFFICES ASSUME UpdatesAt(t, at) PROVE FALSE  OBVIOUS
    <3>1. stack[t] \in Seq(Frames) /\ stack[t] # << >>  BY DEF Balanced, UpdatesAt, Running
    <3>2. Len(stack[t]) \in DOMAIN stack[t]  BY <3>1, EmptySeq, LenProperties
    <3>3. QED  BY <3>2 DEF UpdatesAt, Top, Updating
  <2>2. QED  BY <2>1 DEF LevelFollowed
<1>4. QED  BY <1>1, <1>2, <1>3, AlwaysBalanced, PTL DEF Spec
===============================================================================
