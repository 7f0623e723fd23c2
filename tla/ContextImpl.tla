------------------------------- MODULE ContextImpl -------------------------------
(***************************************************************************)
(* class ContextImpl, the only object that the threads of an application   *)
(* share: the handlers it has set, the level from which messages are       *)
(* logged, and the libusb context, under a recursive mutex.                *)
(*                                                                         *)
(* A thread has a stack of frames, one for each call of a member function  *)
(* that has not returned: op is the function, at the place in it, level    *)
(* and handler its argument or local variable.  A handler belongs to the   *)
(* application and may call the context again.                             *)
(***************************************************************************)
EXTENDS Integers, Sequences, FiniteSets

CONSTANTS
  Threads, NoThread,
  Handlers, Empty,  \* handlers, and a std::function that holds none
  Levels,           \* the log levels in use
  Calls,            \* the calls an application may make
  MaxCalls          \* bounds the calls of one thread, those of handlers included

Verbose3 == 0       \* of LogLevel
Warn == 4
ErrorLevel == 5

HandlerArgs == Handlers \cup {Empty}

Frames ==
  [op : {"setLogHandler", "setProgressHandler", "setMinLogLevel", "updateLibUsbLogLevel",
         "setProductName", "getProductName", "log", "progress", "getLibUsbCtx"},
   at : {"entry", "calling", "lock", "locked", "storing", "read", "init", "inited", "failed",
         "failedTwice", "handling"},
   level : Levels, handler : HandlerArgs]

ASSUME ContextAssumption ==
  /\ NoThread \notin Threads /\ Empty \notin Handlers
  /\ {Verbose3, Warn, ErrorLevel} \subseteq Levels /\ Levels \subseteq Verbose3 .. ErrorLevel
  /\ Calls \subseteq {c \in Frames : c.op # "updateLibUsbLogLevel" /\ c.at = "entry"}
  /\ MaxCalls \in Nat

VARIABLES
  owner, depth,             \* mtx
  logHandler, progressHandler,
  minLogLevel,              \* an atomic
  libusb_ctx,               \* the context, counted from one; 0 is nullptr
  debug,                    \* whether libusb has been told to log
  inits,                    \* how many contexts libusb has made
  live,                     \* those it has not been told to give up
  stack,
  calls,                    \* how many calls a thread has made
  destroyed,
  crashed                   \* whether undefined behaviour has ended the program

mtx == <<owner, depth>>
libusb == <<libusb_ctx, debug, inits, live>>
handlers == <<logHandler, progressHandler>>
vars == <<mtx, handlers, minLogLevel, libusb, stack, calls, destroyed, crashed>>

Init ==
  /\ owner = NoThread /\ depth = 0
  /\ logHandler = Empty /\ progressHandler = Empty
  /\ minLogLevel = Warn
  /\ libusb_ctx = 0 /\ debug = FALSE /\ inits = 0 /\ live = {}
  /\ stack = [t \in Threads |-> << >>]
  /\ calls = [t \in Threads |-> 0]
  /\ destroyed = FALSE /\ crashed = FALSE

-------------------------------------------------------------------------------
Running(t) == stack[t] # << >>
Top(t) == stack[t][Len(stack[t])]
In(t, op, at) == ~crashed /\ Running(t) /\ Top(t).op = op /\ Top(t).at = at

Front(s) == SubSeq(s, 1, Len(s) - 1)
Goto(t, at) == stack' = [stack EXCEPT ![t] = Append(Front(@), [Top(t) EXCEPT !.at = at])]
Return(t) == stack' = [stack EXCEPT ![t] = Front(@)]

(* The lock_guards of frames that have got the lock.                       *)
Locks(frame) == frame.op # "progress" /\ frame.at \notin {"entry", "lock"}

LocksIn(frames) == Cardinality({k \in DOMAIN frames : Locks(frames[k])})

Release(n) ==
  /\ depth' = depth - n
  /\ owner' = IF depth = n THEN NoThread ELSE owner

(* mtx is recursive: its owner may lock it again.                          *)
MayLock_NotRecursive(t) == owner = NoThread
MayLock(t) == owner \in {NoThread, t}

Lock(t) ==
  /\ ~crashed /\ Running(t) /\ Top(t).at = "lock"
  /\ MayLock(t)
  /\ owner' = t /\ depth' = depth + 1
  /\ Goto(t, "locked")
  /\ UNCHANGED <<handlers, minLogLevel, libusb, calls, destroyed, crashed>>

(* The end of a function that holds the lock once.                         *)
Leave(t) == Return(t) /\ Release(1)

(***************************************************************************)
(* The calls: an application makes them outside of the context or in one   *)
(* of its handlers.                                                        *)
(***************************************************************************)
InApplication(t) == Running(t) => Top(t).at = "handling"

Entry_InitUnlocked(op) ==
  IF op \in {"log", "progress", "setMinLogLevel"} THEN "entry"
  ELSE IF op = "getLibUsbCtx" THEN "locked" ELSE "lock"
Entry(op) ==
  IF op \in {"log", "progress", "setMinLogLevel"} THEN "entry" ELSE "lock"

Push(t, op, level, handler) ==
  stack' = [stack EXCEPT ![t] =
              Append(@, [op |-> op, at |-> Entry(op), level |-> level, handler |-> handler])]

Call(t) ==
  /\ ~crashed /\ ~destroyed
  /\ InApplication(t) /\ calls[t] < MaxCalls
  /\ calls' = [calls EXCEPT ![t] = @ + 1]
  /\ \E c \in Calls : Push(t, c.op, c.level, c.handler)
  /\ UNCHANGED <<mtx, handlers, minLogLevel, libusb, destroyed, crashed>>

(* A handler that is replaced while it runs is destroyed while it runs.    *)
SetLogHandler(t) ==
  /\ In(t, "setLogHandler", "locked")
  /\ logHandler' = Top(t).handler
  /\ Leave(t)
  /\ crashed' \in {FALSE, \E k \in DOMAIN stack[t] :
                            stack[t][k].op = "log" /\ stack[t][k].handler = logHandler
                              /\ stack[t][k].at = "handling"}
  /\ UNCHANGED <<progressHandler, minLogLevel, libusb, calls, destroyed>>

StoreProgressHandler(t) ==
  /\ In(t, "setProgressHandler", "locked")
  /\ Goto(t, "storing")
  /\ UNCHANGED <<mtx, handlers, minLogLevel, libusb, calls, destroyed, crashed>>

SetProgressHandler(t) ==
  /\ In(t, "setProgressHandler", "storing")
  /\ progressHandler' = Top(t).handler
  /\ Leave(t)
  /\ crashed' \in {FALSE, \E u \in Threads : \E k \in DOMAIN stack[u] :
                            stack[u][k].op = "progress" /\ stack[u][k].handler = progressHandler
                              /\ stack[u][k].at = "handling"}
  /\ UNCHANGED <<logHandler, minLogLevel, libusb, calls, destroyed>>

(* The product name is kept for messages that do not name it yet.          *)
ProductName(t) ==
  /\ In(t, "setProductName", "locked") \/ In(t, "getProductName", "locked")
  /\ Leave(t)
  /\ UNCHANGED <<handlers, minLogLevel, libusb, calls, destroyed, crashed>>

(***************************************************************************)
(* setMinLogLevel stores the level and then has libusb follow it.          *)
(***************************************************************************)
SetMinLogLevel(t) ==
  /\ In(t, "setMinLogLevel", "entry")
  /\ minLogLevel' = Top(t).level
  /\ stack' = [stack EXCEPT ![t] =
                 Append(Front(@), [Top(t) EXCEPT !.op = "updateLibUsbLogLevel", !.at = "lock"])]
  /\ UNCHANGED <<mtx, handlers, libusb, calls, destroyed, crashed>>

LevelRead_Argument(t) == Top(t).level
LevelRead(t) == minLogLevel

ReadLevel(t) ==
  /\ In(t, "updateLibUsbLogLevel", "locked")
  /\ IF libusb_ctx = 0 THEN Leave(t)
     ELSE /\ stack' = [stack EXCEPT ![t] =
                         Append(Front(@), [Top(t) EXCEPT !.at = "read", !.level = LevelRead(t)])]
          /\ UNCHANGED mtx
  /\ UNCHANGED <<handlers, minLogLevel, libusb, calls, destroyed, crashed>>

SetDebug(t) ==
  /\ In(t, "updateLibUsbLogLevel", "read")
  /\ debug' = (Verbose3 >= Top(t).level)
  /\ Leave(t)
  /\ UNCHANGED <<handlers, minLogLevel, libusb_ctx, inits, live, calls, destroyed, crashed>>

(***************************************************************************)
(* getLibUsbCtx makes the context when it is first asked for.  If it       *)
(* cannot, it logs that twice, still holding the lock, and throws.         *)
(***************************************************************************)
GetLibUsbCtx(t) ==
  /\ In(t, "getLibUsbCtx", "locked")
  /\ IF libusb_ctx # 0 THEN Leave(t) ELSE Goto(t, "init") /\ UNCHANGED mtx
  /\ UNCHANGED <<handlers, minLogLevel, libusb, calls, destroyed, crashed>>

(* A member function called by another one.                                *)
Inner(t, at, op) ==
  stack' = [stack EXCEPT ![t] =
              Append(Append(Front(@), [Top(t) EXCEPT !.at = at]),
                     [op |-> op, at |-> Entry(op), level |-> ErrorLevel, handler |-> Empty])]

InitLibUsb(t) ==
  /\ In(t, "getLibUsbCtx", "init")
  /\ \/ /\ inits' = inits + 1 /\ libusb_ctx' = inits' /\ live' = live \cup {inits'}
        /\ debug' = FALSE
        /\ Inner(t, "inited", "updateLibUsbLogLevel")
     \/ Inner(t, "failed", "log") /\ UNCHANGED libusb
  /\ UNCHANGED <<mtx, handlers, minLogLevel, calls, destroyed, crashed>>

LeaveInited(t) ==
  /\ In(t, "getLibUsbCtx", "inited")
  /\ Leave(t)
  /\ UNCHANGED <<handlers, minLogLevel, libusb, calls, destroyed, crashed>>

LogAgain(t) ==
  /\ In(t, "getLibUsbCtx", "failed")
  /\ Inner(t, "failedTwice", "log")
  /\ UNCHANGED <<mtx, handlers, minLogLevel, libusb, calls, destroyed, crashed>>

(* An exception leaves at least one frame, with what it has locked, and is *)
(* caught in a handler further down or outside of the context.             *)
Unwind_LockKept(t) ==
  \E n \in 0 .. Len(stack[t]) - 1 :
    /\ n > 0 => stack[t][n].at = "handling"
    /\ stack' = [stack EXCEPT ![t] = SubSeq(@, 1, n)]
    /\ UNCHANGED mtx
Unwind(t) ==
  \E n \in 0 .. Len(stack[t]) - 1 :
    /\ n > 0 => stack[t][n].at = "handling"
    /\ stack' = [stack EXCEPT ![t] = SubSeq(@, 1, n)]
    /\ Release(LocksIn(stack[t]) - LocksIn(SubSeq(stack[t], 1, n)))

ThrowUninitialized(t) ==
  /\ In(t, "getLibUsbCtx", "failedTwice")
  /\ Unwind(t)
  /\ UNCHANGED <<handlers, minLogLevel, libusb, calls, destroyed, crashed>>

(***************************************************************************)
(* log looks at the level before it takes the lock, and calls the handler  *)
(* with it; the default handler only prints.                               *)
(***************************************************************************)
ShouldLog(t) ==
  /\ In(t, "log", "entry")
  /\ IF Top(t).level >= minLogLevel THEN Goto(t, "lock") ELSE Return(t)
  /\ UNCHANGED <<mtx, handlers, minLogLevel, libusb, calls, destroyed, crashed>>

Handle(t, handler) ==
  stack' = [stack EXCEPT ![t] =
              Append(Front(@), [Top(t) EXCEPT !.at = "handling", !.handler = handler])]

CallLogHandler_Unlocked(t) ==
  /\ In(t, "log", "locked")
  /\ IF logHandler = Empty THEN Return(t) ELSE Handle(t, logHandler)
  /\ Release(1)
  /\ UNCHANGED <<handlers, minLogLevel, libusb, calls, destroyed, crashed>>
CallLogHandler(t) ==
  /\ In(t, "log", "locked")
  /\ IF logHandler = Empty THEN Leave(t) ELSE Handle(t, logHandler) /\ UNCHANGED mtx
  /\ UNCHANGED <<handlers, minLogLevel, libusb, calls, destroyed, crashed>>

(* progress takes no lock: it looks whether there is a handler, and then   *)
(* at the handler.  While another thread overwrites it, either may end the *)
(* program.                                                                *)
Overwriting ==
  \E u \in Threads : Running(u) /\ Top(u).op = "setProgressHandler" /\ Top(u).at = "storing"

TestProgressHandler(t) ==
  /\ In(t, "progress", "entry")
  /\ IF progressHandler = Empty THEN Return(t) ELSE Goto(t, "calling")
  /\ crashed' \in {FALSE, Overwriting}
  /\ UNCHANGED <<mtx, handlers, minLogLevel, libusb, calls, destroyed>>

CallProgressHandler(t) ==
  /\ In(t, "progress", "calling")
  /\ IF progressHandler = Empty THEN Unwind(t)    \* std::bad_function_call
     ELSE Handle(t, progressHandler) /\ UNCHANGED mtx
  /\ crashed' \in {FALSE, Overwriting}
  /\ UNCHANGED <<handlers, minLogLevel, libusb, calls, destroyed>>

HandlerReturns(t) ==
  /\ \/ In(t, "log", "handling") /\ Leave(t)
     \/ In(t, "progress", "handling") /\ Return(t) /\ UNCHANGED mtx
  /\ UNCHANGED <<handlers, minLogLevel, libusb, calls, destroyed, crashed>>

HandlerThrows(t) ==
  /\ In(t, "log", "handling") \/ In(t, "progress", "handling")
  /\ Unwind(t)
  /\ UNCHANGED <<handlers, minLogLevel, libusb, calls, destroyed, crashed>>

(* The context goes with the last reference to it, when no call is left.   *)
Destroy ==
  /\ ~crashed /\ ~destroyed
  /\ \A t \in Threads : ~Running(t)
  /\ destroyed' = TRUE
  /\ live' = live \ {libusb_ctx} /\ libusb_ctx' = 0 /\ debug' = FALSE
  /\ UNCHANGED <<mtx, handlers, minLogLevel, inits, stack, calls, crashed>>

Step(t) == \/ Lock(t) \/ SetLogHandler(t) \/ StoreProgressHandler(t) \/ SetProgressHandler(t)
           \/ ProductName(t) \/ SetMinLogLevel(t) \/ ReadLevel(t) \/ SetDebug(t)
           \/ GetLibUsbCtx(t) \/ InitLibUsb(t) \/ LeaveInited(t) \/ LogAgain(t)
           \/ ThrowUninitialized(t) \/ ShouldLog(t) \/ CallLogHandler(t)
           \/ TestProgressHandler(t) \/ CallProgressHandler(t) \/ HandlerReturns(t)
           \/ HandlerThrows(t)

Next == Destroy \/ \E t \in Threads : Call(t) \/ Step(t)

Spec == Init /\ [][Next]_vars

(* Every thread is scheduled, and a handler comes to its end.              *)
FairSpec == Spec /\ \A t \in Threads : WF_vars(Step(t))

-------------------------------------------------------------------------------
(* Every variable keeps its type.                                          *)
TypeOK ==
  /\ owner \in Threads \cup {NoThread} /\ depth \in Nat
  /\ logHandler \in HandlerArgs /\ progressHandler \in HandlerArgs
  /\ minLogLevel \in Levels
  /\ libusb_ctx \in 0 .. inits /\ debug \in BOOLEAN /\ inits \in Nat
  /\ live \subseteq 1 .. inits
  /\ stack \in [Threads -> Seq(Frames)]
  /\ calls \in [Threads -> 0 .. MaxCalls]
  /\ destroyed \in BOOLEAN /\ crashed \in BOOLEAN

(* The lock is held once for each guard on the stack of its owner and by   *)
(* no other thread, through calls within calls and whatever is thrown.     *)
LockBalance ==
  /\ depth = 0 <=> owner = NoThread
  /\ \A t \in Threads : LocksIn(stack[t]) = IF t = owner THEN depth ELSE 0

(* libusb is asked for one context at a time, however many threads want it *)
(* first, and none is left over when the object is destroyed.              *)
OneContext == live = {libusb_ctx} \ {0} /\ (destroyed => live = {})

(* Once those that have changed the level or made the context are through, *)
(* libusb logs exactly when the level says so, in whatever order they came.*)
Updating(t) == \E k \in DOMAIN stack[t] : stack[t][k].op = "updateLibUsbLogLevel"

DebugAgrees ==
  libusb_ctx # 0 /\ (\A t \in Threads : ~Updating(t)) => (debug <=> Verbose3 >= minLogLevel)

(* A log handler is never replaced while another thread is in it: when     *)
(* setLogHandler has returned, the old one is not called any more.         *)
InLogHandler(t) ==
  \E k \in DOMAIN stack[t] : stack[t][k].op = "log" /\ stack[t][k].at = "handling"

NotReplacedInUse ==
  [][logHandler' # logHandler => \A t \in Threads : InLogHandler(t) => t = owner]_vars

(* Every call returns, by itself or by an exception, also one that a       *)
(* handler makes while its thread holds the lock.                          *)
Returns == \A t \in Threads : Running(t) ~> ~Running(t) \/ crashed
-------------------------------------------------------------------------------
(* Why DebugAgrees holds: if libusb does not follow the level, a thread is *)
(* about to read that level, or has read it; and one that is about to tell *)
(* libusb a level that has changed since it read it has another one        *)
(* waiting for its lock.                                                   *)
UpdatesAt(t, at) == Running(t) /\ Top(t).op = "updateLibUsbLogLevel" /\ Top(t).at = at

LevelFollowed ==
  /\ libusb_ctx # 0 =>
       \/ debug <=> Verbose3 >= minLogLevel
       \/ \E t \in Threads : \/ UpdatesAt(t, "lock") \/ UpdatesAt(t, "locked")
                             \/ UpdatesAt(t, "read") /\ Top(t).level = minLogLevel
  /\ \A t \in Threads : UpdatesAt(t, "read") /\ Top(t).level # minLogLevel =>
       \E u \in Threads : UpdatesAt(u, "lock")
===============================================================================
