------------------------------ MODULE MCContextImpl ------------------------------
(***************************************************************************)
(* A small instance of ContextImpl: two threads with a few calls each, one *)
(* handler, the level it starts with and those below and above.            *)
(***************************************************************************)
EXTENDS ContextImpl

MCLevels == {Verbose3, Warn, ErrorLevel}

CallOf(op, level, handler) ==
  [op |-> op, at |-> "entry", level |-> level, handler |-> handler]

Any(op) == CallOf(op, ErrorLevel, Empty)

MCCalls ==
  {CallOf(op, ErrorLevel, handler) : op \in {"setLogHandler", "setProgressHandler"},
                                     handler \in HandlerArgs} \cup
  {CallOf(op, level, Empty) : op \in {"setMinLogLevel", "log"}, level \in {Verbose3, ErrorLevel}} \cup
  {Any("setProductName"), Any("getProductName"), Any("progress"), Any("getLibUsbCtx")}
===============================================================================
