-------------------------- MODULE UsbDfuFuncDescriptor --------------------------
(***************************************************************************)
(* class UsbDfuFuncDescriptor: the DFU functional descriptor, read from as *)
(* many of its nine bytes as there are.                                    *)
(***************************************************************************)
EXTENDS PackedData

FuncDescriptors ==
  [bLength : Byte, bDescriptorType : Byte, bmAttributes : Byte,
   wDetachTimeOut : Words, wTransferSize : Words, bcdDFUVersion : Words]

sizeInBytes == 9

cleared ==
  [bLength |-> 0, bDescriptorType |-> 0, bmAttributes |-> 0,
   wDetachTimeOut |-> 0, wTransferSize |-> 0, bcdDFUVersion |-> 0]

(* Reading stops at the first field that is not whole, and what has not    *)
(* been read stays zero.                                                   *)
parse(data) ==
  LET u8(i) == IF i <= Len(data) THEN data[i] ELSE 0
      u16(i) == IF i + 1 <= Len(data) THEN read_u16l(data, i) ELSE 0
  IN  [bLength |-> u8(1), bDescriptorType |-> u8(2), bmAttributes |-> u8(3),
       wDetachTimeOut |-> u16(4), wTransferSize |-> u16(6), bcdDFUVersion |-> u16(8)]
===============================================================================
