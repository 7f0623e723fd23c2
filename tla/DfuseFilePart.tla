----------------------------- MODULE DfuseFilePart -----------------------------
(***************************************************************************)
(* The parts of a DfuSe file.  A file is seen as what its parts say: the   *)
(* signature and version of the prefix are those of a DfuSe file or not, a *)
(* target prefix is signed or not, an image has the elements its prefix    *)
(* counts, and length is that of the payload, which may end anywhere.      *)
(***************************************************************************)
EXTENDS PackedData

CONSTANT ImageNumbers   \* of the counter of images, 2^8 in the code

ASSUME ImageNumbersAssumption == ImageNumbers \in Nat \ {0, 1}

PrefixSize == 11
TargetPrefixSize == 274
ElementHeaderSize == 8

Elements == [address : Nat, size : Nat]
Images == [signed : BOOLEAN, alternateSetting : Nat, elements : Seq(Elements)]
Files == [DfuSe : BOOLEAN, targetsCount : 0 .. ImageNumbers - 1, images : Seq(Images),
          length : Nat]
===============================================================================
