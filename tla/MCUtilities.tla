---------------------------- MODULE MCUtilities ----------------------------
(***************************************************************************)
(* backtrace, hex and file_descriptor for TLC, in one run: a behaviour is  *)
(* of one of them, so their states add up.                                 *)
(***************************************************************************)
EXTENDS Backtrace, Hex, FileDescriptor

(* uint8_t as it is, uint32_t and uint64_t scaled to less than four digits. *)
MCWidth == [uint8 |-> 8, uint32 |-> 10, uint64 |-> 12]

(* Digits and their neighbours, a character above 127, and what may lie    *)
(* where that one looks.                                                   *)
MCCodes == {-1, 47, 48, 57, 58, 65, 70, 102, 103}
MCBeforeTable == {-1, 5, 4096}

VARIABLE part

NoDump ==
  /\ optimised = FALSE /\ pipe = FALSE /\ later = FALSE /\ saver = "done" /\ loader = "done"
  /\ put = 0 /\ stored = 0 /\ got = 0 /\ lost = FALSE
  /\ savedRet = NoReturn /\ loadRet = NoReturn /\ writeEnd = FALSE /\ readEnd = FALSE
  /\ module = [i \in 1 .. Depth |-> Wild]
  /\ lookup = "open" /\ frame = 1 /\ bfds = 0 /\ reported = {}
  /\ info = [f \in Fields |-> Garbage]

NoConversion == text = NoText /\ target = "none" /\ room = 0 /\ before = -1 /\ out = <<>>

MCInit ==
  /\ DescriptorInit
  /\ \/ part = "dump" /\ DumpInit /\ NoConversion
     \/ part = "conversion" /\ NoDump /\ HexInit
     \/ part = "descriptors" /\ NoDump /\ NoConversion

MCNext ==
  \/ part = "dump" /\ DumpNext /\ UNCHANGED <<part, hex_vars, descriptor_vars>>
  \/ part = "conversion" /\ Convert /\ UNCHANGED <<part, dump_vars, descriptor_vars>>
  \/ part = "descriptors" /\ DescriptorNext /\ UNCHANGED <<part, dump_vars, hex_vars>>

MCSpec ==
  MCInit /\ [][MCNext]_<<part, dump_vars, hex_vars, descriptor_vars>> /\ DumpFairness
=============================================================================
