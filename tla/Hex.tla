-------------------------------- MODULE Hex --------------------------------
(***************************************************************************)
(* hex::hex_str: text to an unsigned integer, or to bytes.  Characters are *)
(* codes of a signed char, so those above 127 index the table below its    *)
(* start.  The widths of uint32_t and uint64_t are parameters, so that     *)
(* short texts overflow them.                                              *)
(***************************************************************************)
EXTENDS Integers, Sequences

CONSTANTS
  Codes,          \* the character codes texts are made of
  MaxLength,      \* bound on the length of a text
  Width,          \* bits of "uint8", "uint32" and "uint64"
  BeforeTable,    \* what may lie in memory before hex_map
  Junk,           \* what an uninitialised uint8_t may hold
  NoText

ASSUME HexAssumption ==
  /\ Codes \subseteq Int /\ MaxLength \in Nat
  /\ {"uint8", "uint64"} \subseteq DOMAIN Width /\ "buffer" \notin DOMAIN Width
  /\ Width["uint64"] \in Nat /\ \A t \in DOMAIN Width : Width[t] \in 8 .. Width["uint64"]

(* The arithmetic of powers that the proofs use. *)
ASSUME HexPowers ==
  /\ 2 ^ 0 = 1 /\ \A i \in 0 .. Width["uint64"] : 2 ^ i \in Nat \ {0} /\ 2 ^ (i + 1) = 2 * 2 ^ i
  /\ 16 ^ 0 = 1 /\ \A i \in 0 .. MaxLength : 16 ^ i \in Nat \ {0} /\ 16 ^ (i + 1) = 16 * 16 ^ i

VARIABLES
  text,    \* the argument, or NoText
  target,  \* the overload: one of the unsigned types, or "buffer"
  room,    \* size, as the caller passes it
  before,  \* the int before hex_map
  out      \* what the call returned and wrote, <<>> until then

hex_vars == <<text, target, room, before, out>>

Texts == UNION {[1 .. n -> Codes] : n \in 0 .. MaxLength}

HexInit ==
  /\ text \in Texts
  /\ target \in DOMAIN Width \cup {"buffer"}
  /\ room \in IF target = "buffer" THEN 0 .. MaxLength \div 2 ELSE {0}
  /\ before \in IF \E i \in DOMAIN text : text[i] < 0 THEN BeforeTable ELSE {-1}
  /\ out = <<>>

(* Mutant: the table ends before 'f'. *)
hex_map_short(c) ==
  CASE c \in 48 .. 57 -> c - 48
    [] c \in 65 .. 70 -> c - 55
    [] c \in 97 .. 101 -> c - 87
    [] c < 0 -> before
    [] OTHER -> -1

hex_map(c) ==
  CASE c \in 48 .. 57 -> c - 48
    [] c \in 65 .. 70 -> c - 55
    [] c \in 97 .. 102 -> c - 87
    [] c < 0 -> before
    [] OTHER -> -1

(* The static hex_str: shift and add until a character is no digit. *)
hex_str(str) ==
  LET run[n \in 0 .. Len(str)] ==  \* after n characters
        IF n = 0 THEN [ok |-> TRUE, val |-> 0]
        ELSE LET acc == run[n - 1]
                 tmp == hex_map(str[n])
             IN  IF acc.ok /\ tmp # -1
                 THEN [acc EXCEPT !.val = (tmp + acc.val * 16) % 2 ^ Width["uint64"]]
                 ELSE [acc EXCEPT !.ok = FALSE]
  IN  run[Len(str)]

(* The overloads for integers: the low bits of the union, on success. *)
ToInteger ==
  /\ out = <<>> /\ target \in DOMAIN Width
  /\ LET res == hex_str(text)
     IN  out' = IF res.ok THEN [err |-> "ok", val |-> <<res.val % 2 ^ Width[target]>>]
                ELSE [err |-> "invalid_param", val |-> <<>>]
  /\ UNCHANGED <<text, target, room, before>>

(* The overload for a buffer converts pair by pair and does not look at    *)
(* the error of a pair: the byte it stores is then uninitialised.          *)
ToBuffer ==
  /\ out = <<>> /\ target = "buffer"
  /\ LET n == Len(text) \div 2
     IN  IF n > room THEN out' = [err |-> "no_buffer", val |-> <<>>]
         ELSE \E junk \in [1 .. n -> Junk] :
                LET pair(k) == hex_str(SubSeq(text, 2 * k - 1, 2 * k))
                IN  out' = [err |-> IF Len(text) % 2 = 0 THEN "ok" ELSE "invalid_param",
                            val |-> [k \in 1 .. n |->
                                       IF pair(k).ok THEN pair(k).val % 2 ^ Width["uint8"]
                                       ELSE junk[k]]]
  /\ UNCHANGED <<text, target, room, before>>

Convert == ToInteger \/ ToBuffer

HexSpec == HexInit /\ [][Convert]_hex_vars

-----------------------------------------------------------------------------
(* The digit a code stands for, by the meaning of hexadecimal notation. *)
Upper(c) == IF c >= 97 THEN c - 32 ELSE c
DigitCodes == [d \in 0 .. 15 |-> IF d < 10 THEN 48 + d ELSE 65 + d - 10]
IsDigit(c) == \E d \in 0 .. 15 : c >= 0 /\ Upper(c) = DigitCodes[d]
Digit(c) == CHOOSE d \in 0 .. 15 : Upper(c) = DigitCodes[d]

Value(str) ==
  LET sum[n \in 0 .. Len(str)] ==
        IF n = 0 THEN 0 ELSE sum[n - 1] + Digit(str[n]) * 16 ^ (Len(str) - n)
  IN  sum[Len(str)]

(* hex_str agrees with the meaning of hexadecimal notation, at every width *)
(* and through the buffer overload's pairs.                                *)
(* For texts without characters above 127: an integer is converted exactly *)
(* when the text is all digits, up to the digits its type has no room for, *)
(* and left alone otherwise; a buffer gets the right byte for every pair   *)
(* of digits, whatever the other pairs are.                                *)
HexIsExact ==
  out # <<>> /\ (\A i \in DOMAIN text : text[i] >= 0) =>
    IF target = "buffer"
    THEN \A k \in DOMAIN out.val :
           IsDigit(text[2 * k - 1]) /\ IsDigit(text[2 * k])
             => out.val[k] = Value(SubSeq(text, 2 * k - 1, 2 * k))
    ELSE IF \A i \in DOMAIN text : IsDigit(text[i])
         THEN out.err = "ok" /\ out.val = <<Value(text) % 2 ^ Width[target]>>
         ELSE out.err = "invalid_param" /\ out.val = <<>>
=============================================================================
