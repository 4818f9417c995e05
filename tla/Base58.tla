------------------------------- MODULE Base58 -------------------------------
(***************************************************************************)
(* Base58 as keys.py and vp_crypto.py compute it (the same code twice).  A *)
(* byte string is a sequence over 0..255, a text the sequence of its       *)
(* characters' places in the alphabet: "1" is 0, "z" is 57, and 58 stands  *)
(* for any character outside it.  Digits are least significant first, as   *)
(* in the code; its loops are recursive functions of their last round.     *)
(***************************************************************************)
EXTENDS SequencesExt

CONSTANT None      \* the ValueError of a character outside the alphabet
ASSUME NoneAssumption == None \notin Seq(0..255)

\* while carry > 0: the digits of a carry in a base.
Spill(carry, base) ==
    LET f[c \in 0..carry] == IF c = 0 THEN <<>> ELSE <<c % base>> \o f[c \div base]
    IN  f[carry]

\* for i in range(len(digits)): what is carried on after each digit.
Carries(digits, from, to, unit) ==
    LET carry[i \in 0..Len(digits)] ==
          IF i = 0 THEN unit ELSE (digits[i] * from + carry[i - 1]) \div to
    IN  carry

\* One byte or character added to the digits so far.
Shift(digits, from, to, unit) ==
    LET carry == Carries(digits, from, to, unit)
    IN  [i \in 1..Len(digits) |-> (digits[i] * from + carry[i - 1]) % to]
          \o Spill(carry[Len(digits)], to)

\* for byte in data: the digits after each of them.
Digits(s, from, to) ==
    LET digits[k \in 0..Len(s)] ==
          IF k = 0 THEN <<0>> ELSE Shift(digits[k - 1], from, to, s[k])
    IN  digits

\* How many zeroes, which a number does not keep, a sequence begins with.
LeadingZeroes(s) ==
    CHOOSE n \in 0..Len(s) : (\A i \in 1..n : s[i] = 0) /\ (n < Len(s) => s[n + 1] # 0)

\* What both directions share: the zeroes, then the digits.
Convert(s, from, to) ==
    IF s = <<>> THEN <<>>
    ELSE [i \in 1..LeadingZeroes(s) |-> 0] \o Reverse(Digits(s, from, to)[Len(s)])

Encode(data) == Convert(data, 256, 58)

Decode(text) == IF \E i \in DOMAIN text : text[i] > 57 THEN None
                ELSE Convert(text, 58, 256)

-----------------------------------------------------------------------------
Z == 57                       \* the letter of base58btc in a multibase text
Multicodec == <<237, 1>>      \* 0xED01, an Ed25519 public key

PublicKeyToMultibase(key) == <<Z>> \o Encode(Multicodec \o key)

MultibaseToPublicKey(text) ==
    IF text = <<>> \/ text[1] # Z \/ Decode(Tail(text)) = None THEN None
    ELSE SubSeq(Decode(Tail(text)), 3, Len(Decode(Tail(text))))
=============================================================================
