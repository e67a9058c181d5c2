----------------------------- MODULE HpackInteger -----------------------------
(***************************************************************************)
(* Integers of HPACK (core/src/hpack.rs, RFC 7541 section 5.1): a prefix   *)
(* of some bits in the first octet, and the rest in octets that each carry *)
(* a digit, lowest first, and say whether another follows.                 *)
(***************************************************************************)
EXTENDS Integers, Sequences, SequencesExt

CONSTANTS
    Base,       (* 128: what one octet's digit can tell apart.               *)
    Top,        (* u32::MAX: the largest value accepted.                     *)
    MaxOctets   (* Octets after the prefix that are accepted: 5.             *)

Octet(digit, more) == [digit |-> digit, more |-> more]

-----------------------------------------------------------------------------
\* encode_int of a value that does not fit below the mask, less the mask.
Digits[rest \in Nat] ==
    IF rest >= Base THEN <<Octet(rest % Base, TRUE)>> \o Digits[rest \div Base]
    ELSE <<Octet(rest, FALSE)>>

\* encode_int: the prefix and the octets behind it; `mask` is all its bits set.
EncodeInt(value, mask) ==
    IF value < mask THEN [prefix |-> value, octets |-> <<>>]
    ELSE [prefix |-> mask, octets |-> Digits[value - mask]]

\* One turn of decode_int's loop.
TakeOctet(s, o) ==
    LET value == s.value + o.digit * s.weight
    IN  CASE s.status # "more"                               -> s
          [] s.status = "more" /\ value > Top                -> [s EXCEPT !.status = "error"]
          [] s.status = "more" /\ value <= Top /\ ~o.more    ->
                [s EXCEPT !.status = "done", !.value = value, !.taken = @ + 1]
          [] s.status = "more" /\ value <= Top /\ o.more     ->
                [s EXCEPT !.status = IF s.taken + 1 >= MaxOctets THEN "error" ELSE @,
                          !.value = value, !.weight = @ * Base, !.taken = @ + 1]

\* decode_int: "done" with the value and the octets taken, or "error"; a block
\* that ends in the middle (next_byte) leaves "more".
DecodeInt(prefix, mask, octets) ==
    FoldLeft(LAMBDA s, o : TakeOctet(s, o),
             [status |-> IF prefix < mask THEN "done" ELSE "more",
              value |-> prefix, weight |-> 1, taken |-> 0],
             octets)

-----------------------------------------------------------------------------
(* RFC 7541 section 5.1 in its own words: the reference *)

Weighed(octets) == FoldRight(LAMBDA o, n : o.digit + Base * n, octets, 0)

\* Every integer up to the limit comes through, whatever stands behind it.
ComesThrough(value, mask, behind) ==
    LET e == EncodeInt(value, mask)
        d == DecodeInt(e.prefix, mask, e.octets \o behind)
    IN  d.status = "done" /\ d.value = value /\ d.taken = Len(e.octets)

\* Octets from a peer are read as the value they stand for, and only if it
\* ends in time and is not above the limit.
ReadRight(mask, octets) ==
    LET d    == DecodeInt(mask, mask, octets)
        ends == {i \in DOMAIN octets : ~octets[i].more}
        n    == IF ends = {} THEN 0 ELSE CHOOSE i \in ends : \A j \in ends : i <= j
        v    == mask + Weighed(SubSeq(octets, 1, n))
    IN  IF n \in 1..MaxOctets /\ v <= Top
        THEN d.status = "done" /\ d.value = v /\ d.taken = n
        ELSE d.status # "done"

=============================================================================
