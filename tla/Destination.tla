----------------------------- MODULE Destination ----------------------------
(***************************************************************************)
(* destination_matches (asg-policy rules.rs): a host rule is a CIDR or a   *)
(* glob.  A rule and a destination are what the parsers make of them: a    *)
(* network with a prefix length, which keeps the text it was read from, an *)
(* address, or text.  An address's text is its digits.                     *)
(***************************************************************************)
EXTENDS Integers, Sequences, Glob

CONSTANT Width      \* bits of an address, by family

Families == DOMAIN Width

ASSUME WidthAssumption == \A f \in Families : Width[f] \in Nat \ {0}

(* The bits of an address, the most significant first. *)
Address(f) == [1 .. Width[f] -> {0, 1}]

TextOf(d) ==
    IF d.kind = "text" THEN d.text
    ELSE << [k \in 1 .. Width[d.family] |-> IF d.addr[k] = 1 THEN "1" ELSE "0"] >>

(* All ones, shifted left; a shift is taken modulo the width. *)
MaxShl(f, n) ==
    [k \in 1 .. Width[f] |-> IF k + (n % Width[f]) <= Width[f] THEN 1 ELSE 0]

And(a, b) == [k \in DOMAIN a |-> a[k] * b[k]]

(* Mutant: no special case for the shift by the whole width. *)
ShiftWraps(f, prefix) == MaxShl(f, Width[f] - prefix)

mask(f, prefix) ==
    IF prefix = 0 THEN [k \in 1 .. Width[f] |-> 0]
    ELSE MaxShl(f, Width[f] - prefix)

(* A network is compared with an address; any other pair falls back to the *)
(* glob, a network and a destination that is no address included.          *)
destination_matches(pattern, d) ==
    IF pattern.kind = "cidr" /\ d.kind = "ip"
    THEN /\ d.family = pattern.family
         /\ pattern.prefix <= Width[d.family]
         /\ LET m == mask(d.family, pattern.prefix)
            IN  And(pattern.addr, m) = And(d.addr, m)
    ELSE matches(pattern.text, TextOf(d))

(* What a CIDR means: the first `prefix' bits are the same. *)
InNetwork(pattern, d) ==
    /\ d.kind = "ip" /\ d.family = pattern.family
    /\ pattern.prefix <= Width[d.family]
    /\ \A k \in 1 .. pattern.prefix : d.addr[k] = pattern.addr[k]
=============================================================================
