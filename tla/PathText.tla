------------------------------ MODULE PathText ------------------------------
(***************************************************************************)
(* normalize_path and basename (asg-policy rules.rs) and the page's        *)
(* normalizePath, on paths as sequences of characters.  "C" stands for the *)
(* letters, with lower case "c".                                           *)
(***************************************************************************)
EXTENDS Integers, Sequences, FiniteSetsExt

Slash == "/"
Backslash == "bs"

StartsWith(p, s) == Len(p) >= Len(s) /\ SubSeq(p, 1, Len(s)) = s

Drop(p, n) == SubSeq(p, n + 1, Len(p))

Has(p, c) == \E i \in DOMAIN p : p[i] = c

Slashed(path) == [i \in DOMAIN path |-> IF path[i] = Backslash THEN Slash ELSE path[i]]

Folded(p) == [i \in DOMAIN p |-> IF p[i] = "C" THEN "c" ELSE p[i]]

Letter == {"C", "c"}

Unverbatim(p) ==
    IF StartsWith(p, << Slash, Slash, "?", Slash >>)
         \/ StartsWith(p, << Slash, Slash, ".", Slash >>)
    THEN Drop(p, 4) ELSE p

(* Mutant: one leading "./" is stripped. *)
UndottedOnce(p) == IF StartsWith(p, << ".", Slash >>) THEN Drop(p, 2) ELSE p

(* Strips "./" up to the first turn at which none leads. *)
Undotted(p) ==
    LET stops == {k \in 0 .. Len(p) : ~StartsWith(Drop(p, 2 * k), << ".", Slash >>)}
    IN  Drop(p, 2 * Min(stops))

HasDrive(p) == Len(p) >= 3 /\ p[1] \in Letter /\ p[2] = ":" /\ p[3] = Slash

(* UNC, or a drive with at least one more segment. *)
IsWindows(p) ==
    \/ StartsWith(p, << Slash, Slash >>)
    \/ HasDrive(p) /\ Has(Drop(p, 3), Slash)

normalize_path(path) ==
    LET p == Undotted(Unverbatim(Slashed(path)))
    IN  IF IsWindows(p) THEN Folded(p) ELSE p

(* The page's copy.  toLowerCase also folds the letters outside ASCII, for *)
(* which "E" stands, with lower case "e".                                  *)
toLowerCase(p) == [i \in DOMAIN p |-> IF p[i] = "E" THEN "e" ELSE Folded(p)[i]]

normalizePath(path) ==
    LET p == Undotted(Unverbatim(Slashed(path)))
    IN  IF IsWindows(p) THEN toLowerCase(p) ELSE p

IsSeparator(c) == c \in {Slash, Backslash}

Trimmed(p) ==
    SubSeq(p, 1, Max({0} \cup {i \in DOMAIN p : ~IsSeparator(p[i])}))

(* What follows the last separator of the trimmed path. *)
basename(path) ==
    LET t == Trimmed(path)
    IN  Drop(t, Max({0} \cup {i \in DOMAIN t : IsSeparator(t[i])}))

(* The k-th smallest of S. *)
Nth(S, k) == CHOOSE i \in S : Cardinality({j \in S : j <= i}) = k

(* split('/'): what stands between two neighbouring cuts. *)
Split(p) ==
    LET cuts == {0, Len(p) + 1} \cup {i \in DOMAIN p : p[i] = Slash}
    IN  [k \in 1 .. Cardinality(cuts) - 1 |->
            SubSeq(p, Nth(cuts, k) + 1, Nth(cuts, k + 1) - 1)]
=============================================================================
