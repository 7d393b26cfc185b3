-------------------------------- MODULE Glob --------------------------------
(***************************************************************************)
(* The glob matcher (asg-policy glob.rs) and the page's copy of it         *)
(* (globMatch in assets/index.html).  A text is what split('/') makes of   *)
(* it: a sequence of at least one segment, each a sequence of characters;  *)
(* the empty text is one empty segment.                                    *)
(***************************************************************************)
EXTENDS Integers, Sequences

DoubleStar == << "*", "*" >>

From(s, i) == SubSeq(s, i + 1, Len(s))      \* &s[i..]

(* The slices a recursion over s is called with. *)
Slices(s) == {From(s, i) : i \in 0 .. Len(s)}

(* Mutant: `*' matches at least one character. *)
NonEmptyStar(pattern, text) ==
    LET accepts[p \in Slices(pattern)] == [t \in Slices(text) |->
            IF p = << >> THEN t = << >>
            ELSE IF Head(p) = "*"
                 THEN \E i \in 1 .. Len(t) : accepts[Tail(p)][From(t, i)]
                 ELSE /\ t # << >> /\ Head(p) \in {"?", Head(t)}
                      /\ accepts[Tail(p)][Tail(t)]]
    IN  accepts[pattern][text]

match_chars(pattern, text) ==
    LET accepts[p \in Slices(pattern)] == [t \in Slices(text) |->
            IF p = << >> THEN t = << >>
            ELSE IF Head(p) = "*"
                 THEN \E i \in 0 .. Len(t) : accepts[Tail(p)][From(t, i)]
                 ELSE /\ t # << >> /\ Head(p) \in {"?", Head(t)}
                      /\ accepts[Tail(p)][Tail(t)]]
    IN  accepts[pattern][text]

match_segments(pattern, text) ==
    LET accepts[pat \in Slices(pattern)] == [txt \in Slices(text) |->
            IF pat = << >> THEN txt = << >>
            ELSE IF Head(pat) = DoubleStar
                 THEN \E i \in 0 .. Len(txt) : accepts[Tail(pat)][From(txt, i)]
                 ELSE /\ txt # << >> /\ match_chars(Head(pat), Head(txt))
                      /\ accepts[Tail(pat)][Tail(txt)]]
    IN  accepts[pattern][text]

matches(pattern, text) == match_segments(pattern, text)

----------------------------------------------------------------------------
(* The page's copy, which works on positions.  They count from 0, as in    *)
(* the code.                                                               *)

oneSeg(pc, tc) ==
    LET chars[a \in 0 .. Len(pc)] == [b \in 0 .. Len(tc) |->
            IF a >= Len(pc) THEN b >= Len(tc)
            ELSE IF pc[a + 1] = "*"
                 THEN \E i \in b .. Len(tc) : chars[a + 1][i]
                 ELSE /\ b < Len(tc) /\ pc[a + 1] \in {"?", tc[b + 1]}
                      /\ chars[a + 1][b + 1]]
    IN  chars[0][0]

globMatch(p, t) ==
    LET segs[i \in 0 .. Len(p)] == [j \in 0 .. Len(t) |->
            IF i >= Len(p) THEN j >= Len(t)
            ELSE IF p[i + 1] = DoubleStar
                 THEN \E k \in j .. Len(t) : segs[i + 1][k]
                 ELSE /\ j < Len(t) /\ oneSeg(p[i + 1], t[j + 1])
                      /\ segs[i + 1][j + 1]]
    IN  segs[0][0]

----------------------------------------------------------------------------
(* What matching means, from the documentation of glob.rs: the text can be *)
(* cut so that each part of the pattern accounts for its piece.  A         *)
(* wildcard takes any piece; any other part takes one element that fits.   *)
Aligned(p, t, Wild(_), Fits(_, _)) ==
    \E cut \in [0 .. Len(p) -> 0 .. Len(t)] :
        /\ cut[0] = 0 /\ cut[Len(p)] = Len(t)
        /\ \A i \in 1 .. Len(p) :
              IF Wild(p[i]) THEN cut[i - 1] <= cut[i]
              ELSE cut[i] = cut[i - 1] + 1 /\ Fits(p[i], t[cut[i]])

SegmentMatches(p, t) ==
    Aligned(p, t, LAMBDA c : c = "*", LAMBDA c, d : c \in {"?", d})

TextMatches(pattern, text) ==
    Aligned(pattern, text, LAMBDA s : s = DoubleStar, SegmentMatches)
=============================================================================
