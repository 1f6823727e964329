------------------------------ MODULE Spelling ------------------------------
(***************************************************************************)
(* How an answer is written down (packages/contract/src/canon.ts), what a  *)
(* pack carries instead of it (digest.ts), and what a wrong one is met     *)
(* with (diagnosis.ts).                                                    *)
(*                                                                         *)
(* A typed answer is the record of what canonicalize looks at: the         *)
(* characters it refuses or drops, the sign, and each run of digits as its *)
(* superfluous leading zeros and its value.  The tag of a refusal is left  *)
(* out: no caller does anything with it but report it.  The HMAC is taken  *)
(* to be free of collisions, so a digest is the pair it is computed from.  *)
(***************************************************************************)
EXTENDS Integers, Sequences

NoDigits == -1

\* The characters outside the shape: "space" is folded away, every other one
\* refuses the answer.
Blots == {"space", "invisible", "mark", "digit", "letter"}

Typed ==
    [blots : SUBSET Blots,
     minus : {"none", "hyphen", "U+2212"},
     zeros : Nat, num : Nat \cup {NoDigits},
     over  : {"none", "slash", "U+2044"},
     denZeros : Nat, den : Nat \cup {NoDigits}]

\* The one join both directions go through: no leading zero, no minus zero.
Joined(minus, num, over, den) ==
    [blots |-> {}, minus |-> IF num = 0 THEN "none" ELSE minus,
     zeros |-> 0, num |-> num,
     over |-> over, denZeros |-> 0, den |-> den]

Accepted(raw) ==
    /\ raw.blots \subseteq {"space"}
    /\ raw.num # NoDigits
    /\ raw.over # "none" => raw.den \notin {NoDigits, 0}

Canonical(raw) ==
    Joined(IF raw.minus = "U+2212" THEN "hyphen" ELSE raw.minus, raw.num,
           IF raw.over = "U+2044" THEN "slash" ELSE raw.over, raw.den)

StoredCanonical(raw) == Accepted(raw) /\ Canonical(raw) = raw

Magnitude(n) == IF n < 0 THEN -n ELSE n
SignOf(n) == IF n < 0 THEN "hyphen" ELSE "none"

WholeAnswer(n) == Joined(SignOf(n), Magnitude(n), "none", NoDigits)
FractionAnswer(n, d) ==
    Joined(SignOf(IF d < 0 THEN -n ELSE n), Magnitude(n), "slash", Magnitude(d))

\* A fraction exactly when it is written with a denominator.
ShapeOf(canonical) ==
    IF canonical.over = "slash" THEN "fraction" ELSE "integer"

\* The defect the source calls #50: the spelling always carries a denominator.
AlwaysOver(n, d) == FractionAnswer(n, d)

StoredAnswer(n, d) == IF d = 1 THEN WholeAnswer(n) ELSE FractionAnswer(n, d)

Digest(salt, canonical) == <<salt, canonical>>

\* What was typed, compared with the digest an item carries.
MatchesDigest(digest, salt, raw) ==
    Accepted(raw) /\ Digest(salt, Canonical(raw)) = digest

\* An item's distractors against its own answer, and against one another.
DistractorFault(item) ==
    LET keys == [i \in DOMAIN item.diagnosis |-> item.diagnosis[i].digest]
    IN  IF \E i \in DOMAIN keys : keys[i] = item.answer.digest
        THEN "distractor_matches_answer"
        ELSE IF \E i, j \in DOMAIN keys : i < j /\ keys[i] = keys[j]
             THEN "duplicate_distractor_digest"
             ELSE "none"

\* The misconceptions a digest is labelled with: at most the first is shown.
Labels(item, digest) ==
    {i \in DOMAIN item.diagnosis : item.diagnosis[i].digest = digest}

\* What the screen says of a digest, the skill's own copy when nothing matches.
LookupDiagnosis(item, digest) ==
    IF Labels(item, digest) = {} THEN "no_specific_diagnosis"
    ELSE item.diagnosis[CHOOSE i \in Labels(item, digest) :
                            \A j \in Labels(item, digest) : i <= j].misconception
=============================================================================
