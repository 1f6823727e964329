------------------------------ MODULE Content ------------------------------
(***************************************************************************)
(* Building the pack the server issues: `npm run build:pack`               *)
(* (packages/core/src/adapters/build-pack.ts over src/pack/).  A           *)
(* declaration names template, authored and puzzle sources; the build      *)
(* walks them, checks what it assembled with the parser both readers use,  *)
(* and replaces the committed artifact through a temporary file.  The      *)
(* working tree may change under a build, a write may fail, and a build    *)
(* may be killed between any two steps.                                    *)
(*                                                                         *)
(* An item is what the envelope carries; `made` is a history variable, the *)
(* reference or the authored entry each item of the build came from.       *)
(***************************************************************************)
EXTENDS Spelling, FiniteSets

CONSTANTS
    Declarations,   \* what pack.declaration.json may hold
    Paths, Trees,   \* the authored files, and what they may hold
    SeedMin, SeedMax,   \* the range of the column a seed is stored in
    Drawn,          \* what a template draws at a seed and a ladder step
    Explained,      \* the misconceptions misconception-copy.ts has words for
    Answers,        \* what a player may type
    NoPlan          \* no declaration has been read

Steps == 1..20
MaxCount == 1000

IsSequence(s) == s \in Seq({s[i] : i \in DOMAIN s})

\* What a declared source says when it says what its kind asks for.
IsSource(s) ==
    /\ s.step \in Int /\ s.count \in Int /\ s.skill \in Int
    /\ s.kind \in {"authored", "puzzles"} => s.path \in Paths

ASSUME ContentAssumption ==
    /\ SeedMin \in Int /\ SeedMax \in Int /\ SeedMin <= 0 /\ 0 <= SeedMax
    /\ Drawn \in [(SeedMin..SeedMax) \X Steps -> Nat \X Nat]
    /\ \A at \in DOMAIN Drawn, i \in 1..2 : Drawn[at][i] \in 1..(10 * at[2])
    /\ Answers \subseteq Typed
    /\ NoPlan \notin Declarations
    /\ \A d \in Declarations :
          /\ d.seedBase \in Int
          /\ IsSequence(d.sources)
          /\ \A i \in DOMAIN d.sources : IsSource(d.sources[i])
    /\ \A tree \in Trees, path \in Paths :
          /\ IsSequence(tree[path].items) /\ IsSequence(tree[path].puzzles)
          /\ \A i \in DOMAIN tree[path].items :
                tree[path].items[i].answer \in Typed

VARIABLES
    declaration, files,     \* the working tree
    out, temp,              \* starter.json and starter.json.tmp
    phase, refusal,         \* where the build is; how the last one ended
    plan,                   \* the declaration it read
    source, drawn,          \* the source it is at, and the items drawn from it
    generated,              \* the counter every seed comes from
    items, puzzles, made

workingTree == <<declaration, files>>
onDisk == <<out, temp>>
built == <<plan, source, drawn, generated, items, puzzles, made>>
contentVars == <<workingTree, onDisk, phase, refusal, built>>

-----------------------------------------------------------------------------
(* declaration.ts *)

Sound(s) ==
    CASE s.kind = "template" -> /\ s.skill = 0       \* the template's to say
                                /\ s.step \in Steps
                                /\ s.count \in 1..MaxCount
      [] s.kind = "authored" -> s.skill >= 1
      [] s.kind = "puzzles"  -> TRUE
      [] OTHER               -> FALSE

Parsed(d) == d.salted /\ d.issued < d.expires /\ Len(d.sources) > 0
             /\ \A i \in DOMAIN d.sources : Sound(d.sources[i])

-----------------------------------------------------------------------------
(* The registry and the one template it ships, in two versions. *)

Registry == {1, 2}
SkillOfTemplate == 1

Resolves(d) ==
    \A i \in DOMAIN d.sources :
        d.sources[i].kind = "template" => d.sources[i].version \in Registry

\* Version 2 orders its terms below step 3, so that no answer is negative.
Asked(ref) ==
    LET first  == Drawn[<<ref.seed, ref.step>>][1]
        second == Drawn[<<ref.seed, ref.step>>][2]
    IN  IF ref.version = 2 /\ ref.step < 3 /\ first < second
        THEN [left |-> second, right |-> first]
        ELSE [left |-> first, right |-> second]

Difference(ref) == Asked(ref).left - Asked(ref).right

SeedAt(base, index) == base + index
InColumn(seed) == seed \in SeedMin..SeedMax

-----------------------------------------------------------------------------
(* distractors.ts *)

Candidates(asked) ==
    << [answer |-> WholeAnswer(asked.right - asked.left),
        misconception |-> "subtracted_in_reverse"],
       [answer |-> WholeAnswer(asked.left + asked.right),
        misconception |-> "added_instead_of_subtracting"] >>

\* A mutant: the copy of one mistake is filed under the other.
LabelsSwapped(asked, correct) ==
    LET c == Candidates(asked)
    IN  SelectSeq(<< [c[1] EXCEPT !.answer = c[2].answer],
                     [c[2] EXCEPT !.answer = c[1].answer] >>,
                  LAMBDA x : x.answer # correct)

\* A candidate is dropped when it equals the right answer or one kept before.
PredictDistractors(asked, correct) ==
    LET reversed == Candidates(asked)[1]
        added    == Candidates(asked)[2]
        first    == IF reversed.answer # correct THEN <<reversed>> ELSE <<>>
    IN  IF added.answer \in {correct, reversed.answer} THEN first
        ELSE Append(first, added)

-----------------------------------------------------------------------------
(* build.ts and lift.ts: one item *)

FromTemplate(ref, salt) ==
    LET correct   == StoredAnswer(Difference(ref), 1)
        predicted == PredictDistractors(Asked(ref), correct)
    IN  [skill |-> SkillOfTemplate, step |-> ref.step, sound |-> TRUE,
         answer |-> [shape |-> ShapeOf(correct), digest |-> Digest(salt, correct)],
         diagnosis |-> [i \in DOMAIN predicted |->
                          [digest |-> Digest(salt, predicted[i].answer),
                           misconception |-> predicted[i].misconception]]]

Worded(item) == \A i \in DOMAIN item.diagnosis :
                    item.diagnosis[i].misconception \in Explained

Glyphs == {"+", "U+2212", "times", "divided"}

\* An authored entry asks one question: a stimulus carried as it is, or a
\* prompt of the form term, operator, term, equals.
Liftable(raw) ==
    /\ raw.asks \in {"stimulus", "prompt"}
    /\ raw.asks = "prompt" => raw.tokens = 4 /\ raw.glyph \in Glyphs
    /\ StoredCanonical(raw.answer)

LiftAuthored(raw, skill, salt) ==
    [skill |-> skill, step |-> raw.step, sound |-> raw.sound,
     answer |-> [shape |-> ShapeOf(raw.answer), digest |-> Digest(salt, raw.answer)],
     diagnosis |-> <<>>]

-----------------------------------------------------------------------------
(* pack.ts *)

PackOf == [salt |-> plan.salt, items |-> items, puzzles |-> puzzles]

SkillsOf(pack) == {pack.items[i].skill : i \in DOMAIN pack.items}

\* parsePack: the schema, then each item's distractors and stimulus, then the
\* boards.  The nodes and fallbacks are computed from the items themselves.
Faults(pack) ==
    (IF \E i \in DOMAIN pack.items : pack.items[i].step \notin Steps
     THEN {"schema_violation"} ELSE {})
    \cup ({DistractorFault(pack.items[i]) : i \in DOMAIN pack.items} \ {"none"})
    \cup (IF \E i \in DOMAIN pack.items : ~pack.items[i].sound
          THEN {"stimulus"} ELSE {})
    \cup (IF \E i \in DOMAIN pack.puzzles : ~pack.puzzles[i].solved
          THEN {"board"} ELSE {})

-----------------------------------------------------------------------------
(* attempts.ts: an answer graded against the reference it was issued with *)

GradeAnswer(ref, raw) ==
    Accepted(raw) /\ Canonical(raw) = StoredAnswer(Difference(ref), 1)

-----------------------------------------------------------------------------
(* build-pack.ts: a file is absent, written in part, or a pack. *)

Absent == [state |-> "absent"]
Torn == [state |-> "torn"]
Whole(pack) == [state |-> "whole", pack |-> pack]

Cleared ==
    /\ phase' = "idle" /\ plan' = NoPlan
    /\ source' = 1 /\ drawn' = 0 /\ generated' = 0
    /\ items' = <<>> /\ puzzles' = <<>> /\ made' = <<>>

Refuse(why) == Cleared /\ refusal' = why /\ UNCHANGED onDisk

ContentInit ==
    /\ declaration \in Declarations /\ files \in Trees
    /\ out = Absent /\ temp = Absent
    /\ phase = "idle" /\ refusal = "none"
    /\ plan = NoPlan /\ source = 1 /\ drawn = 0 /\ generated = 0
    /\ items = <<>> /\ puzzles = <<>> /\ made = <<>>

\* An author edits the declaration or an authored file.
Edit ==
    /\ \/ declaration' \in Declarations \ {declaration} /\ UNCHANGED files
       \/ files' \in Trees \ {files} /\ UNCHANGED declaration
    /\ UNCHANGED <<onDisk, phase, refusal, built>>

Start ==
    /\ phase = "idle"
    /\ UNCHANGED workingTree
    /\ IF ~Parsed(declaration) THEN Refuse("declaration")
       ELSE IF ~Resolves(declaration) THEN Refuse("template")
       ELSE /\ phase' = "sources" /\ plan' = declaration /\ refusal' = "none"
            /\ UNCHANGED <<onDisk, source, drawn, generated, items, puzzles, made>>

At(kind) ==
    /\ phase = "sources" /\ source <= Len(plan.sources)
    /\ plan.sources[source].kind = kind
    /\ UNCHANGED workingTree

NextSource == source' = source + 1 /\ drawn' = 0

SeedOfNext(s) == SeedAt(plan.seedBase, generated)

\* One item of a template source, from the counter that spans the build.
Generate ==
    /\ At("template")
    /\ LET s    == plan.sources[source]
           ref  == [version |-> s.version, step |-> s.step,
                    seed |-> SeedOfNext(s)]
       IN  IF ~InColumn(ref.seed) THEN Refuse("seed")
           ELSE LET item == FromTemplate(ref, plan.salt)
                IN  IF ~Worded(item) THEN Refuse("misconception")
                    ELSE /\ items' = Append(items, item)
                         /\ made' = Append(made, [by |-> "template", ref |-> ref])
                         /\ generated' = generated + 1
                         /\ IF drawn + 1 < s.count
                            THEN drawn' = drawn + 1 /\ source' = source
                            ELSE NextSource
                         /\ UNCHANGED <<onDisk, phase, refusal, plan, puzzles>>

\* The entries of an authored source, read now and lifted one after another.
Lift ==
    /\ At("authored")
    /\ LET s    == plan.sources[source]
           list == files[s.path].items
           Lifted(i) == LiftAuthored(list[i], s.skill, plan.salt)
       IN  IF Len(list) = 0 \/ \E i \in DOMAIN list : ~Liftable(list[i])
           THEN Refuse("authored")
           ELSE /\ items' = items \o [i \in DOMAIN list |-> Lifted(i)]
                /\ made' = made \o [i \in DOMAIN list |->
                                      [by |-> "author", answer |-> list[i].answer]]
                /\ NextSource
                /\ UNCHANGED <<onDisk, phase, refusal, plan, generated, puzzles>>

\* The boards of a puzzle source, carried through as they are.
Carry ==
    /\ At("puzzles")
    /\ LET list == files[plan.sources[source].path].puzzles
       IN  IF Len(list) = 0 \/ \E i \in DOMAIN list : ~list[i].formed
           THEN Refuse("puzzles")
           ELSE /\ puzzles' = puzzles \o list
                /\ NextSource
                /\ UNCHANGED <<onDisk, phase, refusal, plan, generated, items, made>>

\* The words for each skill come from the declaration's own sources.
Fallbacks == {IF s.kind = "template" THEN SkillOfTemplate ELSE s.skill :
                 s \in {plan.sources[i] : i \in DOMAIN plan.sources}}

Assemble ==
    /\ phase = "sources" /\ source > Len(plan.sources)
    /\ UNCHANGED workingTree
    /\ IF ~(SkillsOf(PackOf) \subseteq Fallbacks) THEN Refuse("fallback")
       ELSE IF Faults(PackOf) # {}
       THEN \E fault \in Faults(PackOf) : Refuse(fault)
       ELSE phase' = "built" /\ UNCHANGED <<onDisk, refusal, built>>

\* A mutant: the artifact itself is opened for writing.
OpenArtifact ==
    /\ phase = "built"
    /\ phase' = "writing" /\ out' = Torn
    /\ UNCHANGED <<workingTree, temp, refusal, built>>

\* writeFileSync truncates what an earlier build may have left there...
Open ==
    /\ phase = "built"
    /\ phase' = "writing" /\ temp' = Torn
    /\ UNCHANGED <<workingTree, out, refusal, built>>

\* ...and returns when all of it is written.
Write ==
    /\ phase = "writing"
    /\ phase' = "written" /\ temp' = Whole(PackOf)
    /\ UNCHANGED <<workingTree, out, refusal, built>>

Rename ==
    /\ phase = "written"
    /\ out' = temp /\ temp' = Absent
    /\ Cleared /\ UNCHANGED <<workingTree, refusal>>

\* Any of the three calls may throw; removing the temporary may fail as well.
WriteFails ==
    /\ phase \in {"built", "writing", "written"}
    /\ temp' \in {temp, Absent}
    /\ Cleared /\ refusal' = "write"
    /\ UNCHANGED <<workingTree, out>>

\* The process is killed; whatever it had written of the temporary stays.
Die ==
    /\ phase # "idle"
    /\ Cleared /\ refusal' = "killed"
    /\ UNCHANGED <<workingTree, onDisk>>

ContentNext == \/ Edit \/ Start \/ Generate \/ Lift \/ Carry \/ Assemble
        \/ Open \/ Write \/ Rename \/ WriteFails \/ Die

ContentSpec == ContentInit /\ [][ContentNext]_contentVars

-----------------------------------------------------------------------------
Phases == {"idle", "sources", "built", "writing", "written"}

\* The variables hold what the code declares; a file is absent, torn or a pack.
ContentTypeOK ==
    /\ declaration \in Declarations /\ files \in Trees
    /\ phase \in Phases
    /\ plan \in Declarations \cup {NoPlan} /\ (plan = NoPlan <=> phase = "idle")
    /\ source \in Nat \ {0} /\ drawn \in Nat /\ generated \in Nat
    /\ Len(made) = Len(items)
    /\ \A i \in DOMAIN made :
          made[i].by = "template" => made[i].ref.seed \in SeedMin..SeedMax

\* Whatever the order of edits, refusals, failed writes and kills, the artifact
\* is absent or a pack parsePack accepts, never part of one: what build-pack.ts
\* goes through a temporary file for.
ArtifactIsWhole ==
    /\ out # Torn
    /\ out.state = "whole" => Faults(out.pack) = {}

\* What an item asked of: a whole difference, or the author's own spelling.
Expected(m) ==
    IF m.by = "template" THEN WholeAnswer(Difference(m.ref)) ELSE m.answer

\* In a pack that passed, a typed answer matches the digest an item carries
\* exactly when it says what the item asked: storedAnswer decides shape and
\* spelling at once, since -9 stored as -9/1 is an item nobody can answer.
DigestsGrade ==
    phase = "built" => \A i \in DOMAIN items, raw \in Answers :
        MatchesDigest(items[i].answer.digest, plan.salt, raw)
            <=> Accepted(raw) /\ Canonical(raw) = Expected(made[i])

\* The two ways the server grades agree: rederiving an item from its reference,
\* and verifying the digest the builder wrote for it.
GradersAgree ==
    phase = "built" => \A i \in DOMAIN items, raw \in Answers :
        made[i].by = "template" =>
            (GradeAnswer(made[i].ref, raw)
                <=> MatchesDigest(items[i].answer.digest, plan.salt, raw))

\* So an answer is right or wrong by what was asked, whoever grades it.
GradesWhatWasAsked == DigestsGrade /\ GradersAgree

\* A diagnosis names the slip that gives what was typed, and nothing is said of
\* a right answer: the labels are looked up by digest, so no two may meet.
DiagnosisNamesTheSlip ==
    phase = "built" => \A i \in DOMAIN items, raw \in Answers :
        (made[i].by = "template" /\ Accepted(raw)) =>
            LET said  == LookupDiagnosis(items[i], Digest(plan.salt, Canonical(raw)))
                asked == Asked(made[i].ref)
                right == asked.left - asked.right
                typed == Canonical(raw)
            IN  /\ said = "subtracted_in_reverse" <=>
                       typed = WholeAnswer(-right) /\ right # 0
                /\ said = "added_instead_of_subtracting" <=>
                       typed = WholeAnswer(asked.left + asked.right)

\* No build fails over arithmetic that happens to coincide (distractors.ts).
CoincidenceNeverRefuses ==
    refusal \notin {"duplicate_distractor_digest", "distractor_matches_answer"}

\* No two items of one pack are drawn at one seed, over all template sources.
SeedsNeverRepeat ==
    \A i, j \in DOMAIN made :
        (made[i].by = "template" /\ made[j].by = "template"
            /\ made[i].ref.seed = made[j].ref.seed) => i = j
=============================================================================
