------------------------------- MODULE Shadow -------------------------------
(***************************************************************************)
(* The shadow replay (engine/clustermotion/shadow.py) and its gate         *)
(* (cli.py, cmd_shadow): each path is asked twice of the source and once   *)
(* of the target, while the shop goes on; what the two answers of the      *)
(* source disagree about is noise.                                         *)
(*                                                                         *)
(* A body is flattened: a function from the fields it has to their values; *)
(* a field without a value is null.                                        *)
(***************************************************************************)
EXTENDS Integers, Sequences

CONSTANTS
    Field, Noisy,   \* the fields of a body; those that change with every answer
    Null,           \* null, and what .get returns for a field that is not there
    MaxRequests,    \* --max-requests
    MinSamples,     \* --min-samples
    MaxMismatch     \* --max-mismatch, in units of the fourth decimal

ASSUME FieldsAreNamed == Noisy \subseteq Field
ASSUME NullIsNoText == Null \notin {"old", "new", "wrong", "first", "second", "third"}
ASSUME GateIsSet == MaxRequests \in Nat /\ MinSamples \in Nat \ {0} /\ MaxMismatch \in 0..10000

VARIABLES
    data,       \* the values of the fields, as the source would answer them now
    flaw,       \* fields the target leaves out, and fields it gets wrong
    answers,    \* to the current path
    stable,     \* fields nobody wrote since the path's first answer, and since its second
    counts,     \* verdicts so far
    left,       \* paths to be asked
    gate        \* of cmd_shadow

shadowVars == <<data, flaw, answers, stable, counts, left, gate>>
----------------------------------------------------------------------------
(* compare *)

\* .get: a field that is not there is null.
get(body, f) == IF f \in DOMAIN body THEN body[f] ELSE Null

\* (Slips: nothing is noise; only the fields the source has are looked at.)
noiseNone(p, s) == {}
noise(p, s) == {f \in DOMAIN p \cup DOMAIN s : get(p, f) # get(s, f)}
lookedAtSource(p, c) == DOMAIN p
lookedAt(p, c) == DOMAIN p \cup DOMAIN c

compare(p, s, c) ==
    IF p.status # s.status THEN "noisy"
    ELSE IF c.status # p.status THEN "mismatch"
    ELSE IF \E f \in lookedAt(p.body, c.body) \ noise(p.body, s.body) : get(p.body, f) # get(c.body, f)
         THEN "mismatch" ELSE "match"
----------------------------------------------------------------------------
(* run *)

\* What a field that changes with every answer has in the next one.
noisyValue == <<"first", "second", "third">>[Len(answers) + 1]

\* A body with its noise, as the source answers it and as the target may spoil it.
body == [f \in DOMAIN data |-> IF f \in Noisy THEN noisyValue ELSE data[f]]
spoilt ==
    [f \in (DOMAIN data \cup flaw.wrong) \ flaw.left |-> IF f \in flaw.wrong THEN "wrong" ELSE body[f]]

\* The first two answers are the source's, the third is the target's.
sourceTurn == Len(answers) < 2

Count(outcome) == counts' = [counts EXCEPT ![outcome] = @ + 1]

\* Either cluster may answer a path with an error, the source one time and not the next;
\* the pages of errors are alike.
Statuses == {200, 404, 500}
page == [f \in {} |-> Null]

Fetch ==
    /\ left > 0 /\ Len(answers) < 3
    /\ \E status \in Statuses :
          answers' = Append(answers, [status |-> status,
                                      body |-> IF status # 200 THEN page
                                               ELSE IF sourceTurn THEN body ELSE spoilt])
    /\ stable' = [stable EXCEPT !.second = IF Len(answers) < 2 THEN Field ELSE @]
    /\ UNCHANGED <<data, flaw, counts, left, gate>>

NextPath ==
    /\ left' = left - 1 /\ answers' = <<>> /\ stable' = [first |-> Field, second |-> Field]
    /\ UNCHANGED <<data, flaw, gate>>

\* requests.RequestException, of any of the three: the path is not judged.
FetchFails ==
    /\ left > 0 /\ Len(answers) < 3 /\ Count("error") /\ NextPath

Judge ==
    /\ Len(answers) = 3 /\ Count(compare(answers[1], answers[2], answers[3])) /\ NextPath

\* A user writes: a field changes, or appears, or becomes null.
Write ==
    /\ answers # <<>> /\ Len(answers) < 3
    /\ \E f \in stable.second \ Noisy, v \in {"new", Null} :
         /\ data' = [g \in DOMAIN data \cup {f} |-> IF g = f THEN v ELSE data[g]]
         /\ stable' = [first |-> stable.first \ {f}, second |-> stable.second \ {f}]
    /\ UNCHANGED <<flaw, answers, counts, left, gate>>
----------------------------------------------------------------------------
(* cmd_shadow *)

judged == counts.match + counts.mismatch

\* round(mismatch / judged, 4), in units of the fourth decimal; a tie, which goes to the even
\* neighbour in Python, is never at the default limit.
mismatch_ratio == (20000 * counts.mismatch + judged) \div (2 * judged)

\* (Slip: every request is a sample, judged or not.)
enoughAny == judged + counts.noisy + counts.error >= MinSamples
enough == judged >= MinSamples

Gate ==
    /\ left = 0 /\ gate = "none"
    /\ gate' = IF enough /\ mismatch_ratio <= MaxMismatch THEN "passed" ELSE "failed"
    /\ UNCHANGED <<data, flaw, answers, stable, counts, left>>
----------------------------------------------------------------------------
\* The replay goes on from the counts of the paths that were asked before.
InitShadow(begun) ==
    /\ counts \in begun
    /\ left = MaxRequests - (counts.match + counts.mismatch + counts.noisy + counts.error)
    /\ answers = <<>> /\ stable = [first |-> Field, second |-> Field]
    /\ \E fields \in SUBSET (Field \ Noisy) :
          data \in {d \in [Noisy \cup fields -> {"old", Null}] : \A f \in Noisy : d[f] = "old"}
    /\ \E gone, wrong \in SUBSET Field : gone \cap wrong = {} /\ flaw = [left |-> gone, wrong |-> wrong]
    /\ gate = "none"

Replay == Fetch \/ FetchFails \/ Judge \/ Write \/ Gate

ShadowSpec(begun) == InitShadow(begun) /\ [][Replay]_shadowVars
----------------------------------------------------------------------------
\* A path is a mismatch only if the source agreed with itself about the status, and the target
\* answered with another one, has a flaw, or a field changed after the second answer of the
\* source: what changed before it is noise.  So a source that fails twice beside a target that
\* is well is a mismatch too: it is the target that is judged by the source.
MismatchIsReal ==
    [][counts'.mismatch > counts.mismatch =>
         /\ answers[1].status = answers[2].status
         /\ \/ answers[3].status # answers[1].status
            \/ /\ answers[1].status = 200
               /\ flaw.left \cup flaw.wrong # {} \/ stable.second # Field]_shadowVars

\* A path is a match only if the target answered with the status of the source, and got every
\* field right that has a value and did not change while the path was asked: noise hides
\* nothing else.  Of a path that the source answers with an error, only that is known.
FlawIsSeen ==
    [][counts'.match > counts.match =>
         /\ \A i \in 1..3 : answers[i].status = answers[1].status
         /\ answers[1].status = 200 => \A f \in stable.first \ Noisy :
               f \notin flaw.wrong /\ (f \in flaw.left => get(data, f) = Null)]_shadowVars

\* "Fail the migration if the mismatch ratio exceeds the threshold or the sample is too
\* small to judge", up to half a unit of the fourth decimal.
GateIsSound ==
    /\ gate = "passed" => /\ judged >= MinSamples
                          /\ 20000 * counts.mismatch < (2 * MaxMismatch + 1) * judged
    /\ gate = "failed" => \/ judged < MinSamples
                          \/ 10000 * counts.mismatch > MaxMismatch * judged
=============================================================================
