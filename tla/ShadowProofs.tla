---------------------------- MODULE ShadowProofs ----------------------------
(* Theorems about the shadow replay, for every set of fields, every replay  *)
(* and all limits of the gate.                                              *)
EXTENDS Shadow, TLAPS

Counts == [match : Nat, mismatch : Nat, noisy : Nat, error : Nat]

\* Verdicts that are counted before the replay goes on: no more than there are requests.
Begins(begun) ==
    \A c \in begun : /\ c \in Counts
                     /\ c.match + c.mismatch + c.noisy + c.error <= MaxRequests

\* The gate comes when no path is left, and after it nothing is counted.
GateIsLast ==
    /\ counts \in Counts /\ left \in Nat
    /\ left = 0 => answers = <<>>
    /\ gate # "none" => left = 0

\* A count that goes up by one stays a count.
LEMMA CountType ==
    ASSUME counts \in Counts, NEW outcome \in {"match", "mismatch", "noisy", "error"}, Count(outcome)
    PROVE  /\ counts' \in Counts
           /\ counts'.match > counts.match => outcome = "match"
           /\ counts'.mismatch > counts.mismatch => outcome = "mismatch"
  BY DEF Counts, Count

\* The verdicts of compare.
LEMMA Verdicts ==
    ASSUME NEW p, NEW s, NEW c
    PROVE  compare(p, s, c) \in {"match", "mismatch", "noisy", "error"}
  BY DEF compare

\* The gate is the last step of a replay.
LEMMA GateStaysLast ==
    ASSUME NEW begun, Begins(begun)
    PROVE  ShadowSpec(begun) => []GateIsLast
  <1>1. InitShadow(begun) => GateIsLast
    BY GateIsSet DEF InitShadow, Begins, GateIsLast, Counts
  <1>2. GateIsLast /\ [Replay]_shadowVars => GateIsLast'
    <2> SUFFICES ASSUME GateIsLast, [Replay]_shadowVars PROVE GateIsLast'
      OBVIOUS
    <2> USE DEF GateIsLast
    <2>1. CASE Fetch
      BY <2>1 DEF Fetch
    <2>2. CASE FetchFails
      BY <2>2, CountType DEF FetchFails, NextPath
    <2>3. CASE Judge
      <3>1. left > 0
        BY <2>3 DEF Judge
      <3> QED BY <2>3, <3>1, Verdicts, CountType DEF Judge, NextPath
    <2>4. CASE Write
      BY <2>4 DEF Write
    <2>5. CASE Gate
      BY <2>5 DEF Gate
    <2>6. CASE UNCHANGED shadowVars
      BY <2>6 DEF shadowVars
    <2> QED BY <2>1, <2>2, <2>3, <2>4, <2>5, <2>6 DEF Replay
  <1> QED BY <1>1, <1>2, PTL DEF ShadowSpec

\* Rounded to the fourth decimal, the ratio is in the limit only if it is exceeded by less
\* than half a unit.
LEMMA Rounding ==
    ASSUME NEW m \in Nat, NEW j \in Nat \ {0}, NEW limit \in Nat
    PROVE  /\ (20000 * m + j) \div (2 * j) <= limit => 20000 * m < (2 * limit + 1) * j
           /\ ~((20000 * m + j) \div (2 * j) <= limit) => 10000 * m > limit * j
  <1> DEFINE q == (20000 * m + j) \div (2 * j)
             r == (20000 * m + j) % (2 * j)
  <1>1. q \in Int /\ r \in 0..(2 * j - 1) /\ 20000 * m + j = (2 * j) * q + r
    OBVIOUS
  <1> HIDE DEF q, r
  <1>2. CASE q <= limit
    <2>1. (2 * j) * q <= (2 * j) * limit
      BY <1>1, <1>2
    <2> QED BY <1>1, <1>2, <2>1 DEF q
  <1>3. CASE ~(q <= limit)
    <2>1. (2 * j) * (limit + 1) <= (2 * j) * q
      BY <1>1, <1>3
    <2> QED BY <1>1, <1>3, <2>1 DEF q
  <1> QED BY <1>2, <1>3

\* The gate of cmd_shadow passes a replay with enough samples and a ratio in its limit,
\* and fails no other, but for what rounding hides.
THEOREM GateDecidesRight ==
    ASSUME NEW begun, Begins(begun)
    PROVE  ShadowSpec(begun) => []GateIsSound
  <1>1. InitShadow(begun) => GateIsSound
    BY DEF InitShadow, GateIsSound
  <1>2. GateIsLast /\ GateIsSound /\ [Replay]_shadowVars => GateIsSound'
    <2> SUFFICES ASSUME GateIsLast, GateIsSound, [Replay]_shadowVars PROVE GateIsSound'
      OBVIOUS
    <2>1. CASE Gate
      <3>1. /\ counts' = counts /\ judged' = judged /\ judged \in Nat /\ counts.mismatch \in Nat
            /\ gate' = IF enough /\ mismatch_ratio <= MaxMismatch THEN "passed" ELSE "failed"
        BY <2>1 DEF Gate, GateIsLast, Counts, judged
      <3>2. MaxMismatch \in Nat /\ MinSamples \in Nat \ {0}
        BY GateIsSet
      <3>3. CASE enough
        <4>1. judged \in Nat \ {0} /\ judged >= MinSamples
          BY <3>1, <3>2, <3>3 DEF enough
        <4>2. /\ mismatch_ratio <= MaxMismatch => 20000 * counts.mismatch < (2 * MaxMismatch + 1) * judged
              /\ ~(mismatch_ratio <= MaxMismatch) => 10000 * counts.mismatch > MaxMismatch * judged
          BY <3>1, <3>2, <4>1, Rounding DEF mismatch_ratio
        <4> QED BY <3>1, <3>3, <4>1, <4>2 DEF GateIsSound
      <3>4. CASE ~enough
        BY <3>1, <3>2, <3>4 DEF GateIsSound, enough
      <3> QED BY <3>3, <3>4
    <2>2. CASE left > 0
      <3>1. gate' = "none"
        BY <2>2 DEF GateIsLast, Replay, Fetch, FetchFails, Judge, Write, Gate, NextPath, shadowVars,
                    GateIsSound
      <3> QED BY <3>1 DEF GateIsSound
    <2>3. CASE left = 0 /\ ~Gate
      <3>1. counts' = counts /\ gate' = gate
        BY <2>3 DEF GateIsLast, Replay, Fetch, FetchFails, Judge, Write, shadowVars
      <3> QED BY <3>1 DEF GateIsSound, judged
    <2> QED BY <2>1, <2>2, <2>3 DEF GateIsLast
  <1> QED BY <1>1, <1>2, GateStaysLast, PTL DEF ShadowSpec
----------------------------------------------------------------------------
(* What the three answers to a path have to do with the data.               *)

Value == {"old", "new", "wrong", "first", "second", "third", Null}
Body == UNION {[fields -> Value] : fields \in SUBSET Field}
Answers == [status : Statuses, body : Body]

\* The fields of the source, and what is wrong with the target.
ShadowTypeOK ==
    /\ data \in Body /\ Noisy \subseteq DOMAIN data
    /\ \A f \in DOMAIN data : data[f] # "wrong"
    /\ flaw \in [left : SUBSET Field, wrong : SUBSET Field] /\ flaw.left \cap flaw.wrong = {}
    /\ answers \in Seq(Answers) /\ Len(answers) <= 3
    /\ stable \in [first : SUBSET Field, second : SUBSET Field] /\ stable.first \subseteq stable.second
    /\ answers = <<>> => stable.first = Field

\* An answer of the source, with its noise, still has what nobody wrote since.
Agrees(answer, noisy, fields) ==
    IF answer.status = 200
    THEN /\ Noisy \subseteq DOMAIN answer.body
         /\ \A f \in Noisy : answer.body[f] = noisy
         /\ \A f \in fields \ Noisy : get(answer.body, f) = get(data, f)
    ELSE answer.body = page

\* An answer of the target has the data, but for its flaws.
Spoilt(answer) ==
    IF answer.status = 200
    THEN /\ \A f \in flaw.wrong : f \in DOMAIN answer.body /\ answer.body[f] = "wrong"
         /\ \A f \in flaw.left : f \notin DOMAIN answer.body
         /\ \A f \in Field \ (Noisy \cup flaw.left \cup flaw.wrong) :
                get(answer.body, f) = get(data, f)
    ELSE answer.body = page

AnswersAgree ==
    /\ Len(answers) >= 1 => Agrees(answers[1], "first", stable.first)
    /\ Len(answers) >= 2 => Agrees(answers[2], "second", stable.second)
    /\ Len(answers) = 3 => Spoilt(answers[3])

\* Answers before the last are none, one or two, and one more is appended to them.
LEMMA AnswersAreFew ==
    ASSUME ShadowTypeOK, Len(answers) < 3
    PROVE  /\ Len(answers) \in 0..2
           /\ \A answer \in Answers :
                 LET more == Append(answers, answer)
                 IN  /\ more \in Seq(Answers) /\ Len(more) = Len(answers) + 1
                     /\ more[Len(answers) + 1] = answer
                     /\ \A i \in 1..Len(answers) : more[i] = answers[i]
  <1>1. answers \in Seq(Answers)
    BY DEF ShadowTypeOK
  <1>2. \A S : \A s \in Seq(S), x \in S :
           /\ Len(s) \in Nat
           /\ Append(s, x) \in Seq(S) /\ Len(Append(s, x)) = Len(s) + 1
           /\ Append(s, x)[Len(s) + 1] = x /\ \A i \in 1..Len(s) : Append(s, x)[i] = s[i]
    OBVIOUS
  <1>3. Len(answers) \in Nat
    <2> HIDE DEF Answers
    <2> QED BY <1>1
  <1>4. Len(answers) \in 0..2
    <2>1. \A n \in Nat : n < 3 => n \in 0..2
      OBVIOUS
    <2> QED BY <1>3, <2>1, Zenon
  <1> QED BY <1>1, <1>2, <1>4

\* What Fetch appends is an answer.
LEMMA AnswersHaveBodies ==
    ASSUME ShadowTypeOK, Len(answers) < 3
    PROVE  /\ noisyValue = (IF Len(answers) = 0 THEN "first" ELSE IF Len(answers) = 1 THEN "second" ELSE "third")
           /\ DOMAIN body = DOMAIN data /\ body \in Body
           /\ spoilt \in Body
           /\ page \in Body
  <1>1. Len(answers) \in 0..2
    BY AnswersAreFew
  <1>2. noisyValue = (IF Len(answers) = 0 THEN "first" ELSE IF Len(answers) = 1 THEN "second" ELSE "third")
    <2>1. CASE Len(answers) = 0
      BY <2>1 DEF noisyValue
    <2>2. CASE Len(answers) = 1
      BY <2>2 DEF noisyValue
    <2>3. CASE Len(answers) = 2
      BY <2>3 DEF noisyValue
    <2> QED BY <1>1, <2>1, <2>2, <2>3
  <1>3. noisyValue \in Value /\ Null \in Value /\ "wrong" \in Value
    BY <1>2 DEF Value
  <1>4. PICK fields \in SUBSET Field : data \in [fields -> Value]
    BY DEF ShadowTypeOK, Body
  <1>5. body \in [fields -> Value]
    BY <1>3, <1>4 DEF body
  <1>6. spoilt \in [(fields \cup flaw.wrong) \ flaw.left -> Value]
    BY <1>3, <1>4, <1>5 DEF spoilt
  <1>7. (fields \cup flaw.wrong) \ flaw.left \in SUBSET Field
    BY <1>4 DEF ShadowTypeOK
  <1>8. page \in [{} -> Value]
    BY DEF page
  <1> QED BY <1>2, <1>4, <1>5, <1>6, <1>7, <1>8 DEF Body

\* A path begins without answers.
LEMMA PathsBegin ==
    ASSUME ShadowTypeOK, NextPath
    PROVE  ShadowTypeOK' /\ AnswersAgree'
  <1>1. answers' = <<>> /\ Len(answers') = 0
    BY DEF NextPath
  <1>2. <<>> \in Seq(Answers)
    OBVIOUS
  <1> QED BY <1>1, <1>2 DEF NextPath, ShadowTypeOK, AnswersAgree

\* The answers to a path agree with the data where nobody wrote since.
LEMMA AnswersStayTrue ==
    ASSUME NEW begun
    PROVE  ShadowSpec(begun) => [](ShadowTypeOK /\ AnswersAgree)
  <1>1. InitShadow(begun) => ShadowTypeOK /\ AnswersAgree
    <2> SUFFICES ASSUME InitShadow(begun) PROVE ShadowTypeOK /\ AnswersAgree
      OBVIOUS
    <2>1. PICK fields \in SUBSET (Field \ Noisy) : data \in [Noisy \cup fields -> {"old", Null}]
      BY DEF InitShadow
    <2>2. Noisy \cup fields \in SUBSET Field /\ data \in [Noisy \cup fields -> Value]
      BY <2>1, FieldsAreNamed DEF Value
    <2>3. data \in Body /\ Noisy \subseteq DOMAIN data
      BY <2>2 DEF Body
    <2>4. \A f \in DOMAIN data : data[f] # "wrong"
      BY <2>1, NullIsNoText
    <2>5. answers = <<>> /\ answers \in Seq(Answers) /\ Len(answers) = 0
      BY DEF InitShadow
    <2> QED BY <2>3, <2>4, <2>5 DEF InitShadow, ShadowTypeOK, AnswersAgree
  <1>2. ShadowTypeOK /\ AnswersAgree /\ [Replay]_shadowVars => (ShadowTypeOK /\ AnswersAgree)'
    <2> SUFFICES ASSUME ShadowTypeOK, AnswersAgree, [Replay]_shadowVars
                 PROVE  ShadowTypeOK' /\ AnswersAgree'
      OBVIOUS
    <2>1. CASE Fetch
      <3>0. PICK status \in Statuses :
               answers' = Append(answers, [status |-> status,
                                           body |-> IF status # 200 THEN page
                                                    ELSE IF sourceTurn THEN body ELSE spoilt])
        BY <2>1 DEF Fetch
      <3> DEFINE answer == [status |-> status,
                            body |-> IF status # 200 THEN page
                                     ELSE IF sourceTurn THEN body ELSE spoilt]
      <3>1. /\ answers' = Append(answers, answer)
            /\ stable' = [stable EXCEPT !.second = IF Len(answers) < 2 THEN Field ELSE @]
            /\ UNCHANGED <<data, flaw>> /\ Len(answers) < 3
        BY <2>1, <3>0 DEF Fetch
      <3>2. answer \in Answers
        BY <3>1, AnswersHaveBodies DEF Answers
      <3>3. /\ answers \in Seq(Answers) /\ Len(answers) \in 0..2
            /\ answers' \in Seq(Answers) /\ Len(answers') = Len(answers) + 1
            /\ answers'[Len(answers) + 1] = answer
            /\ \A i \in 1..Len(answers) : answers'[i] = answers[i]
        <4> HIDE DEF answer
        <4> QED BY <3>1, <3>2, AnswersAreFew DEF ShadowTypeOK
      <3>4. ShadowTypeOK'
        <4>1. Len(answers') <= 3 /\ answers' # <<>>
          BY <3>3
        <4>2. stable' \in [first : SUBSET Field, second : SUBSET Field] /\ stable'.first \subseteq stable'.second
          BY <3>1 DEF ShadowTypeOK
        <4> HIDE DEF answer
        <4> QED BY <3>1, <3>3, <4>1, <4>2 DEF ShadowTypeOK
      <3>5. \A a, noisy, fields : Agrees(a, noisy, fields)' = Agrees(a, noisy, fields)
        BY <3>1 DEF Agrees
      <3>6. CASE Len(answers) < 2
        <4>1. answer.body = IF answer.status = 200 THEN body ELSE page
          BY <3>6 DEF sourceTurn
        <4>2. Agrees(answer, noisyValue, Field)
          <5> HIDE DEF answer
          <5> QED BY <4>1, AnswersHaveBodies, <3>1 DEF Agrees, body, get, ShadowTypeOK
        <4>3. stable'.first = stable.first /\ stable'.second = Field /\ stable.first \subseteq Field
          BY <3>1, <3>6 DEF ShadowTypeOK
        <4>4. CASE Len(answers) = 0
          <5>1. noisyValue = "first" /\ answers'[1] = answer /\ Len(answers') = 1
            BY <4>4, <3>1, <3>3, AnswersHaveBodies
          <5>2. Agrees(answers'[1], "first", stable'.first)
            BY <4>2, <4>3, <5>1 DEF Agrees
          <5> QED BY <3>1, <3>4, <5>1, <5>2 DEF AnswersAgree, Agrees
        <4>5. CASE Len(answers) = 1
          <5>1. noisyValue = "second" /\ answers'[2] = answer /\ answers'[1] = answers[1] /\ Len(answers') = 2
            BY <4>5, <3>1, <3>3, AnswersHaveBodies
          <5>2. Agrees(answers'[2], "second", stable'.second) /\ Agrees(answers'[1], "first", stable'.first)
            BY <4>2, <4>3, <4>5, <5>1 DEF AnswersAgree
          <5> QED BY <3>1, <3>4, <5>1, <5>2 DEF AnswersAgree, Agrees
        <4> QED BY <3>3, <3>6, <4>4, <4>5
      <3>7. CASE Len(answers) = 2
        <4>1. /\ answers'[3] = answer /\ answers'[1] = answers[1] /\ answers'[2] = answers[2]
              /\ Len(answers') = 3 /\ stable' = stable
          BY <3>1, <3>3, <3>7 DEF ShadowTypeOK
        <4>2. answer.body = IF answer.status = 200 THEN spoilt ELSE page
          BY <3>7 DEF sourceTurn
        <4>3. Spoilt(answer)
          <5> HIDE DEF answer
          <5>1. CASE answer.status # 200
            BY <4>2, <5>1 DEF Spoilt
          <5>2. CASE answer.status = 200
            <6>1. answer.body = spoilt
              BY <4>2, <5>2
            <6>2. /\ DOMAIN spoilt = (DOMAIN data \cup flaw.wrong) \ flaw.left
                  /\ \A f \in DOMAIN spoilt : spoilt[f] = IF f \in flaw.wrong THEN "wrong" ELSE body[f]
              BY DEF spoilt
            <6>3. \A f \in DOMAIN data \ Noisy : body[f] = data[f]
              BY DEF body
            <6> QED BY <5>2, <6>1, <6>2, <6>3 DEF Spoilt, get, ShadowTypeOK
          <5> QED BY <5>1, <5>2
        <4> QED BY <3>1, <3>4, <3>7, <4>1, <4>3 DEF AnswersAgree, Spoilt, Agrees
      <3> QED BY <3>3, <3>6, <3>7
    <2>2. CASE FetchFails
      BY <2>2, PathsBegin DEF FetchFails
    <2>3. CASE Judge
      BY <2>3, PathsBegin DEF Judge
    <2>4. CASE Write
      <3>1. PICK f \in stable.second \ Noisy, v \in {"new", Null} :
               /\ data' = [g \in DOMAIN data \cup {f} |-> IF g = f THEN v ELSE data[g]]
               /\ stable' = [first |-> stable.first \ {f}, second |-> stable.second \ {f}]
        BY <2>4 DEF Write
      <3>2. answers' = answers /\ Len(answers) < 3 /\ answers # <<>> /\ UNCHANGED flaw
        BY <2>4 DEF Write
      <3>3. PICK fields \in SUBSET Field : data \in [fields -> Value]
        BY DEF ShadowTypeOK, Body
      <3>4. v \in Value /\ f \in Field /\ v # "wrong"
        BY <3>1, NullIsNoText DEF Value, ShadowTypeOK
      <3>5. data' \in [fields \cup {f} -> Value] /\ fields \cup {f} \in SUBSET Field
        BY <3>1, <3>3, <3>4
      <3>6. data' \in Body
        BY <3>5 DEF Body
      <3>7. ShadowTypeOK'
        BY <3>1, <3>2, <3>4, <3>6 DEF ShadowTypeOK
      <3>8. \A g \in Field \ {f} : get(data', g) = get(data, g)
        BY <3>1 DEF get
      <3>9. \A a, noisy, kept : kept \subseteq Field /\ Agrees(a, noisy, kept) => Agrees(a, noisy, kept \ {f})'
        BY <3>8 DEF Agrees
      <3>10. stable'.first = stable.first \ {f} /\ stable'.second = stable.second \ {f}
        BY <3>1
      <3>11. stable.first \subseteq Field /\ stable.second \subseteq Field
        BY DEF ShadowTypeOK
      <3> QED BY <3>2, <3>7, <3>9, <3>10, <3>11 DEF AnswersAgree
    <2>5. CASE Gate
      BY <2>5 DEF Gate, ShadowTypeOK, AnswersAgree, Agrees, Spoilt
    <2>6. CASE UNCHANGED shadowVars
      BY <2>6 DEF shadowVars, ShadowTypeOK, AnswersAgree, Agrees, Spoilt
    <2> QED BY <2>1, <2>2, <2>3, <2>4, <2>5, <2>6 DEF Replay
  <1> QED BY <1>1, <1>2, PTL DEF ShadowSpec

\* Why a path may be called a mismatch, and what a match says of the target.
Reason ==
    /\ answers[1].status = answers[2].status
    /\ \/ answers[3].status # answers[1].status
       \/ /\ answers[1].status = 200
          /\ flaw.left \cup flaw.wrong # {} \/ stable.second # Field
Faultless ==
    /\ \A i \in 1..3 : answers[i].status = answers[1].status
    /\ answers[1].status = 200 => \A f \in stable.first \ Noisy :
          f \notin flaw.wrong /\ (f \in flaw.left => get(data, f) = Null)

\* A path whose three answers agree with the data is a mismatch only for a reason, and is
\* a match only if nothing is wrong with the target that could be seen.
LEMMA VerdictsAreFair ==
    ASSUME ShadowTypeOK, AnswersAgree, Len(answers) = 3
    PROVE  /\ compare(answers[1], answers[2], answers[3]) = "mismatch" => Reason
           /\ compare(answers[1], answers[2], answers[3]) = "match" => Faultless
  <1> DEFINE p == answers[1]
             s == answers[2]
             c == answers[3]
  <1>1. Agrees(p, "first", stable.first) /\ Agrees(s, "second", stable.second) /\ Spoilt(c)
    BY DEF AnswersAgree
  <1>2. p \in Answers /\ s \in Answers /\ c \in Answers
    <2>1. answers \in Seq(Answers)
      BY DEF ShadowTypeOK
    <2>2. \A S : \A q \in Seq(S) : Len(q) = 3 => q[1] \in S /\ q[2] \in S /\ q[3] \in S
      OBVIOUS
    <2> QED BY <2>1, <2>2, Zenon
  <1>3. /\ DOMAIN p.body \subseteq Field /\ DOMAIN s.body \subseteq Field /\ DOMAIN c.body \subseteq Field
    BY <1>2 DEF Answers, Body
  <1>4. stable.first \subseteq stable.second /\ stable.second \subseteq Field /\ stable.first \subseteq Field
    BY DEF ShadowTypeOK
  <1>0. p = answers[1] /\ s = answers[2] /\ c = answers[3]
    OBVIOUS
  <1> HIDE DEF p, s, c
  <1>5. p.status = 200 /\ s.status = 200 => \A f \in Noisy : f \in noise(p.body, s.body)
    BY <1>1 DEF Agrees, noise, get
  <1>6. ASSUME compare(p, s, c) = "mismatch"
        PROVE  Reason
    <2>1. p.status = s.status
      BY <1>6 DEF compare
    <2>2. ASSUME c.status = p.status, p.status # 200 PROVE FALSE
      <3>1. p.body = page /\ c.body = page
        BY <1>1, <2>2 DEF Agrees, Spoilt
      <3> QED BY <1>6, <2>1, <2>2, <3>1 DEF compare
    <2>3. ASSUME c.status = 200, p.status = 200, flaw.left \cup flaw.wrong = {}, stable.second = Field
          PROVE  FALSE
      <3>1. s.status = 200
        BY <2>1, <2>3
      <3>2. PICK f \in lookedAt(p.body, c.body) \ noise(p.body, s.body) : get(p.body, f) # get(c.body, f)
        BY <1>6, <2>3, <3>1 DEF compare
      <3>3. f \in Field \ Noisy /\ get(p.body, f) = get(s.body, f)
        BY <1>3, <1>5, <2>3, <3>1, <3>2 DEF lookedAt, noise, get
      <3>4. get(s.body, f) = get(data, f)
        BY <1>1, <2>3, <3>1, <3>3 DEF Agrees
      <3>5. get(c.body, f) = get(data, f)
        BY <1>1, <2>3, <3>3 DEF Spoilt
      <3> QED BY <3>2, <3>3, <3>4, <3>5
    <2> QED BY <1>0, <2>1, <2>2, <2>3 DEF Reason
  <1>7. ASSUME compare(p, s, c) = "match"
        PROVE  Faultless
    <2>1. p.status = s.status /\ c.status = p.status
      BY <1>7 DEF compare
    <2>2. ASSUME p.status = 200, NEW f \in stable.first \ Noisy
          PROVE  f \notin flaw.wrong /\ (f \in flaw.left => get(data, f) = Null)
      <3>0. s.status = 200 /\ c.status = 200
        BY <2>1, <2>2
      <3>1. get(p.body, f) = get(data, f) /\ get(s.body, f) = get(data, f)
        BY <1>1, <1>4, <2>2, <3>0 DEF Agrees
      <3>2. f \notin noise(p.body, s.body)
        BY <3>1 DEF noise
      <3>3. get(p.body, f) = get(c.body, f)
        <4>1. \A g \in lookedAt(p.body, c.body) \ noise(p.body, s.body) : get(p.body, g) = get(c.body, g)
          BY <1>7, <2>1 DEF compare
        <4> QED BY <3>2, <4>1 DEF lookedAt, get
      <3>4. get(data, f) # "wrong"
        BY NullIsNoText DEF get, ShadowTypeOK
      <3>5. f \in flaw.wrong => get(c.body, f) = "wrong"
        BY <1>1, <3>0 DEF Spoilt, get
      <3>6. f \in flaw.left => get(c.body, f) = Null
        BY <1>1, <3>0 DEF Spoilt, get
      <3> QED BY <3>1, <3>3, <3>4, <3>5, <3>6
    <2>3. \A i \in 1..3 : i = 1 \/ i = 2 \/ i = 3
      OBVIOUS
    <2>4. \A i \in 1..3 : answers[i].status = answers[1].status
      BY <1>0, <2>1, <2>3
    <2> QED BY <1>0, <2>2, <2>4 DEF Faultless
  <1> QED BY <1>0, <1>6, <1>7

\* Verdicts are counted by Judge alone.
LEMMA JudgeCounts ==
    ASSUME GateIsLast, [Replay]_shadowVars,
           counts'.match > counts.match \/ counts'.mismatch > counts.mismatch
    PROVE  /\ Len(answers) = 3
           /\ counts'.match > counts.match => compare(answers[1], answers[2], answers[3]) = "match"
           /\ counts'.mismatch > counts.mismatch =>
                 compare(answers[1], answers[2], answers[3]) = "mismatch"
  <1>0. counts \in Counts /\ ~(counts.match > counts.match) /\ ~(counts.mismatch > counts.mismatch)
    BY DEF GateIsLast, Counts
  <1>1. CASE Judge
    BY <1>0, <1>1, Verdicts, CountType DEF Judge
  <1>2. CASE FetchFails
    BY <1>0, <1>2, CountType DEF FetchFails
  <1>3. CASE counts' = counts
    BY <1>0, <1>3
  <1> QED BY <1>1, <1>2, <1>3 DEF Replay, Fetch, Write, Gate, shadowVars

\* compare calls a path a mismatch only if the source agreed with itself about the status, and
\* the target answered with another one, has a flaw, or a field changed after the second
\* answer of the source, whatever is noise and whichever answers are errors.
THEOREM MismatchesAreReal ==
    ASSUME NEW begun, Begins(begun)
    PROVE  ShadowSpec(begun) => MismatchIsReal
  <1>1. ShadowTypeOK /\ AnswersAgree /\ GateIsLast /\ [Replay]_shadowVars =>
            [counts'.mismatch > counts.mismatch => Reason]_shadowVars
    BY JudgeCounts, VerdictsAreFair
  <1>2. [counts'.mismatch > counts.mismatch => Reason]_shadowVars =>
          [counts'.mismatch > counts.mismatch =>
             /\ answers[1].status = answers[2].status
             /\ \/ answers[3].status # answers[1].status
                \/ /\ answers[1].status = 200
                   /\ flaw.left \cup flaw.wrong # {} \/ stable.second # Field]_shadowVars
    BY DEF Reason
  <1> QED BY <1>1, <1>2, AnswersStayTrue, GateStaysLast, PTL DEF ShadowSpec, MismatchIsReal

\* compare calls a path a match only if the target answered with the status of the source and,
\* if that was no error, got every field right that has a value and did not change meanwhile:
\* noise hides no flaw but those of noisy fields.
THEOREM FlawsAreSeen ==
    ASSUME NEW begun, Begins(begun)
    PROVE  ShadowSpec(begun) => FlawIsSeen
  <1>1. ShadowTypeOK /\ AnswersAgree /\ GateIsLast /\ [Replay]_shadowVars =>
            [counts'.match > counts.match => Faultless]_shadowVars
    BY JudgeCounts, VerdictsAreFair
  <1>2. [counts'.match > counts.match => Faultless]_shadowVars =>
          [counts'.match > counts.match =>
             /\ \A i \in 1..3 : answers[i].status = answers[1].status
             /\ answers[1].status = 200 => \A f \in stable.first \ Noisy :
                   f \notin flaw.wrong /\ (f \in flaw.left => get(data, f) = Null)]_shadowVars
    BY DEF Faultless
  <1> QED BY <1>1, <1>2, AnswersStayTrue, GateStaysLast, PTL DEF ShadowSpec, FlawIsSeen
=============================================================================
