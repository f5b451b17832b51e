---------------------------- MODULE DecisionProofs ----------------------------
(***************************************************************************)
(* Theorems about Decision, for any cut-offs, margin, thresholds, answers  *)
(* and dates.                                                              *)
(***************************************************************************)
EXTENDS DecisionProps, FiniteSetTheorems, TLAPS

\* The arithmetic on months and days counts birthdays; somebody who is not born
\* yet has had none (age.ts).
LEMMA AgeCountsBirthdays ==
  ASSUME NEW dob \in Int \X Int \X Int, dob \notin BadDates, NEW now \in Int \X Int \X Int
  PROVE  /\ ageFromBirthDate(dob, now) \in Int
         /\ Birthdays(dob, now) = IF ageFromBirthDate(dob, now) < 0 THEN 0
                                  ELSE ageFromBirthDate(dob, now)
<1> DEFINE notYet == now[2] < dob[2] \/ (now[2] = dob[2] /\ now[3] < dob[3])
           last == IF notYet THEN now[1] - 1 ELSE now[1]
<1>1. /\ dob[1] \in Int /\ dob[2] \in Int /\ dob[3] \in Int
      /\ now[1] \in Int /\ now[2] \in Int /\ now[3] \in Int
  OBVIOUS
<1>2. ageFromBirthDate(dob, now) = last - dob[1]
  BY <1>1 DEF ageFromBirthDate
<1>3. ASSUME NEW y \in (dob[1] + 1)..now[1]
      PROVE  OnOrBefore(<<y, dob[2], dob[3]>>, now) <=> y \in (dob[1] + 1)..last
  BY <1>1, <1>3 DEF OnOrBefore
<1>4. last \in Int /\ (dob[1] + 1)..last \subseteq (dob[1] + 1)..now[1]
  BY <1>1
<1> HIDE DEF last
<1>5. Birthdays(dob, now) = Cardinality((dob[1] + 1)..last)
  <2>1. {y \in (dob[1] + 1)..now[1] : OnOrBefore(<<y, dob[2], dob[3]>>, now)} = (dob[1] + 1)..last
    BY <1>3, <1>4
  <2> QED BY <2>1 DEF Birthdays
<1>6. Cardinality((dob[1] + 1)..last) = IF dob[1] + 1 > last THEN 0 ELSE last - (dob[1] + 1) + 1
  <2>1. dob[1] + 1 \in Int /\ last \in Int
    BY <1>1, <1>4
  <2> QED BY <2>1, FS_Interval
<1> QED BY <1>1, <1>2, <1>4, <1>5, <1>6

-----------------------------------------------------------------------------
(* The inductive invariant: audit and record follow from the evidence, but *)
(* for the rows a NaN keeps out.                                           *)

AgeShown(out) ==
  IF out.birthDate = Unknown THEN Unknown ELSE ageFromBirthDate(out.birthDate, Today)

Judgement(out, cutoff) ==
  decideDocument([ageFromDoc |-> AgeShown(out), faceMatchScore |-> out.faceMatchScore,
                  identical |-> out.identical], cutoff, MinFaceMatch)

Estimation(result, cutoff) == decideVerification(result, EffectiveCfg(cutoff))

\* The row of an age phase that could be saved.
AgeRow(result, cutoff, status) ==
  /\ result.estimatedAge # NaN
  /\ record = buildAgeRecord(result, EffectiveCfg(cutoff), status)

AgeInv ==
  /\ evidence \in [method: {"age_liveness"}, cutoff: RequiredAges, answer: AgeResults]
  /\ audit = Estimation(evidence.answer, evidence.cutoff)
  /\ IF evidence.answer.estimatedAge = NaN THEN record = Nothing
     ELSE AgeRow(evidence.answer, evidence.cutoff, audit)

\* After a document without a readable date the row still asks for one.
DocInv ==
  /\ evidence \in [method: {"document"}, cutoff: RequiredAges, answer: DocResults]
  /\ audit = Judgement(evidence.answer, evidence.cutoff)
  /\ IF AgeShown(evidence.answer) = NaN
     THEN \E result \in AgeResults, cutoff \in RequiredAges :
            AgeRow(result, cutoff, "documento_requerido")
     ELSE record = buildDocumentRecord(AgeShown(evidence.answer), evidence.cutoff, audit)

NewInv == evidence = Nothing /\ record = Nothing /\ audit = "none"

IInv == requiredAge \in RequiredAges /\ (NewInv \/ AgeInv \/ DocInv)

LEMMA Inductive == IInv /\ [Next]_vars => IInv'
<1> SUFFICES ASSUME IInv, [Next]_vars PROVE IInv'
  OBVIOUS
<1>1. ASSUME UNCHANGED <<evidence, audit, record>>, requiredAge' \in RequiredAges PROVE IInv'
  BY <1>1 DEF IInv, NewInv, AgeInv, DocInv, AgeRow
<1>2. CASE UNCHANGED vars
  BY <1>1, <1>2 DEF vars, IInv
<1>3. ASSUME NEW age \in RequiredAges, setRequiredAge(age) PROVE IInv'
  BY <1>1, <1>3 DEF setRequiredAge
<1>4. ASSUME NEW result \in AgeResults, VerifyAge(result) PROVE IInv'
  <2>1. NewInv
    BY <1>4 DEF VerifyAge, IInv, NewInv, AgeInv, DocInv, Nothing
  <2>2. /\ evidence' = [method |-> "age_liveness", cutoff |-> requiredAge, answer |-> result]
        /\ audit' = Estimation(result, requiredAge)
        /\ record' = IF result.estimatedAge = NaN THEN record
                     ELSE buildAgeRecord(result, EffectiveCfg(requiredAge), audit')
        /\ requiredAge' = requiredAge
    BY <1>4 DEF VerifyAge, Estimation, saveWith, buildAgeRecord
  <2>3. AgeInv'
    BY <2>1, <2>2 DEF AgeInv, AgeRow, NewInv, IInv, Estimation, EffectiveCfg
  <2> QED BY <2>2, <2>3 DEF IInv
<1>5. ASSUME NEW out \in DocResults, VerifyDocument(out) PROVE IInv'
  <2>1. /\ AgeInv /\ record # Nothing /\ record.status = "documento_requerido"
    BY <1>5 DEF VerifyDocument, IInv, NewInv, DocInv, Nothing
  <2>2. /\ evidence' = [method |-> "document", cutoff |-> requiredAge, answer |-> out]
        /\ audit' = Judgement(out, requiredAge)
        /\ record' = IF AgeShown(out) = NaN THEN record
                     ELSE buildDocumentRecord(AgeShown(out), requiredAge, audit')
        /\ requiredAge' = requiredAge
    BY <1>5 DEF VerifyDocument, Judgement, AgeShown, saveWith, buildDocumentRecord
  <2>3. AgeRow(evidence.answer, evidence.cutoff, "documento_requerido")
        /\ evidence.answer \in AgeResults /\ evidence.cutoff \in RequiredAges
    BY <2>1 DEF AgeInv, AgeRow, buildAgeRecord
  <2>4. CASE AgeShown(out) = NaN
    <3>1. \E result \in AgeResults, cutoff \in RequiredAges :
            AgeRow(result, cutoff, "documento_requerido")'
      BY <2>2, <2>3, <2>4 DEF AgeRow
    <3> QED BY <2>2, <2>4, <3>1 DEF IInv, DocInv
  <2>5. CASE AgeShown(out) # NaN
    BY <2>2, <2>5 DEF IInv, DocInv
  <2> QED BY <2>4, <2>5
<1> QED BY <1>2, <1>3, <1>4, <1>5 DEF Next

LEMMA Invariance == Spec => []IInv
<1>1. Init => IInv
  BY DEF Init, IInv, NewInv
<1> QED BY <1>1, Inductive, PTL DEF Spec

-----------------------------------------------------------------------------
(* What follows from it. *)

\* The age read off a document is missing, not a number, or comparable.
LEMMA AgeOfDocument ==
  ASSUME NEW out \in DocResults
  PROVE  /\ AgeShown(out) \in Int \union {NaN, Unknown}
         /\ out.birthDate \in BadDates \ {Unknown} => AgeShown(out) = NaN
         /\ out.birthDate \in BirthDates =>
              /\ AgeShown(out) \in Int
              /\ Birthdays(out.birthDate, Today) = IF AgeShown(out) < 0 THEN 0 ELSE AgeShown(out)
         /\ out.birthDate = Unknown => AgeShown(out) = Unknown
<1>1. CASE out.birthDate \in BirthDates
  <2>1. /\ out.birthDate \in Int \X Int \X Int /\ Today \in Int \X Int \X Int
        /\ out.birthDate \notin BadDates /\ out.birthDate # Unknown
    BY <1>1, DecisionAssumption
  <2> QED BY <1>1, <2>1, AgeCountsBirthdays DEF AgeShown
<1>2. CASE out.birthDate = Unknown
  BY <1>2, DecisionAssumption DEF AgeShown
<1>3. CASE out.birthDate \in BadDates \ {Unknown}
  BY <1>3, DecisionAssumption DEF AgeShown, ageFromBirthDate
<1> QED BY <1>1, <1>2, <1>3 DEF DocResults

LEMMA VerdictForms ==
  ASSUME IInv
  PROVE  /\ audit \in Statuses \union {"none"}
         /\ AgeInv => audit \in Statuses
         /\ DocInv => audit \in {"aprovado", "reprovado"}
BY DEF IInv, NewInv, AgeInv, DocInv, Estimation, Judgement, decideVerification,
       decideDocument, Statuses

\* The row carries the status of the audit, or asks for a document.
LEMMA RowForms ==
  ASSUME IInv, Decided
  PROVE  /\ record.status = audit \/ record.status = "documento_requerido"
         /\ record.status \in Statuses
         /\ record.method \in {"age_liveness", "document"}
         /\ record.estimatedAge \in Int \union {Unknown}
         /\ record.cutoffAge \in RequiredAges
         /\ (DocInv /\ record.status = audit) => AgeShown(evidence.answer) # NaN
<1>1. ASSUME NEW result \in AgeResults, NEW cutoff \in RequiredAges, NEW status \in Statuses,
             AgeRow(result, cutoff, status)
      PROVE  /\ record.status = status /\ record.method = "age_liveness"
             /\ record.estimatedAge \in Int /\ record.cutoffAge \in RequiredAges
  BY <1>1, DecisionAssumption DEF AgeRow, AgeResults, buildAgeRecord, EffectiveCfg
<1>2. "documento_requerido" \in Statuses
  BY DEF Statuses
<1>3. CASE AgeInv
  <2>1. evidence.answer \in AgeResults /\ evidence.cutoff \in RequiredAges /\ audit \in Statuses
    BY <1>3, VerdictForms DEF AgeInv
  <2>2. AgeRow(evidence.answer, evidence.cutoff, audit)
    BY <1>3 DEF AgeInv, Decided
  <2>3. ~ DocInv
    BY <1>3 DEF AgeInv, DocInv
  <2> QED BY <1>1, <2>1, <2>2, <2>3
<1>4. CASE DocInv
  <2>1. evidence.answer \in DocResults /\ evidence.cutoff \in RequiredAges
    BY <1>4 DEF DocInv
  <2>2. audit \in {"aprovado", "reprovado"}
    BY <1>4, VerdictForms
  <2>3. CASE AgeShown(evidence.answer) = NaN
    <3>1. PICK result \in AgeResults, cutoff \in RequiredAges :
            AgeRow(result, cutoff, "documento_requerido")
      BY <1>4, <2>3 DEF DocInv
    <3> QED BY <1>1, <1>2, <2>2, <3>1
  <2>4. CASE AgeShown(evidence.answer) # NaN
    <3>1. AgeShown(evidence.answer) \in Int \union {Unknown}
      BY <2>1, <2>4, AgeOfDocument
    <3>2. record = buildDocumentRecord(AgeShown(evidence.answer), evidence.cutoff, audit)
      BY <1>4, <2>4 DEF DocInv
    <3> QED BY <2>1, <2>2, <2>4, <3>1, <3>2 DEF buildDocumentRecord, Statuses
  <2> QED BY <2>3, <2>4
<1> QED BY <1>3, <1>4 DEF IInv, NewInv, Decided

\* The types of the evidence of an age phase.
LEMMA AgeEvidence ==
  ASSUME AgeInv
  PROVE  /\ evidence.method = "age_liveness" /\ evidence.cutoff \in Int
         /\ evidence.answer.estimatedAge \in Int \union {NaN}
         /\ evidence.answer.livenessScore \in Scores
<1>1. evidence.cutoff \in RequiredAges /\ evidence.answer \in AgeResults
  BY DEF AgeInv
<1>2. RequiredAges \subseteq 1..120 /\ Estimates \subseteq Int \union {NaN}
  BY DecisionAssumption
<1>3. evidence.cutoff \in 1..120
  BY <1>1, <1>2
<1>4. evidence.cutoff \in Int
  BY <1>3
<1>5. evidence.answer.estimatedAge \in Estimates /\ evidence.answer.livenessScore \in Scores
  BY <1>1 DEF AgeResults
<1>6. evidence.answer.estimatedAge \in Int \union {NaN}
  BY <1>2, <1>5
<1>7. evidence.method = "age_liveness"
  BY DEF AgeInv
<1> QED BY <1>4, <1>5, <1>6, <1>7

LEMMA Thresholds == Margin \in Nat /\ LivenessThreshold \in Int /\ MinFaceMatch \in Int
  BY DecisionAssumption

\* The types of the evidence of a document phase.
LEMMA DocEvidence ==
  ASSUME DocInv
  PROVE  /\ evidence.method = "document" /\ evidence.cutoff \in 1..120
         /\ evidence.answer \in DocResults
<1>1. /\ evidence.cutoff \in RequiredAges /\ evidence.answer \in DocResults
      /\ evidence.method = "document"
  BY DEF DocInv
<1>2. RequiredAges \subseteq 1..120
  BY DecisionAssumption
<1> QED BY <1>1, <1>2

\* An approval in the audit log is justified, unless the document had a birth
\* date that could not be parsed.
LEMMA ApprovalForms ==
  ASSUME IInv, audit = "aprovado",
         DocInv => AgeShown(evidence.answer) # NaN
  PROVE  Justified
<1>1. CASE AgeInv
  <2>1. /\ evidence.method = "age_liveness" /\ evidence.cutoff \in Int
        /\ evidence.answer.estimatedAge \in Int \union {NaN}
    BY <1>1, AgeEvidence
  <2>2. /\ ~ Below(evidence.answer.livenessScore, LivenessThreshold)
        /\ AtLeast(evidence.answer.estimatedAge, evidence.cutoff + Margin)
    BY <1>1 DEF AgeInv, Estimation, decideVerification, EffectiveCfg
  <2>3. /\ evidence.answer.estimatedAge \in Int
        /\ evidence.answer.estimatedAge >= evidence.cutoff + Margin
    BY <2>1, <2>2 DEF AtLeast
  <2> QED BY <2>1, <2>2, <2>3 DEF Justified, ScorePasses, TrueAge, Score, Threshold, Document
<1>2. CASE DocInv
  <2> DEFINE out == evidence.answer
             shown == AgeShown(out)
  <2>1. evidence.method = "document" /\ evidence.cutoff \in 1..120 /\ out \in DocResults
    BY <1>2, DocEvidence
  <2>2. /\ ~ Below(out.faceMatchScore, MinFaceMatch)
        /\ shown # Unknown /\ ~ Below(shown, evidence.cutoff)
    BY <1>2 DEF DocInv, Judgement, decideDocument
  <2> HIDE DEF shown
  <2>3. shown \in Int /\ shown # NaN
    BY <1>2, <2>1, <2>2, AgeOfDocument, DecisionAssumption DEF shown
  <2>4. evidence.cutoff # NaN
    BY <2>1, DecisionAssumption
  <2>5. shown >= evidence.cutoff
    BY <2>1, <2>2, <2>3, <2>4 DEF Below
  <2>6. out.birthDate \in BirthDates /\ Birthdays(out.birthDate, Today) = shown
    BY <2>1, <2>2, <2>3, <2>5, AgeOfDocument DEF shown, DocResults
  <2> QED BY <2>1, <2>2, <2>3, <2>5, <2>6
          DEF Justified, ScorePasses, TrueAge, Score, Threshold, Document
<1> QED BY <1>1, <1>2 DEF IInv, NewInv

\* A score that passes is at or above its threshold, or no number.
LEMMA PassingScore ==
  ASSUME IInv, evidence # Nothing, ScorePasses
  PROVE  AtLeast(Score, Threshold) \/ Score = NaN
<1>1. Threshold \in Int /\ NaN \notin Int
  BY DecisionAssumption DEF Threshold
<1>2. Score \in Int \union {NaN}
  <2>1. Scores \subseteq Int \union {NaN}
    BY DecisionAssumption
  <2>2. CASE AgeInv
    BY <2>1, <2>2, AgeEvidence DEF Score, Document
  <2>3. CASE DocInv
    BY <2>1, <2>3, DocEvidence DEF Score, Document, DocResults
  <2> QED BY <2>2, <2>3 DEF IInv, NewInv
<1> HIDE DEF Score, Threshold
<1> QED BY <1>1, <1>2 DEF ScorePasses, Below, AtLeast

LEMMA RejectionForms ==
  ASSUME IInv
  PROVE  RejectionJustified
<1> SUFFICES ASSUME audit = "reprovado", ScorePasses,
                    Document => evidence.answer.identical, TrueAge \in Int
             PROVE  TrueAge < evidence.cutoff
  BY DEF RejectionJustified
<1>1. CASE AgeInv
  <2>1. /\ evidence.method = "age_liveness" /\ evidence.cutoff \in Int
        /\ evidence.answer.estimatedAge = TrueAge
        /\ ~ Below(evidence.answer.livenessScore, LivenessThreshold)
    BY <1>1, AgeEvidence DEF ScorePasses, TrueAge, Score, Threshold, Document
  <2>2. Below(evidence.answer.estimatedAge, evidence.cutoff - Margin)
    BY <1>1, <2>1 DEF AgeInv, Estimation, decideVerification, EffectiveCfg
  <2> QED BY <2>1, <2>2, Thresholds DEF Below
<1>2. CASE DocInv
  <2> DEFINE out == evidence.answer
             shown == AgeShown(out)
  <2>1. /\ evidence.method = "document" /\ evidence.cutoff \in 1..120
        /\ out \in DocResults /\ out.identical
        /\ ~ Below(out.faceMatchScore, MinFaceMatch)
    BY <1>2, DocEvidence DEF ScorePasses, Score, Threshold, Document
  <2>2. out.birthDate \in BirthDates /\ TrueAge = Birthdays(out.birthDate, Today)
    BY <2>1, DecisionAssumption DEF TrueAge, Document
  <2>3. shown = Unknown \/ Below(shown, evidence.cutoff)
    BY <1>2, <2>1 DEF DocInv, Judgement, decideDocument
  <2> HIDE DEF shown
  <2>4. shown \in Int /\ TrueAge = IF shown < 0 THEN 0 ELSE shown
    BY <2>1, <2>2, AgeOfDocument DEF shown
  <2>5. shown # Unknown
    BY <2>4, DecisionAssumption
  <2> QED BY <2>1, <2>3, <2>4, <2>5 DEF Below
<1> QED BY <1>1, <1>2 DEF IInv, NewInv

LEMMA OlderForms ==
  ASSUME IInv
  PROVE  OlderNeverWorse
<1> SUFFICES ASSUME evidence.method = "age_liveness", evidence.answer.estimatedAge # NaN,
                    NEW older \in Estimates \ {NaN}, older >= evidence.answer.estimatedAge
             PROVE  Rank(Estimation([evidence.answer EXCEPT !.estimatedAge = older],
                                    evidence.cutoff)) >= Rank(audit)
  BY DEF OlderNeverWorse, Estimation
<1> DEFINE result == evidence.answer
           cutoff == evidence.cutoff
           better == [result EXCEPT !.estimatedAge = older]
<1>1. AgeInv
  BY DEF IInv, NewInv, DocInv, Nothing
<1>2. /\ cutoff \in Int /\ older \in Int /\ result.estimatedAge \in Int
      /\ older # NaN /\ result.estimatedAge # NaN
      /\ better.estimatedAge = older /\ better.livenessScore = result.livenessScore
  BY <1>1, DecisionAssumption DEF AgeInv, AgeResults
<1>3. audit = Estimation(result, cutoff)
  BY <1>1 DEF AgeInv
<1> HIDE DEF result, cutoff, better
<1>4. Rank("reprovado") = 0 /\ Rank("documento_requerido") = 1 /\ Rank("aprovado") = 2
  BY DEF Rank
<1>5. CASE Below(result.livenessScore, LivenessThreshold)
  BY <1>2, <1>3, <1>4, <1>5 DEF Estimation, decideVerification, EffectiveCfg, better
<1>6. CASE ~ Below(result.livenessScore, LivenessThreshold)
  <2>1. \A r : ~ Below(r.livenessScore, LivenessThreshold) =>
          Estimation(r, cutoff) = IF AtLeast(r.estimatedAge, cutoff + Margin) THEN "aprovado"
                                  ELSE IF Below(r.estimatedAge, cutoff - Margin) THEN "reprovado"
                                  ELSE "documento_requerido"
    BY DEF Estimation, decideVerification, EffectiveCfg
  <2>2. /\ audit = IF result.estimatedAge >= cutoff + Margin THEN "aprovado"
                   ELSE IF result.estimatedAge < cutoff - Margin THEN "reprovado"
                   ELSE "documento_requerido"
        /\ Estimation(better, cutoff) = IF older >= cutoff + Margin THEN "aprovado"
                                        ELSE IF older < cutoff - Margin THEN "reprovado"
                                        ELSE "documento_requerido"
    BY <1>2, <1>3, <1>6, <2>1, DecisionAssumption DEF Below, AtLeast
  <2>3. older >= result.estimatedAge
    BY DEF result
  <2>4. Rank(Estimation(better, cutoff)) >= Rank(audit)
    BY <1>2, <1>4, <2>2, <2>3, DecisionAssumption
  <2> QED BY <2>4 DEF better, result, cutoff
<1> QED BY <1>5, <1>6

-----------------------------------------------------------------------------
\* Audit, record and evidence are well-formed; the integer column of the record
\* never holds a NaN (verification-record.entity.ts).
THEOREM TypeCorrect == Spec => []TypeOK
<1>1. IInv => TypeOK
  <2> SUFFICES ASSUME IInv PROVE TypeOK
    OBVIOUS
  <2>1. evidence # Nothing =>
          /\ evidence.cutoff \in RequiredAges
          /\ evidence.answer \in (IF Document THEN DocResults ELSE AgeResults)
    BY DEF IInv, NewInv, AgeInv, DocInv, Document
  <2> QED BY <2>1, VerdictForms, RowForms DEF TypeOK, IInv
<1> QED BY <1>1, Invariance, PTL

\* An approval on file has an age that is known and reaches the cut-off, and no
\* score below its threshold, whatever the provider answers, NaN included
\* (decision.ts:3-8, document-decision.ts:17-21).
THEOREM ApprovalsJustified == Spec => []ApprovalJustified
<1>1. IInv => ApprovalJustified
  BY RowForms, ApprovalForms DEF ApprovalJustified
<1> QED BY <1>1, Invariance, PTL

\* What an approval in the audit log may lack: its age is known and reaches the
\* cut-off unless a birth date could not be parsed (document-decision.ts:19), and
\* its score is at or above the threshold unless the provider's answer gave NaN
\* (caf-mappers.ts:22,33).
THEOREM OnlyNaN ==
  Spec => [](audit = "aprovado" =>
               /\ Justified \/ (Document /\ evidence.answer.birthDate \in BadDates)
               /\ AtLeast(Score, Threshold) \/ Score = NaN)
<1>1. ASSUME IInv, audit = "aprovado", ~ Justified
      PROVE  Document /\ evidence.answer.birthDate \in BadDates
  <2>1. DocInv /\ AgeShown(evidence.answer) = NaN
    BY <1>1, ApprovalForms
  <2>2. evidence.answer \in DocResults
    BY <2>1, DocEvidence
  <2>3. evidence.answer.birthDate \notin BirthDates /\ evidence.answer.birthDate # Unknown
    BY <2>1, <2>2, AgeOfDocument, DecisionAssumption
  <2> QED BY <2>1, <2>2, <2>3 DEF DocInv, DocResults, Document
<1>2. ASSUME IInv, audit = "aprovado" PROVE ScorePasses /\ evidence # Nothing
  <2>1. CASE AgeInv
    BY <1>2, <2>1, AgeEvidence
    DEF AgeInv, Estimation, decideVerification, EffectiveCfg, ScorePasses, Score, Threshold,
        Document, Nothing
  <2>2. CASE DocInv
    BY <1>2, <2>2, DocEvidence
    DEF DocInv, Judgement, decideDocument, ScorePasses, Score, Threshold, Document, Nothing
  <2> QED BY <1>2, <2>1, <2>2 DEF IInv, NewInv
<1>3. IInv => (audit = "aprovado" =>
                 /\ Justified \/ (Document /\ evidence.answer.birthDate \in BadDates)
                 /\ AtLeast(Score, Threshold) \/ Score = NaN)
  BY <1>1, <1>2, PassingScore
<1> QED BY <1>3, Invariance, PTL

\* Nobody whose age is known and reaches the cut-off, with a score that passes,
\* is turned away, whatever the provider answers (decision.ts:3-8,
\* document-decision.ts:17-21).
THEOREM RejectionsJustified == Spec => []RejectionJustified
<1>1. IInv => RejectionJustified  BY RejectionForms
<1> QED BY <1>1, Invariance, PTL

\* A higher estimate with the same liveness never gets a worse status
\* (decision.ts:3-8).
THEOREM Monotone == Spec => []OlderNeverWorse
<1>1. IInv => OlderNeverWorse  BY OlderForms
<1> QED BY <1>1, Invariance, PTL
=============================================================================
