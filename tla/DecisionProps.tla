---------------------------- MODULE DecisionProps ---------------------------
(***************************************************************************)
(* What a verdict promises, stated against an independent reading of ages. *)
(***************************************************************************)
EXTENDS Decision

Decided == record # Nothing
Document == evidence.method = "document"
Score == IF Document THEN evidence.answer.faceMatchScore ELSE evidence.answer.livenessScore
Threshold == IF Document THEN MinFaceMatch ELSE LivenessThreshold

\* Reference age: how many birthdays fall in (birth, today].  Dates are
\* compared as year, month, day; a leap-day birthday is celebrated on the
\* first later date when the year has no 29 February.
OnOrBefore(a, b) ==
  \/ a[1] < b[1]
  \/ a[1] = b[1] /\ a[2] < b[2]
  \/ a[1] = b[1] /\ a[2] = b[2] /\ a[3] <= b[3]
Birthdays(dob, now) ==
  Cardinality({y \in (dob[1] + 1)..now[1] : OnOrBefore(<<y, dob[2], dob[3]>>, now)})

\* The age that was presented: for a document, the number of birthdays its
\* holder has had.
TrueAge ==
  CASE ~Document -> evidence.answer.estimatedAge
    [] Document /\ evidence.answer.birthDate \in BirthDates ->
         Birthdays(evidence.answer.birthDate, Today)
    [] OTHER -> Unknown

\* Type invariant: the row is absent or a well-formed record.
TypeOK ==
  /\ requiredAge \in RequiredAges
  /\ audit \in Statuses \union {"none"}
  /\ evidence # Nothing =>
       /\ evidence.cutoff \in RequiredAges
       /\ evidence.answer \in (IF Document THEN DocResults ELSE AgeResults)
  /\ Decided =>
       /\ record.status \in Statuses
       /\ record.method \in {"age_liveness", "document"}
       /\ record.estimatedAge \in Int \union {Unknown}
       /\ record.cutoffAge \in RequiredAges

\* The biometric score passes.  A score of NaN, which the mappers of CAF answers
\* can produce (caf-mappers.ts:22,33), is below no threshold.
ScorePasses == ~ Below(Score, Threshold)

\* An age that is known and reaches the cut-off in force (by the margin, for an
\* estimate), and a score that is not below its threshold.
Justified ==
  /\ TrueAge \in Int
  /\ TrueAge >= evidence.cutoff + (IF Document THEN 0 ELSE Margin)
  /\ ScorePasses

\* A recorded approval, which is what the tenant is told, is justified
\* (decision.ts:3-8, document-decision.ts:17-21): the person is of age, whatever
\* the date and however the cut-off was changed, and no score was below its
\* threshold.  It does not say that there was a score: the code approves and
\* records a score of NaN.  The document half compares the month and day
\* arithmetic with the count of birthdays.
ApprovalJustified == (Decided /\ record.status = "aprovado") => Justified

\* "reprova when the document age is unknown" (document-decision.spec.ts:20):
\* the audit log, which is written first, holds no other approval either.
AuditJustified == audit = "aprovado" => Justified

\* Nobody of age who passed the biometric check is turned away by the face
\* estimate alone, and a readable document settles the matter: a rejection with
\* a score that passes means the age is below the cut-off or unknown.
RejectionJustified ==
  (audit = "reprovado" /\ ScorePasses /\ (Document => evidence.answer.identical)) =>
    TrueAge \notin Int \/ TrueAge < evidence.cutoff

\* For one cut-off, an older estimate with the same liveness never gets a worse
\* status: reprovado < documento_requerido < aprovado.
Rank(status) ==
  CASE status = "reprovado" -> 0
    [] status = "documento_requerido" -> 1
    [] status = "aprovado" -> 2
OlderNeverWorse ==
  (evidence.method = "age_liveness" /\ evidence.answer.estimatedAge # NaN) =>
    LET at(age) == Rank(decideVerification([evidence.answer EXCEPT !.estimatedAge = age],
                                           EffectiveCfg(evidence.cutoff)))
    IN  \A older \in Estimates \ {NaN} :
          older >= evidence.answer.estimatedAge => at(older) >= Rank(audit)

=============================================================================
