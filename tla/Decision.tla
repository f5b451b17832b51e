------------------------------ MODULE Decision ------------------------------
(***************************************************************************)
(* The verdict of one verification, from the age estimate to the document. *)
(*                                                                         *)
(* decideVerification maps a face estimate to a status; an estimate inside *)
(* the margin around the cut-off asks for a document, and decideDocument   *)
(* then gives the final status from the birth date printed on it.  The     *)
(* cut-off is a column of the tenant that may be changed between the two   *)
(* phases.  What is stored is the status in the audit log, then the        *)
(* verification record; the document phase overwrites both.                *)
(*                                                                         *)
(* Ages are integers and scores are percentages.  JavaScript's NaN is a    *)
(* value of its own: every comparison with it is false.  Unknown stands    *)
(* for null and undefined.                                                 *)
(***************************************************************************)
EXTENDS Integers, FiniteSets

CONSTANTS
  NaN,              \* the JavaScript not-a-number value
  Unknown,          \* null or undefined
  Estimates,        \* ages the face provider may return (NaN included)
  Scores,           \* liveness and face-match scores, in percent (NaN included)
  BirthDates,       \* birth dates a document may carry, <<year, month, day>>
  BadDates,         \* strings that new Date() cannot parse
  Today,            \* the date of the run, <<year, month, day>>
  RequiredAges,     \* cut-offs tenants choose, within 1..120
  Margin,           \* DECISION_MARGIN
  LivenessThreshold,\* LIVENESS_THRESHOLD
  MinFaceMatch      \* DOC_FACEMATCH_MIN

ASSUME DecisionAssumption ==
  /\ NaN \notin Int /\ Unknown \notin Int /\ NaN # Unknown
  /\ Estimates \subseteq Int \union {NaN}
  /\ Scores \subseteq Int \union {NaN}
  /\ BirthDates \subseteq Int \X Int \X Int
  /\ Today \in Int \X Int \X Int
  /\ Unknown \notin BirthDates /\ BadDates \intersect BirthDates = {}
  /\ RequiredAges \subseteq 1..120
  /\ Margin \in Nat /\ LivenessThreshold \in Int /\ MinFaceMatch \in Int

(***************************************************************************)
(* JavaScript comparisons: false as soon as one side is NaN.               *)
(***************************************************************************)
Number == Int \union {NaN}
Below(a, b) == a # NaN /\ b # NaN /\ a < b
AtLeast(a, b) == a # NaN /\ b # NaN /\ a >= b

-----------------------------------------------------------------------------
(* The pure functions. *)

Statuses == {"aprovado", "reprovado", "documento_requerido"}

\* Mutants: no grey zone around the cut-off; a document asked of clear adults.
RejectsGreyZone(result, cfg) ==
  IF Below(result.livenessScore, cfg.livenessThreshold) THEN "reprovado"
  ELSE IF AtLeast(result.estimatedAge, cfg.cutoffAge + cfg.margin) THEN "aprovado"
  ELSE "reprovado"
DocumentForAdults(result, cfg) ==
  IF Below(result.livenessScore, cfg.livenessThreshold) THEN "reprovado"
  ELSE IF AtLeast(result.estimatedAge, cfg.cutoffAge + 2 * cfg.margin) THEN "documento_requerido"
  ELSE IF AtLeast(result.estimatedAge, cfg.cutoffAge + cfg.margin) THEN "aprovado"
  ELSE IF Below(result.estimatedAge, cfg.cutoffAge - cfg.margin) THEN "reprovado"
  ELSE "documento_requerido"

decideVerification(result, cfg) ==
  IF Below(result.livenessScore, cfg.livenessThreshold) THEN "reprovado"
  ELSE IF AtLeast(result.estimatedAge, cfg.cutoffAge + cfg.margin) THEN "aprovado"
  ELSE IF Below(result.estimatedAge, cfg.cutoffAge - cfg.margin) THEN "reprovado"
  ELSE "documento_requerido"

isOver18(status) == status = "aprovado"

\* Each limit is the exclusive upper bound of the band below it.
classifyAgeBand(age) ==
  IF age \notin Int THEN Unknown
  ELSE IF age < 12 THEN "crianca"
  ELSE IF age < 16 THEN "adolescente_jovem"
  ELSE IF age < 18 THEN "adolescente"
  ELSE "adulto"

\* Mutant: the day of the month is forgotten.
ageByMonth(dob, now) ==
  IF dob \in BadDates THEN NaN
  ELSE (now[1] - dob[1]) - (IF now[2] < dob[2] THEN 1 ELSE 0)

\* An unparsable string makes every getter of the Date, and so the age, NaN.
ageFromBirthDate(dob, now) ==
  IF dob \in BadDates THEN NaN
  ELSE LET monthDiff == now[2] - dob[2]
           notYet == monthDiff < 0 \/ (monthDiff = 0 /\ now[3] < dob[3])
       IN  (now[1] - dob[1]) - (IF notYet THEN 1 ELSE 0)

decideDocument(result, cutoffAge, minFaceMatch) ==
  IF \/ ~result.identical
     \/ Below(result.faceMatchScore, minFaceMatch)
     \/ result.ageFromDoc = Unknown
     \/ Below(result.ageFromDoc, cutoffAge)
  THEN "reprovado"
  ELSE "aprovado"

-----------------------------------------------------------------------------
VARIABLES
  requiredAge,   \* tenants.required_age
  evidence,      \* what the last phase judged and under which cut-off (history)
  audit,         \* the status in audit_logs
  record         \* the row of verification_records

vars == <<requiredAge, evidence, audit, record>>

Nothing == [method |-> "none"]

AgeResults == [estimatedAge: Estimates, livenessScore: Scores]
DocResults == [birthDate: BirthDates \union BadDates \union {Unknown},
               faceMatchScore: Scores, identical: BOOLEAN]

\* Mutant: the margin is folded into the cut-off that is stored.
MarginInCutoff(cutoff) ==
  [cutoffAge |-> cutoff + Margin, margin |-> Margin, livenessThreshold |-> LivenessThreshold]

\* The tenant's cut-off replaces the configured one (verify, effectiveCfg).
EffectiveCfg(cutoff) ==
  [cutoffAge |-> cutoff, margin |-> Margin, livenessThreshold |-> LivenessThreshold]

buildAgeRecord(result, cfg, status) ==
  [method |-> "age_liveness", status |-> status, isOver18 |-> isOver18(status),
   estimatedAge |-> result.estimatedAge, livenessScore |-> result.livenessScore,
   cutoffAge |-> cfg.cutoffAge, margin |-> cfg.margin,
   ageBand |-> classifyAgeBand(result.estimatedAge)]

buildDocumentRecord(age, cutoff, status) ==
  [method |-> "document", status |-> status, isOver18 |-> isOver18(status),
   estimatedAge |-> age, livenessScore |-> Unknown, cutoffAge |-> cutoff, margin |-> 0,
   ageBand |-> classifyAgeBand(age)]

\* estimated_age is an int column: a row with NaN is refused and the job fails,
\* after the audit has been written.
saveWith(row) == record' = IF row.estimatedAge = NaN THEN record ELSE row

Init ==
  /\ requiredAge \in RequiredAges
  /\ evidence = Nothing
  /\ audit = "none"
  /\ record = Nothing

\* PUT /tenants/me/settings, at any time.
setRequiredAge(age) ==
  /\ requiredAge' = age
  /\ UNCHANGED <<evidence, audit, record>>

\* The age phase: one provider answer, decided under the cut-off in force.
VerifyAge(result) ==
  /\ evidence = Nothing
  /\ LET cfg == EffectiveCfg(requiredAge)
         status == decideVerification(result, cfg)
     IN  audit' = status /\ saveWith(buildAgeRecord(result, cfg, status))
  /\ evidence' = [method |-> "age_liveness", cutoff |-> requiredAge, answer |-> result]
  /\ UNCHANGED requiredAge

\* The document phase of a verification in the grey zone, under the cut-off in
\* force now.
VerifyDocument(out) ==
  /\ evidence.method = "age_liveness"
  /\ record # Nothing /\ record.status = "documento_requerido"
  /\ LET age == IF out.birthDate = Unknown THEN Unknown
                ELSE ageFromBirthDate(out.birthDate, Today)
         judged == [ageFromDoc |-> age, faceMatchScore |-> out.faceMatchScore,
                    identical |-> out.identical]
         status == decideDocument(judged, requiredAge, MinFaceMatch)
     IN  audit' = status /\ saveWith(buildDocumentRecord(age, requiredAge, status))
  /\ evidence' = [method |-> "document", cutoff |-> requiredAge, answer |-> out]
  /\ UNCHANGED requiredAge

Next ==
  \/ \E age \in RequiredAges : setRequiredAge(age)
  \/ \E result \in AgeResults : VerifyAge(result)
  \/ \E out \in DocResults : VerifyDocument(out)

Spec == Init /\ [][Next]_vars

=============================================================================
