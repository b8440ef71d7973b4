------------------------- MODULE ConfigChangeProofs -------------------------
(***************************************************************************)
(* Proofs about module ConfigChange: an emergency message gives the        *)
(* operator the text that was sent, and next to one another the validator  *)
(* and the Git synchronisation do what they do alone.                      *)
(***************************************************************************)
EXTENDS ConfigChange, ValidatorProofs, GitSyncProofs

(* The inductive invariant. *)
IInv ==
    /\ TypeOK
    /\ ValidatorIInv
    /\ GitIInv
    /\ ReceivedIsSent
-----------------------------------------------------------------------------
(* A step of the whole is a step of each of its parts, or none. *)
LEMMA StepOfParts == [Next]_vars => [ValidatorNext]_validatorVars /\ [GitNext]_gitVars
<1> SUFFICES ASSUME [Next]_vars PROVE [ValidatorNext]_validatorVars /\ [GitNext]_gitVars
  OBVIOUS
<1>1. ASSUME NEW c \in Changes, Submit(c)
      PROVE  [ValidatorNext]_validatorVars /\ [GitNext]_gitVars
  BY <1>1, DraftsAssumption DEF Submit, ValidatorNext
<1>2. ASSUME NEW c \in Changes, Sync(c)
      PROVE  [ValidatorNext]_validatorVars /\ [GitNext]_gitVars
  BY <1>2 DEF Sync, GitNext
<1>3. ASSUME NEW c \in Changes, Push(c)
      PROVE  [ValidatorNext]_validatorVars /\ [GitNext]_gitVars
  BY <1>3 DEF Push
<1>4. CASE Validating
  BY <1>4 DEF Validating, ValidatorNext
<1>5. CASE Decide
  BY <1>5 DEF Decide, ValidatorNext
<1>6. CASE Syncing
  BY <1>6 DEF Syncing, GitNext
<1>7. CASE UNCHANGED vars
  BY <1>7 DEF vars
<1> QED
  BY <1>1, <1>2, <1>3, <1>4, <1>5, <1>6, <1>7 DEF Next

LEMMA InitIInv == Init => IInv
<1> SUFFICES ASSUME Init PROVE IInv
  OBVIOUS
<1>1. ValidatorIInv /\ GitIInv
  BY ValidatorInitIInv, GitInitIInv DEF Init
<1>2. <<>> \in Seq(Documents) /\ <<>> \in Seq(Documents \cup {Reason})
  OBVIOUS
<1>3. TypeOK
  BY <1>1, <1>2 DEF Init, TypeOK, ValidatorIInv, GitIInv, ValidatorInit
<1>4. ReceivedIsSent
  BY DEF Init, ReceivedIsSent
<1> QED
  BY <1>1, <1>3, <1>4 DEF IInv

(* What the message of a text is taken apart into: with a reason before it, all of
   the text; without one, what comes after its first document, if anything does. *)
LEMMA ConfigurationOfMessage ==
    ASSUME NEW text \in Seq(Documents), text # <<>>, NEW reason \in {<<>>, <<Reason>>}
    PROVE  /\ reason \o text \in Seq(Documents \cup {Reason})
           /\ reason \o text # <<>>
           /\ ConfigurationOf(reason \o text) \in Seq(Documents)
           /\ ConfigurationOf(reason \o text) =
                 IF reason \o text = text /\ Len(text) > 1 THEN Tail(text) ELSE text
<1> DEFINE S == Documents \cup {Reason}
<1>1. Len(text) \in Nat \ {0} /\ text \in Seq(S) /\ reason \in Seq(S)
  <2>1. Len(text) \in Nat \ {0} /\ text \in [1..Len(text) -> Documents]
    OBVIOUS
  <2>2. text \in Seq(S)
    BY <2>1
  <2>3. CASE reason = <<>>
    BY <2>1, <2>2, <2>3
  <2>4. CASE reason = <<Reason>>
    BY <2>1, <2>2, <2>4
  <2> QED
    BY <2>3, <2>4
<1>2. Len(text) > 1 => Tail(text) \in Seq(Documents)
  BY <1>1
<1>3. CASE reason = <<Reason>>
  <2> DEFINE m == <<Reason>> \o text
  <2>1. /\ m \in Seq(S) /\ Len(m) = Len(text) + 1
        /\ \A i \in 1..Len(text) : m[i + 1] = text[i]
    BY <1>1, <1>3
  <2>2. /\ Tail(m) \in Seq(S) /\ Len(Tail(m)) = Len(text)
        /\ \A i \in 1..Len(text) : Tail(m)[i] = m[i + 1]
    BY <1>1, <2>1
  <2>3. Tail(m) = text
    BY <1>1, <2>1, <2>2
  <2>4. m # text /\ m # <<>> /\ Len(m) > 1
    BY <1>1, <2>1
  <2>5. ConfigurationOf(m) = text
    BY <2>3, <2>4 DEF ConfigurationOf
  <2> QED
    BY <1>3, <2>1, <2>4, <2>5
<1>4. CASE reason = <<>>
  <2>1. reason \o text = text
    BY <1>4
  <2> QED
    BY <1>1, <1>2, <2>1 DEF ConfigurationOf
<1> QED
  BY <1>3, <1>4

(* The parts keep their invariants, whatever step the whole takes. *)
LEMMA PartsIInv ==
    ASSUME IInv, [Next]_vars
    PROVE  ValidatorIInv' /\ GitIInv' /\ ValidatorTypeOK' /\ GitTypeOK'
<1>1. ValidatorIInv' /\ GitIInv'
  BY StepOfParts, ValidatorNextIInv, GitNextIInv DEF IInv
<1> QED
  BY <1>1 DEF ValidatorIInv, GitIInv

(* A step that is not about messages keeps the invariant, if a document is with
   the validator exactly while a change is. *)
LEMMA SameMessages ==
    ASSUME IInv, [Next]_vars, UNCHANGED messageVars,
           checked' \subseteq Changes,
           current' \in checked' \cup {NoContent},
           current' = NoContent <=> phase' = "idle"
    PROVE  IInv'
<1>1. ValidatorIInv' /\ GitIInv' /\ ValidatorTypeOK' /\ GitTypeOK'
  BY PartsIInv
<1>2. TypeOK' /\ ReceivedIsSent'
  BY <1>1 DEF IInv, TypeOK, ReceivedIsSent, messageVars
<1> QED
  BY <1>1, <1>2 DEF IInv

LEMMA SubmitIInv ==
    ASSUME IInv, NEW c \in Changes, Submit(c)
    PROVE  IInv'
<1>1. [Next]_vars
  BY DEF Next
<1>2. /\ current' = c /\ checked' = checked \cup {c} /\ phase' = "parse"
      /\ UNCHANGED messageVars
  BY DEF Submit, Validate
<1>3. current' # NoContent /\ checked' \subseteq Changes
  BY <1>2, NamesAssumption DEF IInv, TypeOK
<1> QED
  BY <1>1, <1>2, <1>3, SameMessages

LEMMA ValidatingIInv ==
    ASSUME IInv, Validating
    PROVE  IInv'
<1>1. [Next]_vars
  BY DEF Next
<1>2. UNCHANGED <<current, checked, messageVars>> /\ phase # "idle" /\ phase' # "idle"
  BY DEF Validating, ValidatorStep, Parse, EnterPipelines, CheckStage, CheckItem, EnterComponents,
         CheckComponents, CheckSection, EnterPipeline, changeVars
<1>3. /\ checked' \subseteq Changes
      /\ current' \in checked' \cup {NoContent}
      /\ current' = NoContent <=> phase' = "idle"
  BY <1>2 DEF IInv, TypeOK
<1> QED
  BY <1>1, <1>2, <1>3, SameMessages

LEMMA DecideIInv ==
    ASSUME IInv, Decide
    PROVE  IInv'
<1>1. [Next]_vars
  BY DEF Next
<1>2. phase' = "idle" /\ current' = NoContent /\ UNCHANGED <<checked, messageVars>>
  BY DEF Decide, Forget
<1>3. checked' \subseteq Changes
  BY <1>2 DEF IInv, TypeOK
<1> QED
  BY <1>1, <1>2, <1>3, SameMessages

(* The steps of the Git synchronisation, and none at all. *)
LEMMA ElsewhereIInv ==
    ASSUME IInv, [Next]_vars, UNCHANGED <<validatorVars, changeVars>>
    PROVE  IInv'
<1>1. UNCHANGED <<phase, current, checked, messageVars>>
  BY DEF validatorVars, changeVars
<1>2. /\ checked' \subseteq Changes
      /\ current' \in checked' \cup {NoContent}
      /\ current' = NoContent <=> phase' = "idle"
  BY <1>1 DEF IInv, TypeOK
<1> QED
  BY <1>1, <1>2, SameMessages

LEMMA PushIInv ==
    ASSUME IInv, NEW c \in Changes, Push(c)
    PROVE  IInv'
<1>1. ValidatorIInv' /\ GitIInv' /\ ValidatorTypeOK' /\ GitTypeOK'
  <2>1. [Next]_vars
    BY DEF Next
  <2> QED
    BY <2>1, PartsIInv
<1>2. c \in Emergencies /\ UNCHANGED <<phase, current, checked>>
  BY DEF Push, validatorVars
<1>3. PICK t \in Texts[c], reason \in {<<>>, <<Reason>>} :
          /\ texts' = [texts EXCEPT ![c] = t]
          /\ message' = [message EXCEPT ![c] = reason \o t]
          /\ received' = [received EXCEPT ![c] = ConfigurationOf(reason \o t)]
  BY DEF Push
<1>4. t \in Seq(Documents) /\ t # <<>>
  BY <1>2, TextsAssumption
<1>5. /\ reason \o t \in Seq(Documents \cup {Reason})
      /\ ConfigurationOf(reason \o t) \in Seq(Documents)
      /\ ConfigurationOf(reason \o t) =
            IF reason \o t = t /\ Len(t) > 1 THEN Tail(t) ELSE t
  BY <1>4, ConfigurationOfMessage
<1>6. /\ texts'[c] = t /\ message'[c] = reason \o t
      /\ received'[c] = ConfigurationOf(reason \o t)
      /\ \A d \in Emergencies \ {c} :
            texts'[d] = texts[d] /\ message'[d] = message[d] /\ received'[d] = received[d]
  BY <1>2, <1>3 DEF IInv, TypeOK
<1>7. /\ texts' \in [Emergencies -> Seq(Documents)]
      /\ message' \in [Emergencies -> Seq(Documents \cup {Reason})]
      /\ received' \in [Emergencies -> Seq(Documents)]
  BY <1>3, <1>4, <1>5 DEF IInv, TypeOK
<1>8. TypeOK'
  BY <1>1, <1>2, <1>7 DEF IInv, TypeOK
<1>9. ReceivedIsSent'
  BY <1>5, <1>6 DEF IInv, ReceivedIsSent
<1> QED
  BY <1>1, <1>8, <1>9 DEF IInv

LEMMA NextIInv == IInv /\ [Next]_vars => IInv'
<1> SUFFICES ASSUME IInv, [Next]_vars PROVE IInv'
  OBVIOUS
<1>1. ASSUME NEW c \in Changes, Submit(c) \/ Sync(c) \/ Push(c)
      PROVE  IInv'
  BY <1>1, SubmitIInv, PushIInv, ElsewhereIInv DEF Sync
<1>2. CASE Validating \/ Decide
  BY <1>2, ValidatingIInv, DecideIInv
<1>3. CASE Syncing
  BY <1>3, ElsewhereIInv DEF Syncing
<1>4. CASE UNCHANGED vars
  BY <1>4, ElsewhereIInv DEF vars
<1> QED
  BY <1>1, <1>2, <1>3, <1>4 DEF Next
-----------------------------------------------------------------------------
LEMMA Invariant == Spec => []IInv
  BY InitIInv, NextIInv, PTL DEF Spec

LEMMA PartsAlone == Spec => ValidatorSpec /\ GitSpec
<1>1. Init => ValidatorInit /\ GitInit
  BY DEF Init
<1> QED
  BY <1>1, StepOfParts, PTL DEF Spec, ValidatorSpec, GitSpec

(* Type correctness; the validator has a document exactly while a change is being
   validated. *)
THEOREM TypeCorrect == Spec => []TypeOK
<1>1. IInv => TypeOK
  BY DEF IInv
<1> QED
  BY <1>1, Invariant, PTL

(* OnEmergencyCmd is given all of the text that was sent, for any number of
   documents, if there is a reason before it or it has one document; otherwise it
   loses exactly the first. *)
THEOREM CommandsArriveWhole == Spec => []ReceivedIsSent
<1>1. IInv => ReceivedIsSent
  BY DEF IInv
<1> QED
  BY <1>1, Invariant, PTL

(* The results of the parts, for the composition that the run checks. *)
THEOREM PartsAreCorrect ==
    Spec => [](ResultIsExact /\ ProposalShowsItsChange /\ BaseIsReviewed /\ OrphansAreReported)
  BY PartsAlone, ValidatorIsExact, ProposalsShow, ReviewedBase, OrphansReported, PTL
=============================================================================
