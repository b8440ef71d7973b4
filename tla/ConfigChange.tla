---------------------------- MODULE ConfigChange ----------------------------
(***************************************************************************)
(* The calls of a configuration change, several changes at a time:         *)
(*                                                                         *)
(*   validator.Validate                                                    *)
(*   git.ProposeChange or, in an emergency, EmergencySync.Apply            *)
(*   an emergency message, that opamp.Client.onMessage takes apart         *)
(*                                                                         *)
(* The server that makes these calls is not part of the repository.        *)
(* README.md and the head of otel.go promise "pre-flight OTel config       *)
(* validation before Git commit", but neither ProposeChange nor Apply nor  *)
(* the operator calls Validate: whatever it says of a text, here a change  *)
(* is proposed and any text sent.  The calls share no state; to bound the  *)
(* model each change is validated once, one at a time, and before its      *)
(* other calls.                                                            *)
(*                                                                         *)
(* A text is a sequence of YAML documents joined by a line of dashes.      *)
(* yaml.Unmarshal reads the first, its draft here; the message of an       *)
(* emergency uses the same line between the reason and the text.           *)
(***************************************************************************)
EXTENDS Validator, GitSync

CONSTANTS
    Drafts,     \* Drafts[c]: the first documents that are validated for change c
    Texts,      \* Texts[c]: the texts that may be sent for emergency c
    Reason      \* the reason at the head of an emergency message

ASSUME DraftsAssumption == \A c \in Changes : Drafts[c] \subseteq Documents

ASSUME TextsAssumption ==
    \A c \in Emergencies : \A t \in Texts[c] : t \in Seq(Documents) /\ t # <<>>
-----------------------------------------------------------------------------
VARIABLES
    current,    \* the change that is being validated, or NoContent
    checked,    \* the changes whose text the validator was given
    texts,      \* texts[c]: the text sent for emergency c, or <<>>
    message,    \* message[c]: the message it was sent in, or <<>>
    received    \* received[c]: what OnEmergencyCmd was given, or <<>>

messageVars == <<texts, message, received>>
changeVars == <<current, checked, messageVars>>
vars == <<validatorVars, gitVars, changeVars>>

(* The types of the variables; a change is being validated exactly when the
   validator has a document. *)
TypeOK ==
    /\ ValidatorTypeOK
    /\ GitTypeOK
    /\ checked \subseteq Changes
    /\ current \in checked \cup {NoContent}
    /\ current = NoContent <=> phase = "idle"
    /\ texts \in [Emergencies -> Seq(Documents)]
    /\ message \in [Emergencies -> Seq(Documents \cup {Reason})]
    /\ received \in [Emergencies -> Seq(Documents)]

Init ==
    /\ ValidatorInit
    /\ GitInit
    /\ current = NoContent
    /\ checked = {}
    /\ texts = [c \in Emergencies |-> <<>>]
    /\ message = [c \in Emergencies |-> <<>>]
    /\ received = [c \in Emergencies |-> <<>>]
-----------------------------------------------------------------------------
(* The text of a change is handed to the validator. *)
Submit(c) ==
    /\ c \notin checked
    /\ current = NoContent
    /\ current' = c
    /\ checked' = checked \cup {c}
    /\ \E d \in Drafts[c] : Validate(d)
    /\ UNCHANGED <<gitVars, messageVars>>

Validating ==
    /\ ValidatorStep
    /\ UNCHANGED <<gitVars, changeVars>>

(* The caller has the result of Validate. *)
Decide ==
    /\ Forget
    /\ current' = NoContent
    /\ UNCHANGED <<gitVars, checked, messageVars>>

(* The server calls ProposeChange or Apply. *)
Sync(c) ==
    /\ c \in checked \ {current}
    /\ Propose(c) \/ Apply(c)
    /\ UNCHANGED <<validatorVars, changeVars>>

Syncing ==
    /\ GitStep
    /\ UNCHANGED <<validatorVars, changeVars>>

(* Mutant of ConfigurationOf: the message is split at every line of dashes. *)
SecondPart(parts) == IF Len(parts) > 1 THEN <<parts[2]>> ELSE parts

(* onMessage splits a message at the first line of dashes; without one all of it
   is the configuration. *)
ConfigurationOf(parts) == IF Len(parts) > 1 THEN Tail(parts) ELSE parts

(* The server sends an emergency command, with a reason or without. *)
Push(c) ==
    /\ c \in Emergencies
    /\ c \in checked \ {current}
    /\ texts[c] = <<>>
    /\ \E t \in Texts[c], reason \in {<<>>, <<Reason>>} :
          /\ texts' = [texts EXCEPT ![c] = t]
          /\ message' = [message EXCEPT ![c] = reason \o t]
          /\ received' = [received EXCEPT ![c] = ConfigurationOf(reason \o t)]
    /\ UNCHANGED <<validatorVars, gitVars, current, checked>>

Next ==
    \/ \E c \in Changes : Submit(c) \/ Sync(c) \/ Push(c)
    \/ Validating
    \/ Decide
    \/ Syncing

Spec == Init /\ [][Next]_vars
-----------------------------------------------------------------------------
(* OnEmergencyCmd is given the text that was sent, all of its documents;
   only of a text of several documents that is sent without a reason does onMessage
   take the first for the reason. *)
ReceivedIsSent ==
    \A c \in Emergencies :
        message[c] # <<>> =>
            received[c] = IF message[c] = texts[c] /\ Len(texts[c]) > 1
                          THEN Tail(texts[c])
                          ELSE texts[c]
=============================================================================
