-------------------------------- MODULE Intake --------------------------------
(***************************************************************************)
(* A proposal on its way in: the visitor of the public page is shown the   *)
(* form as it stands (Form.GetPublic), fills it in and sends it;           *)
(* createSubmission looks at the version he names, at the caps             *)
(* (SubmissionCap), at the fields and rules of the version (Forms), finds  *)
(* or makes the persons named, claims the place, writes, and enqueues the  *)
(* confirmation (comms/lifecycle) if the event's settings want one.        *)
(* Meanwhile the form is edited and published anew, and the organisers     *)
(* send mailings and invites (Sending).                                    *)
(*                                                                         *)
(* A visitor answers every field he is shown, and a rule looks at its      *)
(* field's answer; different rules lead to different categories, no rules  *)
(* to none.  The page sends the category its rules give.                   *)
(***************************************************************************)
EXTENDS SubmissionCap, Forms, Sending

CONSTANTS SpeakersOf   \* whom each request names, its primary speaker among them

ASSUME SpeakersAssumption ==
  /\ SpeakersOf \in [Call -> SUBSET Email]
  /\ \A c \in Call : EmailOf[c] \in SpeakersOf[c]
ASSUME NobodyAssumption == None \notin Email

VARIABLES
  desk,       \* how far a visitor has got
  pin,        \* the version he names
  shown,      \* what the page has of it
  stored,     \* fields and category of the submission
  people,     \* addresses with a person, unique in the organisation
  cast,       \* speakers still to be found or made
  absent,     \* the one that was not found
  notify,     \* submissionConfirmationEnabled, as the request has read it
  template,   \* the event has a submission_confirmation template
  confirmed,  \* submissions with message job, recipients and outbox row
  \* history
  early,      \* requests that read a version its publisher has not finished
  troubled    \* requests whose confirmation met an error

castVars == <<people, cast, absent>>
mailVars == <<notify, template, confirmed, troubled>>
ownVars == <<desk, pin, shown, stored, early, castVars, mailVars>>
intakeVars == <<vars, formVars, sendVars, ownVars>>

IntakeInit ==
  /\ Init /\ FormInit /\ SendInit
  /\ Published = {} => \A x \in Unguarded : status[x] = None
  /\ desk      \in [Call -> {"visit", "never"}]
  /\ pin       = [c \in Call |-> None]
  /\ shown     = [c \in Call |-> Nothing]
  /\ stored    = [c \in Call |-> Nothing]
  /\ people    \in SUBSET Email
  /\ {UnguardedBy[x] : x \in {y \in Unguarded : status[y] # None}} \subseteq people
  /\ cast      = SpeakersOf
  /\ absent    = [c \in Call |-> None]
  /\ notify    \in [Call -> BOOLEAN]
  /\ template  \in BOOLEAN
  /\ confirmed = {}
  /\ early     = {}
  /\ troubled  = {}

At(c, l) == desk' = [desk EXCEPT ![c] = l]

Gone == {c \in Call : desk[c] = "gone"} \union {e \in Editor : stage[e] = "gone"}
MayFail == deaths + Cardinality(Gone) + Cardinality(troubled) < MaxDeaths

-----------------------------------------------------------------------------
(* The page *)

\* findActivePublicForm
Visit(c) ==
  /\ desk[c] = "visit" /\ public
  /\ pin' = [pin EXCEPT ![c] = Latest]
  /\ At(c, "fields")
  /\ UNCHANGED <<vars, formVars, sendVars, shown, stored, early, castVars, mailVars>>

\* toVersionDto
ShowFields(c) ==
  /\ desk[c] = "fields"
  /\ shown' = [shown EXCEPT ![c].fields = asked[pin[c]]]
  /\ At(c, "rules")
  /\ UNCHANGED <<vars, formVars, sendVars, pin, stored, early, castVars, mailVars>>

ShowRules(c) ==
  /\ desk[c] = "rules"
  /\ shown' = [shown EXCEPT ![c].rules = routed[pin[c]]]
  /\ At(c, "page")
  /\ UNCHANGED <<vars, formVars, sendVars, pin, stored, early, castVars, mailVars>>

-----------------------------------------------------------------------------
(* createSubmission *)

\* The version must be the latest one of the form.
Submit(c) ==
  /\ desk[c] = "page"
  /\ At(c, IF pin[c] = Latest THEN "caps" ELSE "refused")
  /\ UNCHANGED <<vars, formVars, sendVars, pin, shown, stored, early, castVars, mailVars>>

CheckCaps(c) ==
  /\ desk[c] = "caps" /\ pc[c] # "claim"
  /\ Step(c)
  /\ UNCHANGED <<formVars, sendVars, ownVars>>

Unfinished(c) == stage[pin[c]] # "done"
NoteEarly(c) == early' = IF Unfinished(c) THEN early \union {c} ELSE early

ReadFields(c) ==
  /\ desk[c] = "caps" /\ pc[c] = "claim"
  /\ stored' = [stored EXCEPT ![c].fields = asked[pin[c]]]
  /\ NoteEarly(c)
  /\ At(c, "form")
  /\ UNCHANGED <<vars, formVars, sendVars, pin, shown, castVars, mailVars>>

\* Nothing required is missing, and the category sent is the one derived.
Fits(c, rules) == /\ stored[c].fields \subseteq shown[c].fields
                  /\ rules = {} \/ shown[c].rules \in {{}, rules}

ReadRules(c) ==
  LET rules == routed[pin[c]] IN
  /\ desk[c] = "form"
  /\ IF Fits(c, rules)
     THEN /\ stored' = [stored EXCEPT ![c] =
                 [fields |-> @.fields \intersect shown[c].fields,
                  rules  |-> IF rules = {} THEN shown[c].rules ELSE rules]]
          /\ At(c, "people")
     ELSE At(c, "refused") /\ UNCHANGED stored
  /\ NoteEarly(c)
  /\ UNCHANGED <<vars, formVars, sendVars, pin, shown, castVars, mailVars>>

\* findPersonByOrgEmail, for one speaker after the other; the name of one that
\* is found may be updated.
Met(c, e) == /\ cast' = [cast EXCEPT ![c] = @ \ {e}]
             /\ At(c, IF cast[c] \ {e} = {} THEN "write" ELSE "people")

FindPerson(c, e) ==
  /\ desk[c] = "people" /\ e \in cast[c]
  /\ IF e \in people THEN Met(c, e) /\ UNCHANGED absent
     ELSE At(c, "person") /\ absent' = [absent EXCEPT ![c] = e] /\ UNCHANGED cast
  /\ UNCHANGED <<vars, formVars, sendVars, pin, shown, stored, early, people, mailVars>>

\* insertPerson; one that another request has made meanwhile is an error that
\* nobody catches.
InsertPerson(c) ==
  /\ desk[c] = "person"
  /\ IF absent[c] \in people THEN At(c, "failed") /\ UNCHANGED <<people, cast>>
     ELSE people' = people \union {absent[c]} /\ Met(c, absent[c])
  /\ UNCHANGED <<vars, formVars, sendVars, pin, shown, stored, early, absent, mailVars>>

Write(c) ==
  /\ desk[c] = "write"
  /\ Step(c)
  /\ UNCHANGED <<formVars, sendVars, ownVars>>

\* enqueueSubmissionConfirmation and ensureSubmissionConfirmationTemplate: the
\* second of two inserts fails and reads again.
Confirming(c) == \/ desk[c] = "write" /\ answer[c] = "ok"
                 \/ desk[c] \in {"template", "mail"}

\* does without the mail as long as there is no template
Slip_SkipsIfMissing(c) ==
  /\ desk[c] = "write" /\ answer[c] = "ok"
  /\ At(c, IF notify[c] /\ template THEN "mail" ELSE "over")
  /\ UNCHANGED <<vars, formVars, sendVars, pin, shown, stored, early, castVars, mailVars>>

FindTemplate(c) ==
  /\ desk[c] = "write" /\ answer[c] = "ok"
  /\ At(c, IF ~notify[c] THEN "over" ELSE IF template THEN "mail" ELSE "template")
  /\ UNCHANGED <<vars, formVars, sendVars, pin, shown, stored, early, castVars, mailVars>>

InsertTemplate(c) ==
  /\ desk[c] = "template"
  /\ template' = TRUE
  /\ At(c, "mail")
  /\ UNCHANGED <<vars, formVars, sendVars, pin, shown, stored, early, castVars,
                 notify, confirmed, troubled>>

\* enqueueLifecycleAtomic; the key is the submission's own.
Enqueue(c) ==
  /\ desk[c] = "mail"
  /\ confirmed' = confirmed \union {c}
  /\ At(c, "over")
  /\ UNCHANGED <<vars, formVars, sendVars, pin, shown, stored, early, castVars,
                 notify, template, troubled>>

\* Whatever comms throws is logged and forgotten; the batch may be in all the
\* same.
ConfirmationFails(c) ==
  /\ Confirming(c) /\ notify[c] /\ MayFail
  /\ troubled' = troubled \union {c}
  /\ At(c, "over")
  /\ \/ UNCHANGED confirmed
     \/ desk[c] = "mail" /\ confirmed' = confirmed \union {c}
  /\ UNCHANGED <<vars, formVars, sendVars, pin, shown, stored, early, castVars,
                 notify, template>>

-----------------------------------------------------------------------------
Handle(c) == \/ CheckCaps(c) \/ ReadFields(c) \/ ReadRules(c)
             \/ \E e \in Email : FindPerson(c, e)
             \/ InsertPerson(c) \/ Write(c)
             \/ FindTemplate(c) \/ InsertTemplate(c) \/ Enqueue(c)

Edit(e) == FormStep(e) /\ UNCHANGED <<vars, sendVars, ownVars>>
Post(s) == SendStep(s) /\ UNCHANGED <<vars, formVars, ownVars>>
Judge(x) == Decide(x) /\ UNCHANGED <<formVars, sendVars, ownVars>>

DieWriting(c) ==
  /\ desk[c] \in {"caps", "form", "people", "person", "write"} /\ MayFail
  /\ Die(c)
  /\ UNCHANGED <<formVars, sendVars, ownVars>>

DieMailing(c) ==
  /\ Confirming(c) /\ MayFail
  /\ At(c, "gone")
  /\ UNCHANGED <<vars, formVars, sendVars, pin, shown, stored, early, castVars, mailVars>>

DieEditing(e) == FormDie(e) /\ MayFail /\ UNCHANGED <<vars, sendVars, ownVars>>

IntakeNext ==
  \/ \E c \in Call : \/ Visit(c) \/ ShowFields(c) \/ ShowRules(c) \/ Submit(c) \/ Handle(c)
                     \/ ConfirmationFails(c)
                     \/ DieWriting(c) \/ DieMailing(c)
  \/ \E e \in Editor : Edit(e) \/ DieEditing(e)
  \/ \E s \in Sender : Post(s)
  \/ \E x \in Submissions : Judge(x)

IntakeSpec == IntakeInit /\ [][IntakeNext]_intakeVars

\* A request that has come in goes on running; nobody has to send one.
IntakeLive == IntakeSpec /\ \A c \in Call : WF_intakeVars(Handle(c))

-----------------------------------------------------------------------------
(* What must hold *)

(* A submission answers all that its version asks, and has the category    *)
(* that its version's rules give, though nothing of a publication is a     *)
(* batch.  Only a re-publication can be read before it is whole: the first *)
(* version is hidden until then, and whoever was shown less than he is     *)
(* later asked for is refused.                                             *)
AnswersFitForm ==
  \A c \in Call :
    /\ c \in early => issue[pin[c]].num > 1
    /\ status[c] # None /\ c \notin early => stored[c] = issue[pin[c]].is

(* "bounded loop, no livelock" (commands.ts:739), and comms problems "can  *)
(* NEVER fail the submission" (commands.ts:812): a request that runs on    *)
(* ends in a refusal or in a submission with its speakers, and with its    *)
(* confirmation on the way unless the event wants none or comms met an     *)
(* error.  Only one that crosses another over a person new to both can     *)
(* fail, and then nothing of the submission is there.                      *)
Accepted(c) == /\ status[c] # None /\ c \in speakers
               /\ c \in confirmed \/ ~notify[c] \/ c \in troubled
Beaten(c) == /\ desk[c] = "failed" /\ status[c] = None
             /\ \E d \in Call \ {c} : absent[c] \in SpeakersOf[d] \ cast[d]
EverySubmissionEnds ==
  \A c \in Call : desk[c] = "caps" ~>
    \/ desk[c] \in {"refused", "gone"}
    \/ answer[c] \in {"capped", "full", "lost"}
    \/ Accepted(c) \/ Beaten(c)
=============================================================================
