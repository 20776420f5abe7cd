-------------------------------- MODULE Forms --------------------------------
(***************************************************************************)
(* A form and its versions (modules/forms over the tables forms,           *)
(* form_versions, form_fields and form_rules).  The draft is edited in     *)
(* place; publishing copies it: the row of the new version first, with its *)
(* frozen snapshot, then its fields and its rules row by row, and at last  *)
(* the status of the form.  Nothing of this is a batch.                    *)
(*                                                                         *)
(* Every field is required and always visible; a routing rule is named by  *)
(* the field its condition looks at.  Texts, limits and the window of a    *)
(* version are left out.                                                   *)
(***************************************************************************)
EXTENDS Integers

CONSTANTS Editor,  \* requests; a version has the name of the one that publishes it
          Field,   \* field keys
          Drafts   \* bound: what the draft is changed to

VARIABLES
  draft,   \* fields and rules of version 0
  public,  \* status of the form is "published"
  issue,   \* published form_versions: number and snapshot
  asked,   \* form_fields of each
  routed,  \* form_rules of each
  order,   \* what a request asks for
  stage,   \* its next call
  copy,    \* what it has read of the draft, or has still to write
  number   \* versionNum it will publish

formVars == <<draft, public, issue, asked, routed, order, stage, copy, number>>

Nothing == [fields |-> {}, rules |-> {}]
Content == [fields : SUBSET Field, rules : SUBSET Field]

\* A "past" version is there as a whole.
FormInit ==
  LET Past == {e \in Editor : order[e] = "past"} IN
  /\ order \in [Editor -> {"past", "publish", "update", "none"}]
  /\ draft \in Content /\ draft.rules \subseteq draft.fields
  /\ \A d, e \in Past : d = e
  /\ public = (Past # {})
  /\ asked \in [Editor -> SUBSET Field] /\ routed \in [Editor -> SUBSET Field]
  /\ \A e \in Editor : IF e \in Past THEN asked[e] # {} /\ routed[e] \subseteq asked[e]
                                    ELSE asked[e] = {} /\ routed[e] = {}
  /\ issue  = [e \in Editor |-> [num |-> IF e \in Past THEN 1 ELSE 0,
                                 is  |-> [fields |-> asked[e], rules |-> routed[e]]]]
  /\ stage  = [e \in Editor |-> IF e \in Past THEN "done" ELSE "begin"]
  /\ copy   = [e \in Editor |-> Nothing]
  /\ number = [e \in Editor |-> 0]

Stage(e, l) == stage' = [stage EXCEPT ![e] = l]

\* One row less to write
Written(e, part, k) == copy' = [copy EXCEPT ![e][part] = @ \ {k}]

-----------------------------------------------------------------------------
(* updateDraftFields, with rules whose conditions name its fields *)

\* validateConditionKeys: a rule looks at a field there is.
Wellformed(new) == new \in Content /\ new.rules \subseteq new.fields

UpdateDraft(e, new) ==
  /\ stage[e] = "begin" /\ order[e] = "update"
  /\ Wellformed(new)
  /\ copy' = [copy EXCEPT ![e] = new]
  /\ Stage(e, "clear")
  /\ UNCHANGED <<draft, public, issue, asked, routed, order, number>>

\* replaceFields and replaceRules: a delete, then one insert after the other.
ClearFields(e) ==
  /\ stage[e] = "clear"
  /\ draft' = [draft EXCEPT !.fields = {}]
  /\ Stage(e, "fields")
  /\ UNCHANGED <<public, issue, asked, routed, order, copy, number>>

InsertField(e, k) ==
  /\ stage[e] = "fields" /\ k \in copy[e].fields
  /\ IF k \in draft.fields
     THEN Stage(e, "failed") /\ UNCHANGED <<draft, copy>>
     ELSE /\ draft' = [draft EXCEPT !.fields = @ \union {k}]
          /\ Written(e, "fields", k)
          /\ UNCHANGED stage
  /\ UNCHANGED <<public, issue, asked, routed, order, number>>

ClearRules(e) ==
  /\ stage[e] = "fields" /\ copy[e].fields = {}
  /\ draft' = [draft EXCEPT !.rules = {}]
  /\ Stage(e, "rules")
  /\ UNCHANGED <<public, issue, asked, routed, order, copy, number>>

InsertRule(e, k) ==
  /\ stage[e] = "rules" /\ k \in copy[e].rules
  /\ draft' = [draft EXCEPT !.rules = @ \union {k}]
  /\ Written(e, "rules", k)
  /\ UNCHANGED <<public, issue, asked, routed, order, stage, number>>

EndUpdate(e) ==
  /\ stage[e] = "rules" /\ copy[e].rules = {}
  /\ Stage(e, "done")
  /\ UNCHANGED <<draft, public, issue, asked, routed, order, copy, number>>

-----------------------------------------------------------------------------
(* publishForm *)

Publish(e) ==
  /\ stage[e] = "begin" /\ order[e] = "publish"
  /\ copy' = [copy EXCEPT ![e].fields = draft.fields]
  /\ Stage(e, "draft")
  /\ UNCHANGED <<draft, public, issue, asked, routed, order, number>>

ReadDraftRules(e) ==
  /\ stage[e] = "draft"
  /\ copy' = [copy EXCEPT ![e].rules = draft.rules]
  /\ Stage(e, IF copy[e].fields = {} THEN "failed" ELSE "latest")
  /\ UNCHANGED <<draft, public, issue, asked, routed, order, number>>

Published == {e \in Editor : issue[e].num > 0}

\* findLatestPublishedVersion
Latest == CHOOSE e \in Published : \A d \in Published : issue[d].num <= issue[e].num

ReadLatest(e) ==
  /\ stage[e] = "latest"
  /\ number' = [number EXCEPT ![e] =
       IF Published = {} THEN 1 ELSE issue[Latest].num + 1]
  /\ Stage(e, "insert")
  /\ UNCHANGED <<draft, public, issue, asked, routed, order, copy>>

\* Numbers are unique; the second insert of one fails.
InsertVersion(e) ==
  /\ stage[e] = "insert"
  /\ IF \E d \in Published : issue[d].num = number[e]
     THEN Stage(e, "failed") /\ UNCHANGED issue
     ELSE /\ issue' = [issue EXCEPT ![e] = [num |-> number[e], is |-> copy[e]]]
          /\ Stage(e, "seed")
  /\ UNCHANGED <<draft, public, asked, routed, order, copy, number>>

\* seedPublishedContent
SeedField(e, k) ==
  /\ stage[e] = "seed" /\ k \in copy[e].fields
  /\ asked' = [asked EXCEPT ![e] = @ \union {k}]
  /\ Written(e, "fields", k)
  /\ UNCHANGED <<draft, public, issue, routed, order, stage, number>>

SeedRule(e, k) ==
  /\ stage[e] = "seed" /\ copy[e].fields = {} /\ k \in copy[e].rules
  /\ routed' = [routed EXCEPT ![e] = @ \union {k}]
  /\ Written(e, "rules", k)
  /\ UNCHANGED <<draft, public, issue, asked, order, stage, number>>

\* opens the form without waiting for the fields of the version
Slip_OpenAtOnce(e) == stage[e] = "seed"
Seeded(e) == stage[e] = "seed" /\ copy[e] = Nothing

OpenForm(e) ==
  /\ Seeded(e)
  /\ public' = TRUE
  /\ Stage(e, "done")
  /\ UNCHANGED <<draft, issue, asked, routed, order, copy, number>>

-----------------------------------------------------------------------------
FormStep(e) ==
  \/ \E new \in Drafts : UpdateDraft(e, new)
  \/ ClearFields(e) \/ ClearRules(e) \/ EndUpdate(e)
  \/ Publish(e) \/ ReadDraftRules(e) \/ ReadLatest(e) \/ InsertVersion(e) \/ OpenForm(e)
  \/ \E k \in Field : InsertField(e, k) \/ InsertRule(e, k) \/ SeedField(e, k) \/ SeedRule(e, k)

\* The request dies.
FormDie(e) ==
  /\ stage[e] \notin {"begin", "done", "failed", "gone"}
  /\ Stage(e, "gone")
  /\ UNCHANGED <<draft, public, issue, asked, routed, order, copy, number>>
=============================================================================
