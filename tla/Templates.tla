------------------------------ MODULE Templates -----------------------------
(***************************************************************************)
(* The templates of a tenant (internal/service/template_service.go,        *)
(* internal/handler/template_handler.go, internal/adapter/postgres/        *)
(* template_repo.go, internal/adapter/templates/embed.go) and the analyses *)
(* that render one (internal/service/analysis_service.go, internal/handler/*)
(* analysis_handler.go).                                                   *)
(*                                                                         *)
(* A template has one field here, its text: "" | "plain" (it shows the data*)
(* it is given) | "failing" (it parses, its execution fails) |             *)
(* "unparsable". Data is "none" | "plain" | "braces" (a value with {{ in   *)
(* it that does not parse).                                                *)
(***************************************************************************)
EXTENDS Requests

VARIABLES
    tmpl,     \* the table mail_templates: [tenant, slug, text, needs] per id
    checking  \* the tenants whose link_check key is in Redis

templateVars == <<tmpl, checking>>

\* Validate: an empty field is not parsed.
Parses(text) == text # "unparsable"

\* ValidateData: the variables a template declares are all given.
DataComplete(row, data) == row.needs => data # "none"

\* parseAndExecute and execute: what a field becomes, "error" if it cannot.
Rendered(text, data) ==
    CASE text = "plain" -> IF data = "braces" THEN "unparsable" ELSE "plain"
      [] text = "" -> ""
      [] OTHER -> "error"

SlugUsed(id, row) ==
    \E i \in DOMAIN tmpl \ {id} : tmpl[i].tenant = row.tenant /\ tmpl[i].slug = row.slug

-----------------------------------------------------------------------------
NewTemplate(r) ==
    [tenant |-> call[r].tenant, slug |-> call[r].ask.slug, text |-> call[r].ask.text,
     needs |-> call[r].ask.needs]

CreateTemplate(r) ==
    /\ at[r] = "createTemplate"
    /\ \/ ~(call[r].valid /\ Parses(call[r].ask.text)) /\ Fail(r, "validation") /\ UNCHANGED tmpl
       \/ /\ call[r].valid /\ Parses(call[r].ask.text)
          /\ IF SlugUsed(r, NewTemplate(r))
               THEN Fail(r, "conflict") /\ UNCHANGED tmpl
               ELSE tmpl' = Put(tmpl, r, NewTemplate(r)) /\ Reply(r, 201)
    /\ UNCHANGED checking

\* Validate sees the row as it will be, not the fields of the request.
ReadTemplate(r) ==
    LET id == call[r].id IN
    /\ at[r] = "updateTemplate"
    /\ \/ ~Owned(tmpl, id, call[r].tenant) /\ Fail(r, "notFound")
       \/ /\ Owned(tmpl, id, call[r].tenant)
          /\ LET row == Over(call[r].ask, tmpl[id]) IN
             IF Parses(row.text) THEN Keep(r, row, "templateWrite") ELSE Fail(r, "validation")
    /\ UNCHANGED templateVars

\* The same unique constraint has no error of its own here.
WriteTemplate(r) ==
    /\ at[r] = "templateWrite"
    /\ IF call[r].id \in DOMAIN tmpl /\ SlugUsed(call[r].id, held[r])
         THEN Fail(r, "other") /\ UNCHANGED tmpl
         ELSE tmpl' = Rewrite(tmpl, call[r].id, held[r]) /\ Reply(r, 200)
    /\ UNCHANGED checking

DeleteTemplate(r) ==
    /\ at[r] = "deleteTemplate"
    /\ tmpl' = IF Owned(tmpl, call[r].id, call[r].tenant) THEN Remove(tmpl, call[r].id) ELSE tmpl
    /\ Reply(r, 204)
    /\ UNCHANGED checking

-----------------------------------------------------------------------------
(* Reading.                                                                 *)

RenderReply(r, row, data) ==
    IF Rendered(row.text, data) = "error" THEN Fail(r, "validation") ELSE Reply(r, 200)

\* Preview renders with whatever data it is given.
Preview(r) ==
    /\ at[r] = "preview"
    /\ IF Owned(tmpl, call[r].id, call[r].tenant)
         THEN RenderReply(r, tmpl[call[r].id], call[r].ask.data)
         ELSE Fail(r, "notFound")
    /\ UNCHANGED templateVars

\* SpamCheck, HTMLCheck, and LinkCheck once it has its turn.
Analyse(r) ==
    LET id == call[r].id IN
    /\ at[r] = "analyse"
    /\ \/ ~Owned(tmpl, id, call[r].tenant) /\ Fail(r, "notFound")
       \/ /\ Owned(tmpl, id, call[r].tenant)
          /\ IF DataComplete(tmpl[id], call[r].ask.data)
               THEN RenderReply(r, tmpl[id], call[r].ask.data)
               ELSE Fail(r, "validation")
    /\ UNCHANGED templateVars

\* A faulty LinkCheck that goes on after its 429.
TakeLinkCheckLoosely(r) ==
    /\ at[r] = "linkCheck"
    /\ at' = [at EXCEPT ![r] = "analyse"]
    /\ answer' = IF call[r].tenant \in checking THEN [answer EXCEPT ![r] = 429] ELSE answer
    /\ checking' = checking \cup {call[r].tenant}
    /\ UNCHANGED <<call, held, hit, tmpl>>

\* One link check a minute for each tenant: the key is taken before the request is
\* looked at, and stays when the request turns out to be wrong.
TakeLinkCheck(r) ==
    /\ at[r] = "linkCheck"
    /\ IF call[r].tenant \in checking
         THEN Refuse(r, 429) /\ UNCHANGED checking
         ELSE Goto(r, "analyse") /\ checking' = checking \cup {call[r].tenant}
    /\ UNCHANGED tmpl

\* The TTL of sixty seconds.
LinkCheckExpires(t) ==
    /\ t \in checking
    /\ checking' = checking \ {t}
    /\ UNCHANGED <<reqVars, tmpl>>

-----------------------------------------------------------------------------
TemplateStep(r) ==
    \/ CreateTemplate(r) \/ ReadTemplate(r) \/ WriteTemplate(r) \/ DeleteTemplate(r)
    \/ Preview(r) \/ Analyse(r) \/ TakeLinkCheck(r)
=============================================================================
