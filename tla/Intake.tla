------------------------------- MODULE Intake -------------------------------
(***************************************************************************)
(* What a mail is made of between POST /mails (internal/service/           *)
(* mail_service.go) and the worker that renders it and looks for its server*)
(* (internal/worker/mail_handler.go), while the rows it refers to change.  *)
(* Queueing, sending and retrying are in MailDelivery; here a mail is      *)
(* created by one insert and prepared by one worker.                       *)
(***************************************************************************)
EXTENDS Tenants, SmtpConfigs, Templates

VARIABLES
    mail,     \* the table mails: [tenant, smtp, tmpl, text, data, status] per id
    attachment, \* the table attachments: pairs of a tenant and a content
    job,      \* the worker's copy of the row: [step, smtp, tmpl, text]
    compiled, \* the worker's cache of compiled templates: their text per id
    configs   \* the worker's cache of SMTP configurations, of which only the ids matter

workerVars == <<job, compiled, configs>>
mailVars == <<mail, attachment, workerVars>>

-----------------------------------------------------------------------------
(* MailService.Create. Settings are "open" or "strict": one recipient, and  *)
(* no message over the spam threshold.                                      *)

ReadMailTenant(r) ==
    /\ at[r] = "createMail"
    /\ IF ~call[r].valid \/ (tenant[call[r].tenant].settings = "strict" /\ call[r].ask.many)
         THEN Fail(r, "validation")
         ELSE Keep(r, [settings |-> tenant[call[r].tenant].settings],
                   IF call[r].ask.smtp = Nothing THEN "mailDefault" ELSE "mailConfig")
    /\ UNCHANGED <<tenantVars, smtp, templateVars, mailVars>>

WithConfig(r, id) ==
    Keep(r, [settings |-> held[r].settings, smtp |-> id, complete |-> TRUE, next |-> 1],
         "mailTemplate")

\* A faulty Create that does not ask whose configuration it is.
ReadAnyMailConfig(r) ==
    /\ \/ at[r] = "mailConfig" /\ call[r].ask.smtp \in DOMAIN smtp
          /\ WithConfig(r, call[r].ask.smtp)
       \/ at[r] = "mailConfig" /\ call[r].ask.smtp \notin DOMAIN smtp
          /\ Fail(r, "notFound")
       \/ at[r] = "mailDefault" /\ Defaults(call[r].tenant) = {}
          /\ Fail(r, "smtpNotSet")
       \/ at[r] = "mailDefault"
          /\ \E i \in Defaults(call[r].tenant) : WithConfig(r, i)
    /\ UNCHANGED <<tenantVars, smtp, templateVars, mailVars>>

ReadMailConfig(r) ==
    /\ \/ at[r] = "mailConfig" /\ Owned(smtp, call[r].ask.smtp, call[r].tenant)
          /\ WithConfig(r, call[r].ask.smtp)
       \/ at[r] = "mailConfig" /\ ~Owned(smtp, call[r].ask.smtp, call[r].tenant)
          /\ Fail(r, "notFound")
       \/ at[r] = "mailDefault" /\ Defaults(call[r].tenant) = {}
          /\ Fail(r, "smtpNotSet")
       \/ at[r] = "mailDefault"
          /\ \E i \in Defaults(call[r].tenant) : WithConfig(r, i)
    /\ UNCHANGED <<tenantVars, smtp, templateVars, mailVars>>

\* A template need not be active. For one mail to all recipients its variables are
\* checked here, and the spam score with the settings read at the start; a campaign
\* (individuel) keeps the template for later.
ReadMailTemplate(r) ==
    LET ask == call[r].ask
        complete == ask.tmpl # Nothing => DataComplete(tmpl[ask.tmpl], ask.data) IN
    /\ at[r] = "mailTemplate"
    /\ \/ /\ ask.tmpl # Nothing /\ ~Owned(tmpl, ask.tmpl, call[r].tenant)
          /\ Fail(r, "notFound")
       \/ /\ ask.tmpl # Nothing => Owned(tmpl, ask.tmpl, call[r].tenant)
          /\ IF ~complete /\ ~ask.individuel
               THEN Fail(r, "validation")
             ELSE IF ask.spam /\ held[r].settings = "strict" /\ ~ask.individuel
               THEN Fail(r, "spam")
             ELSE Keep(r, [held[r] EXCEPT !.complete = complete], "mailStore")
    /\ UNCHANGED <<tenantVars, smtp, templateVars, mailVars>>

\* The attachment storeAttachments has come to, if there is one left.
AtFile(r) == at[r] = "mailStore" /\ held[r].next \in DOMAIN call[r].ask.files
File(r) == call[r].ask.files[held[r].next]

\* storeAttachments decodes and stores one attachment after the other, each row
\* committed before the next is looked at; a Put that fails leaves the row too.
StoreAttachment(r) ==
    /\ AtFile(r)
    /\ \/ File(r) = "undecodable" /\ Fail(r, "validation") /\ UNCHANGED attachment
       \/ /\ File(r) # "undecodable"
          /\ attachment' = attachment \cup {<<call[r].tenant, File(r)>>}
          /\ \/ Keep(r, [held[r] EXCEPT !.next = @ + 1], "mailStore")
             \/ GiveUp(r, Code(r, StatusOf.other))
    /\ UNCHANGED <<tenantVars, smtp, templateVars, mail, workerVars>>

\* A campaign checks the variables of the template for each recipient only now.
CheckRecipients(r) ==
    /\ at[r] = "mailStore" /\ ~AtFile(r)
    /\ IF call[r].ask.individuel /\ ~held[r].complete
         THEN Fail(r, "validation")
         ELSE Goto(r, "mailInsert")
    /\ UNCHANGED <<tenantVars, smtp, templateVars, mailVars>>

\* The foreign keys refuse rows that are gone by now. The links to the attachments are
\* in Attachments.
InsertMail(r) ==
    LET ask == call[r].ask
        sound == held[r].smtp \in DOMAIN smtp /\ ask.tmpl \in DOMAIN tmpl \cup {Nothing} IN
    /\ at[r] = "mailInsert"
    /\ IF sound
         THEN /\ mail' = Put(mail, r, [tenant |-> call[r].tenant, smtp |-> held[r].smtp,
                                       tmpl |-> ask.tmpl, text |-> ask.text, data |-> ask.data,
                                       status |-> "queued"])
              /\ Reply(r, 202)
         ELSE Fail(r, "other") /\ UNCHANGED mail
    /\ UNCHANGED <<tenantVars, smtp, templateVars, attachment, workerVars>>

MailStep(r) ==
    \/ ReadMailTenant(r) \/ ReadMailConfig(r) \/ ReadMailTemplate(r)
    \/ StoreAttachment(r) \/ CheckRecipients(r) \/ InsertMail(r)

\* ON DELETE SET NULL: the mails of a row that goes lose it in the same statement.
Detached ==
    [m \in DOMAIN mail |->
        [mail[m] EXCEPT !.smtp = IF @ \in DOMAIN smtp' THEN @ ELSE Nothing,
                        !.tmpl = IF @ \in DOMAIN tmpl' THEN @ ELSE Nothing]]

-----------------------------------------------------------------------------
(* HandleMailSend up to the point where it has a message and a server.      *)

Advance(m, copy) == job' = [job EXCEPT ![m] = copy]

LoadMail(m) ==
    /\ m \in DOMAIN mail /\ mail[m].status = "queued" /\ job[m] = Nothing
    /\ Advance(m, [step |-> "fill", smtp |-> mail[m].smtp, tmpl |-> mail[m].tmpl,
                   text |-> mail[m].text])
    /\ UNCHANGED <<reqVars, mail, compiled, configs>>

\* failMail, and SkipRetry for the queue.
FailMail(m) ==
    /\ mail' = [mail EXCEPT ![m].status = "failed"]
    /\ Advance(m, [job[m] EXCEPT !.step = "failed"])

\* The fields of a mail with data are templates themselves: what the template gave
\* is rendered once more.
Finish(m, text) ==
    LET final == IF mail[m].data # "none" THEN Rendered(text, mail[m].data) ELSE text IN
    IF final = "error"
      THEN FailMail(m)
      ELSE Advance(m, [job[m] EXCEPT !.step = "config", !.text = final]) /\ UNCHANGED mail

\* A faulty worker that fills a field of its own even when the mail has no data.
FillOnlyWithData(m) ==
    /\ job[m] # Nothing /\ job[m].step = "fill"
    /\ IF job[m].tmpl # Nothing /\ job[m].text = "" /\ mail[m].data # "none"
            /\ Owned(tmpl, job[m].tmpl, mail[m].tenant)
         THEN Finish(m, Rendered(tmpl[job[m].tmpl].text, mail[m].data))
         ELSE Finish(m, job[m].text)
    /\ UNCHANGED <<reqVars, compiled, configs>>

\* An empty field takes what the template says, if the mail still has one.
FillFields(m) ==
    LET id == job[m].tmpl
        From(text) == Finish(m, Rendered(text, mail[m].data)) IN
    /\ job[m] # Nothing /\ job[m].step = "fill"
    /\ \/ /\ id = Nothing \/ job[m].text # ""
          /\ Finish(m, job[m].text)
          /\ UNCHANGED <<compiled, hit>>
       \/ /\ id # Nothing /\ job[m].text = "" /\ id \in DOMAIN compiled
          /\ From(compiled[id])
          /\ UNCHANGED <<compiled, hit>>
       \/ /\ id # Nothing /\ job[m].text = "" /\ Owned(tmpl, id, mail[m].tenant)
          /\ From(tmpl[id].text)
          /\ compiled' = Put(compiled, id, tmpl[id].text)
          /\ UNCHANGED hit
       \/ /\ id # Nothing /\ job[m].text = ""
          /\ (~Owned(tmpl, id, mail[m].tenant) /\ UNCHANGED hit) \/ Hit(m)
          /\ FailMail(m)
          /\ UNCHANGED compiled
    /\ UNCHANGED <<call, at, held, answer, configs>>

\* getSMTPConfig, from the cache or the table; a missing row and a failing query
\* both end the mail.
FindConfig(m) ==
    LET id == job[m].smtp IN
    /\ job[m] # Nothing /\ job[m].step = "config"
    /\ \/ /\ id \in configs \/ Owned(smtp, id, mail[m].tenant)
          /\ configs' = configs \cup {id}
          /\ Advance(m, [job[m] EXCEPT !.step = "ready"])
          /\ UNCHANGED <<mail, hit>>
       \/ /\ (~Owned(smtp, id, mail[m].tenant) /\ UNCHANGED hit) \/ (id # Nothing /\ Hit(m))
          /\ FailMail(m)
          /\ UNCHANGED configs
    /\ UNCHANGED <<call, at, held, answer, compiled>>

WorkerStep(m) ==
    /\ LoadMail(m) \/ FillFields(m) \/ FindConfig(m)
    /\ UNCHANGED <<tenantVars, smtp, templateVars, attachment>>
=============================================================================
