-------------------------------- MODULE Api ---------------------------------
(***************************************************************************)
(* The API process: its protected and open routes (startAPI in cmd/        *)
(* mailhive/main.go) over one database, requests interleaving between any  *)
(* two of their queries, and the worker preparing the mails they create.   *)
(***************************************************************************)
EXTENDS Intake, Branding

CONSTANTS Databases  \* what the tables may hold when the process starts

\* What a request may ask for.
Ops == AdminOps \cup Open
       \cup {"createConfig", "updateConfig", "deleteConfig", "testConfig", "createTemplate",
             "updateTemplate", "deleteTemplate", "preview", "analyse", "linkCheck",
             "createMail", "getLogo"}

Texts == {"", "plain", "failing", "unparsable"}

\* What the handlers can have decoded: flags are flags, no request names the tenant of
\* a row, one that creates a row gives all its fields.
Decoded(c) ==
    /\ c.op \in Ops
    /\ c.op \in {"updateConfig", "updateTemplate"} => "tenant" \notin DOMAIN c.ask
    /\ \A f \in {"default", "active"} :
         c.op = "updateConfig" /\ f \in DOMAIN c.ask => c.ask[f] \in BOOLEAN
    /\ c.op = "createConfig" => "default" \in DOMAIN c.ask /\ c.ask.default \in BOOLEAN
    /\ c.op \in {"createTemplate", "createMail"} => c.ask.text \in Texts
    /\ c.op = "updateTemplate" /\ "text" \in DOMAIN c.ask => c.ask.text \in Texts

ASSUME ArrivalsAssumption == \A f \in Arrivals, r \in Requests : Decoded(f[r])

\* Ids and keys are generated: a new row never takes an id that is there, a new key is
\* never the one of the administration.
ASSUME NothingAssumption == Nothing \notin Requests
ASSUME AdminKeyAssumption == AdminKey \notin Requests

ASSUME DatabasesAssumption ==
    \A d \in Databases :
        /\ \A i \in DOMAIN d.tenant \cup DOMAIN d.smtp \cup DOMAIN d.tmpl :
             i \notin Requests \cup {Nothing}
        /\ \A i \in DOMAIN d.tenant : DOMAIN d.tenant[i] = {"slug", "key", "active", "settings"}
        /\ \A i \in DOMAIN d.smtp : /\ DOMAIN d.smtp[i] = {"tenant", "default", "active"}
                                    /\ d.smtp[i].default \in BOOLEAN /\ d.smtp[i].active \in BOOLEAN
        /\ \A i \in DOMAIN d.tmpl : /\ DOMAIN d.tmpl[i] = {"tenant", "slug", "text", "needs"}
                                    /\ d.tmpl[i].text \in Texts \ {"unparsable"}
        /\ DOMAIN d.brand = {"title", "zone", "logo"}

VARIABLES
    wrote, \* observation: the requests that changed a row of these tables
    filed, \* observation: the requests that added a row to the attachments
    clash, \* observation: the tables changed while another request was about to write
           \* back what it had read of them
    first  \* observation: the tables the process found when it started

apiVars == <<tenantVars, smtp, templateVars, mailVars, brandVars>>
vars == <<reqVars, apiVars, wrote, filed, clash, first>>

\* runAPI loads the time zone before it serves.
Init ==
    /\ ReqInit
    /\ \E d \in Databases :
         tenant = d.tenant /\ smtp = d.smtp /\ tmpl = d.tmpl /\ brand = d.brand /\ first = d
    /\ issued = [r \in Requests |-> Nothing]
    /\ checking = {}
    /\ mail = [m \in {} |-> Nothing]
    /\ attachment = {}
    /\ job = [m \in Requests |-> Nothing]
    /\ compiled = [i \in {} |-> Nothing]
    /\ configs = {}
    /\ appZone = brand.zone
    /\ wrote = {} /\ filed = {} /\ clash = {}

-----------------------------------------------------------------------------
(* Failing queries.                                                         *)

\* Whether the step of the handler reaches the database before it gives up.
AtQuery(r) ==
    LET c == call[r] IN
    CASE at[r] \in {"done", "adminInsert", "brandApply", "linkCheck"} -> FALSE
      [] at[r] = "mailStore" -> AtFile(r) /\ File(r) # "undecodable"
      [] at[r] \in {"token", "seed"} -> ~AsAdmin(r)
      [] at[r] = "createTenant" -> c.valid /\ ValidSettings(c.ask.settings)
      [] at[r] = "createTemplate" -> c.valid /\ Parses(c.ask.text)
      [] at[r] = "createConfig" -> c.valid /\ c.ask.default
      [] at[r] \in {"updateConfig", "updateBranding", "uploadLogo", "createMail"} -> c.valid
      [] OTHER -> TRUE

\* TenantContext and GenerateToken take any error for a missing tenant, Create of a
\* mail any error for a missing default configuration.
QueryFails(r) ==
    /\ AtQuery(r)
    /\ GiveUp(r, CASE at[r] \in {"enter", "token"} -> 401
                   [] at[r] = "mailDefault" -> Code(r, StatusOf.smtpNotSet)
                   [] OTHER -> Code(r, StatusOf.other))
    /\ UNCHANGED apiVars

-----------------------------------------------------------------------------
Handle(r) ==
    \/ TenantStep(r) /\ UNCHANGED <<smtp, templateVars, mailVars, brandVars>>
    \/ /\ ConfigStep(r)
       /\ UNCHANGED <<tenantVars, templateVars, attachment, workerVars, brandVars>>
       /\ mail' = Detached
    \/ /\ TemplateStep(r) /\ UNCHANGED <<tenantVars, smtp, attachment, workerVars, brandVars>>
       /\ mail' = Detached
    \/ MailStep(r) /\ UNCHANGED brandVars
    \/ BrandStep(r) /\ UNCHANGED <<tenantVars, smtp, templateVars, mailVars>>
    \/ QueryFails(r)

\* The requests about to write back what they read of a table.
Holding(steps) == {r \in Requests : at[r] \in steps}

Clashes(r) ==
    {t \in {"tenant", "smtp", "tmpl", "brand"} :
        LET changed == CASE t = "tenant" -> tenant' # tenant
                         [] t = "smtp" -> smtp' # smtp
                         [] t = "tmpl" -> tmpl' # tmpl
                         [] OTHER -> brand' # brand
            holding == CASE t = "tenant" -> Holding({"tenantWrite", "keyWrite"})
                         [] t = "smtp" -> Holding({"configInsert", "configClear", "configWrite",
                                                   "seedInsert"})
                         [] t = "tmpl" -> Holding({"templateWrite"})
                         [] OTHER -> Holding({"brandWrite", "brandApply"})
        IN changed /\ holding \ {r} # {}}

RequestStep(r) ==
    /\ Handle(r)
    /\ wrote' = IF <<tenant, smtp, tmpl, brand, mail>>' # <<tenant, smtp, tmpl, brand, mail>>
                  THEN wrote \cup {r} ELSE wrote
    /\ filed' = IF attachment' # attachment THEN filed \cup {r} ELSE filed
    /\ clash' = clash \cup Clashes(r)
    /\ UNCHANGED first

Next ==
    \/ \E r \in Requests : RequestStep(r)
    \/ \E m \in Requests : WorkerStep(m) /\ UNCHANGED <<brandVars, wrote, filed, clash, first>>
    \/ \E t \in checking : /\ LinkCheckExpires(t)
                           /\ UNCHANGED <<tenantVars, smtp, mailVars, brandVars,
                                          wrote, filed, clash, first>>

Spec == Init /\ [][Next]_vars

-----------------------------------------------------------------------------
(* Properties.                                                              *)

\* The steps a request goes through.
StepsOf(op) ==
    CASE op = "updateTenant" -> {"enter", op, "tenantWrite", "done"}
      [] op = "regenerateKey" -> {"enter", op, "keyWrite", "done"}
      [] op = "token" -> {op, "adminInsert", "adminReread", "done"}
      [] op = "seed" -> {op, "adminInsert", "adminReread", "seedList", "seedInsert", "done"}
      [] op = "createConfig" -> {"enter", op, "configInsert", "done"}
      [] op = "updateConfig" -> {"enter", op, "configClear", "configWrite", "done"}
      [] op = "updateTemplate" -> {"enter", op, "templateWrite", "done"}
      [] op = "linkCheck" -> {"enter", op, "analyse", "done"}
      [] op = "createMail" ->
           {"enter", op, "mailDefault", "mailConfig", "mailTemplate", "mailStore",
            "mailInsert", "done"}
      [] op = "updateBranding" -> {"enter", op, "brandWrite", "brandApply", "brandReread", "done"}
      [] OTHER -> {"enter", op, "done"}

\* Every request is at a step of its own kind, and every variable keeps its shape.
TypeOK ==
    /\ \A r \in Requests : at[r] \in StepsOf(call[r].op) /\ (answer[r] = 0 <=> at[r] # "done")
    /\ hit \subseteq Requests /\ wrote \subseteq Requests /\ filed \subseteq Requests
    /\ clash \subseteq {"tenant", "smtp", "tmpl", "brand"}
    /\ DOMAIN mail \subseteq Requests /\ DOMAIN job = Requests

\* What a request changed, by kind of request and row it names.
Touched(ops, id) == \E s \in wrote : call[s].op \in ops /\ call[s].id = id

\* Whoever was answered with a new key of a tenant can log in with it, until somebody
\* else regenerates it: an update of the tenant that read the row before does not
\* bring the old key back.
AnsweredKeyAuthenticates ==
    \A r \in Requests :
        call[r].op = "regenerateKey" /\ answer[r] = 200 =>
            \E s \in Requests :
                /\ call[s].op = "regenerateKey" /\ call[s].id = call[r].id /\ at[s] = "done"
                /\ call[r].id \in DOMAIN tenant /\ tenant[call[r].id].key = s

\* The administration key opens the API unless a query failed or somebody gave the
\* tenant of the administration another slug, now or before the process started: the
\* key is then taken, and the slug is not found. One who gives a tenant this slug is
\* to blame only when another update has read the old one and writes it back.
AdminLockedOutByRename ==
    \A r \in Requests :
        call[r].op = "token" /\ AsAdmin(r) /\ answer[r] = 500 =>
            \/ r \in hit
            \/ \E i \in DOMAIN first.tenant :
                 first.tenant[i].key = AdminKey /\ first.tenant[i].slug # "admin"
            \/ \E s \in wrote : /\ call[s].op = "updateTenant" /\ "slug" \in DOMAIN call[s].ask
                                /\ "tenant" \notin clash => call[s].ask.slug # "admin"

\* Create of mails refuses what it finds behind the first attachment it stored: one that
\* is not base64, or a recipient of a campaign without all the template asks for.
RefusedBehindStore(r) ==
    /\ call[r].op = "createMail"
    /\ \/ \E i \in DOMAIN call[r].ask.files : call[r].ask.files[i] = "undecodable"
       \/ call[r].ask.individuel /\ call[r].ask.tmpl # Nothing

\* A request answered with a refusal changed no row, but for three: a body bindRequest
\* had already refused; a default configuration whose charset is refused after the old
\* default was cleared; and attachments, which belong to no mail then and wait for the
\* garbage collection, of mails refused behind storeAttachments.
RefusalChangesNothing ==
    \A r \in Requests :
        answer[r] \in 400..499 /\ ~call[r].broken =>
            /\ r \in wrote => call[r].op = "createConfig" /\ call[r].ask.default /\ ~call[r].charset
            /\ r \in filed => RefusedBehindStore(r)

Off(s, field) == field \in DOMAIN call[s].ask /\ ~call[s].ask[field]
Inactive(id) == id \in DOMAIN smtp /\ ~smtp[id].active

\* The tenants that had a usable default configuration when the process started.
HadDefault ==
    {t \in DOMAIN first.tenant :
        \E i \in DOMAIN first.smtp :
            first.smtp[i].tenant = t /\ first.smtp[i].default /\ first.smtp[i].active}

\* A tenant that had a usable default configuration has one unless somebody deleted or
\* deactivated one, a request that makes another the default did not get through or
\* named an inactive one, or two requests wrote the configurations at the same time.
LostDefaultHasCause ==
    \A t \in HadDefault :
        \/ Defaults(t) # {} \/ "smtp" \in clash
        \/ \E s \in wrote :
             /\ call[s].tenant = t
             /\ \/ call[s].op = "deleteConfig"
                \/ call[s].op = "updateConfig" /\ Off(s, "active")
                \/ call[s].op \in {"createConfig", "updateConfig"} /\ AskedDefault(s)
                   /\ (answer[s] \notin {200, 201} \/ Inactive(call[s].id))

\* The process reads dates in the time zone of the branding, but for the moment of an
\* update and after two updates at a time.
ZoneFollowsBranding ==
    "brand" \notin clash /\ (\A r \in Requests : at[r] # "brandApply") => appZone = brand.zone

\* Mails use configurations and templates of their own tenant.
RowsStayApart ==
    \A m \in DOMAIN mail :
        /\ mail[m].smtp \in DOMAIN smtp => smtp[mail[m].smtp].tenant = mail[m].tenant
        /\ mail[m].tmpl \in DOMAIN tmpl => tmpl[mail[m].tmpl].tenant = mail[m].tenant

\* A mail the worker fails before sending had data or a text of its own that cannot be
\* rendered, a template that cannot, lost its template or configuration, or met a
\* failing query; one that goes out empty lost its template or had an empty one.
MailFateHasCause ==
    \A m \in DOMAIN mail :
        LET ask == call[m].ask
            changed == Touched({"updateTemplate", "deleteTemplate"}, ask.tmpl)
            Text(x) == ask.tmpl \in DOMAIN tmpl /\ tmpl[ask.tmpl].text = x IN
        /\ mail[m].status = "failed" =>
             \/ m \in hit \/ changed \/ ask.data = "braces"
             \/ ask.text \in {"failing", "unparsable"} \/ (ask.text = "" /\ Text("failing"))
             \/ \E s \in wrote : call[s].op = "deleteConfig" /\ call[s].tenant = mail[m].tenant
        /\ job[m] # Nothing /\ job[m].step = "ready" /\ job[m].text = "" /\ ask.tmpl # Nothing =>
             changed \/ Text("")
=============================================================================
