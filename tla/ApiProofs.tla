----------------------------- MODULE ApiProofs ------------------------------
(***************************************************************************)
(* The invariants of Api for any set of requests, over any database, with  *)
(* any queries failing. First what a step of a handler does to its request;*)
(* then one section for each invariant, which looks only at the steps and  *)
(* tables it is about.                                                     *)
(***************************************************************************)
EXTENDS Api, TLAPS

Columns == {"slug", "key", "active", "settings"}

Shape ==
    /\ DOMAIN at = Requests /\ DOMAIN held = Requests /\ DOMAIN answer = Requests
    /\ \A r \in Requests : call[r].op \in Ops
    /\ \A i \in DOMAIN tenant : DOMAIN tenant[i] = Columns

-----------------------------------------------------------------------------
(* One step of one request.                                                 *)

\* The request goes to a step and the others stay where they are.
Alone(r) ==
    /\ call' = call
    /\ DOMAIN at' = Requests /\ DOMAIN held' = Requests /\ DOMAIN answer' = Requests
    /\ \A q \in Requests \ {r} : at'[q] = at[q] /\ held'[q] = held[q] /\ answer'[q] = answer[q]
    /\ hit' \in {hit, hit \cup {r}}

LEMMA Ways ==
    ASSUME Shape, NEW r \in Requests
    PROVE  /\ \A s : Goto(r, s) => Alone(r) /\ at'[r] = s /\ held' = held /\ answer' = answer
           /\ \A row, s : Keep(r, row, s) =>
                Alone(r) /\ at'[r] = s /\ held'[r] = row /\ answer' = answer
           /\ \A c : Refuse(r, c) => Alone(r) /\ at'[r] = "done" /\ answer'[r] = c
           /\ \A c : GiveUp(r, c) => Alone(r) /\ at'[r] = "done" /\ answer'[r] = c
           /\ \A s : GoOn(r, s) => Alone(r) /\ at'[r] = s /\ held' = held /\ answer' = answer
BY DEF Shape, Alone, Goto, Keep, Refuse, GiveUp, GoOn, Hit

LEMMA Replies ==
    ASSUME Shape, NEW r \in Requests
    PROVE  /\ \A c : Reply(r, c) => Alone(r) /\ at'[r] = "done" /\ answer'[r] \in {400, c}
           /\ \A e : Fail(r, e) => Alone(r) /\ at'[r] = "done"
           /\ \A e \in DOMAIN StatusOf :
                Fail(r, e) => answer'[r] \in {400, StatusOf[e]} /\ answer'[r] \notin {0, 200}
<1>1. \A c : Reply(r, c) => Alone(r) /\ at'[r] = "done" /\ answer'[r] \in {400, c}
    BY Ways DEF Reply, Code
<1>2. \A e \in DOMAIN StatusOf : StatusOf[e] \notin {0, 200}
    BY DEF StatusOf
<1>3. QED
    BY <1>1, <1>2 DEF Fail

\* The steps of Create of mails, and what they leave alone.
MailSteps ==
    {"createMail", "mailDefault", "mailConfig", "mailTemplate", "mailStore", "mailInsert"}

LEMMA MailFrame ==
    ASSUME NEW r, MailStep(r)
    PROVE  /\ at[r] \in MailSteps
           /\ UNCHANGED <<tenantVars, smtp, templateVars, workerVars>>
           /\ UNCHANGED mail \/ InsertMail(r)
<1> USE DEF MailSteps, mailVars
<1>1. CASE ReadMailTenant(r) \/ ReadMailConfig(r) \/ ReadMailTemplate(r)
    BY <1>1 DEF ReadMailTenant, ReadMailConfig, ReadMailTemplate
<1>2. CASE StoreAttachment(r) \/ CheckRecipients(r)
    BY <1>2 DEF StoreAttachment, CheckRecipients, AtFile
<1>3. CASE InsertMail(r)
    BY <1>3 DEF InsertMail
<1>4. QED
    BY <1>1, <1>2, <1>3 DEF MailStep

-----------------------------------------------------------------------------
(* Keys: the invariant.                                                     *)

\* The steps of a request that has inserted no tenant yet.
Early == {"enter", "createTenant", "token", "seed", "adminInsert"}

\* The steps of GenerateToken and of the seeding that are about tenants.
TokenSteps == {"token", "seed", "adminInsert", "adminReread"}

\* The steps of RegenerateAPIKey.
KeySteps == {"enter", "regenerateKey", "keyWrite", "done"}

Fresh == \A r \in Requests : at[r] \in Early => r \notin DOMAIN tenant

\* A handler about to write a tenant back has read it.
Known ==
    \A r \in Requests :
        /\ at[r] \in {"tenantWrite", "keyWrite"} => call[r].id \in DOMAIN tenant
        /\ at[r] = "tenantWrite" => DOMAIN held[r] = Columns
        /\ at[r] \in {"regenerateKey", "keyWrite"} => call[r].op = "regenerateKey"

Regenerated(id) ==
    {s \in Requests : call[s].op = "regenerateKey" /\ call[s].id = id /\ at[s] = "done"}

KeyKept(r) ==
    call[r].op = "regenerateKey" =>
        /\ at[r] \in KeySteps
        /\ answer[r] = 200 => /\ at[r] = "done" /\ call[r].id \in DOMAIN tenant
                              /\ tenant[call[r].id].key \in Regenerated(call[r].id)

KeyInv == Shape /\ Fresh /\ Known /\ \A r \in Requests : KeyKept(r)

LEMMA InitSound == Init => KeyInv
<1> SUFFICES ASSUME Init PROVE KeyInv OBVIOUS
<1>1. /\ call \in Arrivals
      /\ at = [r \in Requests |-> IF call[r].op \in Open THEN call[r].op ELSE "enter"]
      /\ held = [r \in Requests |-> Nothing] /\ answer = [r \in Requests |-> 0]
    BY DEF Init, ReqInit
<1>2. PICK d \in Databases : tenant = d.tenant
    BY DEF Init
<1>3. Shape
    BY <1>1, <1>2, ArrivalsAssumption, DatabasesAssumption DEF Shape, Columns, Decoded
<1>4. Fresh
    BY <1>2, DatabasesAssumption DEF Fresh
<1>5. Known
    BY <1>1 DEF Known, Open
<1>6. ASSUME NEW r \in Requests PROVE KeyKept(r)
    BY <1>1 DEF KeyKept, KeySteps, Open
<1>7. QED
    BY <1>3, <1>4, <1>5, <1>6 DEF KeyInv

-----------------------------------------------------------------------------
(* Keys: a step that changes none, and one that writes one.                 *)

\* What a step that changes no key does.
KeepsKeys(r) ==
    /\ Alone(r)
    /\ at[r] # "done"
    /\ DOMAIN tenant \subseteq DOMAIN tenant' /\ DOMAIN tenant' \subseteq DOMAIN tenant \cup {r}
    /\ \A i \in DOMAIN tenant' : DOMAIN tenant'[i] = Columns
    /\ \A i \in DOMAIN tenant : tenant'[i].key = tenant[i].key
    /\ at'[r] \in Early => at[r] \in Early /\ DOMAIN tenant' = DOMAIN tenant
    /\ at'[r] \in {"tenantWrite", "keyWrite"} => call[r].id \in DOMAIN tenant
    /\ at'[r] = "tenantWrite" => DOMAIN held'[r] = Columns
    /\ at'[r] \in {"regenerateKey", "keyWrite"} => call[r].op = "regenerateKey"
    /\ call[r].op = "regenerateKey" => at'[r] \in KeySteps /\ answer'[r] # 200

LEMMA KeepingSound ==
    ASSUME KeyInv, NEW r \in Requests, KeepsKeys(r)
    PROVE  KeyInv'
<1> USE DEF KeyInv, KeepsKeys, Alone
<1>1. Shape'
    BY DEF Shape
<1>2. Fresh'
    BY DEF Fresh
<1>3. Known'
    BY DEF Known
<1>4. ASSUME NEW q \in Requests PROVE KeyKept(q)'
    <2>1. Regenerated(call[q].id) \subseteq Regenerated(call[q].id)'
        BY DEF Regenerated
    <2>2. CASE q = r
        BY <2>2 DEF KeyKept
    <2>3. CASE q # r
        <3>1. at'[q] = at[q] /\ answer'[q] = answer[q] /\ KeyKept(q)
            BY <2>3
        <3>2. QED
            BY <3>1, <2>1 DEF KeyKept
    <2>4. QED
        BY <2>2, <2>3
<1>5. QED
    BY <1>1, <1>2, <1>3, <1>4

-----------------------------------------------------------------------------
(* The steps of the handlers that are not about tenants.                    *)

\* The request goes on to a step that neither inserts a tenant nor writes one back.
Elsewhere(r) ==
    /\ Alone(r)
    /\ at[r] \notin KeySteps \cup TokenSteps
    /\ at'[r] \notin Early \cup {"tenantWrite", "regenerateKey", "keyWrite", "adminReread"}

LEMMA ElsewhereKeeps ==
    ASSUME KeyInv, NEW r \in Requests, Elsewhere(r), UNCHANGED tenant
    PROVE  KeepsKeys(r)
<1>1. call[r].op # "regenerateKey"
    BY DEF KeyInv, KeyKept, Elsewhere
<1>2. QED
    BY <1>1 DEF KeyInv, Shape, Elsewhere, KeepsKeys, KeySteps

LEMMA ConfigElsewhere ==
    ASSUME Shape, NEW r \in Requests, ConfigStep(r)
    PROVE  Elsewhere(r)
<1> USE Ways, Replies DEF Elsewhere, Early, KeySteps, TokenSteps
<1>1. \A id, row, code : Store(r, id, row, code) => Alone(r) /\ at'[r] = "done"
    BY DEF Store
<1>2. CASE CreateConfig(r) \/ InsertConfig(r)
    BY <1>1, <1>2 DEF CreateConfig, CheckedConfig, InsertConfig
<1>3. CASE ReadConfig(r) \/ ClearDefault(r) \/ WriteConfig(r)
    BY <1>1, <1>3 DEF ReadConfig, ClearDefault, WriteConfig
<1>4. CASE DeleteConfig(r) \/ TestConfig(r)
    BY <1>4 DEF DeleteConfig, TestConfig
<1>5. CASE ListConfigs(r) \/ SeedConfig(r)
    BY <1>1, <1>5 DEF ListConfigs, SeedConfig
<1>6. QED
    BY <1>2, <1>3, <1>4, <1>5 DEF ConfigStep

LEMMA TemplateElsewhere ==
    ASSUME Shape, NEW r \in Requests, TemplateStep(r)
    PROVE  Elsewhere(r)
<1> USE Ways, Replies DEF Elsewhere, Early, KeySteps, TokenSteps
<1>1. CASE CreateTemplate(r) \/ DeleteTemplate(r)
    BY <1>1 DEF CreateTemplate, DeleteTemplate
<1>2. CASE ReadTemplate(r) \/ WriteTemplate(r)
    BY <1>2 DEF ReadTemplate, WriteTemplate
<1>3. CASE Preview(r) \/ Analyse(r) \/ TakeLinkCheck(r)
    BY <1>3 DEF Preview, Analyse, RenderReply, TakeLinkCheck
<1>4. QED
    BY <1>1, <1>2, <1>3 DEF TemplateStep

LEMMA MailElsewhere ==
    ASSUME Shape, NEW r \in Requests, MailStep(r)
    PROVE  Elsewhere(r)
<1> USE Ways, Replies DEF Elsewhere, Early, KeySteps, TokenSteps
<1>1. CASE ReadMailTenant(r)
    BY <1>1 DEF ReadMailTenant
<1>2. CASE ReadMailConfig(r)
    <2>1. \A id : WithConfig(r, id) => Alone(r) /\ at'[r] = "mailTemplate"
        BY DEF WithConfig
    <2>2. QED
        BY <1>2, <2>1 DEF ReadMailConfig
<1>3. CASE ReadMailTemplate(r) \/ InsertMail(r)
    BY <1>3 DEF ReadMailTemplate, InsertMail
<1>4. CASE StoreAttachment(r) \/ CheckRecipients(r)
    BY <1>4 DEF StoreAttachment, CheckRecipients, AtFile
<1>5. QED
    BY <1>1, <1>2, <1>3, <1>4 DEF MailStep

LEMMA BrandElsewhere ==
    ASSUME Shape, NEW r \in Requests, BrandStep(r)
    PROVE  Elsewhere(r)
<1> USE Ways, Replies DEF Elsewhere, Early, KeySteps, TokenSteps
<1>1. CASE ReadBranding(r) \/ WriteBranding(r) \/ ApplyTimezone(r)
    BY <1>1 DEF ReadBranding, WriteBranding, ApplyTimezone
<1>2. CASE RereadBranding(r) \/ UploadLogo(r) \/ GetLogo(r)
    BY <1>2 DEF RereadBranding, UploadLogo, GetLogo
<1>3. QED
    BY <1>1, <1>2 DEF BrandStep

-----------------------------------------------------------------------------
(* The steps of the tenants that change no key.                             *)

\* A step that ends the request with something else than a key, or changes no table.
LEMMA ReadingKeeps ==
    ASSUME KeyInv, NEW r \in Requests, Alone(r), UNCHANGED tenant, at[r] # "done",
           at'[r] \in Early => at[r] \in Early,
           at'[r] \in {"tenantWrite", "keyWrite"} => call[r].id \in DOMAIN tenant,
           at'[r] = "tenantWrite" => DOMAIN held'[r] = Columns,
           at'[r] \in {"regenerateKey", "keyWrite"} => call[r].op = "regenerateKey",
           call[r].op = "regenerateKey" => at'[r] \in KeySteps /\ answer'[r] # 200
    PROVE  KeepsKeys(r)
BY DEF KeyInv, Shape, KeepsKeys

LEMMA KeyRequest ==
    ASSUME KeyInv, NEW r \in Requests, call[r].op = "regenerateKey"
    PROVE  at[r] \in KeySteps
BY DEF KeyInv, KeyKept

LEMMA EnterKeeps == ASSUME KeyInv, NEW r \in Requests, TenantContext(r) PROVE KeepsKeys(r)
<1>0. Shape /\ call[r].op \in Ops /\ at[r] = "enter" /\ UNCHANGED tenant
    BY DEF KeyInv, Shape, TenantContext, tenantVars
<1>1. CASE Goto(r, call[r].op) /\ call[r].tenant \in DOMAIN tenant
    <2>1. Alone(r) /\ at'[r] = call[r].op /\ answer' = answer
        BY <1>0, <1>1, Ways
    <2>2. answer[r] # 200 \/ call[r].op # "regenerateKey"
        BY <1>0 DEF KeyInv, KeyKept
    <2>3. at'[r] \in Ops
        BY <1>0, <2>1
    <2>4. at'[r] \notin {"tenantWrite", "keyWrite"}
        BY <2>3 DEF Ops, AdminOps, Open
    <2>5. call[r].op = "regenerateKey" => at'[r] \in KeySteps /\ answer'[r] # 200
        BY <2>1, <2>2 DEF KeySteps
    <2>6. QED
        BY <1>0, <2>1, <2>4, <2>5, ReadingKeeps DEF Early
<1>2. CASE Refuse(r, 401) \/ Refuse(r, 403)
    <2>1. Alone(r) /\ at'[r] = "done" /\ answer'[r] \in {401, 403}
        BY <1>0, <1>2, Ways
    <2>2. QED
        BY <1>0, <2>1, ReadingKeeps DEF Early, KeySteps
<1>3. QED
    BY <1>1, <1>2 DEF TenantContext

LEMMA ReadTenantKeeps == ASSUME KeyInv, NEW r \in Requests, ReadTenant(r) PROVE KeepsKeys(r)
<1> DEFINE row == Over(call[r].ask, tenant[call[r].id])
<1>0. Shape /\ at[r] = "updateTenant" /\ UNCHANGED tenant /\ call[r].op # "regenerateKey"
    BY KeyRequest DEF KeyInv, ReadTenant, tenantVars, KeySteps
<1>1. CASE Keep(r, row, "tenantWrite") /\ call[r].id \in DOMAIN tenant
    <2>1. DOMAIN row = Columns
        BY <1>0, <1>1 DEF Over, Shape
    <2> HIDE DEF row
    <2>2. Alone(r) /\ at'[r] = "tenantWrite" /\ held'[r] = row
        BY <1>0, <1>1, Ways
    <2>3. QED
        BY <1>0, <1>1, <2>1, <2>2, ReadingKeeps DEF Early
<1>2. CASE Fail(r, "notFound") \/ Fail(r, "validation")
    <2>1. Alone(r) /\ at'[r] = "done"
        BY <1>0, <1>2, Replies
    <2>2. QED
        BY <1>0, <2>1, ReadingKeeps DEF Early
<1>3. QED
    BY <1>1, <1>2 DEF ReadTenant

LEMMA ReadForKeyKeeps == ASSUME KeyInv, NEW r \in Requests, ReadForKey(r) PROVE KeepsKeys(r)
<1>0. Shape /\ at[r] = "regenerateKey" /\ UNCHANGED tenant /\ call[r].op = "regenerateKey"
    BY DEF KeyInv, Known, ReadForKey, tenantVars
<1>1. CASE Keep(r, tenant[call[r].id], "keyWrite") /\ call[r].id \in DOMAIN tenant
    <2>1. Alone(r) /\ at'[r] = "keyWrite" /\ answer' = answer
        BY <1>0, <1>1, Ways
    <2>2. answer[r] # 200
        BY <1>0 DEF KeyInv, KeyKept
    <2>3. QED
        BY <1>0, <1>1, <2>1, <2>2, ReadingKeeps DEF Early, KeySteps
<1>2. CASE Fail(r, "notFound")
    <2>1. "notFound" \in DOMAIN StatusOf
        BY DEF StatusOf
    <2>2. Alone(r) /\ at'[r] = "done" /\ answer'[r] # 200
        BY <1>0, <1>2, <2>1, Replies
    <2>3. QED
        BY <1>0, <2>2, ReadingKeeps DEF Early, KeySteps
<1>3. QED
    BY <1>1, <1>2 DEF ReadForKey

\* Any query may fail, also those of RegenerateAPIKey.
LEMMA FailingKeeps == ASSUME KeyInv, NEW r \in Requests, QueryFails(r) PROVE KeepsKeys(r)
<1> DEFINE code == CASE at[r] \in {"enter", "token"} -> 401
                     [] at[r] = "mailDefault" -> Code(r, StatusOf.smtpNotSet)
                     [] OTHER -> Code(r, StatusOf.other)
<1>0. Shape /\ GiveUp(r, code) /\ UNCHANGED tenant /\ at[r] # "done"
    BY DEF KeyInv, QueryFails, apiVars, tenantVars, AtQuery
<1>1. code # 200
    BY DEF Code, StatusOf
<1> HIDE DEF code
<1>2. Alone(r) /\ at'[r] = "done" /\ answer'[r] # 200
    BY <1>0, <1>1, Ways
<1>3. QED
    BY <1>0, <1>2, ReadingKeeps DEF Early, KeySteps

\* GET, and the tokens of tenants: no table changes.
LEMMA OtherReadsKeep ==
    ASSUME KeyInv, NEW r \in Requests, GetTenant(r) \/ TokenOfKey(r)
    PROVE  KeepsKeys(r)
<1>0. Shape /\ at[r] \in {"getTenant", "token"} /\ UNCHANGED tenant
    BY DEF KeyInv, GetTenant, TokenOfKey, tenantVars
<1>1. Alone(r) /\ at'[r] = "done"
    BY <1>0, Replies DEF GetTenant, TokenOfKey
<1>2. call[r].op # "regenerateKey"
    BY <1>0, KeyRequest DEF KeySteps
<1>3. QED
    BY <1>0, <1>1, <1>2, ReadingKeeps DEF Early

-----------------------------------------------------------------------------
(* The steps that write tenants.                                            *)

\* A new tenant takes an id that was free.
LEMMA InsertKeeps ==
    ASSUME KeyInv, NEW r \in Requests, NEW row, DOMAIN row = Columns,
           tenant' = Put(tenant, r, row), at[r] \in {"createTenant", "adminInsert"},
           Alone(r), at'[r] \notin Early \cup {"tenantWrite", "regenerateKey", "keyWrite"}
    PROVE  KeepsKeys(r)
<1>1. r \notin DOMAIN tenant /\ call[r].op # "regenerateKey"
    BY KeyRequest DEF KeyInv, Fresh, Early, KeySteps
<1>2. /\ DOMAIN tenant' = DOMAIN tenant \cup {r} /\ tenant'[r] = row
      /\ \A i \in DOMAIN tenant : tenant'[i] = tenant[i]
    BY <1>1 DEF Put
<1>3. QED
    BY <1>1, <1>2 DEF KeyInv, Shape, KeepsKeys

\* A tenant that is there is written back with the key it has.
LEMMA RewriteKeeps ==
    ASSUME KeyInv, NEW r \in Requests, Alone(r), at'[r] = "done", at[r] # "done",
           call[r].op # "regenerateKey", DOMAIN tenant' = DOMAIN tenant,
           \A i \in DOMAIN tenant : DOMAIN tenant'[i] = Columns /\ tenant'[i].key = tenant[i].key
    PROVE  KeepsKeys(r)
BY DEF KeyInv, Shape, KeepsKeys, Early

LEMMA CreateKeeps == ASSUME KeyInv, NEW r \in Requests, CreateTenant(r) PROVE KeepsKeys(r)
<1> DEFINE row == [slug |-> call[r].ask.slug, key |-> r, active |-> TRUE,
                   settings |-> call[r].ask.settings]
<1>0. Shape /\ at[r] = "createTenant" /\ call[r].op # "regenerateKey"
    BY KeyRequest DEF KeyInv, CreateTenant, KeySteps
<1>1. Alone(r) /\ at'[r] = "done"
    BY <1>0, Replies DEF CreateTenant
<1>2. CASE tenant' = tenant
    BY <1>0, <1>1, <1>2, ReadingKeeps DEF Early
<1>3. CASE tenant' = Put(tenant, r, row)
    <2>1. DOMAIN row = Columns
        BY DEF Columns
    <2> HIDE DEF row
    <2>2. QED
        BY <1>0, <1>1, <1>3, <2>1, InsertKeeps DEF Early
<1>4. QED
    BY <1>2, <1>3 DEF CreateTenant

LEMMA WriteTenantKeeps == ASSUME KeyInv, NEW r \in Requests, WriteTenant(r) PROVE KeepsKeys(r)
<1> DEFINE id == call[r].id
           row == [held[r] EXCEPT !.key = tenant[id].key]
<1>0. /\ Shape /\ at[r] = "tenantWrite" /\ call[r].op # "regenerateKey"
      /\ id \in DOMAIN tenant /\ DOMAIN held[r] = Columns
    BY KeyRequest DEF KeyInv, WriteTenant, KeySteps, Known
<1>1. Alone(r) /\ at'[r] = "done"
    BY <1>0, Replies DEF WriteTenant
<1>2. CASE tenant' = tenant
    BY <1>0, <1>1, <1>2, ReadingKeeps DEF Early
<1>3. CASE tenant' = Put(tenant, id, row)
    <2>1. DOMAIN row = Columns /\ row.key = tenant[id].key
        BY <1>0 DEF Columns
    <2> HIDE DEF row
    <2>2. /\ DOMAIN tenant' = DOMAIN tenant
          /\ \A i \in DOMAIN tenant : tenant'[i] = IF i = id THEN row ELSE tenant[i]
        BY <1>0, <1>3 DEF Put
    <2>3. QED
        BY <1>0, <1>1, <2>1, <2>2, RewriteKeeps DEF Shape
<1>4. QED
    BY <1>2, <1>3 DEF WriteTenant

LEMMA DeleteKeeps == ASSUME KeyInv, NEW r \in Requests, DeleteTenant(r) PROVE KeepsKeys(r)
<1>0. Shape /\ at[r] = "deleteTenant" /\ call[r].op # "regenerateKey"
    BY KeyRequest DEF KeyInv, DeleteTenant, KeySteps
<1>1. Alone(r) /\ at'[r] = "done"
    BY <1>0, Replies DEF DeleteTenant
<1>2. /\ DOMAIN tenant' = DOMAIN tenant
      /\ \A i \in DOMAIN tenant :
            tenant'[i] = [tenant[i] EXCEPT !.active = tenant[i].active /\ i # call[r].id]
    BY DEF DeleteTenant
<1>3. \A i \in DOMAIN tenant : DOMAIN tenant'[i] = Columns /\ tenant'[i].key = tenant[i].key
    BY <1>0, <1>2 DEF Shape, Columns
<1>4. QED
    BY <1>0, <1>1, <1>2, <1>3, RewriteKeeps

\* The tenant of the administration, for a token or for the seeding.
LEMMA AdminKeeps ==
    ASSUME KeyInv, NEW r \in Requests, ReadAdmin(r) \/ InsertAdmin(r) \/ RereadAdmin(r)
    PROVE  KeepsKeys(r)
<1>0. /\ Shape /\ at[r] \in {"token", "seed", "adminInsert", "adminReread"}
      /\ call[r].op # "regenerateKey"
    BY KeyRequest DEF KeyInv, ReadAdmin, InsertAdmin, RereadAdmin, KeySteps
<1>1. \A i : Found(r, i) => Alone(r) /\ at'[r] \in {"done", "seedList"}
    BY <1>0, Ways, Replies DEF Found
<1>2. CASE tenant' = tenant
    <2>1. Alone(r) /\ at'[r] \in {"done", "seedList", "adminReread", "adminInsert"}
        BY <1>0, <1>1, Ways, Replies DEF ReadAdmin, InsertAdmin, RereadAdmin
    <2>2. at'[r] = "adminInsert" => at[r] \in Early
        BY <1>0, <1>1, Ways, Replies DEF ReadAdmin, InsertAdmin, RereadAdmin, Early
    <2>3. QED
        BY <1>0, <1>2, <2>1, <2>2, ReadingKeeps DEF Early
<1>3. CASE InsertAdmin(r) /\ tenant' = Put(tenant, r, AdminRow) /\ Found(r, r)
    <2>1. DOMAIN AdminRow = Columns
        BY DEF AdminRow, Columns
    <2>2. QED
        BY <1>0, <1>1, <1>3, <2>1, InsertKeeps DEF InsertAdmin, Early
<1>4. QED
    BY <1>2, <1>3 DEF ReadAdmin, InsertAdmin, RereadAdmin, tenantVars

\* RegenerateAPIKey writes its own key, over whatever another one wrote.
LEMMA WriteKeySound == ASSUME KeyInv, NEW r \in Requests, WriteKey(r) PROVE KeyInv'
<1> DEFINE id == call[r].id
           row == [tenant[id] EXCEPT !.key = r]
<1>0. /\ Shape /\ at[r] = "keyWrite" /\ id \in DOMAIN tenant
      /\ call[r].op = "regenerateKey"
    BY DEF KeyInv, WriteKey, Known
<1>1. Alone(r) /\ at'[r] = "done"
    BY <1>0, Replies DEF WriteKey
<1>2. DOMAIN row = Columns /\ row.key = r
    BY <1>0 DEF Shape, Columns
<1>3. tenant' = Put(tenant, id, row)
    BY DEF WriteKey
<1> HIDE DEF row
<1>4. /\ DOMAIN tenant' = DOMAIN tenant
      /\ \A i \in DOMAIN tenant : tenant'[i] = IF i = id THEN row ELSE tenant[i]
    BY <1>0, <1>3 DEF Put
<1>5. Shape'
    BY <1>0, <1>1, <1>2, <1>4 DEF Shape, Alone
<1>6. Fresh'
    BY <1>1, <1>4 DEF KeyInv, Fresh, Alone, Early
<1>7. Known'
    BY <1>1, <1>4 DEF KeyInv, Known, Alone
<1>8. ASSUME NEW q \in Requests PROVE KeyKept(q)'
    <2>1. call' = call /\ Regenerated(call[q].id) \subseteq Regenerated(call[q].id)'
        BY <1>0, <1>1 DEF Regenerated, Alone
    <2>2. r \in Regenerated(id)'
        BY <1>0, <1>1 DEF Regenerated, Alone
    <2>3. QED
        BY <1>0, <1>1, <1>2, <1>4, <2>1, <2>2 DEF KeyInv, KeyKept, Alone, KeySteps
<1>9. QED
    BY <1>5, <1>6, <1>7, <1>8 DEF KeyInv

-----------------------------------------------------------------------------
LEMMA HandleSound ==
    ASSUME KeyInv, NEW r \in Requests, Handle(r)
    PROVE  KeyInv'
<1>0. Shape
    BY DEF KeyInv
<1>1. CASE TenantStep(r) /\ ~WriteKey(r)
    <2>1. KeepsKeys(r)
        BY <1>1, EnterKeeps, CreateKeeps, OtherReadsKeep, DeleteKeeps, ReadTenantKeeps,
           WriteTenantKeeps, ReadForKeyKeeps, AdminKeeps DEF TenantStep
    <2>2. QED
        BY <2>1, KeepingSound
<1>2. CASE WriteKey(r)
    BY <1>2, WriteKeySound
<1>3. CASE QueryFails(r)
    BY <1>3, FailingKeeps, KeepingSound
<1>4. CASE ConfigStep(r) \/ TemplateStep(r) \/ MailStep(r) \/ BrandStep(r)
    <2>1. Elsewhere(r)
        BY <1>0, <1>4, ConfigElsewhere, TemplateElsewhere, MailElsewhere, BrandElsewhere
    <2>2. CASE UNCHANGED tenant
        BY <2>1, <2>2, ElsewhereKeeps, KeepingSound
    <2>3. CASE TenantStep(r) \/ QueryFails(r)
        BY <2>3, <1>1, <1>2, <1>3
    <2>4. MailStep(r) => UNCHANGED tenant
        BY MailFrame DEF tenantVars
    <2>5. QED
        BY <2>2, <2>3, <2>4 DEF Handle, tenantVars
<1>5. QED
    BY <1>1, <1>2, <1>3, <1>4 DEF Handle

\* No step of a request: the worker, the expiry of a link check, stuttering.
LEMMA OtherSound == ASSUME KeyInv, UNCHANGED <<call, at, held, answer, tenant>> PROVE KeyInv'
<1>1. (Shape /\ Fresh /\ Known)'
    BY DEF KeyInv, Shape, Fresh, Known
<1>2. ASSUME NEW q \in Requests PROVE KeyKept(q)'
    BY DEF KeyInv, KeyKept, Regenerated
<1>3. QED
    BY <1>1, <1>2 DEF KeyInv

LEMMA StepSound == KeyInv /\ [Next]_vars => KeyInv'
<1> SUFFICES ASSUME KeyInv, [Next]_vars PROVE KeyInv' OBVIOUS
<1>1. CASE \E r \in Requests : RequestStep(r)
    BY <1>1, HandleSound DEF RequestStep
<1>2. CASE \E m \in Requests : WorkerStep(m)
    <2>1. UNCHANGED <<call, at, held, answer, tenant>>
        BY <1>2 DEF WorkerStep, LoadMail, FillFields, FindConfig, reqVars, tenantVars
    <2>2. QED
        BY <2>1, OtherSound
<1>3. CASE \E t \in checking : LinkCheckExpires(t) /\ UNCHANGED tenantVars
    BY <1>3, OtherSound DEF LinkCheckExpires, reqVars, tenantVars
<1>4. CASE UNCHANGED vars
    BY <1>4, OtherSound DEF vars, reqVars, apiVars, tenantVars
<1>5. QED
    BY <1>1, <1>2, <1>3, <1>4 DEF Next

\* The key RegenerateAPIKey answered with is the key of the tenant until the next
\* RegenerateAPIKey, whatever an update that read the row before writes back
\* (Update and RegenerateAPIKey of tenant_service.go, Update of tenant_repo.go).
THEOREM AnsweredKeyStaysGood == Spec => []AnsweredKeyAuthenticates
<1>1. KeyInv => AnsweredKeyAuthenticates
    <2> SUFFICES ASSUME KeyInv, NEW r \in Requests, call[r].op = "regenerateKey", answer[r] = 200
                 PROVE  \E s \in Regenerated(call[r].id) :
                            call[r].id \in DOMAIN tenant /\ tenant[call[r].id].key = s
        BY DEF AnsweredKeyAuthenticates, Regenerated
    <2>1. QED
        BY DEF KeyInv, KeyKept
<1>2. QED
    BY <1>1, InitSound, StepSound, PTL DEF Spec

-----------------------------------------------------------------------------
(* TypeOK: a request goes through the steps of its own kind, and is answered *)
(* exactly when it is done.                                                  *)

\* The ways a step of a handler ends: the request is answered or goes to a step.
Ends(r) == Alone(r) /\ at'[r] = "done" /\ answer'[r] # 0
Goes(r, step) == Alone(r) /\ at'[r] = step /\ answer' = answer

LEMMA Outcomes ==
    ASSUME Shape, NEW r \in Requests
    PROVE  /\ \A s : Goto(r, s) => Goes(r, s)
           /\ \A row, s : Keep(r, row, s) => Goes(r, s)
           /\ \A s : GoOn(r, s) => Goes(r, s)
           /\ \A c : c # 0 /\ Refuse(r, c) => Ends(r)
           /\ \A c : c # 0 /\ GiveUp(r, c) => Ends(r)
           /\ \A c : c # 0 /\ Reply(r, c) => Ends(r)
           /\ \A e \in DOMAIN StatusOf : Fail(r, e) => Ends(r)
<1>1. \A c : c # 0 /\ Reply(r, c) => Ends(r)
    BY Replies DEF Ends
<1>2. QED
    BY <1>1, Ways, Replies DEF Ends, Goes

\* Which kind of request a step belongs to.
LEMMA Kinds ==
    ASSUME NEW op \in Ops
    PROVE  /\ op \in StepsOf(op) /\ "done" \in StepsOf(op) /\ op # "done"
           /\ "updateTenant" \in StepsOf(op) <=> op = "updateTenant"
           /\ "regenerateKey" \in StepsOf(op) <=> op = "regenerateKey"
           /\ "updateBranding" \in StepsOf(op) <=> op = "updateBranding"
           /\ "tenantWrite" \in StepsOf(op) <=> op = "updateTenant"
           /\ "keyWrite" \in StepsOf(op) <=> op = "regenerateKey"
           /\ "adminInsert" \in StepsOf(op) <=> op \in {"token", "seed"}
           /\ "adminReread" \in StepsOf(op) <=> op \in {"token", "seed"}
           /\ "seedList" \in StepsOf(op) <=> op = "seed"
           /\ "seedInsert" \in StepsOf(op) <=> op = "seed"
           /\ "configInsert" \in StepsOf(op) <=> op = "createConfig"
           /\ "configClear" \in StepsOf(op) <=> op = "updateConfig"
           /\ "configWrite" \in StepsOf(op) <=> op = "updateConfig"
           /\ "templateWrite" \in StepsOf(op) <=> op = "updateTemplate"
           /\ "analyse" \in StepsOf(op) <=> op \in {"analyse", "linkCheck"}
           /\ "mailDefault" \in StepsOf(op) <=> op = "createMail"
           /\ "mailConfig" \in StepsOf(op) <=> op = "createMail"
           /\ "mailTemplate" \in StepsOf(op) <=> op = "createMail"
           /\ "mailStore" \in StepsOf(op) <=> op = "createMail"
           /\ "mailInsert" \in StepsOf(op) <=> op = "createMail"
           /\ "brandWrite" \in StepsOf(op) <=> op = "updateBranding"
           /\ "brandApply" \in StepsOf(op) <=> op = "updateBranding"
           /\ "brandReread" \in StepsOf(op) <=> op = "updateBranding"
           /\ \A s \in Ops \ {"analyse"} : s \in StepsOf(op) <=> s = op
BY DEF StepsOf, Ops, AdminOps, Open

\* What TypeOK says of one request after a step of its own.
Walks(r) ==
    /\ Alone(r)
    /\ at'[r] \in StepsOf(call[r].op)
    /\ answer'[r] = 0 <=> at'[r] # "done"

LEMMA Walking ==
    ASSUME Shape, TypeOK, NEW r \in Requests, at[r] # "done",
           Ends(r) \/ \E s \in StepsOf(call[r].op) \ {"done"} : Goes(r, s)
    PROVE  Walks(r)
<1>1. call[r].op \in Ops /\ "done" \in StepsOf(call[r].op)
    BY Kinds DEF Shape
<1>2. answer[r] = 0
    BY DEF TypeOK
<1>3. QED
    BY <1>1, <1>2 DEF Walks, Ends, Goes

LEMMA TenantWalks ==
    ASSUME Shape, TypeOK, NEW r \in Requests, TenantStep(r)
    PROVE  Walks(r)
<1>0. call[r].op \in Ops /\ at[r] \in StepsOf(call[r].op)
    BY DEF Shape, TypeOK
<1> USE <1>0, Outcomes, Kinds
<1>1. \A i : Found(r, i) => Ends(r) \/ (call[r].op # "token" /\ Goes(r, "seedList"))
    BY DEF Found
<1>2. CASE TenantContext(r)
    BY <1>2, Walking DEF TenantContext
<1>3. CASE CreateTenant(r) \/ GetTenant(r) \/ DeleteTenant(r) \/ WriteTenant(r) \/ WriteKey(r)
    <2>1. Ends(r)
        BY <1>3 DEF CreateTenant, GetTenant, DeleteTenant, WriteTenant, WriteKey, StatusOf
    <2>2. at[r] # "done"
        BY <1>3 DEF CreateTenant, GetTenant, DeleteTenant, WriteTenant, WriteKey
    <2>3. QED
        BY <2>1, <2>2, Walking
<1>4. CASE ReadTenant(r)
    <2>1. at[r] = "updateTenant" /\ call[r].op = at[r]
        BY <1>4 DEF ReadTenant
    <2>2. Ends(r) \/ Goes(r, "tenantWrite")
        BY <1>4 DEF ReadTenant, StatusOf
    <2>3. QED
        BY <2>1, <2>2, Walking
<1>5. CASE ReadForKey(r)
    <2>1. at[r] = "regenerateKey" /\ call[r].op = at[r]
        BY <1>5 DEF ReadForKey
    <2>2. Ends(r) \/ Goes(r, "keyWrite")
        BY <1>5 DEF ReadForKey, StatusOf
    <2>3. QED
        BY <2>1, <2>2, Walking
<1>6. CASE TokenOfKey(r)
    BY <1>6, Walking DEF TokenOfKey, StatusOf
<1>7. CASE ReadAdmin(r)
    <2>1. at[r] \in {"token", "seed"} /\ call[r].op = at[r]
        BY <1>7 DEF ReadAdmin, Ops, Open
    <2>2. Ends(r) \/ (call[r].op # "token" /\ Goes(r, "seedList")) \/ Goes(r, "adminInsert")
        BY <1>1, <1>7 DEF ReadAdmin
    <2>3. QED
        BY <2>1, <2>2, Walking
<1>8. CASE InsertAdmin(r) \/ RereadAdmin(r)
    <2>1. at[r] \in {"adminInsert", "adminReread"} /\ call[r].op \in {"token", "seed"}
        BY <1>8 DEF InsertAdmin, RereadAdmin
    <2>2. Ends(r) \/ (call[r].op # "token" /\ Goes(r, "seedList")) \/ Goes(r, "adminReread")
        BY <1>1, <1>8 DEF InsertAdmin, RereadAdmin, StatusOf
    <2>3. QED
        BY <2>1, <2>2, Walking
<1>9. QED
    BY <1>2, <1>3, <1>4, <1>5, <1>6, <1>7, <1>8 DEF TenantStep

LEMMA ConfigWalks ==
    ASSUME Shape, TypeOK, NEW r \in Requests, ConfigStep(r)
    PROVE  Walks(r)
<1>0. call[r].op \in Ops /\ at[r] \in StepsOf(call[r].op)
    BY DEF Shape, TypeOK
<1> USE <1>0, Outcomes, Kinds DEF StatusOf
<1>1. \A id, row : Store(r, id, row, 200) \/ Store(r, id, row, 201) => Ends(r)
    BY DEF Store
<1>2. CASE CreateConfig(r)
    BY <1>2, Walking DEF CreateConfig, CheckedConfig, Ops
<1>3. CASE ReadConfig(r)
    BY <1>3, Walking DEF ReadConfig, Ops
<1>4. CASE ClearDefault(r)
    BY <1>4, Walking DEF ClearDefault
<1>5. CASE InsertConfig(r) \/ WriteConfig(r) \/ DeleteConfig(r) \/ TestConfig(r) \/ SeedConfig(r)
    <2>1. Ends(r)
        BY <1>1, <1>5 DEF InsertConfig, WriteConfig, DeleteConfig, TestConfig, SeedConfig
    <2>2. at[r] # "done"
        BY <1>5 DEF InsertConfig, WriteConfig, DeleteConfig, TestConfig, SeedConfig
    <2>3. QED
        BY <2>1, <2>2, Walking
<1>6. CASE ListConfigs(r)
    BY <1>6, Walking DEF ListConfigs
<1>7. QED
    BY <1>2, <1>3, <1>4, <1>5, <1>6 DEF ConfigStep

LEMMA TemplateWalks ==
    ASSUME Shape, TypeOK, NEW r \in Requests, TemplateStep(r)
    PROVE  Walks(r)
<1>0. call[r].op \in Ops /\ at[r] \in StepsOf(call[r].op)
    BY DEF Shape, TypeOK
<1> USE <1>0, Outcomes, Kinds DEF StatusOf
<1>1. \A row, data : RenderReply(r, row, data) => Ends(r)
    BY DEF RenderReply
<1>2. CASE CreateTemplate(r) \/ WriteTemplate(r) \/ DeleteTemplate(r) \/ Preview(r) \/ Analyse(r)
    <2>1. Ends(r)
        BY <1>1, <1>2 DEF CreateTemplate, WriteTemplate, DeleteTemplate, Preview, Analyse
    <2>2. at[r] # "done"
        BY <1>2 DEF CreateTemplate, WriteTemplate, DeleteTemplate, Preview, Analyse
    <2>3. QED
        BY <2>1, <2>2, Walking
<1>3. CASE ReadTemplate(r)
    BY <1>3, Walking DEF ReadTemplate, Ops
<1>4. CASE TakeLinkCheck(r)
    BY <1>4, Walking DEF TakeLinkCheck, Ops
<1>5. QED
    BY <1>2, <1>3, <1>4 DEF TemplateStep

LEMMA MailWalks ==
    ASSUME Shape, TypeOK, NEW r \in Requests, MailStep(r)
    PROVE  Walks(r)
<1>0. call[r].op \in Ops /\ at[r] \in StepsOf(call[r].op)
    BY DEF Shape, TypeOK
<1> USE <1>0, Outcomes, Kinds DEF StatusOf
<1>1. CASE ReadMailTenant(r)
    BY <1>1, Walking DEF ReadMailTenant, Ops
<1>2. CASE ReadMailConfig(r)
    <2>1. \A id : WithConfig(r, id) => Goes(r, "mailTemplate")
        BY DEF WithConfig
    <2>2. at[r] \in {"mailConfig", "mailDefault"} /\ (Ends(r) \/ Goes(r, "mailTemplate"))
        BY <1>2, <2>1 DEF ReadMailConfig
    <2>3. QED
        BY <2>2, Walking
<1>3. CASE ReadMailTemplate(r)
    <2>1. at[r] = "mailTemplate" /\ (Ends(r) \/ Goes(r, "mailStore"))
        BY <1>3 DEF ReadMailTemplate
    <2>2. QED
        BY <2>1, Walking
<1>4. CASE StoreAttachment(r)
    <2>1. Code(r, StatusOf.other) # 0
        BY DEF Code
    <2>2. at[r] = "mailStore" /\ (Ends(r) \/ Goes(r, "mailStore"))
        BY <1>4, <2>1 DEF StoreAttachment, AtFile
    <2>3. QED
        BY <2>2, Walking
<1>5. CASE CheckRecipients(r)
    BY <1>5, Walking DEF CheckRecipients
<1>6. CASE InsertMail(r)
    BY <1>6, Walking DEF InsertMail
<1>7. QED
    BY <1>1, <1>2, <1>3, <1>4, <1>5, <1>6 DEF MailStep

LEMMA BrandWalks ==
    ASSUME Shape, TypeOK, NEW r \in Requests, BrandStep(r)
    PROVE  Walks(r)
<1>0. call[r].op \in Ops /\ at[r] \in StepsOf(call[r].op)
    BY DEF Shape, TypeOK
<1> USE <1>0, Outcomes, Kinds DEF StatusOf
<1>1. CASE ReadBranding(r)
    <2>1. at[r] = "updateBranding" /\ call[r].op = at[r]
        BY <1>1 DEF ReadBranding
    <2>2. Ends(r) \/ Goes(r, "brandWrite")
        BY <1>1 DEF ReadBranding
    <2>3. QED
        BY <2>1, <2>2, Walking
<1>2. CASE WriteBranding(r) \/ ApplyTimezone(r)
    BY <1>2, Walking DEF WriteBranding, ApplyTimezone
<1>3. CASE RereadBranding(r) \/ UploadLogo(r) \/ GetLogo(r)
    BY <1>3, Walking DEF RereadBranding, UploadLogo, GetLogo
<1>4. QED
    BY <1>1, <1>2, <1>3 DEF BrandStep

LEMMA HandleWalks ==
    ASSUME Shape, TypeOK, NEW r \in Requests, Handle(r)
    PROVE  Walks(r)
<1>1. CASE QueryFails(r)
    <2>1. PICK c \in {401, Code(r, StatusOf.smtpNotSet), Code(r, StatusOf.other)} : GiveUp(r, c)
        BY <1>1 DEF QueryFails
    <2>2. c # 0
        BY DEF Code, StatusOf
    <2>3. at[r] # "done"
        BY <1>1 DEF QueryFails, AtQuery
    <2>4. QED
        BY <2>1, <2>2, <2>3, Outcomes, Walking
<1>2. QED
    BY <1>1, TenantWalks, ConfigWalks, TemplateWalks, MailWalks, BrandWalks DEF Handle

\* The mails: a handler inserts its own, the worker keeps the tables as large as they are.
LEMMA HandleMails ==
    ASSUME TypeOK, NEW r \in Requests, Handle(r)
    PROVE  DOMAIN mail' \subseteq Requests /\ DOMAIN job' = Requests
<1>1. DOMAIN Detached = DOMAIN mail
    BY DEF Detached
<1>2. CASE MailStep(r)
    <2>1. UNCHANGED job /\ (UNCHANGED mail \/ InsertMail(r))
        BY <1>2, MailFrame DEF workerVars
    <2>2. InsertMail(r) => DOMAIN mail' \subseteq DOMAIN mail \cup {r}
        BY DEF InsertMail, Put
    <2>3. QED
        BY <2>1, <2>2 DEF TypeOK
<1>3. QED
    BY <1>1, <1>2 DEF TypeOK, Handle, QueryFails, apiVars, mailVars, workerVars

LEMMA WorkerMails ==
    ASSUME TypeOK, NEW m \in Requests, WorkerStep(m)
    PROVE  DOMAIN mail' = DOMAIN mail /\ DOMAIN job' = Requests /\ hit' \subseteq Requests
<1>1. \A copy : Advance(m, copy) => DOMAIN job' = Requests
    BY DEF Advance, TypeOK
<1>2. FailMail(m) => DOMAIN mail' = DOMAIN mail /\ DOMAIN job' = Requests
    BY <1>1 DEF FailMail
<1>3. \A x : Finish(m, x) => DOMAIN mail' = DOMAIN mail /\ DOMAIN job' = Requests
    BY <1>1, <1>2 DEF Finish
<1>4. hit' \in {hit, hit \cup {m}}
    BY DEF WorkerStep, LoadMail, FillFields, FindConfig, Hit, reqVars
<1>5. DOMAIN mail' = DOMAIN mail /\ DOMAIN job' = Requests
    BY <1>1, <1>2, <1>3 DEF WorkerStep, LoadMail, FillFields, FindConfig
<1>6. QED
    BY <1>4, <1>5 DEF TypeOK

LEMMA TypeInit == Init => TypeOK
<1> SUFFICES ASSUME Init PROVE TypeOK OBVIOUS
<1>1. /\ call \in Arrivals /\ hit = {} /\ answer = [r \in Requests |-> 0]
      /\ at = [r \in Requests |-> IF call[r].op \in Open THEN call[r].op ELSE "enter"]
    BY DEF Init, ReqInit
<1>2. wrote = {} /\ filed = {} /\ clash = {} /\ DOMAIN mail = {} /\ DOMAIN job = Requests
    BY DEF Init
<1>3. ASSUME NEW r \in Requests
      PROVE  at[r] \in StepsOf(call[r].op) /\ at[r] # "done" /\ answer[r] = 0
    <2>1. call[r].op \in Ops
        BY <1>1, ArrivalsAssumption DEF Decoded
    <2>2. call[r].op \notin Open => "enter" \in StepsOf(call[r].op)
        BY <2>1 DEF StepsOf, Open, Ops, AdminOps
    <2>3. QED
        BY <1>1, <2>1, <2>2, Kinds
<1>4. QED
    BY <1>1, <1>2, <1>3 DEF TypeOK

LEMMA TypeStep == KeyInv /\ TypeOK /\ [Next]_vars => TypeOK'
<1> SUFFICES ASSUME Shape, TypeOK, [Next]_vars PROVE TypeOK'
    BY DEF KeyInv
<1>1. ASSUME NEW r \in Requests, RequestStep(r) PROVE TypeOK'
    <2>1. Handle(r) /\ Walks(r)
        BY <1>1, HandleWalks DEF RequestStep
    <2>2. /\ wrote' \subseteq Requests /\ filed' \subseteq Requests
          /\ clash' \subseteq {"tenant", "smtp", "tmpl", "brand"}
        BY <1>1 DEF RequestStep, Clashes, TypeOK
    <2>3. hit' \subseteq Requests
        BY <2>1 DEF Walks, Alone, TypeOK
    <2>4. ASSUME NEW q \in Requests
          PROVE  at'[q] \in StepsOf(call'[q].op) /\ (answer'[q] = 0 <=> at'[q] # "done")
        BY <2>1 DEF Walks, Alone, TypeOK
    <2>5. QED
        BY <2>1, <2>2, <2>3, <2>4, HandleMails DEF TypeOK
<1>2. ASSUME NEW m \in Requests, WorkerStep(m), UNCHANGED <<wrote, filed, clash>> PROVE TypeOK'
    <2>1. UNCHANGED <<call, at, answer>>
        BY <1>2 DEF WorkerStep, LoadMail, FillFields, FindConfig, reqVars
    <2>2. QED
        BY <1>2, <2>1, WorkerMails DEF TypeOK
<1>3. CASE UNCHANGED <<call, at, answer, hit, wrote, filed, clash, mail, job>>
    BY <1>3 DEF TypeOK
<1>4. QED
    BY <1>1, <1>2, <1>3 DEF Next, LinkCheckExpires, reqVars, mailVars, workerVars, templateVars,
       vars, apiVars

\* A request is only ever at a step of its own handler, and has an answer exactly when
\* its handler has returned: no handler answers and goes on (TenantContext, the handlers
\* and services under internal/handler and internal/service).
THEOREM TypesHold == Spec => []TypeOK
<1>1. Init => KeyInv /\ TypeOK
    BY InitSound, TypeInit
<1>2. KeyInv /\ TypeOK /\ [Next]_vars => (KeyInv /\ TypeOK)'
    BY StepSound, TypeStep
<1>3. QED
    BY <1>1, <1>2, PTL DEF Spec

-----------------------------------------------------------------------------
(* RowsStayApart: the id of a row that is gone names no other row later,    *)
(* because a new row takes the id of a request that has not answered yet.   *)

ConfigFields == {"tenant", "default", "active"}
TemplateFields == {"tenant", "slug", "text", "needs"}
IntakeFields == {"settings", "smtp", "complete", "next"}
MailFields == {"tenant", "smtp", "tmpl", "text", "data", "status"}

ConfigRow(row) == DOMAIN row = ConfigFields /\ row.default \in BOOLEAN /\ row.active \in BOOLEAN
TemplateRow(row) == DOMAIN row = TemplateFields
MailRow(row) == row = [c \in MailFields |-> row[c]]

\* No request will insert a row under this id any more.
Settled(id) == id \in Requests => at[id] = "done"

OwnConfig(id, t) == id \in DOMAIN smtp => smtp[id].tenant = t
OwnTemplate(id, t) == id \in DOMAIN tmpl => tmpl[id].tenant = t

Tables ==
    /\ \A r \in Requests : Decoded(call[r])
    /\ \A i \in DOMAIN smtp : i # Nothing /\ Settled(i) /\ ConfigRow(smtp[i])
    /\ \A i \in DOMAIN tmpl : i # Nothing /\ Settled(i) /\ TemplateRow(tmpl[i])
    /\ mail = [m \in DOMAIN mail |-> mail[m]]

\* What a handler has read and will write back, or refer to, is its tenant's own.
RowSteps ==
    {"configClear", "configWrite", "templateWrite", "mailTemplate", "mailStore", "mailInsert"}

HeldRow(r) ==
    LET c == call[r] IN
    /\ at[r] \in {"configClear", "configWrite"} =>
         /\ ConfigRow(held[r]) /\ held[r].tenant = c.tenant
         /\ Settled(c.id) /\ OwnConfig(c.id, c.tenant)
    /\ at[r] = "templateWrite" =>
         /\ TemplateRow(held[r]) /\ held[r].tenant = c.tenant
         /\ Settled(c.id) /\ OwnTemplate(c.id, c.tenant)
    /\ at[r] \in {"mailTemplate", "mailStore", "mailInsert"} =>
         /\ DOMAIN held[r] = IntakeFields
         /\ Settled(held[r].smtp) /\ OwnConfig(held[r].smtp, c.tenant)
    /\ at[r] \in {"mailStore", "mailInsert"} =>
         Settled(c.ask.tmpl) /\ OwnTemplate(c.ask.tmpl, c.tenant)

Refers(m) ==
    /\ MailRow(mail[m])
    /\ mail[m].smtp \in DOMAIN smtp \cup {Nothing} /\ OwnConfig(mail[m].smtp, mail[m].tenant)
    /\ mail[m].tmpl \in DOMAIN tmpl \cup {Nothing} /\ OwnTemplate(mail[m].tmpl, mail[m].tenant)

RowInv == Tables /\ (\A r \in Requests : HeldRow(r)) /\ (\A m \in DOMAIN mail : Refers(m))

\* What a step of a request that is not done yet may do to the two tables: rows keep
\* their tenant, only a request that is answered with it has inserted one.
KeepsConfigs(r) ==
    \A i \in DOMAIN smtp' :
        /\ ConfigRow(smtp'[i])
        /\ \/ i \in DOMAIN smtp /\ smtp'[i].tenant = smtp[i].tenant
           \/ i = r /\ at'[r] = "done"

KeepsTemplates(r) ==
    \A i \in DOMAIN tmpl' :
        /\ TemplateRow(tmpl'[i])
        /\ \/ i \in DOMAIN tmpl /\ tmpl'[i].tenant = tmpl[i].tenant
           \/ i = r /\ at'[r] = "done"

KeepsTables(r) == Alone(r) /\ at[r] # "done" /\ KeepsConfigs(r) /\ KeepsTemplates(r)

LEMMA SettledStays ==
    ASSUME NEW r \in Requests, KeepsTables(r), NEW id, Settled(id)
    PROVE  /\ Settled(id)' /\ id # r
           /\ \A t : OwnConfig(id, t) => OwnConfig(id, t)'
           /\ \A t : OwnTemplate(id, t) => OwnTemplate(id, t)'
<1>1. id # r
    BY DEF KeepsTables, KeepsConfigs, KeepsTemplates, Settled
<1>2. Settled(id)'
    BY <1>1 DEF KeepsTables, KeepsConfigs, KeepsTemplates, Alone, Settled
<1>3. ASSUME NEW t, OwnConfig(id, t) PROVE OwnConfig(id, t)'
    BY <1>1, <1>3 DEF KeepsTables, KeepsConfigs, KeepsTemplates, OwnConfig
<1>4. ASSUME NEW t, OwnTemplate(id, t) PROVE OwnTemplate(id, t)'
    BY <1>1, <1>4 DEF KeepsTables, KeepsConfigs, KeepsTemplates, OwnTemplate
<1>5. QED
    BY <1>1, <1>2, <1>3, <1>4

LEMMA TablesStay ==
    ASSUME RowInv, NEW r \in Requests, KeepsTables(r),
           mail' = [m \in DOMAIN mail' |-> mail'[m]]
    PROVE  Tables'
<1>1. \A q \in Requests : Decoded(call[q])'
    BY DEF RowInv, Tables, KeepsTables, KeepsConfigs, KeepsTemplates, Alone, Decoded
<1>2. ASSUME NEW i \in DOMAIN smtp' PROVE i # Nothing /\ Settled(i)' /\ ConfigRow(smtp'[i])
    <2>1. CASE i \in DOMAIN smtp
        BY <2>1, SettledStays DEF RowInv, Tables, KeepsTables, KeepsConfigs, KeepsTemplates
    <2>2. CASE i = r /\ at'[r] = "done"
        BY <2>2, NothingAssumption DEF KeepsTables, KeepsConfigs, KeepsTemplates, Settled
    <2>3. QED
        BY <2>1, <2>2 DEF KeepsTables, KeepsConfigs, KeepsTemplates
<1>3. ASSUME NEW i \in DOMAIN tmpl' PROVE i # Nothing /\ Settled(i)' /\ TemplateRow(tmpl'[i])
    <2>1. CASE i \in DOMAIN tmpl
        BY <2>1, SettledStays DEF RowInv, Tables, KeepsTables, KeepsConfigs, KeepsTemplates
    <2>2. CASE i = r /\ at'[r] = "done"
        BY <2>2, NothingAssumption DEF KeepsTables, KeepsConfigs, KeepsTemplates, Settled
    <2>3. QED
        BY <2>1, <2>2 DEF KeepsTables, KeepsConfigs, KeepsTemplates
<1>4. QED
    BY <1>1, <1>2, <1>3 DEF Tables, ConfigRow, TemplateRow

\* The other handlers still hold what they held.
LEMMA OthersHold ==
    ASSUME RowInv, NEW r \in Requests, KeepsTables(r), NEW q \in Requests, q # r
    PROVE  HeldRow(q)'
<1>1. at'[q] = at[q] /\ held'[q] = held[q] /\ call' = call /\ HeldRow(q)
    BY DEF RowInv, KeepsTables, KeepsConfigs, KeepsTemplates, Alone
<1>2. \A id, t : Settled(id) => Settled(id)' /\ (OwnConfig(id, t) => OwnConfig(id, t)')
                                /\ (OwnTemplate(id, t) => OwnTemplate(id, t)')
    BY SettledStays
<1>3. ASSUME at[q] \in {"configClear", "configWrite"}
      PROVE  /\ ConfigRow(held[q])' /\ (held[q].tenant = call[q].tenant)'
             /\ Settled(call[q].id)' /\ OwnConfig(call[q].id, call[q].tenant)'
    BY <1>1, <1>2, <1>3 DEF HeldRow, ConfigRow
<1>4. ASSUME at[q] = "templateWrite"
      PROVE  /\ TemplateRow(held[q])' /\ (held[q].tenant = call[q].tenant)'
             /\ Settled(call[q].id)' /\ OwnTemplate(call[q].id, call[q].tenant)'
    BY <1>1, <1>2, <1>4 DEF HeldRow, TemplateRow
<1>5. ASSUME at[q] \in {"mailTemplate", "mailStore", "mailInsert"}
      PROVE  /\ DOMAIN held'[q] = IntakeFields
             /\ Settled(held[q].smtp)' /\ OwnConfig(held[q].smtp, call[q].tenant)'
    BY <1>1, <1>2, <1>5 DEF HeldRow
<1>6. ASSUME at[q] \in {"mailStore", "mailInsert"}
      PROVE  Settled(call[q].ask.tmpl)' /\ OwnTemplate(call[q].ask.tmpl, call[q].tenant)'
    BY <1>1, <1>2, <1>6 DEF HeldRow
<1>7. QED
    BY <1>1, <1>3, <1>4, <1>5, <1>6 DEF HeldRow

\* Mails of the tables before the step, in which the rows that are gone are unset.
LEMMA DetachedRefers ==
    ASSUME RowInv, NEW r \in Requests, KeepsTables(r), mail' = Detached, NEW m \in DOMAIN mail'
    PROVE  Refers(m)'
<1> DEFINE row == [mail[m] EXCEPT !.smtp = IF @ \in DOMAIN smtp' THEN @ ELSE Nothing,
                                  !.tmpl = IF @ \in DOMAIN tmpl' THEN @ ELSE Nothing]
<1>1. m \in DOMAIN mail /\ mail'[m] = row
    BY DEF Detached
<1>2. /\ DOMAIN mail[m] = MailFields /\ Refers(m)
    BY <1>1 DEF RowInv, Refers, MailRow
<1>3. row = [c \in MailFields |-> row[c]]
    BY <1>2
<1>4. /\ row.tenant = mail[m].tenant
      /\ row.smtp \in {mail[m].smtp, Nothing} /\ row.smtp \in DOMAIN smtp' \cup {Nothing}
      /\ row.tmpl \in {mail[m].tmpl, Nothing} /\ row.tmpl \in DOMAIN tmpl' \cup {Nothing}
    BY <1>2 DEF MailFields
<1> HIDE DEF row
<1>5. Settled(mail[m].smtp) /\ Settled(mail[m].tmpl)
    BY <1>2, NothingAssumption DEF Refers, RowInv, Tables, Settled
<1>6. Tables' => Nothing \notin DOMAIN smtp' /\ Nothing \notin DOMAIN tmpl'
    BY DEF Tables
<1>7. Tables'
    BY TablesStay DEF Detached
<1>8. /\ row.smtp \in DOMAIN smtp' => smtp'[row.smtp].tenant = row.tenant
      /\ row.tmpl \in DOMAIN tmpl' => tmpl'[row.tmpl].tenant = row.tenant
    <2>1. /\ mail[m].smtp \in DOMAIN smtp' => smtp'[mail[m].smtp].tenant = mail[m].tenant
          /\ mail[m].tmpl \in DOMAIN tmpl' => tmpl'[mail[m].tmpl].tenant = mail[m].tenant
        <3>1. ASSUME NEW id, NEW t, Settled(id), OwnConfig(id, t)
              PROVE  id \in DOMAIN smtp' => smtp'[id].tenant = t
            BY <3>1, SettledStays DEF OwnConfig
        <3>2. ASSUME NEW id, NEW t, Settled(id), OwnTemplate(id, t)
              PROVE  id \in DOMAIN tmpl' => tmpl'[id].tenant = t
            BY <3>2, SettledStays DEF OwnTemplate
        <3>3. QED
            BY <1>2, <1>5, <3>1, <3>2 DEF Refers
    <2>2. QED
        BY <1>4, <1>6, <1>7, <2>1
<1>9. QED
    BY <1>1, <1>3, <1>4, <1>8 DEF Refers, MailRow, OwnConfig, OwnTemplate

LEMMA RowsKept ==
    ASSUME RowInv, NEW r \in Requests, KeepsTables(r), HeldRow(r)',
           mail' = [m \in DOMAIN mail' |-> mail'[m]], \A m \in DOMAIN mail' : Refers(m)'
    PROVE  RowInv'
BY TablesStay, OthersHold DEF RowInv

\* A step that is about neither table.
LEMMA AsideRows ==
    ASSUME RowInv, NEW r \in Requests, Alone(r), at[r] # "done", at'[r] \notin RowSteps,
           UNCHANGED <<smtp, tmpl, mail>>
    PROVE  RowInv'
<1>1. KeepsTables(r)
    BY DEF KeepsTables, KeepsConfigs, KeepsTemplates, RowInv, Tables
<1>2. HeldRow(r)'
    BY DEF HeldRow, RowSteps
<1>3. \A m \in DOMAIN mail' : Refers(m)'
    BY DEF RowInv, Refers, OwnConfig, OwnTemplate
<1>4. mail' = [m \in DOMAIN mail' |-> mail'[m]]
    BY DEF RowInv, Tables
<1>5. QED
    BY <1>1, <1>2, <1>3, <1>4, RowsKept

\* A step on one of the two tables takes the mails along.
LEMMA DetachedRows ==
    ASSUME RowInv, NEW r \in Requests, KeepsTables(r), HeldRow(r)', mail' = Detached
    PROVE  RowInv'
<1>1. mail' = [m \in DOMAIN mail' |-> mail'[m]]
    BY DEF Detached
<1>2. QED
    BY <1>1, DetachedRefers, RowsKept

LEMMA KeptConfigs ==
    ASSUME RowInv, NEW r \in Requests
    PROVE  /\ UNCHANGED smtp => KeepsConfigs(r)
           /\ \A t : smtp' = Cleared(t) => KeepsConfigs(r)
           /\ \A id : smtp' = Remove(smtp, id) => KeepsConfigs(r)
           /\ \A id, row : /\ ConfigRow(row) /\ smtp' = Put(smtp, id, row)
                           /\ \/ id = r /\ at'[r] = "done"
                              \/ id \in DOMAIN smtp /\ smtp[id].tenant = row.tenant
                           => KeepsConfigs(r)
<1>1. \A i \in DOMAIN smtp : ConfigRow(smtp[i])
    BY DEF RowInv, Tables
<1>2. ASSUME NEW t, smtp' = Cleared(t) PROVE KeepsConfigs(r)
    <2>1. ASSUME NEW i \in DOMAIN smtp'
          PROVE  i \in DOMAIN smtp /\ ConfigRow(smtp'[i]) /\ smtp'[i].tenant = smtp[i].tenant
        BY <1>1, <1>2 DEF Cleared, ConfigRow, ConfigFields
    <2>2. QED
        BY <2>1 DEF KeepsConfigs
<1>3. QED
    BY <1>1, <1>2 DEF KeepsConfigs, Remove, Put

LEMMA KeptTemplates ==
    ASSUME RowInv, NEW r \in Requests
    PROVE  /\ UNCHANGED tmpl => KeepsTemplates(r)
           /\ \A id : tmpl' = Remove(tmpl, id) => KeepsTemplates(r)
           /\ \A id, row : /\ TemplateRow(row) /\ tmpl' = Put(tmpl, id, row)
                           /\ \/ id = r /\ at'[r] = "done"
                              \/ id \in DOMAIN tmpl /\ tmpl[id].tenant = row.tenant
                           => KeepsTemplates(r)
BY DEF RowInv, Tables, KeepsTemplates, Remove, Put

LEMMA StoreRows ==
    ASSUME Shape, RowInv, NEW r \in Requests, NEW id, NEW row, NEW code, Store(r, id, row, code),
           ConfigRow(row), id = r \/ (id \in DOMAIN smtp /\ smtp[id].tenant = row.tenant)
    PROVE  KeepsConfigs(r) /\ Alone(r) /\ at'[r] = "done"
<1>1. Alone(r) /\ at'[r] = "done"
    BY Replies DEF Store
<1>2. QED
    BY <1>1, KeptConfigs DEF Store

\* The row an update writes back is of the tenant it was read for.
LEMMA EditedRow ==
    ASSUME RowInv, NEW r \in Requests, call[r].op = "updateConfig",
           Owned(smtp, call[r].id, call[r].tenant)
    PROVE  LET row == Edited(r, smtp[call[r].id]) IN
           /\ ConfigRow(row) /\ row.tenant = call[r].tenant
           /\ Settled(call[r].id) /\ OwnConfig(call[r].id, call[r].tenant)
<1> DEFINE old == smtp[call[r].id]
           new == Over(call[r].ask, old)
<1>1. Decoded(call[r])
    BY DEF RowInv, Tables
<1>2. ConfigRow(old) /\ old.tenant = call[r].tenant
    BY DEF RowInv, Tables, Owned
<1>3. /\ DOMAIN new = ConfigFields /\ new.tenant = call[r].tenant
      /\ new.active \in BOOLEAN /\ (old.default \/ AskedDefault(r)) \in BOOLEAN
    BY <1>1, <1>2 DEF Over, ConfigRow, ConfigFields, Decoded
<1> HIDE DEF new
<1>4. Edited(r, old) = [new EXCEPT !.default = old.default \/ AskedDefault(r)]
    BY DEF Edited, new
<1> HIDE DEF old
<1>5. ConfigRow(Edited(r, old)) /\ Edited(r, old).tenant = call[r].tenant
    BY <1>3, <1>4 DEF ConfigRow, ConfigFields
<1>6. Settled(call[r].id) /\ OwnConfig(call[r].id, call[r].tenant)
    BY DEF RowInv, Tables, Owned, OwnConfig
<1>7. QED
    BY <1>5, <1>6 DEF old

LEMMA ConfigRows ==
    ASSUME Shape, TypeOK, RowInv, NEW r \in Requests, ConfigStep(r), UNCHANGED tmpl,
           mail' = Detached
    PROVE  RowInv'
<1>0. call[r].op \in Ops /\ at[r] \in StepsOf(call[r].op) /\ Alone(r) /\ at[r] # "done"
    BY ConfigWalks DEF Shape, TypeOK, Walks, ConfigStep, CreateConfig, InsertConfig, ReadConfig,
                       ClearDefault, WriteConfig, DeleteConfig, TestConfig, ListConfigs, SeedConfig
<1>a. \A s : s \notin RowSteps /\ at'[r] = s => HeldRow(r)'
    BY DEF HeldRow, RowSteps
<1>1. CASE CreateConfig(r)
    <2>1. at'[r] \in {"done", "configInsert"}
        BY <1>1, Ways, Replies DEF CreateConfig, CheckedConfig
    <2>2. QED
        BY <1>0, <1>a, <1>1, <2>1, KeptConfigs, KeptTemplates, DetachedRows
           DEF CreateConfig, RowSteps, KeepsTables
<1>2. CASE InsertConfig(r)
    <2>1. call[r].op = "createConfig"
        BY <1>0, <1>2, Kinds DEF InsertConfig
    <2>2. ConfigRow(NewConfig(r))
        BY <2>1 DEF RowInv, Tables, Decoded, NewConfig, ConfigRow, ConfigFields
    <2>3. KeepsConfigs(r) /\ at'[r] = "done"
        BY <1>2, <2>2, StoreRows DEF InsertConfig
    <2>4. QED
        BY <1>0, <1>a, <2>3, KeptTemplates, DetachedRows DEF RowSteps, KeepsTables
<1>3. CASE ReadConfig(r)
    <2>1. call[r].op = "updateConfig" /\ UNCHANGED smtp
        BY <1>0, <1>3, Kinds DEF ReadConfig, Ops
    <2>2. KeepsTables(r)
        BY <1>0, <2>1, KeptConfigs, KeptTemplates DEF KeepsTables
    <2>3. CASE at'[r] = "done"
        BY <1>a, <2>2, <2>3, DetachedRows DEF RowSteps
    <2>4. CASE at'[r] # "done"
        <3>1. /\ Owned(smtp, call[r].id, call[r].tenant)
              /\ held'[r] = Edited(r, smtp[call[r].id])
              /\ at'[r] \in {"configClear", "configWrite"} /\ call' = call
            BY <1>0, <1>3, <2>4, Ways, Replies DEF ReadConfig, Alone
        <3>2. HeldRow(r)'
            <4>1. /\ ConfigRow(held'[r]) /\ held'[r].tenant = call[r].tenant
                  /\ Settled(call[r].id) /\ OwnConfig(call[r].id, call[r].tenant)
                BY <2>1, <3>1, EditedRow
            <4>2. Settled(call[r].id)' /\ OwnConfig(call[r].id, call[r].tenant)'
                <5>1. call'[r].id = call[r].id /\ call'[r].tenant = call[r].tenant
                    BY <3>1
                <5>2. QED
                    BY <1>0, <2>1, <4>1, <5>1 DEF Settled, OwnConfig, Alone
            <4>3. QED
                BY <3>1, <4>1, <4>2 DEF HeldRow, ConfigRow
        <3>3. QED
            BY <2>2, <3>2, DetachedRows
    <2>5. QED
        BY <2>3, <2>4
<1>4. CASE ClearDefault(r)
    <2>1. at[r] = "configClear" /\ at'[r] = "configWrite" /\ held' = held /\ HeldRow(r)
        BY <1>4, Ways DEF ClearDefault, RowInv
    <2>2. KeepsTables(r)
        BY <1>0, <1>4, KeptConfigs, KeptTemplates DEF KeepsTables, ClearDefault
    <2>3. ASSUME NEW id, NEW t, Settled(id), OwnConfig(id, t)
          PROVE  (id \in Requests => at'[id] = "done") /\ (id \in DOMAIN smtp' => smtp'[id].tenant = t)
        BY <2>2, <2>3, SettledStays DEF Settled, OwnConfig
    <2>4. HeldRow(r)'
        <3> DEFINE id == call[r].id  t == call[r].tenant
        <3>1. ConfigRow(held[r]) /\ held[r].tenant = t /\ Settled(id) /\ OwnConfig(id, t)
            BY <2>1 DEF HeldRow
        <3>2. (id \in Requests => at'[id] = "done") /\ (id \in DOMAIN smtp' => smtp'[id].tenant = t)
            BY <2>3, <3>1
        <3>3. call' = call
            BY <1>0 DEF Alone
        <3>4. Settled(call[r].id)' /\ OwnConfig(call[r].id, call[r].tenant)'
            BY <3>2, <3>3 DEF Settled, OwnConfig
        <3>5. ConfigRow(held[r])' /\ held'[r].tenant = t
            BY <2>1, <3>1 DEF ConfigRow
        <3>6. QED
            BY <2>1, <3>3, <3>4, <3>5 DEF HeldRow
    <2>5. QED
        BY <2>2, <2>4, DetachedRows
<1>5. CASE WriteConfig(r)
    <2>1. at[r] = "configWrite" /\ at'[r] = "done" /\ HeldRow(r)
        BY <1>5, Replies DEF WriteConfig, Store, RowInv
    <2>2. KeepsConfigs(r)
        <3>1. CASE call[r].id \in DOMAIN smtp
            BY <1>5, <2>1, <3>1, StoreRows DEF WriteConfig, HeldRow, OwnConfig
        <3>2. CASE call[r].id \notin DOMAIN smtp
            BY <1>5, <3>2, KeptConfigs DEF WriteConfig
        <3>3. QED
            BY <3>1, <3>2
    <2>3. QED
        BY <1>0, <1>a, <2>1, <2>2, KeptTemplates, DetachedRows DEF RowSteps, KeepsTables
<1>6. CASE DeleteConfig(r) \/ TestConfig(r) \/ ListConfigs(r)
    <2>1. at'[r] \in {"done", "seedInsert"}
        BY <1>6, Ways, Replies DEF DeleteConfig, TestConfig, ListConfigs
    <2>2. KeepsConfigs(r)
        BY <1>6, KeptConfigs DEF DeleteConfig, TestConfig, ListConfigs
    <2>3. QED
        BY <1>0, <1>a, <2>1, <2>2, KeptTemplates, DetachedRows DEF RowSteps, KeepsTables
<1>7. CASE SeedConfig(r)
    <2>1. ConfigRow([tenant |-> held[r], default |-> TRUE, active |-> TRUE])
        BY DEF ConfigRow, ConfigFields
    <2>2. KeepsConfigs(r) /\ at'[r] = "done"
        BY <1>7, <2>1, StoreRows DEF SeedConfig
    <2>3. QED
        BY <1>0, <1>a, <2>2, KeptTemplates, DetachedRows DEF RowSteps, KeepsTables
<1>8. QED
    BY <1>1, <1>2, <1>3, <1>4, <1>5, <1>6, <1>7 DEF ConfigStep

LEMMA TemplateRows ==
    ASSUME Shape, TypeOK, RowInv, NEW r \in Requests, TemplateStep(r), UNCHANGED smtp,
           mail' = Detached
    PROVE  RowInv'
<1>0. call[r].op \in Ops /\ at[r] \in StepsOf(call[r].op) /\ Alone(r) /\ at[r] # "done"
    BY TemplateWalks DEF Shape, TypeOK, Walks, TemplateStep, CreateTemplate, ReadTemplate,
                         WriteTemplate, DeleteTemplate, Preview, Analyse, TakeLinkCheck
<1>a. \A s : s \notin RowSteps /\ at'[r] = s => HeldRow(r)'
    BY DEF HeldRow, RowSteps
<1>1. CASE CreateTemplate(r)
    <2>1. TemplateRow(NewTemplate(r))
        BY DEF TemplateRow, TemplateFields, NewTemplate
    <2>2. at'[r] = "done"
        BY <1>1, Replies DEF CreateTemplate
    <2>3. KeepsTemplates(r)
        BY <1>1, <2>1, <2>2, KeptTemplates DEF CreateTemplate
    <2>4. QED
        BY <1>0, <1>a, <2>2, <2>3, KeptConfigs, DetachedRows DEF RowSteps, KeepsTables
<1>2. CASE ReadTemplate(r)
    <2> DEFINE id == call[r].id
               row == Over(call[r].ask, tmpl[id])
    <2>1. call[r].op = "updateTemplate" /\ UNCHANGED tmpl
        BY <1>0, <1>2, Kinds DEF ReadTemplate, templateVars, Ops
    <2>2. KeepsTables(r)
        BY <1>0, <2>1, KeptConfigs, KeptTemplates DEF KeepsTables
    <2>3. CASE at'[r] = "done"
        BY <1>a, <2>2, <2>3, DetachedRows DEF RowSteps
    <2>4. CASE at'[r] # "done"
        <3>1. Owned(tmpl, id, call[r].tenant) /\ held'[r] = row /\ at'[r] = "templateWrite"
            BY <1>0, <1>2, <2>4, Ways, Replies DEF ReadTemplate
        <3>2. TemplateRow(row) /\ row.tenant = call[r].tenant
            BY <2>1, <3>1 DEF RowInv, Tables, Decoded, Owned, Over, TemplateRow, TemplateFields
        <3> HIDE DEF row
        <3>3. Settled(id) /\ OwnTemplate(id, call[r].tenant)
            BY <3>1 DEF RowInv, Tables, Owned, OwnTemplate
        <3>4. HeldRow(r)'
            BY <1>0, <2>1, <3>1, <3>2, <3>3 DEF HeldRow, Settled, OwnTemplate, TemplateRow, Alone
        <3>5. QED
            BY <2>2, <3>4, DetachedRows
    <2>5. QED
        BY <2>3, <2>4
<1>3. CASE WriteTemplate(r)
    <2>1. at[r] = "templateWrite" /\ at'[r] = "done" /\ HeldRow(r)
        BY <1>3, Replies DEF WriteTemplate, RowInv
    <2>2. KeepsTemplates(r)
        BY <1>3, <2>1, KeptTemplates DEF WriteTemplate, Rewrite, HeldRow, OwnTemplate
    <2>3. QED
        BY <1>0, <1>a, <2>1, <2>2, KeptConfigs, DetachedRows DEF RowSteps, KeepsTables
<1>4. CASE DeleteTemplate(r)
    <2>1. at'[r] = "done" /\ KeepsTemplates(r)
        BY <1>4, Replies, KeptTemplates DEF DeleteTemplate
    <2>2. QED
        BY <1>0, <1>a, <2>1, KeptConfigs, DetachedRows DEF RowSteps, KeepsTables
<1>5. CASE Preview(r) \/ Analyse(r) \/ TakeLinkCheck(r)
    <2>1. UNCHANGED tmpl /\ at'[r] \in {"done", "analyse"}
        BY <1>5, Ways, Replies DEF Preview, Analyse, RenderReply, TakeLinkCheck, templateVars
    <2>2. QED
        BY <1>0, <1>a, <2>1, KeptConfigs, KeptTemplates, DetachedRows DEF RowSteps, KeepsTables
<1>6. QED
    BY <1>1, <1>2, <1>3, <1>4, <1>5 DEF TemplateStep

\* A mail takes the configuration and the template its handler has seen to be its
\* tenant's own, if they are still there.
LEMMA MailRows ==
    ASSUME Shape, TypeOK, RowInv, NEW r \in Requests, MailStep(r)
    PROVE  RowInv'
<1>0. call[r].op \in Ops /\ at[r] \in StepsOf(call[r].op) /\ Alone(r) /\ at[r] # "done"
    BY MailWalks, MailFrame DEF Shape, TypeOK, Walks, MailSteps
<1>1. UNCHANGED <<smtp, tmpl>>
    BY MailFrame DEF templateVars
<1>2. KeepsTables(r)
    BY <1>0, <1>1, KeptConfigs, KeptTemplates DEF KeepsTables
<1>3. \A id, t : /\ Settled(id) => Settled(id)'
                 /\ OwnConfig(id, t) => (id \in DOMAIN smtp' => smtp'[id].tenant = t)
                 /\ OwnTemplate(id, t) => (id \in DOMAIN tmpl' => tmpl'[id].tenant = t)
    BY <1>1, <1>2, SettledStays DEF OwnConfig, OwnTemplate
<1>4. \A m \in DOMAIN mail : MailRow(mail[m]) /\ DOMAIN mail[m] = MailFields
    BY DEF RowInv, Refers, MailRow
<1>5. CASE UNCHANGED mail /\ at'[r] \in {"done", "mailDefault", "mailConfig"}
    BY <1>0, <1>1, <1>5, AsideRows DEF RowSteps
<1>6. CASE UNCHANGED mail /\ HeldRow(r)'
    <2>1. \A m \in DOMAIN mail' : Refers(m)'
        BY <1>1, <1>6 DEF RowInv, Refers, OwnConfig, OwnTemplate
    <2>2. mail' = [m \in DOMAIN mail' |-> mail'[m]]
        BY <1>6 DEF RowInv, Tables
    <2>3. QED
        BY <1>2, <1>6, <2>1, <2>2, RowsKept
<1>7. CASE ReadMailTenant(r)
    BY <1>5, <1>7, Ways, Replies DEF ReadMailTenant, mailVars
<1>8. CASE ReadMailConfig(r)
    <2>1. UNCHANGED mail
        BY <1>8 DEF ReadMailConfig, mailVars
    <2>2. CASE at'[r] = "done"
        BY <1>5, <2>1, <2>2
    <2>3. CASE at'[r] # "done"
        <3>1. PICK id \in DOMAIN smtp : WithConfig(r, id) /\ smtp[id].tenant = call[r].tenant
            BY <1>8, <2>3, Replies DEF ReadMailConfig, Owned, Defaults
        <3>2. /\ at'[r] = "mailTemplate" /\ held'[r].smtp = id
              /\ DOMAIN held'[r] = IntakeFields
            BY <3>1, Ways DEF WithConfig, IntakeFields
        <3>3. Settled(id) /\ OwnConfig(id, call[r].tenant)
            BY <3>1 DEF RowInv, Tables, OwnConfig
        <3>4. HeldRow(r)'
            BY <1>0, <1>1, <3>2, <3>3 DEF HeldRow, Settled, OwnConfig, Alone
        <3>5. QED
            BY <1>6, <2>1, <3>4
    <2>4. QED
        BY <2>2, <2>3
<1>9. CASE ReadMailTemplate(r)
    <2>1. UNCHANGED mail /\ at[r] = "mailTemplate" /\ HeldRow(r)
        BY <1>9 DEF ReadMailTemplate, mailVars, RowInv
    <2>2. CASE at'[r] = "done"
        BY <1>5, <2>1, <2>2
    <2>3. CASE at'[r] # "done"
        <3> DEFINE id == call[r].ask.tmpl
        <3>1. /\ id = Nothing \/ Owned(tmpl, id, call[r].tenant)
              /\ at'[r] = "mailStore"
              /\ \E x : held'[r] = [held[r] EXCEPT !.complete = x]
            BY <1>9, <2>3, Ways, Replies DEF ReadMailTemplate
        <3>a. DOMAIN held[r] = IntakeFields
            BY <2>1 DEF HeldRow
        <3>b. DOMAIN held'[r] = IntakeFields /\ held'[r].smtp = held[r].smtp
            BY <3>1, <3>a DEF IntakeFields
        <3>2. Settled(id) /\ OwnTemplate(id, call[r].tenant)
            BY <3>1, NothingAssumption DEF RowInv, Tables, Owned, OwnTemplate, Settled
        <3>3. HeldRow(r)'
            BY <1>0, <1>1, <2>1, <3>1, <3>b, <3>2
               DEF HeldRow, Settled, OwnConfig, OwnTemplate, Alone
        <3>4. QED
            BY <1>6, <2>1, <3>3
    <2>4. QED
        BY <2>2, <2>3
<1>10. CASE StoreAttachment(r) \/ CheckRecipients(r)
    <2>1. UNCHANGED mail /\ at[r] = "mailStore" /\ HeldRow(r)
        BY <1>10 DEF StoreAttachment, CheckRecipients, AtFile, mailVars, RowInv
    <2>2. CASE at'[r] = "done"
        BY <1>5, <2>1, <2>2
    <2>3. CASE at'[r] # "done"
        <3>1. /\ at'[r] \in {"mailStore", "mailInsert"}
              /\ held'[r] \in {held[r], [held[r] EXCEPT !.next = @ + 1]}
            BY <1>10, <2>3, Ways, Replies DEF StoreAttachment, CheckRecipients
        <3>2. DOMAIN held[r] = IntakeFields
            BY <2>1 DEF HeldRow
        <3>3. DOMAIN held'[r] = IntakeFields /\ held'[r].smtp = held[r].smtp
            BY <3>1, <3>2 DEF IntakeFields
        <3>4. HeldRow(r)'
            BY <1>0, <1>1, <2>1, <3>1, <3>3
               DEF HeldRow, Settled, OwnConfig, OwnTemplate, Alone
        <3>5. QED
            BY <1>6, <2>1, <3>4
    <2>4. QED
        BY <2>2, <2>3
<1>11. CASE InsertMail(r)
    <2> DEFINE row == [tenant |-> call[r].tenant, smtp |-> held[r].smtp, tmpl |-> call[r].ask.tmpl,
                       text |-> call[r].ask.text, data |-> call[r].ask.data, status |-> "queued"]
    <2>1. at'[r] = "done" /\ HeldRow(r) /\ at[r] = "mailInsert"
        BY <1>11, Replies DEF InsertMail, RowInv
    <2>2. CASE UNCHANGED mail
        BY <1>5, <2>1, <2>2
    <2>3. CASE ~UNCHANGED mail
        <3>1. /\ mail' = Put(mail, r, row)
              /\ row.smtp \in DOMAIN smtp /\ row.tmpl \in DOMAIN tmpl \cup {Nothing}
            BY <1>11, <2>3 DEF InsertMail
        <3>2. /\ OwnConfig(row.smtp, row.tenant) /\ OwnTemplate(row.tmpl, row.tenant)
            BY <2>1 DEF HeldRow
        <3>3. MailRow(row)
            BY DEF MailRow, MailFields
        <3> HIDE DEF row
        <3>4. /\ mail' = [m \in DOMAIN mail' |-> mail'[m]]
              /\ \A m \in DOMAIN mail' : (m \in DOMAIN mail /\ mail'[m] = mail[m]) \/ mail'[m] = row
            BY <3>1 DEF Put
        <3>5. ASSUME NEW m \in DOMAIN mail' PROVE Refers(m)'
            <4>1. CASE m \in DOMAIN mail /\ mail'[m] = mail[m]
                BY <1>1, <4>1 DEF RowInv, Refers, OwnConfig, OwnTemplate
            <4>2. CASE mail'[m] = row
                BY <1>1, <3>1, <3>2, <3>3, <4>2 DEF Refers, OwnConfig, OwnTemplate
            <4>3. QED
                BY <3>4, <4>1, <4>2
        <3>6. HeldRow(r)'
            BY <2>1 DEF HeldRow
        <3>7. QED
            BY <1>2, <3>4, <3>5, <3>6, RowsKept
    <2>4. QED
        BY <2>2, <2>3
<1>12. QED
    BY <1>7, <1>8, <1>9, <1>10, <1>11 DEF MailStep

\* The steps about tenants and branding lead to no step that holds a row of the two tables.
LEMMA AsideSteps ==
    ASSUME Shape, TypeOK, NEW r \in Requests, TenantStep(r) \/ BrandStep(r) \/ QueryFails(r)
    PROVE  Alone(r) /\ at[r] # "done" /\ at'[r] \notin RowSteps
<1>0. call[r].op \in Ops /\ (\A s \in Ops : s \notin RowSteps) /\ RowSteps \cap {"done"} = {}
    BY DEF Shape, Ops, AdminOps, Open, RowSteps
<1>1. CASE TenantStep(r)
    <2>1. Alone(r)
        BY <1>1, TenantWalks DEF Walks
    <2>2. \A i : Found(r, i) => at'[r] \in {"done", "seedList"}
        BY <1>0, Ways, Replies DEF Found
    <2>3. at[r] # "done"
        BY <1>1 DEF TenantStep, TenantContext, CreateTenant, GetTenant, DeleteTenant, ReadTenant,
                    WriteTenant, ReadForKey, WriteKey, TokenOfKey, ReadAdmin, InsertAdmin, RereadAdmin
    <2>4. CASE TenantContext(r)
        BY <1>0, <2>1, <2>3, <2>4, Ways DEF TenantContext
    <2>5. CASE CreateTenant(r) \/ GetTenant(r) \/ DeleteTenant(r) \/ WriteTenant(r) \/ WriteKey(r)
               \/ TokenOfKey(r)
        <3>1. at'[r] = "done"
            BY <2>5, Replies
               DEF CreateTenant, GetTenant, DeleteTenant, WriteTenant, WriteKey, TokenOfKey
        <3>2. QED
            BY <1>0, <2>1, <2>3, <3>1
    <2>6. CASE ReadTenant(r) \/ ReadForKey(r)
        <3>1. at'[r] \in {"done", "tenantWrite", "keyWrite"}
            BY <2>6, Ways, Replies DEF ReadTenant, ReadForKey
        <3>2. QED
            BY <2>1, <2>3, <3>1 DEF RowSteps
    <2>7. CASE ReadAdmin(r) \/ InsertAdmin(r) \/ RereadAdmin(r)
        <3>1. at'[r] \in {"done", "seedList", "adminInsert", "adminReread"}
            BY <2>2, <2>7, Ways, Replies DEF ReadAdmin, InsertAdmin, RereadAdmin
        <3>2. QED
            BY <2>1, <2>3, <3>1 DEF RowSteps
    <2>8. QED
        BY <1>1, <2>4, <2>5, <2>6, <2>7 DEF TenantStep
<1>2. CASE BrandStep(r)
    <2>1. Alone(r)
        BY <1>2, BrandWalks DEF Walks
    <2>2. at[r] # "done" /\ at'[r] \in {"done", "brandWrite", "brandApply", "brandReread"}
        BY <1>2, Ways, Replies DEF BrandStep, ReadBranding, WriteBranding, ApplyTimezone,
                                   RereadBranding, UploadLogo, GetLogo
    <2>3. QED
        BY <2>1, <2>2 DEF RowSteps
<1>3. CASE QueryFails(r)
    <2>1. at[r] # "done" /\ \E c : GiveUp(r, c)
        BY <1>3 DEF QueryFails, AtQuery
    <2>2. QED
        BY <1>0, <2>1, Ways
<1>4. QED
    BY <1>1, <1>2, <1>3

LEMMA HandleRows ==
    ASSUME Shape, TypeOK, RowInv, NEW r \in Requests, Handle(r)
    PROVE  RowInv'
<1>1. CASE \/ TenantStep(r) /\ UNCHANGED <<smtp, templateVars, mailVars, brandVars>>
           \/ BrandStep(r) /\ UNCHANGED <<tenantVars, smtp, templateVars, mailVars>>
           \/ QueryFails(r)
    <2>1. UNCHANGED <<smtp, tmpl, mail>>
        BY <1>1 DEF QueryFails, apiVars, templateVars, mailVars
    <2>2. QED
        BY <1>1, <2>1, AsideSteps, AsideRows
<1>2. QED
    BY <1>1, ConfigRows, TemplateRows, MailRows DEF Handle, templateVars

\* The worker changes nothing of a mail but its status.
LEMMA WorkerRows == ASSUME TypeOK, RowInv, NEW m \in Requests, WorkerStep(m) PROVE RowInv'
<1>1. UNCHANGED <<call, at, held, smtp, tmpl>>
    BY DEF WorkerStep, LoadMail, FillFields, FindConfig, reqVars, templateVars
<1>2. mail' \in {mail, [mail EXCEPT ![m].status = "failed"]}
    <2>1. \A x : Finish(m, x) => mail' \in {mail, [mail EXCEPT ![m].status = "failed"]}
        BY DEF Finish, FailMail
    <2>2. QED
        BY <2>1 DEF WorkerStep, LoadMail, FillFields, FindConfig, FailMail
<1>3. /\ DOMAIN mail' = DOMAIN mail
      /\ \A n \in DOMAIN mail : mail'[n] \in {mail[n], [mail[n] EXCEPT !.status = "failed"]}
    BY <1>2
<1>4. Tables'
    BY <1>1, <1>2 DEF RowInv, Tables, Settled
<1>5. ASSUME NEW q \in Requests PROVE HeldRow(q)'
    BY <1>1 DEF RowInv, HeldRow, Settled, OwnConfig, OwnTemplate, ConfigRow, TemplateRow
<1>6. ASSUME NEW n \in DOMAIN mail PROVE Refers(n)'
    <2>1. Refers(n) /\ DOMAIN mail[n] = MailFields
        BY DEF RowInv, Refers, MailRow
    <2>2. MailRow([mail[n] EXCEPT !.status = "failed"])
        BY <2>1 DEF MailRow
    <2>3. MailRow(mail'[n])
        BY <1>3, <2>1, <2>2 DEF Refers
    <2>4. /\ mail'[n].smtp = mail[n].smtp /\ mail'[n].tmpl = mail[n].tmpl
          /\ mail'[n].tenant = mail[n].tenant
        BY <1>3, <2>1 DEF MailFields
    <2>5. QED
        BY <1>1, <2>1, <2>3, <2>4 DEF Refers, MailRow, OwnConfig, OwnTemplate
<1>7. QED
    BY <1>3, <1>4, <1>5, <1>6 DEF RowInv

LEMMA RowInit == Init => RowInv
<1> SUFFICES ASSUME Init PROVE RowInv OBVIOUS
<1>1. PICK d \in Databases : smtp = d.smtp /\ tmpl = d.tmpl
    BY DEF Init
<1>2. /\ call \in Arrivals /\ DOMAIN mail = {}
      /\ at = [r \in Requests |-> IF call[r].op \in Open THEN call[r].op ELSE "enter"]
      /\ mail = [m \in {} |-> Nothing]
    BY DEF Init, ReqInit
<1>3. Tables
    <2>1. \A i \in DOMAIN smtp : i # Nothing /\ Settled(i) /\ ConfigRow(smtp[i])
        BY <1>1, DatabasesAssumption DEF Settled, ConfigRow, ConfigFields
    <2>2. \A i \in DOMAIN tmpl : i # Nothing /\ Settled(i) /\ TemplateRow(tmpl[i])
        BY <1>1, DatabasesAssumption DEF Settled, TemplateRow, TemplateFields
    <2>3. QED
        BY <1>2, <2>1, <2>2, ArrivalsAssumption DEF Tables
<1>4. ASSUME NEW r \in Requests PROVE HeldRow(r)
    BY <1>2 DEF HeldRow, Open
<1>5. QED
    BY <1>2, <1>3, <1>4 DEF RowInv

LEMMA RowStep == KeyInv /\ TypeOK /\ RowInv /\ [Next]_vars => RowInv'
<1> SUFFICES ASSUME Shape, TypeOK, RowInv, [Next]_vars PROVE RowInv'
    BY DEF KeyInv
<1>1. CASE \E r \in Requests : RequestStep(r)
    BY <1>1, HandleRows DEF RequestStep
<1>2. CASE \E m \in Requests : WorkerStep(m)
    BY <1>2, WorkerRows
<1>3. CASE UNCHANGED <<call, at, held, smtp, tmpl, mail>>
    <2>1. Tables'
        BY <1>3 DEF RowInv, Tables, Settled
    <2>2. ASSUME NEW q \in Requests PROVE HeldRow(q)'
        BY <1>3 DEF RowInv, HeldRow, Settled, OwnConfig, OwnTemplate, ConfigRow, TemplateRow
    <2>3. ASSUME NEW n \in DOMAIN mail PROVE Refers(n)'
        BY <1>3 DEF RowInv, Refers, MailRow, OwnConfig, OwnTemplate
    <2>4. QED
        BY <1>3, <2>1, <2>2, <2>3 DEF RowInv
<1>4. QED
    BY <1>1, <1>2, <1>3
       DEF Next, LinkCheckExpires, reqVars, mailVars, templateVars, vars, apiVars

\* A mail never comes to use the configuration or the template of another tenant,
\* although nothing but the look-up of Create ties them together: not when a row is
\* deleted, written back by a late update, or created in between (mail_service.go,
\* smtp_config_service.go, template_service.go, the foreign keys of 000001_core).
THEOREM TenantsStayApart == Spec => []RowsStayApart
<1>1. Init => KeyInv /\ TypeOK /\ RowInv
    BY InitSound, TypeInit, RowInit
<1>2. KeyInv /\ TypeOK /\ RowInv /\ [Next]_vars => (KeyInv /\ TypeOK /\ RowInv)'
    BY StepSound, TypeStep, RowStep
<1>3. RowInv => RowsStayApart
    BY DEF RowInv, Refers, OwnConfig, OwnTemplate, RowsStayApart
<1>4. QED
    BY <1>1, <1>2, <1>3, PTL DEF Spec

-----------------------------------------------------------------------------
(* RefusalChangesNothing: a request that has changed a row is at one of the *)
(* steps from which no refusal comes, or is done and excused.               *)

Committed == {"configInsert", "configWrite", "seedList", "seedInsert", "brandApply", "brandReread"}

Excused(r) ==
    \/ answer[r] \notin 400..499
    \/ call[r].broken
    \/ call[r].op = "createConfig" /\ call[r].ask.default /\ ~call[r].charset

Trace(r) == at[r] \in Committed \/ (at[r] = "done" /\ Excused(r))

RefusalInv == \A r \in wrote : Trace(r)

LEMMA Busy ==
    ASSUME NEW r \in Requests, Handle(r)
    PROVE  at[r] # "done"
<1>1. TenantStep(r) => at[r] # "done"
    BY DEF TenantStep, TenantContext, CreateTenant, GetTenant, DeleteTenant, ReadTenant,
       WriteTenant,
           ReadForKey, WriteKey, TokenOfKey, ReadAdmin, InsertAdmin, RereadAdmin
<1>2. ConfigStep(r) => at[r] # "done"
    BY DEF ConfigStep, CreateConfig, InsertConfig, ReadConfig, ClearDefault, WriteConfig,
           DeleteConfig, TestConfig, ListConfigs, SeedConfig
<1>3. TemplateStep(r) => at[r] # "done"
    BY DEF TemplateStep, CreateTemplate, ReadTemplate, WriteTemplate, DeleteTemplate, Preview,
           Analyse, TakeLinkCheck
<1>4. MailStep(r) \/ BrandStep(r) => at[r] # "done"
    BY MailFrame DEF MailSteps, BrandStep, ReadBranding, WriteBranding, ApplyTimezone,
                     RereadBranding, UploadLogo, GetLogo
<1>5. QED
    BY <1>1, <1>2, <1>3, <1>4 DEF Handle, QueryFails, AtQuery

\* A step leaves its request like that, or has changed nothing.
Tidy(r) ==
    \/ Trace(r)'
    \/ at[r] \notin Committed /\ UNCHANGED <<tenant, smtp, tmpl, brand, mail>>

\* The answers of a request that may have changed rows.
LEMMA Excuses ==
    ASSUME Shape, NEW r \in Requests
    PROVE  /\ \A c : c \notin 400..499 /\ Reply(r, c) => Trace(r)'
           /\ \A c : c \notin 400..499 /\ GiveUp(r, c) => Trace(r)'
           /\ Fail(r, "other") => Trace(r)'
           /\ GiveUp(r, Code(r, StatusOf.other)) => Trace(r)'
<1>1. ASSUME NEW c, c \notin 400..499, Reply(r, c) PROVE Trace(r)'
    <2>1. call' = call /\ at'[r] = "done" /\ answer'[r] = Code(r, c)
        BY <1>1, Ways DEF Reply, Alone
    <2>2. QED
        BY <1>1, <2>1 DEF Code, Trace, Excused
<1>2. ASSUME NEW c, c \notin 400..499 \/ c = Code(r, 500), GiveUp(r, c) PROVE Trace(r)'
    <2>1. call' = call /\ at'[r] = "done" /\ answer'[r] = c
        BY <1>2, Ways DEF Alone
    <2>2. QED
        BY <1>2, <2>1 DEF Code, Trace, Excused
<1>3. StatusOf.other = 500
    BY DEF StatusOf
<1>4. QED
    BY <1>1, <1>2, <1>3 DEF Fail

\* Detached leaves the mails alone when no row has gone.
LEMMA NothingDetached ==
    ASSUME RowInv, UNCHANGED <<smtp, tmpl>>, mail' = Detached
    PROVE  mail' = mail
<1>1. ASSUME NEW m \in DOMAIN mail
      PROVE  [mail[m] EXCEPT !.smtp = IF @ \in DOMAIN smtp' THEN @ ELSE Nothing,
                             !.tmpl = IF @ \in DOMAIN tmpl' THEN @ ELSE Nothing] = mail[m]
    <2> DEFINE row == mail[m]
    <2>1. /\ row = [c \in MailFields |-> row[c]]
          /\ row.smtp \in DOMAIN smtp' \cup {Nothing} /\ row.tmpl \in DOMAIN tmpl' \cup {Nothing}
        BY DEF RowInv, Refers, MailRow
    <2> HIDE DEF row
    <2>2. [row EXCEPT !.smtp = IF @ \in DOMAIN smtp' THEN @ ELSE Nothing,
                      !.tmpl = IF @ \in DOMAIN tmpl' THEN @ ELSE Nothing] = row
        BY <2>1
    <2>3. QED
        BY <2>2 DEF row
<1>2. Detached = [m \in DOMAIN mail |-> mail[m]]
    BY <1>1 DEF Detached
<1>3. QED
    BY <1>2 DEF RowInv, Tables

LEMMA TenantTidy ==
    ASSUME Shape, TypeOK, NEW r \in Requests, TenantStep(r), UNCHANGED <<smtp, tmpl, brand, mail>>
    PROVE  Tidy(r)
<1>0. call[r].op \in Ops /\ at[r] \in StepsOf(call[r].op)
    BY DEF Shape, TypeOK
<1>1. \A s : at'[r] = s /\ s \in Committed => Trace(r)'
    BY DEF Trace
<1>2. \A i : Found(r, i) => Trace(r)'
    BY <1>1, Ways, Excuses DEF Found, Committed
<1>3. CASE UNCHANGED tenant /\ at[r] \notin Committed
    BY <1>3 DEF Tidy
<1>4. CASE CreateTenant(r) \/ WriteTenant(r) \/ WriteKey(r) \/ DeleteTenant(r)
    <2>1. at[r] \notin Committed
        BY <1>4 DEF CreateTenant, WriteTenant, WriteKey, DeleteTenant, Committed
    <2>2. UNCHANGED tenant \/ Trace(r)'
        BY <1>4, Excuses DEF CreateTenant, WriteTenant, WriteKey, DeleteTenant
    <2>3. QED
        BY <2>1, <2>2 DEF Tidy
<1>5. CASE InsertAdmin(r)
    BY <1>2, <1>3, <1>5 DEF InsertAdmin, Committed, Tidy, tenantVars
<1>6. CASE TenantContext(r) \/ GetTenant(r) \/ ReadTenant(r) \/ ReadForKey(r) \/ TokenOfKey(r)
           \/ ReadAdmin(r) \/ RereadAdmin(r)
    BY <1>3, <1>6 DEF TenantContext, GetTenant, ReadTenant, ReadForKey, TokenOfKey, ReadAdmin,
                      RereadAdmin, Committed, tenantVars
<1>7. QED
    BY <1>4, <1>5, <1>6 DEF TenantStep

LEMMA ConfigTidy ==
    ASSUME Shape, TypeOK, RowInv, NEW r \in Requests, ConfigStep(r),
           UNCHANGED <<tenant, tmpl, brand>>, mail' = Detached
    PROVE  Tidy(r)
<1>0. call[r].op \in Ops /\ at[r] \in StepsOf(call[r].op)
    BY DEF Shape, TypeOK
<1>1. \A s : at'[r] = s /\ s \in Committed => Trace(r)'
    BY DEF Trace
<1>2. CASE UNCHANGED smtp /\ at[r] \notin Committed
    BY <1>2, NothingDetached DEF Tidy
<1>3. \A id, row : Store(r, id, row, 200) \/ Store(r, id, row, 201) => Trace(r)'
    BY Excuses DEF Store
<1>4. CASE CreateConfig(r)
    <2>1. at[r] \notin Committed /\ call[r].op = "createConfig"
        BY <1>0, <1>4, Kinds DEF CreateConfig, Committed, Ops
    <2>2. CASE call[r].valid /\ call[r].ask.default
        <3>1. CASE call[r].charset
            BY <1>1, <1>4, <2>2, <3>1, Ways DEF CreateConfig, CheckedConfig, Committed, Tidy
        <3>2. CASE ~call[r].charset
            <4>1. call' = call /\ at'[r] = "done"
                BY <1>4, <2>2, <3>2, Replies DEF CreateConfig, CheckedConfig, Alone
            <4>2. QED
                BY <2>1, <2>2, <3>2, <4>1 DEF Tidy, Trace, Excused
        <3>3. QED
            BY <3>1, <3>2
    <2>3. QED
        BY <1>2, <1>4, <2>1, <2>2 DEF CreateConfig
<1>5. CASE InsertConfig(r) \/ WriteConfig(r) \/ SeedConfig(r)
    BY <1>3, <1>5, Excuses DEF InsertConfig, WriteConfig, SeedConfig, Tidy
<1>6. CASE ClearDefault(r)
    BY <1>1, <1>6, Ways DEF ClearDefault, Committed, Tidy
<1>7. CASE DeleteConfig(r)
    BY <1>7, Excuses DEF DeleteConfig, Tidy
<1>8. CASE ListConfigs(r)
    BY <1>1, <1>8, Ways, Excuses DEF ListConfigs, Committed, Tidy
<1>9. CASE ReadConfig(r) \/ TestConfig(r)
    BY <1>2, <1>9 DEF ReadConfig, TestConfig, Committed
<1>10. QED
    BY <1>4, <1>5, <1>6, <1>7, <1>8, <1>9 DEF ConfigStep

LEMMA TemplateTidy ==
    ASSUME Shape, RowInv, NEW r \in Requests, TemplateStep(r), UNCHANGED <<tenant, smtp, brand>>,
           mail' = Detached
    PROVE  Tidy(r)
<1>1. at[r] \notin Committed
    BY DEF TemplateStep, CreateTemplate, ReadTemplate, WriteTemplate, DeleteTemplate, Preview,
           Analyse, TakeLinkCheck, Committed
<1>2. UNCHANGED tmpl \/ Trace(r)'
    BY Excuses DEF TemplateStep, CreateTemplate, ReadTemplate, WriteTemplate, DeleteTemplate,
                   Preview, Analyse, TakeLinkCheck, templateVars
<1>3. QED
    BY <1>1, <1>2, NothingDetached DEF Tidy

LEMMA MailTidy ==
    ASSUME Shape, NEW r \in Requests, MailStep(r), UNCHANGED brand
    PROVE  Tidy(r)
<1>1. at[r] \notin Committed
    BY MailFrame DEF MailSteps, Committed
<1>2. UNCHANGED <<tenant, smtp, tmpl>>
    BY MailFrame DEF tenantVars, templateVars
<1>3. InsertMail(r) => UNCHANGED mail \/ Trace(r)'
    BY Excuses DEF InsertMail
<1>4. QED
    BY <1>1, <1>2, <1>3, MailFrame DEF Tidy

LEMMA BrandTidy ==
    ASSUME Shape, NEW r \in Requests, BrandStep(r), UNCHANGED <<tenant, smtp, tmpl, mail>>
    PROVE  Tidy(r)
<1>1. \A s : at'[r] = s /\ s \in Committed => Trace(r)'
    BY DEF Trace
<1>2. CASE WriteBranding(r) \/ ApplyTimezone(r)
    BY <1>1, <1>2, Ways DEF WriteBranding, ApplyTimezone, Committed, Tidy
<1>3. CASE RereadBranding(r)
    BY <1>3, Excuses DEF RereadBranding, Tidy
<1>4. CASE UploadLogo(r)
    BY <1>4, Excuses DEF UploadLogo, Committed, Tidy
<1>5. CASE ReadBranding(r) \/ GetLogo(r)
    BY <1>5 DEF ReadBranding, GetLogo, brandVars, Committed, Tidy
<1>6. QED
    BY <1>2, <1>3, <1>4, <1>5 DEF BrandStep

LEMMA HandleTidy ==
    ASSUME Shape, TypeOK, RowInv, NEW r \in Requests, Handle(r)
    PROVE  Tidy(r)
<1>1. CASE QueryFails(r)
    <2>1. UNCHANGED <<tenant, smtp, tmpl, brand, mail>>
        BY <1>1 DEF QueryFails, apiVars, tenantVars, templateVars, brandVars, mailVars
    <2>2. CASE at[r] \in Committed
        <3>1. GiveUp(r, Code(r, StatusOf.other))
            BY <1>1, <2>2 DEF QueryFails, Committed
        <3>2. QED
            BY <3>1, Excuses DEF Tidy
    <2>3. QED
        BY <2>1, <2>2 DEF Tidy
<1>2. QED
    BY <1>1, TenantTidy, ConfigTidy, TemplateTidy, MailTidy, BrandTidy
       DEF Handle, tenantVars, templateVars, brandVars, mailVars

\* The same of the attachments: Create of mails is still behind the first one it stored,
\* or refused what it finds only there.
Filed(r) ==
    /\ call[r].op = "createMail"
    /\ \/ at[r] \in {"mailStore", "mailInsert"}
       \/ at[r] = "done" /\ (answer[r] \notin 400..499 \/ call[r].broken \/ RefusedBehindStore(r))

\* A campaign whose variables are not complete has a template.
Short(r) == at[r] = "mailStore" /\ ~held[r].complete => call[r].ask.tmpl # Nothing

FiledInv == (\A r \in filed : Filed(r)) /\ \A r \in Requests : Short(r)

LEMMA MailFiled ==
    ASSUME Shape, TypeOK, RowInv, NEW r \in Requests, MailStep(r), Short(r)
    PROVE  /\ Short(r)'
           /\ at[r] \in {"mailStore", "mailInsert"} => Filed(r)'
           /\ attachment' # attachment => at[r] = "mailStore"
<1>0. call[r].op = "createMail" /\ Alone(r) /\ call' = call
    BY MailFrame, MailWalks, Kinds DEF MailSteps, Shape, TypeOK, Ops, Walks, Alone
<1>1. CASE ReadMailTenant(r)
    BY <1>0, <1>1, Ways, Replies DEF ReadMailTenant, mailVars, Short
<1>2. CASE ReadMailConfig(r)
    <2>1. \A id : WithConfig(r, id) => at'[r] = "mailTemplate"
        BY Ways DEF WithConfig
    <2>2. QED
        BY <1>0, <1>2, <2>1, Replies DEF ReadMailConfig, mailVars, Short
<1>3. CASE ReadMailTemplate(r)
    <2> DEFINE ask == call[r].ask
               complete == ask.tmpl # Nothing => DataComplete(tmpl[ask.tmpl], ask.data)
    <2>1. at[r] = "mailTemplate" /\ UNCHANGED attachment
        BY <1>3 DEF ReadMailTemplate, mailVars
    <2>2. CASE at'[r] = "done"
        BY <2>1, <2>2 DEF Short
    <2>3. CASE at'[r] # "done"
        <3>1. at'[r] = "mailStore" /\ held'[r] = [held[r] EXCEPT !.complete = complete]
            BY <1>3, <2>3, Ways, Replies DEF ReadMailTemplate
        <3>2. DOMAIN held[r] = IntakeFields
            BY <2>1 DEF RowInv, HeldRow
        <3>3. held'[r].complete = complete
            BY <3>1, <3>2 DEF IntakeFields
        <3>4. ~complete => ask.tmpl # Nothing
            OBVIOUS
        <3>5. QED
            BY <1>0, <2>1, <3>3, <3>4 DEF Short
    <2>4. QED
        BY <2>2, <2>3
<1>4. CASE StoreAttachment(r)
    <2>1. at[r] = "mailStore" /\ held[r].next \in DOMAIN call[r].ask.files
        BY <1>4 DEF StoreAttachment, AtFile
    <2>2. CASE Keep(r, [held[r] EXCEPT !.next = @ + 1], "mailStore")
        <3>1. at'[r] = "mailStore" /\ held'[r] = [held[r] EXCEPT !.next = @ + 1]
            BY <2>2, Ways
        <3>2. DOMAIN held[r] = IntakeFields
            BY <2>1 DEF RowInv, HeldRow
        <3>3. held'[r].complete = held[r].complete
            BY <3>1, <3>2 DEF IntakeFields
        <3>4. QED
            BY <1>0, <2>1, <3>1, <3>3 DEF Short, Filed
    <2>3. CASE GiveUp(r, Code(r, StatusOf.other))
        <3>1. at'[r] = "done" /\ answer'[r] = Code(r, StatusOf.other)
            BY <2>3, Ways
        <3>2. answer'[r] \notin 400..499 \/ call[r].broken
            BY <3>1 DEF Code, StatusOf
        <3>3. QED
            BY <1>0, <2>1, <3>1, <3>2 DEF Short, Filed
    <2>4. CASE File(r) = "undecodable" /\ Fail(r, "validation")
        <3>1. at'[r] = "done" /\ RefusedBehindStore(r)
            BY <1>0, <2>1, <2>4, Replies DEF RefusedBehindStore, File
        <3>2. QED
            BY <1>0, <2>1, <3>1 DEF Short, Filed, RefusedBehindStore
    <2>5. QED
        BY <1>4, <2>2, <2>3, <2>4 DEF StoreAttachment
<1>5. CASE CheckRecipients(r)
    <2>1. at[r] = "mailStore" /\ UNCHANGED attachment
        BY <1>5 DEF CheckRecipients, mailVars
    <2>2. CASE Goto(r, "mailInsert")
        BY <1>0, <2>1, <2>2, Ways DEF Short, Filed
    <2>3. CASE call[r].ask.individuel /\ ~held[r].complete /\ Fail(r, "validation")
        <3>1. at'[r] = "done" /\ RefusedBehindStore(r)
            BY <1>0, <2>1, <2>3, Replies DEF RefusedBehindStore, Short
        <3>2. QED
            BY <1>0, <2>1, <3>1 DEF Short, Filed, RefusedBehindStore
    <2>4. QED
        BY <1>5, <2>2, <2>3 DEF CheckRecipients
<1>6. CASE InsertMail(r)
    <2>1. at[r] = "mailInsert" /\ UNCHANGED attachment
        BY <1>6 DEF InsertMail
    <2>2. CASE Reply(r, 202) \/ Fail(r, "other")
        <3>1. at'[r] = "done" /\ answer'[r] \in {Code(r, 202), Code(r, 500)}
            BY <2>2, Ways DEF Fail, Reply, StatusOf
        <3>2. answer'[r] \notin 400..499 \/ call[r].broken
            BY <3>1 DEF Code
        <3>3. QED
            BY <1>0, <2>1, <3>1, <3>2 DEF Short, Filed
    <2>3. QED
        BY <1>6, <2>2 DEF InsertMail
<1>7. QED
    BY <1>1, <1>2, <1>3, <1>4, <1>5, <1>6 DEF MailStep

\* The steps of the other handlers.
LEMMA NotMails ==
    ASSUME NEW r
    PROVE  /\ TenantStep(r) \/ BrandStep(r) => at[r] \notin MailSteps
           /\ ConfigStep(r) \/ TemplateStep(r) => at[r] \notin MailSteps \cup {"enter", "done"}
<1> USE DEF MailSteps
<1>1. TenantStep(r) => at[r] \notin MailSteps
    BY DEF TenantStep, TenantContext, CreateTenant, GetTenant, DeleteTenant, ReadTenant,
           WriteTenant, ReadForKey, WriteKey, TokenOfKey, ReadAdmin, InsertAdmin, RereadAdmin
<1>2. BrandStep(r) => at[r] \notin MailSteps
    BY DEF BrandStep, ReadBranding, WriteBranding, ApplyTimezone, RereadBranding, UploadLogo,
           GetLogo
<1>3. ConfigStep(r) => at[r] \notin MailSteps \cup {"enter", "done"}
    BY DEF ConfigStep, CreateConfig, InsertConfig, ReadConfig, ClearDefault, WriteConfig,
           DeleteConfig, TestConfig, ListConfigs, SeedConfig
<1>4. TemplateStep(r) => at[r] \notin MailSteps \cup {"enter", "done"}
    BY DEF TemplateStep, CreateTemplate, ReadTemplate, WriteTemplate, DeleteTemplate, Preview,
           Analyse, TakeLinkCheck
<1>5. QED
    BY <1>1, <1>2, <1>3, <1>4

LEMMA HandleFiled ==
    ASSUME Shape, TypeOK, RowInv, NEW r \in Requests, Handle(r), Short(r)
    PROVE  /\ Short(r)'
           /\ Filed(r) => Filed(r)'
           /\ attachment' # attachment => Filed(r)'
<1>0. at[r] # "done"
    BY Busy
<1>1. CASE MailStep(r)
    BY <1>0, <1>1, MailFiled DEF Filed
<1>2. CASE QueryFails(r)
    <2>1. UNCHANGED attachment /\ \E c : GiveUp(r, c)
        BY <1>2 DEF QueryFails, apiVars, mailVars
    <2>2. call' = call /\ at'[r] = "done"
        BY <2>1, Ways DEF Alone
    <2>3. ASSUME Filed(r) PROVE Filed(r)'
        <3>1. at[r] \in {"mailStore", "mailInsert"}
            BY <1>0, <2>3 DEF Filed
        <3>2. GiveUp(r, Code(r, StatusOf.other))
            BY <1>2, <3>1 DEF QueryFails
        <3>3. answer'[r] \notin 400..499 \/ call[r].broken
            BY <3>2, Ways DEF Code, StatusOf
        <3>4. QED
            BY <2>2, <2>3, <3>3 DEF Filed
    <2>4. QED
        BY <2>1, <2>2, <2>3 DEF Short
<1>3. CASE TenantStep(r) \/ BrandStep(r) \/ ConfigStep(r) \/ TemplateStep(r)
    <2>1. at[r] \notin MailSteps
        BY <1>3, NotMails
    <2>2. MailStep(r) \/ UNCHANGED attachment
        BY DEF Handle, QueryFails, apiVars, mailVars
    <2>3. at'[r] # "mailStore"
        <3>1. CASE TenantStep(r) \/ BrandStep(r)
            BY <3>1, AsideSteps DEF RowSteps
        <3>2. CASE ConfigStep(r) \/ TemplateStep(r)
            <4>1. call[r].op \in Ops /\ at[r] \in StepsOf(call[r].op) /\ Walks(r)
                BY HandleWalks DEF Shape, TypeOK
            <4>2. at[r] \notin MailSteps \cup {"enter", "done"}
                BY <3>2, NotMails
            <4>3. StepsOf("createMail") = MailSteps \cup {"enter", "done"}
                BY DEF StepsOf, MailSteps
            <4>4. call[r].op # "createMail"
                BY <4>1, <4>2, <4>3
            <4>5. QED
                BY <4>1, <4>4, Kinds DEF Walks
        <3>3. QED
            BY <1>3, <3>1, <3>2
    <2>4. QED
        BY <1>0, <1>1, <2>1, <2>2, <2>3 DEF Short, Filed, MailSteps
<1>4. QED
    BY <1>1, <1>2, <1>3 DEF Handle

LEMMA RefusalStep == KeyInv /\ TypeOK /\ RowInv /\ RefusalInv /\ [Next]_vars => RefusalInv'
<1> SUFFICES ASSUME Shape, TypeOK, RowInv, RefusalInv, [Next]_vars PROVE RefusalInv'
    BY DEF KeyInv
<1>1. ASSUME NEW r \in Requests, RequestStep(r) PROVE RefusalInv'
    <2>1. Handle(r) /\ Alone(r) /\ Tidy(r) /\ wrote' \subseteq wrote \cup {r}
        BY <1>1, HandleWalks, HandleTidy DEF RequestStep, Walks
    <2>2. ASSUME NEW q \in wrote', q # r PROVE Trace(q)'
        BY <2>1, <2>2 DEF RefusalInv, TypeOK, Trace, Excused, Alone
    <2>3. ASSUME r \in wrote' PROVE Trace(r)'
        <3>1. CASE r \in wrote /\ at[r] \notin Committed
            BY <1>1, <3>1, Busy DEF RefusalInv, Trace, RequestStep
        <3>2. CASE r \notin wrote /\ UNCHANGED <<tenant, smtp, tmpl, brand, mail>>
            BY <1>1, <2>3, <3>2 DEF RequestStep
        <3>3. QED
            BY <2>1, <3>1, <3>2 DEF Tidy
    <2>4. QED
        BY <2>2, <2>3 DEF RefusalInv
<1>2. CASE UNCHANGED <<call, at, answer, wrote>>
    BY <1>2 DEF RefusalInv, Trace, Excused
<1>3. ASSUME NEW m \in Requests, WorkerStep(m) PROVE UNCHANGED <<call, at, answer>>
    BY <1>3 DEF WorkerStep, LoadMail, FillFields, FindConfig, reqVars
<1>4. QED
    BY <1>1, <1>2, <1>3 DEF Next, LinkCheckExpires, reqVars, vars

LEMMA FiledStep == KeyInv /\ TypeOK /\ RowInv /\ FiledInv /\ [Next]_vars => FiledInv'
<1> SUFFICES ASSUME Shape, TypeOK, RowInv, FiledInv, [Next]_vars PROVE FiledInv'
    BY DEF KeyInv
<1>1. ASSUME NEW r \in Requests, RequestStep(r) PROVE FiledInv'
    <2>1. Handle(r) /\ Alone(r) /\ call' = call
        BY <1>1, HandleWalks DEF RequestStep, Walks, Alone
    <2>2. /\ Short(r)' /\ (Filed(r) => Filed(r)')
          /\ attachment' # attachment => Filed(r)'
        BY <2>1, HandleFiled DEF FiledInv
    <2>3. ASSUME NEW q \in Requests, q # r
          PROVE  (Filed(q) => Filed(q)') /\ (Short(q) => Short(q)')
        BY <2>1, <2>3 DEF Alone, Filed, Short, RefusedBehindStore
    <2>4. filed' = IF attachment' # attachment THEN filed \cup {r} ELSE filed
        BY <1>1 DEF RequestStep
    <2>5. filed \subseteq Requests
        BY DEF TypeOK
    <2>6. QED
        BY <2>2, <2>3, <2>4, <2>5 DEF FiledInv
<1>2. CASE UNCHANGED <<call, at, held, answer, filed>>
    BY <1>2 DEF FiledInv, Filed, Short, RefusedBehindStore
<1>3. ASSUME NEW m \in Requests, WorkerStep(m) PROVE UNCHANGED <<call, at, held, answer>>
    BY <1>3 DEF WorkerStep, LoadMail, FillFields, FindConfig, reqVars
<1>4. QED
    BY <1>1, <1>2, <1>3 DEF Next, LinkCheckExpires, reqVars, vars

\* Whoever is told that a request was refused finds every row as it was, but for the three
\* cases the handlers do not guard against: a body bindRequest refused, a charset refused
\* after the old default was cleared, and attachments stored before Create of a mail
\* refuses a later one or a recipient (bindRequest in internal/handler/handler.go, Create
\* in smtp_config_service.go, Create and createIndividuel in mail_service.go).
THEOREM RefusalsAreClean == Spec => []RefusalChangesNothing
<1>1. Init => KeyInv /\ TypeOK /\ RowInv /\ RefusalInv /\ FiledInv
    <2>1. Init => RefusalInv /\ FiledInv
        BY DEF Init, ReqInit, RefusalInv, FiledInv, Short, Open
    <2>2. QED
        BY <2>1, InitSound, TypeInit, RowInit
<1>2. KeyInv /\ TypeOK /\ RowInv /\ RefusalInv /\ FiledInv /\ [Next]_vars
      => (KeyInv /\ TypeOK /\ RowInv /\ RefusalInv /\ FiledInv)'
    BY StepSound, TypeStep, RowStep, RefusalStep, FiledStep
<1>3. TypeOK /\ RefusalInv /\ FiledInv => RefusalChangesNothing
    <2> SUFFICES ASSUME TypeOK, RefusalInv, FiledInv, NEW r \in Requests,
                        answer[r] \in 400..499, ~call[r].broken
                 PROVE  /\ r \in wrote => /\ call[r].op = "createConfig" /\ call[r].ask.default
                                          /\ ~call[r].charset
                        /\ r \in filed => RefusedBehindStore(r)
        BY DEF RefusalChangesNothing
    <2>1. at[r] = "done"
        BY DEF TypeOK
    <2>2. QED
        BY <2>1 DEF RefusalInv, Trace, Excused, Committed, FiledInv, Filed
<1>4. QED
    BY <1>1, <1>2, <1>3, PTL DEF Spec

-----------------------------------------------------------------------------
(* ZoneFollowsBranding: without overlapping writes, whoever is about to     *)
(* apply a time zone holds the one of the row, and nobody else leaves the   *)
(* process behind the row.                                                  *)

Applying(r) == at[r] = "brandApply"

ZoneInv ==
    /\ DOMAIN brand = {"title", "zone", "logo"}
    /\ "brand" \notin clash =>
         /\ \A r \in Requests : Applying(r) => held[r].zone = brand.zone
         /\ (\A r \in Requests : ~Applying(r)) => appZone = brand.zone

BrandSteps == {"updateBranding", "brandWrite", "brandApply", "brandReread"}

\* The steps that are not about branding neither start nor end an application.
LEMMA ForeignSteps ==
    ASSUME Shape, TypeOK, NEW r \in Requests, Handle(r), ~BrandStep(r)
    PROVE  ~Applying(r) /\ ~Applying(r)' /\ UNCHANGED <<brand, appZone>>
<1>0. call[r].op \in Ops /\ at[r] \in StepsOf(call[r].op) /\ Walks(r)
    BY HandleWalks DEF Shape, TypeOK
<1>1. UNCHANGED <<brand, appZone>>
    BY DEF Handle, QueryFails, apiVars, brandVars
<1>2. CASE QueryFails(r)
    <2>1. at[r] # "brandApply" /\ \E c : GiveUp(r, c)
        BY <1>2 DEF QueryFails, AtQuery
    <2>2. QED
        BY <1>0, <1>1, <2>1, Ways DEF Applying
<1>3. CASE TenantContext(r)
    BY <1>0, <1>1, <1>3, Ways DEF TenantContext, Applying, Ops, AdminOps, Open
<1>4. CASE ~QueryFails(r) /\ ~TenantContext(r)
    <2>1. at[r] \notin BrandSteps \cup {"enter", "done"}
        <3>1. TenantStep(r) /\ ~TenantContext(r) => at[r] \notin BrandSteps \cup {"enter", "done"}
            BY DEF TenantStep, CreateTenant, GetTenant, DeleteTenant, ReadTenant, WriteTenant,
                   ReadForKey, WriteKey, TokenOfKey, ReadAdmin, InsertAdmin, RereadAdmin, BrandSteps
        <3>2. ConfigStep(r) => at[r] \notin BrandSteps \cup {"enter", "done"}
            BY DEF ConfigStep, CreateConfig, InsertConfig, ReadConfig, ClearDefault, WriteConfig,
                   DeleteConfig, TestConfig, ListConfigs, SeedConfig, BrandSteps
        <3>3. TemplateStep(r) \/ MailStep(r) => at[r] \notin BrandSteps \cup {"enter", "done"}
            BY MailFrame
               DEF TemplateStep, CreateTemplate, ReadTemplate, WriteTemplate, DeleteTemplate,
                   Preview, Analyse, TakeLinkCheck, MailSteps, BrandSteps
        <3>4. QED
            BY <1>4, <3>1, <3>2, <3>3 DEF Handle
    <2>2. StepsOf("updateBranding") = BrandSteps \cup {"enter", "done"}
        BY DEF StepsOf, BrandSteps
    <2>3. call[r].op # "updateBranding"
        BY <1>0, <2>1, <2>2
    <2>4. "brandApply" \notin StepsOf(call[r].op)
        BY <1>0, <2>3, Kinds
    <2>5. QED
        BY <1>0, <1>1, <2>4 DEF Applying, Walks
<1>5. QED
    BY <1>2, <1>3, <1>4

LEMMA ZoneStep == KeyInv /\ TypeOK /\ ZoneInv /\ [Next]_vars => ZoneInv'
<1> SUFFICES ASSUME Shape, TypeOK, ZoneInv, [Next]_vars PROVE ZoneInv'
    BY DEF KeyInv
<1>1. ASSUME NEW r \in Requests, RequestStep(r) PROVE ZoneInv'
    <2>0. /\ Handle(r) /\ Alone(r)
          /\ "brand" \notin clash' => "brand" \notin clash /\ "brand" \notin Clashes(r)
        BY <1>1, HandleWalks DEF RequestStep, Walks
    <2>a. \A q \in Requests \ {r} : at'[q] = at[q] /\ held'[q] = held[q]
        BY <2>0 DEF Alone
    <2>1. CASE ~BrandStep(r)
        BY <2>0, <2>a, <2>1, ForeignSteps DEF ZoneInv, Applying
    <2>2. CASE WriteBranding(r)
        <3>1. /\ at'[r] = "brandApply" /\ held' = held /\ UNCHANGED appZone
              /\ brand' = [brand EXCEPT !.title = held[r].title, !.zone = held[r].zone]
            BY <2>2, Ways DEF WriteBranding
        <3>2. DOMAIN brand' = {"title", "zone", "logo"} /\ brand'.zone = held[r].zone
            BY <3>1 DEF ZoneInv
        <3>3. ASSUME "brand" \notin Clashes(r), NEW q \in Requests \ {r}, Applying(q)
              PROVE  brand' = brand
            BY <3>3 DEF Clashes, Holding, Applying
        <3>4. ASSUME "brand" \notin clash', NEW q \in Requests, Applying(q)'
              PROVE  held'[q].zone = brand'.zone
            BY <2>0, <2>a, <3>1, <3>2, <3>3, <3>4 DEF ZoneInv, Applying
        <3>5. Applying(r)'
            BY <3>1 DEF Applying
        <3>6. QED
            BY <3>2, <3>4, <3>5 DEF ZoneInv
    <2>3. CASE ApplyTimezone(r)
        <3>1. /\ Applying(r) /\ at'[r] = "brandReread" /\ held' = held /\ UNCHANGED brand
              /\ appZone' = held[r].zone
            BY <2>3, Ways DEF ApplyTimezone, Applying
        <3>2. QED
            BY <2>0, <2>a, <3>1 DEF ZoneInv, Applying
    <2>4. CASE UploadLogo(r)
        <3>1. at[r] = "uploadLogo" /\ at'[r] = "done" /\ UNCHANGED appZone
            BY <2>4, Replies DEF UploadLogo
        <3>2. DOMAIN brand' = DOMAIN brand /\ brand'.zone = brand.zone
            BY <2>4 DEF UploadLogo, ZoneInv
        <3>3. QED
            BY <2>0, <2>a, <3>1, <3>2 DEF ZoneInv, Applying
    <2>5. CASE ReadBranding(r) \/ RereadBranding(r) \/ GetLogo(r)
        <3>1. UNCHANGED <<brand, appZone>> /\ ~Applying(r)
            BY <2>5 DEF ReadBranding, RereadBranding, GetLogo, brandVars, Applying
        <3>2. at'[r] \in {"done", "brandWrite"}
            BY <2>5, Ways, Replies DEF ReadBranding, RereadBranding, GetLogo
        <3>3. QED
            BY <2>0, <2>a, <3>1, <3>2 DEF ZoneInv, Applying
    <2>6. QED
        BY <2>1, <2>2, <2>3, <2>4, <2>5 DEF BrandStep
<1>2. CASE UNCHANGED <<at, held, brand, appZone, clash>>
    BY <1>2 DEF ZoneInv, Applying
<1>3. ASSUME NEW m \in Requests, WorkerStep(m) PROVE UNCHANGED <<at, held>>
    BY <1>3 DEF WorkerStep, LoadMail, FillFields, FindConfig, reqVars
<1>4. QED
    BY <1>1, <1>2, <1>3 DEF Next, LinkCheckExpires, reqVars, brandVars, vars, apiVars

\* The time zone in the memory of the process follows the row, unless two requests
\* overlap on it (Update in branding_service.go, ApplyTimezone).
THEOREM ZoneIsApplied == Spec => []ZoneFollowsBranding
<1>1. Init => KeyInv /\ TypeOK /\ ZoneInv
    <2>1. Init => ZoneInv
        BY DatabasesAssumption DEF Init, ReqInit, ZoneInv, Applying, Open
    <2>2. QED
        BY <2>1, InitSound, TypeInit
<1>2. KeyInv /\ TypeOK /\ ZoneInv /\ [Next]_vars => (KeyInv /\ TypeOK /\ ZoneInv)'
    BY StepSound, TypeStep, ZoneStep
<1>3. ZoneInv => ZoneFollowsBranding
    BY DEF ZoneInv, Applying, ZoneFollowsBranding
<1>4. QED
    BY <1>1, <1>2, <1>3, PTL DEF Spec

-----------------------------------------------------------------------------
(* AdminLockedOutByRename: without a rename the row with the key of the     *)
(* administration has its slug, so who finds the key taken finds the row.   *)

\* What the property blames, but for a query of the request itself that failed.
Astray ==
    \/ \E i \in DOMAIN first.tenant :
         first.tenant[i].key = AdminKey /\ first.tenant[i].slug # "admin"
    \/ \E s \in wrote : /\ call[s].op = "updateTenant" /\ "slug" \in DOMAIN call[s].ask
                        /\ "tenant" \notin clash => call[s].ask.slug # "admin"

Named == \A i \in DOMAIN tenant : tenant[i].key = AdminKey => tenant[i].slug = "admin"

Seat(r) ==
    LET ask == call[r].ask IN
    /\ at[r] = "adminReread" /\ r \notin hit => Admins # {}
    /\ at[r] = "tenantWrite" =>
         held[r].slug = IF "slug" \in DOMAIN ask THEN ask.slug ELSE tenant[call[r].id].slug
    /\ call[r].op = "token" /\ AsAdmin(r) /\ answer[r] = 500 => r \in hit

AdminInv == Astray \/ (Named /\ \A r \in Requests : Seat(r))

\* A step that leaves the slugs as they are.
KeepsSlugs(r) ==
    /\ Alone(r)
    /\ \A i \in DOMAIN tenant : i \in DOMAIN tenant' /\ tenant'[i].slug = tenant[i].slug

LEMMA OthersSit ==
    ASSUME KeyInv, NEW r \in Requests, KeepsSlugs(r), NEW q \in Requests, q # r, Seat(q)
    PROVE  Seat(q)'
<1>1. /\ at'[q] = at[q] /\ held'[q] = held[q] /\ answer'[q] = answer[q] /\ call' = call
      /\ hit \subseteq hit'
    BY DEF KeepsSlugs, Alone
<1>2. Admins # {} => Admins' # {}
    BY DEF KeepsSlugs, Admins
<1>3. at[q] = "tenantWrite" => call[q].id \in DOMAIN tenant
    BY DEF KeyInv, Known
<1>4. QED
    BY <1>1, <1>2, <1>3 DEF Seat, AsAdmin, KeepsSlugs

\* Whom the blame falls on stays to blame.
LEMMA AstrayStays ==
    ASSUME NEW r \in Requests, RequestStep(r), Alone(r), Astray
    PROVE  Astray'
BY DEF RequestStep, Alone, Astray

\* A step of another kind than those of tenants.
LEMMA ElsewhereSits ==
    ASSUME KeyInv, TypeOK, NEW r \in Requests, Elsewhere(r), UNCHANGED tenant, Named,
           \A q \in Requests : Seat(q)
    PROVE  Named' /\ \A q \in Requests : Seat(q)'
<1>1. call[r].op # "token"
    BY DEF Elsewhere, TokenSteps, KeySteps, TypeOK, StepsOf
<1>2. Seat(r)'
    BY <1>1 DEF Seat, Elsewhere, Alone
<1>3. QED
    BY <1>2, OthersSit DEF KeepsSlugs, Elsewhere, Named

LEMMA FailingSits ==
    ASSUME KeyInv, NEW r \in Requests, QueryFails(r), Named, \A q \in Requests : Seat(q)
    PROVE  Named' /\ \A q \in Requests : Seat(q)'
<1>1. UNCHANGED tenant /\ \E c : GiveUp(r, c)
    BY DEF QueryFails, apiVars, tenantVars
<1>2. Alone(r) /\ at'[r] = "done" /\ r \in hit'
    BY <1>1, Ways DEF GiveUp, Hit, KeyInv
<1>3. QED
    BY <1>1, <1>2, OthersSit DEF Seat, KeepsSlugs, Named

\* A new row with a new key, or with the key and the slug of the administration.
LEMMA InsertSits ==
    ASSUME KeyInv, NEW r \in Requests, at[r] \in Early, Alone(r), NEW row,
           tenant' = Put(tenant, r, row), row.key = AdminKey => row.slug = "admin", Named
    PROVE  Named' /\ KeepsSlugs(r)
BY DEF KeyInv, Fresh, Put, Named, KeepsSlugs

LEMMA TenantSits ==
    ASSUME KeyInv, TypeOK, NEW r \in Requests, TenantStep(r), ~WriteTenant(r), Named,
           \A q \in Requests : Seat(q)
    PROVE  Named' /\ \A q \in Requests : Seat(q)'
<1>0. /\ Shape /\ Walks(r) /\ Alone(r) /\ call' = call
      /\ call[r].op \in Ops /\ at[r] \in StepsOf(call[r].op) /\ (at[r] # "done" => answer[r] = 0)
    BY TenantWalks DEF KeyInv, Walks, Alone, Shape, TypeOK
<1>a. ASSUME UNCHANGED tenant, Seat(r)' PROVE Named' /\ \A q \in Requests : Seat(q)'
    BY <1>0, <1>a, OthersSit DEF Named, KeepsSlugs
<1>b. ASSUME KeepsSlugs(r), Named', Seat(r)' PROVE Named' /\ \A q \in Requests : Seat(q)'
    BY <1>b, OthersSit
<1>c. ASSUME at'[r] \notin {"adminReread", "tenantWrite"}, answer'[r] # 500 PROVE Seat(r)'
    BY <1>c DEF Seat
<1>d. ASSUME at'[r] \notin {"adminReread", "tenantWrite"}, call[r].op # "token" PROVE Seat(r)'
    BY <1>0, <1>d DEF Seat
<1>e. \A i : Found(r, i) => at'[r] \in {"done", "seedList"} /\ (call[r].op = "token" => answer'[r] # 500)
    BY <1>0, Ways, Replies DEF Found
<1>1. CASE TenantContext(r)
    BY <1>0, <1>1, <1>a, <1>d, Ways, Kinds DEF TenantContext, tenantVars, Ops, AdminOps, Open,
       StepsOf
<1>2. CASE CreateTenant(r)
    <2>1. call[r].op # "token" /\ at'[r] = "done" /\ at[r] = "createTenant"
        BY <1>0, <1>2, Kinds, Replies DEF CreateTenant, Ops, AdminOps
    <2>2. CASE UNCHANGED tenant
        BY <1>a, <1>d, <2>1, <2>2
    <2>3. CASE ~UNCHANGED tenant
        <3>1. PICK row \in {[slug |-> call[r].ask.slug, key |-> r, active |-> TRUE,
                             settings |-> call[r].ask.settings]} : tenant' = Put(tenant, r, row)
            BY <1>2, <2>3 DEF CreateTenant
        <3>2. row.key # AdminKey
            BY <3>1, AdminKeyAssumption
        <3>3. QED
            BY <1>0, <1>b, <1>d, <2>1, <3>1, <3>2, InsertSits DEF Early
    <2>4. QED
        BY <2>2, <2>3
<1>3. CASE GetTenant(r) \/ ReadForKey(r)
    <2>1. at[r] \in {"getTenant", "regenerateKey"} /\ UNCHANGED tenant /\ at'[r] \in {"done", "keyWrite"}
        BY <1>0, <1>3, Ways, Replies DEF GetTenant, ReadForKey, tenantVars
    <2>2. call[r].op # "token"
        BY <1>0, <2>1, Kinds DEF Ops, AdminOps
    <2>3. QED
        BY <1>a, <1>d, <2>1, <2>2
<1>4. CASE DeleteTenant(r)
    <2>1. at[r] = "deleteTenant" /\ at'[r] = "done"
        BY <1>0, <1>4, Replies DEF DeleteTenant
    <2>2. call[r].op # "token"
        BY <1>0, <2>1, Kinds DEF Ops, AdminOps
    <2>3. /\ DOMAIN tenant' = DOMAIN tenant
          /\ \A i \in DOMAIN tenant :
               tenant'[i] = [tenant[i] EXCEPT !.active = tenant[i].active /\ i # call[r].id]
        BY <1>4 DEF DeleteTenant
    <2>4. \A i \in DOMAIN tenant : tenant'[i].slug = tenant[i].slug /\ tenant'[i].key = tenant[i].key
        BY <1>0, <2>3 DEF Shape, Columns
    <2>5. KeepsSlugs(r) /\ Named'
        BY <1>0, <2>3, <2>4 DEF KeepsSlugs, Named
    <2>6. QED
        BY <1>b, <1>d, <2>1, <2>2, <2>5
<1>5. CASE ReadTenant(r)
    <2> DEFINE row == Over(call[r].ask, tenant[call[r].id])
    <2>1. at[r] = "updateTenant" /\ UNCHANGED tenant
        BY <1>5 DEF ReadTenant, tenantVars
    <2>2. call[r].op # "token"
        BY <1>0, <2>1, Kinds DEF Ops, AdminOps
    <2>3. CASE at'[r] = "done"
        BY <1>a, <1>d, <2>1, <2>2, <2>3
    <2>4. CASE at'[r] # "done"
        <3>1. held'[r] = row /\ at'[r] = "tenantWrite" /\ call[r].id \in DOMAIN tenant
            BY <1>0, <1>5, <2>4, Ways, Replies DEF ReadTenant
        <3>2. row.slug = IF "slug" \in DOMAIN call[r].ask THEN call[r].ask.slug
                         ELSE tenant[call[r].id].slug
            BY <1>0, <3>1 DEF Over, Shape, Columns
        <3> HIDE DEF row
        <3>3. Seat(r)'
            BY <1>0, <2>1, <2>2, <3>1, <3>2 DEF Seat
        <3>4. QED
            BY <1>a, <2>1, <3>3
    <2>5. QED
        BY <2>3, <2>4
<1>6. CASE WriteKey(r)
    <2>1. /\ at[r] = "keyWrite" /\ at'[r] = "done" /\ call[r].id \in DOMAIN tenant
          /\ call[r].op # "token"
        BY <1>0, <1>6, Replies DEF WriteKey, KeyInv, Known
    <2>2. /\ DOMAIN tenant' = DOMAIN tenant
          /\ \A i \in DOMAIN tenant :
               tenant'[i] = IF i = call[r].id THEN [tenant[i] EXCEPT !.key = r] ELSE tenant[i]
        BY <1>6, <2>1 DEF WriteKey, Put
    <2>3. \A i \in DOMAIN tenant : /\ tenant'[i].slug = tenant[i].slug
                                   /\ tenant'[i].key \in {tenant[i].key, r}
        BY <1>0, <2>2 DEF Shape, Columns
    <2>4. KeepsSlugs(r) /\ Named'
        BY <1>0, <2>2, <2>3, AdminKeyAssumption DEF KeepsSlugs, Named
    <2>5. QED
        BY <1>b, <1>d, <2>1, <2>4
<1>7. CASE TokenOfKey(r)
    <2>1. ~AsAdmin(r) /\ UNCHANGED tenant /\ at'[r] = "done"
        BY <1>0, <1>7, Replies DEF TokenOfKey
    <2>2. Seat(r)'
        BY <1>0, <2>1 DEF Seat, AsAdmin
    <2>3. QED
        BY <1>a, <2>1, <2>2
<1>8. CASE ReadAdmin(r)
    <2>1. UNCHANGED tenant /\ at[r] # "done"
        BY <1>8 DEF ReadAdmin
    <2>2. Seat(r)'
        <3>1. ASSUME NEW i, Found(r, i) PROVE Seat(r)'
            BY <1>0, <1>c, <1>d, <1>e, <3>1
        <3>2. ASSUME at'[r] = "adminInsert", answer' = answer PROVE Seat(r)'
            BY <1>0, <1>c, <2>1, <3>2
        <3>3. QED
            BY <1>0, <1>8, <3>1, <3>2, Ways DEF ReadAdmin
    <2>3. QED
        BY <1>a, <2>1, <2>2
<1>9. CASE InsertAdmin(r)
    <2>1. at[r] = "adminInsert"
        BY <1>9 DEF InsertAdmin
    <2>2. CASE tenant' = Put(tenant, r, AdminRow) /\ Found(r, r)
        <3>1. KeepsSlugs(r) /\ Named'
            BY <1>0, <2>1, <2>2, InsertSits DEF AdminRow, Early
        <3>2. Seat(r)'
            BY <1>0, <1>c, <1>d, <1>e, <2>2
        <3>3. QED
            BY <1>b, <3>1, <3>2
    <2>3. CASE UNCHANGED tenant /\ Goto(r, "adminReread") /\ (SlugTaken("admin", r) \/ KeyTaken(AdminKey, r))
        <3>1. Admins # {}
            BY <2>3 DEF SlugTaken, KeyTaken, Named, Admins
        <3>2. at'[r] = "adminReread" /\ answer'[r] # 500 /\ Admins' # {}
            BY <1>0, <2>1, <2>3, <3>1, Ways DEF Admins
        <3>3. Seat(r)'
            BY <3>2 DEF Seat
        <3>4. QED
            BY <1>a, <2>3, <3>3
    <2>4. CASE UNCHANGED tenant /\ GoOn(r, "adminReread")
        <3>1. at'[r] = "adminReread" /\ answer'[r] # 500
            BY <1>0, <2>1, <2>4, Ways
        <3>a. r \in hit'
            BY <2>4 DEF GoOn, Hit
        <3>2. Seat(r)'
            BY <3>1, <3>a DEF Seat
        <3>3. QED
            BY <1>a, <2>4, <3>2
    <2>5. QED
        BY <1>9, <2>2, <2>3, <2>4 DEF InsertAdmin, tenantVars
<1>10. CASE RereadAdmin(r)
    <2>1. at[r] = "adminReread" /\ UNCHANGED tenant
        BY <1>10 DEF RereadAdmin
    <2>2. CASE \E i : Found(r, i)
        BY <1>0, <1>a, <1>c, <1>d, <1>e, <2>1, <2>2
    <2>3. CASE Admins = {} /\ Fail(r, "other")
        <3>1. r \in hit /\ at'[r] = "done"
            BY <1>0, <2>1, <2>3, Replies DEF Seat
        <3>2. r \in hit'
            BY <1>0, <3>1 DEF Alone
        <3>3. Seat(r)'
            BY <3>1, <3>2 DEF Seat
        <3>4. QED
            BY <1>a, <2>1, <3>3
    <2>4. QED
        BY <1>10, <2>2, <2>3 DEF RereadAdmin
<1>11. QED
    BY <1>1, <1>2, <1>3, <1>4, <1>5, <1>6, <1>7, <1>8, <1>9, <1>10 DEF TenantStep

\* Update writes the slug back: another one than it read only if it was asked to.
LEMMA WriteTenantSits ==
    ASSUME KeyInv, TypeOK, NEW r \in Requests, RequestStep(r), WriteTenant(r), ~Astray', Named,
           \A q \in Requests : Seat(q)
    PROVE  Named' /\ \A q \in Requests : Seat(q)'
<1> DEFINE id == call[r].id
           row == [held[r] EXCEPT !.key = tenant[id].key]
<1>0. /\ Shape /\ at[r] = "tenantWrite" /\ at'[r] = "done" /\ Alone(r) /\ call' = call
      /\ id \in DOMAIN tenant /\ DOMAIN held[r] = Columns /\ call[r].op = "updateTenant"
    BY Replies, Kinds DEF WriteTenant, KeyInv, Known, Shape, TypeOK, Alone
<1>1. row.key = tenant[id].key /\ row.slug = held[r].slug
    BY <1>0 DEF Columns
<1> HIDE DEF row
<1>2. tenant' = tenant \/ tenant' = Put(tenant, id, row)
    BY DEF WriteTenant, row
<1>3. /\ DOMAIN tenant' = DOMAIN tenant
      /\ \A i \in DOMAIN tenant : \/ tenant'[i] = tenant[i]
                                  \/ i = id /\ tenant' # tenant /\ tenant'[i] = row
    BY <1>0, <1>2 DEF Put
\* Another slug is blamed unless it is the one of the administration, written alone.
<1>4. ASSUME tenant'[id].slug # tenant[id].slug
      PROVE  tenant'[id].slug = "admin" /\ "tenant" \notin clash'
    <2>1. tenant' # tenant /\ tenant'[id].slug = held[r].slug
        BY <1>0, <1>1, <1>3, <1>4
    <2>2. "slug" \in DOMAIN call[r].ask /\ held[r].slug = call[r].ask.slug
        BY <1>0, <1>4, <2>1 DEF Seat
    <2>3. r \in wrote'
        BY <2>1 DEF RequestStep
    <2>4. QED
        BY <1>0, <2>1, <2>2, <2>3 DEF Astray
<1>5. Named'
    BY <1>0, <1>1, <1>3, <1>4 DEF Named
<1>6. Admins # {} => Admins' # {}
    BY <1>3, <1>4 DEF Admins
<1>7. ASSUME NEW q \in Requests, q # r PROVE Seat(q)'
    <2>1. /\ at'[q] = at[q] /\ held'[q] = held[q] /\ answer'[q] = answer[q] /\ hit \subseteq hit'
          /\ Seat(q)
        BY <1>0, <1>7 DEF Alone
    <2>2. at[q] = "tenantWrite" => tenant'[call[q].id].slug = tenant[call[q].id].slug
        <3>1. SUFFICES ASSUME at[q] = "tenantWrite", call[q].id = id, tenant'[id].slug # tenant[id].slug
                       PROVE  FALSE
            BY <1>3 DEF KeyInv, Known
        <3>2. tenant' # tenant
            BY <3>1
        <3>3. "tenant" \in Clashes(r)
            BY <1>7, <3>1, <3>2 DEF Clashes, Holding
        <3>4. QED
            BY <1>4, <3>1, <3>3 DEF RequestStep
    <2>3. QED
        BY <1>0, <1>6, <2>1, <2>2 DEF Seat, AsAdmin
<1>8. Seat(r)'
    BY <1>0 DEF Seat
<1>9. QED
    BY <1>5, <1>7, <1>8

LEMMA AdminStep == KeyInv /\ TypeOK /\ AdminInv /\ [Next]_vars => AdminInv'
<1> SUFFICES ASSUME KeyInv, TypeOK, AdminInv, [Next]_vars PROVE AdminInv'
    OBVIOUS
<1>1. ASSUME NEW r \in Requests, RequestStep(r), ~Astray' PROVE Named' /\ \A q \in Requests : Seat(q)'
    <2>1. Handle(r) /\ Alone(r) /\ Shape
        BY <1>1, HandleWalks DEF RequestStep, Walks, KeyInv
    <2>2. Named /\ \A q \in Requests : Seat(q)
        BY <1>1, <2>1, AstrayStays DEF AdminInv
    <2>3. CASE ConfigStep(r) \/ TemplateStep(r) \/ MailStep(r) \/ BrandStep(r)
        <3>1. Elsewhere(r)
            BY <2>1, <2>3, ConfigElsewhere, TemplateElsewhere, MailElsewhere, BrandElsewhere
        <3>2. ~TenantStep(r) /\ ~QueryFails(r) => UNCHANGED tenant
            BY <2>1, MailFrame DEF Handle, tenantVars
        <3>3. CASE UNCHANGED tenant
            BY <2>2, <3>1, <3>3, ElsewhereSits
        <3>4. QED
            BY <1>1, <2>2, <3>2, <3>3, TenantSits, WriteTenantSits, FailingSits
    <2>4. QED
        BY <1>1, <2>1, <2>2, <2>3, TenantSits, WriteTenantSits, FailingSits DEF Handle
<1>2. ASSUME UNCHANGED <<call, at, held, answer, tenant, wrote, clash, first>>, hit \subseteq hit'
      PROVE  AdminInv'
    BY <1>2 DEF AdminInv, Astray, Named, Seat, AsAdmin, Admins
<1>3. ASSUME NEW m \in Requests, WorkerStep(m)
      PROVE  UNCHANGED <<call, at, held, answer, tenant>> /\ hit \subseteq hit'
    BY <1>3 DEF WorkerStep, LoadMail, FillFields, FindConfig, reqVars, tenantVars, Hit
<1>4. QED
    BY <1>1, <1>2, <1>3 DEF AdminInv, Next, LinkCheckExpires, reqVars, tenantVars, vars, apiVars

\* The administration key fails only over a failing query, or a tenant of the
\* administration with another slug (getOrCreateAdminTenant in auth_service.go looks for
\* the slug and inserts the key, Update in tenant_service.go changes the one alone).
THEOREM LockoutHasCause == Spec => []AdminLockedOutByRename
<1>1. Init => KeyInv /\ TypeOK /\ AdminInv
    <2> SUFFICES ASSUME Init PROVE AdminInv
        BY InitSound, TypeInit
    <2>1. /\ tenant = first.tenant /\ \A r \in Requests : answer[r] = 0
          /\ \A r \in Requests : at[r] \notin {"adminReread", "tenantWrite"}
        BY DEF Init, ReqInit, Open
    <2>2. QED
        BY <2>1 DEF AdminInv, Astray, Named, Seat
<1>2. KeyInv /\ TypeOK /\ AdminInv /\ [Next]_vars => (KeyInv /\ TypeOK /\ AdminInv)'
    BY StepSound, TypeStep, AdminStep
<1>3. AdminInv => AdminLockedOutByRename
    BY DEF AdminInv, Astray, Seat, AdminLockedOutByRename
<1>4. QED
    BY <1>1, <1>2, <1>3, PTL DEF Spec

-----------------------------------------------------------------------------
(* LostDefaultHasCause: without overlapping writes an update writes back    *)
(* what it read and was asked, and a default that is gone has a cause which *)
(* lasts until another default is there.                                    *)

MakesDefault(s, t) ==
    /\ call[s].tenant = t /\ call[s].op \in {"createConfig", "updateConfig"}
    /\ AskedDefault(s)

\* The configuration an update made the default is one, and is not active.
MadeInactive(s, t) ==
    LET id == call[s].id IN
    /\ call[s].op = "updateConfig" /\ id \in DOMAIN smtp
    /\ smtp[id].tenant = t /\ smtp[id].default /\ ~smtp[id].active

Cause(t) ==
    \E s \in wrote :
        \/ call[s].tenant = t /\ call[s].op = "deleteConfig"
        \/ call[s].tenant = t /\ call[s].op = "updateConfig" /\ Off(s, "active")
        \/ MakesDefault(s, t) /\ (answer[s] \notin {200, 201} \/ MadeInactive(s, t))

Fate(t) == Defaults(t) # {} \/ Cause(t)

HeldConfig(r) ==
    LET id == call[r].id
        ask == call[r].ask IN
    /\ at[r] \in {"configClear", "configWrite"} =>
         /\ id \in DOMAIN smtp
         /\ held[r].default = (smtp[id].default \/ AskedDefault(r))
         /\ held[r].active = IF "active" \in DOMAIN ask THEN ask.active ELSE smtp[id].active
    /\ at[r] = "configClear" => AskedDefault(r)

DefaultInv ==
    \/ "smtp" \in clash
    \/ (\A r \in Requests : HeldConfig(r)) /\ (\A t \in HadDefault : Fate(t))

\* A step that leaves the default configurations of a tenant as they are.
KeepsDefaults(t) ==
    \A i \in DOMAIN smtp :
        smtp[i].tenant = t /\ smtp[i].default =>
            /\ i \in DOMAIN smtp' /\ smtp'[i].tenant = t
            /\ smtp'[i].default /\ smtp'[i].active = smtp[i].active

LEMMA KeptFate ==
    ASSUME TypeOK, NEW r \in Requests, RequestStep(r), Alone(r), at[r] # "done", NEW t, Fate(t),
           KeepsDefaults(t), r \in wrote /\ MakesDefault(r, t) => answer'[r] \notin {200, 201}
    PROVE  Fate(t)'
<1>1. call' = call /\ wrote \subseteq wrote' /\ answer[r] = 0
    BY DEF RequestStep, Alone, TypeOK
<1>2. CASE Defaults(t) # {}
    BY <1>2 DEF Fate, Defaults, KeepsDefaults
<1>3. CASE Cause(t)
    <2>1. PICK s \in wrote :
            \/ call[s].tenant = t /\ call[s].op = "deleteConfig"
            \/ call[s].tenant = t /\ call[s].op = "updateConfig" /\ Off(s, "active")
            \/ MakesDefault(s, t) /\ (answer[s] \notin {200, 201} \/ MadeInactive(s, t))
        BY <1>3 DEF Cause
    <2>2. MakesDefault(s, t)' <=> MakesDefault(s, t)
        BY <1>1 DEF MakesDefault, AskedDefault
    <2>3. MadeInactive(s, t) => MadeInactive(s, t)'
        BY <1>1 DEF MadeInactive, KeepsDefaults
    <2>4. Off(s, "active") => Off(s, "active")'
        BY <1>1 DEF Off
    <2>5. s # r => answer'[s] = answer[s]
        BY <2>1 DEF Alone, TypeOK
    <2>6. Cause(t)'
        BY <1>1, <2>1, <2>2, <2>3, <2>4, <2>5 DEF Cause
    <2>7. QED
        BY <2>6 DEF Fate
<1>4. QED
    BY <1>2, <1>3 DEF Fate

LEMMA BlamedFate ==
    ASSUME NEW r \in Requests, Alone(r), r \in wrote', NEW t,
           \/ call[r].tenant = t /\ call[r].op = "deleteConfig"
           \/ call[r].tenant = t /\ call[r].op = "updateConfig" /\ Off(r, "active")
           \/ MakesDefault(r, t) /\ (answer'[r] \notin {200, 201} \/ MadeInactive(r, t)')
    PROVE  Fate(t)'
<1>1. call' = call
    BY DEF Alone
<1>2. MakesDefault(r, t) => MakesDefault(r, t)'
    BY <1>1 DEF MakesDefault, AskedDefault
<1>3. Off(r, "active") => Off(r, "active")'
    BY <1>1 DEF Off
<1>4. QED
    BY <1>1, <1>2, <1>3 DEF Fate, Cause

\* The other handlers hold configurations only while no other changes one.
LEMMA OthersHoldConfigs ==
    ASSUME NEW r \in Requests, RequestStep(r), Alone(r), "smtp" \notin clash', NEW q \in Requests,
           q # r, HeldConfig(q)
    PROVE  HeldConfig(q)'
<1>1. call' = call /\ at'[q] = at[q] /\ held'[q] = held[q]
    BY DEF Alone
<1>2. at[q] \in {"configClear", "configWrite"} => smtp' = smtp
    BY DEF RequestStep, Clashes, Holding
<1>3. QED
    BY <1>1, <1>2 DEF HeldConfig, AskedDefault

\* ClearDefault of a request that is about to make another one the default.
LEMMA ClearedFate ==
    ASSUME TypeOK, RowInv, NEW r \in Requests, RequestStep(r), Alone(r), at[r] # "done",
           smtp' = Cleared(call[r].tenant), MakesDefault(r, call[r].tenant),
           answer'[r] \notin {200, 201}, NEW t, Fate(t)
    PROVE  Fate(t)'
<1>1. CASE KeepsDefaults(t)
    BY <1>1, KeptFate
<1>2. CASE ~KeepsDefaults(t)
    <2>1. \A i \in DOMAIN smtp : DOMAIN smtp[i] = ConfigFields
        BY DEF RowInv, Tables, ConfigRow
    <2>2. DOMAIN smtp' = DOMAIN smtp
        BY DEF Cleared
    <2>3. \A i \in DOMAIN smtp :
            /\ smtp'[i].tenant = smtp[i].tenant /\ smtp'[i].active = smtp[i].active
            /\ smtp'[i].default = (smtp[i].default /\ smtp[i].tenant # call[r].tenant)
        BY <2>1 DEF Cleared, ConfigFields
    <2>4. t = call[r].tenant /\ smtp' # smtp
        BY <1>2, <2>2, <2>3 DEF KeepsDefaults
    <2>5. r \in wrote'
        BY <2>4 DEF RequestStep
    <2>6. QED
        BY <2>4, <2>5, BlamedFate
<1>3. QED
    BY <1>1, <1>2

LEMMA ConfigHeld ==
    ASSUME Shape, TypeOK, RowInv, NEW r \in Requests, Handle(r), ConfigStep(r), HeldConfig(r)
    PROVE  HeldConfig(r)'
<1> DEFINE id == call[r].id
           ask == call[r].ask
<1>0. /\ at[r] # "done" /\ Alone(r) /\ call' = call
      /\ AskedDefault(r)' <=> AskedDefault(r)
    BY ConfigWalks, Busy DEF Walks, Alone, AskedDefault
<1>a. at'[r] \notin {"configClear", "configWrite"} => HeldConfig(r)'
    BY DEF HeldConfig
<1>1. CASE ReadConfig(r) /\ at'[r] # "done"
    <2>1. /\ id \in DOMAIN smtp /\ held'[r] = Edited(r, smtp[id]) /\ UNCHANGED smtp
          /\ at'[r] = IF AskedDefault(r) THEN "configClear" ELSE "configWrite"
        BY <1>0, <1>1, Ways, Replies DEF ReadConfig, Owned
    <2>2. DOMAIN smtp[id] = ConfigFields
        BY <2>1 DEF RowInv, Tables, ConfigRow
    <2>3. /\ held'[r].default = (smtp[id].default \/ AskedDefault(r))
          /\ held'[r].active = IF "active" \in DOMAIN ask THEN ask.active ELSE smtp[id].active
        BY <2>1, <2>2 DEF Edited, Over, ConfigFields
    <2>4. QED
        BY <1>0, <2>1, <2>3 DEF HeldConfig
<1>2. CASE ClearDefault(r)
    <2>1. /\ at[r] = "configClear" /\ at'[r] = "configWrite" /\ held' = held
          /\ smtp' = Cleared(call[r].tenant)
        BY <1>2, Ways DEF ClearDefault
    <2>2. AskedDefault(r) /\ id \in DOMAIN smtp /\ DOMAIN smtp[id] = ConfigFields
        BY <2>1 DEF HeldConfig, RowInv, Tables, ConfigRow
    <2>3. smtp'[id].active = smtp[id].active /\ id \in DOMAIN smtp' /\ smtp'[id].default \in BOOLEAN
        BY <2>1, <2>2 DEF Cleared, ConfigFields, RowInv, Tables, ConfigRow
    <2>4. QED
        BY <1>0, <2>1, <2>2, <2>3 DEF HeldConfig
<1>3. CASE CreateConfig(r) \/ ListConfigs(r)
    <2>1. at'[r] \in {"done", "configInsert", "seedInsert"}
        BY <1>3, Ways, Replies DEF CreateConfig, CheckedConfig, ListConfigs
    <2>2. QED
        BY <1>a, <2>1
<1>4. CASE InsertConfig(r) \/ WriteConfig(r) \/ DeleteConfig(r) \/ TestConfig(r) \/ SeedConfig(r)
    <2>1. at'[r] = "done"
        BY <1>4, Replies DEF InsertConfig, WriteConfig, DeleteConfig, TestConfig, SeedConfig,
           Store
    <2>2. QED
        BY <1>a, <2>1
<1>5. QED
    BY <1>1, <1>2, <1>3, <1>4, <1>a DEF ConfigStep

LEMMA ConfigFates ==
    ASSUME Shape, TypeOK, RowInv, NEW r \in Requests, RequestStep(r), ConfigStep(r),
           "smtp" \notin clash', HeldConfig(r), NEW t, Fate(t)
    PROVE  Fate(t)'
<1> DEFINE id == call[r].id
           c == call[r]
<1>0. /\ call[r].op \in Ops /\ at[r] \in StepsOf(call[r].op) /\ at[r] # "done" /\ Alone(r)
      /\ call' = call /\ Decoded(call[r]) /\ answer[r] = 0
    BY ConfigWalks, Busy DEF Shape, TypeOK, Walks, Alone, RequestStep, RowInv, Tables
<1>b. UNCHANGED smtp => KeepsDefaults(t)
    BY DEF KeepsDefaults, RowInv, Tables, ConfigRow
<1>c. UNCHANGED smtp /\ (MakesDefault(r, t) => answer'[r] \notin {200, 201}) => Fate(t)'
    BY <1>0, <1>b, KeptFate
<1>1. CASE CreateConfig(r)
    <2>1. call[r].op = "createConfig" /\ at'[r] \in {"done", "configInsert"}
        BY <1>0, <1>1, Kinds, Ways, Replies DEF CreateConfig, CheckedConfig, Ops
    <2>2. answer'[r] \notin {200, 201}
        <3>1. Fail(r, "validation") => answer'[r] \in {400}
            BY Replies DEF StatusOf
        <3>2. QED
            BY <1>0, <1>1, <3>1, Ways DEF CreateConfig, CheckedConfig
    <2>3. CASE call[r].valid /\ call[r].ask.default
        <3>1. MakesDefault(r, call[r].tenant) /\ smtp' = Cleared(call[r].tenant)
            BY <1>0, <1>1, <2>1, <2>3 DEF MakesDefault, AskedDefault, Decoded, CreateConfig
        <3>2. QED
            BY <1>0, <2>1, <2>2, <3>1, ClearedFate
    <2>4. CASE ~(call[r].valid /\ call[r].ask.default)
        BY <1>1, <1>c, <2>1, <2>2, <2>4 DEF CreateConfig
    <2>5. QED
        BY <2>3, <2>4
<1>2. CASE InsertConfig(r)
    <2>1. call[r].op = "createConfig" /\ at'[r] = "done"
        BY <1>0, <1>2, Kinds, Replies DEF InsertConfig, Store
    <2>2. CASE UNCHANGED smtp /\ Fail(r, "other")
        <3>1. answer'[r] \in {400, 500}
            BY <2>2, Replies DEF StatusOf
        <3>2. QED
            BY <1>c, <2>1, <2>2, <3>1
    <2>3. CASE smtp' = Put(smtp, r, NewConfig(r))
        <3>1. r \notin DOMAIN smtp
            BY <1>0 DEF RowInv, Tables, Settled
        <3>2. KeepsDefaults(t) /\ smtp'[r] = NewConfig(r) /\ r \in DOMAIN smtp'
            BY <2>3, <3>1 DEF Put, KeepsDefaults, RowInv, Tables, ConfigRow
        <3>3. MakesDefault(r, t) => NewConfig(r).default /\ NewConfig(r).tenant = t /\ NewConfig(r).active
            BY DEF NewConfig, MakesDefault, AskedDefault
        <3>4. MakesDefault(r, t) => r \in Defaults(t)'
            BY <3>2, <3>3 DEF Defaults
        <3>5. CASE MakesDefault(r, t)
            BY <2>1, <3>4, <3>5 DEF Fate
        <3>6. CASE ~MakesDefault(r, t)
            BY <1>0, <2>1, <3>2, <3>6, KeptFate
        <3>7. QED
            BY <3>5, <3>6
    <2>4. QED
        BY <1>2, <2>2, <2>3 DEF InsertConfig, Store
<1>3. CASE ReadConfig(r)
    <2>1. UNCHANGED smtp /\ call[r].op = "updateConfig"
        BY <1>0, <1>3, Kinds DEF ReadConfig, Ops
    <2>2. answer'[r] \notin {200, 201}
        <3>1. \A e \in {"validation", "notFound"} : Fail(r, e) => answer'[r] \in {400, 404}
            BY Replies DEF StatusOf
        <3>2. QED
            BY <1>0, <1>3, <3>1, Ways DEF ReadConfig
    <2>3. QED
        BY <1>c, <2>1, <2>2
<1>4. CASE ClearDefault(r)
    <2>1. /\ at[r] = "configClear" /\ at'[r] = "configWrite" /\ held' = held /\ answer'[r] = 0
          /\ smtp' = Cleared(call[r].tenant) /\ call[r].op = "updateConfig"
        BY <1>0, <1>4, Ways, Kinds DEF ClearDefault
    <2>2. AskedDefault(r) /\ id \in DOMAIN smtp /\ DOMAIN smtp[id] = ConfigFields
        BY <2>1 DEF HeldConfig, RowInv, Tables, ConfigRow
    <2>3. MakesDefault(r, call[r].tenant)
        BY <2>1, <2>2 DEF MakesDefault
    <2>4. QED
        BY <1>0, <2>1, <2>3, ClearedFate
<1>5. CASE WriteConfig(r)
    <2>1. /\ at[r] = "configWrite" /\ at'[r] = "done" /\ call[r].op = "updateConfig"
          /\ id \in DOMAIN smtp /\ HeldRow(r)
        BY <1>0, <1>5, Replies, Kinds DEF WriteConfig, Store, HeldConfig, RowInv
    <2>2. smtp[id].tenant = c.tenant /\ ConfigRow(smtp[id]) /\ ConfigRow(held[r]) /\ held[r].tenant = c.tenant
        BY <2>1 DEF HeldRow, OwnConfig, RowInv, Tables
    <2>3. CASE UNCHANGED smtp /\ Fail(r, "other")
        <3>1. answer'[r] \in {400, 500}
            BY <2>3, Replies DEF StatusOf
        <3>2. QED
            BY <1>c, <2>1, <2>3, <3>1
    <2>4. CASE smtp' = Put(smtp, id, held[r])
        <3>1. /\ DOMAIN smtp' = DOMAIN smtp /\ smtp'[id] = held[r]
              /\ \A i \in DOMAIN smtp \ {id} : smtp'[i] = smtp[i]
            BY <2>1, <2>4 DEF Put
        <3>2. CASE t # c.tenant
            <4>1. KeepsDefaults(t) /\ ~MakesDefault(r, t)
                BY <2>2, <3>1, <3>2 DEF KeepsDefaults, MakesDefault, RowInv, Tables, ConfigRow
            <4>2. QED
                BY <1>0, <2>1, <4>1, KeptFate
        <3>3. CASE t = c.tenant /\ held[r].default /\ held[r].active
            BY <2>1, <2>2, <3>1, <3>3 DEF Fate, Defaults
        <3>4. CASE t = c.tenant /\ AskedDefault(r) /\ ~held[r].active
            <4>1. held[r].default /\ MakesDefault(r, t)
                BY <2>1, <3>4 DEF HeldConfig, MakesDefault
            <4>2. MadeInactive(r, t)'
                BY <1>0, <2>1, <2>2, <3>1, <3>4, <4>1 DEF MadeInactive
            <4>3. CASE r \in wrote'
                BY <1>0, <2>1, <4>1, <4>2, <4>3, BlamedFate
            <4>4. CASE r \notin wrote'
                <5>1. UNCHANGED smtp /\ r \notin wrote
                    BY <4>4 DEF RequestStep
                <5>2. QED
                    BY <1>0, <1>b, <2>1, <5>1, KeptFate
            <4>5. QED
                BY <4>3, <4>4
        <3>5. CASE t = c.tenant /\ ~AskedDefault(r) /\ smtp[id].default /\ ~held[r].active
            <4>1. held[r].default
                BY <2>1, <3>5 DEF HeldConfig
            <4>2. CASE smtp[id].active
                <5>1. Off(r, "active")
                    BY <2>1, <3>5, <4>2 DEF HeldConfig, Off
                <5>2. r \in wrote'
                    BY <3>1, <3>5, <4>2 DEF RequestStep
                <5>3. QED
                    BY <1>0, <2>1, <3>5, <5>1, <5>2, BlamedFate
            <4>3. CASE ~smtp[id].active
                <5>1. KeepsDefaults(t)
                    BY <2>2, <3>1, <3>5, <4>1, <4>3 DEF KeepsDefaults, ConfigRow, RowInv, Tables
                <5>2. QED
                    BY <1>0, <2>1, <3>5, <5>1, KeptFate DEF MakesDefault
            <4>4. QED
                BY <4>2, <4>3
        <3>6. CASE t = c.tenant /\ ~AskedDefault(r) /\ ~smtp[id].default
            <4>1. KeepsDefaults(t)
                BY <3>1, <3>6 DEF KeepsDefaults, RowInv, Tables, ConfigRow
            <4>2. QED
                BY <1>0, <2>1, <3>6, <4>1, KeptFate DEF MakesDefault
        <3>7. held[r].default <=> (smtp[id].default \/ AskedDefault(r))
            BY <2>1 DEF HeldConfig
        <3>8. QED
            BY <3>2, <3>3, <3>4, <3>5, <3>6, <3>7
    <2>5. QED
        BY <1>5, <2>1, <2>3, <2>4 DEF WriteConfig, Store
<1>6. CASE DeleteConfig(r)
    <2>1. call[r].op = "deleteConfig" /\ at'[r] = "done"
        BY <1>0, <1>6, Kinds, Replies DEF DeleteConfig, Ops
    <2>2. ~MakesDefault(r, t)
        BY <2>1 DEF MakesDefault
    <2>3. CASE Owned(smtp, id, t) /\ t = c.tenant
        <3>1. smtp' # smtp
            BY <1>6, <2>3 DEF DeleteConfig, Owned, Remove
        <3>2. r \in wrote'
            BY <3>1 DEF RequestStep
        <3>3. QED
            BY <1>0, <2>1, <2>3, <3>2, BlamedFate
    <2>4. CASE ~(Owned(smtp, id, t) /\ t = c.tenant)
        <3>1. KeepsDefaults(t)
            BY <1>6, <1>b, <2>4 DEF DeleteConfig, Owned, Remove, KeepsDefaults, RowInv, Tables,
               ConfigRow
        <3>2. QED
            BY <1>0, <2>1, <2>2, <3>1, KeptFate
    <2>5. QED
        BY <2>3, <2>4
<1>7. CASE TestConfig(r) \/ ListConfigs(r)
    <2>1. at[r] \in {"testConfig", "seedList"} /\ UNCHANGED smtp /\ at'[r] \in {"done", "seedInsert"}
        BY <1>7, Ways, Replies DEF TestConfig, ListConfigs
    <2>2. ~MakesDefault(r, t)
        BY <1>0, <2>1, Kinds DEF MakesDefault, Ops
    <2>3. QED
        BY <1>c, <2>1, <2>2
<1>8. CASE SeedConfig(r)
    <2>1. at[r] = "seedInsert" /\ at'[r] = "done"
        BY <1>8, Replies DEF SeedConfig, Store
    <2>2. ~MakesDefault(r, t)
        BY <1>0, <2>1, Kinds DEF MakesDefault
    <2>3. r \notin DOMAIN smtp
        BY <1>0 DEF RowInv, Tables, Settled
    <2>4. KeepsDefaults(t)
        BY <1>8, <1>b, <2>3 DEF SeedConfig, Store, Put, KeepsDefaults, RowInv, Tables, ConfigRow
    <2>5. QED
        BY <1>0, <2>1, <2>2, <2>4, KeptFate
<1>9. QED
    BY <1>1, <1>2, <1>3, <1>4, <1>5, <1>6, <1>7, <1>8 DEF ConfigStep

ConfigSteps ==
    {"createConfig", "configInsert", "updateConfig", "configClear", "configWrite"}

\* A step that is not about configurations leads to none of theirs, and answers a request
\* that makes one the default with no success.
LEMMA ForeignConfigs ==
    ASSUME Shape, TypeOK, NEW r \in Requests, Handle(r), ~ConfigStep(r)
    PROVE  /\ UNCHANGED smtp /\ at'[r] \notin {"configClear", "configWrite"}
           /\ call[r].op \in {"createConfig", "updateConfig"} => answer'[r] \notin {200, 201}
<1>0. call[r].op \in Ops /\ at[r] \in StepsOf(call[r].op) /\ at[r] # "done" /\ answer[r] = 0 /\ Walks(r)
    BY HandleWalks, Busy DEF Shape, TypeOK
<1>1. UNCHANGED smtp
    BY MailFrame DEF Handle, QueryFails, apiVars
<1>2. CASE QueryFails(r)
    <2>1. PICK code \in {401, Code(r, StatusOf.smtpNotSet), Code(r, StatusOf.other)} : GiveUp(r, code)
        BY <1>2 DEF QueryFails
    <2>2. code \notin {200, 201}
        BY DEF Code, StatusOf
    <2>3. QED
        BY <1>1, <2>1, <2>2, Ways
<1>3. CASE TenantContext(r)
    BY <1>0, <1>1, <1>3, Ways DEF TenantContext, Ops, AdminOps, Open
<1>4. CASE ~QueryFails(r) /\ ~TenantContext(r)
    <2>1. at[r] \notin ConfigSteps \cup {"enter", "done"}
        <3>1. TenantStep(r) /\ ~TenantContext(r) => at[r] \notin ConfigSteps \cup {"enter", "done"}
            BY DEF TenantStep, CreateTenant, GetTenant, DeleteTenant, ReadTenant, WriteTenant,
                   ReadForKey, WriteKey, TokenOfKey, ReadAdmin, InsertAdmin, RereadAdmin, ConfigSteps
        <3>2. BrandStep(r) => at[r] \notin ConfigSteps \cup {"enter", "done"}
            BY DEF BrandStep, ReadBranding, WriteBranding, ApplyTimezone, RereadBranding,
               UploadLogo,
                   GetLogo, ConfigSteps
        <3>3. TemplateStep(r) \/ MailStep(r) => at[r] \notin ConfigSteps \cup {"enter", "done"}
            BY MailFrame
               DEF TemplateStep, CreateTemplate, ReadTemplate, WriteTemplate, DeleteTemplate,
                   Preview, Analyse, TakeLinkCheck, MailSteps, ConfigSteps
        <3>4. QED
            BY <1>4, <3>1, <3>2, <3>3 DEF Handle
    <2>2. \A op \in {"createConfig", "updateConfig"} :
            StepsOf(op) \subseteq ConfigSteps \cup {"enter", "done"}
        BY DEF StepsOf, ConfigSteps
    <2>3. call[r].op \notin {"createConfig", "updateConfig"}
        BY <1>0, <2>1, <2>2
    <2>4. at'[r] \notin {"configClear", "configWrite"}
        BY <1>0, <2>3, Kinds DEF Walks
    <2>5. QED
        BY <1>1, <2>3, <2>4
<1>5. QED
    BY <1>2, <1>3, <1>4

LEMMA DefaultStep == KeyInv /\ TypeOK /\ RowInv /\ DefaultInv /\ [Next]_vars => DefaultInv'
<1> SUFFICES ASSUME Shape, TypeOK, RowInv, DefaultInv, [Next]_vars PROVE DefaultInv'
    BY DEF KeyInv
<1>1. ASSUME NEW r \in Requests, RequestStep(r), "smtp" \notin clash' PROVE DefaultInv'
    <2>1. Handle(r) /\ Alone(r) /\ at[r] # "done" /\ UNCHANGED first
        BY <1>1, HandleWalks, Busy DEF RequestStep, Walks
    <2>2. (\A q \in Requests : HeldConfig(q)) /\ (\A t \in HadDefault : Fate(t))
        BY <1>1 DEF DefaultInv, RequestStep
    <2>3. ASSUME NEW q \in Requests, q # r PROVE HeldConfig(q)'
        BY <1>1, <2>1, <2>2, <2>3, OthersHoldConfigs
    <2>4. HeldConfig(r)' /\ \A t \in HadDefault : Fate(t)'
        <3>1. CASE ConfigStep(r)
            BY <1>1, <2>1, <2>2, <3>1, ConfigHeld, ConfigFates
        <3>3. CASE ~ConfigStep(r)
            <4>1. HeldConfig(r)'
                BY <2>1, <3>3, ForeignConfigs DEF HeldConfig
            <4>2. ASSUME NEW t \in HadDefault PROVE Fate(t)'
                <5>1. KeepsDefaults(t)
                    BY <2>1, <3>3, ForeignConfigs DEF KeepsDefaults, RowInv, Tables, ConfigRow
                <5>2. QED
                    BY <1>1, <2>1, <2>2, <3>3, <5>1, ForeignConfigs, KeptFate DEF MakesDefault
            <4>3. QED
                BY <4>1, <4>2
        <3>4. QED
            BY <3>1, <3>3
    <2>5. HadDefault' = HadDefault
        BY <2>1 DEF HadDefault
    <2>6. QED
        BY <2>3, <2>4, <2>5 DEF DefaultInv
<1>2. CASE UNCHANGED <<call, at, held, answer, smtp, wrote, clash, first>>
    <2>1. \A r \in Requests : HeldConfig(r) => HeldConfig(r)'
        BY <1>2 DEF HeldConfig, AskedDefault
    <2>2. \A t : Defaults(t)' = Defaults(t) /\ Cause(t)' = Cause(t)
        BY <1>2 DEF Defaults, Cause, Off, MakesDefault, MadeInactive, AskedDefault
    <2>3. HadDefault' = HadDefault
        BY <1>2 DEF HadDefault
    <2>4. QED
        BY <1>2, <2>1, <2>2, <2>3 DEF DefaultInv, Fate
<1>3. ASSUME NEW m \in Requests, WorkerStep(m) PROVE UNCHANGED <<call, at, held, answer, smtp>>
    BY <1>3 DEF WorkerStep, LoadMail, FillFields, FindConfig, reqVars
<1>4. QED
    BY <1>1, <1>2, <1>3 DEF DefaultInv, Next, LinkCheckExpires, reqVars, vars, apiVars

\* A tenant that had a usable default configuration loses it for a reason somebody can be
\* told, or to two overlapping writes: ClearDefault and the write after it are two
\* statements (Create and Update of smtp_config_service.go).
THEOREM LossesHaveCauses == Spec => []LostDefaultHasCause
<1>1. Init => KeyInv /\ TypeOK /\ RowInv /\ DefaultInv
    <2> SUFFICES ASSUME Init PROVE DefaultInv
        BY InitSound, TypeInit, RowInit
    <2>1. smtp = first.smtp /\ \A r \in Requests : at[r] \notin {"configClear", "configWrite"}
        BY DEF Init, ReqInit, Open
    <2>2. \A t \in HadDefault : Defaults(t) # {}
        BY <2>1 DEF HadDefault, Defaults
    <2>3. QED
        BY <2>1, <2>2 DEF DefaultInv, HeldConfig, Fate
<1>2. KeyInv /\ TypeOK /\ RowInv /\ DefaultInv /\ [Next]_vars
      => (KeyInv /\ TypeOK /\ RowInv /\ DefaultInv)'
    BY StepSound, TypeStep, RowStep, DefaultStep
<1>3. DefaultInv => LostDefaultHasCause
    BY DEF DefaultInv, Fate, Cause, MakesDefault, MadeInactive, Inactive, LostDefaultHasCause
<1>4. QED
    BY <1>1, <1>2, <1>3, PTL DEF Spec

-----------------------------------------------------------------------------
(* MailFateHasCause: what a mail and the worker's copy of it refer to is    *)
(* still there, or somebody took it away; what the worker has cached of a   *)
(* template is what the table says, or somebody changed it.                 *)

Good == Texts \ {"unparsable"}

Changed(p) == Touched({"updateTemplate", "deleteTemplate"}, p)
Gone(t) == \E s \in wrote : call[s].op = "deleteConfig" /\ call[s].tenant = t
Shows(p, text) == Changed(p) \/ (p \in DOMAIN tmpl /\ tmpl[p].text = text)

\* Of a row, or a copy, of mail m.
StillRefers(m, row) ==
    LET c == call[m] IN
    /\ row.tmpl = c.ask.tmpl \/ (row.tmpl = Nothing /\ Changed(c.ask.tmpl))
    /\ Owned(smtp, row.smtp, c.tenant) \/ Gone(c.tenant)

Doomed(m) ==
    LET ask == call[m].ask IN
    \/ m \in hit \/ Changed(ask.tmpl) \/ Gone(call[m].tenant) \/ ask.data = "braces"
    \/ ask.text \in {"failing", "unparsable"}
    \/ ask.text = "" /\ Shows(ask.tmpl, "failing")

MailSound(m) ==
    /\ call[m].op = "createMail" /\ mail[m].tenant = call[m].tenant
    /\ mail[m].text = call[m].ask.text /\ mail[m].data = call[m].ask.data
    /\ StillRefers(m, mail[m])
    /\ mail[m].status = "failed" => Doomed(m)

JobFields == {"step", "smtp", "tmpl", "text"}

JobSound(m) ==
    job[m] # Nothing =>
        /\ m \in DOMAIN mail /\ DOMAIN job[m] = JobFields /\ StillRefers(m, job[m])
        /\ job[m].step = "fill" => job[m].text = call[m].ask.text
        /\ job[m].step \in {"config", "ready"} /\ job[m].text = "" /\ call[m].ask.tmpl # Nothing =>
             Shows(call[m].ask.tmpl, "")

TextsSound ==
    /\ \A i \in DOMAIN tmpl : tmpl[i].text \in Good
    /\ \A r \in Requests : at[r] = "templateWrite" => held[r].text \in Good

CacheSound == \A i \in DOMAIN compiled : compiled[i] \in Good /\ Shows(i, compiled[i])

MailInv ==
    /\ TextsSound /\ CacheSound
    /\ \A m \in DOMAIN mail : MailSound(m)
    /\ \A m \in Requests : JobSound(m)

\* What lasts over a step: everything that is referred to, or a cause.
Lasting ==
    /\ call' = call /\ wrote \subseteq wrote' /\ hit \subseteq hit'
    /\ \A p \in DOMAIN tmpl :
         (p \in DOMAIN tmpl' /\ tmpl'[p].text = tmpl[p].text) \/ Changed(p)'
    /\ \A i, t : Owned(smtp, i, t) => Owned(smtp', i, t) \/ Gone(t)'

StaysReferred(m, row) ==
    LET c == call[m] IN
    /\ row.tmpl = c.ask.tmpl \/ (row.tmpl = Nothing /\ Changed(c.ask.tmpl)')
    /\ Owned(smtp', row.smtp, c.tenant) \/ Gone(c.tenant)'

LEMMA LastingFacts ==
    ASSUME Lasting
    PROVE  /\ \A p : Changed(p) => Changed(p)'
           /\ \A t : Gone(t) => Gone(t)'
           /\ \A p, x : Shows(p, x) => Shows(p, x)'
           /\ \A m, row : StillRefers(m, row) => StaysReferred(m, row)
<1>1. ASSUME NEW p, Changed(p) PROVE Changed(p)'
    BY <1>1 DEF Lasting, Changed, Touched
<1>2. ASSUME NEW t, Gone(t) PROVE Gone(t)'
    BY <1>2 DEF Lasting, Gone
<1>3. ASSUME NEW p, NEW x, Shows(p, x) PROVE Shows(p, x)'
    BY <1>1, <1>3 DEF Lasting, Shows
<1>4. ASSUME NEW m, NEW row, StillRefers(m, row) PROVE StaysReferred(m, row)
    <2>1. Changed(call[m].ask.tmpl) => Changed(call[m].ask.tmpl)'
        BY DEF Lasting, Changed, Touched
    <2>2. Gone(call[m].tenant) => Gone(call[m].tenant)'
        BY DEF Lasting, Gone
    <2>3. Owned(smtp, row.smtp, call[m].tenant) =>
            Owned(smtp', row.smtp, call[m].tenant) \/ Gone(call[m].tenant)'
        <3>1. ASSUME NEW i, NEW t, Owned(smtp, i, t) PROVE Owned(smtp', i, t) \/ Gone(t)'
            BY <3>1 DEF Lasting
        <3>2. call' = call
            BY DEF Lasting
        <3>3. QED
            BY <3>1, <3>2 DEF Gone
    <2>4. row.tmpl = call[m].ask.tmpl \/ (row.tmpl = Nothing /\ Changed(call[m].ask.tmpl)')
        BY <1>4, <2>1 DEF StillRefers
    <2>5. Owned(smtp', row.smtp, call[m].tenant) \/ Gone(call[m].tenant)'
        BY <1>4, <2>2, <2>3 DEF StillRefers
    <2>6. QED
        BY <2>4, <2>5 DEF StaysReferred
<1>5. QED
    BY <1>1, <1>2, <1>3, <1>4

LEMMA DoomLasts == ASSUME Lasting, NEW m, Doomed(m) PROVE Doomed(m)'
<1>1. call' = call /\ hit \subseteq hit'
    BY DEF Lasting
<1>2. Shows(call[m].ask.tmpl, "failing") => Shows(call[m].ask.tmpl, "failing")'
    BY LastingFacts, <1>1 DEF Shows, Lasting, Changed, Touched
<1>3. Changed(call[m].ask.tmpl) => Changed(call[m].ask.tmpl)'
    BY DEF Lasting, Changed, Touched
<1>4. Gone(call[m].tenant) => Gone(call[m].tenant)'
    BY DEF Lasting, Gone
<1>5. QED
    BY <1>1, <1>2, <1>3, <1>4 DEF Doomed

\* A mail whose row changed in nothing but what it refers to, and a copy as it was.
LEMMA MailLasts ==
    ASSUME MailInv, Lasting, NEW m \in DOMAIN mail, StaysReferred(m, mail'[m]),
           mail'[m].tenant = mail[m].tenant, mail'[m].text = mail[m].text,
           mail'[m].data = mail[m].data, mail'[m].status = "failed" => Doomed(m)'
    PROVE  MailSound(m)'
<1>1. MailSound(m) /\ call' = call
    BY DEF MailInv, Lasting
<1>2. StillRefers(m, mail[m])'
    BY <1>1 DEF StaysReferred, StillRefers, Changed, Gone, Touched, Owned
<1>3. QED
    BY <1>1, <1>2 DEF MailSound

LEMMA JobLasts ==
    ASSUME MailInv, Lasting, DOMAIN mail \subseteq DOMAIN mail', NEW m \in Requests,
           job'[m] = job[m]
    PROVE  JobSound(m)'
<1>1. JobSound(m) /\ call' = call
    BY DEF MailInv, Lasting
<1>2. SUFFICES ASSUME job[m] # Nothing PROVE JobSound(m)'
    BY DEF JobSound
<1>3. StaysReferred(m, job'[m])
    BY <1>1, <1>2, LastingFacts DEF JobSound
<1>4. StillRefers(m, job[m])'
    BY <1>1, <1>3 DEF StaysReferred, StillRefers, Changed, Gone, Touched, Owned
<1>5. Shows(call[m].ask.tmpl, "") => Shows(call[m].ask.tmpl, "")'
    BY <1>1 DEF Shows, Lasting, Changed, Touched
<1>6. QED
    BY <1>1, <1>2, <1>4, <1>5 DEF JobSound

LEMMA CacheLasts == ASSUME CacheSound, Lasting, UNCHANGED compiled PROVE CacheSound'
<1>1. ASSUME NEW i \in DOMAIN compiled PROVE compiled[i] \in Good /\ Shows(i, compiled[i])'
    BY DEF CacheSound, Lasting, Shows, Changed, Touched
<1>2. QED
    BY <1>1 DEF CacheSound, Good, Texts

LEMMA DetachedLasts ==
    ASSUME MailInv, RowInv, Lasting, mail' = Detached, NEW m \in DOMAIN mail
    PROVE  MailSound(m)'
<1> DEFINE row == [mail[m] EXCEPT !.smtp = IF @ \in DOMAIN smtp' THEN @ ELSE Nothing,
                                  !.tmpl = IF @ \in DOMAIN tmpl' THEN @ ELSE Nothing]
           c == call[m]
<1>1. mail'[m] = row
    BY DEF Detached
<1>2. Refers(m) /\ MailSound(m) /\ DOMAIN mail[m] = MailFields
    BY DEF RowInv, MailInv, Refers, MailRow
<1>3. /\ row.tenant = mail[m].tenant /\ row.text = mail[m].text /\ row.data = mail[m].data
      /\ row.status = mail[m].status
      /\ row.smtp = (IF mail[m].smtp \in DOMAIN smtp' THEN mail[m].smtp ELSE Nothing)
      /\ row.tmpl = (IF mail[m].tmpl \in DOMAIN tmpl' THEN mail[m].tmpl ELSE Nothing)
    BY <1>2 DEF MailFields
<1> HIDE DEF row
<1>4. StaysReferred(m, mail[m])
    BY <1>2, LastingFacts DEF MailSound
<1>5. row.tmpl = c.ask.tmpl \/ (row.tmpl = Nothing /\ Changed(c.ask.tmpl)')
    <2>1. mail[m].tmpl \in DOMAIN tmpl =>
            mail[m].tmpl \in DOMAIN tmpl' \/ mail[m].tmpl # c.ask.tmpl \/ Changed(c.ask.tmpl)'
        BY DEF Lasting, Changed, Touched
    <2>2. QED
        BY <1>2, <1>3, <1>4, <2>1 DEF StaysReferred, Refers
<1>6. StaysReferred(m, row)
    BY <1>3, <1>4, <1>5 DEF StaysReferred, Owned
<1>7. mail[m].status = "failed" => Doomed(m)'
    BY <1>2, DoomLasts DEF MailSound
<1>8. QED
    BY <1>1, <1>3, <1>6, <1>7, MailLasts

LEMMA KeptLasts ==
    ASSUME MailInv, Lasting, NEW m \in DOMAIN mail, mail'[m] = mail[m]
    PROVE  MailSound(m)'
<1>1. MailSound(m) /\ StaysReferred(m, mail[m])
    BY LastingFacts DEF MailInv, MailSound
<1>2. QED
    BY <1>1, MailLasts, DoomLasts DEF MailSound

\* The steps of the handlers: a row goes, or its text changes, by a request that wrote.
LEMMA ConfigLasts ==
    ASSUME Shape, TypeOK, RowInv, NEW r \in Requests, RequestStep(r), ConfigStep(r),
           NEW i, NEW t, Owned(smtp, i, t)
    PROVE  Owned(smtp', i, t) \/ Gone(t)'
<1>0. /\ call[r].op \in Ops /\ at[r] \in StepsOf(call[r].op) /\ at[r] # "done" /\ call' = call
      /\ i \in DOMAIN smtp /\ smtp[i].tenant = t /\ ConfigRow(smtp[i]) /\ i # r
    BY ConfigWalks, Busy
       DEF Shape, TypeOK, Walks, Alone, RequestStep, RowInv, Tables, Owned, Settled
<1>1. CASE smtp' = Cleared(call[r].tenant)
    BY <1>0, <1>1 DEF Cleared, Owned, ConfigRow, ConfigFields
<1>2. CASE UNCHANGED smtp
    BY <1>0, <1>2 DEF Owned
<1>3. CASE InsertConfig(r) \/ SeedConfig(r)
    BY <1>0, <1>2, <1>3 DEF InsertConfig, SeedConfig, Store, Put, Owned
<1>4. CASE WriteConfig(r)
    <2>1. HeldRow(r) /\ at[r] = "configWrite"
        BY <1>4 DEF RowInv, WriteConfig
    <2>2. QED
        BY <1>0, <1>2, <1>4, <2>1 DEF WriteConfig, Store, Put, Owned, HeldRow, OwnConfig
<1>5. CASE DeleteConfig(r)
    <2>1. call[r].op = "deleteConfig"
        BY <1>0, <1>5, Kinds DEF DeleteConfig, Ops
    <2>2. CASE Owned(smtp, call[r].id, call[r].tenant) /\ call[r].id = i
        <3>1. smtp' # smtp /\ call[r].tenant = t
            BY <1>0, <1>5, <2>2 DEF DeleteConfig, Owned, Remove
        <3>2. r \in wrote'
            BY <3>1 DEF RequestStep
        <3>3. QED
            BY <1>0, <2>1, <3>1, <3>2 DEF Gone
    <2>3. CASE ~(Owned(smtp, call[r].id, call[r].tenant) /\ call[r].id = i)
        BY <1>0, <1>5, <2>3 DEF DeleteConfig, Owned, Remove
    <2>4. QED
        BY <2>2, <2>3
<1>6. CASE ClearDefault(r) \/ CreateConfig(r)
    BY <1>1, <1>2, <1>6 DEF ClearDefault, CreateConfig
<1>7. CASE ReadConfig(r) \/ TestConfig(r) \/ ListConfigs(r)
    BY <1>2, <1>7 DEF ReadConfig, TestConfig, ListConfigs
<1>8. QED
    BY <1>3, <1>4, <1>5, <1>6, <1>7 DEF ConfigStep

LEMMA TemplateLasts ==
    ASSUME Shape, TypeOK, RowInv, TextsSound, NEW r \in Requests, RequestStep(r), TemplateStep(r)
    PROVE  /\ \A p \in DOMAIN tmpl :
                (p \in DOMAIN tmpl' /\ tmpl'[p].text = tmpl[p].text) \/ Changed(p)'
           /\ \A i \in DOMAIN tmpl' : tmpl'[i].text \in Good
           /\ at'[r] = "templateWrite" => held'[r].text \in Good
<1>0. /\ call[r].op \in Ops /\ at[r] \in StepsOf(call[r].op) /\ at[r] # "done" /\ call' = call
      /\ Decoded(call[r])
    BY TemplateWalks, Busy DEF Shape, TypeOK, Walks, Alone, RequestStep, RowInv, Tables
<1>1. tmpl' # tmpl => r \in wrote'
    BY DEF RequestStep
<1>2. CASE CreateTemplate(r)
    <2>1. at'[r] = "done" /\ call[r].op = "createTemplate" /\ r \notin DOMAIN tmpl
        BY <1>0, <1>2, Kinds, Replies DEF CreateTemplate, Ops, RowInv, Tables, Settled
    <2>2. tmpl' = tmpl \/ (tmpl' = Put(tmpl, r, NewTemplate(r)) /\ Parses(call[r].ask.text))
        BY <1>2 DEF CreateTemplate
    <2>3. Parses(call[r].ask.text) => NewTemplate(r).text \in Good
        BY <1>0, <2>1 DEF Decoded, Parses, NewTemplate, Good
    <2>4. QED
        BY <2>1, <2>2, <2>3 DEF Put, TextsSound
<1>3. CASE ReadTemplate(r)
    <2> DEFINE id == call[r].id
               row == Over(call[r].ask, tmpl[id])
    <2>1. UNCHANGED tmpl /\ call[r].op = "updateTemplate"
        BY <1>0, <1>3, Kinds DEF ReadTemplate, templateVars, Ops
    <2>2. ASSUME at'[r] = "templateWrite" PROVE held'[r].text \in Good
        <3>1. Owned(tmpl, id, call[r].tenant) /\ held'[r] = row /\ Parses(row.text)
            BY <1>3, <2>2, Ways, Replies DEF ReadTemplate
        <3>2. DOMAIN tmpl[id] = TemplateFields /\ tmpl[id].text \in Texts
            BY <3>1 DEF Owned, RowInv, Tables, TemplateRow, TextsSound, Good
        <3>3. row.text \in Texts
            BY <1>0, <2>1, <3>2 DEF Over, TemplateFields, Decoded
        <3>4. QED
            BY <3>1, <3>3 DEF Parses, Good
    <2>3. QED
        BY <2>1, <2>2 DEF TextsSound
<1>4. CASE WriteTemplate(r)
    <2>1. at[r] = "templateWrite" /\ at'[r] = "done" /\ call[r].op = "updateTemplate"
        BY <1>0, <1>4, Kinds, Replies DEF WriteTemplate
    <2>2. held[r].text \in Good
        BY <2>1 DEF TextsSound
    <2>3. tmpl' = tmpl \/ (call[r].id \in DOMAIN tmpl /\ tmpl' = Put(tmpl, call[r].id, held[r]))
        BY <1>4 DEF WriteTemplate, Rewrite
    <2>4. tmpl' # tmpl => Changed(call[r].id)'
        BY <1>0, <1>1, <2>1 DEF Changed, Touched
    <2>5. ASSUME NEW p \in DOMAIN tmpl
          PROVE  (p \in DOMAIN tmpl' /\ tmpl'[p].text = tmpl[p].text) \/ Changed(p)'
        <3>1. p # call[r].id => p \in DOMAIN tmpl' /\ tmpl'[p] = tmpl[p]
            BY <2>3 DEF Put
        <3>2. p = call[r].id => Changed(p)' \/ tmpl' = tmpl
            BY <1>0, <1>1, <2>1 DEF Changed, Touched
        <3>3. QED
            BY <3>1, <3>2
    <2>6. QED
        BY <2>1, <2>2, <2>3, <2>5 DEF Put, TextsSound
<1>5. CASE DeleteTemplate(r)
    <2>1. at'[r] = "done" /\ call[r].op = "deleteTemplate"
        BY <1>0, <1>5, Kinds, Replies DEF DeleteTemplate, Ops
    <2>2. tmpl' = tmpl \/ tmpl' = Remove(tmpl, call[r].id)
        BY <1>5 DEF DeleteTemplate
    <2>3. ASSUME NEW p \in DOMAIN tmpl
          PROVE  (p \in DOMAIN tmpl' /\ tmpl'[p].text = tmpl[p].text) \/ Changed(p)'
        <3>1. p # call[r].id => p \in DOMAIN tmpl' /\ tmpl'[p] = tmpl[p]
            BY <2>2 DEF Remove
        <3>2. p = call[r].id => Changed(p)' \/ tmpl' = tmpl
            BY <1>0, <1>1, <2>1 DEF Changed, Touched
        <3>3. QED
            BY <3>1, <3>2
    <2>4. QED
        BY <2>1, <2>2, <2>3 DEF Remove, TextsSound
<1>6. CASE Preview(r) \/ Analyse(r) \/ TakeLinkCheck(r)
    <2>1. UNCHANGED tmpl /\ at'[r] \in {"done", "analyse"}
        BY <1>6, Ways, Replies DEF Preview, Analyse, RenderReply, TakeLinkCheck, templateVars
    <2>2. QED
        BY <2>1 DEF TextsSound
<1>7. QED
    BY <1>2, <1>3, <1>4, <1>5, <1>6 DEF TemplateStep

LEMMA HandleLasts ==
    ASSUME Shape, TypeOK, RowInv, TextsSound, NEW r \in Requests, RequestStep(r)
    PROVE  Lasting /\ TextsSound'
<1>0. /\ Handle(r) /\ Alone(r) /\ wrote \subseteq wrote' /\ hit \subseteq hit' /\ call' = call
    BY HandleWalks DEF RequestStep, Walks, Alone
<1>1. CASE TemplateStep(r) /\ UNCHANGED smtp
    <2>1. Lasting
        BY <1>0, <1>1, TemplateLasts DEF Lasting
    <2>2. TextsSound'
        BY <1>0, <1>1, TemplateLasts DEF TextsSound, Alone
    <2>3. QED
        BY <2>1, <2>2
<1>2. CASE UNCHANGED tmpl /\ at'[r] # "templateWrite"
    <2>1. TextsSound'
        BY <1>0, <1>2 DEF TextsSound, Alone
    <2>2. UNCHANGED smtp \/ ConfigStep(r)
        BY <1>0, MailFrame DEF Handle, QueryFails, apiVars
    <2>3. \A i, t : Owned(smtp, i, t) => Owned(smtp', i, t) \/ Gone(t)'
        BY <2>2, ConfigLasts
    <2>4. QED
        BY <1>0, <1>2, <2>1, <2>3 DEF Lasting
<1>3. CASE \/ TenantStep(r) /\ UNCHANGED <<smtp, templateVars, mailVars, brandVars>>
           \/ BrandStep(r) /\ UNCHANGED <<tenantVars, smtp, templateVars, mailVars>>
           \/ QueryFails(r)
    BY <1>2, <1>3, AsideSteps DEF RowSteps, QueryFails, apiVars, templateVars
<1>4. CASE ConfigStep(r) /\ UNCHANGED templateVars
    <2>1. at'[r] \in {"done", "configInsert", "configClear", "configWrite", "seedInsert"}
        BY <1>4, Ways, Replies DEF ConfigStep, CreateConfig, CheckedConfig, InsertConfig,
           ReadConfig,
           ClearDefault, WriteConfig, DeleteConfig, TestConfig, ListConfigs, SeedConfig, Store
    <2>2. QED
        BY <1>2, <1>4, <2>1 DEF templateVars
<1>5. CASE MailStep(r)
    <2>1. UNCHANGED tmpl
        BY <1>5, MailFrame DEF templateVars
    <2>2. at'[r] # "templateWrite"
        <3>1. call[r].op = "createMail"
            BY <1>5, MailFrame, Kinds DEF MailSteps, Shape, TypeOK, Ops
        <3>2. QED
            BY <3>1, HandleWalks, Kinds DEF RequestStep, Walks, Ops
    <2>3. QED
        BY <1>2, <2>1, <2>2
<1>6. QED
    BY <1>0, <1>1, <1>3, <1>4, <1>5 DEF Handle

\* The handlers and the mails: one inserts its own, others unset what is gone.
LEMMA HandleFate ==
    ASSUME Shape, TypeOK, RowInv, MailInv, NEW r \in Requests, RequestStep(r)
    PROVE  MailInv'
<1>0. Handle(r) /\ Lasting /\ TextsSound' /\ call' = call
    BY HandleLasts DEF RequestStep, MailInv, Lasting
<1>1. UNCHANGED <<job, compiled>>
    BY <1>0, MailFrame DEF Handle, QueryFails, apiVars, mailVars, workerVars
<1>2. CacheSound'
    BY <1>0, <1>1, CacheLasts DEF MailInv
<1>3. /\ DOMAIN mail \subseteq DOMAIN mail'
      /\ \A m \in DOMAIN mail' : MailSound(m)'
    <2>1. CASE mail' = Detached
        BY <1>0, <2>1, DetachedLasts DEF Detached
    <2>2. CASE UNCHANGED mail
        BY <1>0, <2>2, KeptLasts
    <2>3. CASE InsertMail(r) /\ ~UNCHANGED mail
        <3> DEFINE c == call[r]
                   row == [tenant |-> c.tenant, smtp |-> held[r].smtp, tmpl |-> c.ask.tmpl,
                           text |-> c.ask.text, data |-> c.ask.data, status |-> "queued"]
        <3>1. /\ mail' = Put(mail, r, row) /\ held[r].smtp \in DOMAIN smtp
              /\ at[r] = "mailInsert" /\ UNCHANGED smtp
            BY <2>3 DEF InsertMail
        <3>2. c.op = "createMail"
            BY <3>1, Kinds DEF Shape, TypeOK
        <3>3. smtp[held[r].smtp].tenant = c.tenant
            BY <3>1 DEF RowInv, HeldRow, OwnConfig
        <3>4. /\ row.tenant = c.tenant /\ row.text = c.ask.text /\ row.data = c.ask.data
              /\ row.status # "failed"
            OBVIOUS
        <3>5. mail'[r] = row
            BY <3>1 DEF Put
        <3>6. MailSound(r)'
            <4>1. StillRefers(r, mail[r])'
                <5>1. mail'[r].tmpl = call'[r].ask.tmpl
                    BY <1>0, <3>5
                <5>2. /\ mail'[r].smtp \in DOMAIN smtp'
                      /\ smtp'[mail'[r].smtp].tenant = call'[r].tenant
                    BY <1>0, <3>1, <3>3, <3>5
                <5>3. QED
                    BY <5>1, <5>2 DEF StillRefers, Owned
            <4>2. QED
                BY <1>0, <3>2, <3>4, <3>5, <4>1 DEF MailSound
        <3> HIDE DEF row
        <3>7. \A m \in DOMAIN mail' : m = r \/ (m \in DOMAIN mail /\ mail'[m] = mail[m])
            BY <3>1 DEF Put
        <3>8. DOMAIN mail \subseteq DOMAIN mail'
            BY <3>1 DEF Put
        <3>9. QED
            BY <1>0, <3>6, <3>7, <3>8, KeptLasts
    <2>4. QED
        BY <1>0, <2>1, <2>2, <2>3, MailFrame DEF Handle, QueryFails, apiVars, mailVars
<1>4. \A m \in Requests : JobSound(m)'
    BY <1>0, <1>1, <1>3, JobLasts
<1>5. QED
    BY <1>0, <1>2, <1>3, <1>4 DEF MailInv

\* What the fields of a mail become.
LEMMA RenderedOnce ==
    ASSUME NEW x \in Texts, NEW d, NEW z, z = IF d # "none" THEN Rendered(x, d) ELSE x
    PROVE  (z = "error" => x \in {"failing", "unparsable"}) /\ (z = "" => x = "")
BY DEF Texts, Rendered

LEMMA RenderedTwice ==
    ASSUME NEW x \in Good, NEW d, NEW z,
           z = IF d # "none" THEN Rendered(Rendered(x, d), d) ELSE Rendered(x, d)
    PROVE  (z = "error" => d = "braces" \/ x = "failing") /\ (z = "" => x = "")
BY DEF Good, Texts, Rendered

\* The worker takes its copy of one mail further and may fail the mail.
LEMMA CopySound ==
    ASSUME MailInv, Lasting, DOMAIN mail \subseteq DOMAIN mail', NEW m \in Requests,
           job[m] # Nothing, DOMAIN job'[m] = JobFields,
           job'[m].smtp = job[m].smtp, job'[m].tmpl = job[m].tmpl, job'[m].step # "fill",
           job'[m].step \in {"config", "ready"} /\ job'[m].text = "" /\ call[m].ask.tmpl # Nothing
             => Shows(call[m].ask.tmpl, "")'
    PROVE  JobSound(m)'
<1>1. JobSound(m) /\ call' = call
    BY DEF MailInv, Lasting
<1>2. StaysReferred(m, job[m])
    BY <1>1, LastingFacts DEF JobSound
<1>3. StillRefers(m, job[m])'
    BY <1>1, <1>2 DEF StaysReferred, StillRefers, Changed, Gone, Touched, Owned
<1>4. QED
    BY <1>1, <1>3 DEF JobSound

LEMMA WorkerKeeps ==
    ASSUME TypeOK, RowInv, MailInv, Lasting, NEW m \in Requests, NEW copy, Advance(m, copy),
           JobSound(m)',
           mail' = mail \/ (mail' = [mail EXCEPT ![m].status = "failed"] /\ Doomed(m)')
    PROVE  /\ \A n \in DOMAIN mail' : MailSound(n)'
           /\ \A n \in Requests : JobSound(n)'
<1>1. DOMAIN mail' = DOMAIN mail
    OBVIOUS
<1>2. ASSUME NEW n \in Requests PROVE JobSound(n)'
    <2>1. n # m => job'[n] = job[n]
        BY DEF Advance, TypeOK
    <2>2. QED
        BY <1>1, <2>1, JobLasts
<1>3. ASSUME NEW n \in DOMAIN mail PROVE MailSound(n)'
    <2>1. CASE mail'[n] = mail[n]
        BY <2>1, KeptLasts
    <2>2. CASE mail'[n] # mail[n]
        <3>1. n = m /\ Doomed(n)' /\ mail'[n] = [mail[n] EXCEPT !.status = "failed"]
            BY <2>2
        <3>2. MailSound(n) /\ DOMAIN mail[n] = MailFields
            BY DEF MailInv, RowInv, Refers, MailRow
        <3>3. /\ mail'[n].tenant = mail[n].tenant /\ mail'[n].text = mail[n].text
              /\ mail'[n].data = mail[n].data
              /\ mail'[n].smtp = mail[n].smtp /\ mail'[n].tmpl = mail[n].tmpl
            BY <3>1, <3>2 DEF MailFields
        <3>4. StaysReferred(n, mail[n])
            BY <3>2, LastingFacts DEF MailSound
        <3>5. StaysReferred(n, mail'[n])
            BY <3>3, <3>4 DEF StaysReferred
        <3>6. QED
            BY <3>1, <3>3, <3>5, MailLasts
    <2>3. QED
        BY <2>1, <2>2
<1>4. QED
    BY <1>1, <1>2, <1>3

\* A mail that ends here has its cause; its copy is of no use any more.
LEMMA FailKeeps ==
    ASSUME TypeOK, RowInv, MailInv, Lasting, NEW m \in Requests, job[m] # Nothing,
           FailMail(m), Doomed(m)'
    PROVE  /\ \A n \in DOMAIN mail' : MailSound(n)'
           /\ \A n \in Requests : JobSound(n)'
<1>1. DOMAIN job[m] = JobFields /\ job'[m] = [job[m] EXCEPT !.step = "failed"]
    BY DEF MailInv, JobSound, FailMail, Advance, TypeOK
<1>2. /\ DOMAIN job'[m] = JobFields /\ job'[m].step = "failed"
      /\ job'[m].smtp = job[m].smtp /\ job'[m].tmpl = job[m].tmpl
    BY <1>1 DEF JobFields
<1>3. DOMAIN mail' = DOMAIN mail
    BY DEF FailMail
<1>4. JobSound(m)'
    BY <1>2, <1>3, CopySound
<1>5. QED
    BY <1>4, WorkerKeeps DEF FailMail

\* What Finish does with a text, given what its ways out would say of the mail.
LEMMA FinishKeeps ==
    ASSUME TypeOK, RowInv, MailInv, Lasting, NEW m \in Requests, job[m] # Nothing,
           NEW x, Finish(m, x), NEW final,
           final = IF mail[m].data # "none" THEN Rendered(x, mail[m].data) ELSE x,
           final = "error" => Doomed(m)',
           final = "" /\ call[m].ask.tmpl # Nothing => Shows(call[m].ask.tmpl, "")'
    PROVE  /\ \A n \in DOMAIN mail' : MailSound(n)'
           /\ \A n \in Requests : JobSound(n)'
<1>1. CASE final = "error"
    BY <1>1, FailKeeps DEF Finish
<1>2. CASE final # "error"
    <2> DEFINE copy == [job[m] EXCEPT !.step = "config", !.text = final]
    <2>1. Advance(m, copy) /\ UNCHANGED mail
        BY <1>2 DEF Finish
    <2>2. DOMAIN job[m] = JobFields /\ job'[m] = copy
        BY <2>1 DEF MailInv, JobSound, Advance, TypeOK
    <2>3. /\ DOMAIN job'[m] = JobFields /\ job'[m].step = "config" /\ job'[m].text = final
          /\ job'[m].smtp = job[m].smtp /\ job'[m].tmpl = job[m].tmpl
        BY <2>2 DEF JobFields
    <2>4. JobSound(m)'
        BY <2>1, <2>3, CopySound
    <2>5. QED
        BY <2>1, <2>4, WorkerKeeps
<1>3. QED
    BY <1>1, <1>2

LEMMA WorkerLasts ==
    ASSUME NEW m \in Requests, WorkerStep(m), UNCHANGED wrote
    PROVE  Lasting /\ UNCHANGED <<call, at, held, tmpl, smtp>>
<1>1. UNCHANGED <<call, at, held, tmpl, smtp>> /\ hit \subseteq hit'
    BY DEF WorkerStep, LoadMail, FillFields, FindConfig, Hit, reqVars, templateVars
<1>2. QED
    BY <1>1 DEF Lasting, Owned

LEMMA LoadFate ==
    ASSUME TypeOK, RowInv, MailInv, Lasting, NEW m \in Requests, LoadMail(m)
    PROVE  /\ CacheSound' /\ (\A n \in DOMAIN mail' : MailSound(n)')
           /\ \A n \in Requests : JobSound(n)'
<1> DEFINE copy == [step |-> "fill", smtp |-> mail[m].smtp, tmpl |-> mail[m].tmpl,
                    text |-> mail[m].text]
<1>1. MailSound(m) /\ m \in DOMAIN mail /\ call' = call
    BY DEF LoadMail, MailInv, Lasting
<1>2. /\ Advance(m, copy) /\ job'[m] = copy /\ UNCHANGED <<mail, compiled>>
    BY DEF LoadMail, Advance, TypeOK
<1>3. StaysReferred(m, mail[m])
    BY <1>1, LastingFacts DEF MailSound
<1>4. StillRefers(m, job[m])'
    BY <1>1, <1>2, <1>3 DEF StaysReferred, StillRefers, Changed, Gone, Touched, Owned
<1>5. JobSound(m)'
    BY <1>1, <1>2, <1>4 DEF JobSound, JobFields, MailSound
<1>6. QED
    BY <1>2, <1>5, WorkerKeeps, CacheLasts DEF MailInv

LEMMA FillFate ==
    ASSUME TypeOK, RowInv, MailInv, Lasting, UNCHANGED tmpl, NEW m \in Requests, FillFields(m)
    PROVE  /\ CacheSound' /\ (\A n \in DOMAIN mail' : MailSound(n)')
           /\ \A n \in Requests : JobSound(n)'
<1> DEFINE id == job[m].tmpl
           ask == call[m].ask
           data == mail[m].data
<1>1. /\ m \in DOMAIN mail /\ MailSound(m) /\ job[m] # Nothing /\ StillRefers(m, job[m])
      /\ job[m].text = ask.text /\ data = ask.data /\ ask.text \in Texts /\ call' = call
    <2>1. job[m] # Nothing /\ job[m].step = "fill" /\ call' = call
        BY DEF FillFields
    <2>2. m \in DOMAIN mail /\ StillRefers(m, job[m]) /\ job[m].text = ask.text
        BY <2>1 DEF MailInv, JobSound
    <2>3. MailSound(m) /\ Decoded(call[m])
        BY <2>2 DEF MailInv, RowInv, Tables
    <2>4. QED
        BY <2>1, <2>2, <2>3 DEF MailSound, Decoded
<1>2. id = ask.tmpl \/ (id = Nothing /\ Changed(ask.tmpl)')
    BY <1>1, LastingFacts DEF StillRefers
<1>3. ASSUME NEW x \in Good, Shows(id, x), id # Nothing, job[m].text = "",
             Finish(m, Rendered(x, data))
      PROVE  (\A n \in DOMAIN mail' : MailSound(n)') /\ (\A n \in Requests : JobSound(n)')
    <2> DEFINE final == IF data # "none" THEN Rendered(Rendered(x, data), data)
                                         ELSE Rendered(x, data)
    <2>1. (final = "error" => data = "braces" \/ x = "failing") /\ (final = "" => x = "")
        BY RenderedTwice
    <2> HIDE DEF final
    <2>2. Shows(ask.tmpl, x)'
        <3>1. Shows(ask.tmpl, x)
            BY <1>2, <1>3
        <3>2. QED
            BY <1>1, <3>1 DEF Shows, Lasting, Changed, Touched
    <2>3. x = "failing" => Shows(ask.tmpl, "failing")'
        BY <2>2
    <2>4. x = "" => Shows(ask.tmpl, "")'
        BY <2>2
    <2>5. final = "error" => Doomed(m)'
        <3>1. final = "error" => data = "braces" \/ x = "failing"
            BY <2>1
        <3>2. final = "error" => ask.data = "braces" \/ (ask.text = "" /\ Shows(ask.tmpl, "failing")')
            BY <1>1, <1>3, <2>3, <3>1
        <3>3. QED
            BY <1>1, <3>2 DEF Doomed
    <2> DEFINE text == Rendered(x, data)
    <2>6. Finish(m, text) /\ final = IF mail[m].data # "none" THEN Rendered(text, mail[m].data) ELSE text
        BY <1>3 DEF final
    <2>7. final = "" /\ call[m].ask.tmpl # Nothing => Shows(call[m].ask.tmpl, "")'
        BY <2>1, <2>4
    <2> HIDE DEF final, ask, data
    <2>8. QED
        BY <1>1, <2>5, <2>6, <2>7, FinishKeeps
<1>4. CASE /\ id = Nothing \/ job[m].text # ""
           /\ Finish(m, job[m].text) /\ UNCHANGED compiled
    <2> DEFINE final == IF data # "none" THEN Rendered(ask.text, data) ELSE ask.text
    <2>1. /\ final = "error" => ask.text \in {"failing", "unparsable"}
          /\ final = "" => ask.text = ""
        BY <1>1 DEF Texts, Rendered
    <2> HIDE DEF final
    <2>2. final = "error" => Doomed(m)'
        BY <1>1, <2>1 DEF Doomed
    <2>3. final = "" /\ ask.tmpl # Nothing => Shows(ask.tmpl, "")'
        <3>1. final = "" /\ ask.tmpl # Nothing => Changed(ask.tmpl)'
            BY <1>1, <1>2, <1>4, <2>1
        <3>2. QED
            BY <1>1, <3>1 DEF Shows, Changed, Touched
    <2>4. /\ Finish(m, ask.text)
          /\ final = IF mail[m].data # "none" THEN Rendered(ask.text, mail[m].data) ELSE ask.text
        BY <1>1, <1>4 DEF final
    <2> HIDE DEF ask, data
    <2>5. (\A n \in DOMAIN mail' : MailSound(n)') /\ (\A n \in Requests : JobSound(n)')
        <3>1. final = "" /\ call[m].ask.tmpl # Nothing => Shows(call[m].ask.tmpl, "")'
            BY <2>3 DEF ask
        <3>2. QED
            BY <1>1, <2>2, <2>4, <3>1, FinishKeeps
    <2>6. QED
        BY <1>4, <2>5, CacheLasts DEF MailInv
<1>5. CASE /\ id # Nothing /\ job[m].text = "" /\ id \in DOMAIN compiled
           /\ Finish(m, Rendered(compiled[id], data)) /\ UNCHANGED compiled
    <2>1. compiled[id] \in Good /\ Shows(id, compiled[id])
        BY <1>5 DEF MailInv, CacheSound
    <2>2. QED
        BY <1>3, <1>5, <2>1, CacheLasts DEF MailInv
<1>6. CASE /\ id # Nothing /\ job[m].text = "" /\ Owned(tmpl, id, mail[m].tenant)
           /\ Finish(m, Rendered(tmpl[id].text, data))
           /\ compiled' = Put(compiled, id, tmpl[id].text)
    <2>1. id \in DOMAIN tmpl /\ tmpl[id].text \in Good /\ Shows(id, tmpl[id].text)
        BY <1>6 DEF MailInv, TextsSound, Owned, Shows
    <2>2. ASSUME NEW i \in DOMAIN compiled'
          PROVE  compiled'[i] \in Good /\ Shows(i, compiled[i])'
        <3>1. CASE i = id
            BY <1>6, <2>1, <3>1 DEF Put, Shows
        <3>2. CASE i # id
            <4>1. i \in DOMAIN compiled /\ compiled'[i] = compiled[i]
                BY <1>6, <3>2 DEF Put
            <4>2. compiled[i] \in Good /\ Shows(i, compiled[i])
                BY <4>1 DEF MailInv, CacheSound
            <4>3. QED
                BY <4>1, <4>2 DEF Shows, Lasting, Changed, Touched
        <3>3. QED
            BY <3>1, <3>2
    <2>3. CacheSound'
        BY <2>2 DEF CacheSound, Good, Texts
    <2>4. QED
        BY <1>3, <1>6, <2>1, <2>3
<1>7. CASE /\ id # Nothing /\ job[m].text = ""
           /\ ~Owned(tmpl, id, mail[m].tenant) \/ m \in hit'
           /\ FailMail(m) /\ UNCHANGED compiled
    <2>1. ~Owned(tmpl, id, mail[m].tenant) => Changed(ask.tmpl)
        BY <1>1, <1>7 DEF StillRefers, MailSound, RowInv, Refers, OwnTemplate, Owned
    <2>2. Changed(ask.tmpl) => Changed(ask.tmpl)'
        BY DEF Lasting, Changed, Touched
    <2>3. Doomed(m)'
        BY <1>1, <1>7, <2>1, <2>2 DEF Doomed, Changed, Touched
    <2>4. QED
        BY <1>1, <1>7, <2>3, FailKeeps, CacheLasts DEF MailInv
<1>8. QED
    BY <1>4, <1>5, <1>6, <1>7 DEF FillFields, Hit

LEMMA FindFate ==
    ASSUME TypeOK, RowInv, MailInv, Lasting, UNCHANGED smtp, NEW m \in Requests, FindConfig(m)
    PROVE  /\ CacheSound' /\ (\A n \in DOMAIN mail' : MailSound(n)')
           /\ \A n \in Requests : JobSound(n)'
<1>1. /\ job[m] # Nothing /\ job[m].step = "config" /\ call' = call
      /\ m \in DOMAIN mail /\ MailSound(m) /\ JobSound(m) /\ UNCHANGED compiled
    BY DEF FindConfig, MailInv, JobSound
<1>2. CASE Advance(m, [job[m] EXCEPT !.step = "ready"]) /\ UNCHANGED mail
    <2>1. DOMAIN job[m] = JobFields /\ job'[m] = [job[m] EXCEPT !.step = "ready"]
        BY <1>1, <1>2 DEF JobSound, Advance, TypeOK
    <2>2. /\ DOMAIN job'[m] = JobFields /\ job'[m].step = "ready" /\ job'[m].text = job[m].text
          /\ job'[m].smtp = job[m].smtp /\ job'[m].tmpl = job[m].tmpl
        BY <2>1 DEF JobFields
    <2>3. job[m].text = "" /\ call[m].ask.tmpl # Nothing => Shows(call[m].ask.tmpl, "")
        BY <1>1 DEF JobSound
    <2>4. Shows(call[m].ask.tmpl, "") => Shows(call[m].ask.tmpl, "")'
        BY <1>1 DEF Shows, Lasting, Changed, Touched
    <2>5. JobSound(m)'
        BY <1>1, <1>2, <2>2, <2>3, <2>4, CopySound
    <2>6. QED
        BY <1>1, <1>2, <2>5, WorkerKeeps, CacheLasts DEF MailInv
<1>3. CASE (~Owned(smtp, job[m].smtp, mail[m].tenant) \/ m \in hit') /\ FailMail(m)
    <2>1. ~Owned(smtp, job[m].smtp, mail[m].tenant) => Gone(call[m].tenant)
        BY <1>1 DEF JobSound, StillRefers, MailSound
    <2>2. Gone(call[m].tenant) => Gone(call[m].tenant)'
        BY DEF Lasting, Gone
    <2>3. Doomed(m)'
        BY <1>1, <1>3, <2>1, <2>2 DEF Doomed, Gone
    <2>4. QED
        BY <1>1, <1>3, <2>3, FailKeeps, CacheLasts DEF MailInv
<1>4. QED
    BY <1>2, <1>3 DEF FindConfig, Hit

LEMMA WorkerFate ==
    ASSUME TypeOK, RowInv, MailInv, NEW m \in Requests, WorkerStep(m), UNCHANGED wrote
    PROVE  MailInv'
<1>1. Lasting /\ UNCHANGED <<call, at, held, tmpl, smtp>>
    BY WorkerLasts
<1>2. TextsSound'
    BY <1>1 DEF MailInv, TextsSound
<1>3. CacheSound' /\ (\A n \in DOMAIN mail' : MailSound(n)') /\ (\A n \in Requests : JobSound(n)')
    BY <1>1, LoadFate, FillFate, FindFate DEF WorkerStep
<1>4. QED
    BY <1>2, <1>3 DEF MailInv

LEMMA MailInit == Init => MailInv
<1> SUFFICES ASSUME Init PROVE MailInv OBVIOUS
<1>1. PICK d \in Databases : tmpl = d.tmpl
    BY DEF Init
<1>2. /\ at = [r \in Requests |-> IF call[r].op \in Open THEN call[r].op ELSE "enter"]
      /\ mail = [m \in {} |-> Nothing] /\ job = [m \in Requests |-> Nothing]
      /\ compiled = [i \in {} |-> Nothing]
    BY DEF Init, ReqInit
<1>3. TextsSound
    <2>1. \A i \in DOMAIN tmpl : tmpl[i].text \in Good
        BY <1>1, DatabasesAssumption DEF Good
    <2>2. \A r \in Requests : at[r] # "templateWrite"
        BY <1>2 DEF Open
    <2>3. QED
        BY <2>1, <2>2 DEF TextsSound
<1>4. CacheSound /\ (\A m \in DOMAIN mail : MailSound(m)) /\ (\A m \in Requests : JobSound(m))
    BY <1>2 DEF CacheSound, JobSound
<1>5. QED
    BY <1>3, <1>4 DEF MailInv

LEMMA MailFateStep == KeyInv /\ TypeOK /\ RowInv /\ MailInv /\ [Next]_vars => MailInv'
<1> SUFFICES ASSUME Shape, TypeOK, RowInv, MailInv, [Next]_vars PROVE MailInv'
    BY DEF KeyInv
<1>1. CASE \E r \in Requests : RequestStep(r)
    BY <1>1, HandleFate
<1>2. CASE \E m \in Requests : WorkerStep(m) /\ UNCHANGED wrote
    BY <1>2, WorkerFate
<1>3. CASE UNCHANGED <<call, at, held, smtp, tmpl, mail, job, compiled, wrote, hit>>
    <2>1. Lasting
        BY <1>3 DEF Lasting, Owned
    <2>2. TextsSound'
        BY <1>3 DEF MailInv, TextsSound
    <2>3. \A m \in Requests : JobSound(m)'
        BY <1>3, <2>1, JobLasts
    <2>4. \A m \in DOMAIN mail' : MailSound(m)'
        BY <1>3, <2>1, KeptLasts
    <2>5. QED
        BY <1>3, <2>1, <2>2, <2>3, <2>4, CacheLasts DEF MailInv
<1>4. QED
    BY <1>1, <1>2, <1>3
       DEF Next, LinkCheckExpires, reqVars, mailVars, workerVars, templateVars, vars, apiVars

\* The worker fails a mail before sending it, or sends it empty, only for a reason somebody
\* gave: the text or the data of the request, the template as it is, a change to the
\* template, a deleted configuration, a failing query. What the row, the worker's copy of
\* it and its cache of compiled templates say may each be older than the others
\* (HandleMailSend, getCompiledTemplate, getSMTPConfig in internal/worker/mail_handler.go).
THEOREM FatesHaveCauses == Spec => []MailFateHasCause
<1>1. Init => KeyInv /\ TypeOK /\ RowInv /\ MailInv
    BY InitSound, TypeInit, RowInit, MailInit
<1>2. KeyInv /\ TypeOK /\ RowInv /\ MailInv /\ [Next]_vars
      => (KeyInv /\ TypeOK /\ RowInv /\ MailInv)'
    BY StepSound, TypeStep, RowStep, MailFateStep
<1>3. TypeOK /\ MailInv => MailFateHasCause
    <2>1. ASSUME TypeOK, MailInv, NEW m \in DOMAIN mail
          PROVE  /\ mail[m].status = "failed" => Doomed(m)
                 /\ mail[m].tenant = call[m].tenant
                 /\ job[m] # Nothing /\ job[m].step = "ready" /\ job[m].text = ""
                    /\ call[m].ask.tmpl # Nothing => Shows(call[m].ask.tmpl, "")
        <3>1. m \in Requests /\ MailSound(m) /\ JobSound(m)
            BY <2>1 DEF TypeOK, MailInv
        <3>2. QED
            BY <3>1 DEF MailSound, JobSound
    <2>2. ASSUME TypeOK, MailInv, NEW m \in DOMAIN mail, mail[m].status = "failed"
          PROVE  LET ask == call[m].ask IN
                 \/ m \in hit \/ Changed(ask.tmpl) \/ ask.data = "braces"
                 \/ ask.text \in {"failing", "unparsable"}
                 \/ ask.text = "" /\ ask.tmpl \in DOMAIN tmpl /\ tmpl[ask.tmpl].text = "failing"
                 \/ Gone(mail[m].tenant)
        BY <2>1, <2>2 DEF Doomed, Shows
    <2>3. ASSUME TypeOK, MailInv, NEW m \in DOMAIN mail, job[m] # Nothing,
                 job[m].step = "ready", job[m].text = "", call[m].ask.tmpl # Nothing
          PROVE  LET ask == call[m].ask IN
                 Changed(ask.tmpl) \/ (ask.tmpl \in DOMAIN tmpl /\ tmpl[ask.tmpl].text = "")
        BY <2>1, <2>3 DEF Shows
    <2>4. QED
        BY <2>2, <2>3 DEF MailFateHasCause, Changed, Gone
<1>4. QED
    BY <1>1, <1>2, <1>3, PTL DEF Spec
=============================================================================
