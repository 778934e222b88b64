------------------------------ MODULE Tenants -------------------------------
(***************************************************************************)
(* Tenants (internal/service/tenant_service.go, internal/handler/          *)
(* tenant_handler.go), the tokens they are exchanged for (internal/service/*)
(* auth_service.go), the middleware that looks the tenant of a token up    *)
(* (internal/middleware/tenant_context.go) and the tenant a starting       *)
(* process makes sure of (seedDefaults in cmd/mailhive/main.go).           *)
(***************************************************************************)
EXTENDS Requests

CONSTANTS AdminKey  \* cfg.Admin.APIKey

VARIABLES
    tenant,  \* the table tenants: [slug, key, active, settings] per id
    issued   \* the tenant of the token a request was answered with

tenantVars == <<tenant, issued>>

\* TenantSettings.Validate.
ValidSettings(s) == s # "invalid"

SlugTaken(slug, id) == \E i \in DOMAIN tenant \ {id} : tenant[i].slug = slug
KeyTaken(key, id) == \E i \in DOMAIN tenant \ {id} : tenant[i].key = key

AdminOps == {"createTenant", "updateTenant", "deleteTenant", "regenerateKey", "getTenant",
             "updateBranding", "uploadLogo"}

\* TenantContext, then AdminOnly: a row is enough, is_active is not looked at.
TenantContext(r) ==
    /\ at[r] = "enter"
    /\ \/ call[r].tenant \notin DOMAIN tenant /\ Refuse(r, 401)
       \/ /\ call[r].tenant \in DOMAIN tenant
          /\ IF call[r].op \in AdminOps /\ call[r].role # "admin"
               THEN Refuse(r, 403)
               ELSE Goto(r, call[r].op)
    /\ UNCHANGED tenantVars

-----------------------------------------------------------------------------
(* /admin/tenants                                                           *)

CreateTenant(r) ==
    LET ask == call[r].ask IN
    /\ at[r] = "createTenant"
    /\ \/ ~(call[r].valid /\ ValidSettings(ask.settings)) /\ Fail(r, "validation") /\ UNCHANGED tenant
       \/ /\ call[r].valid /\ ValidSettings(ask.settings)
          /\ IF SlugTaken(ask.slug, r)
               THEN Fail(r, "other") /\ UNCHANGED tenant
               ELSE /\ tenant' = Put(tenant, r, [slug |-> ask.slug, key |-> r, active |-> TRUE,
                                                 settings |-> ask.settings])
                    /\ Reply(r, 201)
    /\ UNCHANGED issued

GetTenant(r) ==
    /\ at[r] = "getTenant"
    /\ IF call[r].id \in DOMAIN tenant THEN Reply(r, 200) ELSE Fail(r, "notFound")
    /\ UNCHANGED tenantVars

\* Update reads the row, lays the request over it ...
ReadTenant(r) ==
    LET row == Over(call[r].ask, tenant[call[r].id]) IN
    /\ at[r] = "updateTenant"
    /\ \/ call[r].id \notin DOMAIN tenant /\ Fail(r, "notFound")
       \/ /\ call[r].id \in DOMAIN tenant
          /\ IF ValidSettings(row.settings) THEN Keep(r, row, "tenantWrite") ELSE Fail(r, "validation")
    /\ UNCHANGED tenantVars

\* A faulty Update that writes the key it read back.
WriteTenantAndKey(r) ==
    LET id == call[r].id IN
    /\ at[r] = "tenantWrite"
    /\ IF SlugTaken(held[r].slug, id)
         THEN Fail(r, "other") /\ UNCHANGED tenant
         ELSE tenant' = Put(tenant, id, held[r]) /\ Reply(r, 200)
    /\ UNCHANGED issued

\* ... and writes every column back but the key.
WriteTenant(r) ==
    LET id == call[r].id IN
    /\ at[r] = "tenantWrite"
    /\ IF SlugTaken(held[r].slug, id)
         THEN Fail(r, "other") /\ UNCHANGED tenant
         ELSE /\ tenant' = Put(tenant, id, [held[r] EXCEPT !.key = tenant[id].key])
              /\ Reply(r, 200)
    /\ UNCHANGED issued

\* Delete clears is_active; tenants stay in the table.
DeleteTenant(r) ==
    /\ at[r] = "deleteTenant"
    /\ tenant' = [i \in DOMAIN tenant |-> [tenant[i] EXCEPT !.active = @ /\ i # call[r].id]]
    /\ Reply(r, 204)
    /\ UNCHANGED issued

ReadForKey(r) ==
    /\ at[r] = "regenerateKey"
    /\ IF call[r].id \in DOMAIN tenant
         THEN Keep(r, tenant[call[r].id], "keyWrite")
         ELSE Fail(r, "notFound")
    /\ UNCHANGED tenantVars

WriteKey(r) ==
    LET id == call[r].id IN
    /\ at[r] = "keyWrite"
    /\ tenant' = Put(tenant, id, [tenant[id] EXCEPT !.key = r])
    /\ Reply(r, 200)
    /\ UNCHANGED issued

-----------------------------------------------------------------------------
(* GenerateToken, with the key of a tenant or of the administration.        *)

AsAdmin(r) == call[r].op = "seed" \/ (call[r].op = "token" /\ call[r].ask.key = AdminKey)

TokenOfKey(r) ==
    LET owners == {i \in DOMAIN tenant : tenant[i].key = call[r].ask.key} IN
    /\ at[r] = "token" /\ ~AsAdmin(r)
    /\ \/ owners = {} /\ Fail(r, "invalidKey") /\ UNCHANGED issued
       \/ \E i \in owners :
            IF tenant[i].active
              THEN Reply(r, 200) /\ issued' = [issued EXCEPT ![r] = i]
              ELSE Fail(r, "inactive") /\ UNCHANGED issued
    /\ UNCHANGED tenant

Admins == {i \in DOMAIN tenant : tenant[i].slug = "admin"}

\* The request has its administration tenant: a token names it, the seeding goes on.
Found(r, i) ==
    IF call[r].op = "token"
      THEN Reply(r, 200) /\ issued' = [issued EXCEPT ![r] = i]
      ELSE /\ IF call[r].mailpit THEN Keep(r, i, "seedList") ELSE Reply(r, 200)
           /\ UNCHANGED issued

\* getOrCreateAdminTenant, and the same code in seedDefaults: a read that fails for
\* whatever reason counts as "there is none" ...
ReadAdmin(r) ==
    /\ at[r] \in {"token", "seed"} /\ AsAdmin(r)
    /\ \/ \E i \in Admins : Found(r, i)
       \/ Admins = {} /\ Goto(r, "adminInsert") /\ UNCHANGED issued
       \/ GoOn(r, "adminInsert") /\ UNCHANGED issued
    /\ UNCHANGED tenant

AdminRow == [slug |-> "admin", key |-> AdminKey, active |-> TRUE, settings |-> "open"]

\* A faulty getOrCreateAdminTenant that does not read again after a conflict.
InsertAdminOnce(r) ==
    /\ at[r] = "adminInsert"
    /\ \/ /\ ~SlugTaken("admin", r) /\ ~KeyTaken(AdminKey, r)
          /\ tenant' = Put(tenant, r, AdminRow)
          /\ Found(r, r)
       \/ /\ SlugTaken("admin", r) \/ KeyTaken(AdminKey, r)
          /\ Fail(r, "other")
          /\ UNCHANGED tenantVars

\* ... and an insert that fails for whatever reason as "somebody else was faster".
InsertAdmin(r) ==
    /\ at[r] = "adminInsert"
    /\ \/ /\ ~SlugTaken("admin", r) /\ ~KeyTaken(AdminKey, r)
          /\ tenant' = Put(tenant, r, AdminRow)
          /\ Found(r, r)
       \/ /\ SlugTaken("admin", r) \/ KeyTaken(AdminKey, r)
          /\ Goto(r, "adminReread")
          /\ UNCHANGED tenantVars
       \/ GoOn(r, "adminReread") /\ UNCHANGED tenantVars

RereadAdmin(r) ==
    /\ at[r] = "adminReread"
    /\ \/ \E i \in Admins : Found(r, i)
       \/ Admins = {} /\ Fail(r, "other") /\ UNCHANGED issued
    /\ UNCHANGED tenant

-----------------------------------------------------------------------------
TenantStep(r) ==
    \/ TenantContext(r)
    \/ CreateTenant(r) \/ GetTenant(r) \/ DeleteTenant(r)
    \/ ReadTenant(r) \/ WriteTenant(r) \/ ReadForKey(r) \/ WriteKey(r)
    \/ TokenOfKey(r) \/ ReadAdmin(r) \/ InsertAdmin(r) \/ RereadAdmin(r)
=============================================================================
