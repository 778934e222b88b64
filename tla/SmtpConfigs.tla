----------------------------- MODULE SmtpConfigs ----------------------------
(***************************************************************************)
(* The SMTP configurations of a tenant (internal/service/                  *)
(* smtp_config_service.go, internal/handler/smtp_config_handler.go,        *)
(* internal/adapter/postgres/smtp_config_repo.go), and the one seeded for  *)
(* the administration (seedDefaults in cmd/mailhive/main.go). What a       *)
(* configuration says of a server (host, port, password, charset) is left  *)
(* out but for being valid.                                                *)
(***************************************************************************)
EXTENDS Requests

VARIABLES smtp  \* the table smtp_configs: [tenant, default, active] per id

\* The unique index on tenant_id WHERE is_default.
DefaultTaken(id, row) ==
    row.default /\ \E i \in DOMAIN smtp \ {id} : smtp[i].tenant = row.tenant /\ smtp[i].default

\* ClearDefault: a statement of its own, committed before the next one.
Cleared(t) == [i \in DOMAIN smtp |-> [smtp[i] EXCEPT !.default = @ /\ smtp[i].tenant # t]]

\* GetDefault looks for a default that is active too.
Defaults(t) == {i \in DOMAIN smtp : smtp[i].tenant = t /\ smtp[i].default /\ smtp[i].active}

\* The row is written unless the index refuses it.
Store(r, id, row, code) ==
    IF DefaultTaken(id, row)
      THEN Fail(r, "other") /\ UNCHANGED smtp
      ELSE smtp' = Put(smtp, id, row) /\ Reply(r, code)

-----------------------------------------------------------------------------
(* Create: the tags of the struct come first, then the default of the       *)
(* tenant is cleared, and only then are charset and encoding looked at.     *)

NewConfig(r) == [tenant |-> call[r].tenant, default |-> call[r].ask.default, active |-> TRUE]

CheckedConfig(r) == IF call[r].charset THEN Goto(r, "configInsert") ELSE Fail(r, "validation")

CreateConfig(r) ==
    /\ at[r] = "createConfig"
    /\ IF ~call[r].valid
         THEN Fail(r, "validation") /\ UNCHANGED smtp
         ELSE /\ smtp' = IF call[r].ask.default THEN Cleared(call[r].tenant) ELSE smtp
              /\ CheckedConfig(r)

InsertConfig(r) ==
    /\ at[r] = "configInsert"
    /\ Store(r, r, NewConfig(r), 201)

-----------------------------------------------------------------------------
(* Update: validateUpdateRequest, the row, ClearDefault, the whole row.     *)

AskedDefault(r) == "default" \in DOMAIN call[r].ask /\ call[r].ask.default

\* A faulty Update that takes it over.
EditedAsAsked(r, row) == Over(call[r].ask, row)

\* is_default = false is not taken over.
Edited(r, row) == [Over(call[r].ask, row) EXCEPT !.default = row.default \/ AskedDefault(r)]

\* A faulty Update that clears the default before it looks for the row.
ReadConfigLate(r) ==
    LET id == call[r].id IN
    /\ at[r] = "updateConfig"
    /\ IF ~call[r].valid THEN Fail(r, "validation") /\ UNCHANGED smtp
       ELSE /\ smtp' = IF AskedDefault(r) THEN Cleared(call[r].tenant) ELSE smtp
            /\ IF Owned(smtp, id, call[r].tenant)
                 THEN Keep(r, Edited(r, smtp[id]), "configWrite")
                 ELSE Fail(r, "notFound")

ReadConfig(r) ==
    LET id == call[r].id IN
    /\ at[r] = "updateConfig"
    /\ \/ ~call[r].valid /\ Fail(r, "validation")
       \/ call[r].valid /\ ~Owned(smtp, id, call[r].tenant) /\ Fail(r, "notFound")
       \/ /\ call[r].valid /\ Owned(smtp, id, call[r].tenant)
          /\ Keep(r, Edited(r, smtp[id]), IF AskedDefault(r) THEN "configClear" ELSE "configWrite")
    /\ UNCHANGED smtp

ClearDefault(r) ==
    /\ at[r] = "configClear"
    /\ smtp' = Cleared(call[r].tenant)
    /\ Goto(r, "configWrite")

WriteConfig(r) ==
    /\ at[r] = "configWrite"
    /\ IF call[r].id \in DOMAIN smtp
         THEN Store(r, call[r].id, held[r], 200)
         ELSE Reply(r, 200) /\ UNCHANGED smtp

-----------------------------------------------------------------------------
DeleteConfig(r) ==
    /\ at[r] = "deleteConfig"
    /\ smtp' = IF Owned(smtp, call[r].id, call[r].tenant) THEN Remove(smtp, call[r].id) ELSE smtp
    /\ Reply(r, 204)

\* GetByID, and Test, which sends a message through the row it read.
TestConfig(r) ==
    /\ at[r] = "testConfig"
    /\ IF Owned(smtp, call[r].id, call[r].tenant)
         THEN Reply(r, 200) \/ Fail(r, "other")
         ELSE Fail(r, "notFound")
    /\ UNCHANGED smtp

-----------------------------------------------------------------------------
(* seedDefaults, once it has the tenant of the administration.              *)

ListConfigs(r) ==
    /\ at[r] = "seedList"
    /\ IF \E i \in DOMAIN smtp : smtp[i].tenant = held[r]
         THEN Reply(r, 200)
         ELSE Goto(r, "seedInsert")
    /\ UNCHANGED smtp

SeedConfig(r) ==
    /\ at[r] = "seedInsert"
    /\ Store(r, r, [tenant |-> held[r], default |-> TRUE, active |-> TRUE], 200)

-----------------------------------------------------------------------------
ConfigStep(r) ==
    \/ CreateConfig(r) \/ InsertConfig(r)
    \/ ReadConfig(r) \/ ClearDefault(r) \/ WriteConfig(r)
    \/ DeleteConfig(r) \/ TestConfig(r)
    \/ ListConfigs(r) \/ SeedConfig(r)
=============================================================================
