------------------------------- MODULE MCApi --------------------------------
(* Small instances of Api for TLC.                                           *)
EXTENDS Api, TLC

Tenant(slug, key) == [slug |-> slug, key |-> key, active |-> TRUE, settings |-> "open"]

Empty == [tenant |-> <<>>, smtp |-> <<>>, tmpl |-> <<>>,
          brand |-> [title |-> "MailHive", zone |-> "Paris", logo |-> Nothing]]

\* The administration, a tenant with a default and an inactive configuration and a
\* template, and a second tenant with a configuration.
Running ==
    [tenant |-> "adm" :> Tenant("admin", "adminKey") @@ "t0" :> Tenant("acme", "key0")
                @@ "t1" :> Tenant("beta", "key1"),
     smtp |-> "c0" :> [tenant |-> "t0", default |-> TRUE, active |-> TRUE]
              @@ "c1" :> [tenant |-> "t0", default |-> FALSE, active |-> FALSE]
              @@ "d0" :> [tenant |-> "t1", default |-> FALSE, active |-> TRUE],
     tmpl |-> "p0" :> [tenant |-> "t0", slug |-> "welcome", text |-> "plain", needs |-> TRUE]
              @@ "p1" :> [tenant |-> "t0", slug |-> "notice", text |-> "plain", needs |-> FALSE],
     brand |-> [title |-> "MailHive", zone |-> "Paris", logo |-> Nothing]]

\* The tenant of the administration has been renamed and has another key.
Renamed == [Running EXCEPT !.tenant = "adm" :> Tenant("root", "key2") @@ @]

MCDatabases == {Empty, Running, Renamed}

\* A request, with the fields most of them share.
By(t, op, id, ask) ==
    [op |-> op, tenant |-> t, role |-> "tenant", id |-> id, ask |-> ask, valid |-> TRUE,
     broken |-> FALSE, charset |-> TRUE, mailpit |-> FALSE]
T0(op, id, ask) == By("t0", op, id, ask)
Admin(op, id, ask) == [By("adm", op, id, ask) EXCEPT !.role = "admin"]
None == <<>>

TenantCalls ==
    {Admin("createTenant", Nothing, [slug |-> s, settings |-> v]) :
        s \in {"acme", "gamma", "admin"}, v \in {"open", "invalid"}}
    \cup {Admin("updateTenant", id, ask) : id \in {"adm", "t0"},
              ask \in {[slug |-> "root"], [settings |-> "strict"], [active |-> FALSE]}}
    \cup {[Admin("updateTenant", "t0", [slug |-> "root"]) EXCEPT !.broken = TRUE],
          Admin("updateTenant", "t9", None), Admin("updateTenant", "t0", [settings |-> "invalid"]),
          Admin("regenerateKey", "t0", None), Admin("regenerateKey", "adm", None),
          Admin("regenerateKey", "t9", None),
          Admin("deleteTenant", "t0", None), Admin("getTenant", "t0", None),
          Admin("getTenant", "t9", None), T0("deleteTenant", "t0", None)}

OpenCalls ==
    {By(Nothing, "token", Nothing, [key |-> k]) : k \in {"adminKey", "key0", "key9"}}
    \cup {[By(Nothing, "seed", Nothing, None) EXCEPT !.mailpit = m] : m \in BOOLEAN}

ConfigCalls ==
    {[T0("createConfig", Nothing, [default |-> d]) EXCEPT !.charset = c] :
        d \in BOOLEAN, c \in BOOLEAN}
    \cup {[T0("createConfig", Nothing, [default |-> TRUE]) EXCEPT !.valid = FALSE],
          [T0("createConfig", Nothing, [default |-> FALSE]) EXCEPT !.broken = TRUE]}
    \cup {T0("updateConfig", id, ask) : id \in {"c0", "c1"},
              ask \in {None, [default |-> TRUE], [default |-> FALSE], [active |-> FALSE],
                       [default |-> TRUE, active |-> TRUE]}}
    \cup {T0("updateConfig", "d0", [default |-> TRUE]),
          [T0("updateConfig", "c0", [active |-> FALSE]) EXCEPT !.valid = FALSE],
          T0("deleteConfig", "c0", None), T0("deleteConfig", "d0", None),
          T0("testConfig", "c0", None), T0("testConfig", "d0", None)}

TemplateCalls ==
    {T0("createTemplate", Nothing, [slug |-> s, text |-> x, needs |-> FALSE]) :
        s \in {"welcome", "other"}, x \in {"plain", "failing", "unparsable"}}
    \cup {T0("updateTemplate", "p0", [text |-> x]) : x \in {"", "failing", "unparsable"}}
    \cup {T0("updateTemplate", "p9", None), T0("deleteTemplate", "p0", None)}
    \cup {T0(op, id, [data |-> "plain"]) : op \in {"preview", "analyse", "linkCheck"},
              id \in {"p0", "p9"}}
    \cup {T0("analyse", "p0", [data |-> "none"])}

Letter(smtpId, tmplId, text, data) ==
    T0("createMail", Nothing, [smtp |-> smtpId, tmpl |-> tmplId, text |-> text, data |-> data,
                               many |-> FALSE, spam |-> FALSE, individuel |-> FALSE,
                               files |-> <<>>])
MailCalls ==
    {Letter(s, "p0", "", "plain") : s \in {Nothing, "c0", "c1", "d0"}}
    \cup {Letter(Nothing, "p0", "", "braces"), Letter(Nothing, "p0", "", "none"),
          Letter(Nothing, "p9", "", "plain"), Letter(Nothing, "p1", "", "none"), Letter(Nothing, Nothing, "plain", "none"),
          Letter(Nothing, Nothing, "unparsable", "plain"),
          [Letter(Nothing, Nothing, "plain", "none") EXCEPT !.ask.many = TRUE],
          [Letter(Nothing, Nothing, "plain", "none") EXCEPT !.ask.spam = TRUE],
          [Letter(Nothing, Nothing, "plain", "none") EXCEPT !.ask.files = <<"a", "undecodable">>]}
    \cup {[Letter(Nothing, "p0", "", d) EXCEPT !.ask.files = <<"a">>, !.ask.individuel = TRUE] :
              d \in {"plain", "none"}}

BrandCalls ==
    {Admin("updateBranding", Nothing, ask) :
        ask \in {[zone |-> "Lima"], [zone |-> "nowhere"], [title |-> "Post"], [zone |-> "Rome"]}}
    \cup {Admin("uploadLogo", Nothing, None), By("t0", "getLogo", Nothing, None)}

MCIncoming == TenantCalls \cup OpenCalls \cup ConfigCalls \cup TemplateCalls \cup MailCalls
              \cup BrandCalls

\* Every two requests, with a third that only reads; and every three of the requests
\* that compete for the same rows.
AdminTriple ==
    {Admin("updateTenant", "adm", ask) : ask \in {[slug |-> "root"], [slug |-> "admin"]}}
    \cup {Admin("updateTenant", "t0", [settings |-> "strict"]),
     Admin("createTenant", Nothing, [slug |-> "admin", settings |-> "open"]),
     Admin("regenerateKey", "adm", None), Admin("regenerateKey", "t0", None),
     By(Nothing, "token", Nothing, [key |-> "adminKey"]),
     [By(Nothing, "seed", Nothing, None) EXCEPT !.mailpit = TRUE]}
ConfigTriple ==
    {[T0("createConfig", Nothing, [default |-> TRUE]) EXCEPT !.charset = c] : c \in BOOLEAN}
    \cup {T0("updateConfig", "c1", ask) : ask \in {None, [default |-> TRUE, active |-> TRUE]}}
    \cup {T0("updateConfig", "c0", None), T0("deleteConfig", "c0", None),
          Letter(Nothing, Nothing, "plain", "none"), Letter("c0", Nothing, "plain", "none")}
TemplateTriple ==
    {T0("updateTemplate", "p0", [text |-> x]) : x \in {"", "failing"}}
    \cup {T0("deleteTemplate", "p0", None), Letter(Nothing, "p0", "", "plain"),
          Letter(Nothing, "p0", "", "braces")}
BrandTriple == {Admin("updateBranding", Nothing, [zone |-> z]) : z \in {"Lima", "Rome"}}
               \cup {Admin("updateBranding", Nothing, [title |-> "Post"])}

MCArrivals ==
    {f \in [Requests -> MCIncoming] :
        \E r \in Requests : f[r] = By("t0", "getLogo", Nothing, None)}
    \cup UNION {[Requests -> T] : T \in {AdminTriple, ConfigTriple, TemplateTriple, BrandTriple}}

MCSymmetry == Permutations(Requests)
=============================================================================
