----------------------------- MODULE MCServices -----------------------------
(***************************************************************************)
(* What surrounds the handlers of the control plane (model calls, engines, *)
(* integrations, settings, admission of requests, secrets, the desktop     *)
(* application, execution of commands), each explored from its own initial *)
(* states: part says which one a behaviour is about, and the others stay   *)
(* as they start.                                                          *)
(***************************************************************************)
EXTENDS ModelCalls, Engines, Integrations, Settings, Admission, Secrets, Desktop, Execution,
        TLC

VARIABLE part

svVars == <<part, uVars, hVars, iVars, nVars, xVars, fVars, bVars, cVars>>

-----------------------------------------------------------------------------
(* Model calls: a chain of a cloud provider and a local one. *)
SvTiers == <<"openai", "ollama">>

-----------------------------------------------------------------------------
(* Engines: platforms, requests and hosts that agree and disagree on them. *)
SvPlatform(eng, strat, over, enf, allow, routes) ==
    [engine |-> eng, strategy |-> strat, override |-> over, enforce |-> enf,
     allowed |-> allow, routing |-> routes, limit |-> 2, approval |-> FALSE,
     enforcement |-> 1]

SvNoRouting == [role \in {} |-> ""]

SvPlatforms ==
    {SvPlatform("native", "single", TRUE, TRUE, {"native", "langgraph"}, SvNoRouting),
     SvPlatform("langgraph", "hybrid", TRUE, TRUE, {"native", "langgraph"},
                ("tooling" :> "langgraph") @@ ("collaboration" :> "native")),
     SvPlatform("langgraph", "hybrid", FALSE, TRUE, {"langgraph"}, SvNoRouting),
     SvPlatform("crewai", "hybrid", FALSE, FALSE, {"native"},
                ("default" :> "autogen") @@ ("collaboration" :> "langgraph"))}

SvRuntime(eng, strat, routes) == [engine |-> eng, strategy |-> strat, routing |-> routes]

SvRuntimes ==
    {SvRuntime("", "", SvNoRouting),
     SvRuntime("langgraph", "hybrid", "tooling" :> "autogen"),
     SvRuntime("langgraph", "hybrid", ("default" :> "native") @@ ("collaboration" :> "langgraph")),
     SvRuntime("autogen", "single", SvNoRouting),
     SvRuntime("crewai", "", SvNoRouting)}

SvConfig(scopes, limit, appr, over, enf, class) ==
    [scopes |-> scopes, limit |-> limit, approval |-> appr, override |-> over,
     enforcement |-> enf, classification |-> class]

SvConfigs == {HNoConfig, SvConfig({"session"}, 3, TRUE, "yes", 0, 0),
              SvConfig({"agent"}, 1, FALSE, "no", 2, 3)}

SvEngineHost(nonnative, compat, installed) ==
    [nonnative |-> nonnative, compat |-> compat, installed |-> installed,
     key |-> installed # {"autogen"}]

SvEngineHosts ==
    {SvEngineHost(FALSE, TRUE, {}), SvEngineHost(TRUE, TRUE, {"autogen"}),
     SvEngineHost(TRUE, FALSE, {"langgraph", "langchain_openai", "autogen"}),
     SvEngineHost(TRUE, TRUE, {"langgraph", "langchain_openai"})}

SvNode(kind, fed, scope) == [kind |-> kind, hint |-> "", fed |-> fed, planner |-> FALSE,
                             scope |-> scope, auto |-> FALSE]

SvNodes == <<SvNode("agent", "", ""), SvNode("tool", "", ""), SvNode("memory", "", "agent"),
             SvNode("agent", "result", ""), SvNode("review", "", "")>>

-----------------------------------------------------------------------------
(* Integrations: one that signs in, and a server of tools with a client of *)
(* its own and an embedded secret; a strict and a lax platform.            *)
SvPayload(auth, grant, ok, url, place, mcp) ==
    [auth |-> auth, grant |-> grant, client |-> TRUE, secret |-> auth # "none",
     refs |-> auth = "oauth2", declared |-> ok, signed |-> ok, contained |-> ok,
     url |-> url, place |-> place, mcp |-> mcp]

SvPayloads == {SvPayload("oauth2", "authorization_code", TRUE, "plain", "local", FALSE),
               SvPayload("oauth2", "client_credentials", FALSE, "embedded", "remote", TRUE)}

SvRules(enforce, local, risk, urls) ==
    [enforce |-> enforce, local |-> local, unsigned |-> FALSE, signed |-> TRUE,
     sandbox |-> TRUE, lan |-> local, blocked |-> FALSE, risk |-> risk, calls |-> 1,
     urls |-> urls]

SvRuleSets == {SvRules(TRUE, FALSE, TRUE, {"known"}), SvRules(FALSE, TRUE, FALSE, {})}

SvUrls == {"known", "other"}

-----------------------------------------------------------------------------
(* Settings: saves that ask for a key, for a theme, for the switches with  *)
(* and without their confirmation; chat requests under one or two groups.  *)
SvSave(key, set, confirm) == [key |-> key, set |-> set, confirm |-> confirm]

SvSaves == {SvSave("none", "theme" :> 1, FALSE), SvSave("none", "switch" :> TRUE, TRUE),
            SvSave("none", "switch" :> TRUE, FALSE), SvSave("flat", "subjects" :> FALSE, FALSE),
            SvSave("map", "signed" :> TRUE, TRUE), SvSave("none", "auth" :> FALSE, FALSE),
            SvSave("none", "auth" :> TRUE, TRUE), SvSave("clear", [f \in {} |-> TRUE], FALSE)}

SvGroup(providers, models) == [providers |-> providers, models |-> models]

SvChat(provider, model, groups) == [provider |-> provider, model |-> model, groups |-> groups]

SvChats == {SvChat("", "large", {SvGroup({"openai"}, {"small"}), SvGroup({}, {"small", "large"})}),
            SvChat("anthropic", "", {SvGroup({"openai", "anthropic"}, {"large"})}),
            SvChat("", "large", {SvGroup({"openai"}, {}), SvGroup({"anthropic"}, {})})}

-----------------------------------------------------------------------------
(* Admission: people with tokens of several kinds, services with signed    *)
(* messages, and the profiles of the runtime.                              *)
SvIdentity(who, sub, principal, agent, tenant, roles, kind) ==
    [person |-> who, actor |-> who, subject |-> sub, principal |-> principal,
     agent |-> agent, tenant |-> tenant, roles |-> roles, internal |-> FALSE, kind |-> kind]

SvIdentities == ("ann-jwt" :> SvIdentity("ann", "sub-ann", "user:ann", "", "t1", {}, "jwt"))
             @@ ("ann-oidc" :> SvIdentity("ann", "sub-ann", "", "", "", {}, "oidc"))
             @@ ("bob-jwt" :> SvIdentity("bob", "sub-bob", "", "", "t1", {"builder"}, "jwt"))
             @@ ("cy-jwt" :> SvIdentity("cy", "sub-cy", "", "bot", "t1", {}, "jwt"))
             @@ ("dee-jwt" :> SvIdentity("dee", "sub-dee", "", "", "t2", {"admin"}, "jwt"))

SvUnsigned == [subject |-> "", sig |-> "none", nonce |-> 0, ts |-> 0]
SvMessage(nonce, ts) == [subject |-> "backend", sig |-> "good", nonce |-> nonce, ts |-> ts]

SvRequest(token, actor, route, handler, msg) ==
    [token |-> token, actor |-> actor, route |-> route, handler |-> handler, msg |-> msg,
     speaksFor |-> "", bucket |-> [scope |-> "user", id |-> "ann"]]

SvSigned == {SvRequest("", "svc", "internal-only", "work", SvMessage(1, 1)),
             SvRequest("", "svc", "internal-only", "work", SvMessage(2, 1))}

SvPeople ==
    {SvRequest("ann-jwt", "", "internal-only", "work", SvUnsigned),
     SvRequest("ann-jwt", "", "authenticated-mutate", "start", SvUnsigned),
     SvRequest("ann-oidc", "bob", "authenticated-read", "read", SvUnsigned),
     SvRequest("cy-jwt", "ann", "authenticated-read", "read", SvUnsigned),
     SvRequest("dee-jwt", "", "authenticated-mutate", "builder", SvUnsigned),
     SvRequest("", "eve", "authenticated-mutate", "builder", SvUnsigned),
     SvRequest("bad", "", "authenticated-read", "read", SvUnsigned),
     [SvRequest("bob-jwt", "", "authenticated-mutate", "speak", SvUnsigned)
         EXCEPT !.speaksFor = "ann"],
     SvRequest("cy-jwt", "", "authenticated-read", "memory", SvUnsigned),
     SvRequest("static", "op", "authenticated-mutate", "admin", SvUnsigned),
     SvRequest("bob-jwt", "", "public-minimal", "session", SvUnsigned)}

SvProfile(name, explicit, bootstrap, requests) ==
    [name |-> name, explicit |-> explicit, auth |-> explicit, headers |-> FALSE,
     bootstrap |-> bootstrap, headerActors |-> ~explicit, requests |-> requests,
     most |-> IF requests = SvSigned THEN 3 ELSE 2]

SvProfiles == <<SvProfile("local-lightweight", FALSE, FALSE, SvPeople),
                SvProfile("local-lightweight", FALSE, FALSE, SvSigned),
                SvProfile("local-secure", TRUE, FALSE, SvPeople),
                SvProfile("local-native", TRUE, TRUE, SvPeople)>>

SvMembers == "agent:bot" :> {"sub-cy"}

-----------------------------------------------------------------------------
(* Secrets, the desktop application and the executor: the hosts. *)
SvSecretHost(platform, optIn, backend, env) ==
    [platform |-> platform, optIn |-> optIn, backend |-> backend, env |-> env]

SvSecretHosts == {SvSecretHost("windows", FALSE, TRUE, FALSE),
                  SvSecretHost("macos", FALSE, TRUE, FALSE),
                  SvSecretHost("linux", TRUE, FALSE, FALSE),
                  SvSecretHost("linux", TRUE, TRUE, FALSE),
                  SvSecretHost("linux", FALSE, FALSE, FALSE),
                  SvSecretHost("linux", FALSE, TRUE, TRUE)}

SvDesktopHost(os, entry, path, ui) == [os |-> os, entry |-> entry, path |-> path, ui |-> ui]

SvDesktopHosts ==
    {SvDesktopHost("nt", "desktop", {"nats"}, FALSE),
     SvDesktopHost("posix", "desktop", {"postgres", "pg_ctl", "initdb", "ollama"}, TRUE),
     SvDesktopHost("posix", "native-up", {"postgres", "initdb", "nats", "node"}, TRUE),
     SvDesktopHost("nt", "native-up", {"postgres", "initdb", "nats", "redis"}, FALSE),
     SvDesktopHost("posix", "native-up", {"nats"}, FALSE)}

SvLinux == [platform |-> "linux", tools |-> {"bwrap"}, native |-> FALSE, optOut |-> FALSE,
            container |-> FALSE, root |-> FALSE, network |-> FALSE, toolchain |-> TRUE,
            evals |-> FALSE, permissive |-> FALSE, forcedJob |-> FALSE, requireEnv |-> FALSE]

SvWindows == [SvLinux EXCEPT !.platform = "windows", !.tools = {"appcontainer"}]

SvExecHosts ==
    {SvLinux, [SvLinux EXCEPT !.permissive = TRUE],
     [SvLinux EXCEPT !.network = TRUE, !.permissive = TRUE],
     [SvLinux EXCEPT !.tools = {}, !.permissive = TRUE], [SvLinux EXCEPT !.tools = {"docker"}],
     [SvLinux EXCEPT !.platform = "macos", !.tools = {"seatbelt"}],
     [SvLinux EXCEPT !.optOut = TRUE, !.permissive = TRUE],
     [SvLinux EXCEPT !.container = TRUE, !.evals = TRUE],
     [SvWindows EXCEPT !.forcedJob = TRUE], [SvWindows EXCEPT !.native = TRUE],
     [SvWindows EXCEPT !.toolchain = FALSE, !.requireEnv = TRUE]}

-----------------------------------------------------------------------------
SvInit ==
    /\ part \in {"models", "engines", "integrations", "settings", "admission", "secrets",
                 "desktop", "execution"}
    /\ UInit
    /\ HInit
    /\ part # "engines" => /\ hPlat = CHOOSE p \in SvPlatforms : TRUE
                           /\ hConfig = [workflow |-> HNoConfig, agent |-> HNoConfig]
                           /\ hHost = CHOOSE h \in SvEngineHosts : TRUE
    /\ IInit /\ (part # "integrations" => iPlat = CHOOSE p \in SvRuleSets : TRUE)
    /\ NInit /\ (part # "settings" => nSet.flat = 0 /\ nSet.map = 0 /\ nSet.signed)
    /\ XInit /\ (part # "admission" => xProfile = 2)
    /\ FInit
    /\ part # "secrets" => /\ fHost = CHOOSE h \in SvSecretHosts : TRUE
                           /\ fChain.value = 0 /\ fFiles.plain = 0
    /\ BInit /\ (part # "desktop" => bHost = CHOOSE h \in SvDesktopHosts : TRUE)
    /\ CInit /\ (part # "execution" => cHost = SvLinux)

SvNext ==
    \/ /\ part = "models"
       /\ UNCHANGED <<part, hVars, iVars, nVars, xVars, fVars, bVars, cVars>>
       /\ UNext
    \/ /\ part = "engines"
       /\ UNCHANGED <<part, uVars, iVars, nVars, xVars, fVars, bVars, cVars>>
       /\ HNext
    \/ /\ part = "integrations"
       /\ UNCHANGED <<part, uVars, hVars, nVars, xVars, fVars, bVars, cVars>>
       /\ INext
    \/ /\ part = "settings"
       /\ UNCHANGED <<part, uVars, hVars, iVars, xVars, fVars, bVars, cVars>>
       /\ NNext
    \/ /\ part = "admission"
       /\ UNCHANGED <<part, uVars, hVars, iVars, nVars, fVars, bVars, cVars>>
       /\ XNext
    \/ /\ part = "secrets"
       /\ UNCHANGED <<part, uVars, hVars, iVars, nVars, xVars, bVars, cVars>>
       /\ FNext
    \/ /\ part = "desktop"
       /\ UNCHANGED <<part, uVars, hVars, iVars, nVars, xVars, fVars, cVars>>
       /\ BNext
    \/ /\ part = "execution"
       /\ UNCHANGED <<part, uVars, hVars, iVars, nVars, xVars, fVars, bVars>>
       /\ CNext

SvSpec == SvInit /\ [][SvNext]_svVars
=============================================================================
