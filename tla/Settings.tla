------------------------------ MODULE Settings ------------------------------
(***************************************************************************)
(* Platform settings, the API key of a provider, and the providers a user  *)
(* has configured.                                                         *)
(*                                                                         *)
(* The handlers run in threads.  A save reads the settings object, builds  *)
(* and validates a new one, writes keys to the keychain and only then puts *)
(* the new object in place, so a second save may finish in between.  The   *)
(* key may live in the keychain and, from earlier builds, in two fields of *)
(* the settings; the backend moves such copies to the keychain when it     *)
(* starts.                                                                 *)
(*                                                                         *)
(* switch is emergency_read_only_mode and stands for the settings that     *)
(* need a confirmation, theme for the others.  Left out: keys in the       *)
(* environment, the fields as text, audit.                                 *)
(***************************************************************************)
EXTENDS Integers, Sequences, FiniteSets, FiniteSetsExt

CONSTANTS
    NThreads,       \* threads serving requests
    NPayloads,      \* what a save asks for
    NRequests,      \* chat requests: [provider, model, groups]
    MaxKeys,        \* bound on keys handed in
    MaxSettingCalls \* bound on requests

ASSUME SettingsBounds == MaxKeys \in Nat /\ MaxSettingCalls \in Nat

VARIABLES
    nSet,     \* the settings object in place
    nDisk,    \* the settings as persisted
    nKeys,    \* [chain: the key in the keychain, up: whether it can be used, client: key of the cached client]
    nUser,    \* the user's providers, [provider -> preferred], and what chat resolved to
    nCall,    \* what each thread is doing
    nPast     \* history

nVars == <<nSet, nDisk, nKeys, nUser, nCall, nPast>>

NFree == [op |-> "idle"]
NFreeThreads == {c \in NThreads : nCall[c].op = "idle"}
NProviders == {"openai", "anthropic"}
NNobody == [p \in {} |-> FALSE]

-----------------------------------------------------------------------------
(* Saving the platform settings *)

(* The merge of a payload into the settings: fields it does not name stay, a  *)
(* key it hands in leaves the field blank.                                    *)
Merge(current, pay) ==
    [flat |-> IF pay.key \in {"flat", "clear"} THEN 0 ELSE current.flat,
     map |-> IF pay.key = "map" THEN 0 ELSE current.map,
     auth |-> IF "auth" \in DOMAIN pay.set THEN pay.set.auth ELSE current.auth,
     switch |-> IF "switch" \in DOMAIN pay.set THEN pay.set.switch ELSE current.switch,
     signed |-> IF "signed" \in DOMAIN pay.set THEN pay.set.signed ELSE current.signed,
     subjects |-> IF "subjects" \in DOMAIN pay.set THEN pay.set.subjects ELSE current.subjects,
     theme |-> IF "theme" \in DOMAIN pay.set THEN pay.set.theme ELSE current.theme]

(* _validate_platform_settings_update in a secure profile: what may not be    *)
(* turned off, and what needs a confirmation.                                 *)
Refused(current, cand, pay) ==
    \/ "auth" \in DOMAIN pay.set /\ ~pay.set.auth /\ current.auth
    \/ "signed" \in DOMAIN pay.set /\ ~cand.signed
    \/ cand.signed /\ ~cand.subjects
    \/ /\ ~pay.confirm
       /\ \/ "switch" \in DOMAIN pay.set /\ current.switch # cand.switch
          \/ "signed" \in DOMAIN pay.set /\ current.signed # cand.signed
          \/ "auth" \in DOMAIN pay.set /\ ~current.auth

(* A secure profile aligns a stored flag that predates it.                    *)
Validated(current, pay) ==
    LET cand == Merge(current, pay) IN
    IF Refused(current, cand, pay) THEN {} ELSE {[cand EXCEPT !.auth = TRUE]}

Ready_to_call == nPast.calls < MaxSettingCalls
Counted == [nPast EXCEPT !.calls = @ + 1]
HandsInKey(pay) == pay.key \in {"flat", "map"}

start_save ==
    \E c \in NFreeThreads, pay \in NPayloads : \E cand \in Validated(nSet, pay) :
        /\ Ready_to_call
        /\ HandsInKey(pay) => nPast.keys < MaxKeys
        /\ nCall' = [nCall EXCEPT ![c] =
                        [op |-> "save", cand |-> cand, pay |-> pay, behind |-> FALSE,
                         todo |-> IF pay.key = "none" THEN "put" ELSE "key"]]
        /\ nPast' = Counted
        /\ UNCHANGED <<nSet, nDisk, nKeys, nUser>>

(* _store_provider_key: the keychain is written, copies in the settings in    *)
(* place go, cached clients are dropped.                                      *)
StoreKey(key) ==
    /\ nKeys.up
    /\ nKeys' = [nKeys EXCEPT !.chain = key, !.client = 0]
    /\ nSet' = [nSet EXCEPT !.flat = 0, !.map = 0]

(* The next key handed in, or 0 to clear the stored one.                      *)
NewKey(clearing) ==
    /\ IF clearing THEN nPast' = [nPast EXCEPT !.cleared = TRUE]
       ELSE nPast' = [nPast EXCEPT !.keys = @ + 1, !.cleared = FALSE]
    /\ StoreKey(IF clearing THEN 0 ELSE nPast.keys + 1)

save_key ==
    \E c \in NThreads :
        /\ nCall[c].op = "save" /\ nCall[c].todo = "key"
        /\ nPast.keys < MaxKeys \/ nCall[c].pay.key = "clear"
        /\ NewKey(nCall[c].pay.key = "clear")
        /\ nCall' = [nCall EXCEPT ![c].todo = "put"]
        /\ UNCHANGED <<nDisk, nUser>>

(* No secure store can be used: the request fails before the settings change. *)
key_refused ==
    \E c \in NThreads :
        /\ nCall[c].op \in {"save", "set", "clear"} /\ nCall[c].todo = "key"
        /\ ~nKeys.up
        /\ nCall' = [nCall EXCEPT ![c] = NFree]
        /\ UNCHANGED <<nSet, nDisk, nKeys, nUser, nPast>>

Behind(c) == [d \in NThreads |->
                IF d = c THEN NFree
                ELSE IF nCall[d].op = "save" THEN [nCall[d] EXCEPT !.behind = TRUE] ELSE nCall[d]]

(* The object that was built from the settings read at the start.             *)
Placed(call) == call.cand

finish_save ==
    \E c \in NThreads :
        /\ nCall[c].op = "save" /\ nCall[c].todo = "put"
        /\ nSet' = Placed(nCall[c])
        /\ nDisk' = nSet'
        /\ nKeys' = [nKeys EXCEPT !.client = 0]
        /\ nCall' = Behind(c)
        /\ nPast' = [nPast EXCEPT !.saved = TRUE]
        /\ UNCHANGED nUser

-----------------------------------------------------------------------------
(* The key endpoints, the cached client and the start of the backend *)

start_key ==
    \E c \in NFreeThreads, op \in {"set", "clear"} :
        /\ Ready_to_call
        /\ ~nSet.switch
        /\ nCall' = [nCall EXCEPT ![c] = [op |-> op, todo |-> "key"]]
        /\ nDisk' = IF op = "set" THEN nSet ELSE nDisk
        /\ nPast' = Counted
        /\ UNCHANGED <<nSet, nKeys, nUser>>

(* set_provider_key persisted before it stores the key.                       *)
set_provider_key ==
    \E c \in NThreads :
        /\ nCall[c].op = "set"
        /\ nPast.keys < MaxKeys
        /\ NewKey(FALSE)
        /\ nCall' = [nCall EXCEPT ![c] = NFree]
        /\ UNCHANGED <<nDisk, nUser>>

clear_provider_key ==
    \E c \in NThreads :
        /\ nCall[c].op = "clear"
        /\ NewKey(TRUE)
        /\ nDisk' = nSet'
        /\ nCall' = [nCall EXCEPT ![c] = NFree]
        /\ UNCHANGED nUser

(* _provider_config_value: keychain first, then the copies in the settings.   *)
provider_api_key(keys, set) ==
    IF keys.up /\ keys.chain # 0 THEN keys.chain
    ELSE IF set.map # 0 THEN set.map ELSE set.flat

(* _get_chat_client: a client is built with the key and cached.               *)
start_client ==
    \E c \in NFreeThreads :
        /\ Ready_to_call
        /\ nKeys.client = 0 /\ nKeys.up /\ nKeys.chain # 0
        /\ nCall' = [nCall EXCEPT ![c] = [op |-> "client", key |-> nKeys.chain]]
        /\ nPast' = Counted
        /\ UNCHANGED <<nSet, nDisk, nKeys, nUser>>

get_chat_client ==
    \E c \in NThreads :
        /\ nCall[c].op = "client"
        /\ nKeys' = [nKeys EXCEPT !.client = nCall[c].key]
        /\ nCall' = [nCall EXCEPT ![c] = NFree]
        /\ nPast' = [nPast EXCEPT !.late = @ \/ nCall[c].key # nKeys.chain]
        /\ UNCHANGED <<nSet, nDisk, nUser>>

(* Mutant of Migrated: copies are blanked whether or not they could be moved. *)
MigratedBlindly(keys, set) ==
    [keys |-> IF keys.up /\ set.flat # 0 THEN [keys EXCEPT !.chain = set.flat] ELSE keys,
     set |-> [set EXCEPT !.flat = 0, !.map = 0]]

(* _migrate_provider_keys_to_keychain: the flat copy, then the one of the     *)
(* provider map, go to the keychain; what cannot be stored stays.             *)
Migrated(keys, set) ==
    LET last == IF set.map # 0 THEN set.map ELSE set.flat IN
    IF keys.up /\ last # 0
    THEN [keys |-> [keys EXCEPT !.chain = last], set |-> [set EXCEPT !.flat = 0, !.map = 0]]
    ELSE [keys |-> keys, set |-> set]

(* The backend stops at any point and starts again.                           *)
startup ==
    LET m == Migrated([nKeys EXCEPT !.client = 0], nDisk) IN
    /\ ~nPast.restarted
    /\ nKeys' = m.keys /\ nSet' = m.set /\ nDisk' = m.set
    /\ nCall' = [c \in NThreads |-> NFree]
    /\ nPast' = [nPast EXCEPT !.restarted = TRUE, !.late = FALSE]
    /\ UNCHANGED nUser

(* The keychain locks or unlocks.                                             *)
KeychainTurns ==
    /\ nPast.turns < 2
    /\ nKeys' = [nKeys EXCEPT !.up = ~@]
    /\ nPast' = [nPast EXCEPT !.turns = @ + 1]
    /\ UNCHANGED <<nSet, nDisk, nUser, nCall>>

-----------------------------------------------------------------------------
(* The providers of a user, and the runtime of a chat *)

(* save_user_runtime_provider: a preferred provider is the only one.          *)
Preferring(configs, p, preferred) ==
    [q \in DOMAIN configs \cup {p} |->
        IF q = p THEN preferred ELSE configs[q] /\ ~preferred]

start_user_provider ==
    \E c \in NFreeThreads, p \in NProviders, preferred \in BOOLEAN :
        /\ Ready_to_call
        /\ nCall' = [nCall EXCEPT ![c] =
                        [op |-> "user", configs |-> Preferring(nUser.configs, p, preferred)]]
        /\ nPast' = Counted
        /\ UNCHANGED <<nSet, nDisk, nKeys, nUser>>

save_user_runtime_provider ==
    \E c \in NThreads :
        /\ nCall[c].op = "user"
        /\ nUser' = [nUser EXCEPT !.configs = nCall[c].configs]
        /\ nDisk' = nSet
        /\ nCall' = [nCall EXCEPT ![c] = NFree]
        /\ UNCHANGED <<nSet, nKeys, nPast>>

delete_user_runtime_provider ==
    /\ Ready_to_call
    /\ \E p \in DOMAIN nUser.configs :
         nUser' = [nUser EXCEPT !.configs = [q \in DOMAIN @ \ {p} |-> @[q]]]
    /\ nDisk' = nSet
    /\ nPast' = Counted
    /\ UNCHANGED <<nSet, nKeys, nCall>>

(* _intersect_policy_values: sources that say nothing do not count; with no   *)
(* value left, or no source at all, the result is empty.                      *)
intersect_policy_values(groups) ==
    LET given == groups \ {{}} IN
    {v \in UNION given : \A g \in given : v \in g}

(* _select_chat_runtime_policy_model: the models it may return, none if the   *)
(* request is denied.                                                         *)
select_chat_runtime_policy_model(asked, default, available, allowed) ==
    LET first == IF asked # "" THEN asked ELSE default IN
    IF allowed = {} THEN {IF first \in available THEN first ELSE default}
    ELSE IF first \in allowed \cap available THEN {first}
    ELSE IF default \in allowed \cap available THEN {default}
    ELSE allowed \cap available

(* _resolve_request_chat_runtime: the provider asked for, or the preferred    *)
(* one, or any configured one, or openai; its credentials are the user's or   *)
(* the platform's.                                                            *)
resolve_request_chat_runtime ==
    \E r \in NRequests :
        LET configs == nUser.configs
            preferred == {p \in DOMAIN configs : configs[p]}
            providers == intersect_policy_values({g.providers : g \in r.groups})
            models == intersect_policy_values({g.models : g \in r.groups})
            own(p) == IF p \in DOMAIN configs THEN {"small", "large"} ELSE {"small"} IN
        /\ \E p \in CASE r.provider # "" -> {r.provider}
                      [] r.provider = "" /\ preferred # {} -> preferred
                      [] r.provider = "" /\ preferred = {} /\ DOMAIN configs # {} -> DOMAIN configs
                      [] OTHER -> {"openai"} :
             /\ providers # {} => p \in providers
             /\ p \in DOMAIN configs \/ (p = "openai" /\ nKeys.up /\ nKeys.chain # 0)
             /\ \E m \in select_chat_runtime_policy_model(r.model, "small", own(p), models) :
                  nUser' = [nUser EXCEPT !.chat = [on |-> TRUE, provider |-> p, model |-> m, req |-> r]]
        /\ UNCHANGED <<nSet, nDisk, nKeys, nCall, nPast>>

-----------------------------------------------------------------------------
NInit ==
    /\ nSet \in [flat : {0, 1}, map : {0, 2}, auth : {FALSE}, switch : {FALSE},
                 signed : BOOLEAN, subjects : {TRUE}, theme : {0}]
    /\ nDisk = nSet
    /\ nKeys = [chain |-> 0, up |-> FALSE, client |-> 0]
    /\ nUser = [configs |-> NNobody, chat |-> [on |-> FALSE]]
    /\ nCall = [c \in NThreads |-> NFree]
    /\ nPast = [keys |-> 2, calls |-> 0, turns |-> 0, saved |-> FALSE, restarted |-> FALSE,
                late |-> FALSE, cleared |-> nSet.flat = 0 /\ nSet.map = 0]

NNext == start_save \/ save_key \/ key_refused \/ finish_save \/ start_key \/ set_provider_key
         \/ clear_provider_key \/ start_client \/ get_chat_client \/ startup \/ KeychainTurns
         \/ start_user_provider \/ save_user_runtime_provider \/ delete_user_runtime_provider
         \/ resolve_request_chat_runtime

NSpec == NInit /\ [][NNext]_nVars

-----------------------------------------------------------------------------
(* Properties *)

(* Keys are those handed in, and a client is cached only for one of them.     *)
NTypeOK ==
    /\ nKeys.chain \in 0..nPast.keys /\ nKeys.client \in 0..nPast.keys
    /\ nPast.keys \in 2..MaxKeys /\ nPast.calls \in 0..MaxSettingCalls
    /\ DOMAIN nUser.configs \subseteq NProviders

(* Whatever saves overlap, the settings in place and on disk are consistent:  *)
(* signed messages are never required without a trusted subject, and after a  *)
(* first save a secure profile's authentication is required.                  *)
SettingsAreConsistent ==
    \A set \in {nSet, nDisk} :
        /\ set.signed => set.subjects
        /\ nPast.saved /\ set = nSet => set.auth

(* A key that was handed in and not cleared remains available, in the         *)
(* keychain or in the settings, across failed writes, migration and restarts. *)
KeysAreNotLost ==
    ~nPast.cleared => nKeys.chain # 0 \/ nSet.flat # 0 \/ nSet.map # 0

(* The cached client holds the key in the keychain, unless the key was        *)
(* changed while the client was being built.                                  *)
CachedClientIsCurrent ==
    nKeys.client # 0 /\ ~nPast.late => nKeys.client = nKeys.chain

(* At most one of a user's providers is preferred, although two requests may  *)
(* each have started from the providers as they were.                         *)
PreferredIsUnique == Cardinality({p \in DOMAIN nUser.configs : nUser.configs[p]}) <= 1

(* A chat runs on a provider and a model that every policy source permits,    *)
(* provided that the sources have a value in common.                          *)
ChatStaysWithinPolicy ==
    nUser.chat.on =>
        LET groups == nUser.chat.req.groups
            common(sets) == \E v \in UNION sets : \A g \in sets \ {{}} : v \in g IN
        /\ common({g.providers : g \in groups}) =>
             \A g \in groups : g.providers = {} \/ nUser.chat.provider \in g.providers
        /\ common({g.models : g \in groups}) =>
             \A g \in groups : g.models = {} \/ nUser.chat.model \in g.models

(* A setting that needs a confirmation changes only by a save that carried    *)
(* it, unless another save finished after that save had read the settings.    *)
SwitchesAreConfirmed ==
    [][nSet'.switch # nSet.switch =>
        \E c \in NThreads :
            /\ nCall[c].op = "save" /\ nCall'[c].op = "idle"
            /\ nCall[c].pay.confirm \/ nCall[c].behind]_nVars

(* The same without the exception: "Sensitive platform security changes       *)
(* require confirm_security_change=true".                                     *)
OnlyConfirmedSavesSwitch ==
    [][nSet'.switch # nSet.switch =>
        \E c \in NThreads :
            /\ nCall[c].op = "save" /\ nCall'[c].op = "idle"
            /\ nCall[c].pay.confirm]_nVars

(* A restart with no request under way does not change the key that calls     *)
(* are made with: "Any copy still held in settings goes too: the keychain is  *)
(* the only store."                                                           *)
RestartKeepsTheKey ==
    [][(nPast'.restarted # nPast.restarted /\ nKeys.up /\ NFreeThreads = NThreads) =>
        provider_api_key(nKeys', nSet') = provider_api_key(nKeys, nSet)]_nVars

=============================================================================
