------------------------------ MODULE Secrets ------------------------------
(***************************************************************************)
(* The native secret store: one named secret, kept in the environment, in  *)
(* the OS keychain, in a DPAPI file (Windows) or, where the operator opted *)
(* in (Linux), in a plaintext file.  Earlier builds left plaintext files   *)
(* behind; the first read moves them to a protected store.                 *)
(*                                                                         *)
(* Several callers (the launcher, the backend's threads) use the store at  *)
(* once.  A step is one access to a store.  The keychain may lock: its     *)
(* backend is still there, a read finds nothing and a write fails.         *)
(*                                                                         *)
(* A value is a number, 0 for none.  Left out: encryption, permissions of  *)
(* files, wording.                                                         *)
(***************************************************************************)
EXTENDS Integers, FiniteSets

CONSTANTS
    FCallers,    \* callers
    FHosts,      \* [platform, optIn, backend, env]: the host and what it offers
    MaxSecrets,  \* bound on values
    MaxAccesses, \* bound on calls
    MaxLocks     \* bound on locking, unlocking and crashes

ASSUME SecretsBounds == MaxSecrets \in Nat \ {0} /\ MaxAccesses \in Nat /\ MaxLocks \in Nat

VARIABLES
    fHost,   \* the host
    fChain,  \* the keychain: [value, locked]
    fFiles,  \* [dpapi, plain]
    fCall,   \* what each caller is doing
    fPast    \* history

fVars == <<fHost, fChain, fFiles, fCall, fPast>>

FIdle == [op |-> "idle"]
FBusy == {c \in FCallers : fCall[c].op # "idle"}

-----------------------------------------------------------------------------
(* The stores *)

keychain_get == IF fHost.backend /\ ~fChain.locked THEN fChain.value ELSE 0

read_protected ==
    IF keychain_get # 0 THEN [value |-> keychain_get, mode |-> "keychain"]
    ELSE IF fHost.platform = "windows" /\ fFiles.dpapi # 0
    THEN [value |-> fFiles.dpapi, mode |-> "dpapi_file"]
    ELSE [value |-> 0, mode |-> "none"]

plaintext_opt_in_active == fHost.platform = "linux" /\ fHost.optIn

FGoto(c, stage) == fCall' = [fCall EXCEPT ![c].stage = stage]

(* A call answers with a value and a mode; it may leave a trace in history.   *)
FAnswer(c, value, mode, past) ==
    /\ fCall' = [fCall EXCEPT ![c] = FIdle]
    /\ fPast' = [past EXCEPT !.last = [op |-> fCall[c].op, value |-> value, mode |-> mode,
                                       quiet |-> fCall[c].quiet /\ FBusy = {c},
                                       sighted |-> fCall[c].sighted,
                                       shadowed |-> fCall[c].shadowed]]

-----------------------------------------------------------------------------
(* Calls *)

FBegin(c, op, stage, value, mode, then) ==
    /\ fCall[c].op = "idle"
    /\ fPast.calls < MaxAccesses
    /\ fCall' = [d \in FCallers |->
                   IF d = c THEN [op |-> op, stage |-> stage, value |-> value, mode |-> mode,
                                  then |-> then, quiet |-> FBusy = {}, sighted |-> ~fChain.locked,
                                  shadowed |-> fHost.backend /\ fChain.value # 0]
                   ELSE IF fCall[d].op = "idle" THEN FIdle ELSE [fCall[d] EXCEPT !.quiet = FALSE]]

(* get_secret and ensure_secret begin alike: the environment, then the        *)
(* protected stores.                                                          *)
start_read(c) ==
    /\ \E op \in {"get", "ensure"} :
          FBegin(c, op, IF fHost.env THEN "env" ELSE "legacy",
                 read_protected.value, read_protected.mode, "none")
    /\ fPast' = [fPast EXCEPT !.calls = @ + 1, !.last = [op |-> "none"]]
    /\ UNCHANGED <<fHost, fChain, fFiles>>

from_environment(c) ==
    /\ fCall[c].op # "idle" /\ fCall[c].stage = "env"
    /\ FAnswer(c, -1, "env_only", fPast)
    /\ UNCHANGED <<fHost, fChain, fFiles>>

(* Mutant of migrate_legacy: any file is redundant once a value is stored. *)
MigrateDropsOthers(c) ==
    /\ fCall[c].op # "idle" /\ fCall[c].stage = "legacy"
    /\ IF fFiles.plain # 0 /\ fCall[c].value # 0
       THEN /\ fFiles' = [fFiles EXCEPT !.plain = 0]
            /\ FGoto(c, "found")
       ELSE /\ UNCHANGED fFiles
            /\ IF fFiles.plain # 0
               THEN fCall' = [fCall EXCEPT ![c].stage = "put", ![c].value = fFiles.plain,
                                           ![c].then = "verify"]
               ELSE FGoto(c, "found")
    /\ UNCHANGED <<fHost, fChain, fPast>>

(* _migrate_legacy up to the write: a file with the stored value goes, one    *)
(* with another value stays, one with no stored value is written to a store.  *)
migrate_legacy(c) ==
    /\ fCall[c].op # "idle" /\ fCall[c].stage = "legacy"
    /\ IF fFiles.plain # 0 /\ fCall[c].value # 0
       THEN /\ fFiles' = [fFiles EXCEPT !.plain = IF @ = fCall[c].value THEN 0 ELSE @]
            /\ FGoto(c, "found")
       ELSE /\ UNCHANGED fFiles
            /\ IF fFiles.plain # 0
               THEN fCall' = [fCall EXCEPT ![c].stage = "put", ![c].value = fFiles.plain,
                                           ![c].then = "verify"]
               ELSE FGoto(c, "found")
    /\ UNCHANGED <<fHost, fChain, fPast>>

(* The end of get_secret.  ensure_secret goes on to generate a value when     *)
(* there is none.                                                             *)
found(c) ==
    LET call == fCall[c]
        plain == ~fHost.backend /\ fHost.platform # "windows"
    IN /\ call.op # "idle" /\ call.stage = "found"
       /\ CASE call.value # 0 -> FAnswer(c, call.value, call.mode, fPast)
            [] call.value = 0 /\ plain /\ ~plaintext_opt_in_active ->
                 FAnswer(c, 0, "unavailable", fPast)
            [] call.value = 0 /\ plain /\ plaintext_opt_in_active /\ fFiles.plain # 0 ->
                 FAnswer(c, fFiles.plain, "plaintext_file_opt_in", fPast)
            [] OTHER ->
                 IF call.op = "get" THEN FAnswer(c, 0, "none", fPast)
                 ELSE /\ fPast.values < MaxSecrets
                      /\ fCall' = [fCall EXCEPT ![c].stage = "put", ![c].value = fPast.values + 1,
                                                ![c].then = "done"]
                      /\ fPast' = [fPast EXCEPT !.values = @ + 1]
       /\ UNCHANGED <<fHost, fChain, fFiles>>

set_secret(c) ==
    /\ fPast.values < MaxSecrets
    /\ FBegin(c, "set", "put", fPast.values + 1, "none", "done")
    /\ fPast' = [fPast EXCEPT !.calls = @ + 1, !.values = @ + 1, !.last = [op |-> "none"]]
    /\ UNCHANGED <<fHost, fChain, fFiles>>

(* _keychain_put: the write, which may fail for reasons of its own (a value   *)
(* too long for it), and then the read-back.                                  *)
keychain_put(c) ==
    /\ fCall[c].op # "idle" /\ fCall[c].stage = "put"
    /\ \/ /\ fHost.backend /\ ~fChain.locked
          /\ fChain' = [fChain EXCEPT !.value = fCall[c].value]
          /\ FGoto(c, "check")
          /\ UNCHANGED fPast
       \/ /\ ~fHost.backend \/ fChain.locked
          /\ FGoto(c, "fallback")
          /\ UNCHANGED <<fChain, fPast>>
       \/ /\ fHost.backend /\ ~fChain.locked /\ fPast.locks < MaxLocks
          /\ FGoto(c, "fallback")
          /\ fPast' = [fPast EXCEPT !.locks = @ + 1]
          /\ UNCHANGED fChain
    /\ UNCHANGED <<fHost, fFiles>>

Written(c, mode, past) ==
    IF fCall[c].then = "verify"
    THEN /\ fCall' = [fCall EXCEPT ![c].stage = "verify", ![c].mode = mode]
         /\ fPast' = past
    ELSE FAnswer(c, fCall[c].value, mode, past)

keychain_check(c) ==
    /\ fCall[c].op # "idle" /\ fCall[c].stage = "check"
    /\ IF keychain_get = fCall[c].value
       THEN Written(c, "keychain", fPast)
       ELSE FGoto(c, "fallback") /\ UNCHANGED fPast
    /\ UNCHANGED <<fHost, fChain, fFiles>>

(* Without the keychain: the DPAPI file, the file the operator opted in to,   *)
(* or a refusal.  A legacy file of an opted-in host is the store itself.      *)
write_fallback(c) ==
    /\ fCall[c].op # "idle" /\ fCall[c].stage = "fallback"
    /\ IF fHost.platform = "windows"
       THEN /\ fFiles' = [fFiles EXCEPT !.dpapi = fCall[c].value]
            /\ Written(c, "dpapi_file", fPast)
       ELSE IF ~plaintext_opt_in_active
       THEN /\ FAnswer(c, 0, "unavailable", fPast)
            /\ UNCHANGED fFiles
       ELSE IF fCall[c].then = "verify"
       THEN /\ fCall' = [fCall EXCEPT ![c].stage = "found", ![c].value = 0]
            /\ UNCHANGED <<fFiles, fPast>>
       ELSE /\ fFiles' = [fFiles EXCEPT !.plain = fCall[c].value]
            /\ FAnswer(c, fCall[c].value, "plaintext_file_opt_in", fPast)
    /\ UNCHANGED <<fHost, fChain>>

(* The rest of _migrate_legacy: read back, then delete the file. *)
verify_migration(c) ==
    /\ fCall[c].op # "idle" /\ fCall[c].stage = "verify"
    /\ IF read_protected = [value |-> fCall[c].value, mode |-> fCall[c].mode]
       THEN FGoto(c, "unlink") /\ UNCHANGED fPast
       ELSE FAnswer(c, 0, "unverified", fPast)
    /\ UNCHANGED <<fHost, fChain, fFiles>>

unlink_legacy(c) ==
    /\ fCall[c].op # "idle" /\ fCall[c].stage = "unlink"
    /\ fFiles' = [fFiles EXCEPT !.plain = 0]
    /\ FAnswer(c, fCall[c].value, fCall[c].mode, fPast)
    /\ UNCHANGED <<fHost, fChain>>

(* delete_secret: the keychain if a read finds something there, then both     *)
(* files.                                                                     *)
start_delete(c) ==
    /\ FBegin(c, "delete", "unset", 0, "none", "none")
    /\ fPast' = [fPast EXCEPT !.cleared = TRUE, !.calls = @ + 1, !.last = [op |-> "none"]]
    /\ UNCHANGED <<fHost, fChain, fFiles>>

delete_from_keychain(c) ==
    /\ fCall[c].op # "idle" /\ fCall[c].stage = "unset"
    /\ fChain' = [fChain EXCEPT !.value = IF keychain_get # 0 THEN 0 ELSE @]
    /\ fCall' = [fCall EXCEPT ![c].stage = "rmfiles", ![c].sighted = ~fChain.locked]
    /\ UNCHANGED <<fHost, fFiles, fPast>>

delete_files(c) ==
    /\ fCall[c].op # "idle" /\ fCall[c].stage = "rmfiles"
    /\ fFiles' = [dpapi |-> 0, plain |-> 0]
    /\ FAnswer(c, 0, "deleted", fPast)
    /\ UNCHANGED <<fHost, fChain>>

-----------------------------------------------------------------------------
(* The keychain locks or unlocks, and a caller dies in the middle of a call. *)

LockTurns ==
    /\ fHost.backend /\ fPast.locks < MaxLocks
    /\ fChain' = [fChain EXCEPT !.locked = ~@]
    /\ fPast' = [fPast EXCEPT !.locks = @ + 1]
    /\ fCall' = [c \in FCallers |-> IF fCall[c].op = "idle" THEN FIdle
                                    ELSE [fCall[c] EXCEPT !.quiet = FALSE]]
    /\ UNCHANGED <<fHost, fFiles>>

CallerDies(c) ==
    /\ fCall[c].op # "idle" /\ fPast.locks < MaxLocks
    /\ fCall' = [fCall EXCEPT ![c] = FIdle]
    /\ fPast' = [fPast EXCEPT !.locks = @ + 1, !.last = [op |-> "none"]]
    /\ UNCHANGED <<fHost, fChain, fFiles>>

-----------------------------------------------------------------------------
(* A legacy file (the value 1) or none; a value in the keychain (2) or none. *)
FInit ==
    /\ fHost \in FHosts
    /\ \E legacy \in {0, 1}, stored \in {0, 2} :
          /\ stored # 0 => fHost.backend
          /\ fChain = [value |-> stored, locked |-> FALSE]
          /\ fFiles = [dpapi |-> 0, plain |-> legacy]
    /\ fCall = [c \in FCallers |-> FIdle]
    /\ fPast = [calls |-> 0, values |-> 2, locks |-> 0, cleared |-> FALSE,
                legacy |-> fFiles.plain, last |-> [op |-> "none"]]

FNext ==
    \/ \E c \in FCallers :
          \/ start_read(c) \/ from_environment(c) \/ migrate_legacy(c) \/ found(c)
          \/ set_secret(c) \/ keychain_put(c) \/ keychain_check(c) \/ write_fallback(c)
          \/ verify_migration(c) \/ unlink_legacy(c)
          \/ start_delete(c) \/ delete_from_keychain(c) \/ delete_files(c) \/ CallerDies(c)
    \/ LockTurns

FSpec == FInit /\ [][FNext]_fVars

-----------------------------------------------------------------------------
FQuietly(op) == fPast.last.op = op /\ fPast.last.quiet

(* Types: a plaintext file holds the value it had from the start unless the   *)
(* operator opted in, and the DPAPI file exists on Windows only.              *)
FTypeOK ==
    /\ fHost \in FHosts
    /\ fChain.value \in 0..MaxSecrets /\ (fChain.value # 0 => fHost.backend)
    /\ fFiles.dpapi \in 0..MaxSecrets /\ (fFiles.dpapi # 0 => fHost.platform = "windows")
    /\ fFiles.plain \in {0, fPast.legacy} \/ plaintext_opt_in_active

(* A secret of an earlier build is never lost by its migration: until someone *)
(* deletes the secret or sets another value, it can be found in some store,   *)
(* whatever dies or locks on the way (_migrate_legacy writes, reads back and  *)
(* only then deletes).                                                        *)
LegacySecretsSurvive ==
    fPast.legacy # 0 /\ ~fPast.cleared /\ fPast.values = 2 =>
        fPast.legacy \in {fChain.value, fFiles.dpapi, fFiles.plain}

(* The legacy value never takes the place of a value the keychain shows.      *)
StoredSecretsAreKept ==
    [][\A c \in FCallers :
          fCall[c].op \in {"get", "ensure"} /\ fCall[c].quiet /\ fCall'[c].op # "idle" =>
              (keychain_get # 0 => fChain'.value = fChain.value)]_fVars

(* A value that set_secret stored without interference is what a read then    *)
(* finds, unless the keychain holds an older value it could not replace.      *)
SetSecretsAreFound ==
    (/\ FQuietly("set") /\ fPast.last.mode \in {"keychain", "dpapi_file"}
     /\ ~fChain.locked
     /\ (fPast.last.mode = "dpapi_file" => ~fPast.last.shadowed))
    => read_protected.value = fPast.last.value

(* A deletion that reports success leaves no copy, provided it could see into *)
(* the keychain.                                                              *)
DeletedSecretsAreGone ==
    FQuietly("delete") /\ fPast.last.sighted =>
        fChain.value = 0 /\ fFiles.dpapi = 0 /\ fFiles.plain = 0

(* delete_secret's own promise: it "Raises SecretStorageUnavailable only when *)
(* a stored copy exists but cannot be removed (the caller must not report it  *)
(* as cleared)", so that a call that returns has left none.                   *)
ClearedMeansGone ==
    FQuietly("delete") => fChain.value = 0 /\ fFiles.dpapi = 0 /\ fFiles.plain = 0
=============================================================================
