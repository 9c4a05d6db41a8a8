--------------------------- MODULE ServicesProofs ---------------------------
(***************************************************************************)
(* Proofs about the services: Secrets for any callers, hosts and bounds,    *)
(* Execution for any hosts, expected exit codes and number of commands.     *)
(***************************************************************************)
EXTENDS Secrets, Execution, TLAPS

-----------------------------------------------------------------------------
(* Secrets.  While nobody deletes the secret or sets a value, the only      *)
(* value that a call writes is the legacy one, so that a store that once    *)
(* holds it keeps it: that is what makes the read before the unlink enough. *)

FOps == {"get", "ensure", "set", "delete"}
FStages == {"env", "legacy", "found", "put", "check", "fallback", "verify", "unlink", "unset", "rmfiles"}
FModes == {"none", "keychain", "dpapi_file"}
FCalls == [op: FOps, stage: FStages, value: Nat, mode: FModes, then: {"none", "verify", "done"},
           quiet: BOOLEAN, sighted: BOOLEAN, shadowed: BOOLEAN]

FTypes ==
    /\ fCall \in [FCallers -> FCalls \cup {FIdle}]
    /\ fChain \in [value: Nat, locked: BOOLEAN]
    /\ fFiles \in [dpapi: Nat, plain: Nat]
    /\ fPast = [calls |-> fPast.calls, values |-> fPast.values, locks |-> fPast.locks,
                cleared |-> fPast.cleared, legacy |-> fPast.legacy, last |-> fPast.last]
    /\ fPast.values \in Nat /\ fPast.values >= 2
    /\ fPast.cleared \in BOOLEAN

\* The value is in a store that a read finds before the plaintext file.
Protected(v) == v \in {fChain.value, fFiles.dpapi}

\* What a call may hold while nothing but migrations has written.
Migrating(call, legacy) ==
    /\ call.op # "delete" /\ call.stage \notin {"unset", "rmfiles"}
    /\ call.stage \in {"put", "check", "fallback", "verify", "unlink"} =>
         call.value = legacy /\ call.then = "verify"
    /\ call.stage = "unlink" \/ (call.stage = "legacy" /\ call.value = legacy) => Protected(legacy)

OnlyMigrated == fPast.legacy # 0 /\ ~fPast.cleared /\ fPast.values = 2

LegacyInv ==
    OnlyMigrated =>
        /\ fFiles.plain \in {0, fPast.legacy}
        /\ Protected(fPast.legacy) \/ fFiles.plain = fPast.legacy
        /\ \A c \in FCallers : fCall[c].op # "idle" => Migrating(fCall[c], fPast.legacy)

FInv == FTypes /\ LegacyInv

-----------------------------------------------------------------------------
\* What a step leaves of the history, and of the calls other than c.
PastGoes ==
    /\ fPast' = [calls |-> fPast'.calls, values |-> fPast'.values, locks |-> fPast'.locks,
                 cleared |-> fPast'.cleared, legacy |-> fPast'.legacy, last |-> fPast'.last]
    /\ fPast'.legacy = fPast.legacy
    /\ fPast'.values \in {fPast.values, fPast.values + 1}
    /\ fPast'.cleared \in BOOLEAN /\ (fPast.cleared => fPast'.cleared)

SameCall(d) ==
    /\ fCall'[d].op = fCall[d].op
    /\ fCall[d].op # "idle" =>
         fCall'[d].stage = fCall[d].stage /\ fCall'[d].value = fCall[d].value
         /\ fCall'[d].then = fCall[d].then

OnlyCall(c) == fCall' \in [FCallers -> FCalls \cup {FIdle}] /\ \A d \in FCallers : d # c => SameCall(d)

\* A caller with a call under way has a record of FCalls.
LEMMA BusyCall ==
    ASSUME FTypes, NEW c \in FCallers, fCall[c].op # "idle"
    PROVE  fCall[c] \in FCalls
  BY DEF FTypes, FIdle

\* Setting the call of one caller.
LEMMA CallUpdate ==
    ASSUME FTypes, NEW c \in FCallers, NEW r \in FCalls \cup {FIdle}, fCall' = [fCall EXCEPT ![c] = r]
    PROVE  OnlyCall(c) /\ fCall'[c] = r
  BY DEF OnlyCall, SameCall, FTypes

\* A step of FGoto changes one call, and of that call only what it names.
LEMMA GotoIs ==
    ASSUME FTypes, NEW c \in FCallers, fCall[c].op # "idle", NEW s \in FStages, FGoto(c, s)
    PROVE  /\ OnlyCall(c)
           /\ fCall'[c].op = fCall[c].op /\ fCall'[c].stage = s
           /\ fCall'[c].value = fCall[c].value /\ fCall'[c].then = fCall[c].then
<1> DEFINE r == [fCall[c] EXCEPT !.stage = s]
<1>1. fCall[c] \in FCalls
  BY BusyCall
<1>2. /\ r \in FCalls /\ r.op = fCall[c].op /\ r.stage = s
      /\ r.value = fCall[c].value /\ r.then = fCall[c].then
  BY <1>1 DEF FCalls
<1>3. fCall' = [fCall EXCEPT ![c] = r]
  BY DEF FGoto
<1> HIDE DEF r
<1> QED
  BY <1>2, <1>3, CallUpdate, Zenon

\* A call that answers leaves its caller idle, and of the history changes only
\* the last answer.
LEMMA AnswerIs ==
    ASSUME FTypes, NEW c \in FCallers, NEW v, NEW m, FAnswer(c, v, m, fPast)
    PROVE  OnlyCall(c) /\ fCall'[c].op = "idle" /\ PastGoes
<1>1. OnlyCall(c) /\ fCall'[c] = FIdle
  BY CallUpdate, Zenon DEF FAnswer
<1>2. PastGoes
  <2>1. PICK x : fPast' = [fPast EXCEPT !.last = x]
    BY Zenon DEF FAnswer
  <2>2. fPast' = [calls |-> fPast.calls, values |-> fPast.values, locks |-> fPast.locks,
                  cleared |-> fPast.cleared, legacy |-> fPast.legacy, last |-> x]
    BY <2>1 DEF FTypes
  <2> QED
    BY <2>2 DEF PastGoes, FTypes
<1> QED
  BY <1>1, <1>2 DEF FIdle

\* A step that leaves the history alone is one of those PastGoes allows.
LEMMA PastStays ==
    ASSUME FTypes, fPast' = fPast PROVE PastGoes
  BY DEF FTypes, PastGoes

\* A new call; the others keep what they carry.
LEMMA BeginIs ==
    ASSUME FTypes, NEW c \in FCallers, NEW o \in FOps, NEW s \in FStages, NEW v \in Nat,
           NEW m \in FModes, NEW n \in {"none", "verify", "done"}, FBegin(c, o, s, v, m, n)
    PROVE  /\ OnlyCall(c)
           /\ fCall'[c].op = o /\ fCall'[c].stage = s /\ fCall'[c].value = v /\ fCall'[c].then = n
<1> DEFINE r == [op |-> o, stage |-> s, value |-> v, mode |-> m, then |-> n,
                 quiet |-> FBusy = {}, sighted |-> ~fChain.locked,
                 shadowed |-> fHost.backend /\ fChain.value # 0]
<1>1. (FBusy = {}) \in BOOLEAN /\ (~fChain.locked) \in BOOLEAN
      /\ (fHost.backend /\ fChain.value # 0) \in BOOLEAN
  OBVIOUS
<1>2. r \in FCalls
  BY <1>1 DEF FCalls
<1>3. fCall'[c] = r
  BY DEF FBegin
<1>4. ASSUME NEW d \in FCallers, d # c PROVE fCall'[d] \in FCalls \cup {FIdle} /\ SameCall(d)
  <2>1. CASE fCall[d].op = "idle"
    <3>1. fCall'[d] = FIdle
      BY <1>4, <2>1 DEF FBegin
    <3> QED
      BY <2>1, <3>1 DEF SameCall, FIdle
  <2>2. CASE fCall[d].op # "idle"
    <3>1. fCall'[d] = [fCall[d] EXCEPT !.quiet = FALSE]
      BY <1>4, <2>2 DEF FBegin
    <3>2. fCall[d] \in FCalls
      BY <2>2, BusyCall
    <3> QED
      BY <3>1, <3>2, Zenon DEF SameCall, FCalls
  <2> QED
    BY <2>1, <2>2
<1>5. fCall' \in [FCallers -> FCalls \cup {FIdle}]
  <2>1. fCall' = [d \in FCallers |-> fCall'[d]]
    BY DEF FBegin
  <2>2. \A d \in FCallers : fCall'[d] \in FCalls \cup {FIdle}
    BY <1>2, <1>3, <1>4
  <2> QED
    BY <2>1, <2>2
<1> QED
  BY <1>3, <1>4, <1>5 DEF OnlyCall

\* The general step: what the moving call and the stores must satisfy.
LEMMA LegacyKept ==
    ASSUME FInv, PastGoes, NEW c \in FCallers, OnlyCall(c),
           OnlyMigrated /\ OnlyMigrated' =>
             /\ fFiles'.plain \in {0, fPast.legacy}
             /\ Protected(fPast.legacy) => Protected(fPast.legacy)'
             /\ Protected(fPast.legacy)' \/ fFiles'.plain = fPast.legacy
             /\ fCall'[c].op # "idle" => Migrating(fCall[c], fPast.legacy)'
    PROVE  LegacyInv'
<1> SUFFICES ASSUME OnlyMigrated' PROVE
             /\ fFiles'.plain \in {0, fPast'.legacy}
             /\ Protected(fPast.legacy)' \/ fFiles'.plain = fPast'.legacy
             /\ \A d \in FCallers : fCall'[d].op # "idle" => Migrating(fCall[d], fPast.legacy)'
  BY DEF LegacyInv
<1>1. fPast'.legacy = fPast.legacy /\ OnlyMigrated
  BY DEF PastGoes, OnlyMigrated, FInv, FTypes
<1>2. ASSUME NEW d \in FCallers, d # c, fCall'[d].op # "idle"
      PROVE  Migrating(fCall[d], fPast.legacy)'
  <2>1. SameCall(d) /\ fCall[d].op # "idle"
    BY <1>2 DEF OnlyCall, SameCall
  <2>2. Migrating(fCall[d], fPast.legacy)
    BY <1>1, <2>1 DEF FInv, LegacyInv
  <2>3. Protected(fPast.legacy) => Protected(fPast.legacy)'
    BY <1>1
  <2> QED
    BY <1>1, <2>1, <2>2, <2>3 DEF SameCall, Migrating
<1> QED
  BY <1>1, <1>2

\* The types are preserved when the stores and one call stay in theirs.
LEMMA TypesKept ==
    ASSUME FTypes, PastGoes, fCall' \in [FCallers -> FCalls \cup {FIdle}],
           fChain' \in [value: Nat, locked: BOOLEAN], fFiles' \in [dpapi: Nat, plain: Nat]
    PROVE  FTypes'
  BY DEF FTypes, PastGoes

\* A step of c that leaves the stores alone.
LEMMA StoresStay ==
    ASSUME FInv, PastGoes, NEW c \in FCallers, OnlyCall(c), fChain' = fChain, fFiles' = fFiles,
           OnlyMigrated /\ fCall'[c].op # "idle" => Migrating(fCall'[c], fPast.legacy)
    PROVE  FInv'
<1>1. FTypes'
  BY TypesKept DEF FInv, FTypes, OnlyCall
<1>2. fPast'.legacy = fPast.legacy
  BY DEF PastGoes
<1>3. Protected(fPast.legacy)' = Protected(fPast.legacy)
  BY <1>2 DEF Protected
<1>4. LegacyInv'
  <2>1. ASSUME OnlyMigrated, fCall'[c].op # "idle" PROVE Migrating(fCall[c], fPast.legacy)'
    BY <1>2, <1>3, <2>1 DEF Migrating
  <2> QED
    BY <1>2, <1>3, <2>1, LegacyKept DEF FInv, LegacyInv
<1> QED
  BY <1>1, <1>4 DEF FInv

\* The value that the protected stores show is in one of them.
LEMMA ReadIs ==
    ASSUME FTypes
    PROVE  /\ read_protected.value \in Nat /\ read_protected.mode \in FModes
           /\ read_protected.value # 0 => Protected(read_protected.value)
  BY DEF read_protected, keychain_get, FTypes, Protected, FModes

\* get_secret and ensure_secret up to the legacy file preserve the invariant.
LEMMA ReadsKeep ==
    ASSUME FInv, NEW c \in FCallers, start_read(c) \/ from_environment(c) PROVE FInv'
<1>0. FTypes
  BY DEF FInv
<1>1. CASE start_read(c)
  <2>1. PICK o \in {"get", "ensure"} :
            FBegin(c, o, IF fHost.env THEN "env" ELSE "legacy",
                   read_protected.value, read_protected.mode, "none")
    BY <1>1 DEF start_read
  <2>2. (IF fHost.env THEN "env" ELSE "legacy") \in FStages /\ o \in FOps
    BY DEF FStages, FOps
  <2>3. /\ OnlyCall(c) /\ fCall'[c].op = o
        /\ fCall'[c].stage = (IF fHost.env THEN "env" ELSE "legacy")
        /\ fCall'[c].value = read_protected.value
    BY <1>0, <2>1, <2>2, ReadIs, BeginIs
  <2>4. PastGoes
    <3>1. fPast' = [calls |-> fPast.calls + 1, values |-> fPast.values, locks |-> fPast.locks,
                    cleared |-> fPast.cleared, legacy |-> fPast.legacy, last |-> [op |-> "none"]]
      BY <1>0, <1>1, Zenon DEF start_read, FTypes
    <3> QED
      BY <1>0, <3>1 DEF PastGoes, FTypes
  <2>5. ASSUME OnlyMigrated PROVE Migrating(fCall'[c], fPast.legacy)
    BY <1>0, <2>2, <2>3, <2>5, ReadIs DEF Migrating, OnlyMigrated
  <2> QED
    BY <1>1, <2>3, <2>4, <2>5, StoresStay DEF start_read
<1>2. CASE from_environment(c)
  BY <1>0, <1>2, AnswerIs, StoresStay DEF from_environment
<1> QED
  BY <1>1, <1>2

\* _migrate_legacy, reading the legacy file, preserves the invariant.
LEMMA MigrateKeeps ==
    ASSUME FInv, NEW c \in FCallers, migrate_legacy(c) PROVE FInv'
<1>0. FTypes /\ fCall[c].op # "idle" /\ fCall[c].stage = "legacy" /\ fChain' = fChain /\ fPast' = fPast
  BY DEF FInv, migrate_legacy
<1>1. fCall[c] \in FCalls /\ PastGoes
  BY <1>0, BusyCall, PastStays
<1>g. ASSUME FGoto(c, "found")
      PROVE  /\ OnlyCall(c) /\ fCall'[c].stage = "found"
             /\ fCall'[c].op = fCall[c].op /\ fCall'[c].then = fCall[c].then
  <2>1. "found" \in FStages
    BY DEF FStages
  <2> QED
    BY <1>0, <1>g, <2>1, GotoIs
<1>2. CASE fFiles.plain # 0 /\ fCall[c].value # 0
  <2>1. fFiles' = [fFiles EXCEPT !.plain = IF fFiles.plain = fCall[c].value THEN 0 ELSE fFiles.plain]
    BY <1>2 DEF migrate_legacy
  <2>2. OnlyCall(c) /\ fCall'[c].stage = "found" /\ fCall'[c].op = fCall[c].op
    BY <1>2, <1>g DEF migrate_legacy
  <2>3. /\ fFiles' \in [dpapi: Nat, plain: Nat] /\ fFiles'.dpapi = fFiles.dpapi
        /\ fFiles'.plain = IF fFiles.plain = fCall[c].value THEN 0 ELSE fFiles.plain
    BY <1>0, <2>1 DEF FTypes
  <2>4. FTypes'
    BY <1>0, <1>1, <2>2, <2>3, TypesKept DEF FTypes, OnlyCall
  <2>5. Protected(fPast.legacy)' = Protected(fPast.legacy)
    BY <1>0, <2>3 DEF Protected
  <2>6. ASSUME OnlyMigrated
        PROVE  /\ fFiles'.plain \in {0, fPast.legacy}
               /\ Protected(fPast.legacy)' \/ fFiles'.plain = fPast.legacy
               /\ fCall'[c].op # "idle" => Migrating(fCall[c], fPast.legacy)'
    <3>1. /\ fFiles.plain \in {0, fPast.legacy}
          /\ Protected(fPast.legacy) \/ fFiles.plain = fPast.legacy
          /\ Migrating(fCall[c], fPast.legacy)
      BY <1>0, <2>6 DEF FInv, LegacyInv
    <3>2. fFiles'.plain \in {0, fPast.legacy}
      BY <2>3, <3>1
    <3>3. Protected(fPast.legacy)' \/ fFiles'.plain = fPast.legacy
      BY <1>0, <1>2, <2>3, <2>5, <3>1 DEF Migrating
    <3>4. Migrating(fCall[c], fPast.legacy)'
      BY <1>0, <2>2, <3>1 DEF Migrating
    <3> QED
      BY <3>2, <3>3, <3>4
  <2>7. LegacyInv'
    BY <1>1, <2>2, <2>5, <2>6, LegacyKept
  <2> QED
    BY <2>4, <2>7 DEF FInv
<1>3. CASE ~(fFiles.plain # 0 /\ fCall[c].value # 0) /\ fFiles.plain # 0
  <2> DEFINE r == [fCall[c] EXCEPT !.stage = "put", !.value = fFiles.plain, !.then = "verify"]
  <2>1. fFiles' = fFiles /\ fCall' = [fCall EXCEPT ![c] = r]
    BY <1>3, Zenon DEF migrate_legacy
  <2>2. fFiles.plain \in Nat
    BY <1>0 DEF FTypes
  <2>3. /\ r \in FCalls /\ r.op = fCall[c].op /\ r.stage = "put" /\ r.value = fFiles.plain
        /\ r.then = "verify"
    BY <1>1, <2>2, Zenon DEF FCalls, FStages
  <2> HIDE DEF r
  <2>4. OnlyCall(c) /\ fCall'[c] = r
    BY <1>0, <2>1, <2>3, CallUpdate, Zenon
  <2>5. ASSUME OnlyMigrated PROVE Migrating(fCall'[c], fPast.legacy)
    <3>1. fFiles.plain = fPast.legacy /\ Migrating(fCall[c], fPast.legacy)
      BY <1>0, <1>3, <2>5 DEF FInv, LegacyInv
    <3> QED
      BY <2>3, <2>4, <3>1 DEF Migrating
  <2> QED
    BY <1>0, <1>1, <2>1, <2>4, <2>5, StoresStay
<1>4. CASE fFiles.plain = 0
  <2>1. FGoto(c, "found") /\ fFiles' = fFiles
    BY <1>4 DEF migrate_legacy
  <2>2. OnlyCall(c) /\ fCall'[c].stage = "found" /\ fCall'[c].op = fCall[c].op
    BY <1>g, <2>1
  <2>3. ASSUME OnlyMigrated PROVE Migrating(fCall'[c], fPast.legacy)
    BY <1>0, <2>2, <2>3 DEF FInv, LegacyInv, Migrating
  <2> QED
    BY <1>0, <1>1, <2>1, <2>2, <2>3, StoresStay
<1> QED
  BY <1>2, <1>3, <1>4

\* The end of a lookup, found or generated, preserves the invariant.
LEMMA FoundKeeps ==
    ASSUME FInv, NEW c \in FCallers, found(c) PROVE FInv'
<1>0. FTypes /\ fCall[c].op # "idle" /\ fChain' = fChain /\ fFiles' = fFiles
  BY DEF FInv, found
<1>1. ASSUME NEW v, NEW m, FAnswer(c, v, m, fPast) PROVE FInv'
  BY <1>0, <1>1, AnswerIs, StoresStay
<1>2. ASSUME fPast.values < MaxSecrets,
             fCall' = [fCall EXCEPT ![c].stage = "put", ![c].value = fPast.values + 1,
                                    ![c].then = "done"],
             fPast' = [fPast EXCEPT !.values = @ + 1]
      PROVE  FInv'
  <2> DEFINE r == [fCall[c] EXCEPT !.stage = "put", !.value = fPast.values + 1, !.then = "done"]
  <2>1. fCall' = [fCall EXCEPT ![c] = r]
    BY <1>2, Zenon
  <2>2. fCall[c] \in FCalls /\ fPast.values + 1 \in Nat
    BY <1>0, BusyCall DEF FTypes
  <2>3. r \in FCalls
    BY <2>2, Zenon DEF FCalls, FStages
  <2> HIDE DEF r
  <2>4. OnlyCall(c)
    BY <1>0, <2>1, <2>3, CallUpdate, Zenon
  <2>5. fPast' = [calls |-> fPast.calls, values |-> fPast.values + 1, locks |-> fPast.locks,
                  cleared |-> fPast.cleared, legacy |-> fPast.legacy, last |-> fPast.last]
    BY <1>0, <1>2 DEF FTypes
  <2>6. PastGoes
    BY <1>0, <2>5 DEF PastGoes, FTypes
  <2>7. ~OnlyMigrated'
    BY <1>0, <2>5 DEF OnlyMigrated, FTypes
  <2>8. FTypes'
    BY <1>0, <2>4, <2>6, TypesKept DEF FTypes, OnlyCall
  <2> QED
    BY <2>7, <2>8 DEF FInv, LegacyInv
<1> QED
  BY <1>1, <1>2, Zenon DEF found

\* A step after which the legacy value is no longer all there is.
LEMMA Overruled ==
    ASSUME FInv, PastGoes, NEW c \in FCallers, OnlyCall(c), ~OnlyMigrated',
           fChain' \in [value: Nat, locked: BOOLEAN], fFiles' \in [dpapi: Nat, plain: Nat]
    PROVE  FInv'
  BY TypesKept DEF FInv, LegacyInv, OnlyCall

\* Beginning a set or a delete preserves the invariant: it overrules the legacy
\* secret.
LEMMA SetAndDeleteKeep ==
    ASSUME FInv, NEW c \in FCallers, set_secret(c) \/ start_delete(c) PROVE FInv'
<1>0. /\ FTypes /\ fChain' = fChain /\ fFiles' = fFiles
      /\ fChain' \in [value: Nat, locked: BOOLEAN] /\ fFiles' \in [dpapi: Nat, plain: Nat]
  BY DEF FInv, FTypes, set_secret, start_delete
<1>1. CASE set_secret(c)
  <2>1. "set" \in FOps /\ "put" \in FStages /\ "none" \in FModes /\ fPast.values + 1 \in Nat
    BY <1>0 DEF FOps, FStages, FModes, FTypes
  <2>2. OnlyCall(c)
    BY <1>0, <1>1, <2>1, BeginIs DEF set_secret
  <2>3. fPast' = [calls |-> fPast.calls + 1, values |-> fPast.values + 1, locks |-> fPast.locks,
                  cleared |-> fPast.cleared, legacy |-> fPast.legacy, last |-> [op |-> "none"]]
    BY <1>0, <1>1, Zenon DEF set_secret, FTypes
  <2>4. PastGoes /\ ~OnlyMigrated'
    BY <1>0, <2>3 DEF PastGoes, OnlyMigrated, FTypes
  <2> QED
    BY <1>0, <2>2, <2>4, Overruled
<1>2. CASE start_delete(c)
  <2>1. "delete" \in FOps /\ "unset" \in FStages /\ "none" \in FModes
    BY DEF FOps, FStages, FModes
  <2>2. OnlyCall(c)
    BY <1>0, <1>2, <2>1, BeginIs DEF start_delete
  <2>3. fPast' = [calls |-> fPast.calls + 1, values |-> fPast.values, locks |-> fPast.locks,
                  cleared |-> TRUE, legacy |-> fPast.legacy, last |-> [op |-> "none"]]
    BY <1>0, <1>2, Zenon DEF start_delete, FTypes
  <2>4. PastGoes /\ ~OnlyMigrated'
    BY <1>0, <2>3 DEF PastGoes, OnlyMigrated, FTypes
  <2> QED
    BY <1>0, <2>2, <2>4, Overruled
<1> QED
  BY <1>1, <1>2

\* Writing to the keychain preserves the invariant.
LEMMA KeychainPutKeeps ==
    ASSUME FInv, NEW c \in FCallers, keychain_put(c) PROVE FInv'
<1>0. FTypes /\ fCall[c].op # "idle" /\ fCall[c].stage = "put" /\ fFiles' = fFiles
  BY DEF FInv, keychain_put
<1>1. fCall[c] \in FCalls /\ fCall[c].value \in Nat
  BY <1>0, BusyCall DEF FCalls
<1>2. ASSUME OnlyMigrated PROVE Migrating(fCall[c], fPast.legacy)
  BY <1>0, <1>2 DEF FInv, LegacyInv
<1>3. CASE fChain' = [fChain EXCEPT !.value = fCall[c].value] /\ FGoto(c, "check") /\ fPast' = fPast
  <2>1. PastGoes /\ "check" \in FStages
    BY <1>0, <1>3, PastStays DEF FStages
  <2>2. /\ OnlyCall(c) /\ fCall'[c].op = fCall[c].op /\ fCall'[c].stage = "check"
        /\ fCall'[c].value = fCall[c].value /\ fCall'[c].then = fCall[c].then
    BY <1>0, <1>3, <2>1, GotoIs
  <2>3. fChain' \in [value: Nat, locked: BOOLEAN] /\ fChain'.value = fCall[c].value
    BY <1>0, <1>1, <1>3 DEF FTypes
  <2>4. FTypes'
    BY <1>0, <2>1, <2>2, <2>3, TypesKept DEF FTypes, OnlyCall
  <2>5. ASSUME OnlyMigrated
        PROVE  /\ fFiles'.plain \in {0, fPast.legacy}
               /\ Protected(fPast.legacy)'
               /\ Migrating(fCall[c], fPast.legacy)'
    <3>1. fCall[c].value = fPast.legacy /\ fCall[c].then = "verify" /\ fCall[c].op # "delete"
      BY <1>0, <1>2, <2>5 DEF Migrating
    <3>2. Protected(fPast.legacy)'
      BY <1>3, <2>3, <3>1 DEF Protected
    <3>3. Migrating(fCall[c], fPast.legacy)'
      BY <1>3, <2>2, <3>1, <3>2 DEF Migrating
    <3>4. fFiles'.plain \in {0, fPast.legacy}
      BY <1>0, <2>5 DEF FInv, LegacyInv
    <3> QED
      BY <3>2, <3>3, <3>4
  <2>6. LegacyInv'
    BY <2>1, <2>2, <2>5, LegacyKept
  <2> QED
    BY <2>4, <2>6 DEF FInv
<1>4. CASE fChain' = fChain /\ FGoto(c, "fallback")
           /\ (fPast' = fPast \/ fPast' = [fPast EXCEPT !.locks = fPast.locks + 1])
  <2>1. PastGoes
    <3>1. CASE fPast' = fPast
      BY <1>0, <3>1, PastStays
    <3>2. CASE fPast' = [fPast EXCEPT !.locks = fPast.locks + 1]
      <4>1. fPast' = [calls |-> fPast.calls, values |-> fPast.values, locks |-> fPast.locks + 1,
                      cleared |-> fPast.cleared, legacy |-> fPast.legacy, last |-> fPast.last]
        BY <1>0, <3>2 DEF FTypes
      <4> QED
        BY <1>0, <4>1 DEF PastGoes, FTypes
    <3> QED
      BY <1>4, <3>1, <3>2
  <2>2. "fallback" \in FStages
    BY DEF FStages
  <2>3. /\ OnlyCall(c) /\ fCall'[c].op = fCall[c].op /\ fCall'[c].stage = "fallback"
        /\ fCall'[c].value = fCall[c].value /\ fCall'[c].then = fCall[c].then
    BY <1>0, <1>4, <2>2, GotoIs
  <2>4. ASSUME OnlyMigrated PROVE Migrating(fCall'[c], fPast.legacy)
    BY <1>0, <1>2, <2>3, <2>4 DEF Migrating
  <2> QED
    BY <1>0, <1>4, <2>1, <2>3, <2>4, StoresStay
<1> QED
  BY <1>3, <1>4 DEF keychain_put

\* What Written does, once the stores are settled: a migration is verified next.
LEMMA WrittenIs ==
    ASSUME FTypes, NEW c \in FCallers, fCall[c].op # "idle", NEW m \in FModes, Written(c, m, fPast)
    PROVE  /\ OnlyCall(c) /\ PastGoes
           /\ \/ fCall'[c].op = "idle"
              \/ /\ fCall[c].then = "verify" /\ fCall'[c].op = fCall[c].op
                 /\ fCall'[c].stage = "verify" /\ fCall'[c].value = fCall[c].value
                 /\ fCall'[c].then = "verify"
<1>1. CASE fCall[c].then = "verify"
  <2> DEFINE r == [fCall[c] EXCEPT !.stage = "verify", !.mode = m]
  <2>1. fCall' = [fCall EXCEPT ![c] = r] /\ fPast' = fPast
    BY <1>1, Zenon DEF Written
  <2>2. fCall[c] \in FCalls
    BY BusyCall
  <2>3. /\ r \in FCalls /\ r.op = fCall[c].op /\ r.stage = "verify" /\ r.value = fCall[c].value
        /\ r.then = fCall[c].then
    BY <2>2, Zenon DEF FCalls, FStages
  <2> HIDE DEF r
  <2> QED
    BY <1>1, <2>1, <2>3, CallUpdate, PastStays, Zenon
<1>2. CASE fCall[c].then # "verify"
  BY <1>2, AnswerIs DEF Written
<1> QED
  BY <1>1, <1>2

\* The read-back after a write to the keychain preserves the invariant.
LEMMA CheckKeeps ==
    ASSUME FInv, NEW c \in FCallers, keychain_check(c) PROVE FInv'
<1>0. FTypes /\ fCall[c].op # "idle" /\ fCall[c].stage = "check" /\ fChain' = fChain /\ fFiles' = fFiles
  BY DEF FInv, keychain_check
<1>1. ASSUME OnlyMigrated PROVE Migrating(fCall[c], fPast.legacy)
  BY <1>0, <1>1 DEF FInv, LegacyInv
<1>2. CASE Written(c, "keychain", fPast)
  <2>1. "keychain" \in FModes
    BY DEF FModes
  <2>2. /\ OnlyCall(c) /\ PastGoes
        /\ \/ fCall'[c].op = "idle"
           \/ /\ fCall[c].then = "verify" /\ fCall'[c].op = fCall[c].op
              /\ fCall'[c].stage = "verify" /\ fCall'[c].value = fCall[c].value
              /\ fCall'[c].then = "verify"
    BY <1>0, <1>2, <2>1, WrittenIs
  <2>3. ASSUME OnlyMigrated, fCall'[c].op # "idle" PROVE Migrating(fCall'[c], fPast.legacy)
    BY <1>0, <1>1, <2>2, <2>3 DEF Migrating
  <2> QED
    BY <1>0, <2>2, <2>3, StoresStay
<1>3. CASE FGoto(c, "fallback") /\ fPast' = fPast
  <2>1. "fallback" \in FStages /\ PastGoes
    BY <1>0, <1>3, PastStays DEF FStages
  <2>2. /\ OnlyCall(c) /\ fCall'[c].op = fCall[c].op /\ fCall'[c].stage = "fallback"
        /\ fCall'[c].value = fCall[c].value /\ fCall'[c].then = fCall[c].then
    BY <1>0, <1>3, <2>1, GotoIs
  <2>3. ASSUME OnlyMigrated PROVE Migrating(fCall'[c], fPast.legacy)
    BY <1>0, <1>1, <2>2, <2>3 DEF Migrating
  <2> QED
    BY <1>0, <2>1, <2>2, <2>3, StoresStay
<1> QED
  BY <1>2, <1>3 DEF keychain_check

\* Writing the fallback file preserves the invariant.
LEMMA FallbackKeeps ==
    ASSUME FInv, NEW c \in FCallers, write_fallback(c) PROVE FInv'
<1>0. FTypes /\ fCall[c].op # "idle" /\ fCall[c].stage = "fallback" /\ fChain' = fChain
  BY DEF FInv, write_fallback
<1>1. fCall[c] \in FCalls /\ fCall[c].value \in Nat
  BY <1>0, BusyCall DEF FCalls
<1>2. ASSUME OnlyMigrated
      PROVE  fCall[c].value = fPast.legacy /\ fCall[c].then = "verify" /\ fCall[c].op # "delete"
  BY <1>0, <1>2 DEF FInv, LegacyInv, Migrating
<1>3. CASE fHost.platform = "windows"
  <2>1. fFiles' = [fFiles EXCEPT !.dpapi = fCall[c].value] /\ Written(c, "dpapi_file", fPast)
    BY <1>3 DEF write_fallback
  <2>2. /\ fFiles' \in [dpapi: Nat, plain: Nat] /\ fFiles'.dpapi = fCall[c].value
        /\ fFiles'.plain = fFiles.plain
    BY <1>0, <1>1, <2>1 DEF FTypes
  <2>3. "dpapi_file" \in FModes
    BY DEF FModes
  <2>4. /\ OnlyCall(c) /\ PastGoes
        /\ \/ fCall'[c].op = "idle"
           \/ /\ fCall[c].then = "verify" /\ fCall'[c].op = fCall[c].op
              /\ fCall'[c].stage = "verify" /\ fCall'[c].value = fCall[c].value
              /\ fCall'[c].then = "verify"
    BY <1>0, <2>1, <2>3, WrittenIs
  <2>5. FTypes'
    BY <1>0, <2>2, <2>4, TypesKept DEF FTypes, OnlyCall
  <2>6. fPast'.legacy = fPast.legacy
    BY <2>4 DEF PastGoes
  <2>7. ASSUME OnlyMigrated
        PROVE  /\ fFiles'.plain \in {0, fPast.legacy}
               /\ Protected(fPast.legacy)'
               /\ fCall'[c].op # "idle" => Migrating(fCall[c], fPast.legacy)'
    <3>1. Protected(fPast.legacy)'
      BY <1>2, <2>2, <2>6, <2>7 DEF Protected
    <3>2. fCall'[c].op # "idle" => Migrating(fCall[c], fPast.legacy)'
      BY <1>2, <2>4, <2>6, <2>7, <3>1 DEF Migrating
    <3>3. fFiles'.plain \in {0, fPast.legacy}
      BY <2>2, <2>7 DEF FInv, LegacyInv
    <3> QED
      BY <3>1, <3>2, <3>3
  <2>8. LegacyInv'
    BY <2>4, <2>7, LegacyKept
  <2> QED
    BY <2>5, <2>8 DEF FInv
<1>4. CASE fHost.platform # "windows" /\ ~plaintext_opt_in_active
  <2>1. FAnswer(c, 0, "unavailable", fPast) /\ fFiles' = fFiles
    BY <1>4 DEF write_fallback
  <2> QED
    BY <1>0, <2>1, AnswerIs, StoresStay
<1>5. CASE fHost.platform # "windows" /\ plaintext_opt_in_active /\ fCall[c].then = "verify"
  <2> DEFINE r == [fCall[c] EXCEPT !.stage = "found", !.value = 0]
  <2>1. fCall' = [fCall EXCEPT ![c] = r] /\ fFiles' = fFiles /\ fPast' = fPast
    BY <1>5, Zenon DEF write_fallback
  <2>2. r \in FCalls /\ r.op = fCall[c].op /\ r.stage = "found"
    BY <1>1, Zenon DEF FCalls, FStages
  <2> HIDE DEF r
  <2>3. OnlyCall(c) /\ fCall'[c] = r /\ PastGoes
    BY <1>0, <2>1, <2>2, CallUpdate, PastStays, Zenon
  <2>4. ASSUME OnlyMigrated PROVE Migrating(fCall'[c], fPast.legacy)
    BY <1>2, <2>2, <2>3, <2>4 DEF Migrating
  <2> QED
    BY <1>0, <2>1, <2>3, <2>4, StoresStay
<1>6. CASE fHost.platform # "windows" /\ plaintext_opt_in_active /\ fCall[c].then # "verify"
  <2>1. /\ fFiles' = [fFiles EXCEPT !.plain = fCall[c].value]
        /\ FAnswer(c, fCall[c].value, "plaintext_file_opt_in", fPast)
    BY <1>6 DEF write_fallback
  <2>2. OnlyCall(c) /\ PastGoes
    BY <1>0, <2>1, AnswerIs
  <2>3. fFiles' \in [dpapi: Nat, plain: Nat]
    BY <1>0, <1>1, <2>1 DEF FTypes
  <2>4. ~OnlyMigrated'
    BY <1>0, <1>2, <1>6, <2>2 DEF OnlyMigrated, PastGoes, FTypes
  <2> QED
    BY <1>0, <2>2, <2>3, <2>4, Overruled DEF FTypes
<1> QED
  BY <1>3, <1>4, <1>5, <1>6

\* The read of a migrated secret before the unlink preserves the invariant.
LEMMA VerifyKeeps ==
    ASSUME FInv, NEW c \in FCallers, verify_migration(c) PROVE FInv'
<1>0. FTypes /\ fCall[c].op # "idle" /\ fCall[c].stage = "verify" /\ fChain' = fChain /\ fFiles' = fFiles
  BY DEF FInv, verify_migration
<1>1. CASE read_protected = [value |-> fCall[c].value, mode |-> fCall[c].mode]
  <2>1. FGoto(c, "unlink") /\ fPast' = fPast /\ read_protected.value = fCall[c].value
    BY <1>1 DEF verify_migration
  <2>2. "unlink" \in FStages /\ PastGoes
    BY <1>0, <2>1, PastStays DEF FStages
  <2>3. /\ OnlyCall(c) /\ fCall'[c].op = fCall[c].op /\ fCall'[c].stage = "unlink"
        /\ fCall'[c].value = fCall[c].value /\ fCall'[c].then = fCall[c].then
    BY <1>0, <2>1, <2>2, GotoIs
  <2>4. ASSUME OnlyMigrated PROVE Migrating(fCall'[c], fPast.legacy)
    <3>1. Migrating(fCall[c], fPast.legacy) /\ fPast.legacy # 0
      BY <1>0, <2>4 DEF FInv, LegacyInv, OnlyMigrated
    <3>2. fCall[c].value = fPast.legacy
      BY <1>0, <3>1 DEF Migrating
    <3>3. Protected(fPast.legacy)
      BY <1>0, <2>1, <3>1, <3>2, ReadIs
    <3> QED
      BY <1>0, <2>3, <3>1, <3>2, <3>3 DEF Migrating
  <2> QED
    BY <1>0, <2>2, <2>3, <2>4, StoresStay
<1>2. CASE read_protected # [value |-> fCall[c].value, mode |-> fCall[c].mode]
  <2>1. FAnswer(c, 0, "unverified", fPast)
    BY <1>2 DEF verify_migration
  <2> QED
    BY <1>0, <2>1, AnswerIs, StoresStay
<1> QED
  BY <1>1, <1>2

\* Unlinking the legacy file preserves the invariant: the secret is protected by
\* then.
LEMMA UnlinkKeeps ==
    ASSUME FInv, NEW c \in FCallers, unlink_legacy(c) PROVE FInv'
<1>0. FTypes /\ fCall[c].op # "idle" /\ fCall[c].stage = "unlink" /\ fChain' = fChain
  BY DEF FInv, unlink_legacy
<1>1. OnlyCall(c) /\ fCall'[c].op = "idle" /\ PastGoes
  BY <1>0, AnswerIs DEF unlink_legacy
<1>2. fFiles' \in [dpapi: Nat, plain: Nat] /\ fFiles'.dpapi = fFiles.dpapi /\ fFiles'.plain = 0
  BY <1>0 DEF unlink_legacy, FTypes
<1>3. FTypes'
  BY <1>0, <1>1, <1>2, TypesKept DEF FTypes, OnlyCall
<1>4. Protected(fPast.legacy)' = Protected(fPast.legacy)
  BY <1>0, <1>1, <1>2 DEF Protected, PastGoes
<1>5. ASSUME OnlyMigrated PROVE Protected(fPast.legacy)
  BY <1>0, <1>5 DEF FInv, LegacyInv, Migrating
<1>6. LegacyInv'
  BY <1>1, <1>2, <1>4, <1>5, LegacyKept
<1> QED
  BY <1>3, <1>6 DEF FInv

\* A deletion under way was begun, so that the secret counts as cleared.
LEMMA DeletesKeep ==
    ASSUME FInv, NEW c \in FCallers, delete_from_keychain(c) \/ delete_files(c) PROVE FInv'
<1>0. FTypes /\ fCall[c].op # "idle" /\ fCall[c].stage \in {"unset", "rmfiles"}
  BY DEF FInv, delete_from_keychain, delete_files
<1>1. ~OnlyMigrated
  BY <1>0 DEF FInv, LegacyInv, Migrating
<1>2. ASSUME PastGoes PROVE ~OnlyMigrated'
  BY <1>0, <1>1, <1>2 DEF OnlyMigrated, PastGoes, FTypes
<1>3. CASE delete_from_keychain(c)
  <2> DEFINE r == [fCall[c] EXCEPT !.stage = "rmfiles", !.sighted = ~fChain.locked]
  <2>1. fCall' = [fCall EXCEPT ![c] = r] /\ fFiles' = fFiles /\ fPast' = fPast
    BY <1>3, Zenon DEF delete_from_keychain
  <2>2. fCall[c] \in FCalls /\ (~fChain.locked) \in BOOLEAN
    BY <1>0, BusyCall
  <2>3. r \in FCalls
    BY <2>2, Zenon DEF FCalls, FStages
  <2> HIDE DEF r
  <2>4. OnlyCall(c) /\ PastGoes
    BY <1>0, <2>1, <2>3, CallUpdate, PastStays, Zenon
  <2>5. fChain' \in [value: Nat, locked: BOOLEAN]
    BY <1>0, <1>3 DEF delete_from_keychain, FTypes
  <2>6. fFiles' \in [dpapi: Nat, plain: Nat]
    BY <1>0, <2>1 DEF FTypes
  <2> QED
    BY <1>2, <2>4, <2>5, <2>6, Overruled
<1>4. CASE delete_files(c)
  <2>1. OnlyCall(c) /\ PastGoes
    BY <1>0, <1>4, AnswerIs DEF delete_files
  <2>2. fFiles' \in [dpapi: Nat, plain: Nat] /\ fChain' \in [value: Nat, locked: BOOLEAN]
    BY <1>0, <1>4 DEF delete_files, FTypes
  <2> QED
    BY <1>2, <2>1, <2>2, Overruled
<1> QED
  BY <1>3, <1>4

\* A caller that dies between two steps preserves the invariant.
LEMMA DeathKeeps ==
    ASSUME FInv, NEW c \in FCallers, CallerDies(c) PROVE FInv'
<1>0. FTypes /\ fChain' = fChain /\ fFiles' = fFiles
  BY DEF FInv, CallerDies
<1>1. OnlyCall(c) /\ fCall'[c] = FIdle
  BY <1>0, CallUpdate, Zenon DEF CallerDies
<1>2. fPast' = [calls |-> fPast.calls, values |-> fPast.values, locks |-> fPast.locks + 1,
                cleared |-> fPast.cleared, legacy |-> fPast.legacy, last |-> [op |-> "none"]]
  BY <1>0, Zenon DEF CallerDies, FTypes
<1>3. PastGoes
  BY <1>0, <1>2 DEF PastGoes, FTypes
<1>4. fCall'[c].op = "idle"
  BY <1>1 DEF FIdle
<1> QED
  BY <1>0, <1>1, <1>3, <1>4, StoresStay

\* A keychain that is locked or unlocked preserves the invariant.
LEMMA LockKeeps ==
    ASSUME FInv, LockTurns PROVE FInv'
<1>0. FTypes /\ fFiles' = fFiles
  BY DEF FInv, LockTurns
<1>1. fPast' = [calls |-> fPast.calls, values |-> fPast.values, locks |-> fPast.locks + 1,
                cleared |-> fPast.cleared, legacy |-> fPast.legacy, last |-> fPast.last]
  BY <1>0 DEF LockTurns, FTypes
<1>2. PastGoes
  BY <1>0, <1>1 DEF PastGoes, FTypes
<1>3. ASSUME NEW d \in FCallers PROVE fCall'[d] \in FCalls \cup {FIdle} /\ SameCall(d)
  <2>1. CASE fCall[d].op = "idle"
    <3>1. fCall'[d] = FIdle
      BY <2>1 DEF LockTurns
    <3> QED
      BY <2>1, <3>1 DEF SameCall, FIdle
  <2>2. CASE fCall[d].op # "idle"
    <3>1. fCall'[d] = [fCall[d] EXCEPT !.quiet = FALSE]
      BY <2>2 DEF LockTurns
    <3>2. fCall[d] \in FCalls
      BY <1>0, <2>2, BusyCall
    <3> QED
      BY <3>1, <3>2, Zenon DEF SameCall, FCalls
  <2> QED
    BY <2>1, <2>2
<1>4. fCall' \in [FCallers -> FCalls \cup {FIdle}]
  <2>1. fCall' = [d \in FCallers |-> fCall'[d]]
    BY DEF LockTurns
  <2> QED
    BY <1>3, <2>1
<1>5. fChain.locked \in BOOLEAN
  BY <1>0, Zenon DEF FTypes
<1>6. (~fChain.locked) \in BOOLEAN
  OBVIOUS
<1>7. fChain' \in [value: Nat, locked: BOOLEAN] /\ fChain'.value = fChain.value
  BY <1>0, <1>6, Zenon DEF LockTurns, FTypes
<1>8. FTypes'
  BY <1>0, <1>2, <1>4, <1>7, TypesKept DEF FTypes
<1>9. LegacyInv'
  <2> SUFFICES ASSUME OnlyMigrated'
               PROVE  /\ fFiles'.plain \in {0, fPast'.legacy}
                      /\ Protected(fPast.legacy)' \/ fFiles'.plain = fPast'.legacy
                      /\ \A d \in FCallers : fCall'[d].op # "idle" => Migrating(fCall[d], fPast.legacy)'
    BY DEF LegacyInv
  <2>1. OnlyMigrated /\ fPast'.legacy = fPast.legacy
    BY <1>1 DEF OnlyMigrated
  <2>2. Protected(fPast.legacy)' = Protected(fPast.legacy)
    BY <1>0, <1>7, <2>1 DEF Protected
  <2>3. ASSUME NEW d \in FCallers, fCall'[d].op # "idle" PROVE Migrating(fCall[d], fPast.legacy)'
    <3>1. SameCall(d) /\ fCall[d].op # "idle"
      BY <1>3, <2>3 DEF SameCall
    <3>2. Migrating(fCall[d], fPast.legacy)
      BY <2>1, <3>1 DEF FInv, LegacyInv
    <3> QED
      BY <2>1, <2>2, <3>1, <3>2 DEF SameCall, Migrating
  <2> QED
    BY <1>0, <2>1, <2>2, <2>3 DEF FInv, LegacyInv
<1> QED
  BY <1>8, <1>9 DEF FInv

\* The inductive invariant of the store of secrets.
THEOREM SecretsInvariant == FSpec => []FInv
<1>1. FInit => FInv
  <2> SUFFICES ASSUME FInit PROVE FInv
    OBVIOUS
  <2>1. PICK l \in {0, 1}, s \in {0, 2} :
          /\ fChain = [value |-> s, locked |-> FALSE] /\ fFiles = [dpapi |-> 0, plain |-> l]
    BY Zenon DEF FInit
  <2>2. /\ fPast = [calls |-> 0, values |-> 2, locks |-> 0, cleared |-> FALSE, legacy |-> fFiles.plain,
                    last |-> [op |-> "none"]]
        /\ \A c \in FCallers : fCall[c] = FIdle
        /\ fCall \in [FCallers -> FCalls \cup {FIdle}]
    BY DEF FInit
  <2>a. fChain \in [value: Nat, locked: BOOLEAN] /\ fFiles \in [dpapi: Nat, plain: Nat]
    BY <2>1
  <2>b. /\ fPast.calls = 0 /\ fPast.values = 2 /\ fPast.locks = 0 /\ fPast.cleared = FALSE
        /\ fPast.legacy = fFiles.plain /\ fPast.last = [op |-> "none"]
    BY <2>2
  <2>c. fPast = [calls |-> fPast.calls, values |-> fPast.values, locks |-> fPast.locks,
                 cleared |-> fPast.cleared, legacy |-> fPast.legacy, last |-> fPast.last]
    BY <2>2, <2>b, Zenon
  <2>d. fPast.values = 2 /\ fPast.cleared = FALSE
    BY <2>b, Zenon
  <2>e. fPast.values \in Nat /\ fPast.values >= 2
    BY <2>d, SMT
  <2>f. fPast.cleared \in BOOLEAN
    BY <2>d, Zenon
  <2>g. fCall \in [FCallers -> FCalls \cup {FIdle}]
    BY <2>2, Zenon
  <2>3. FTypes
    BY <2>a, <2>c, <2>e, <2>f, <2>g, Zenon DEF FTypes
  <2>4. LegacyInv
    BY <2>1, <2>2 DEF LegacyInv, FIdle
  <2> QED
    BY <2>3, <2>4 DEF FInv
<1>2. FInv /\ [FNext]_fVars => FInv'
  <2> SUFFICES ASSUME FInv, [FNext]_fVars PROVE FInv'
    OBVIOUS
  <2>1. CASE UNCHANGED fVars
    BY <2>1 DEF fVars, FInv, FTypes, LegacyInv, OnlyMigrated, Protected, Migrating
  <2>2. ASSUME NEW c \in FCallers,
               \/ start_read(c) \/ from_environment(c) \/ migrate_legacy(c) \/ found(c)
               \/ set_secret(c) \/ keychain_put(c) \/ keychain_check(c) \/ write_fallback(c)
               \/ verify_migration(c) \/ unlink_legacy(c)
               \/ start_delete(c) \/ delete_from_keychain(c) \/ delete_files(c) \/ CallerDies(c)
        PROVE  FInv'
    BY <2>2, ReadsKeep, MigrateKeeps, FoundKeeps, SetAndDeleteKeep, KeychainPutKeeps, CheckKeeps,
       FallbackKeeps, VerifyKeeps, UnlinkKeeps, DeletesKeep, DeathKeeps
  <2>3. CASE LockTurns
    BY <2>3, LockKeeps
  <2> QED
    BY <2>1, <2>2, <2>3 DEF FNext
<1> QED
  BY <1>1, <1>2, PTL DEF FSpec

\* The secret of an earlier build that _migrate_legacy moves is never lost, for
\* any number of callers, crashes and lockings of the keychain.
THEOREM LegacySecretsAreKept == FSpec => []LegacySecretsSurvive
<1>1. FInv => LegacySecretsSurvive
  BY DEF FInv, LegacyInv, OnlyMigrated, Protected, LegacySecretsSurvive
<1> QED
  BY <1>1, SecretsInvariant, PTL

-----------------------------------------------------------------------------
(* Execution.  Which processes a call has follows from where it is; what    *)
(* must hold of the tier and of the decision is carried along.              *)

CTiers == {"none", "windows-appcontainer", "kernel-seatbelt", "kernel-bwrap", "hardened-docker",
           "unavailable", "docker-exec", "local-direct", "windows-job"}
CStages == {"done", "gate", "launch", "suspended", "job", "running", "popen", "reading", "waiting"}
CRuns == [op: {"none", "check", "codex", "cli", "absent", "present", "match"}, stage: CStages,
          expect: CExpected \cup {0}, allowed: BOOLEAN, require: BOOLEAN, tier: CTiers,
          alive: SUBSET CRoles, inJob: BOOLEAN, code: Nat, late: BOOLEAN, ran: BOOLEAN,
          ended: BOOLEAN, temp: BOOLEAN, error: BOOLEAN, status: CStatuses]

\* The tiers that tie the processes of a command to its launcher.
Tied == {"kernel-bwrap", "windows-appcontainer"}

\* Where the call of a command is decides which processes it has.
CommandInv ==
    cRun.op = "check" =>
        /\ cRun.stage \in {"done", "gate", "launch", "suspended", "running"}
        /\ cRun.require /\ cRun.tier # "windows-job"
        /\ cRun.stage = "gate" => cRun.alive = {} /\ ~cRun.ran
        /\ cRun.stage = "launch" => cRun.alive = {"launcher"}
        /\ cRun.stage = "suspended" =>
             cRun.alive = {"launcher", "suspended"} /\ cRun.tier = "windows-appcontainer"
        /\ cRun.stage = "running" =>
             /\ cRun.alive \subseteq {"launcher", "command", "piped", "detached"}
             /\ "command" \notin cRun.alive => cRun.ended /\ (cRun.tier \in Tied => cRun.alive = {})
             /\ cRun.tier = "windows-appcontainer" => cRun.inJob
        /\ cRun.stage \in {"launch", "suspended", "running"} \/ cRun.ran =>
             cRun.tier # "unavailable" /\ (cHost.permissive \/ tool_jail(cHost))
        /\ cRun.stage = "done" /\ cRun.tier \in Tied => cRun.alive \subseteq {"suspended"}
        /\ cRun.stage # "done" => cRun.status = "none"
        /\ cRun.status = "pass" /\ cRun.expect = 0 => cRun.ended

CodexInv ==
    cRun.op = "codex" =>
        /\ cRun.stage \in {"done", "gate", "popen", "reading", "waiting"}
        /\ cRun.stage = "gate" => cRun.alive = {} /\ ~cRun.temp
        /\ cRun.stage = "popen" => cRun.alive = {}
        /\ cRun.stage = "done" => CodexLeavesNothing

CInv == cRun \in CRuns /\ CommandInv /\ CodexInv

\* What EndCommand changes, and when a check passes.
LEMMA EndIs ==
    ASSUME NEW c \in CRuns, NEW code \in Nat, NEW late \in BOOLEAN, NEW refused \in BOOLEAN
    PROVE  LET r == EndCommand(c, code, late, refused)
           IN  /\ r \in CRuns /\ r.stage = "done"
               /\ r.op = c.op /\ r.alive = c.alive /\ r.tier = c.tier /\ r.require = c.require
               /\ r.ran = c.ran /\ r.ended = c.ended /\ r.expect = c.expect
               /\ r.status = "pass" => ~refused /\ code = c.expect /\ ~late
<1> DEFINE st == IF c.op = "check" THEN run_command_check(c, code, late, refused) ELSE "ended"
<1>1. st \in CStatuses /\ (st = "pass" => ~refused /\ code = c.expect /\ ~late)
  BY DEF run_command_check, CStatuses
<1>2. EndCommand(c, code, late, refused) =
        [c EXCEPT !.stage = "done", !.code = code, !.late = late, !.status = st]
  BY DEF EndCommand
<1> HIDE DEF st
<1>3. [c EXCEPT !.stage = "done", !.code = code, !.late = late, !.status = st] \in CRuns
  BY <1>1, Zenon DEF CRuns, CStages
<1> QED
  BY <1>1, <1>2, <1>3 DEF CRuns

\* A call of a command, or of the launcher, ends.
LEMMA CommandEnds ==
    ASSUME CInv, NEW c \in CRuns, NEW code \in Nat, NEW late \in BOOLEAN, NEW refused \in BOOLEAN,
           c.op = cRun.op, c.op # "codex", c.tier = cRun.tier, c.require = cRun.require,
           c.ran = cRun.ran, c.ended = cRun.ended, c.expect = cRun.expect,
           cRun.op = "check" /\ cRun.tier \in Tied => c.alive \subseteq {"suspended"},
           cRun.op = "check" /\ ~refused /\ ~late /\ code = 0 => cRun.ended,
           CEnd(EndCommand(c, code, late, refused))
    PROVE  CInv'
<1> DEFINE r == EndCommand(c, code, late, refused)
<1>1. /\ r \in CRuns /\ r.stage = "done"
      /\ r.op = c.op /\ r.alive = c.alive /\ r.tier = c.tier /\ r.require = c.require
      /\ r.ran = c.ran /\ r.ended = c.ended /\ r.expect = c.expect
      /\ r.status = "pass" => ~refused /\ code = c.expect /\ ~late
  BY EndIs
<1>2. cRun' = r /\ cHost' = cHost
  BY DEF CEnd
<1> HIDE DEF r
<1>3. CommandInv'
  BY <1>1, <1>2 DEF CInv, CommandInv, tool_jail, jail_facts, default_executor,
                    select_confining_strategy
<1>4. CodexInv'
  BY <1>1, <1>2 DEF CodexInv
<1> QED
  BY <1>1, <1>2, <1>3, <1>4 DEF CInv

\* A call that is begun: CIdle with an operation, where it starts and what it needs.
LEMMA IdleIs == CIdle \in CRuns /\ CIdle.alive = {} /\ CIdle.status = "none" /\ CIdle.ran = FALSE
                /\ CIdle.temp = FALSE /\ CIdle.op = "none" /\ CIdle.error = FALSE
  BY DEF CIdle, CRuns, CStages, CTiers, CStatuses

\* default_executor answers a tier, and never the fallback of the launcher.
LEMMA TierIs == default_executor(cHost) \in CTiers /\ default_executor(cHost) # "windows-job"
  BY DEF default_executor, select_confining_strategy, CTiers

\* Beginning a call, and a file check, preserve the invariant.
LEMMA AsksKeep ==
    ASSUME CInv, AskCommand \/ AskCodex \/ AskLauncher \/ check_file PROVE CInv'
<1>1. CASE AskCommand
  <2>1. PICK e \in CExpected :
          /\ cRun' = [CIdle EXCEPT !.op = "check", !.stage = "gate", !.expect = e,
                                   !.require = TRUE, !.tier = default_executor(cHost)]
          /\ cHost' = cHost
    BY <1>1 DEF AskCommand, CStart
  <2> DEFINE t == default_executor(cHost)
  <2>2. t \in CTiers /\ t # "windows-job"
    BY TierIs
  <2> HIDE DEF t
  <2>a. cRun' = [op |-> "check", stage |-> "gate", expect |-> e, allowed |-> FALSE, require |-> TRUE,
                 tier |-> t, alive |-> {}, inJob |-> FALSE, code |-> 0, late |-> FALSE, ran |-> FALSE,
                 ended |-> FALSE, temp |-> FALSE, error |-> FALSE, status |-> "none"]
    BY <2>1, Zenon DEF CIdle, t
  <2>3. cRun' \in CRuns
    BY <2>a, <2>2 DEF CRuns, CStages, CStatuses
  <2>4. /\ cRun'.op = "check" /\ cRun'.stage = "gate" /\ cRun'.require = TRUE /\ cRun'.tier = t
        /\ cRun'.alive = {} /\ cRun'.ran = FALSE /\ cRun'.status = "none"
    BY <2>a
  <2>5. CommandInv' /\ CodexInv'
    BY <2>2, <2>4 DEF CommandInv, CodexInv
  <2> QED
    BY <2>3, <2>5 DEF CInv
<1>2. CASE AskCodex
  <2>1. cRun' = [CIdle EXCEPT !.op = "codex", !.stage = "gate"]
    BY <1>2 DEF AskCodex, CStart
  <2>2. cRun' \in CRuns /\ cRun'.op = "codex" /\ cRun'.stage = "gate" /\ cRun'.alive = {} /\ cRun'.temp = FALSE
    BY <2>1, IdleIs, Zenon DEF CRuns, CStages
  <2> QED
    BY <2>2 DEF CInv, CommandInv, CodexInv
<1>3. CASE AskLauncher
  <2>1. cRun' = [CIdle EXCEPT !.op = "cli", !.stage = "launch", !.allowed = TRUE,
                              !.tier = "windows-appcontainer", !.alive = {"launcher"}]
    BY <1>3 DEF AskLauncher, CStart
  <2>2. cRun' \in CRuns /\ cRun'.op = "cli"
    BY <2>1, IdleIs, Zenon DEF CRuns, CStages, CTiers, CRoles
  <2> QED
    BY <2>2 DEF CInv, CommandInv, CodexInv
<1>4. CASE check_file
  <2>1. PICK w \in {"absent", "present", "match"}, s \in CStatuses :
          cRun' = [CIdle EXCEPT !.op = w, !.status = s]
    <3>1. \A w, content : run_file_check(w, content) \in CStatuses
      BY DEF run_file_check, CStatuses
    <3>2. "blocked" \in CStatuses
      BY DEF CStatuses
    <3> QED
      BY <1>4, <3>1, <3>2 DEF check_file
  <2>2. cRun' \in CRuns /\ cRun'.op = w
    BY <2>1, IdleIs, Zenon DEF CRuns
  <2> QED
    BY <2>2 DEF CInv, CommandInv, CodexInv
<1> QED
  BY <1>1, <1>2, <1>3, <1>4

\* A step that leaves the call alone.
LEMMA RunStays ==
    ASSUME CInv, cRun' = cRun, cHost' = cHost PROVE CInv'
  BY DEF CInv, CommandInv, CodexInv, CodexLeavesNothing, tool_jail, jail_facts, default_executor,
         select_confining_strategy

\* The gate lets a command through only where a tier and the policies allow it.
LEMMA GateKeeps ==
    ASSUME CInv, gate_command PROVE CInv'
<1>0. /\ cRun \in CRuns /\ cRun.stage = "gate" /\ cRun.op = "check" /\ cRun.alive = {}
      /\ cRun.require /\ cRun.tier # "windows-job" /\ ~cRun.ran /\ cRun.status = "none"
  BY DEF gate_command, CInv, CommandInv
<1>1. PICK allow \in Decisions(cHost) :
        \/ CEnd(EndCommand(cRun, 126, FALSE, TRUE))
        \/ CEnd(EndCommand(cRun, 127, FALSE, FALSE))
        \/ CEnd(EndCommand(cRun, 0, FALSE, TRUE))
        \/ /\ allow /\ cRun.tier # "unavailable"
           /\ CTo([cRun EXCEPT !.allowed = TRUE, !.stage = "launch", !.alive = {"launcher"}])
  BY Zenon DEF gate_command
<1>2. CASE CEnd(EndCommand(cRun, 126, FALSE, TRUE))
  BY <1>0, <1>2, CommandEnds, Zenon
<1>3. CASE CEnd(EndCommand(cRun, 127, FALSE, FALSE))
  <2>1. /\ cRun.op # "codex" /\ 127 \in Nat /\ 127 # 0
        /\ cRun.alive \subseteq {"suspended"} /\ FALSE \in BOOLEAN
    BY <1>0
  <2> QED
    BY <1>0, <1>3, <2>1, CommandEnds, Zenon
<1>4. CASE CEnd(EndCommand(cRun, 0, FALSE, TRUE))
  BY <1>0, <1>4, CommandEnds, Zenon
<1>5. CASE /\ allow /\ cRun.tier # "unavailable"
           /\ CTo([cRun EXCEPT !.allowed = TRUE, !.stage = "launch", !.alive = {"launcher"}])
  <2>1. cHost.permissive \/ tool_jail(cHost)
    BY <1>1, <1>5, Zenon DEF Decisions
  <2>2. /\ cRun' = [cRun EXCEPT !.allowed = TRUE, !.stage = "launch", !.alive = {"launcher"}]
        /\ cHost' = cHost
    BY <1>5 DEF CTo
  <2>3. /\ cRun' \in CRuns
        /\ cRun'.stage = "launch" /\ cRun'.alive = {"launcher"} /\ cRun'.op = "check"
        /\ cRun'.require = cRun.require /\ cRun'.tier = cRun.tier /\ cRun'.ran = cRun.ran
        /\ cRun'.status = "none"
    BY <1>0, <2>2, Zenon DEF CRuns, CStages, CRoles
  <2>4. (cHost.permissive \/ tool_jail(cHost))'
    BY <2>1, <2>2 DEF tool_jail, jail_facts, default_executor, select_confining_strategy
  <2>5. CommandInv' /\ CodexInv'
    BY <1>0, <1>5, <2>3, <2>4 DEF CommandInv, CodexInv
  <2> QED
    BY <2>3, <2>5 DEF CInv
<1> QED
  BY <1>1, <1>2, <1>3, <1>4, <1>5, Zenon

\* A step of a call under way, given what it changes: the invariant of a command.
LEMMA CommandMoves ==
    ASSUME CInv, NEW c \in CRuns, CTo(c), c.op = cRun.op, c.op # "codex",
           c.op = "check" =>
             /\ c.stage \in {"suspended", "running"}
             /\ cRun.stage \in {"launch", "suspended", "running"}
             /\ c.require = cRun.require /\ c.tier = cRun.tier /\ c.status = cRun.status
             /\ c.stage = "suspended" =>
                  c.alive = {"launcher", "suspended"} /\ c.tier = "windows-appcontainer"
             /\ c.stage = "running" =>
                  /\ c.alive \subseteq {"launcher", "command", "piped", "detached"}
                  /\ "command" \notin c.alive => c.ended /\ (c.tier \in Tied => c.alive = {})
                  /\ c.tier = "windows-appcontainer" => c.inJob
    PROVE  CInv'
<1>1. cRun' = c /\ cHost' = cHost
  BY DEF CTo
<1>2. CommandInv'
  <2> SUFFICES ASSUME c.op = "check" PROVE CommandInv'
    BY <1>1 DEF CommandInv
  <2>1. /\ cRun.require /\ cRun.tier # "windows-job" /\ cRun.tier # "unavailable"
        /\ cHost.permissive \/ tool_jail(cHost)
        /\ cRun.status = "none"
    BY DEF CInv, CommandInv
  <2>2. (cHost.permissive \/ tool_jail(cHost))'
    BY <1>1, <2>1 DEF tool_jail, jail_facts, default_executor, select_confining_strategy
  <2> QED
    BY <1>1, <2>1, <2>2, Zenon DEF CommandInv
<1>3. CodexInv'
  BY <1>1 DEF CodexInv
<1> QED
  BY <1>1, <1>2, <1>3 DEF CInv

\* A call that is launched or runs is no Codex call, and one on the launcher's
\* fallback path is no check.
LEMMA LaunchedIs ==
    ASSUME CInv
    PROVE  /\ cRun \in CRuns
           /\ cRun.stage \in {"launch", "suspended", "job", "running"} => cRun.op # "codex"
           /\ cRun.op = "check" => cRun.stage # "job" /\ cRun.require
  BY DEF CInv, CommandInv, CodexInv

\* Starting the command, directly or through the launcher, preserves the
\* invariant.
LEMMA LaunchesKeep ==
    ASSUME CInv, build_command \/ create_suspended \/ assign_and_resume PROVE CInv'
<1>0. /\ cRun \in CRuns
      /\ cRun.stage \in {"launch", "suspended", "job", "running"} => cRun.op # "codex"
  BY LaunchedIs
<1>1. CASE build_command
  <2> DEFINE al == IF cRun.tier \in {"local-direct", "kernel-seatbelt"}
                   THEN {"command"} ELSE {"launcher", "command"}
             c == [cRun EXCEPT !.stage = "running", !.ran = TRUE, !.alive = al]
  <2>1. CTo(c) /\ cRun.stage = "launch" /\ cRun.tier # "windows-appcontainer"
    BY <1>1 DEF build_command, Launched
  <2>2. al \subseteq {"launcher", "command"} /\ "command" \in al
    OBVIOUS
  <2> HIDE DEF al
  <2>3. /\ c \in CRuns /\ c.op = cRun.op /\ c.stage = "running" /\ c.alive = al
        /\ c.require = cRun.require /\ c.tier = cRun.tier /\ c.status = cRun.status
    BY <1>0, <2>2, Zenon DEF CRuns, CStages, CRoles
  <2> HIDE DEF c
  <2> QED
    BY <1>0, <2>1, <2>2, <2>3, CommandMoves, Zenon
<1>2. CASE create_suspended
  <2> DEFINE c == [cRun EXCEPT !.stage = "suspended", !.alive = {"launcher", "suspended"}]
  <2>1. CTo(c) /\ cRun.stage = "launch" /\ cRun.tier = "windows-appcontainer"
    BY <1>2 DEF create_suspended, OnLauncher
  <2>3. /\ c \in CRuns /\ c.op = cRun.op /\ c.stage = "suspended" /\ c.alive = {"launcher", "suspended"}
        /\ c.require = cRun.require /\ c.tier = cRun.tier /\ c.status = cRun.status
    BY <1>0, Zenon DEF CRuns, CStages, CRoles
  <2> HIDE DEF c
  <2> QED
    BY <1>0, <2>1, <2>3, CommandMoves
<1>3. CASE assign_and_resume
  <2> DEFINE c == [cRun EXCEPT !.stage = "running", !.inJob = TRUE, !.ran = TRUE,
                               !.alive = {"launcher", "command"}]
  <2>1. CTo(c) /\ cRun.stage = "suspended" /\ cRun.tier = "windows-appcontainer"
    BY <1>3 DEF assign_and_resume, OnLauncher
  <2>3. /\ c \in CRuns /\ c.op = cRun.op /\ c.stage = "running" /\ c.alive = {"launcher", "command"}
        /\ c.require = cRun.require /\ c.tier = cRun.tier /\ c.status = cRun.status /\ c.inJob
    BY <1>0, Zenon DEF CRuns, CStages, CRoles
  <2> HIDE DEF c
  <2> QED
    BY <1>0, <2>1, <2>3, CommandMoves
<1> QED
  BY <1>1, <1>2, <1>3

\* A call with other processes is a call.
LEMMA AliveIs ==
    ASSUME NEW c \in CRuns, NEW al \in SUBSET CRoles
    PROVE  LET d == [c EXCEPT !.alive = al]
           IN  /\ d \in CRuns /\ d.alive = al
               /\ d.op = c.op /\ d.stage = c.stage /\ d.tier = c.tier /\ d.require = c.require
               /\ d.ran = c.ran /\ d.ended = c.ended /\ d.expect = c.expect
               /\ d.inJob = c.inJob /\ d.status = c.status /\ d.code = c.code
  BY DEF CRuns

\* The call ends with the processes al that its end leaves.
LEMMA EndsWith ==
    ASSUME CInv, NEW al \in SUBSET CRoles, NEW code \in Nat, NEW late \in BOOLEAN,
           NEW refused \in BOOLEAN,
           cRun.stage \in {"launch", "suspended", "job", "running"},
           cRun.op = "check" /\ cRun.tier \in Tied => al \subseteq {"suspended"},
           cRun.op = "check" /\ ~refused /\ ~late /\ code = 0 => cRun.ended,
           CEnd(EndCommand([cRun EXCEPT !.alive = al], code, late, refused))
    PROVE  CInv'
<1> DEFINE d == [cRun EXCEPT !.alive = al]
<1>1. /\ d \in CRuns /\ d.alive = al
      /\ d.op = cRun.op /\ d.tier = cRun.tier /\ d.require = cRun.require
      /\ d.ran = cRun.ran /\ d.ended = cRun.ended /\ d.expect = cRun.expect
  BY LaunchedIs, AliveIs
<1>2. d.op # "codex"
  BY <1>1, LaunchedIs
<1>3. CEnd(EndCommand(d, code, late, refused))
  OBVIOUS
<1> HIDE DEF d
<1> QED
  BY <1>1, <1>2, <1>3, CommandEnds

\* Every failure before the command runs preserves the invariant: a required
\* tier has no fallback.
LEMMA LaunchFailuresKeep ==
    ASSUME CInv, appcontainer_fails \/ run_with_job_object \/ launcher_fails \/ launcher_missing
    PROVE  CInv'
<1>0. /\ cRun \in CRuns
      /\ cRun.stage \in {"launch", "suspended", "job", "running"} => cRun.op # "codex"
      /\ cRun.op = "check" => cRun.stage # "job" /\ cRun.require
  BY LaunchedIs
<1>a. {} \in SUBSET CRoles /\ {"launcher"} \in SUBSET CRoles /\ 1 \in Nat /\ 1 # 0
      /\ 125 \in Nat /\ 125 # 0 /\ 0 \in Nat
  BY DEF CRoles
<1>1. CASE appcontainer_fails
  <2> DEFINE c == [cRun EXCEPT !.alive = {"launcher"}]
             d == [c EXCEPT !.stage = "job"]
             e == [cRun EXCEPT !.alive = {}]
  <2>1. cRun.stage \in {"launch", "suspended"}
    BY <1>1 DEF appcontainer_fails, OnLauncher
  <2>2. CASE run_confined(c, cHost).fallback /\ CTo(d)
    <3>1. c \in CRuns /\ c.op = cRun.op /\ c.require = cRun.require
      BY <1>0, <1>a, AliveIs
    <3>2. ~c.require
      BY <2>2, <3>1 DEF run_confined, CRuns
    <3> HIDE DEF c
    <3>3. d \in CRuns /\ d.op = c.op
      BY <3>1 DEF CRuns, CStages
    <3> HIDE DEF d
    <3> QED
      BY <1>0, <2>1, <2>2, <3>1, <3>2, <3>3, CommandMoves
  <2>3. CASE CEnd(LauncherRaises(c))
    <3>1. [c EXCEPT !.alive = @ \ {"launcher"}] = e
      BY <1>0, <1>a, Zenon DEF CRuns
    <3>2. CEnd(EndCommand(e, 1, FALSE, FALSE))
      BY <2>3, <3>1, ZenonT(60) DEF LauncherRaises
    <3> QED
      BY <1>a, <2>1, <3>2, EndsWith, Zenon
  <2> QED
    BY <1>1, <2>2, <2>3 DEF appcontainer_fails
<1>2. CASE run_with_job_object
  <2>1. cRun.stage \in {"launch", "job"} /\ cRun.op # "check" /\ cRun.op # "codex"
    BY <1>0, <1>2 DEF run_with_job_object, OnLauncher, run_confined
  <2>2. CASE CEnd(LauncherRaises(cRun))
    <3> DEFINE al == cRun.alive \ {"launcher"}
    <3>1. al \in SUBSET CRoles
      BY <1>0 DEF CRuns
    <3>2. CEnd(EndCommand([cRun EXCEPT !.alive = al], 1, FALSE, FALSE))
      BY <2>2, Zenon DEF LauncherRaises
    <3> HIDE DEF al
    <3> QED
      BY <1>a, <2>1, <3>1, <3>2, EndsWith, Zenon
  <2>3. ASSUME NEW assigned \in BOOLEAN,
               CTo([cRun EXCEPT !.stage = "running", !.inJob = assigned, !.ran = TRUE,
                                !.tier = "windows-job", !.alive = {"launcher", "command"}])
        PROVE  CInv'
    <3> DEFINE d == [cRun EXCEPT !.stage = "running", !.inJob = assigned, !.ran = TRUE,
                                 !.tier = "windows-job", !.alive = {"launcher", "command"}]
    <3>1. d \in CRuns /\ d.op = cRun.op
      BY <1>0, ZenonT(60) DEF CRuns, CStages, CTiers, CRoles
    <3>2. CTo(d)
      BY <2>3
    <3> HIDE DEF d
    <3> QED
      BY <2>1, <3>1, <3>2, CommandMoves
  <2> QED
    BY <1>2, <2>2, <2>3 DEF run_with_job_object
<1>3. CASE launcher_fails
  <2>1. PICK code \in {1, 125} : CEnd(EndCommand([cRun EXCEPT !.alive = {}], code, FALSE, FALSE))
    BY <1>3, Zenon DEF launcher_fails
  <2>2. cRun.stage = "launch" /\ code \in Nat /\ code # 0
    BY <1>3 DEF launcher_fails
  <2> QED
    BY <1>a, <2>1, <2>2, EndsWith, Zenon
<1>4. CASE launcher_missing
  <2>1. cRun.stage = "launch" /\ CEnd(EndCommand([cRun EXCEPT !.alive = {}], 0, FALSE, TRUE))
    BY <1>4, Zenon DEF launcher_missing
  <2> QED
    BY <1>a, <2>1, EndsWith, Zenon
<1> QED
  BY <1>1, <1>2, <1>3, <1>4

\* A running command that forks, exits or loses a child preserves the invariant.
LEMMA RunningKeeps ==
    ASSUME CInv, command_forks \/ command_exits \/ piped_child_ends PROVE CInv'
<1>0. cRun \in CRuns /\ cRun.stage = "running" /\ cRun.op # "codex"
  BY LaunchedIs DEF command_forks, command_exits, piped_child_ends
<1>1. cRun.op = "check" =>
        /\ cRun.alive \subseteq {"launcher", "command", "piped", "detached"}
        /\ "command" \notin cRun.alive => cRun.ended /\ (cRun.tier \in Tied => cRun.alive = {})
        /\ cRun.tier = "windows-appcontainer" => cRun.inJob
  BY <1>0 DEF CInv, CommandInv
<1>2. CASE command_forks
  <2>1. PICK r \in {"piped", "detached"} :
          "command" \in cRun.alive /\ CTo([cRun EXCEPT !.alive = @ \cup {r}])
    BY <1>2 DEF command_forks
  <2> DEFINE al == cRun.alive \cup {r}
             c == [cRun EXCEPT !.alive = al]
  <2>2. CTo(c)
    BY <2>1
  <2>3. al \in SUBSET CRoles /\ "command" \in al
        /\ (cRun.op = "check" => al \subseteq {"launcher", "command", "piped", "detached"})
    BY <1>0, <1>1, <2>1 DEF CRuns, CRoles
  <2> HIDE DEF al
  <2>4. /\ c \in CRuns /\ c.alive = al /\ c.op = cRun.op /\ c.stage = cRun.stage
        /\ c.tier = cRun.tier /\ c.require = cRun.require
        /\ c.ended = cRun.ended /\ c.inJob = cRun.inJob /\ c.status = cRun.status
    BY <1>0, <2>3, AliveIs
  <2> HIDE DEF c
  <2> QED
    BY <1>0, <1>1, <2>2, <2>3, <2>4, CommandMoves
<1>3. CASE piped_child_ends
  <2> DEFINE al == cRun.alive \ {"piped"}
             c == [cRun EXCEPT !.alive = al]
  <2>2. CTo(c)
    BY <1>3 DEF piped_child_ends
  <2>3. al \in SUBSET CRoles /\ al \subseteq cRun.alive /\ ("command" \in cRun.alive => "command" \in al)
    BY <1>0 DEF CRuns, CRoles
  <2> HIDE DEF al
  <2>4. /\ c \in CRuns /\ c.alive = al /\ c.op = cRun.op /\ c.stage = cRun.stage
        /\ c.tier = cRun.tier /\ c.require = cRun.require
        /\ c.ended = cRun.ended /\ c.inJob = cRun.inJob /\ c.status = cRun.status
    BY <1>0, <2>3, AliveIs
  <2> HIDE DEF c
  <2> QED
    BY <1>0, <1>1, <2>2, <2>3, <2>4, CommandMoves
<1>4. CASE command_exits
  <2>1. PICK code \in {0, 1, 127} :
          CTo([cRun EXCEPT !.alive = @ \ EndsWithCommand(cRun), !.code = code, !.ended = TRUE])
    BY <1>4, Zenon DEF command_exits
  <2> DEFINE al == cRun.alive \ EndsWithCommand(cRun)
             c == [cRun EXCEPT !.alive = al, !.code = code, !.ended = TRUE]
  <2>2. CTo(c)
    BY <2>1
  <2>3. al \in SUBSET CRoles /\ al \subseteq cRun.alive
    BY <1>0 DEF CRuns, CRoles
  <2>4. cRun.op = "check" /\ cRun.tier \in Tied => al = {}
    BY <1>1 DEF EndsWithCommand, Tied
  <2> HIDE DEF al
  <2>a. code \in Nat
    OBVIOUS
  <2>b. c \in CRuns
    BY <1>0, <2>a, <2>3, Zenon DEF CRuns
  <2>5. /\ c \in CRuns /\ c.alive = al /\ c.op = cRun.op /\ c.stage = cRun.stage
        /\ c.tier = cRun.tier /\ c.require = cRun.require
        /\ c.ended /\ c.inJob = cRun.inJob /\ c.status = cRun.status
    BY <1>0, <2>b DEF CRuns
  <2> HIDE DEF c
  <2> QED
    BY <1>0, <1>1, <2>2, <2>3, <2>4, <2>5, CommandMoves
<1> QED
  BY <1>2, <1>3, <1>4

\* The ends of a call, by itself or by a timeout, preserve the invariant.
LEMMA CallEndsKeep ==
    ASSUME CInv, subprocess_returns \/ executor_times_out \/ launcher_times_out PROVE CInv'
<1>0. cRun \in CRuns
  BY LaunchedIs
<1>1. CASE subprocess_returns
  <2>1. /\ cRun.stage = "running" /\ "command" \notin cRun.alive /\ cRun.op # "codex"
        /\ cRun.code \in Nat
    BY <1>0, <1>1, LaunchedIs DEF subprocess_returns, CRuns
  <2>2. cRun.op = "check" => cRun.ended /\ (cRun.tier \in Tied => cRun.alive = {})
    BY <2>1 DEF CInv, CommandInv
  <2>3. CEnd(EndCommand(cRun, cRun.code, FALSE, FALSE))
    BY <1>1, Zenon DEF subprocess_returns
  <2> QED
    BY <1>0, <2>1, <2>2, <2>3, CommandEnds, Zenon
<1>2. CASE executor_times_out
  <2> DEFINE al == cRun.alive \ DiesWithLauncher(cRun)
  <2>1. /\ cRun.stage \in {"launch", "suspended", "job", "running"} /\ cRun.op = "check"
        /\ CEnd(EndCommand([cRun EXCEPT !.alive = al], 124, TRUE, FALSE))
    BY <1>2, Zenon DEF executor_times_out
  <2>2. al \in SUBSET CRoles
    BY <1>0 DEF CRuns
  <2>3. cRun.tier \in Tied => al \subseteq {"suspended"}
    <3>1. CASE cRun.tier = "kernel-bwrap"
      BY <1>0, <3>1 DEF DiesWithLauncher, CRuns
    <3>2. CASE cRun.tier = "windows-appcontainer"
      <4>1. DiesWithLauncher(cRun) = KilledWithJob(cRun)
        BY <3>2 DEF DiesWithLauncher
      <4>2. "launcher" \in KilledWithJob(cRun) /\ (cRun.inJob => KilledWithJob(cRun) = CRoles)
        BY DEF KilledWithJob, CRoles
      <4>3. \/ cRun.alive \subseteq {"launcher", "suspended"}
            \/ cRun.inJob
        BY <2>1, <3>2 DEF CInv, CommandInv
      <4> QED
        BY <1>0, <4>1, <4>2, <4>3 DEF CRuns
    <3> QED
      BY <3>1, <3>2 DEF Tied
  <2> HIDE DEF al
  <2> QED
    BY <2>1, <2>2, <2>3, EndsWith, ZenonT(60)
<1>3. CASE launcher_times_out
  <2> DEFINE al == cRun.alive \ ({"command"} \cup KilledWithJob(cRun))
             code == IF cRun.tier = "windows-job" THEN 1 ELSE 259
  <2>1. /\ cRun.stage = "running" /\ cRun.tier \in {"windows-appcontainer", "windows-job"}
        /\ CEnd(EndCommand([cRun EXCEPT !.alive = al], code, FALSE, FALSE))
    BY <1>3, Zenon DEF launcher_times_out
  <2>2. al \in SUBSET CRoles /\ code \in Nat /\ code # 0
    BY <1>0 DEF CRuns
  <2>3. cRun.op = "check" /\ cRun.tier \in Tied => al = {}
    BY <1>0, <2>1 DEF CInv, CommandInv, CRuns, KilledWithJob, Tied
  <2> HIDE DEF al, code
  <2> QED
    BY <2>1, <2>2, <2>3, EndsWith, Zenon
<1> QED
  BY <1>1, <1>2, <1>3

\* A process an ended call left ends later.
LEMMA LeftKeeps ==
    ASSUME CInv, left_process_ends PROVE CInv'
<1>1. PICK r \in cLeft \ {"suspended"} :
        cRun' = IF cRun.stage = "done" THEN [cRun EXCEPT !.alive = @ \ {r}] ELSE cRun
  BY Zenon DEF left_process_ends
<1>2. cRun \in CRuns /\ cHost' = cHost
  BY DEF left_process_ends, CInv
<1>3. CASE cRun.stage # "done"
  BY <1>1, <1>2, <1>3, RunStays
<1>4. CASE cRun.stage = "done"
  <2> DEFINE al == cRun.alive \ {r}
  <2>1. cRun' = [cRun EXCEPT !.alive = al] /\ al \in SUBSET CRoles /\ al \subseteq cRun.alive
    BY <1>1, <1>2, <1>4 DEF CRuns
  <2> HIDE DEF al
  <2>2. /\ cRun' \in CRuns /\ cRun'.alive = al /\ cRun'.op = cRun.op /\ cRun'.stage = "done"
        /\ cRun'.tier = cRun.tier /\ cRun'.require = cRun.require
        /\ cRun'.ended = cRun.ended /\ cRun'.status = cRun.status /\ cRun'.ran = cRun.ran
        /\ cRun'.expect = cRun.expect /\ cRun'.temp = cRun.temp /\ cRun'.error = cRun.error
    BY <1>2, <1>4, <2>1 DEF CRuns
  <2>3. CommandInv'
    BY <1>2, <1>4, <2>1, <2>2 DEF CInv, CommandInv, tool_jail, jail_facts, default_executor,
                                  select_confining_strategy
  <2>4. CodexInv'
    BY <1>4, <2>1, <2>2 DEF CInv, CodexInv, CodexLeavesNothing
  <2> QED
    BY <2>2, <2>3, <2>4 DEF CInv
<1> QED
  BY <1>3, <1>4

\* A Codex call that goes on, and one that ends.
LEMMA CodexMoves ==
    ASSUME NEW c \in CRuns, cRun' = c, c.op = "codex",
           \/ c.stage = "popen" /\ c.alive = {}
           \/ c.stage \in {"reading", "waiting"}
    PROVE  CInv'
  BY DEF CInv, CommandInv, CodexInv

\* A Codex call that ends through the finally clause leaves what
\* CodexLeavesNothing allows.
LEMMA CodexEnded ==
    ASSUME NEW c \in CRuns, NEW st \in CStatuses, c.op = "codex", CodexEnds(c, st),
           st # "raised" => c.alive = {}, st = "completed" => ~c.error
    PROVE  CInv'
<1> DEFINE d == [c EXCEPT !.stage = "done", !.temp = FALSE, !.status = st]
<1>1. cRun' = d
  BY DEF CodexEnds, CEnd
<1>2. /\ d \in CRuns /\ d.op = "codex" /\ d.stage = "done" /\ ~d.temp /\ d.status = st
      /\ d.alive = c.alive /\ d.error = c.error
  BY Zenon DEF CRuns, CStages
<1> HIDE DEF d
<1> QED
  BY <1>1, <1>2 DEF CInv, CommandInv, CodexInv, CodexLeavesNothing

\* Every step of run_codex preserves the invariant.
LEMMA CodexKeeps ==
    ASSUME CInv, gate_codex \/ popen_codex \/ read_line \/ deadline_passes \/ output_ends \/ wait_codex
    PROVE  CInv'
<1>0. /\ cRun \in CRuns /\ cRun.op = "codex"
      /\ cRun.stage = "gate" => cRun.alive = {} /\ ~cRun.temp
      /\ cRun.stage = "popen" => cRun.alive = {}
  BY DEF gate_codex, popen_codex, read_line, deadline_passes, output_ends, wait_codex, OnCodex,
         CInv, CodexInv
<1>1. CASE gate_codex
  <2>1. cRun.stage = "gate"
    BY <1>1 DEF gate_codex, OnCodex
  <2>2. CASE CTo([cRun EXCEPT !.allowed = TRUE, !.stage = "popen", !.temp = TRUE])
    <3> DEFINE d == [cRun EXCEPT !.allowed = TRUE, !.stage = "popen", !.temp = TRUE]
    <3>1. d \in CRuns /\ d.op = "codex" /\ d.stage = "popen" /\ d.alive = cRun.alive
      BY <1>0, Zenon DEF CRuns, CStages
    <3>2. cRun' = d
      BY <2>2 DEF CTo
    <3> HIDE DEF d
    <3> QED
      BY <1>0, <2>1, <3>1, <3>2, CodexMoves
  <2>3. CASE CEnd([cRun EXCEPT !.stage = "done", !.status = "refused"])
    <3> DEFINE d == [cRun EXCEPT !.stage = "done", !.status = "refused"]
    <3>1. /\ d \in CRuns /\ d.op = "codex" /\ d.stage = "done" /\ d.alive = cRun.alive
          /\ d.temp = cRun.temp /\ d.status = "refused"
      BY <1>0, Zenon DEF CRuns, CStages, CStatuses
    <3>2. cRun' = d
      BY <2>3 DEF CEnd
    <3> HIDE DEF d
    <3> QED
      BY <1>0, <2>1, <3>1, <3>2 DEF CInv, CommandInv, CodexInv, CodexLeavesNothing
  <2> QED
    BY <1>1, <2>2, <2>3 DEF gate_codex
<1>2. CASE popen_codex
  <2>1. CASE CodexEnds(cRun, "unavailable")
    <3>1. cRun.stage = "popen" /\ "unavailable" \in CStatuses
      BY <1>2 DEF popen_codex, OnCodex, CStatuses
    <3> QED
      BY <1>0, <2>1, <3>1, CodexEnded
  <2>2. CASE CTo([cRun EXCEPT !.stage = "reading", !.alive = {"codex"}, !.ran = TRUE])
    <3> DEFINE d == [cRun EXCEPT !.stage = "reading", !.alive = {"codex"}, !.ran = TRUE]
    <3>1. d \in CRuns /\ d.op = "codex" /\ d.stage = "reading"
      BY <1>0, Zenon DEF CRuns, CStages, CRoles
    <3>2. cRun' = d
      BY <2>2 DEF CTo
    <3> HIDE DEF d
    <3> QED
      BY <3>1, <3>2, CodexMoves
  <2> QED
    BY <1>2, <2>1, <2>2 DEF popen_codex
<1>3. CASE read_line
  <2>1. CASE CTo([cRun EXCEPT !.stage = "waiting", !.alive = {}, !.status = "timeout"])
    <3> DEFINE d == [cRun EXCEPT !.stage = "waiting", !.alive = {}, !.status = "timeout"]
    <3>1. d \in CRuns /\ d.op = "codex" /\ d.stage = "waiting"
      BY <1>0, Zenon DEF CRuns, CStages, CStatuses
    <3>2. cRun' = d
      BY <2>1 DEF CTo
    <3> HIDE DEF d
    <3> QED
      BY <3>1, <3>2, CodexMoves
  <2>2. ASSUME NEW ev, CTo([cRun EXCEPT !.error = @ \/ map_thread_event(ev) = "error"])
        PROVE  CInv'
    <3> DEFINE er == cRun.error \/ map_thread_event(ev) = "error"
               d == [cRun EXCEPT !.error = er]
    <3>a. er \in BOOLEAN
      BY Zenon
    <3>b. cRun' = d /\ cRun.stage = "reading"
      BY <1>3, <2>2 DEF CTo, read_line, OnCodex
    <3> HIDE DEF er
    <3>1. d \in CRuns /\ d.op = "codex" /\ d.stage = "reading"
      BY <1>0, <3>a, <3>b DEF CRuns
    <3> HIDE DEF d
    <3> QED
      BY <3>1, <3>b, CodexMoves
  <2>3. CASE CodexEnds(cRun, "raised")
    BY <1>0, <2>3, CodexEnded DEF CStatuses
  <2> QED
    BY <1>3, <2>1, <2>2, <2>3 DEF read_line
<1>4. CASE deadline_passes
  <2> DEFINE d == [cRun EXCEPT !.late = TRUE]
  <2>1. cRun' = d /\ cRun.stage = "reading"
    BY <1>4 DEF deadline_passes, CTo, OnCodex
  <2>2. d \in CRuns /\ d.op = "codex" /\ d.stage = "reading"
    BY <1>0, <2>1, Zenon DEF CRuns
  <2> HIDE DEF d
  <2> QED
    BY <2>1, <2>2, CodexMoves
<1>5. CASE output_ends
  <2>1. PICK exited \in BOOLEAN, code \in {0, 1} :
          CTo([cRun EXCEPT !.stage = "waiting", !.code = code, !.alive = IF exited THEN {} ELSE @])
    BY <1>5 DEF output_ends
  <2> DEFINE al == IF exited THEN {} ELSE cRun.alive
             d == [cRun EXCEPT !.stage = "waiting", !.code = code, !.alive = al]
  <2>2. cRun' = d
    BY <2>1 DEF CTo
  <2>3. al \in SUBSET CRoles /\ code \in Nat
    BY <1>0 DEF CRuns
  <2> HIDE DEF al
  <2>4. d \in CRuns /\ d.op = "codex" /\ d.stage = "waiting"
    BY <1>0, <2>3, Zenon DEF CRuns, CStages
  <2> HIDE DEF d
  <2> QED
    BY <2>2, <2>4, CodexMoves
<1>6. CASE wait_codex
  <2> DEFINE d == [cRun EXCEPT !.alive = {}]
             st == CASE cRun.status = "timeout" -> "timeout"
                     [] cRun.error -> "failed"
                     [] cRun.alive = {} /\ cRun.code # 0 -> "failed"
                     [] OTHER -> "completed"
  <2>1. CodexEnds(d, st)
    BY <1>6 DEF wait_codex
  <2>2. st \in CStatuses /\ (st = "completed" => ~cRun.error) /\ st # "raised"
    BY DEF CStatuses
  <2> HIDE DEF st
  <2>3. d \in CRuns /\ d.alive = {} /\ d.op = "codex" /\ d.error = cRun.error
    BY <1>0 DEF CRuns
  <2> HIDE DEF d
  <2> QED
    BY <2>1, <2>2, <2>3, CodexEnded
<1> QED
  BY <1>1, <1>2, <1>3, <1>4, <1>5, <1>6

\* The inductive invariant of the executors, on any set of hosts.
THEOREM ExecutionInvariant == CSpec => []CInv
<1>1. CInit => CInv
  BY IdleIs DEF CInit, CInv, CommandInv, CodexInv
<1>2. CInv /\ [CNext]_cVars => CInv'
  <2> SUFFICES ASSUME CInv, [CNext]_cVars PROVE CInv'
    OBVIOUS
  <2>1. CASE UNCHANGED cVars
    BY <2>1, RunStays DEF cVars
  <2>2. CASE command_writes
    BY <2>2, RunStays DEF command_writes
  <2>3. CASE AskCommand \/ AskCodex \/ AskLauncher \/ check_file
    BY <2>3, AsksKeep
  <2>4. CASE gate_command
    BY <2>4, GateKeeps
  <2>5. CASE build_command \/ create_suspended \/ assign_and_resume
    BY <2>5, LaunchesKeep
  <2>6. CASE appcontainer_fails \/ run_with_job_object \/ launcher_fails \/ launcher_missing
    BY <2>6, LaunchFailuresKeep
  <2>7. CASE command_forks \/ command_exits \/ piped_child_ends
    BY <2>7, RunningKeeps
  <2>8. CASE subprocess_returns \/ executor_times_out \/ launcher_times_out
    BY <2>8, CallEndsKeep
  <2>9. CASE left_process_ends
    BY <2>9, LeftKeeps
  <2>10. CASE gate_codex \/ popen_codex \/ read_line \/ deadline_passes \/ output_ends \/ wait_codex
    BY <2>10, CodexKeeps
  <2> QED
    BY <2>1, <2>2, <2>3, <2>4, <2>5, <2>6, <2>7, <2>8, <2>9, <2>10 DEF CNext
<1> QED
  BY <1>1, <1>2, PTL DEF CSpec

\* Under bubblewrap and in an AppContainer nothing of a command outlives its
\* call, however the call ended (DiesWithLauncher, KilledWithJob).
THEOREM NothingOutlives == CSpec => []NothingOutlivesItsCommand
<1>1. CInv => NothingOutlivesItsCommand
  BY DEF CInv, CommandInv, Tied, NothingOutlivesItsCommand
<1> QED
  BY <1>1, ExecutionInvariant, PTL

\* A command runs only where tool_jail accepts the tier or no policy is
\* installed, and the required AppContainer never degrades (run_confined).
THEOREM CommandsAreConfined == CSpec => []CommandsRunConfined
<1>1. CInv => CommandsRunConfined
  <2> SUFFICES ASSUME CInv, cRun.op = "check", cRun.ran PROVE CommandsRunConfined
    BY DEF CommandsRunConfined
  <2>1. /\ cRun.tier \notin {"unavailable", "windows-job"}
        /\ cHost.permissive \/ tool_jail(cHost)
    BY DEF CInv, CommandInv
  <2>2. cRun.tier = "windows-appcontainer" /\ "command" \in cRun.alive => cRun.inJob
    BY DEF CInv, CommandInv, Tied
  <2> QED
    BY <2>1, <2>2 DEF CommandsRunConfined
<1> QED
  BY <1>1, ExecutionInvariant, PTL

\* A check that passes with exit code 0 saw the command end by itself.
THEOREM PassesWereEarned == CSpec => []PassedCommandsRan
<1>1. CInv => PassedCommandsRan
  BY DEF CInv, CommandInv, PassedCommandsRan
<1> QED
  BY <1>1, ExecutionInvariant, PTL

\* run_codex leaves no file and, unless the stream raised, no process.
THEOREM CodexIsClean == CSpec => []CodexLeavesNothing
<1>1. CInv => CodexLeavesNothing
  BY DEF CInv, CodexInv, CodexLeavesNothing
<1> QED
  BY <1>1, ExecutionInvariant, PTL
=============================================================================
