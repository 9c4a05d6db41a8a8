------------------------------- MODULE Skills -------------------------------
(* The life of an imported skill: its catalog entry (main.py /skills), its    *)
(* folder in the skill store (locus_runtime/skills.py SkillStore) and the     *)
(* agents that are given it (_augment_system_prompt_with_skills, SkillTools). *)
(* Scans and evals call a model, and every handler runs on a thread of its    *)
(* own with a store object, and so a lock, of its own: they overlap.  A crash *)
(* before the catalog is saved leaves the folder as it is.                    *)
(*                                                                            *)
(* Contents are numbered; a save that changes anything makes a new catalog    *)
(* object, and a handler keeps the object it started with.                    *)
EXTENDS Integers, FiniteSets

CONSTANTS
    MaxContents,    \* contents the skill is given
    MaxObjects,     \* catalog objects: the import and the saves
    MaxChecks,      \* scans and evals
    JMaxTasks,     \* scans, evals and saves under way at once
    MaxCrashes,     \* restarts of the backend
    JParents,       \* capabilities a run may have
    JManifests      \* capabilities a skill may declare

ASSUME SkillsBounds ==
    {MaxContents, MaxObjects, MaxChecks, JMaxTasks} \subseteq Nat \ {0} /\ MaxCrashes \in Nat

VARIABLES
    jCat,      \* the catalog entry
    jDisk,     \* the entry as it was last saved
    jStore,    \* the folder: its files and its record, which has their hash
    jTasks,    \* handlers under way
    jServed,   \* what an agent was just given, if anything
    jPast      \* history

jVars == <<jCat, jDisk, jStore, jTasks, jServed, jPast>>

JAbsent == [here |-> FALSE, obj |-> 0, content |-> 0, enabled |-> FALSE, quar |-> "pending",
            trust |-> "untrusted", passed |-> FALSE]
JNoFolder == [here |-> FALSE, files |-> 0, content |-> 0, state |-> "quarantined", eval |-> FALSE, trusted |-> 0]

JInit ==
    /\ jCat = JAbsent /\ jDisk = JAbsent /\ jStore = JNoFolder
    /\ jTasks = {} /\ jServed = {}
    /\ jPast = [objs |-> 0, checks |-> 0, contents |-> 0, cleared |-> {}, evaluated |-> {}, mixed |-> FALSE,
                revoked |-> FALSE, ended |-> FALSE, crashes |-> 0]

-----------------------------------------------------------------------------
(* The skill store: each operation on a record that was read                  *)

(* Mutant of mark_scanned: a cleared rescan trusts the folder as it is. *)
MarkScannedTrusts(rec, cleared) ==
    IF rec.state = "revoked" THEN rec
    ELSE IF ~cleared THEN [rec EXCEPT !.state = "blocked", !.trusted = 0]
    ELSE [rec EXCEPT !.state = "trusted", !.trusted = rec.content]

Trusted(rec) == rec.state = "trusted" /\ rec.trusted # 0 /\ rec.trusted = rec.content
mark_scanned(rec, cleared) ==
    IF rec.state = "revoked" THEN rec
    ELSE IF ~cleared THEN [rec EXCEPT !.state = "blocked", !.trusted = 0]
    ELSE IF Trusted(rec) THEN rec
    ELSE [rec EXCEPT !.state = "scanned", !.trusted = 0]

mark_evaluated(rec, passed) == [rec EXCEPT !.eval = passed]

(* read_file: what the hash of the record does not match is not read.         *)
Verified(rec) == rec.here /\ rec.files = rec.content

CanTrust(rec) == Verified(rec) /\ rec.state \in {"scanned", "trusted"} /\ rec.eval
trust(rec) == [rec EXCEPT !.state = "trusted", !.trusted = rec.content]

(* New files, and the folder is back in quarantine. *)
replace_skill_md(rec, content) ==
    [here |-> TRUE, files |-> content, content |-> content, state |-> "quarantined", eval |-> FALSE, trusted |-> 0]

-----------------------------------------------------------------------------
(* Handlers *)

(* The handler ends: the catalog is saved, or the backend stops just before.  *)
Finish(cat, tasks, past) ==
    /\ jServed' = {}
    /\ \/ jCat' = cat /\ jDisk' = cat /\ jTasks' = tasks /\ jPast' = past
       \/ /\ jPast.crashes < MaxCrashes
          /\ jCat' = jDisk /\ jDisk' = jDisk /\ jTasks' = {}
          /\ jPast' = [past EXCEPT !.crashes = @ + 1, !.mixed = TRUE]

Task(kind, cat, folder) ==
    [kind |-> kind, at |-> "started", obj |-> cat.obj, old |-> IF kind = "save" THEN cat ELSE JAbsent,
     content |-> cat.content, folder |-> folder, rec |-> JNoFolder, good |-> FALSE, new |-> 0]
Begin(task) ==
    /\ Cardinality(jTasks) < JMaxTasks
    /\ jTasks' = jTasks \cup {task}
    /\ jServed' = {}
    /\ UNCHANGED <<jDisk>>

(* import: the folder is stored, the entry made, and the first scan begins.   *)
import_skill ==
    /\ ~jCat.here /\ ~jStore.here /\ jTasks = {} /\ jPast.contents = 0
    /\ jStore' = [JNoFolder EXCEPT !.here = TRUE, !.files = 1, !.content = 1]
    /\ jCat' = [JAbsent EXCEPT !.here = TRUE, !.obj = 1, !.content = 1]
    /\ jPast' = [jPast EXCEPT !.objs = 1, !.checks = 1, !.contents = 1]
    /\ jTasks' = {Task("scan", jCat', 1)}
    /\ jServed' = {}
    /\ UNCHANGED jDisk

start_check(kind) ==
    /\ jCat.here /\ jCat.trust # "revoked"
    /\ jPast.checks < MaxChecks
    /\ Begin(Task(kind, jCat, IF kind = "scan" /\ Verified(jStore) THEN jStore.files ELSE 0))
    /\ jPast' = [jPast EXCEPT !.checks = @ + 1]
    /\ UNCHANGED <<jCat, jStore>>

(* The model has answered: the outcome goes into the object the handler has,  *)
(* and the record of the folder is read ...                                   *)
Judge(t) ==
    /\ t.at = "started" /\ t.kind \in {"scan", "eval"}
    /\ \E good \in BOOLEAN :
         /\ good /\ t.kind = "scan" => t.folder # 0
         /\ jCat' = IF ~jCat.here \/ jCat.obj # t.obj THEN jCat
                    ELSE IF t.kind = "eval" THEN [jCat EXCEPT !.passed = good]
                    ELSE [jCat EXCEPT !.quar = IF good THEN "cleared" ELSE "blocked"]
         /\ jTasks' = (jTasks \ {t}) \cup {[t EXCEPT !.at = "judged", !.rec = jStore, !.good = good]}
         /\ jPast' = IF ~good THEN jPast
                     ELSE IF t.kind = "eval" THEN [jPast EXCEPT !.evaluated = @ \cup {t.content}]
                     ELSE [jPast EXCEPT !.cleared = @ \cup {t.content, t.folder}]
    /\ jServed' = {}
    /\ UNCHANGED <<jDisk, jStore>>

(* No provider answers: the eval ends with an error and changes nothing.      *)
EvalUnanswered(t) ==
    /\ t.at = "started" /\ t.kind = "eval"
    /\ jTasks' = jTasks \ {t}
    /\ jServed' = {}
    /\ UNCHANGED <<jCat, jDisk, jStore, jPast>>

(* ... and written back; a scan also takes the trust of the record over.      *)
Record(t) ==
    /\ t.at = "judged"
    /\ LET rec == IF t.kind = "eval" THEN mark_evaluated(t.rec, t.good) ELSE mark_scanned(t.rec, t.good)
           cat == IF t.kind = "scan" /\ t.rec.here /\ jCat.here /\ jCat.obj = t.obj
                  THEN [jCat EXCEPT !.trust = IF Trusted(rec) THEN "trusted" ELSE "untrusted"]
                  ELSE jCat IN
       /\ jStore' = IF t.rec.here THEN [rec EXCEPT !.files = jStore.files] ELSE jStore
       /\ Finish(cat, jTasks \ {t}, jPast)

start_save ==
    /\ jCat.here /\ jPast.objs < MaxObjects
    /\ \E edit, enabled \in BOOLEAN :
         /\ edit => jPast.contents < MaxContents
         /\ Begin([Task("save", jCat, 0) EXCEPT !.good = enabled, !.new = jPast.objs + 1,
                                       !.content = IF edit THEN jPast.contents + 1 ELSE @])
         /\ jPast' = [jPast EXCEPT !.objs = @ + 1, !.contents = IF edit THEN @ + 1 ELSE @,
                         !.mixed = @ \/ \E t \in jTasks : t.kind = "save"]
    /\ UNCHANGED <<jCat, jStore>>

(* The new entry: an edit is untrusted, unevaluated, disabled and pending.    *)
SavedEntry(t) ==
    IF t.content # t.old.content
    THEN [t.old EXCEPT !.obj = t.new, !.content = t.content, !.enabled = FALSE, !.quar = "pending",
                       !.trust = "untrusted", !.passed = FALSE]
    ELSE [t.old EXCEPT !.obj = t.new, !.enabled = t.good]

(* save: refused for a revoked skill that is enabled, a folder that cannot be *)
(* rewritten, and an entry that has not cleared.                              *)
save_skill(t) ==
    /\ t.kind = "save"
    /\ LET edit == t.content # t.old.content
           cat == SavedEntry(t)
           refused == \/ t.old.trust = "revoked" /\ t.good
                      \/ edit /\ (~Verified(jStore) \/ jStore.state = "revoked")
                      \/ cat.enabled /\ cat.quar \in {"pending", "blocked"} IN
       IF refused
       THEN jTasks' = jTasks \ {t} /\ jServed' = {} /\ UNCHANGED <<jCat, jDisk, jStore, jPast>>
       ELSE /\ jStore' = IF edit THEN replace_skill_md(jStore, t.content) ELSE jStore
            /\ Finish(cat, jTasks \ {t}, jPast)

(* promote: both the entry and the folder must have cleared and passed.       *)
promote_skill ==
    /\ jCat.here /\ jCat.trust = "untrusted" /\ jCat.quar = "cleared" /\ jCat.passed
    /\ CanTrust(jStore)
    /\ jStore' = trust(jStore)
    /\ Finish([jCat EXCEPT !.trust = "trusted"], jTasks, jPast)

revoke_skill ==
    /\ jCat.here /\ jCat.trust # "revoked"
    /\ jStore' = IF jStore.here THEN [jStore EXCEPT !.state = "revoked", !.trusted = 0] ELSE jStore
    /\ Finish([jCat EXCEPT !.trust = "revoked", !.enabled = FALSE], jTasks,
              [jPast EXCEPT !.revoked = @ \/ jTasks = {}, !.ended = TRUE])

delete_skill ==
    /\ jCat.here
    /\ jStore' = JNoFolder
    /\ Finish(JAbsent, jTasks, [jPast EXCEPT !.mixed = @ \/ jTasks # {}])

-----------------------------------------------------------------------------
(* Agents *)

Serve(via, content, sessions) ==
    /\ jServed' = {[via |-> via, content |-> content, sessions |-> sessions]}
    /\ UNCHANGED <<jCat, jDisk, jStore, jTasks, jPast>>

(* The body of an enabled entry joins a prompt.                               *)
augment_system_prompt_with_skills ==
    /\ jCat.here /\ jCat.enabled
    /\ jCat.quar \notin {"pending", "blocked"} /\ jCat.trust # "revoked"
    /\ Serve("prompt", jCat.content, {})

(* use_skill: a folder that was scanned or trusted is read to the agent.      *)
use_skill ==
    /\ Verified(jStore) /\ jStore.state \in {"scanned", "trusted"}
    /\ Serve("tool", jStore.files, {})

Within(root, roots) == root \in roots \/ "ws" \in roots

intersect_capabilities(parent, manifest) ==
    LET exes == manifest.exes \cap parent.exes
        hosts == manifest.hosts \cap parent.hosts
        write == {r \in manifest.write : Within(r, parent.write)}
        read == write \cup {r \in manifest.read : Within(r, parent.read)}
        given == {"process_exec" : x \in exes} \cup {"network_egress" : x \in hosts}
                   \cup {"read_file" : x \in read} \cup {"write_file" : x \in write} IN
    [tools |-> (manifest.tools \cup given) \cap parent.tools,
     exes |-> exes, hosts |-> hosts, read |-> read, write |-> write]

(* run_skill_script: a trusted folder, and a session both sides allow.        *)
run_skill_script ==
    /\ Verified(jStore) /\ Trusted(jStore)
    /\ \E parent \in JParents, manifest \in JManifests :
         LET caps == intersect_capabilities(parent, manifest) IN
         /\ manifest.hosts \subseteq caps.hosts
         /\ "python" \in caps.exes /\ "process_exec" \in caps.tools
         /\ Serve("script", jStore.files, {[parent |-> parent, manifest |-> manifest, granted |-> caps]})

JNext ==
    \/ import_skill \/ start_check("scan") \/ start_check("eval") \/ start_save
    \/ \E t \in jTasks : Judge(t) \/ EvalUnanswered(t) \/ Record(t) \/ save_skill(t)
    \/ promote_skill \/ revoke_skill \/ delete_skill
    \/ augment_system_prompt_with_skills \/ use_skill \/ run_skill_script

JSpec == JInit /\ [][JNext]_jVars

-----------------------------------------------------------------------------
JQuarantine == {"pending", "cleared", "blocked"}

(* Entry and folder hold values of the code, and a hash that is trusted is    *)
(* the hash of the folder.                                                    *)
JTypeOK ==
    /\ jCat.quar \in JQuarantine /\ jCat.trust \in {"untrusted", "trusted", "revoked"}
    /\ jStore.state \in {"quarantined", "scanned", "blocked", "trusted", "revoked"}
    /\ jStore.trusted \in {0, jStore.content}
    /\ jCat.content \in 0..MaxContents /\ jStore.content \in 0..MaxContents

(* Whatever saves, scans, revocations and crashes come between, a prompt only *)
(* ever receives a body that cleared the blast chamber as it is: clearance is *)
(* never carried over to an edited body (save_skill, _run_skill_blast_chamber,*)
(* _augment_system_prompt_with_skills).                                       *)
PromptsWereCleared ==
    \A s \in jServed : s.via = "prompt" => s.content \in jPast.cleared

(* A script runs only from a folder that was scanned and evaluated as it is,  *)
(* even when a scan or an eval of an older content ends late, unless saves    *)
(* overlapped or a crash parted entry and folder (promote_skill, trust).      *)
ScriptsWereReviewed ==
    \A s \in jServed : s.via = "script" /\ ~jPast.mixed
        => s.content \in jPast.cleared \cap jPast.evaluated

(* A skill that is revoked while nothing else is under way stays revoked in   *)
(* the catalog and in the store, through every later save, scan and eval.     *)
RevokedStaysRevoked ==
    jPast.revoked /\ ~jPast.mixed =>
        /\ jCat.here => jCat.trust = "revoked" /\ ~jCat.enabled
        /\ jStore.here => jStore.state = "revoked"

(* The session a script gets is no wider than the run or than the manifest,   *)
(* for any combination of the two (intersect_capabilities).                   *)
ScriptSessionsAreNarrower ==
    \A x \in jServed : \A s \in x.sessions :
        LET g == s.granted  p == s.parent  f == s.manifest IN
        /\ g.tools \subseteq p.tools /\ g.exes \subseteq p.exes \cap f.exes
        /\ g.hosts \subseteq p.hosts \cap f.hosts
        /\ \A r \in g.write : r \in f.write /\ Within(r, p.write)
        /\ \A r \in g.read : Within(r, p.read \cup p.write)
        /\ "network_egress" \in g.tools => "network_egress" \in f.tools \/ f.hosts # {}

(* A revoked skill is never given to an agent again.                          *)
RevocationIsTerminal == jPast.ended => jServed = {}
=============================================================================
