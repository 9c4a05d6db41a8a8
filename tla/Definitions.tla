---------------------------- MODULE Definitions ----------------------------
(***************************************************************************)
(* The life of one versioned definition of the control plane (apps/backend/ *)
(* app/main.py): a workflow definition, an agent definition or a guardrail  *)
(* ruleset (dKind) with its append-only list of revisions, its published    *)
(* pointer and its active pointer.  Definitions meet only in checks that    *)
(* look another one up (the ruleset that a security policy names, the       *)
(* agents of an imported graph), whose outcome is an input here.            *)
(*                                                                          *)
(* A definition is a Python object: save, rollback and instantiate replace  *)
(* the object under its id, the other handlers assign to its fields.  The   *)
(* handlers run on the threads of a pool and take no lock, so save and      *)
(* publish, which validate between their lookup and their write, are two    *)
(* steps each and hold the object they looked up (dReq); dObj is the heap.  *)
(* The id of a revision is its index in the list: lists only grow.          *)
(***************************************************************************)
EXTENDS Integers, Sequences, FiniteSetsExt, SequencesExt

CONSTANTS
    Threads,       \* the worker threads of the HTTP server
    MaxRevisions,  \* bounds of a behaviour: revisions recorded,
    MaxDisruptions \*   failed writes of the state store, and restarts

ASSUME DefinitionsAssumption ==
    /\ IsFiniteSet(Threads)
    /\ MaxRevisions \in Nat /\ MaxDisruptions \in Nat

VARIABLES
    dKind,   \* "workflow", "agent" or "guardrail"
    dOrigin, \* "user", "bootstrap" (InMemoryStore) or "repo" (shipped files)
    dObj,    \* the heap of definition objects
    dCur,    \* the object stored under the id, 0 for none
    dHist,   \* the revisions recorded for the id
    dReq,    \* the request that a thread is in the middle of
    dDisk,   \* the state store: what the last successful persist wrote
    dBoots,  \* restarts so far
    dFaults  \* failed writes so far

dConst == <<dKind, dOrigin>>
dVars == <<dKind, dOrigin, dObj, dCur, dHist, dReq, dDisk, dBoots, dFaults>>

ObjIds == 1..(2 + Cardinality(Threads))
DStatuses == {"draft", "published", "archived"}

\* What a definition holds, as far as validation tells it apart: a graph that
\* passes validate_graph, one that does not, and the one that is shipped.
Contents == {"good", "bad", "seed"}

\* What a save of a new id finds; also the value of an unused object.
Blank == [version |-> 0, status |-> "draft", pub |-> 0, act |-> 0,
          content |-> "good"]

DIdle == [op |-> "idle", obj |-> 0]

Item == IF dCur = 0 THEN Blank ELSE dObj[dCur]

----------------------------------------------------------------------------
(* Revisions.                                                              *)

record_definition_revision(hist, action, it, flag) ==
    Append(hist, [action |-> action, version |-> it.version,
                  status |-> it.status, snap |-> it, flag |-> flag])

\* The revisions a request can name: by id, number or version, or the latest.
select_definition_revision == DOMAIN dHist

definition_next_version ==
    1 + Max({Item.version} \cup {dHist[i].version : i \in DOMAIN dHist})

\* The restored item is a draft with the snapshot's content and pointers.
restore_definition_snapshot(snap, next) ==
    [snap EXCEPT !.version = next, !.status = "draft"]

definition_latest_publish_revision(hist) ==
    LET flagged == {i \in DOMAIN hist :
                       \/ hist[i].flag
                       \/ /\ hist[i].action \in {"publish", "bootstrap"}
                          /\ hist[i].status = "published"}
        live == {i \in DOMAIN hist : hist[i].status = "published"}
    IN  IF flagged # {} THEN Max(flagged) ELSE Max({0} \cup live)

\* The published revision of an item, and the item and the revisions after a
\* missing pointer has been filled in: the revision found takes the item as its
\* snapshot when the item had no pointer and is published.
backfill_definition_published_pointer(it, hist) ==
    LET i == IF it.pub \in DOMAIN hist THEN it.pub
             ELSE IF it.status = "published"
                  THEN definition_latest_publish_revision(hist) ELSE 0
        new == [it EXCEPT !.pub = i]
    IN  IF i = 0 THEN [rev |-> 0, it |-> it, hist |-> hist]
        ELSE [rev |-> i, it |-> new,
              hist |-> IF it.pub = 0 /\ it.status = "published"
                       THEN [hist EXCEPT ![i].flag = TRUE, ![i].snap = new]
                       ELSE hist]

backfill_definition_active_pointer(it, hist) ==
    LET b == IF it.act \in DOMAIN hist
             THEN [rev |-> it.act, it |-> it, hist |-> hist]
             ELSE backfill_definition_published_pointer(it, hist)
    IN  IF b.rev = 0 THEN b ELSE [b EXCEPT !.it.act = b.rev]

\* The snapshot that is resolved for the id, as a set of at most one.
resolve_active_published_definition ==
    LET b == backfill_definition_published_pointer(Item, dHist)
    IN  IF dCur = 0 THEN {}
        ELSE IF b.rev # 0 THEN {b.hist[b.rev].snap}
        ELSE IF Item.status = "published" THEN {Item} ELSE {}

resolve_active_runtime_definition ==
    LET b == backfill_definition_active_pointer(Item, dHist)
    IN  IF dCur = 0 THEN {}
        ELSE IF b.rev # 0 THEN {b.hist[b.rev].snap}
        ELSE resolve_active_published_definition

----------------------------------------------------------------------------
(* Persistence.  A transaction writes the sections that changed; an error   *)
(* is logged and swallowed.                                                 *)

serialize_store_state(obj, cur, hist) ==
    [it |-> IF cur = 0 THEN Blank ELSE obj[cur], hist |-> hist]

\* All changed sections are written in one transaction.
save_state_sections(state) == dDisk' = state

persist_store_state ==
    \/ /\ save_state_sections(serialize_store_state(dObj', dCur', dHist'))
       /\ UNCHANGED dFaults
    \/ /\ dFaults + dBoots < MaxDisruptions /\ dFaults' = dFaults + 1
       /\ UNCHANGED dDisk

\* The objects the store or a request refers to; the others are garbage.
Reachable(cur, req) == {cur} \cup {req[t].obj : t \in Threads}

FreshObj == Min(ObjIds \ Reachable(dCur, dReq))

\* Write item it into object o, put o into the store (0 for a removal), record
\* a revision of it and persist.
Store(o, it, action, flag) ==
    /\ Len(dHist) < MaxRevisions
    /\ dCur' = o
    /\ dObj' = [i \in ObjIds |-> IF i = o THEN it
                  ELSE IF i \in Reachable(o, dReq') THEN dObj[i] ELSE Blank]
    /\ dHist' = record_definition_revision(dHist, action, it, flag)
    /\ persist_store_state
    /\ UNCHANGED <<dConst, dBoots>>

----------------------------------------------------------------------------
(* Save: look up and validate, then replace the object.  The checks of the  *)
(* security policy and of the models a graph names may refuse any save.     *)

BeginSave(t) ==
    /\ dReq[t] = DIdle
    /\ dReq' = [dReq EXCEPT ![t] = [op |-> "save", obj |-> dCur]]
    /\ UNCHANGED <<dConst, dObj, dCur, dHist, dDisk, dBoots, dFaults>>

save_workflow_definition(t) == dKind = "workflow" /\ BeginSave(t)
save_agent_definition(t) == dKind = "agent" /\ BeginSave(t)
save_guardrail_ruleset(t) == dKind = "guardrail" /\ BeginSave(t)

\* Mutant of SavedItem: an edit keeps the status of the item.
SavedKeepsStatus(e, c) == [e EXCEPT !.version = @ + 1, !.content = c]

\* The new object takes its fields from the object looked up, as it is now.
SavedItem(e, c) ==
    [e EXCEPT !.version = @ + 1, !.content = c,
              !.status = IF @ = "published" \/ e.pub # 0 THEN "draft" ELSE @]

FinishSave(t, c, next) ==
    LET o == dReq[t].obj
    IN  /\ dReq[t].op = "save"
        /\ dReq' = [dReq EXCEPT ![t] = next]
        /\ Store(FreshObj, SavedItem(IF o = 0 THEN Blank ELSE dObj[o], c),
                 "save", FALSE)

\* An import is a save that goes on with a publish of what is stored then.
Importing == [op |-> "import", obj |-> 0]

import_workflow_definition(t, c) ==
    dKind = "workflow" /\ FinishSave(t, c, Importing)
import_agent_definition(t, c) == dKind = "agent" /\ FinishSave(t, c, Importing)

----------------------------------------------------------------------------
(* Publish: look up and validate, then assign to the object looked up.     *)

\* A refusal ends the request; an import then keeps its draft.
BeginPublish(t, valid) ==
    /\ dReq[t] = DIdle \/ dReq[t].op = "import"
    /\ dReq' = [dReq EXCEPT ![t] = IF dCur # 0 /\ valid
                                   THEN [op |-> "publish", obj |-> dCur]
                                   ELSE DIdle]
    /\ UNCHANGED <<dConst, dObj, dCur, dHist, dDisk, dBoots, dFaults>>

\* ruleset: the security policy names no ruleset, or a published one.
publish_workflow_definition(t, ruleset) ==
    /\ dKind = "workflow"
    /\ BeginPublish(t, Item.content # "bad" /\ ruleset)

publish_agent_definition(t, ruleset) ==
    /\ dKind = "agent"
    /\ BeginPublish(t, ruleset /\ Item.content # "bad")

publish_guardrail_ruleset(t) == dKind = "guardrail" /\ BeginPublish(t, TRUE)

\* Both pointers move to the new revision, whose snapshot is the item with
\* those pointers.
FinishPublish(t) ==
    LET n == Len(dHist) + 1
        it == [dObj[dReq[t].obj] EXCEPT !.status = "published",
                                !.version = @ + 1, !.pub = n, !.act = n]
    IN  /\ dReq[t].op = "publish"
        /\ dReq' = [dReq EXCEPT ![t] = DIdle]
        /\ Store(dReq[t].obj, it, "publish", TRUE)

----------------------------------------------------------------------------
(* The handlers that assign to the stored object, or replace it, at once.  *)

Update(it, action) ==
    dCur # 0 /\ UNCHANGED dReq /\ Store(dCur, it, action, FALSE)

Unpublished == [Item EXCEPT !.status = "draft", !.version = @ + 1, !.pub = 0]

unpublish_workflow_definition ==
    dKind = "workflow" /\ Update(Unpublished, "unpublish")
unpublish_agent_definition == dKind = "agent" /\ Update(Unpublished, "unpublish")

Archived == [Item EXCEPT !.status = "archived", !.version = @ + 1,
                         !.pub = 0, !.act = 0]

archive_workflow_definition == dKind = "workflow" /\ Update(Archived, "archive")
archive_agent_definition == dKind = "agent" /\ Update(Archived, "archive")
archive_guardrail_ruleset == dKind = "guardrail" /\ Update(Archived, "archive")

\* The revisions outlive the definition; the last one is its final state.
Delete == dCur # 0 /\ UNCHANGED dReq /\ Store(0, Item, "delete", FALSE)

delete_workflow_definition == dKind = "workflow" /\ Delete
delete_agent_definition == dKind = "agent" /\ Delete
delete_guardrail_ruleset == dKind = "guardrail" /\ Delete

\* A rollback also brings a deleted definition back.
rollback_definition_to_revision(i) ==
    /\ i \in select_definition_revision
    /\ UNCHANGED dReq
    /\ Store(FreshObj,
             restore_definition_snapshot(dHist[i].snap, definition_next_version),
             "rollback", FALSE)

rollback_workflow_definition(i) ==
    dKind = "workflow" /\ rollback_definition_to_revision(i)
rollback_agent_definition(i) ==
    dKind = "agent" /\ rollback_definition_to_revision(i)
rollback_guardrail_ruleset(i) ==
    dKind = "guardrail" /\ rollback_definition_to_revision(i)

\* Only a revision recorded as published may be activated; the item is
\* otherwise left alone, whatever its status.
activate_definition_revision(i) ==
    /\ i \in select_definition_revision /\ dHist[i].status = "published"
    /\ Update([Item EXCEPT !.act = i], "activate")

activate_workflow_definition(i) ==
    dKind = "workflow" /\ activate_definition_revision(i)
activate_agent_definition(i) ==
    dKind = "agent" /\ activate_definition_revision(i)
activate_guardrail_ruleset(i) ==
    dKind = "guardrail" /\ activate_definition_revision(i)

\* A request for the runtime definition fills in a missing active pointer of
\* the stored object, and does not persist.
ReadRuntime ==
    LET b == backfill_definition_active_pointer(Item, dHist)
    IN  /\ dCur # 0 /\ b.it # Item
        /\ dObj' = [dObj EXCEPT ![dCur] = b.it]
        /\ dHist' = b.hist
        /\ UNCHANGED <<dConst, dCur, dReq, dDisk, dBoots, dFaults>>

\* A template or playbook puts a fresh draft under the id that the request
\* names, in use or not.
Instantiate(c) ==
    /\ UNCHANGED dReq
    /\ Store(FreshObj, [Blank EXCEPT !.version = 1, !.content = c],
             "instantiate", FALSE)

instantiate_agent_template(c) == dKind = "agent" /\ Instantiate(c)
instantiate_workflow_template(c) == dKind = "workflow" /\ Instantiate(c)
instantiate_playbook(c) == dKind = "workflow" /\ Instantiate(c)

----------------------------------------------------------------------------
(* Startup.  Each step maps an item and its revisions (d.it, d.hist) to     *)
(* what it makes of them.                                                   *)

SeedItem ==
    [Blank EXCEPT !.version = 1, !.status = "published", !.content = "seed"]

\* A shipped definition that is not in the store, new or deleted, is added.
merge_missing_bootstrap_content(d) ==
    IF dOrigin # "user" /\ d.it = Blank THEN [d EXCEPT !.it = SeedItem] ELSE d

\* LOCUS_REPO_AGENTS_UPDATE_EXISTING (update) refreshes a shipped agent.
sync_repo_agents_into_store(d, update) ==
    IF dKind = "agent" /\ dOrigin = "repo" /\ update
    THEN [d EXCEPT !.it.status = "published", !.it.content = "seed",
                   !.it.version = Max({@, SeedItem.version})]
    ELSE d

\* A shipped workflow is refreshed always; a changed graph or a missing
\* pointer gets a new published revision.
sync_repo_workflows_into_store(d) ==
    LET n == Len(d.hist) + 1
        it == [d.it EXCEPT !.status = "published", !.content = "seed",
                           !.version = Max({@, SeedItem.version})]
        moved == [it EXCEPT !.pub = n, !.act = n]
    IN  IF dKind # "workflow" \/ dOrigin # "repo" \/ d.new THEN d
        ELSE IF d.it.content = "seed" /\ d.it.pub # 0 THEN [d EXCEPT !.it = it]
        ELSE [d EXCEPT !.it = moved, !.hist =
                record_definition_revision(@, "seed-sync", moved, TRUE)]

ensure_definition_history_seeded(d) ==
    LET h == IF d.hist # <<>> THEN d.hist
             ELSE record_definition_revision(<<>>, "bootstrap", d.it, FALSE)
        p == backfill_definition_published_pointer(d.it, h)
    IN  IF d.it = Blank THEN d
        ELSE backfill_definition_active_pointer(p.it, p.hist)

apply_store_state(disk) ==
    [it |-> disk.it, hist |-> disk.hist, new |-> disk.it = Blank]

Started(disk, update) ==
    LET d == merge_missing_bootstrap_content(apply_store_state(disk))
    IN  ensure_definition_history_seeded(sync_repo_workflows_into_store(
            sync_repo_agents_into_store(d, update)))

\* The process stops, and the requests it was serving with it, and starts
\* from what the state store holds.
startup_initialize_state(update) ==
    LET d == Started(dDisk, update)
    IN  /\ dFaults + dBoots < MaxDisruptions /\ dBoots' = dBoots + 1
        /\ Len(d.hist) <= MaxRevisions
        /\ dCur' = IF d.it = Blank THEN 0 ELSE 1
        /\ dObj' = [o \in ObjIds |-> IF o = 1 THEN d.it ELSE Blank]
        /\ dHist' = d.hist
        /\ dReq' = [t \in Threads |-> DIdle]
        /\ persist_store_state
        /\ UNCHANGED dConst

----------------------------------------------------------------------------
\* After the first start, on an empty state store.
DInit ==
    /\ dKind \in {"workflow", "agent", "guardrail"}
    /\ dOrigin \in IF dKind = "workflow" THEN {"user", "bootstrap", "repo"}
                   ELSE IF dKind = "agent" THEN {"user", "repo"}
                   ELSE {"user", "bootstrap"}
    /\ dReq = [t \in Threads |-> DIdle] /\ dBoots = 0 /\ dFaults = 0
    /\ LET d == Started([it |-> Blank, hist |-> <<>>], FALSE)
       IN  /\ dCur = IF d.it = Blank THEN 0 ELSE 1
           /\ dObj = [o \in ObjIds |-> IF o = 1 THEN d.it ELSE Blank]
           /\ dHist = d.hist
    /\ dDisk = serialize_store_state(dObj, dCur, dHist)

\* What requests bring; a ruleset has no graph.
Edits == IF dKind = "guardrail" THEN {"good"} ELSE {"good", "bad"}

DNext ==
    \/ \E t \in Threads :
         \/ save_workflow_definition(t)
         \/ save_agent_definition(t)
         \/ save_guardrail_ruleset(t)
         \/ \E c \in Edits :
              \/ FinishSave(t, c, DIdle)
              \/ import_workflow_definition(t, c)
              \/ import_agent_definition(t, c)
         \/ \E ruleset \in BOOLEAN : publish_workflow_definition(t, ruleset)
         \/ \E ruleset \in BOOLEAN : publish_agent_definition(t, ruleset)
         \/ publish_guardrail_ruleset(t)
         \/ FinishPublish(t)
    \/ unpublish_workflow_definition \/ unpublish_agent_definition
    \/ archive_workflow_definition \/ archive_agent_definition
    \/ archive_guardrail_ruleset
    \/ delete_workflow_definition \/ delete_agent_definition
    \/ delete_guardrail_ruleset
    \/ \E i \in DOMAIN dHist :
         \/ rollback_workflow_definition(i)
         \/ rollback_agent_definition(i)
         \/ rollback_guardrail_ruleset(i)
         \/ activate_workflow_definition(i)
         \/ activate_agent_definition(i)
         \/ activate_guardrail_ruleset(i)
    \/ ReadRuntime
    \/ \E c \in Edits :
         \/ instantiate_agent_template(c)
         \/ instantiate_workflow_template(c)
         \/ instantiate_playbook(c)
    \/ \E update \in BOOLEAN : startup_initialize_state(update)

----------------------------------------------------------------------------
DItem == [version : 0..(MaxRevisions + 1), status : DStatuses,
          pub : 0..MaxRevisions, act : 0..MaxRevisions, content : Contents]

\* The heap holds definitions, and so does every recorded snapshot.
DTypeOK ==
    /\ dObj \in [ObjIds -> DItem] /\ dCur \in {0} \cup ObjIds
    /\ dHist \in Seq([action : {"save", "publish", "unpublish", "archive",
                                "delete", "rollback", "activate", "instantiate",
                                "seed-sync", "bootstrap"},
                      version : 0..(MaxRevisions + 1), status : DStatuses,
                      snap : DItem, flag : BOOLEAN])

\* What the runtime resolves for a workflow or an agent passed the validation
\* of a publish, or is shipped: no order of edits, rollbacks, activations,
\* imports, racing requests and restarts lets a draft graph run.
ServedGraphsWereValidated ==
    dKind # "guardrail" =>
        \A it \in resolve_active_runtime_definition
                  \cup resolve_active_published_definition :
            it.content # "bad"

\* A pointer of a stored definition names a revision of its own history that
\* was recorded as published, also after rollbacks, which restore the pointers
\* of an old snapshot, and after restarts from an older state store.
PointersNamePublishedRevisions ==
    dCur # 0 => \A p \in {Item.pub, Item.act} \ {0} :
                   p \in DOMAIN dHist /\ dHist[p].status = "published"

\* A published definition has its pointer, so that the backfill of a request
\* that only reads it never rewrites the snapshot of a recorded revision.
ReadsRewriteNoRevision ==
    dCur # 0 /\ Item.status = "published" => Item.pub # 0

\* Saving a draft changes nothing of what the runtime resolves, unless the
\* object that the save looked up has been replaced or removed meanwhile.
EditsDoNotChangeWhatRuns ==
    [][\A t \in Threads :
         /\ dBoots' = dBoots
         /\ dReq[t].op = "save" /\ dReq'[t] # dReq[t] /\ dReq[t].obj = dCur
         => resolve_active_runtime_definition'
            = resolve_active_runtime_definition]_dVars

\* While the process runs no handler takes a revision away or rewrites it:
\* a rollback always finds what was recorded.
HistoryIsKept ==
    [][dBoots' = dBoots => IsPrefix(dHist, dHist')]_dVars
=============================================================================
