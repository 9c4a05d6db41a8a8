---------------------------- MODULE LocalModels ----------------------------
(***************************************************************************)
(* Downloading and deleting local models through Ollama.                   *)
(*                                                                         *)
(* A pull is a background thread that reads progress lines from Ollama and *)
(* records them in a table under a lock; a deletion asks Ollama first and  *)
(* drops the table's entry afterwards.  A request's steps are separated    *)
(* where it talks to Ollama.  The table lives in memory only.              *)
(*                                                                         *)
(* Left out: sizes and labels of the catalog, the text of progress lines.  *)
(***************************************************************************)
EXTENDS Integers, FiniteSets

CONSTANTS
    VCatalog,    \* models that may be pulled
    VOthers,     \* models asked for that are not in the catalog
    VThreads,    \* threads serving requests
    VWorkers,    \* download threads
    MaxAsked,    \* bound on requests
    MaxLines,    \* bound on progress lines of one download
    MaxOutages   \* bound on outages and restarts

ASSUME LocalModelsBounds == MaxAsked \in Nat /\ MaxLines \in Nat /\ MaxOutages \in Nat

VARIABLES
    vPulls,   \* the table: [model -> status], "none" when it has no entry
    vOllama,  \* [installed: models Ollama holds, up: whether it answers]
    vWorker,  \* download threads: [model, stage, lines]
    vCall,    \* what each thread is doing
    vPast     \* history

vVars == <<vPulls, vOllama, vWorker, vCall, vPast>>

VFree == [op |-> "idle"]
VNoWorker == [stage |-> "none"]
PullingWorkers(model) == {w \in VWorkers : vWorker[w].stage # "none" /\ vWorker[w].model = model}

-----------------------------------------------------------------------------
(* start_pull: the catalog, whether Ollama answers, and then the table. *)

is_catalog_model(model) == model \in VCatalog

ask_pull(c) ==
    /\ vCall[c].op = "idle" /\ vPast.asked < MaxAsked
    /\ \E model \in VCatalog \cup VOthers :
          vCall' = IF is_catalog_model(model) /\ vOllama.up
                   THEN [vCall EXCEPT ![c] = [op |-> "pull", model |-> model]]
                   ELSE vCall
    /\ vPast' = [vPast EXCEPT !.asked = @ + 1]
    /\ UNCHANGED <<vPulls, vOllama, vWorker>>

(* Mutant of start_pull: a download under way is not noticed. *)
StartAnotherPull(c) ==
    /\ vCall[c].op = "pull"
    /\ \E w \in VWorkers :
          /\ vWorker[w].stage = "none"
          /\ vPulls' = [vPulls EXCEPT ![vCall[c].model] = "downloading"]
          /\ vWorker' = [vWorker EXCEPT ![w] = [stage |-> "connect", model |-> vCall[c].model, lines |-> 0]]
    /\ vCall' = [vCall EXCEPT ![c] = VFree]
    /\ UNCHANGED <<vOllama, vPast>>

start_pull(c) ==
    /\ vCall[c].op = "pull"
    /\ LET model == vCall[c].model
       IN \/ /\ vPulls[model] = "downloading"
             /\ UNCHANGED <<vPulls, vWorker>>
          \/ /\ vPulls[model] # "downloading"
             /\ \E w \in VWorkers :
                   /\ vWorker[w].stage = "none"
                   /\ vWorker' = [vWorker EXCEPT ![w] = [stage |-> "connect", model |-> model, lines |-> 0]]
             /\ vPulls' = [vPulls EXCEPT ![model] = "downloading"]
    /\ vCall' = [vCall EXCEPT ![c] = VFree]
    /\ UNCHANGED <<vOllama, vPast>>

-----------------------------------------------------------------------------
(* _run_pull *)

(* A progress line creates the table's entry again if someone dropped it.     *)
pull_line(w) ==
    /\ vWorker[w].stage \in {"connect", "stream"} /\ vOllama.up
    /\ vWorker[w].lines < MaxLines
    /\ vPulls' = [vPulls EXCEPT ![vWorker[w].model] = "downloading"]
    /\ vWorker' = [vWorker EXCEPT ![w].stage = "stream", ![w].lines = @ + 1]
    /\ UNCHANGED <<vOllama, vCall, vPast>>

(* Ollama has the model; the thread has not heard the end of the stream yet.  *)
download_completes(w) ==
    /\ vWorker[w].stage \in {"connect", "stream"} /\ vOllama.up
    /\ vOllama' = [vOllama EXCEPT !.installed = @ \cup {vWorker[w].model}]
    /\ vWorker' = [vWorker EXCEPT ![w].stage = "complete"]
    /\ UNCHANGED <<vPulls, vCall, vPast>>

pull_ready(w) ==
    /\ vWorker[w].stage = "complete"
    /\ vPulls' = [vPulls EXCEPT ![vWorker[w].model] = "ready"]
    /\ vWorker' = [vWorker EXCEPT ![w] = VNoWorker]
    /\ UNCHANGED <<vOllama, vCall, vPast>>

(* An error line, an outage, or an hour without a byte. *)
pull_error(w) ==
    /\ vWorker[w].stage \in {"connect", "stream"}
    /\ vPulls' = [vPulls EXCEPT ![vWorker[w].model] = "error"]
    /\ vWorker' = [vWorker EXCEPT ![w] = VNoWorker]
    /\ UNCHANGED <<vOllama, vCall, vPast>>

-----------------------------------------------------------------------------
(* delete_model *)

(* Ollama deletes the model, or says it has none, or does not answer.         *)
ask_delete(c) ==
    /\ vCall[c].op = "idle" /\ vPast.asked < MaxAsked
    /\ \E model \in VCatalog \cup VOthers :
          LET asks == is_catalog_model(model) /\ vOllama.up /\ model \in vOllama.installed
          IN /\ vCall' = IF asks THEN [vCall EXCEPT ![c] = [op |-> "delete", model |-> model]] ELSE vCall
             /\ vOllama' = IF asks THEN [vOllama EXCEPT !.installed = @ \ {model}] ELSE vOllama
             /\ vPast' = [vPast EXCEPT !.asked = @ + 1,
                                       !.crossed = IF asks /\ (PullingWorkers(model) # {} \/ \E d \in VThreads :
                                                       vCall[d].op = "delete" /\ vCall[d].model = model)
                                                   THEN @ \cup {model} ELSE @]
    /\ UNCHANGED <<vPulls, vWorker>>

drop_pull(c) ==
    /\ vCall[c].op = "delete"
    /\ vPulls' = [vPulls EXCEPT ![vCall[c].model] = "none"]
    /\ vCall' = [vCall EXCEPT ![c] = VFree]
    /\ vPast' = [vPast EXCEPT !.crossed = IF PullingWorkers(vCall[c].model) # {}
                                          THEN @ \cup {vCall[c].model} ELSE @]
    /\ UNCHANGED <<vOllama, vWorker>>

-----------------------------------------------------------------------------
(* Ollama stops and starts; the backend stops, which takes its threads and    *)
(* the table with it.                                                         *)
OllamaTurns ==
    /\ vPast.outages < MaxOutages
    /\ vOllama' = [vOllama EXCEPT !.up = ~@]
    /\ vPast' = [vPast EXCEPT !.outages = @ + 1]
    /\ UNCHANGED <<vPulls, vWorker, vCall>>

BackendRestarts ==
    /\ vPast.outages < MaxOutages
    /\ vPulls' = [m \in VCatalog |-> "none"]
    /\ vWorker' = [w \in VWorkers |-> VNoWorker]
    /\ vCall' = [c \in VThreads |-> VFree]
    /\ vPast' = [vPast EXCEPT !.outages = @ + 1, !.crossed = {}]
    /\ UNCHANGED vOllama

-----------------------------------------------------------------------------
VInit ==
    /\ vPulls = [m \in VCatalog |-> "none"]
    /\ vOllama = [installed |-> {}, up |-> TRUE]
    /\ vWorker = [w \in VWorkers |-> VNoWorker]
    /\ vCall = [c \in VThreads |-> VFree]
    /\ vPast = [asked |-> 0, outages |-> 0, crossed |-> {}]

VWorkerStep == \E w \in VWorkers : pull_line(w) \/ download_completes(w) \/ pull_ready(w) \/ pull_error(w)

VNext ==
    \/ VWorkerStep
    \/ \E c \in VThreads : ask_pull(c) \/ start_pull(c) \/ ask_delete(c) \/ drop_pull(c)
    \/ OllamaTurns \/ BackendRestarts

(* A download thread runs until it ends: its connection times out.            *)
VSpec == VInit /\ [][VNext]_vVars /\ WF_vVars(VWorkerStep)

-----------------------------------------------------------------------------
(* Types. *)
VTypeOK ==
    /\ vPulls \in [VCatalog -> {"none", "downloading", "ready", "error"}]
    /\ vOllama.installed \subseteq VCatalog
    /\ \A w \in VWorkers : vWorker[w].stage \in {"none", "connect", "stream", "complete"}
    /\ \A c \in VThreads : vCall[c].op \in {"idle", "pull", "delete"}

(* A model shown as downloading has a thread that downloads it; a later pull  *)
(* that returns the current state instead of starting is not left waiting for *)
(* nothing (start_pull, _run_pull).                                           *)
DownloadingHasAWorker ==
    \A m \in VCatalog : vPulls[m] = "downloading" => PullingWorkers(m) # {}

(* No model is downloaded by two threads (start_pull, _run_pull), unless a    *)
(* deletion crossed a download of it.                                         *)
OneDownloadPerModel ==
    \A m \in VCatalog \ vPast.crossed : Cardinality(PullingWorkers(m)) <= 1

(* A model shown as ready is with Ollama, unless a deletion of it is under    *)
(* way or crossed a download of it (_run_pull, delete_model).                 *)
ReadyModelsAreInstalled ==
    \A m \in VCatalog \ vPast.crossed :
        vPulls[m] = "ready" /\ ~(\E c \in VThreads : vCall[c].op = "delete" /\ vCall[c].model = m)
        => m \in vOllama.installed

(* A download ends: nothing stays "downloading" for good, though progress     *)
(* lines may bring back an entry that a deletion dropped.                     *)
DownloadsEnd ==
    \A m \in VCatalog : (vPulls[m] = "downloading") ~> (vPulls[m] # "downloading")
=============================================================================
