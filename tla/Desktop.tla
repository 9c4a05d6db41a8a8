------------------------------- MODULE Desktop -------------------------------
(***************************************************************************)
(* The native (Dockerless) install: the plan of local services             *)
(* (locus_tooling/native_launcher.py, build_native_plan), the supervisor    *)
(* that starts and stops them (NativeSupervisor), the desktop process that  *)
(* serves the backend beside them (desktop.py) and the first-run thread     *)
(* that fetches their binaries (desktop_firstrun.py, native_binaries.py).   *)
(*                                                                          *)
(* Two threads matter: the main thread starts the frontend, serves the      *)
(* backend and tears everything down; the background thread fetches, plans  *)
(* again and starts the other services.  The process may also be killed at  *)
(* any point, and the next launch finds what it left on disk and running.   *)
(* A process is "running" from the spawn and "listening" once a health      *)
(* probe would succeed; a port that an earlier process still holds makes a  *)
(* new process exit at once while the probe of its port succeeds.           *)
(***************************************************************************)
EXTENDS Naturals, Sequences, FiniteSets, SequencesExt

CONSTANTS BHosts,      \* hosts: [os, entry, path, ui]: binaries on PATH, a built UI
          MaxLaunches, \* launches of the application
          MaxWoes      \* failed downloads, killed processes, dead services

ASSUME DesktopBounds ==
    /\ \A h \in BHosts : h.os \in {"posix", "nt"} /\ h.entry \in {"desktop", "native-up"}
    /\ MaxLaunches \in Nat \ {0} /\ MaxWoes \in Nat

VARIABLES
    bHost,   \* the host
    bDisk,   \* bin_dir, the database directory, the browsers and the toolchain
    bProc,   \* service -> "none", "running" or "listening"
    bMain,   \* the main thread
    bInfra,  \* the background thread
    bSup,    \* the supervisors: [plan, at, phase, procs]
    bPast    \* history

bVars == <<bHost, bDisk, bProc, bMain, bInfra, bSup, bPast>>

BVersions == 1..2  \* of the application, and so of the pinned downloads
BServices == {"postgres", "nats", "ollama", "redis", "backend", "frontend", "agent"}
BRequired == {"postgres", "nats", "backend"}
-----------------------------------------------------------------------------
(* The plan *)

(* The bundled bin directory first, then PATH. *)
bundled_or_on_path(b) == b \in bDisk.bin \/ b \in bHost.path

One(name, cond) == IF cond THEN <<name>> ELSE <<>>

(* The database and the bus, and the environment that follows the database.  *)
(* A server install refuses to start without them.                           *)
data_services ==
    One("postgres", bundled_or_on_path("postgres")) \o One("nats", bundled_or_on_path("nats"))

data_env ==
    LET pg == bundled_or_on_path("postgres")
    IN  [state |-> IF pg THEN "postgres" ELSE "sqlite", long_term |-> pg, graph |-> pg]

(* The model server, the cache, the backend unless this process serves it,   *)
(* the UI and, beside a managed backend, the agents.                         *)
app_services(desktop) ==
    One("ollama", bundled_or_on_path("ollama")) \o One("redis", bundled_or_on_path("redis"))
    \o One("backend", ~desktop) \o One("frontend", bundled_or_on_path("node") /\ bHost.ui)

agent_service_specs(desktop) == One("agent", ~desktop)

build_native_plan(desktop) ==
    [ok |-> desktop \/ {"postgres", "nats"} \subseteq ToSet(data_services),
     services |-> data_services \o app_services(desktop) \o agent_service_specs(desktop),
     env |-> data_env]

(* run_desktop_supervisor pins the state store whatever the plan says. *)
desktop_env(env) == [state |-> "sqlite", long_term |-> FALSE, graph |-> FALSE]
-----------------------------------------------------------------------------
BNoSup == [plan |-> <<>>, at |-> 1, phase |-> "off", procs |-> <<>>]
BNoMain == [stage |-> "gone", sups |-> <<>>, names |-> <<>>, passes |-> 0,
            env |-> [state |-> "none", long_term |-> FALSE, graph |-> FALSE]]
BNoInfra == [stage |-> "off", at |-> 1, part |-> 0, failed |-> FALSE]

(* A component of the Windows toolchain lives in a directory of its own; the *)
(* embedded Python has one per version, BusyBox one for all.                 *)
BDirs == {<<"busybox", 0>>} \cup ({"python-embed"} \X BVersions)
toolchain_component_dir(comp, version) == <<comp, IF comp = "busybox" THEN 0 ELSE version>>

Running(main) == main.stage \notin {"gone"}
Woe == bPast.woes < MaxWoes
WithWoe == [bPast EXCEPT !.woes = @ + 1]

(* The process ends: its threads with it; the services it leaves go on. *)
ProcessEnds(how) ==
    /\ bMain' = BNoMain
    /\ bInfra' = BNoInfra
    /\ bSup' = [s \in DOMAIN bSup |-> BNoSup]
    /\ bPast' = [bPast EXCEPT !.ended = how, !.left = @ \cup bPast.ours, !.ours = {},
                              !.woes = IF how = "killed" THEN @ + 1 ELSE @]

(* A launch; the application may have another version than at the last one. *)
Launch(version) ==
    LET desktop == bHost.entry = "desktop"
        plan == build_native_plan(desktop)
        fast == IF desktop THEN SelectSeq(plan.services, LAMBDA s : s = "frontend")
                ELSE plan.services
        env == IF desktop THEN desktop_env(plan.env) ELSE plan.env
    IN  /\ ~Running(bMain)
        /\ bPast.launches < MaxLaunches
        /\ bPast.launches = 0 => version = 1
        /\ plan.ok
        /\ bMain' = [BNoMain EXCEPT !.stage = "starting", !.env = env]
        /\ bSup' = [bSup EXCEPT !["fast"] = [BNoSup EXCEPT !.plan = fast, !.phase = "next"]]
        /\ bPast' = [bPast EXCEPT !.launches = @ + 1, !.version = version, !.ended = "no",
                                  !.down = @ \/ version < bPast.version,
                                  !.stores = @ \cup {<<bHost.entry, env.state>>},
                                  !.seen = {}, !.late = {}, !.left = {}, !.asked = FALSE,
                                  !.detached = FALSE]
        /\ UNCHANGED <<bHost, bDisk, bProc, bInfra>>

(* native-up refuses to start without Postgres or NATS. *)
native_up_blocked ==
    /\ ~Running(bMain)
    /\ bPast.launches < MaxLaunches
    /\ ~build_native_plan(bHost.entry = "desktop").ok
    /\ bPast' = [bPast EXCEPT !.launches = @ + 1, !.ended = "blocked"]
    /\ UNCHANGED <<bHost, bDisk, bProc, bMain, bInfra, bSup>>
-----------------------------------------------------------------------------
(* NativeSupervisor *)

Service(u) == bSup[u].plan[bSup[u].at]

(* The thread of u is at work: a shutdown holds the main thread. *)
Starts(u) == u = "fast" => bMain.stage = "starting"

(* A shutdown has begun and will take no further list of u's processes. *)
PastStop(u) == bMain.stage = "stopping" /\ ~Contains(bMain.sups, u)

(* Steps before the start (initdb, unless the database directory exists) and *)
(* the spawn.  pg_ctl starts Postgres as a server of its own and exits.      *)
start_service(u) ==
    LET s == Service(u)
        initdb == s = "postgres" /\ bundled_or_on_path("initdb")
        data == bDisk.db \/ initdb
        works == (s = "nats" => "nats" \notin bDisk.broken) /\ (s = "postgres" => data)
        daemon == s = "postgres" /\ bundled_or_on_path("pg_ctl")
        lives == bProc[s] = "none" /\ works
    IN  /\ Starts(u)
        /\ bSup[u].phase = "next"
        /\ bSup[u].at <= Len(bSup[u].plan)
        /\ bDisk' = [bDisk EXCEPT !.db = @ \/ initdb]
        /\ bProc' = IF lives THEN [bProc EXCEPT ![s] = "running"] ELSE bProc
        /\ bSup' = [bSup EXCEPT ![u].phase = "wait", ![u].procs = Append(@, s)]
        /\ bPast' = [bPast EXCEPT !.ours = IF lives /\ ~daemon THEN @ \cup {s} ELSE @,
                                  !.late = IF PastStop(u) THEN @ \cup {s} ELSE @,
                                  !.detached = @ \/ (lives /\ daemon)]
        /\ UNCHANGED <<bHost, bMain, bInfra>>

(* The probe succeeds, and the steps after the start run. *)
health_passes(u) ==
    /\ Starts(u)
    /\ bSup[u].phase = "wait"
    /\ bProc[Service(u)] = "listening"
    /\ bSup' = [bSup EXCEPT ![u].phase = "next", ![u].at = @ + 1]
    /\ bPast' = [bPast EXCEPT !.seen = @ \cup {Service(u)}]
    /\ UNCHANGED <<bHost, bDisk, bProc, bMain, bInfra>>

HealthFails(u, required) ==
    /\ Starts(u)
    /\ bSup[u].phase = "wait"
    /\ bProc[Service(u)] # "listening"
    /\ bSup' = [bSup EXCEPT ![u] = IF required THEN [@ EXCEPT !.phase = "stopping"]
                                   ELSE [@ EXCEPT !.phase = "next", !.at = @ + 1]]
    /\ UNCHANGED <<bHost, bDisk, bProc, bMain, bInfra, bPast>>

(* The time is up: stop everything for a required service, or go on. *)
health_times_out(u) == HealthFails(u, Service(u) \in BRequired)

(* The processes that terminating s ends.  On Windows it is the tree of s;   *)
(* elsewhere it is the process group of s, which is that of the application: *)
(* _default_spawn starts no session of its own.                              *)
terminate_tree(s) == IF bHost.os = "nt" THEN {s} \cap bPast.ours ELSE bPast.ours

(* The signal to the group reaches the application as well. *)
Signalled == bHost.os # "nt"

Killed(dead) ==
    bProc' = [s \in BServices |-> IF s \in dead THEN "none" ELSE bProc[s]]

(* The supervisors that a shutdown stops: the frontend's is listed once it   *)
(* has started, the other before it starts.                                  *)
live_supervisors ==
    SelectSeq(<<"fast", "deferred">>,
              LAMBDA u : IF u = "fast" THEN bSup[u].phase = "done" ELSE bSup[u].phase # "off")

Stopping(main, passes) ==
    [main EXCEPT !.stage = "stopping", !.sups = live_supervisors, !.names = <<>>,
                 !.passes = passes]

(* The thread that starts services gives up and stops them, last one first;  *)
(* the application's handler then takes over if the signal reached it, and   *)
(* native-up, which has no handler, ends.                                    *)
stop_after_failure(u) ==
    LET procs == bSup[u].procs
        dead == terminate_tree(Last(procs))
    IN  /\ bSup[u].phase = "stopping"
        /\ procs # <<>>
        /\ Killed(dead)
        /\ bHost.entry = "native-up" => ~Signalled
        /\ bSup' = [bSup EXCEPT ![u].procs = Front(@)]
        /\ bMain' = IF Signalled /\ bMain.stage # "stopping" THEN Stopping(bMain, 1) ELSE bMain
        /\ bPast' = [bPast EXCEPT !.ours = @ \ dead]
        /\ UNCHANGED <<bHost, bDisk, bInfra>>

native_up_signals_itself(u) ==
    /\ bSup[u].phase = "stopping"
    /\ bHost.entry = "native-up" /\ Signalled
    /\ Killed(bPast.ours)
    /\ bMain' = BNoMain
    /\ bSup' = [v \in DOMAIN bSup |-> BNoSup]
    /\ bPast' = [bPast EXCEPT !.ours = {}, !.ended = "failed"]
    /\ UNCHANGED <<bHost, bDisk, bInfra>>

(* NativeLauncherError: it ends native-up and is logged by the background    *)
(* thread; the frontend is optional, so the desktop's main thread meets none.*)
start_all_raises(u) ==
    /\ bSup[u].phase = "stopping"
    /\ bSup[u].procs = <<>>
    /\ IF bHost.entry = "native-up"
       THEN ProcessEnds("failed")
       ELSE /\ bInfra' = [bInfra EXCEPT !.stage = "failed"]
            /\ bSup' = [bSup EXCEPT ![u].phase = "done"]
            /\ UNCHANGED <<bMain, bPast>>
    /\ UNCHANGED <<bHost, bDisk, bProc>>

(* native-up prints the status and ends; the services stay. *)
start_all_returns(u) ==
    /\ Starts(u)
    /\ bSup[u].phase = "next"
    /\ bSup[u].at > Len(bSup[u].plan)
    /\ IF bHost.entry = "native-up"
       THEN ProcessEnds("returned")
       ELSE /\ bSup' = [bSup EXCEPT ![u].phase = "done"]
            /\ bInfra' = IF u = "deferred" THEN [bInfra EXCEPT !.stage = "done"]
                         ELSE [bInfra EXCEPT !.stage = "fetch"]
            /\ bMain' = IF u = "fast" THEN [bMain EXCEPT !.stage = "serving"] ELSE bMain
            /\ UNCHANGED bPast
    /\ UNCHANGED <<bHost, bDisk, bProc>>
-----------------------------------------------------------------------------
(* Shutdown *)

(* SIGTERM, SIGINT or /system/shutdown: one pass over the live supervisors;  *)
(* a backend that cannot serve: the finally block and then the exit hook.    *)
quit_asked ==
    /\ bHost.entry = "desktop"
    /\ bMain.stage \in {"starting", "serving"}
    /\ bMain' = Stopping(bMain, 1)
    /\ bPast' = [bPast EXCEPT !.asked = TRUE]
    /\ UNCHANGED <<bHost, bDisk, bProc, bInfra, bSup>>

backend_fails ==
    /\ bHost.entry = "desktop"
    /\ bMain.stage = "serving"
    /\ Woe
    /\ bMain' = Stopping(bMain, 2)
    /\ bPast' = [WithWoe EXCEPT !.asked = TRUE]
    /\ UNCHANGED <<bHost, bDisk, bProc, bInfra, bSup>>

(* Mutant of stop_all: the list is the supervisor's first service. *)
StopFirst ==
    /\ bMain.stage = "stopping" /\ bMain.names = <<>> /\ bMain.sups # <<>>
    /\ bMain' = [bMain EXCEPT !.sups = Tail(@),
                              !.names = SelectSeq(bSup[Head(bMain.sups)].procs,
                                  LAMBDA s : s = bSup[Head(bMain.sups)].plan[1])]
    /\ UNCHANGED <<bHost, bDisk, bProc, bInfra, bSup, bPast>>

(* stop_all takes the list of its processes... *)
stop_all ==
    /\ bMain.stage = "stopping" /\ bMain.names = <<>> /\ bMain.sups # <<>>
    /\ bMain' = [bMain EXCEPT !.sups = Tail(@), !.names = bSup[Head(bMain.sups)].procs]
    /\ UNCHANGED <<bHost, bDisk, bProc, bInfra, bSup, bPast>>

(* ... and terminates each one that nobody has taken out meanwhile. *)
stop_next ==
    LET s == Last(bMain.names)
        u == IF Contains(bSup["fast"].procs, s) THEN "fast" ELSE "deferred"
        dead == IF Contains(bSup[u].procs, s) THEN terminate_tree(s) ELSE {}
    IN  /\ bMain.stage = "stopping" /\ bMain.names # <<>>
        /\ Killed(dead)
        /\ bMain' = [bMain EXCEPT !.names = Front(@)]
        /\ bSup' = [bSup EXCEPT ![u].procs = Remove(@, s)]
        /\ bPast' = [bPast EXCEPT !.ours = @ \ dead]
        /\ UNCHANGED <<bHost, bDisk, bInfra>>

stop_again ==
    /\ bMain.stage = "stopping" /\ bMain.names = <<>> /\ bMain.sups = <<>>
    /\ bMain.passes > 1
    /\ bMain' = Stopping(bMain, bMain.passes - 1)
    /\ UNCHANGED <<bHost, bDisk, bProc, bInfra, bSup, bPast>>

exit_process ==
    /\ bMain.stage = "stopping" /\ bMain.names = <<>> /\ bMain.sups = <<>>
    /\ bMain.passes = 1
    /\ ProcessEnds("quit")
    /\ UNCHANGED <<bHost, bDisk, bProc>>
-----------------------------------------------------------------------------
(* The background thread: sidecars, toolchain, browser, services *)

BTargets == <<"nats", "ollama", "postgres">>

(* The files an install puts into bin_dir, in order. *)
FilesOf(t) == IF t = "postgres" THEN <<"postgres", "initdb", "psql">> ELSE <<t>>

Target == BTargets[bInfra.at]
Fetching == bInfra.stage = "fetch" /\ bInfra.at <= Len(BTargets)
NextTarget == [bInfra EXCEPT !.at = @ + 1, !.part = 0]

(* Already there, to be installed by hand, or a download that fails. *)
provision_passes_over ==
    /\ Fetching /\ bInfra.part = 0
    /\ \/ /\ bundled_or_on_path(Target) \/ (Target = "ollama" /\ bHost.os = "nt")
          /\ UNCHANGED bPast
       \/ /\ Woe
          /\ bPast' = WithWoe
    /\ bInfra' = NextTarget
    /\ UNCHANGED <<bHost, bDisk, bProc, bMain, bSup>>

(* The download is extracted: a single binary straight into its place, a     *)
(* distribution into a tree of its own before the launchers of its binaries  *)
(* are written one by one.                                                   *)
fetch_and_install ==
    LET files == FilesOf(Target)
        file == files[bInfra.part + 1]
    IN  /\ Fetching
        /\ bInfra.part < Len(files)
        /\ bInfra.part = 0 => ~(bundled_or_on_path(Target)
                                 \/ (Target = "ollama" /\ bHost.os = "nt"))
        /\ bDisk' = [bDisk EXCEPT !.bin = @ \cup {file},
                                  !.broken = IF Target = "nats" THEN @ \cup {file} ELSE @]
        /\ bInfra' = [bInfra EXCEPT !.part = @ + 1]
        /\ UNCHANGED <<bHost, bProc, bMain, bSup, bPast>>

install_ends ==
    /\ Fetching
    /\ bInfra.part = Len(FilesOf(Target))
    /\ bDisk' = [bDisk EXCEPT !.broken = @ \ {Target}]
    /\ bInfra' = NextTarget
    /\ UNCHANGED <<bHost, bProc, bMain, bSup, bPast>>

sidecars_ensured ==
    /\ bInfra.stage = "fetch" /\ bInfra.at > Len(BTargets)
    /\ bInfra' = [BNoInfra EXCEPT !.stage = IF bHost.os = "nt" THEN "toolchain" ELSE "browser"]
    /\ UNCHANGED <<bHost, bDisk, bProc, bMain, bSup, bPast>>

BComponents == <<"python-embed", "busybox">>
Component == BComponents[bInfra.at]
ComponentDir == toolchain_component_dir(Component, bPast.version)
Equipping == bInfra.stage = "toolchain" /\ bInfra.at <= Len(BComponents)

(* The stamp names the download that this version pins. *)
toolchain_component_installed(comp, version) ==
    bDisk.dirs[toolchain_component_dir(comp, version)].stamp = version

provision_toolchain_passes_over ==
    /\ Equipping /\ bInfra.part = 0
    /\ \/ /\ toolchain_component_installed(Component, bPast.version)
          /\ bInfra' = NextTarget
          /\ UNCHANGED bPast
       \/ /\ ~toolchain_component_installed(Component, bPast.version)
          /\ Woe  \* no download, or one whose digest is not the pinned one
          /\ bInfra' = [NextTarget EXCEPT !.failed = TRUE]
          /\ bPast' = WithWoe
    /\ UNCHANGED <<bHost, bDisk, bProc, bMain, bSup>>

(* The embedded Python is extracted into a directory emptied first and then  *)
(* configured; BusyBox is moved into place.  The stamp is written last.      *)
component_steps(version, dir) ==
    <<[ver |-> version, whole |-> Component = "busybox",
       stamp |-> IF Component = "busybox" THEN dir.stamp ELSE 0],
      [dir EXCEPT !.whole = TRUE],
      [dir EXCEPT !.stamp = version]>>

provision_toolchain ==
    /\ Equipping
    /\ bInfra.part = 0 => ~toolchain_component_installed(Component, bPast.version)
    /\ bDisk' = [bDisk EXCEPT !.dirs[ComponentDir] =
                     component_steps(bPast.version, @)[bInfra.part + 1]]
    /\ bInfra' = IF bInfra.part < 2 THEN [bInfra EXCEPT !.part = @ + 1] ELSE NextTarget
    /\ UNCHANGED <<bHost, bProc, bMain, bSup, bPast>>

(* Access is granted once, and only to a complete toolchain. *)
grant_toolchain_access ==
    /\ bInfra.stage = "toolchain" /\ bInfra.at > Len(BComponents)
    /\ \/ /\ bDisk' = [bDisk EXCEPT !.granted = @ \/ ~bInfra.failed]
          /\ UNCHANGED bPast
       \/ /\ ~bInfra.failed /\ Woe  \* icacls fails
          /\ bPast' = WithWoe
          /\ UNCHANGED bDisk
    /\ bInfra' = [BNoInfra EXCEPT !.stage = "browser"]
    /\ UNCHANGED <<bHost, bProc, bMain, bSup>>

(* A marker per version makes later launches a no-op. *)
chromium_steps(version) ==
    <<[bDisk EXCEPT !.browsers = @ \cup {version}],
      [bDisk EXCEPT !.marks = @ \cup {version}]>>

ensure_playwright_chromium ==
    /\ bInfra.stage = "browser"
    /\ \/ /\ bInfra.part = 0
          /\ \/ bPast.version \in bDisk.marks /\ UNCHANGED bPast
             \/ Woe /\ bPast' = WithWoe  \* no driver, or an install that fails
          /\ bInfra' = [BNoInfra EXCEPT !.stage = "plan"]
          /\ UNCHANGED bDisk
       \/ /\ bInfra.part = 0 => bPast.version \notin bDisk.marks
          /\ bDisk' = chromium_steps(bPast.version)[bInfra.part + 1]
          /\ bInfra' = IF bInfra.part = 0 THEN [bInfra EXCEPT !.part = 1]
                       ELSE [BNoInfra EXCEPT !.stage = "plan"]
          /\ UNCHANGED bPast
    /\ UNCHANGED <<bHost, bProc, bMain, bSup>>

(* Plan again, so that the new binaries are found, and start the rest. *)
bring_up_infra ==
    LET rest == SelectSeq(build_native_plan(TRUE).services, LAMBDA s : s # "frontend")
    IN  /\ bInfra.stage = "plan"
        /\ bSup' = [bSup EXCEPT !["deferred"] = [BNoSup EXCEPT !.plan = rest, !.phase = "next"]]
        /\ bInfra' = [bInfra EXCEPT !.stage = "start"]
        /\ UNCHANGED <<bHost, bDisk, bProc, bMain, bPast>>
-----------------------------------------------------------------------------
(* What the code does not control *)

ServiceListens(s) ==
    /\ bProc[s] = "running"
    /\ bProc' = [bProc EXCEPT ![s] = "listening"]
    /\ UNCHANGED <<bHost, bDisk, bMain, bInfra, bSup, bPast>>

ServiceDies(s) ==
    /\ bProc[s] # "none"
    /\ Woe
    /\ bProc' = [bProc EXCEPT ![s] = "none"]
    /\ bPast' = [WithWoe EXCEPT !.ours = @ \ {s}, !.left = @ \ {s}]
    /\ UNCHANGED <<bHost, bDisk, bMain, bInfra, bSup>>

ProcessKilled ==
    /\ Running(bMain)
    /\ Woe
    /\ ProcessEnds("killed")
    /\ UNCHANGED <<bHost, bDisk, bProc>>

BInit ==
    /\ bHost \in BHosts
    /\ bDisk = [bin |-> {}, broken |-> {}, db |-> FALSE, granted |-> FALSE,
                browsers |-> {}, marks |-> {},
                dirs |-> [d \in BDirs |-> [ver |-> 0, whole |-> FALSE, stamp |-> 0]]]
    /\ bProc = [s \in BServices |-> "none"]
    /\ bMain = BNoMain
    /\ bInfra = BNoInfra
    /\ bSup = [u \in {"fast", "deferred"} |-> BNoSup]
    /\ bPast = [launches |-> 0, version |-> 1, woes |-> 0, ended |-> "no", asked |-> FALSE,
                ours |-> {}, left |-> {}, late |-> {}, seen |-> {}, stores |-> {},
                down |-> FALSE, detached |-> FALSE]

BNext ==
    \/ \E v \in BVersions : Launch(v)
    \/ native_up_blocked
    \/ \E u \in {"fast", "deferred"} :
          \/ start_service(u) \/ health_passes(u) \/ health_times_out(u)
          \/ stop_after_failure(u) \/ native_up_signals_itself(u)
          \/ start_all_raises(u) \/ start_all_returns(u)
    \/ quit_asked \/ backend_fails \/ stop_all \/ stop_next \/ stop_again \/ exit_process
    \/ provision_passes_over \/ fetch_and_install \/ install_ends \/ sidecars_ensured
    \/ provision_toolchain_passes_over \/ provision_toolchain \/ grant_toolchain_access
    \/ ensure_playwright_chromium \/ bring_up_infra
    \/ \E s \in BServices : ServiceListens(s) \/ ServiceDies(s)
    \/ ProcessKilled

BSpec == BInit /\ [][BNext]_bVars
-----------------------------------------------------------------------------
(* Properties *)

(* The state keeps its shape. *)
BTypeOK ==
    /\ bProc \in [BServices -> {"none", "running", "listening"}]
    /\ bMain.stage \in {"starting", "serving", "stopping", "gone"}
    /\ bInfra.stage \in {"off", "fetch", "toolchain", "browser", "plan", "start",
                         "done", "failed"}
    /\ \A u \in DOMAIN bSup :
          /\ bSup[u].phase \in {"off", "next", "wait", "stopping", "done"}
          /\ bSup[u].at \in 1..(Len(bSup[u].plan) + 1)
          /\ ToSet(bSup[u].procs) \subseteq ToSet(bSup[u].plan)
    /\ bPast.ours \subseteq {s \in BServices : bProc[s] # "none"}

(* What marks an install as complete is true after any crash: the toolchain  *)
(* that this version takes for installed is whole and is this version's, and *)
(* the browser marker stands for an installed browser.  Running an older     *)
(* version after a newer one is left aside.                                  *)
InstallMarksAreTrue ==
    /\ bDisk.marks \subseteq bDisk.browsers
    /\ \A comp \in ToSet(BComponents) :
          LET dir == bDisk.dirs[toolchain_component_dir(comp, bPast.version)]
          IN  toolchain_component_installed(comp, bPast.version) /\ ~bPast.down
                 => dir.whole /\ dir.ver = bPast.version

(* start_all goes on only past a required service that was seen to answer:   *)
(* a service that was spawned had every required one before it listening.    *)
StartsInOrder ==
    \A u \in DOMAIN bSup : \A i, j \in 1..Len(bSup[u].plan) :
        LET plan == bSup[u].plan
        IN  i < j /\ j < bSup[u].at /\ plan[i] \in BRequired => plan[i] \in bPast.seen

(* A quit leaves no service behind, unless the background thread spawned one *)
(* after the shutdown had taken its list or the frontend was still starting. *)
QuitStopsTheServices ==
    bPast.ended = "quit" => bPast.left \subseteq (bPast.late \cup {"frontend"})

(* On Windows a failing service takes nothing with it: the application shuts *)
(* down only when asked to, or when its backend cannot serve.                *)
FailuresAreContained ==
    bHost.os = "nt" /\ bMain.stage = "stopping" => bPast.asked

(* Every launch of the desktop finds its state in the same store, whether or *)
(* not Postgres has arrived since the last one.                              *)
DesktopStateStays ==
    Cardinality({store \in bPast.stores : store[1] = "desktop"}) <= 1

(* docs/desktop-installer-status.md:22: "deterministic process-tree teardown *)
(* on quit": nothing that this launch started is running after a quit.       *)
TeardownOnQuit == bPast.ended = "quit" => bPast.left = {}

(* desktop.py: "so the app boots fast and reliably": a service that fails in *)
(* the background does not end the application.                              *)
BackgroundFailureIsSurvived == bMain.stage = "stopping" => bPast.asked
=============================================================================
