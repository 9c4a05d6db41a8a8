------------------------------ MODULE Execution ------------------------------
(***************************************************************************)
(* How an agent's commands are run and checked.  The executors of the      *)
(* harness (locus_runtime/harness/executor.py), the sandbox tiers          *)
(* (sandbox.py), the Windows launcher (win_sandbox.py), the Codex engine   *)
(* (codex_backend.py) and the deterministic done criteria                  *)
(* (verification.py, run_command_check and run_file_check).                *)
(*                                                                         *)
(* A call passes the gateway, is started under the tier of the host, and   *)
(* ends by itself, by the executor's timeout or by the launcher's.         *)
(* Processes are their roles: "launcher" (bwrap, docker or win_sandbox),   *)
(* "command", and the children it may leave, "piped" (holding the pipes    *)
(* the executor reads) or "detached".  A killed launcher takes with it     *)
(* what the tier ties to it; the rest outlives the call in cLeft.          *)
(***************************************************************************)
EXTENDS Naturals, FiniteSets

CONSTANTS CHosts,      \* the hosts and deployments explored
          CExpected,   \* exit codes a command check may expect
          MaxCommands  \* calls of one run

VARIABLES cHost,  \* the host, fixed
          cRun,   \* the call under way, or the last one ended
          cLeft,  \* roles of earlier calls' processes that still live
          cFile,  \* the workspace file the file checks read
          cCalls  \* calls made

cVars == <<cHost, cRun, cLeft, cFile, cCalls>>

CRoles == {"launcher", "command", "suspended", "piped", "detached", "codex"}

CStatuses == {"none", "pass", "fail", "blocked",                    \* checks
              "completed", "failed", "timeout", "unavailable",      \* Codex
              "refused", "raised", "ended"}

CIdle == [op |-> "none", stage |-> "done", expect |-> 0, allowed |-> FALSE,
          require |-> FALSE, tier |-> "none", alive |-> {}, inJob |-> FALSE,
          code |-> 0, late |-> FALSE, ran |-> FALSE, ended |-> FALSE,
          temp |-> FALSE, error |-> FALSE, status |-> "none"]

(* ---- The tier of the host --------------------------------------------- *)

select_confining_strategy(h) ==
    CASE h.platform = "windows" /\ "appcontainer" \in h.tools -> "windows-appcontainer"
      [] h.platform = "macos" /\ "seatbelt" \in h.tools -> "kernel-seatbelt"
      [] h.platform = "linux" /\ "bwrap" \in h.tools -> "kernel-bwrap"
      [] OTHER -> IF ~h.native /\ "docker" \in h.tools
                  THEN "hardened-docker" ELSE "unavailable"

\* An evaluation container is the benchmark runner's choice; elsewhere the
\* opt-out selects the host, and otherwise the confining tier is used.
default_executor(h) == IF h.container THEN "docker-exec"
                       ELSE IF h.optOut THEN "local-direct"
                       ELSE select_confining_strategy(h)

jail_facts(h) ==
    LET tier == default_executor(h)
    IN  [strategy |-> tier,
         readonly_rootfs |-> tier \in {"kernel-bwrap", "kernel-seatbelt", "hardened-docker"},
         non_root |-> tier = "hardened-docker" \/ ~h.root,
         allow_network |-> h.network,
         require_appcontainer |-> tier = "windows-appcontainer"]

\* No host is ever allowlisted for a process (tool_jail_input passes empty
\* lists), so a tier with network access is not a jail.
tool_jail(h) ==
    LET f == jail_facts(h)
    IN  /\ ~f.allow_network
        /\ \/ f.readonly_rootfs /\ f.non_root
           \/ f.strategy = "windows-appcontainer" /\ f.require_appcontainer
           \/ f.strategy = "docker-exec" /\ h.evals

\* What authorize_action may answer.  A permissive authorizer stands for the
\* test doubles and embedders that install no policy.
Decisions(h) == IF h.permissive THEN {TRUE}
                ELSE IF tool_jail(h) THEN {TRUE, FALSE} ELSE {FALSE}

(* ---- Ending a call ---------------------------------------------------- *)

\* run_command_check: a refusal, an executor error and a missing command are
\* blockers; otherwise the exit code decides, and a timeout never passes.
run_command_check(c, code, late, refused) ==
    IF refused \/ (code = 127 /\ c.expect # 127) THEN "blocked"
    ELSE IF code = c.expect /\ ~late THEN "pass" ELSE "fail"

EndCommand(c, code, late, refused) ==
    [c EXCEPT !.stage = "done", !.code = code, !.late = late,
              !.status = IF c.op = "check"
                         THEN run_command_check(c, code, late, refused) ELSE "ended"]

CEnd(c) == /\ cRun' = c
           /\ cLeft' = cLeft \cup c.alive
           /\ UNCHANGED <<cHost, cFile, cCalls>>

CTo(c) == cRun' = c /\ UNCHANGED <<cHost, cLeft, cFile, cCalls>>

(* ---- Starting a call -------------------------------------------------- *)

CStart(c) == /\ cRun.stage = "done" /\ cCalls < MaxCommands
             /\ cCalls' = cCalls + 1
             /\ cRun' = c
             /\ UNCHANGED <<cHost, cLeft, cFile>>

\* The verifier or a tool asks for a command; a Codex node asks for its engine;
\* and on Windows an operator may call the launcher without the required flag.
AskCommand == \E e \in CExpected :
    CStart([CIdle EXCEPT !.op = "check", !.stage = "gate", !.expect = e,
                         !.require = TRUE, !.tier = default_executor(cHost)])

AskCodex == CStart([CIdle EXCEPT !.op = "codex", !.stage = "gate"])

AskLauncher == /\ cHost.platform = "windows"
               /\ CStart([CIdle EXCEPT !.op = "cli", !.stage = "launch", !.allowed = TRUE,
                                       !.tier = "windows-appcontainer",
                                       !.alive = {"launcher"}])

\* SandboxManager.plan allowlists the executable itself and refuses network
\* access without hosts, which no executor names.
PlanRaises(c, h) == c.tier \notin {"local-direct", "docker-exec"} /\ h.network

\* _gate, then _spawn.  The sink refuses a host with no confining tier whatever
\* was decided, and a Windows command without the toolchain.
gate_command == \E allow \in Decisions(cHost) :
    LET c == cRun IN
    /\ c.stage = "gate" /\ c.op = "check"
    /\ IF ~allow \/ c.tier = "unavailable"
       THEN CEnd(EndCommand(c, 126, FALSE, TRUE))
       ELSE IF c.tier = "windows-appcontainer" /\ ~cHost.toolchain
       THEN CEnd(EndCommand(c, 127, FALSE, FALSE))
       ELSE IF PlanRaises(c, cHost)
       THEN CEnd(EndCommand(c, 0, FALSE, TRUE))
       ELSE CTo([c EXCEPT !.allowed = TRUE, !.stage = "launch",
                          !.alive = {"launcher"}])

(* ---- Launching -------------------------------------------------------- *)

\* bwrap, docker and docker exec start the command as another process; a direct
\* command and sandbox-exec are the command.
Launched(c) ==
    [c EXCEPT !.stage = "running", !.ran = TRUE,
              !.alive = IF c.tier \in {"local-direct", "kernel-seatbelt"}
                        THEN {"command"} ELSE {"launcher", "command"}]

build_command == /\ cRun.stage = "launch" /\ cRun.tier # "windows-appcontainer"
                 /\ CTo(Launched(cRun))

\* run_confined: the required flag forces the AppContainer tier and forbids the
\* fallback; otherwise the environment forces a tier or allows it.
run_confined(c, h) ==
    IF c.require THEN [tier |-> "appcontainer", fallback |-> FALSE]
    ELSE [tier |-> IF h.forcedJob THEN "job" ELSE "appcontainer",
          fallback |-> h.forcedJob \/ ~h.requireEnv]

OnLauncher(stage) == cRun.stage = stage /\ cRun.tier = "windows-appcontainer"

\* The launcher's exception: an uncaught error, exit code 1.
LauncherRaises(c) == EndCommand([c EXCEPT !.alive = @ \ {"launcher"}], 1, FALSE, FALSE)

\* _run_in_appcontainer creates the job and the suspended process ...
create_suspended ==
    /\ OnLauncher("launch") /\ run_confined(cRun, cHost).tier = "appcontainer"
    /\ CTo([cRun EXCEPT !.stage = "suspended", !.alive = {"launcher", "suspended"}])

\* ... assigns it and lets it run; an assignment that fails ends the process.
assign_and_resume ==
    /\ OnLauncher("suspended")
    /\ CTo([cRun EXCEPT !.stage = "running", !.inJob = TRUE, !.ran = TRUE,
                        !.alive = {"launcher", "command"}])

\* Any Win32 failure: the required tier fails closed, the other one degrades.
appcontainer_fails ==
    LET c == [cRun EXCEPT !.alive = {"launcher"}] IN
    /\ \/ OnLauncher("launch") /\ run_confined(c, cHost).tier = "appcontainer"
       \/ OnLauncher("suspended")
    /\ IF run_confined(c, cHost).fallback THEN CTo([c EXCEPT !.stage = "job"])
                                          ELSE CEnd(LauncherRaises(c))

\* _run_with_job_object starts the command and then assigns it; a failed
\* assignment is only reported.
run_with_job_object ==
    /\ OnLauncher("job") \/ (OnLauncher("launch") /\ run_confined(cRun, cHost).tier = "job")
    /\ \/ \E assigned \in BOOLEAN :
            CTo([cRun EXCEPT !.stage = "running", !.inJob = assigned, !.ran = TRUE,
                             !.tier = "windows-job", !.alive = {"launcher", "command"}])
       \/ CEnd(LauncherRaises(cRun))

\* The tier's program may fail before the command starts, with an exit code of
\* its own; a program that is not there makes subprocess raise.
launcher_fails == \E code \in {1, 125} :
    /\ cRun.stage = "launch"
    /\ cRun.tier \notin {"windows-appcontainer", "local-direct"}
    /\ CEnd(EndCommand([cRun EXCEPT !.alive = {}], code, FALSE, FALSE))

launcher_missing ==
    /\ cRun.stage = "launch" /\ cRun.op = "check" /\ cRun.tier # "windows-appcontainer"
    /\ CEnd(EndCommand([cRun EXCEPT !.alive = {}], 0, FALSE, TRUE))

(* ---- Running, ending, timing out -------------------------------------- *)

\* What the tier ends together with the command: the pid namespace, the
\* container, and the job its launcher closes.
EndsWithCommand(c) ==
    IF \/ c.tier \in {"kernel-bwrap", "hardened-docker"}
       \/ c.tier \in {"windows-appcontainer", "windows-job"} /\ c.inJob
    THEN {"command", "launcher", "piped", "detached"}
    ELSE {"command", "launcher"}

\* The job is closed with its last handle, which the launcher holds; it was
\* configured to kill its processes then.
KilledWithJob(c) == IF c.inJob THEN CRoles ELSE {"launcher"}

(* Mutant of DiesWithLauncher: bwrap without --die-with-parent. *)
LauncherDiesAlone(c) ==
    IF c.tier \in {"local-direct", "kernel-seatbelt"} THEN {"command"} ELSE KilledWithJob(c)

\* What dies when the executor kills the process it started.  --die-with-parent
\* ties the namespace to bwrap and closing the job ends what is in it; a
\* container does not end with the docker client.
DiesWithLauncher(c) ==
    CASE c.tier = "kernel-bwrap" -> CRoles
      [] c.tier \in {"local-direct", "kernel-seatbelt"} -> {"command"}
      [] OTHER -> KilledWithJob(c)

command_forks == \E r \in {"piped", "detached"} :
    /\ cRun.stage = "running" /\ "command" \in cRun.alive
    /\ r \notin cRun.alive
    /\ CTo([cRun EXCEPT !.alive = @ \cup {r}])

command_writes == \E f \in {"absent", "right", "wrong"} :
    /\ cFile # f
    /\ \/ cRun.alive \cap {"command", "piped", "detached", "codex"} # {}
       \/ cLeft \cap {"command", "piped", "detached", "codex"} # {}
    /\ cFile' = f
    /\ UNCHANGED <<cHost, cRun, cLeft, cCalls>>

command_exits == \E code \in {0, 1, 127} :
    /\ cRun.stage = "running" /\ "command" \in cRun.alive
    /\ CTo([cRun EXCEPT !.alive = @ \ EndsWithCommand(cRun), !.code = code,
                        !.ended = TRUE])

\* subprocess.run returns when the process is gone and the pipes are closed.
subprocess_returns ==
    /\ cRun.stage = "running"
    /\ cRun.alive \cap {"launcher", "command", "piped"} = {}
    /\ CEnd(EndCommand(cRun, cRun.code, FALSE, FALSE))

piped_child_ends == /\ cRun.stage = "running" /\ "piped" \in cRun.alive
                    /\ CTo([cRun EXCEPT !.alive = @ \ {"piped"}])

\* TimeoutExpired: the executor kills the process it started, exit code 124.
executor_times_out ==
    /\ cRun.stage \in {"launch", "suspended", "job", "running"} /\ cRun.op = "check"
    /\ CEnd(EndCommand([cRun EXCEPT !.alive = @ \ DiesWithLauncher(cRun)], 124, TRUE, FALSE))

\* The launcher's own timeout.  The AppContainer launcher then reports the exit
\* code of a process that is still active, 259, and the closed job ends it; the
\* job launcher kills the command and raises.
launcher_times_out ==
    /\ cRun.stage = "running" /\ "launcher" \in cRun.alive
    /\ cRun.tier \in {"windows-appcontainer", "windows-job"}
    /\ LET gone == {"command"} \cup KilledWithJob(cRun)
       IN  CEnd(EndCommand([cRun EXCEPT !.alive = @ \ gone],
                           IF cRun.tier = "windows-job" THEN 1 ELSE 259, FALSE, FALSE))

left_process_ends == \E r \in cLeft \ {"suspended"} :
    /\ cLeft' = cLeft \ {r}
    /\ cRun' = IF cRun.stage = "done" THEN [cRun EXCEPT !.alive = @ \ {r}] ELSE cRun
    /\ UNCHANGED <<cHost, cFile, cCalls>>

(* ---- File checks ------------------------------------------------------ *)

\* read_file answers the content or None.  Through an evaluation container a
\* read that fails in any way is None as well.
read_file(h, f) == {f} \cup IF h.container THEN {"absent"} ELSE {}

run_file_check(want, content) ==
    IF want = "absent" THEN IF content = "absent" THEN "pass" ELSE "fail"
    ELSE IF content = "absent" THEN "fail"
    ELSE IF want = "present" \/ content = "right" THEN "pass" ELSE "fail"

\* A path outside the workspace, a refusal of the gateway and an invalid
\* pattern are blockers.
check_file == \E want \in {"absent", "present", "match"} :
    /\ cRun.stage = "done" /\ cCalls < MaxCommands
    /\ cCalls' = cCalls + 1
    /\ \E s \in {"blocked"} \cup
                {run_file_check(want, content) : content \in read_file(cHost, cFile)} :
         cRun' = [CIdle EXCEPT !.op = want, !.status = s]
    /\ UNCHANGED <<cHost, cLeft, cFile>>

(* ---- The Codex engine ------------------------------------------------- *)

OnCodex(stage) == cRun.op = "codex" /\ cRun.stage = stage

\* Codex's own sandbox is no tier tool_jail accepts.
gate_codex == /\ OnCodex("gate")
              /\ IF cHost.permissive
                 THEN CTo([cRun EXCEPT !.allowed = TRUE, !.stage = "popen", !.temp = TRUE])
                 ELSE CEnd([cRun EXCEPT !.stage = "done", !.status = "refused"])

\* The finally clause removes the last-message file on every path.
CodexEnds(c, status) ==
    CEnd([c EXCEPT !.stage = "done", !.temp = FALSE, !.status = status])

popen_codex == /\ OnCodex("popen")
               /\ \/ CodexEnds(cRun, "unavailable")
                  \/ CTo([cRun EXCEPT !.stage = "reading", !.alive = {"codex"},
                                      !.ran = TRUE])

\* Only errors and the end of a turn are not steps of the agent.
map_thread_event(ev) == CASE ev \in {"item error", "turn.failed", "error"} -> "error"
                          [] ev = "turn.completed" -> "usage"
                          [] ev = "item.started" -> "none"
                          [] OTHER -> "step"

\* A line: past the deadline the process is killed; an error event marks the
\* run failed; a stream that cannot be decoded raises out of the loop.
read_line ==
    /\ OnCodex("reading") /\ "codex" \in cRun.alive
    /\ \/ /\ cRun.late
          /\ CTo([cRun EXCEPT !.stage = "waiting", !.alive = {}, !.status = "timeout"])
       \/ \E ev \in {"item error", "turn.failed", "error", "turn.completed", "item.started"} :
            /\ ~cRun.late
            /\ CTo([cRun EXCEPT !.error = @ \/ map_thread_event(ev) = "error"])
       \/ CodexEnds(cRun, "raised")

deadline_passes == /\ OnCodex("reading") /\ ~cRun.late
                   /\ CTo([cRun EXCEPT !.late = TRUE])

\* The end of the output: the process has exited, or it only closed its output.
output_ends == \E exited \in BOOLEAN, code \in {0, 1} :
    /\ OnCodex("reading")
    /\ CTo([cRun EXCEPT !.stage = "waiting", !.code = code,
                        !.alive = IF exited THEN {} ELSE @])

\* wait(timeout=10); a process that does not end is killed.
wait_codex ==
    /\ OnCodex("waiting")
    /\ CodexEnds([cRun EXCEPT !.alive = {}],
                 CASE cRun.status = "timeout" -> "timeout"
                   [] cRun.error -> "failed"
                   [] cRun.alive = {} /\ cRun.code # 0 -> "failed"
                   [] OTHER -> "completed")

(* ---- The specification ------------------------------------------------ *)

CInit == /\ cHost \in CHosts
         /\ cRun = CIdle
         /\ cLeft = {}
         /\ cFile = "absent"
         /\ cCalls = 0

CNext == \/ AskCommand \/ AskCodex \/ AskLauncher
         \/ gate_command \/ gate_codex
         \/ build_command \/ create_suspended \/ assign_and_resume
         \/ appcontainer_fails \/ run_with_job_object
         \/ launcher_fails \/ launcher_missing
         \/ command_forks \/ command_writes \/ command_exits
         \/ subprocess_returns \/ piped_child_ends
         \/ executor_times_out \/ launcher_times_out \/ left_process_ends
         \/ check_file
         \/ popen_codex \/ read_line \/ deadline_passes \/ output_ends \/ wait_codex

CSpec == CInit /\ [][CNext]_cVars

(* ---- Properties ------------------------------------------------------- *)

\* Every value has its type, and no call holds processes before it was allowed.
CTypeOK ==
    /\ cHost \in CHosts
    /\ cRun.alive \subseteq CRoles /\ cLeft \subseteq CRoles
    /\ cRun.status \in CStatuses
    /\ cRun.stage \in {"done", "gate", "launch", "suspended", "job", "running",
                       "popen", "reading", "waiting"}
    /\ cFile \in {"absent", "right", "wrong"}
    /\ cCalls \in 0 .. MaxCommands
    /\ cRun.alive # {} => cRun.allowed

\* A command runs only in a jail tool_jail accepts or, without policies, in the
\* tier the host really has: never on a host that has none (gate_command, the
\* sink's refusal), and never as a Job Object only when the AppContainer was
\* required (run_confined fails closed).
CommandsRunConfined ==
    (cRun.op = "check" /\ cRun.ran)
        => /\ cRun.tier \notin {"unavailable", "windows-job"}
           /\ cHost.permissive \/ tool_jail(cHost)
           /\ (cRun.tier = "windows-appcontainer" /\ "command" \in cRun.alive) => cRun.inJob

\* Under bubblewrap and in an AppContainer nothing of a command outlives its
\* call, however it ended: by itself, by the executor's timeout or the
\* launcher's (DiesWithLauncher).  Only a process that was never resumed may
\* stay, when the launcher is killed between creating and assigning it.
NothingOutlivesItsCommand ==
    (cRun.op = "check" /\ cRun.stage = "done"
        /\ cRun.tier \in {"kernel-bwrap", "windows-appcontainer"})
        => cRun.alive \subseteq {"suspended"}

\* A check that passes with exit code 0 saw the command end by itself with that
\* code: no refusal, missing tool, timeout or launcher failure looks like it.
PassedCommandsRan ==
    (cRun.op = "check" /\ cRun.status = "pass" /\ cRun.expect = 0) => cRun.ended

\* A file check through a host executor passes only on a file as asserted at
\* the moment it is read (run_file_check): a missing file satisfies nothing but
\* an assertion of absence.
FileChecksMeanWhatTheySay ==
    [][(check_file /\ cRun'.status = "pass" /\ ~cHost.container)
          => CASE cRun'.op = "absent" -> cFile = "absent"
               [] cRun'.op = "present" -> cFile # "absent"
               [] OTHER -> cFile = "right"]_cVars

\* run_codex leaves nothing behind when it returns: no last-message file on any
\* path, and no process unless an undecodable stream raised out of the loop.
CodexLeavesNothing ==
    (cRun.op = "codex" /\ cRun.stage = "done")
        => /\ ~cRun.temp
           /\ cRun.status # "raised" => cRun.alive = {}
           /\ cRun.status = "completed" => ~cRun.error

\* run_envelope.py: "A command that must exit with expected_exit_code".  A check
\* that passes saw the command run: violated when the expected code is also the
\* code of a launcher that failed before it.
PassesMeanTheCommandRan ==
    (cRun.op = "check" /\ cRun.status = "pass") => cRun.ran
=============================================================================
