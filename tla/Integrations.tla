---------------------------- MODULE Integrations ----------------------------
(***************************************************************************)
(* One integration and one staged MCP connection of the control plane.     *)
(*                                                                         *)
(* The handlers run in threads and keep the Python object they read from   *)
(* the store: an object that was replaced by a save or removed by a delete *)
(* while a handler waited for the provider is changed, and put back, by    *)
(* that handler.  Objects are therefore numbered, and the store holds a    *)
(* number.                                                                 *)
(*                                                                         *)
(* Left out: labels and URLs as text, the masking of secrets in answers,   *)
(* expiry times (nothing reads them), audit events.                        *)
(***************************************************************************)
EXTENDS Integers, Sequences, FiniteSets

CONSTANTS
    ICallers,      \* threads serving requests
    IPayloads,     \* contents an integration is saved with
    IPlatforms,    \* platform settings
    IUrls,         \* server URLs of MCP connections
    MaxSaved,      \* bound on objects saved, of both kinds
    MaxStates,     \* bound on OAuth states issued
    MaxIntCalls    \* bound on requests that wait for a provider

ASSUME IntegrationsBounds ==
    /\ MaxSaved \in Nat /\ MaxStates \in Nat /\ MaxIntCalls \in Nat
    /\ \A p \in IPayloads : p.auth \in {"none", "bearer", "oauth2"}

VARIABLES
    iObj,      \* the integration objects made so far
    iMcp,      \* the connection objects made so far
    iStore,    \* [int, mcp]: which object is stored, 0 for none
    iPlat,     \* platform settings
    iCall,     \* what each thread is doing
    iTools,    \* the MCP tools of the run under way
    iPast      \* history: states issued and redeemed, write-backs, what was last saved

iVars == <<iObj, iMcp, iStore, iPlat, iCall, iTools, iPast>>

IFree == [op |-> "idle"]
INoSession == [token |-> FALSE, refresh |-> FALSE, pending |-> 0]

-----------------------------------------------------------------------------
(* Policy *)

(* _evaluate_integration_policy: the violations.  declared: egress hosts and  *)
(* permission scopes are given; contained: first party or sandboxed.          *)
integration_violations(p, plat) ==
    (IF p.auth # "none" /\ ~p.secret THEN {"secret"} ELSE {})
    \cup (IF ~p.declared /\ plat.enforce /\ ~plat.local THEN {"declare"} ELSE {})
    \cup (IF ~p.signed /\ plat.signed /\ ~(plat.local /\ plat.unsigned) THEN {"sign"} ELSE {})
    \cup (IF ~p.contained /\ plat.sandbox /\ ~plat.local THEN {"contain"} ELSE {})

(* _normalize_integration_auth_metadata refuses an incomplete OAuth client.   *)
normalize_integration_auth_metadata(p) == p.auth = "oauth2" => p.client

(* _build_integration_diagnostics: what test_integration asks of an object.   *)
integration_diagnostics(p) == p.url = "plain" /\ (p.auth = "none" \/ p.secret \/ p.refs)

(* _mcp_server_allowed *)
mcp_server_allowed(p, plat) == plat.lan => p.place \in {"local", "listed"}

-----------------------------------------------------------------------------
(* The integration *)

Stored(o) == [iStore EXCEPT !.int = o]
Waiting(c) == iCall[c].op # "idle"
Reader == {c \in ICallers : ~Waiting(c)}
Exchanging == {c \in ICallers : iCall[c].op = "exchange"}

(* A handler puts its object into the store.  behind records that another     *)
(* object, or none, was stored by then.                                       *)
WroteBack(o) == [iPast EXCEPT !.behind = @ \/ iStore.int # o]

SavedSession(p, keep) ==
    IF keep /\ iStore.int # 0 /\ p.auth = "oauth2" THEN iObj[iStore.int].session ELSE INoSession

(* save_integration: a new object.  Its metadata is the payload's, which      *)
(* holds no tokens, or a copy of the stored one's; its status the payload's   *)
(* or the stored one's.  The OAuth session goes with another auth type.       *)
save_integration ==
    /\ Len(iObj) + Len(iMcp) < MaxSaved
    /\ \E p \in IPayloads, keep \in BOOLEAN, status \in {"draft", "configured"} :
         /\ normalize_integration_auth_metadata(p)
         /\ iPlat.enforce => integration_violations(p, iPlat) = {}
         /\ iObj' = Append(iObj, [p |-> p, session |-> SavedSession(p, keep), status |-> status,
                                  under |-> iPlat])
         /\ iStore' = Stored(Len(iObj) + 1)
         /\ iPast' = [iPast EXCEPT !.last = Len(iObj) + 1]
    /\ UNCHANGED <<iMcp, iPlat, iCall, iTools>>

delete_integration ==
    /\ iStore.int # 0
    /\ iStore' = Stored(0)
    /\ iPast' = [iPast EXCEPT !.last = 0]
    /\ UNCHANGED <<iObj, iMcp, iPlat, iCall, iTools>>

(* The request that waits for the provider: what it read and what it sends.   *)
Ask(c, state) ==
    /\ iPast.calls < MaxIntCalls
    /\ iCall' = [iCall EXCEPT ![c] = [op |-> "exchange", obj |-> iStore.int, state |-> state]]
    /\ iPast' = [iPast EXCEPT
                    !.calls = @ + 1, !.cutoff = FALSE,
                    !.twice = @ \/ \E d \in Exchanging : state # 0 /\ iCall[d].state = state]
    /\ UNCHANGED <<iObj, iMcp, iStore, iPlat, iTools>>

OAuth == iStore.int # 0 /\ iObj[iStore.int].p.auth = "oauth2"

(* connect_integration_oauth with client credentials.                         *)
connect_with_credentials ==
    \E c \in Reader :
        /\ OAuth
        /\ iObj[iStore.int].p.grant = "client_credentials"
        /\ Ask(c, 0)

(* connect_integration_oauth with an authorization code: a state is issued.   *)
connect_integration_oauth ==
    /\ OAuth
    /\ iObj[iStore.int].p.grant = "authorization_code"
    /\ iPast.issued < MaxStates
    /\ iObj' = [iObj EXCEPT ![iStore.int].session.pending = iPast.issued + 1]
    /\ iPast' = [iPast EXCEPT !.issued = @ + 1]
    /\ UNCHANGED <<iMcp, iStore, iPlat, iCall, iTools>>

StateMatches(state) == state # 0 /\ state = iObj[iStore.int].session.pending

(* integration_oauth_callback with an error: the state is given up.           *)
oauth_callback_error ==
    /\ OAuth
    /\ iObj[iStore.int].session.pending # 0
    /\ iObj' = [iObj EXCEPT ![iStore.int].session.pending = 0]
    /\ UNCHANGED <<iMcp, iStore, iPlat, iCall, iTools, iPast>>

(* integration_oauth_callback with a code: a state that does not match is     *)
(* refused, otherwise the code is exchanged.                                  *)
integration_oauth_callback ==
    \E c \in Reader, state \in 1..iPast.issued :
        /\ OAuth
        /\ StateMatches(state)
        /\ Ask(c, state)

(* refresh_integration_oauth: without a refresh token the request is refused. *)
refresh_integration_oauth ==
    \E c \in Reader :
        /\ OAuth
        /\ \/ iObj[iStore.int].p.grant = "client_credentials"
           \/ iObj[iStore.int].session.refresh
        /\ Ask(c, 0)

(* _persist_integration_oauth_tokens *)
Tokened(session, refresh) ==
    [token |-> TRUE, refresh |-> session.refresh \/ refresh, pending |-> 0]

(* The provider answers: the tokens are stored in the object that was read,   *)
(* which goes back into the store.                                            *)
exchange_answered ==
    \E c \in ICallers, refresh \in BOOLEAN :
        LET o == iCall[c].obj IN
        /\ iCall[c].op = "exchange"
        /\ iObj' = [iObj EXCEPT ![o].session = Tokened(@, refresh)]
        /\ iStore' = Stored(o)
        /\ iPast' = [WroteBack(o) EXCEPT
                        !.redeemed = IF iCall[c].state = 0 THEN @ ELSE Append(@, iCall[c].state)]
        /\ iCall' = [iCall EXCEPT ![c] = IFree]
        /\ UNCHANGED <<iMcp, iPlat, iTools>>

(* The exchange fails: the request ends with an error.                        *)
exchange_failed ==
    \E c \in ICallers :
        /\ iCall[c].op = "exchange"
        /\ iCall' = [iCall EXCEPT ![c] = IFree]
        /\ UNCHANGED <<iObj, iMcp, iStore, iPlat, iTools, iPast>>

(* Mutant of Disconnected: only the refresh token is forgotten. *)
DisconnectedHalf(session) == [session EXCEPT !.refresh = FALSE, !.pending = 0]

Disconnected(session) == INoSession

(* disconnect_integration_oauth; the exchanges under way go on.               *)
disconnect_integration_oauth ==
    /\ iStore.int # 0
    /\ iObj' = [iObj EXCEPT ![iStore.int].session = Disconnected(@)]
    /\ iPast' = [iPast EXCEPT !.cutoff = Exchanging = {}]
    /\ UNCHANGED <<iMcp, iStore, iPlat, iCall, iTools>>

(* test_integration: the policy is read before the probe, the enforcement     *)
(* switch after it; the status is written into the object that was read.      *)
start_test ==
    \E c \in Reader :
        /\ iStore.int # 0
        /\ iPast.calls < MaxIntCalls
        /\ iCall' = [iCall EXCEPT ![c] =
                        [op |-> "test", obj |-> iStore.int,
                         clean |-> integration_violations(iObj[iStore.int].p, iPlat) = {}]]
        /\ iPast' = [iPast EXCEPT !.calls = @ + 1]
        /\ UNCHANGED <<iObj, iMcp, iStore, iPlat, iTools>>

finish_test ==
    \E c \in ICallers, reached \in BOOLEAN :
        LET o == iCall[c].obj
            valid == /\ integration_diagnostics(iObj[o].p) /\ reached
                     /\ iPlat.enforce => iCall[c].clean IN
        /\ iCall[c].op = "test"
        /\ iObj' = [iObj EXCEPT ![o].status = IF valid THEN "configured" ELSE "error"]
        /\ iStore' = Stored(o)
        /\ iPast' = WroteBack(o)
        /\ iCall' = [iCall EXCEPT ![c] = IFree]
        /\ UNCHANGED <<iMcp, iPlat, iTools>>

-----------------------------------------------------------------------------
(* The staged MCP connection *)

(* _evaluate_mcp_connection_validation *)
mcp_connection_valid(m, plat) ==
    /\ m.url \in plat.urls
    /\ m.auth => m.secret

(* save_mcp_connection: whatever is saved starts as a draft again.            *)
SavedConnection(m) == [m |-> m, status |-> "draft", passed |-> FALSE, approver |-> "nobody"]

save_mcp_connection ==
    /\ Len(iObj) + Len(iMcp) < MaxSaved
    /\ \E m \in [url : IUrls, auth : BOOLEAN, secret : {TRUE}] :
         iMcp' = Append(iMcp, SavedConnection(m))
    /\ iStore' = [iStore EXCEPT !.mcp = Len(iMcp) + 1]
    /\ UNCHANGED <<iObj, iPlat, iCall, iTools, iPast>>

(* validate_mcp_connection and approve_mcp_connection check the object they   *)
(* read, then write it.                                                       *)
start_mcp ==
    \E c \in Reader, op \in {"validate", "approve"} :
        /\ iStore.mcp # 0
        /\ iPast.calls < MaxIntCalls
        /\ op = "approve" => iMcp[iStore.mcp].status = "validated"
        /\ iCall' = [iCall EXCEPT ![c] =
                        [op |-> op, obj |-> iStore.mcp,
                         valid |-> mcp_connection_valid(iMcp[iStore.mcp].m, iPlat)]]
        /\ iPast' = [iPast EXCEPT !.calls = @ + 1]
        /\ UNCHANGED <<iObj, iMcp, iStore, iPlat, iTools>>

validate_mcp_connection ==
    \E c \in ICallers :
        LET o == iCall[c].obj
            ok == iCall[c].valid IN
        /\ iCall[c].op = "validate"
        /\ iMcp' = [iMcp EXCEPT ![o].status = IF ok THEN "validated" ELSE "validation_failed",
                                ![o].passed = @ \/ ok]
        /\ iStore' = [iStore EXCEPT !.mcp = o]
        /\ iCall' = [iCall EXCEPT ![c] = IFree]
        /\ UNCHANGED <<iObj, iPlat, iTools, iPast>>

approve_mcp_connection ==
    \E c \in ICallers :
        LET o == iCall[c].obj IN
        /\ iCall[c].op = "approve"
        /\ iMcp' = [iMcp EXCEPT ![o].status = "approved", ![o].approver = "admin"]
        /\ iStore' = [iStore EXCEPT !.mcp = o]
        /\ iCall' = [iCall EXCEPT ![c] = IFree]
        /\ UNCHANGED <<iObj, iPlat, iTools, iPast>>

-----------------------------------------------------------------------------
(* The tools of a run *)

(* _gather_mcp_run_tools: an integration is asked for its tools.              *)
Offers(o) ==
    /\ ~iPlat.blocked
    /\ o # 0 /\ iObj[o].status = "configured"
    /\ iObj[o].p.mcp /\ iObj[o].p.url # "none" /\ mcp_server_allowed(iObj[o].p, iPlat)
    /\ iObj[o].p.auth # "none" => iObj[o].p.secret

start_gather ==
    \E c \in Reader :
        /\ Offers(iStore.int)
        /\ iPast.calls < MaxIntCalls
        /\ iCall' = [iCall EXCEPT ![c] = [op |-> "gather", obj |-> iStore.int, plat |-> iPlat]]
        /\ iPast' = [iPast EXCEPT !.calls = @ + 1]
        /\ UNCHANGED <<iObj, iMcp, iStore, iPlat, iTools>>

(* Tools that match a high-risk pattern are not offered.                      *)
Exposed(plat) == IF plat.risk THEN {"plain"} ELSE {"plain", "risky"}

(* The server lists its tools, or cannot be reached and contributes none.     *)
(* The run keeps them, with the gateway session opened for it.                *)
gather_mcp_run_tools ==
    \E c \in ICallers :
        /\ iCall[c].op = "gather"
        /\ iTools' \in {iTools,
                        [obj |-> iCall[c].obj, plat |-> iCall[c].plat,
                         names |-> Exposed(iCall[c].plat), left |-> iPlat.calls, called |-> {}]}
        /\ iCall' = [iCall EXCEPT ![c] = IFree]
        /\ UNCHANGED <<iObj, iMcp, iStore, iPlat, iPast>>

(* _execute_mcp_tool: the gateway allows a tool of the run within its budget. *)
execute_mcp_tool ==
    /\ iTools.left > 0
    /\ \E name \in iTools.names :
         iTools' = [iTools EXCEPT !.left = @ - 1, !.called = @ \cup {name}]
    /\ UNCHANGED <<iObj, iMcp, iStore, iPlat, iCall, iPast>>

(* The platform settings are saved.                                           *)
ChangePlatform ==
    /\ ~iPast.changed
    /\ iPlat' \in IPlatforms
    /\ iPast' = [iPast EXCEPT !.changed = TRUE]
    /\ UNCHANGED <<iObj, iMcp, iStore, iCall, iTools>>

-----------------------------------------------------------------------------
IInit ==
    /\ iObj = <<>> /\ iMcp = <<>>
    /\ iStore = [int |-> 0, mcp |-> 0]
    /\ iPlat \in IPlatforms
    /\ iCall = [c \in ICallers |-> IFree]
    /\ iTools = [obj |-> 0, plat |-> iPlat, names |-> {}, left |-> 0, called |-> {}]
    /\ iPast = [issued |-> 0, redeemed |-> <<>>, behind |-> FALSE, cutoff |-> FALSE,
                last |-> 0, calls |-> 0, changed |-> FALSE, twice |-> FALSE]

IOauthStep == connect_with_credentials \/ connect_integration_oauth \/ oauth_callback_error
              \/ integration_oauth_callback \/ refresh_integration_oauth \/ exchange_answered
              \/ exchange_failed \/ disconnect_integration_oauth

INext == save_integration \/ delete_integration \/ IOauthStep \/ start_test \/ finish_test
         \/ save_mcp_connection \/ start_mcp \/ validate_mcp_connection \/ approve_mcp_connection
         \/ start_gather \/ gather_mcp_run_tools \/ execute_mcp_tool \/ ChangePlatform

ISpec == IInit /\ [][INext]_iVars

-----------------------------------------------------------------------------
(* Properties *)

(* The store refers to objects that exist, and OAuth tokens are kept only in  *)
(* an integration that uses OAuth.                                            *)
ITypeOK ==
    /\ iStore.int \in 0..Len(iObj) /\ iStore.mcp \in 0..Len(iMcp)
    /\ iPlat \in IPlatforms
    /\ \A o \in DOMAIN iObj :
         /\ iObj[o].session.pending \in 0..iPast.issued
         /\ iObj[o].session # INoSession => iObj[o].p.auth = "oauth2"

(* An approved MCP connection is approved as it stands: the very settings     *)
(* that are stored passed a validation and were then approved, whatever saves,*)
(* validations and approvals of other threads came between.                   *)
ApprovedWasValidated ==
    iStore.mcp # 0 /\ iMcp[iStore.mcp].status = "approved" =>
        iMcp[iStore.mcp].passed /\ iMcp[iStore.mcp].approver = "admin"

(* A state given out by connect buys tokens once, unless the callback came    *)
(* again while its first exchange was under way, or an object that had been   *)
(* replaced came back.                                                        *)
StatesAreRedeemedOnce ==
    \A s, t \in DOMAIN iPast.redeemed :
        s # t /\ iPast.redeemed[s] = iPast.redeemed[t] =>
            iPast.twice \/ iPast.behind

(* As long as no handler came back with an object that had been replaced or   *)
(* deleted meanwhile, what is stored is what was saved last, or nothing after *)
(* a delete.                                                                  *)
StoredIsTheLastSaved == ~iPast.behind => iStore.int = iPast.last

(* After a disconnect with no exchange under way the integration holds no     *)
(* access token until a new exchange is asked for, whatever is saved, tested  *)
(* or called back meanwhile.                                                  *)
DisconnectSticks ==
    iPast.cutoff /\ ~iPast.behind /\ iStore.int # 0 => ~iObj[iStore.int].session.token

(* A tool that a run calls is one that the settings in force when the run     *)
(* gathered its tools let through, of an integration that satisfied the       *)
(* policy enforced when it was saved, however both changed since.             *)
CalledToolsWerePermitted ==
    iTools.called # {} =>
        /\ iTools.plat.risk => "risky" \notin iTools.called
        /\ ~iTools.plat.blocked
        /\ mcp_server_allowed(iObj[iTools.obj].p, iTools.plat)
        /\ iObj[iTools.obj].under.enforce =>
             integration_violations(iObj[iTools.obj].p, iObj[iTools.obj].under) = {}

=============================================================================
