------------------------------- MODULE Settings -------------------------------
(***************************************************************************)
(* The settings store (internal/settings) behind the /api/settings         *)
(* handlers of serve: rows of one table, keyed by scope, repository and    *)
(* key.  A write reads what is stored, checks the settings it would lead   *)
(* to, and then upserts; every query is a statement of its own, so that    *)
(* requests that run at the same time see each other's writes in between.  *)
(*                                                                         *)
(* A value is a number, counted in halves so that one that is not whole    *)
(* can occur, a configuration object, or something else.                   *)
(***************************************************************************)
EXTENDS Integers, Sequences, FiniteSets

CONSTANTS Clients,      \* requests served at the same time
          SettingRepos, \* repositories with settings of their own
          Changes,      \* what a request may set: keys with their values
          Doomable,     \* keys a request may delete
          MaxRequests

ASSUME SettingsAssumption ==
    /\ "" \notin SettingRepos
    /\ MaxRequests \in Nat
    /\ \A ch \in Changes : DOMAIN ch # {}

VARIABLES settings, \* the rows of every target
          request,  \* what every client is doing
          view,     \* the configuration a client resolved last
          requests,
          raced     \* whether a write landed on settings another one changed

settingsVars == <<settings, request, view, requests, raced>>

\* A target is a scope and its repository.
GlobalScope == <<"global", "">>
Targets     == {GlobalScope} \union {<<"repo", r>> : r \in SettingRepos}

ValidTarget(t) ==
    \/ t[1] = "global" /\ t[2] = ""
    \/ t[1] = "repo" /\ t[2] # ""

AllowedKeys ==
    {"duplicate_threshold", "overlap_threshold", "beginning_pr_number", "ending_pr_number",
     "max_prs", "analyzer_config", "github_runtime", "github_rate_policy"}

\* The values of new and, where it has none, those of old.
Overlaid(new, old) ==
    [k \in DOMAIN new \union DOMAIN old |-> IF k \in DOMAIN new THEN new[k] ELSE old[k]]

IsNumber(v) == v.kind = "number"
IsWhole(v)  == IsNumber(v) /\ v.halves % 2 = 0

\* Configuration objects are not looked into.
ValidateSettings(values) ==
    /\ DOMAIN values \subseteq AllowedKeys
    /\ \A k \in DOMAIN values \cap {"duplicate_threshold", "overlap_threshold"} :
          IsNumber(values[k]) /\ values[k].halves \in 0..2
    /\ \A k \in DOMAIN values \cap {"beginning_pr_number", "ending_pr_number", "max_prs"} :
          IsWhole(values[k]) /\ values[k].halves >= 0
    /\ {"beginning_pr_number", "ending_pr_number"} \subseteq DOMAIN values =>
          values["beginning_pr_number"].halves <= values["ending_pr_number"].halves

\* A flag cannot be told absent once the object is parsed.
ParseConfig(raw) == [amount |-> raw.amount, flag |-> raw.flag = "yes"]

\* What is no object is passed over.  A field that is zero or empty is
\* inherited; a flag is not.
MergeConfig(base, raw) ==
    IF raw.kind # "config" THEN base
    ELSE LET over == ParseConfig(raw)
         IN  [over EXCEPT !.amount = IF @ # 0 THEN @ ELSE base.amount]

DefaultConfig == [amount |-> 1, flag |-> TRUE]

Field(values, k) == IF k \in DOMAIN values THEN values[k] ELSE [kind |-> "absent"]

-----------------------------------------------------------------------------
Quiet == [at |-> "idle", op |-> "", target |-> GlobalScope, changes |-> <<>>,
          seen |-> <<>>, fresh |-> TRUE]

SettingsInit ==
    /\ settings = [t \in Targets |-> <<>>]
    /\ request = [c \in Clients |-> Quiet]
    /\ view = [c \in Clients |-> DefaultConfig]
    /\ requests = 0 /\ raced = FALSE

\* POST, import and the configuration a command resolves at its start.  What
\* the handler refuses before it reads anything changes nothing.
Ask(c, op, t, ch) ==
    /\ request[c].at = "idle" /\ requests < MaxRequests
    /\ ValidTarget(t)
    /\ request' = [request EXCEPT ![c] = [Quiet EXCEPT !.at = "asked", !.op = op,
                                                       !.target = t, !.changes = ch]]
    /\ requests' = requests + 1
    /\ UNCHANGED <<settings, view, raced>>

\* Get: the global rows, and the repository's over them.
ReadGlobal(c) ==
    /\ request[c].at = "asked"
    /\ request' = [request EXCEPT ![c].at = "global", ![c].seen = settings[GlobalScope]]
    /\ UNCHANGED <<settings, view, requests, raced>>

Layer(t) == IF t = GlobalScope THEN <<>> ELSE settings[t]

\* Mutant: the new values are checked by themselves.
ProposedAlone(changes, seen) == changes

Proposed(changes, seen) == Overlaid(changes, seen)

\* ValidateSet: what would be in effect for this target.
Validate(c) ==
    /\ request[c].at = "global" /\ request[c].op # "config"
    /\ LET r == request[c]
       IN  request' = [request EXCEPT ![c] =
              IF /\ ValidateSettings(Proposed(r.changes, Overlaid(Layer(r.target), r.seen)))
                 /\ r.op # "validate"
              THEN [r EXCEPT !.at = "valid"] ELSE Quiet]
    /\ UNCHANGED <<settings, view, requests, raced>>

\* GetGitHubRuntimeConfig and its like: the default, the global object and
\* the repository's.
ResolveConfig(c) ==
    /\ request[c].at = "global" /\ request[c].op = "config"
    /\ LET r == request[c]
       IN  view' = [view EXCEPT ![c] =
              MergeConfig(MergeConfig(DefaultConfig, Field(r.seen, "github_runtime")),
                          Field(Layer(r.target), "github_runtime"))]
    /\ request' = [request EXCEPT ![c] = Quiet]
    /\ UNCHANGED <<settings, requests, raced>>

\* Whoever has read and not yet written works on what is no longer so.
Outdated(c) ==
    [d \in Clients |-> IF d = c THEN Quiet
                       ELSE IF request[d].at \in {"global", "valid"}
                       THEN [request[d] EXCEPT !.fresh = FALSE] ELSE request[d]]

\* The rows of a Set, or of a whole import in one transaction.
UpsertSettings(c) ==
    /\ request[c].at = "valid"
    /\ settings' = [settings EXCEPT ![request[c].target] = Overlaid(request[c].changes, @)]
    /\ raced' = (raced \/ ~request[c].fresh)
    /\ request' = Outdated(c)
    /\ UNCHANGED <<view, requests>>

\* A statement that fails (the store is busy) leaves nothing behind, not
\* even part of an import.
WriteFails(c) ==
    /\ request[c].at = "valid"
    /\ request' = [request EXCEPT ![c] = Quiet]
    /\ UNCHANGED <<settings, view, requests, raced>>

\* DELETE checks the target only.
Delete(c, t, k) ==
    /\ request[c].at = "idle" /\ requests < MaxRequests
    /\ ValidTarget(t)
    /\ settings' = [settings EXCEPT ![t] = [x \in DOMAIN @ \ {k} |-> @[x]]]
    /\ request' = Outdated(c)
    /\ requests' = requests + 1
    /\ UNCHANGED <<view, raced>>

SettingsNext ==
    \E c \in Clients :
      \/ \E t \in Targets, ch \in Changes, op \in {"set", "validate"} : Ask(c, op, t, ch)
      \/ \E t \in Targets : Ask(c, "config", t, <<>>)
      \/ ReadGlobal(c) \/ Validate(c) \/ ResolveConfig(c) \/ UpsertSettings(c) \/ WriteFails(c)
      \/ \E t \in Targets, k \in Doomable : Delete(c, t, k)

-----------------------------------------------------------------------------
\* As long as no write landed on settings that had changed since it was
\* checked, the global settings pass the check every write of them passed,
\* whatever is set, imported and deleted in whatever order
\* (settings/store.go:111-153, 170-217).
GlobalStaysValid == ~raced => ValidateSettings(settings[GlobalScope])

\* The same of what is in effect for a repository.
EffectiveStaysValid ==
    ~raced => \A t \in Targets : ValidateSettings(Overlaid(Layer(t), settings[GlobalScope]))

\* A flag that is on by default is off only for a client whose settings
\* turned it off.
FlagIsTurnedOff ==
    \A c \in Clients : ~view[c].flag =>
        \E ch \in Changes : Field(ch, "github_runtime").kind = "config"
                            /\ Field(ch, "github_runtime").flag = "no"
=============================================================================
