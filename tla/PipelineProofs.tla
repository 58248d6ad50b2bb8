---------------------------- MODULE PipelineProofs ----------------------------
(***************************************************************************)
(* The parts of an analysis, its settings and its monitor for every value  *)
(* of their bounds: settings stay valid (GlobalSettingsStayValid), the     *)
(* monitor sends on open channels only (PollsNeverPanic), a comparison     *)
(* that was cut short says so (PartialListsTell), an update of the graph   *)
(* finds what a full build finds (UpdateFindsTheBuild), duplicate groups   *)
(* keep every similar pair that is compared (GroupsKeepThePairs) and close *)
(* only what has been superseded (OnlySupersededAreClosed), plans are safe *)
(* to publish (PlansAreSafe), and what is to be merged now is clean        *)
(* (MergeNowIsClean).                                                      *)
(***************************************************************************)
EXTENDS Settings, Broadcaster, PairwiseShards, IncrementalGraph, Analysis, Review, FiniteSetTheorems, WellFoundedInduction, TLAPS

-----------------------------------------------------------------------------
(* The settings. *)

SettingsSpec == SettingsInit /\ [][SettingsNext]_settingsVars

RequestShape(r) == DOMAIN r = {"at", "op", "target", "changes", "seen", "fresh"}

SettingsTypeOK ==
    /\ DOMAIN settings = Targets
    /\ DOMAIN request = Clients /\ \A c \in Clients : RequestShape(request[c])
    /\ raced \in BOOLEAN

\* What a client that is not outdated read is what is stored, and what it has
\* checked would be valid if it were stored now.
ReadsAreFresh ==
    \A c \in Clients : request[c].fresh =>
        /\ request[c].at = "global" => request[c].seen = settings[GlobalScope]
        /\ request[c].at = "valid" /\ request[c].target = GlobalScope =>
              ValidateSettings(Overlaid(request[c].changes, settings[GlobalScope]))

SettingsInv == SettingsTypeOK /\ ReadsAreFresh /\ GlobalStaysValid

\* The check looks at the keys and their values only.
LEMMA SameValuesSameCheck ==
    ASSUME NEW f, NEW g, DOMAIN f = DOMAIN g, \A k \in DOMAIN f : f[k] = g[k], ValidateSettings(f)
    PROVE  ValidateSettings(g)
  BY DEF ValidateSettings

\* What is valid stays so without one of its keys.
LEMMA FewerKeysPass ==
    ASSUME NEW f, NEW k, ValidateSettings(f)
    PROVE  ValidateSettings([x \in DOMAIN f \ {k} |-> f[x]])
  BY DEF ValidateSettings

\* Whatever is set, imported and deleted, in whatever order and by however
\* many clients, the global settings stay valid as long as no write landed on
\* settings that had changed since it was checked
\* (settings/store.go:62-153, 170-217).
THEOREM GlobalSettingsStayValid == SettingsSpec => []GlobalStaysValid
<1>0. GlobalScope \in Targets
  BY DEF Targets
<1>1. SettingsInit => SettingsInv
  <2> SUFFICES ASSUME SettingsInit PROVE SettingsInv
    OBVIOUS
  <2>1. SettingsTypeOK /\ ReadsAreFresh
    BY DEF SettingsInit, SettingsTypeOK, RequestShape, ReadsAreFresh, Quiet
  <2>2. settings[GlobalScope] = <<>>
    BY <1>0 DEF SettingsInit
  <2>3. ValidateSettings(<<>>)
    BY DEF ValidateSettings
  <2> QED BY <2>1, <2>2, <2>3 DEF SettingsInv, GlobalStaysValid
<1>2. SettingsInv /\ [SettingsNext]_settingsVars => SettingsInv'
  <2> SUFFICES ASSUME SettingsInv, [SettingsNext]_settingsVars PROVE SettingsInv'
    OBVIOUS
  <2>a. SettingsTypeOK /\ ReadsAreFresh /\ GlobalStaysValid
    BY DEF SettingsInv
  <2>b. RequestShape(Quiet) /\ Quiet.at = "idle"
    BY DEF RequestShape, Quiet
  \* Only what one client is doing changes.
  <2>d. ASSUME NEW c \in Clients, NEW r, request' = [request EXCEPT ![c] = r], RequestShape(r),
               UNCHANGED <<settings, raced>>,
               r.fresh => /\ r.at = "global" => r.seen = settings[GlobalScope]
                          /\ r.at = "valid" /\ r.target = GlobalScope =>
                                ValidateSettings(Overlaid(r.changes, settings[GlobalScope]))
        PROVE  SettingsInv'
    <3>1. SettingsTypeOK'
      BY <2>a, <2>d DEF SettingsTypeOK
    <3>2. \A d \in Clients : request'[d] = IF d = c THEN r ELSE request[d]
      BY <2>a, <2>d DEF SettingsTypeOK
    <3>3. ReadsAreFresh'
      BY <2>a, <2>d, <3>2 DEF ReadsAreFresh
    <3> QED BY <2>a, <2>d, <3>1, <3>3 DEF SettingsInv, GlobalStaysValid
  \* A write makes what the others have read outdated.
  <2>e. ASSUME NEW c \in Clients, request' = Outdated(c), DOMAIN settings' = Targets, raced' \in BOOLEAN
        PROVE  SettingsTypeOK' /\ ReadsAreFresh'
    <3>1. ASSUME NEW d \in Clients
          PROVE  /\ RequestShape(request'[d])
                 /\ request'[d].at \in {"global", "valid"} => ~request'[d].fresh
      <4>1. CASE d = c
        BY <2>b, <2>e, <4>1 DEF Outdated
      <4>2. CASE d # c /\ request[d].at \in {"global", "valid"}
        <5>1. request'[d] = [request[d] EXCEPT !.fresh = FALSE]
          BY <2>e, <4>2 DEF Outdated
        <5>2. RequestShape(request[d])
          BY <2>a DEF SettingsTypeOK
        <5> QED BY <5>1, <5>2 DEF RequestShape
      <4>3. CASE d # c /\ request[d].at \notin {"global", "valid"}
        <5>1. request'[d] = request[d]
          BY <2>e, <4>3 DEF Outdated
        <5> QED BY <2>a, <4>3, <5>1 DEF SettingsTypeOK
      <4> QED BY <4>1, <4>2, <4>3
    <3>2. DOMAIN request' = Clients
      BY <2>e DEF Outdated
    <3> QED BY <2>e, <3>1, <3>2 DEF SettingsTypeOK, ReadsAreFresh
  <2>1. ASSUME NEW c \in Clients, NEW op, NEW t, NEW ch, Ask(c, op, t, ch) PROVE SettingsInv'
    <3> DEFINE r == [Quiet EXCEPT !.at = "asked", !.op = op, !.target = t, !.changes = ch]
    <3>1. RequestShape(r) /\ r.at = "asked"
      BY DEF RequestShape, Quiet
    <3>2. request' = [request EXCEPT ![c] = r] /\ UNCHANGED <<settings, raced>>
      BY <2>1 DEF Ask
    <3> HIDE DEF r
    <3> QED BY <2>d, <3>1, <3>2
  <2>2. ASSUME NEW c \in Clients, ReadGlobal(c) PROVE SettingsInv'
    <3> DEFINE r == [request[c] EXCEPT !.at = "global", !.seen = settings[GlobalScope]]
    <3>1. request' = [request EXCEPT ![c] = r] /\ UNCHANGED <<settings, raced>>
      BY <2>2 DEF ReadGlobal
    <3>2. RequestShape(r) /\ r.at = "global" /\ r.seen = settings[GlobalScope]
      BY <2>a DEF SettingsTypeOK, RequestShape
    <3> HIDE DEF r
    <3> QED BY <2>d, <3>1, <3>2
  <2>3. ASSUME NEW c \in Clients, Validate(c) PROVE SettingsInv'
    <3> DEFINE r == request[c]
    <3>1. UNCHANGED <<settings, raced>> /\ r.at = "global" /\ RequestShape(r)
      BY <2>3, <2>a DEF Validate, SettingsTypeOK
    <3>2. CASE request' = [request EXCEPT ![c] = Quiet]
      BY <2>b, <2>d, <3>1, <3>2
    <3>3. CASE /\ ValidateSettings(Proposed(r.changes, Overlaid(Layer(r.target), r.seen)))
               /\ request' = [request EXCEPT ![c] = [r EXCEPT !.at = "valid"]]
      <4> DEFINE v == [r EXCEPT !.at = "valid"]
      <4>1. /\ RequestShape(v) /\ v.at = "valid" /\ v.fresh = r.fresh /\ v.target = r.target
            /\ v.changes = r.changes
        BY <3>1 DEF RequestShape
      <4>2. ASSUME r.fresh, r.target = GlobalScope
            PROVE  ValidateSettings(Overlaid(r.changes, settings[GlobalScope]))
        <5>1. r.seen = settings[GlobalScope]
          BY <2>a, <3>1, <4>2 DEF ReadsAreFresh
        <5>2. ValidateSettings(Overlaid(r.changes, Overlaid(<<>>, r.seen)))
          BY <3>3, <4>2 DEF Proposed, Layer
        <5> DEFINE f == Overlaid(r.changes, Overlaid(<<>>, r.seen))
                   g == Overlaid(r.changes, r.seen)
        <5>3. DOMAIN f = DOMAIN g /\ \A k \in DOMAIN f : f[k] = g[k]
          BY DEF Overlaid
        <5> HIDE DEF f, g
        <5>4. ValidateSettings(f)
          BY <5>2 DEF f
        <5>5. ValidateSettings(g)
          BY <5>3, <5>4, SameValuesSameCheck
        <5> QED BY <5>1, <5>5 DEF g
      <4> HIDE DEF v, r
      <4>3. request' = [request EXCEPT ![c] = v]
        BY <3>3 DEF v
      <4> QED BY <2>d, <3>1, <4>1, <4>2, <4>3
    <3> QED BY <2>3, <3>2, <3>3 DEF Validate
  <2>4. ASSUME NEW c \in Clients, ResolveConfig(c) \/ WriteFails(c) PROVE SettingsInv'
    <3>1. request' = [request EXCEPT ![c] = Quiet] /\ UNCHANGED <<settings, raced>>
      BY <2>4 DEF ResolveConfig, WriteFails
    <3> QED BY <2>b, <2>d, <3>1
  <2>5. ASSUME NEW c \in Clients, UpsertSettings(c) PROVE SettingsInv'
    <3> DEFINE r == request[c]
    <3>1. /\ r.at = "valid" /\ raced' = (raced \/ ~r.fresh) /\ request' = Outdated(c)
          /\ settings' = [settings EXCEPT ![r.target] = Overlaid(r.changes, settings[r.target])]
      BY <2>5 DEF UpsertSettings
    <3>2. SettingsTypeOK' /\ ReadsAreFresh'
      <4>1. DOMAIN settings' = Targets /\ raced' \in BOOLEAN
        BY <2>a, <3>1 DEF SettingsTypeOK
      <4> QED BY <2>e, <3>1, <4>1
    <3>3. ASSUME ~raced' PROVE ValidateSettings(settings'[GlobalScope])
      <4>1. ~raced /\ r.fresh /\ ValidateSettings(settings[GlobalScope])
        BY <2>a, <3>1, <3>3 DEF GlobalStaysValid
      <4>2. CASE r.target = GlobalScope
        <5>1. settings'[GlobalScope] = Overlaid(r.changes, settings[GlobalScope])
          BY <1>0, <2>a, <3>1, <4>2 DEF SettingsTypeOK
        <5> QED BY <2>a, <3>1, <4>1, <4>2, <5>1 DEF ReadsAreFresh
      <4>3. CASE r.target # GlobalScope
        <5>1. settings'[GlobalScope] = settings[GlobalScope]
          BY <1>0, <2>a, <3>1, <4>3 DEF SettingsTypeOK
        <5> QED BY <4>1, <5>1
      <4> QED BY <4>2, <4>3
    <3> QED BY <3>2, <3>3 DEF SettingsInv, GlobalStaysValid
  <2>6. ASSUME NEW c \in Clients, NEW t \in Targets, NEW k, Delete(c, t, k) PROVE SettingsInv'
    <3>1. /\ settings' = [settings EXCEPT ![t] = [x \in DOMAIN settings[t] \ {k} |-> settings[t][x]]]
          /\ request' = Outdated(c) /\ raced' = raced
      BY <2>6 DEF Delete
    <3>2. SettingsTypeOK' /\ ReadsAreFresh'
      <4>1. DOMAIN settings' = Targets /\ raced' \in BOOLEAN
        BY <2>a, <3>1 DEF SettingsTypeOK
      <4> QED BY <2>e, <3>1, <4>1
    <3>3. ASSUME ~raced' PROVE ValidateSettings(settings'[GlobalScope])
      <4>1. ValidateSettings(settings[GlobalScope])
        BY <2>a, <3>1, <3>3 DEF GlobalStaysValid
      <4>2. CASE t = GlobalScope
        <5>1. settings'[GlobalScope] = [x \in DOMAIN settings[GlobalScope] \ {k} |-> settings[GlobalScope][x]]
          BY <1>0, <2>a, <3>1, <4>2 DEF SettingsTypeOK
        <5> QED BY <4>1, <5>1, FewerKeysPass
      <4>3. CASE t # GlobalScope
        <5>1. settings'[GlobalScope] = settings[GlobalScope]
          BY <1>0, <2>a, <3>1, <4>3 DEF SettingsTypeOK
        <5> QED BY <4>1, <5>1
      <4> QED BY <4>2, <4>3
    <3> QED BY <3>2, <3>3 DEF SettingsInv, GlobalStaysValid
  <2>7. CASE UNCHANGED settingsVars
    BY <2>7, <2>a DEF settingsVars, SettingsInv, SettingsTypeOK, ReadsAreFresh, GlobalStaysValid
  <2> QED BY <2>1, <2>2, <2>3, <2>4, <2>5, <2>6, <2>7 DEF SettingsNext
<1>3. SettingsInv => GlobalStaysValid
  BY DEF SettingsInv
<1> QED BY <1>1, <1>2, <1>3, PTL DEF SettingsSpec

-----------------------------------------------------------------------------
(* The monitor. *)

BroadcasterSpec == MonitorInit /\ [][MonitorNext]_monitorVars

MonitorTypeOK ==
    /\ DOMAIN sender = 0..MaxActionPlans
    /\ \A p \in 0..MaxActionPlans : DOMAIN sender[p] = {"at", "todo", "jobs"}
    /\ DOMAIN chan = Subscribers
    /\ \A v \in Subscribers : DOMAIN chan[v] = {"state", "listed", "flagged", "buf"}
    /\ DOMAIN loop = {"on", "stop", "last"}

\* Who is listed has an open channel, and who Stop took out has one that is
\* not listed any more.
ListedAreOpen ==
    /\ \A v \in Subscribers : chan[v].listed => chan[v].state = "open"
    /\ \A v \in taken : ~chan[v].listed /\ chan[v].state # "absent"

\* The poll sends within the loop, and when Stop waits for the sends there is
\* no loop.
LoopIsAwaited ==
    /\ sender[0].at # "none" => loop.on
    /\ owner = "sends" => ~loop.on
    /\ taken \subseteq Subscribers

\* The copy the poll took names open channels.
CopyIsOpen ==
    sender[0].at \in {"count", "send"} =>
        \A v \in sender[0].todo : v \in Subscribers /\ chan[v].state = "open"

MonitorInv == MonitorTypeOK /\ ListedAreOpen /\ LoopIsAwaited /\ CopyIsOpen /\ PollsHitOpenChannels

\* Whatever subscribes, leaves, changes and is set while the monitor is
\* started and stopped, the poll never sends on a channel that Stop closed,
\* for any number of subscribers, sources and action plans
\* (monitor/data/broadcaster.go:104-172, 324-344).
THEOREM PollsNeverPanic == BroadcasterSpec => []PollsHitOpenChannels
<1>0. 0 \in 0..MaxActionPlans
  BY BroadcasterAssumption
<1>1. MonitorInit => MonitorInv
  <2> SUFFICES ASSUME MonitorInit PROVE MonitorInv
    OBVIOUS
  <2>1. MonitorTypeOK
    BY DEF MonitorInit, MonitorTypeOK, Silent, Unopened
  <2>2. sender[0].at = "none"
    BY <1>0 DEF MonitorInit, Silent
  <2>3. ListedAreOpen /\ LoopIsAwaited /\ CopyIsOpen /\ PollsHitOpenChannels
    BY <2>2 DEF MonitorInit, Unopened, ListedAreOpen, LoopIsAwaited, CopyIsOpen, PollsHitOpenChannels
  <2> QED BY <2>1, <2>3 DEF MonitorInv
<1>a. MonitorInit => actionPlan \in Nat
  BY DEF MonitorInit
<1>b. actionPlan \in Nat /\ [MonitorNext]_monitorVars => (actionPlan \in Nat)'
  <2> SUFFICES ASSUME actionPlan \in Nat, actionPlan' # actionPlan, MonitorNext
               PROVE  actionPlan' = actionPlan + 1
    BY DEF monitorVars
  <2> QED BY DEF MonitorNext, ChangeJobs, SetActionPlan, Start, Stop, AwaitLoop, AwaitSends, ChangeOther, Poll,
                 LoopReturns, CopySubscribers, CountIn, CountOut, SendUpdate, SubscribeTo, WriteMessage,
                 UnsubscribeFrom, ReceiveUpdates
<1>2. MonitorInv /\ actionPlan \in Nat /\ [MonitorNext]_monitorVars => MonitorInv'
  <2> SUFFICES ASSUME MonitorInv, actionPlan \in Nat, [MonitorNext]_monitorVars PROVE MonitorInv'
    OBVIOUS
  <2>a. /\ MonitorTypeOK /\ ListedAreOpen /\ LoopIsAwaited /\ CopyIsOpen
        /\ PollsHitOpenChannels
    BY DEF MonitorInv
  <2>b. /\ DOMAIN sender[0] = {"at", "todo", "jobs"}
        /\ \A v \in Subscribers : DOMAIN chan[v] = {"state", "listed", "flagged", "buf"}
    BY <1>0, <2>a DEF MonitorTypeOK
  \* Neither the senders nor the channels change.
  <2>c. ASSUME UNCHANGED <<sender, chan, panicked>>, DOMAIN loop' = {"on", "stop", "last"},
               ListedAreOpen', LoopIsAwaited'
        PROVE  MonitorInv'
    BY <2>a, <2>c DEF MonitorInv, MonitorTypeOK, CopyIsOpen, PollsHitOpenChannels
  \* One sender takes a step.
  <2>d. ASSUME NEW p \in 0..MaxActionPlans, NEW s, DOMAIN s = {"at", "todo", "jobs"},
               sender' = [sender EXCEPT ![p] = s], UNCHANGED <<chan, taken, owner, panicked>>,
               UNCHANGED loop \/ (DOMAIN loop' = {"on", "stop", "last"} /\ loop'.on = loop.on),
               p = 0 => /\ s.at # "none" => loop.on
                        /\ s.at \in {"count", "send"} =>
                              \A v \in s.todo : v \in Subscribers /\ chan[v].state = "open"
        PROVE  MonitorInv'
    <3>1. /\ DOMAIN sender' = 0..MaxActionPlans
          /\ \A q \in 0..MaxActionPlans : sender'[q] = IF q = p THEN s ELSE sender[q]
      BY <2>a, <2>d DEF MonitorTypeOK
    <3>2. MonitorTypeOK'
      BY <2>a, <2>d, <3>1 DEF MonitorTypeOK
    <3>3. loop'.on = loop.on /\ sender'[0] = IF p = 0 THEN s ELSE sender[0]
      BY <1>0, <2>d, <3>1
    <3>4. LoopIsAwaited' /\ CopyIsOpen'
      BY <2>a, <2>d, <3>3 DEF LoopIsAwaited, CopyIsOpen
    <3> QED BY <2>a, <2>d, <3>2, <3>4 DEF MonitorInv, ListedAreOpen, PollsHitOpenChannels
  \* One channel changes and stays what it is to those who send.
  <2>e. ASSUME NEW v \in Subscribers, NEW c, DOMAIN c = {"state", "listed", "flagged", "buf"},
               chan' = [chan EXCEPT ![v] = c], UNCHANGED <<sender, loop, taken, owner, panicked>>,
               c.listed => c.state = "open", chan[v].state # "absent" => c.state = chan[v].state,
               chan[v].state # "absent" /\ ~chan[v].listed => ~c.listed
        PROVE  MonitorInv'
    <3>1. /\ DOMAIN chan' = Subscribers
          /\ \A w \in Subscribers : chan'[w] = IF w = v THEN c ELSE chan[w]
      BY <2>a, <2>e DEF MonitorTypeOK
    <3>2. MonitorTypeOK'
      BY <2>a, <2>e, <3>1 DEF MonitorTypeOK
    <3>3. ListedAreOpen'
      BY <2>a, <2>e, <3>1 DEF ListedAreOpen, LoopIsAwaited
    <3>4. CopyIsOpen'
      BY <2>a, <2>e, <3>1 DEF CopyIsOpen
    <3> QED BY <2>a, <2>e, <3>2, <3>3, <3>4 DEF MonitorInv, LoopIsAwaited, PollsHitOpenChannels
  <2>1. ASSUME ChangeJobs \/ \E s \in {"rateLimit", "timeline", "executor"} : ChangeOther(s)
        PROVE  MonitorInv'
    <3>1. UNCHANGED <<loop, sender, owner, taken, chan, panicked>>
      BY <2>1 DEF ChangeJobs, ChangeOther
    <3> QED BY <2>a, <2>c, <3>1 DEF ListedAreOpen, LoopIsAwaited, MonitorTypeOK
  <2>2. CASE SetActionPlan
    <3> DEFINE s == [Silent EXCEPT !.at = "copy"]
    <3>1. /\ sender' = [sender EXCEPT ![actionPlan + 1] = s]
          /\ UNCHANGED <<loop, owner, taken, chan, panicked>>
      BY <2>2 DEF SetActionPlan
    <3>2. DOMAIN s = {"at", "todo", "jobs"}
      BY DEF Silent
    <3> HIDE DEF s
    <3>3. actionPlan + 1 \in 0..MaxActionPlans /\ actionPlan + 1 # 0
      BY <2>2, BroadcasterAssumption DEF SetActionPlan
    <3> QED BY <2>d, <3>1, <3>2, <3>3
  <2>3. ASSUME NEW s \in Sources, Poll(s) PROVE MonitorInv'
    <3>1. /\ loop.on /\ loop' = [loop EXCEPT !.last[s] = Current(s)]
          /\ UNCHANGED <<owner, taken, chan, panicked>>
      BY <2>3 DEF Poll
    <3>2. DOMAIN loop' = {"on", "stop", "last"} /\ loop'.on = loop.on
      BY <2>a, <3>1 DEF MonitorTypeOK
    <3>3. CASE sender' = sender
      BY <2>a, <2>c, <3>1, <3>2, <3>3 DEF ListedAreOpen, LoopIsAwaited
    <3>4. CASE sender' # sender
      <4> DEFINE r == [at |-> "copy", todo |-> {}, jobs |-> IF s = "jobs" THEN source.jobs ELSE NoJobs]
      <4>1. sender' = [sender EXCEPT ![0] = r]
        BY <2>3, <3>4 DEF Poll
      <4>2. DOMAIN r = {"at", "todo", "jobs"} /\ r.at = "copy"
        OBVIOUS
      <4> HIDE DEF r
      <4> QED BY <1>0, <2>d, <3>1, <3>2, <4>1, <4>2
    <3> QED BY <3>3, <3>4
  <2>4. ASSUME NEW told \in BOOLEAN, LoopReturns(told) PROVE MonitorInv'
    <3>1. /\ sender[0].at = "none" /\ loop' = [loop EXCEPT !.on = FALSE]
          /\ UNCHANGED <<sender, owner, taken, chan, panicked>>
      BY <2>4 DEF LoopReturns
    <3>2. DOMAIN loop' = {"on", "stop", "last"} /\ ~loop'.on
      BY <2>a, <3>1 DEF MonitorTypeOK
    <3> QED BY <2>a, <2>c, <3>1, <3>2 DEF ListedAreOpen, LoopIsAwaited
  <2>5. ASSUME NEW p \in 0..MaxActionPlans, CopySubscribers(p) PROVE MonitorInv'
    <3> DEFINE s == [sender[p] EXCEPT !.at = "count", !.todo = Listed]
    <3>1. /\ sender' = [sender EXCEPT ![p] = s] /\ sender[p].at = "copy"
          /\ UNCHANGED <<loop, owner, taken, chan, panicked>>
      BY <2>5 DEF CopySubscribers
    <3>2. DOMAIN s = {"at", "todo", "jobs"} /\ s.todo = Listed
      BY <2>a DEF MonitorTypeOK
    <3>3. \A v \in Listed : v \in Subscribers /\ chan[v].state = "open"
      BY <2>a DEF Listed, ListedAreOpen
    <3>4. p = 0 => loop.on
      BY <2>a, <3>1 DEF LoopIsAwaited
    <3> HIDE DEF s
    <3> QED BY <2>d, <3>1, <3>2, <3>3, <3>4
  <2>6. ASSUME NEW p \in 0..MaxActionPlans, CountIn(p) PROVE MonitorInv'
    <3> DEFINE s == [sender[p] EXCEPT !.at = "send"]
    <3>1. /\ sender' = [sender EXCEPT ![p] = s] /\ sender[p].at = "count"
          /\ UNCHANGED <<loop, owner, taken, chan, panicked>>
      BY <2>6 DEF CountIn
    <3>2. DOMAIN s = {"at", "todo", "jobs"} /\ s.todo = sender[p].todo
      BY <2>a DEF MonitorTypeOK
    <3>3. p = 0 => loop.on /\ \A v \in s.todo : v \in Subscribers /\ chan[v].state = "open"
      BY <2>a, <3>1, <3>2 DEF LoopIsAwaited, CopyIsOpen
    <3> HIDE DEF s
    <3> QED BY <2>d, <3>1, <3>2, <3>3
  <2>7. ASSUME NEW p \in 0..MaxActionPlans, CountOut(p) PROVE MonitorInv'
    <3>1. sender' = [sender EXCEPT ![p] = Silent] /\ UNCHANGED <<loop, owner, taken, chan, panicked>>
      BY <2>7 DEF CountOut
    <3>2. DOMAIN Silent = {"at", "todo", "jobs"} /\ Silent.at = "none"
      BY DEF Silent
    <3> QED BY <2>d, <3>1, <3>2
  <2>8. ASSUME NEW p \in 0..MaxActionPlans, NEW v \in Subscribers, SendUpdate(p, v) PROVE MonitorInv'
    <3> DEFINE s == [sender[p] EXCEPT !.todo = @ \ {v}]
    <3>1. /\ sender' = [sender EXCEPT ![p] = s] /\ sender[p].at = "send" /\ v \in sender[p].todo
          /\ UNCHANGED <<loop, owner, taken>>
      BY <2>8 DEF SendUpdate
    <3>2. /\ DOMAIN s = {"at", "todo", "jobs"} /\ s.todo = sender[p].todo \ {v} /\ s.at = sender[p].at
      BY <2>a DEF MonitorTypeOK
    <3>3. /\ DOMAIN sender' = 0..MaxActionPlans
          /\ \A q \in 0..MaxActionPlans : sender'[q] = IF q = p THEN s ELSE sender[q]
      BY <2>a, <3>1 DEF MonitorTypeOK
    <3>4. /\ DOMAIN chan' = Subscribers
          /\ \A w \in Subscribers : /\ DOMAIN chan'[w] = {"state", "listed", "flagged", "buf"}
                                    /\ chan'[w].state = chan[w].state /\ chan'[w].listed = chan[w].listed
      <4>1. CASE UNCHANGED chan
        BY <2>a, <4>1 DEF MonitorTypeOK
      <4>2. CASE chan' = [chan EXCEPT ![v].buf = Append(@, sender[p].jobs)]
        BY <2>a, <4>2 DEF MonitorTypeOK
      <4> QED BY <2>8, <4>1, <4>2 DEF SendUpdate
    <3>5. PollsHitOpenChannels'
      <4>1. p = 0 => chan[v].state = "open"
        BY <2>a, <3>1 DEF CopyIsOpen
      <4> QED BY <2>8, <2>a, <4>1 DEF SendUpdate, PollsHitOpenChannels
    <3> HIDE DEF s
    <3>6. sender'[0] = IF p = 0 THEN s ELSE sender[0]
      BY <1>0, <3>3
    <3>7. MonitorTypeOK' /\ ListedAreOpen'
      BY <2>a, <3>1, <3>2, <3>3, <3>4 DEF MonitorTypeOK, ListedAreOpen, LoopIsAwaited
    <3>8. LoopIsAwaited' /\ CopyIsOpen'
      BY <2>a, <3>1, <3>2, <3>4, <3>6 DEF LoopIsAwaited, CopyIsOpen
    <3> QED BY <3>5, <3>7, <3>8 DEF MonitorInv
  <2>9. CASE Start
    <3>1. /\ loop' = [on |-> TRUE, stop |-> FALSE, last |-> NoHashes] /\ owner' = "started"
          /\ UNCHANGED <<sender, taken, chan, panicked>>
      BY <2>9 DEF Start
    <3> QED BY <2>a, <2>c, <3>1 DEF ListedAreOpen, LoopIsAwaited
  <2>10. CASE Stop
    <3>1. /\ loop' = [loop EXCEPT !.stop = TRUE] /\ taken' = Listed /\ owner' = "loop"
          /\ chan' = [v \in Subscribers |-> [chan[v] EXCEPT !.listed = FALSE]]
          /\ UNCHANGED <<sender, panicked>>
      BY <2>10 DEF Stop
    <3>2. DOMAIN loop' = {"on", "stop", "last"} /\ loop'.on = loop.on
      BY <2>a, <3>1 DEF MonitorTypeOK
    <3>3. \A v \in Subscribers : /\ DOMAIN chan'[v] = {"state", "listed", "flagged", "buf"}
                                 /\ ~chan'[v].listed /\ chan'[v].state = chan[v].state
      BY <2>b, <3>1
    <3>4. MonitorTypeOK' /\ DOMAIN chan' = Subscribers
      BY <2>a, <3>1, <3>2, <3>3 DEF MonitorTypeOK
    <3>5. ListedAreOpen'
      BY <2>a, <3>1, <3>3 DEF ListedAreOpen, Listed
    <3>6. LoopIsAwaited' /\ CopyIsOpen'
      BY <2>a, <3>1, <3>2, <3>3 DEF LoopIsAwaited, CopyIsOpen, Listed
    <3> QED BY <2>a, <3>1, <3>4, <3>5, <3>6 DEF MonitorInv, PollsHitOpenChannels
  <2>11. CASE AwaitLoop
    <3>1. ~loop.on /\ UNCHANGED <<loop, sender, taken, chan, panicked>>
      BY <2>11 DEF AwaitLoop, LoopEnded
    <3> QED BY <2>a, <2>c, <3>1 DEF ListedAreOpen, LoopIsAwaited, MonitorTypeOK
  <2>12. CASE AwaitSends
    <3>1. /\ owner = "sends" /\ owner' = "idle" /\ taken' = {} /\ UNCHANGED <<loop, sender, panicked>>
          /\ chan' = [v \in Subscribers |-> IF v \in taken THEN [chan[v] EXCEPT !.state = "closed"]
                                            ELSE chan[v]]
      BY <2>12 DEF AwaitSends
    <3>2. sender[0].at = "none"
      BY <2>a, <3>1 DEF LoopIsAwaited
    <3>3. \A v \in Subscribers : /\ DOMAIN chan'[v] = {"state", "listed", "flagged", "buf"}
                                 /\ chan'[v].listed = chan[v].listed
                                 /\ v \notin taken => chan'[v].state = chan[v].state
      BY <2>b, <3>1
    <3>4. MonitorTypeOK' /\ ListedAreOpen'
      BY <2>a, <3>1, <3>3 DEF MonitorTypeOK, ListedAreOpen
    <3> QED BY <2>a, <3>1, <3>2, <3>4 DEF MonitorInv, LoopIsAwaited, CopyIsOpen, PollsHitOpenChannels
  <2>13. ASSUME NEW v \in Subscribers, SubscribeTo(v) PROVE MonitorInv'
    <3> DEFINE c == [chan[v] EXCEPT !.state = "open", !.listed = TRUE]
    <3>1. /\ chan[v].state = "absent" /\ chan' = [chan EXCEPT ![v] = c]
          /\ UNCHANGED <<sender, loop, taken, owner, panicked>>
      BY <2>13 DEF SubscribeTo
    <3>2. DOMAIN c = {"state", "listed", "flagged", "buf"} /\ c.state = "open"
      BY <2>b
    <3> HIDE DEF c
    <3> QED BY <2>e, <3>1, <3>2
  <2>14. ASSUME NEW v \in Subscribers, WriteMessage(v) \/ ReceiveUpdates(v) PROVE MonitorInv'
    <3> DEFINE c == [chan[v] EXCEPT !.buf = Tail(@)]
    <3>1. chan' = [chan EXCEPT ![v] = c] /\ UNCHANGED <<sender, loop, taken, owner, panicked>>
      BY <2>14 DEF WriteMessage, ReceiveUpdates
    <3>2. /\ DOMAIN c = {"state", "listed", "flagged", "buf"} /\ c.state = chan[v].state
          /\ c.listed = chan[v].listed
      BY <2>b
    <3>3. c.listed => c.state = "open"
      BY <2>a, <3>2 DEF ListedAreOpen
    <3> HIDE DEF c
    <3> QED BY <2>e, <3>1, <3>2, <3>3
  <2>15. ASSUME NEW v \in Subscribers, UnsubscribeFrom(v) PROVE MonitorInv'
    <3> DEFINE c == [chan[v] EXCEPT !.listed = FALSE, !.buf = <<>>, !.flagged = @ \/ chan[v].listed]
    <3>1. chan' = [chan EXCEPT ![v] = c] /\ UNCHANGED <<sender, loop, taken, owner, panicked>>
      BY <2>15 DEF UnsubscribeFrom
    <3>2. DOMAIN c = {"state", "listed", "flagged", "buf"} /\ c.state = chan[v].state /\ ~c.listed
      BY <2>b
    <3> HIDE DEF c
    <3> QED BY <2>e, <3>1, <3>2
  <2>16. CASE UNCHANGED monitorVars
    <3>1. UNCHANGED <<loop, sender, owner, taken, chan, panicked>>
      BY <2>16 DEF monitorVars
    <3> QED BY <2>a, <2>c, <3>1 DEF ListedAreOpen, LoopIsAwaited, MonitorTypeOK
  <2> QED BY <2>1, <2>2, <2>3, <2>4, <2>5, <2>6, <2>7, <2>8, <2>9, <2>10, <2>11, <2>12, <2>13, <2>14,
             <2>15, <2>16 DEF MonitorNext
<1>3. MonitorInv => PollsHitOpenChannels
  BY DEF MonitorInv
<1> QED BY <1>1, <1>a, <1>b, <1>2, <1>3, PTL DEF BroadcasterSpec

-----------------------------------------------------------------------------
(* The shards. *)

ShardSpec == ShardInit /\ [][ShardNext]_shardVars

ShardStates == [at : {"none", "wait", "scan", "send", "report", "done"}, left : SUBSET Pairs, found : Nat \cup {-1}]

ShardTypeOK ==
    /\ config \in [shardSize : Nat \ {0}, workers : Nat \ {0}, threshold : Nat,
                   backpressure : Nat \ {0}, global : BOOLEAN]
    /\ clashing \subseteq Pairs
    /\ spawned \in 0..ShardsTotal
    /\ shard \in [Shards -> ShardStates]
    /\ queue \in Seq(clashing) /\ reported \subseteq clashing

Underway(p) == p \in reported \/ \E i \in 1..Len(queue) : queue[i] = p

\* A conflict that a shard no longer has before it is on its way or reported.
NothingIsLost ==
    \A s \in Shards : \A p \in PairsOf(s) \cap clashing : p \in shard[s].left \/ Underway(p)

\* Only what conflicts is sent.
ConflictsAreSent ==
    \A s \in Shards : shard[s].at = "send" => First(shard[s].left) \in clashing

\* A shard that ended gave up and says so, or it has compared its pairs, or
\* it has reached its threshold.
Accounts(r) ==
    \/ r.found = -1 \/ r.left = {}
    \/ ~Global /\ config.threshold > 0 /\ r.found >= config.threshold

EndsAreCounted ==
    \A s \in Shards : shard[s].at \in {"report", "done"} => Accounts(shard[s])

ShardInv ==
    /\ ShardTypeOK /\ NothingIsLost /\ ConflictsAreSent /\ EndsAreCounted
    /\ CountersTellPartial

LEMMA LeastExists ==
    ASSUME NEW S \in SUBSET Nat, S # {}
    PROVE  Min(S) \in S /\ \A y \in S : Min(S) <= y
<1> DEFINE R == {ss \in Nat \X Nat : ss[1] < ss[2]}
<1>a. IsWellFoundedOn(R, Nat)
  BY NatLessThanWellFounded DEF OpToRel
<1> HIDE DEF R
<1>1. PICK x \in S : \A y \in S : ~(<<y, x>> \in R)
  BY <1>a, WFMin
<1>2. ASSUME NEW y \in S PROVE x <= y
  <2>1. y < x => <<y, x>> \in R
    BY DEF R
  <2> QED BY <1>1, <2>1
<1> QED BY <1>2 DEF Min

LEMMA MinOfPair ==
    ASSUME NEW a \in Int, NEW b \in Int
    PROVE  Min({a, b}) = IF a <= b THEN a ELSE b
<1>1. \E x \in {a, b} : \A y \in {a, b} : x =< y
  BY SMT
<1>2. /\ Min({a, b}) \in {a, b}
      /\ \A y \in {a, b} : Min({a, b}) =< y
  BY <1>1 DEF Min
<1> QED BY <1>2

\* The shards share all the pairs out.
LEMMA EveryPairHasShard ==
    ASSUME config.shardSize \in Nat \ {0}
    PROVE  ShardsTotal \in Nat /\ \A p \in Pairs : \E s \in Shards : p \in PairsOf(s)
<1> DEFINE z == config.shardSize
<1>0. Pool \in Nat \ {0} /\ z \in Nat \ {0}
  BY ShardsAssumption
<1> HIDE DEF z
<1>1. ShardsTotal = (Pool + z - 1) \div z
  BY DEF ShardsTotal, z
<1>2. ShardsTotal \in Nat /\ ShardsTotal * z >= Pool
  BY <1>0, <1>1
<1>3. ASSUME NEW p \in Pairs PROVE \E s \in Shards : p \in PairsOf(s)
  <2>1. p[1] \in 1..Pool /\ p \in Pairs
    BY DEF Pairs
  <2> DEFINE q == (p[1] - 1) \div z
  <2>2. q \in Nat /\ q * z <= p[1] - 1 /\ p[1] - 1 < (q + 1) * z
    BY <1>0, <2>1
  <2> HIDE DEF q
  <2>3. q < ShardsTotal
    <3>1. q >= ShardsTotal => q * z >= ShardsTotal * z
      BY <1>0, <1>2, <2>2
    <3>2. q * z \in Int /\ ShardsTotal * z \in Int
      BY <1>0, <1>2, <2>2
    <3>3. ~(q >= ShardsTotal)
      BY <1>0, <1>2, <2>1, <2>2, <3>1, <3>2
    <3> QED BY <1>2, <2>2, <3>3
  <2>4. q + 1 \in Shards
    BY <1>2, <2>2, <2>3 DEF Shards
  <2>5. p[1] \in Rows(q + 1)
    <3>1. Rows(q + 1) = q * z + 1 .. Min({(q + 1) * z, Pool})
      BY <2>2 DEF Rows, z
    <3>2. (q + 1) * z \in Int /\ q * z \in Int
      BY <1>0, <2>2
    <3>3. Min({(q + 1) * z, Pool}) = IF (q + 1) * z <= Pool THEN (q + 1) * z ELSE Pool
      BY <1>0, <3>2, MinOfPair
    <3> DEFINE lo == q * z
               hi == (q + 1) * z
    <3>4. lo \in Int /\ hi \in Int /\ lo <= p[1] - 1 /\ p[1] - 1 < hi
      BY <2>2, <3>2
    <3> HIDE DEF lo, hi
    <3>5. p[1] \in lo + 1 .. (IF hi <= Pool THEN hi ELSE Pool)
      BY <1>0, <2>1, <3>4
    <3> QED BY <3>1, <3>3, <3>5 DEF lo, hi
  <2> QED BY <2>1, <2>4, <2>5 DEF PairsOf
<1> QED BY <1>2, <1>3

LEMMA ShardInvariance == ShardSpec => []ShardInv
<1>1. ShardInit => ShardInv
  <2> SUFFICES ASSUME ShardInit PROVE ShardInv
    OBVIOUS
  <2>1. config \in [shardSize : Nat \ {0}, workers : Nat \ {0}, threshold : Nat,
                    backpressure : Nat \ {0}, global : BOOLEAN]
    BY ShardsAssumption DEF ShardInit
  <2>2. ShardsTotal \in Nat
    BY <2>1, EveryPairHasShard
  <2>3. shard \in [Shards -> ShardStates]
    BY DEF ShardInit, ShardStates, PairsOf
  <2>4. \A s \in Shards : shard[s].at = "none" /\ shard[s].left = PairsOf(s)
    BY DEF ShardInit
  <2>5. /\ clashing \subseteq Pairs /\ spawned = 0 /\ queue \in Seq(clashing) /\ reported = {}
        /\ result = None
    BY DEF ShardInit
  <2>6. CountersTellPartial
    BY <2>5 DEF CountersTellPartial, None
  <2> QED BY <2>1, <2>2, <2>3, <2>4, <2>5, <2>6
          DEF ShardInv, ShardTypeOK, NothingIsLost, ConflictsAreSent, EndsAreCounted
<1>2. ShardInv /\ [ShardNext]_shardVars => ShardInv'
  <2> SUFFICES ASSUME ShardInv, [ShardNext]_shardVars PROVE ShardInv'
    OBVIOUS
  <2>a. /\ ShardTypeOK /\ NothingIsLost /\ ConflictsAreSent /\ EndsAreCounted
        /\ CountersTellPartial
    BY DEF ShardInv
  <2>b. /\ \A s \in Shards : /\ shard[s] \in ShardStates /\ shard[s].left \subseteq Pairs
                             /\ shard[s].found \in Nat \cup {-1}
        /\ DOMAIN shard = Shards
    BY <2>a DEF ShardTypeOK, ShardStates
  <2>u. UNCHANGED <<config, clashing>>
    BY DEF ShardNext, Step, Spawn, Receive, Return, Cancel, TakeSlot, Scan, Send, Finish, GiveUp, Report,
           shardVars
  <2>v. /\ ShardsTotal' = ShardsTotal /\ Shards' = Shards
        /\ \A s : PairsOf(s)' = PairsOf(s)
        /\ \A r : Accounts(r)' <=> Accounts(r)
    <3>1. ShardsTotal' = ShardsTotal
      BY <2>u DEF ShardsTotal
    <3>2. Shards' = Shards
      BY <3>1 DEF Shards
    <3>3. \A s : Rows(s)' = Rows(s)
      BY <2>u DEF Rows
    <3>4. \A s : PairsOf(s)' = PairsOf(s)
      BY <3>3 DEF PairsOf
    <3>5. \A r : Accounts(r)' <=> Accounts(r)
      BY <2>u DEF Accounts, Global
    <3> QED BY <3>1, <3>2, <3>4, <3>5
  <2>w. ShardsTotal \in Nat
    BY <2>a, EveryPairHasShard DEF ShardTypeOK
  \* A shard takes a step; what it has no longer before it is on its way.
  <2>d. ASSUME NEW s \in Shards, NEW r \in ShardStates, shard' = [shard EXCEPT ![s] = r],
               spawned' \in 0..ShardsTotal, queue' \in Seq(clashing), UNCHANGED <<reported, result>>,
               \A p : Underway(p) => Underway(p)',
               \A p \in shard[s].left \cap clashing : p \in r.left \/ Underway(p)',
               r.at = "send" => First(r.left) \in clashing,
               r.at \in {"report", "done"} => Accounts(r)
        PROVE  ShardInv'
    <3>1. /\ shard' \in [Shards -> ShardStates]
          /\ \A q \in Shards : shard'[q] = IF q = s THEN r ELSE shard[q]
      BY <2>a, <2>b, <2>d DEF ShardTypeOK
    <3>2. ShardTypeOK'
      BY <2>a, <2>d, <2>u, <2>v, <3>1 DEF ShardTypeOK
    <3>3. NothingIsLost'
      BY <2>a, <2>d, <2>u, <2>v, <3>1 DEF NothingIsLost
    <3>4. ConflictsAreSent'
      BY <2>a, <2>d, <2>u, <2>v, <3>1 DEF ConflictsAreSent
    <3>5. EndsAreCounted'
      BY <2>a, <2>d, <2>v, <3>1 DEF EndsAreCounted
    <3>6. CountersTellPartial'
      BY <2>a, <2>d, <2>u DEF CountersTellPartial
    <3> QED BY <3>2, <3>3, <3>4, <3>5, <3>6 DEF ShardInv
  \* The same when it sends nothing.
  <2>e. ASSUME NEW s \in Shards, NEW r \in ShardStates, shard' = [shard EXCEPT ![s] = r],
               spawned' \in 0..ShardsTotal, UNCHANGED <<queue, reported, result>>,
               \A p \in shard[s].left \cap clashing : p \in r.left,
               r.at = "send" => First(r.left) \in clashing,
               r.at \in {"report", "done"} => Accounts(r)
        PROVE  ShardInv'
    <3>1. \A p : Underway(p)' <=> Underway(p)
      BY <2>e DEF Underway
    <3>2. queue' \in Seq(clashing)
      BY <2>a, <2>e DEF ShardTypeOK
    <3> QED BY <2>d, <2>e, <3>1, <3>2
  \* A shard only moves on.
  <2>f. ASSUME NEW s \in Shards, NEW at \in {"wait", "scan", "send", "report", "done"}, shard' = To(s, at),
               spawned' \in 0..ShardsTotal, UNCHANGED <<queue, reported, result>>,
               at = "send" => First(shard[s].left) \in clashing,
               at \in {"report", "done"} => Accounts(shard[s])
        PROVE  ShardInv'
    <3> DEFINE r == [shard[s] EXCEPT !.at = at]
    <3>1. /\ r \in ShardStates /\ r.at = at /\ r.left = shard[s].left /\ r.found = shard[s].found
      BY <2>b DEF ShardStates
    <3>2. shard' = [shard EXCEPT ![s] = r]
      BY <2>f DEF To
    <3> HIDE DEF r
    <3>3. Accounts(r) <=> Accounts(shard[s])
      BY <3>1 DEF Accounts
    <3> QED BY <2>e, <2>f, <3>1, <3>2, <3>3
  <2>g. spawned \in 0..ShardsTotal
    BY <2>a DEF ShardTypeOK
  <2>1. CASE Spawn
    <3>1. /\ spawned' = spawned + 1 /\ spawned < ShardsTotal /\ shard' = To(spawned + 1, "wait")
          /\ UNCHANGED <<queue, reported, result>>
      BY <2>1 DEF Spawn, MaySpawn, To
    <3>2. spawned + 1 \in Shards /\ spawned' \in 0..ShardsTotal
      BY <2>g, <2>w, <3>1 DEF Shards
    <3> QED BY <2>f, <3>1, <3>2
  <2>2. ASSUME NEW s \in Shards, TakeSlot(s) PROVE ShardInv'
    BY <2>2, <2>f, <2>g DEF TakeSlot, MayTakeSlot
  <2>3. ASSUME NEW s \in Shards, Scan(s) PROVE ShardInv'
    <3>1. UNCHANGED <<spawned, queue, reported, result>> /\ shard[s].at = "scan"
      BY <2>3 DEF Scan, MayScan
    <3>2. CASE First(shard[s].left) \in clashing
      <4>1. shard' = To(s, "send")
        BY <2>3, <3>2 DEF Scan
      <4> QED BY <2>f, <2>g, <3>1, <3>2, <4>1
    <3>3. CASE First(shard[s].left) \notin clashing
      <4> DEFINE r == [shard[s] EXCEPT !.left = @ \ {First(@)}]
      <4>1. shard' = [shard EXCEPT ![s] = r]
        BY <2>3, <3>3 DEF Scan
      <4>2. r \in ShardStates /\ r.at = "scan" /\ r.left = shard[s].left \ {First(shard[s].left)}
        BY <2>b, <3>1 DEF ShardStates
      <4> HIDE DEF r
      <4> QED BY <2>e, <2>g, <3>1, <3>3, <4>1, <4>2
    <3> QED BY <3>2, <3>3
  <2>4. ASSUME NEW s \in Shards, Send(s) PROVE ShardInv'
    <3>0. PICK first : first = First(shard[s].left)
      OBVIOUS
    <3> DEFINE r == [at |-> "scan", left |-> shard[s].left \ {first}, found |-> shard[s].found + 1]
    <3>1. /\ UNCHANGED <<spawned, reported, result>> /\ shard[s].at = "send"
          /\ queue' = Append(queue, first) /\ shard' = [shard EXCEPT ![s] = r]
      BY <2>4, <3>0 DEF Send, MaySend
    <3>2. first \in clashing
      BY <2>a, <3>0, <3>1 DEF ConflictsAreSent
    <3>3. /\ queue \in Seq(clashing) /\ Len(queue) \in Nat /\ queue' \in Seq(clashing)
          /\ Len(queue') = Len(queue) + 1 /\ queue'[Len(queue) + 1] = first
          /\ \A i \in 1..Len(queue) : queue'[i] = queue[i]
      BY <2>a, <3>1, <3>2 DEF ShardTypeOK
    <3>4. \A p : Underway(p) => Underway(p)'
      BY <3>1, <3>3 DEF Underway
    <3>5. Underway(first)'
      <4>1. Len(queue) + 1 \in 1..Len(queue') /\ queue'[Len(queue) + 1] = first
        BY <3>3
      <4>2. \E i \in 1..Len(queue') : queue'[i] = first
        BY <4>1
      <4> QED BY <4>2 DEF Underway
    <3>6. r \in ShardStates /\ r.at = "scan" /\ r.left = shard[s].left \ {first}
      <4>1. shard[s].found + 1 \in Nat
        BY <2>b
      <4> QED BY <2>b, <4>1 DEF ShardStates
    <3> HIDE DEF r
    <3>7. \A p \in shard[s].left \cap clashing : p \in r.left \/ Underway(p)'
      <4>1. ASSUME NEW p \in shard[s].left, p # first PROVE p \in r.left
        BY <3>6, <4>1
      <4> QED BY <3>5, <4>1
    <3>8. spawned' \in 0..ShardsTotal /\ r.at # "send" /\ r.at \notin {"report", "done"}
      BY <2>g, <3>1, <3>6
    <3> QED BY <2>d, <3>1, <3>3, <3>4, <3>6, <3>7, <3>8
  <2>5. ASSUME NEW s \in Shards, Finish(s) PROVE ShardInv'
    <3>1. Ending \in {"report", "done"} /\ Accounts(shard[s])
      BY <2>5 DEF Ending, Accounts, Finish, MayFinish, AtThreshold
    <3> QED BY <2>5, <2>f, <2>g, <3>1 DEF Finish
  <2>6. ASSUME NEW s \in Shards, GiveUp(s) PROVE ShardInv'
    <3> DEFINE r == [at |-> Ending, left |-> shard[s].left, found |-> -1]
    <3>1. UNCHANGED <<spawned, queue, reported, result>> /\ shard' = [shard EXCEPT ![s] = r]
      BY <2>6 DEF GiveUp
    <3>2. r.at \in {"report", "done"} /\ r.left = shard[s].left /\ r.found = -1
      BY DEF Ending
    <3>3. r \in ShardStates
      BY <2>b, <3>2 DEF ShardStates
    <3> HIDE DEF r
    <3>4. Accounts(r)
      BY <3>2 DEF Accounts
    <3> QED BY <2>e, <2>g, <3>1, <3>2, <3>3, <3>4
  <2>7. ASSUME NEW s \in Shards, Report(s) PROVE ShardInv'
    <3>1. Accounts(shard[s])
      BY <2>7, <2>a DEF Report, MayReport, EndsAreCounted
    <3> QED BY <2>7, <2>f, <2>g, <3>1 DEF Report
  <2>8. CASE Receive
    <3>1. /\ queue # <<>> /\ queue' = Tail(queue) /\ reported' = reported \union {Head(queue)}
          /\ UNCHANGED <<spawned, shard, result>>
      BY <2>8 DEF Receive
    <3>2. /\ queue \in Seq(clashing) /\ Len(queue) \in Nat /\ Head(queue) = queue[1] /\ queue[1] \in clashing
          /\ queue' \in Seq(clashing) /\ Len(queue') = Len(queue) - 1
          /\ \A i \in 1..(Len(queue) - 1) : queue'[i] = queue[i + 1]
      BY <2>a, <3>1 DEF ShardTypeOK
    <3>3. ASSUME NEW p, Underway(p) PROVE Underway(p)'
      <4>1. CASE p \in reported
        BY <3>1, <4>1 DEF Underway
      <4>2. ASSUME NEW i \in 1..Len(queue), queue[i] = p PROVE Underway(p)'
        <5>1. CASE i = 1
          BY <3>1, <3>2, <4>2, <5>1 DEF Underway
        <5>2. CASE i # 1
          <6>1. i - 1 \in 1..Len(queue') /\ (i - 1) + 1 = i
            BY <3>2, <4>2, <5>2
          <6>2. queue'[i - 1] = p
            BY <3>2, <4>2, <6>1
          <6> QED BY <6>1, <6>2 DEF Underway
        <5> QED BY <5>1, <5>2
      <4> QED BY <3>3, <4>1, <4>2 DEF Underway
    <3>4. ShardTypeOK'
      BY <2>a, <2>u, <2>v, <3>1, <3>2 DEF ShardTypeOK
    <3>5. NothingIsLost'
      BY <2>a, <2>u, <2>v, <3>1, <3>3 DEF NothingIsLost
    <3>6. ConflictsAreSent' /\ EndsAreCounted' /\ CountersTellPartial'
      BY <2>a, <2>u, <2>v, <3>1 DEF ConflictsAreSent, EndsAreCounted, CountersTellPartial
    <3> QED BY <3>4, <3>5, <3>6 DEF ShardInv
  <2>9. CASE Return
    <3> DEFINE ended == {s \in 1..spawned : shard[s].found >= 0}
               stopped == {s \in ended : AtThreshold(s)}
    <3>1. /\ queue = <<>> /\ (spawned = ShardsTotal \/ (Global /\ exit))
          /\ \A s \in 1..spawned : shard[s].at = "done"
          /\ result' = [done |-> TRUE, conflicts |-> reported,
                        shardsTotal |-> IF Global /\ spawned < ShardsTotal THEN spawned + 1 ELSE ShardsTotal,
                        completed |-> Cardinality(ended),
                        earlyExits |-> IF Global THEN IF exit THEN 1 ELSE 0 ELSE Cardinality(stopped)]
          /\ UNCHANGED <<spawned, shard, queue, reported>>
      BY <2>9 DEF Return, MayReturn
    <3>2. \A p : Underway(p)' <=> Underway(p)
      BY <3>1 DEF Underway
    <3>3. ShardTypeOK' /\ NothingIsLost' /\ ConflictsAreSent' /\ EndsAreCounted'
      BY <2>a, <2>u, <2>v, <3>1, <3>2 DEF ShardTypeOK, NothingIsLost, ConflictsAreSent, EndsAreCounted
    <3>4. ASSUME result'.completed = result'.shardsTotal, result'.earlyExits = 0
          PROVE  reported = clashing
      <4>1. ~(Global /\ exit) /\ spawned = ShardsTotal
        BY <3>1, <3>4
      <4>2. Cardinality(ended) = ShardsTotal /\ (~Global => Cardinality(stopped) = 0)
        BY <2>w, <3>1, <3>4, <4>1
      <4>3. ended \subseteq Shards /\ IsFiniteSet(Shards) /\ Cardinality(Shards) = ShardsTotal
        BY <2>w, <4>1, FS_Interval DEF Shards
      <4>4. ended = Shards
        BY <4>2, <4>3, FS_Subset
      <4>5. ~Global => stopped = {}
        <5>1. stopped \subseteq Shards
          BY <4>3
        <5>2. IsFiniteSet(stopped)
          BY <4>3, <5>1, FS_Subset
        <5> HIDE DEF stopped
        <5> QED BY <4>2, <5>2, FS_EmptySet
      <4>6. ASSUME NEW s \in Shards PROVE shard[s].left = {}
        <5>1. shard[s].at = "done" /\ shard[s].found >= 0 /\ ~AtThreshold(s)
          BY <3>1, <4>1, <4>4, <4>5 DEF Shards, AtThreshold
        <5>2. Accounts(shard[s])
          BY <2>a, <5>1 DEF EndsAreCounted
        <5> QED BY <5>1, <5>2 DEF Accounts, AtThreshold
      <4>7. ASSUME NEW p \in clashing PROVE p \in reported
        <5>1. PICK s \in Shards : p \in PairsOf(s)
          BY <2>a, EveryPairHasShard DEF ShardTypeOK
        <5>2. Underway(p)
          BY <2>a, <4>6, <5>1 DEF NothingIsLost
        <5> QED BY <3>1, <5>2 DEF Underway
      <4> QED BY <2>a, <4>7 DEF ShardTypeOK
    <3>5. CountersTellPartial'
      <4>1. result'.conflicts = reported /\ reported \subseteq clashing
        BY <2>a, <3>1 DEF ShardTypeOK
      <4> QED BY <2>u, <3>4, <4>1 DEF CountersTellPartial
    <3> QED BY <3>3, <3>5 DEF ShardInv
  <2>10. CASE Cancel \/ UNCHANGED shardVars
    <3>1. UNCHANGED <<spawned, shard, queue, reported, result>>
      BY <2>10 DEF Cancel, shardVars
    <3>2. \A p : Underway(p)' <=> Underway(p)
      BY <3>1 DEF Underway
    <3> QED BY <2>a, <2>u, <2>v, <3>1, <3>2
            DEF ShardInv, ShardTypeOK, NothingIsLost, ConflictsAreSent, EndsAreCounted, CountersTellPartial
  <2> QED BY <2>1, <2>2, <2>3, <2>4, <2>5, <2>6, <2>7, <2>8, <2>9, <2>10 DEF ShardNext, Step
<1> QED BY <1>1, <1>2, PTL DEF ShardSpec

\* However the shards, their workers, the caller and a cancellation
\* interleave, a result that counts every shard as completed and no early
\* exit lists all the conflicts, for every pool, shard size, number of
\* workers, threshold and length of the channel
\* (planning/pairwise.go:127-300, 302-457).
THEOREM PartialListsTell == ShardSpec => []CountersTellPartial
<1>1. ShardInv => CountersTellPartial
  BY DEF ShardInv
<1> QED BY <1>1, ShardInvariance, PTL

\* Shards are started one after the other, the channel of metrics holds what
\* the shards that ended have sent, and a result is one.
WaitInv ==
    /\ \A s \in Shards : shard[s].at = "none" <=> s > spawned
    /\ metrics \subseteq {s \in Shards : shard[s].at = "done"}
    /\ result # None => result.done

LEMMA WaitStep ==
    ASSUME ShardInv, WaitInv, [ShardNext]_shardVars
    PROVE  WaitInv'
<1>1. /\ config' = config /\ ShardsTotal' = ShardsTotal /\ Shards' = Shards
      /\ ShardsTotal \in Nat /\ spawned \in 0..ShardsTotal
      /\ \A s \in Shards : shard[s] \in ShardStates
      /\ DOMAIN shard = Shards
  <2>1. config' = config
    BY DEF ShardNext, Step, Spawn, Receive, Return, Cancel, TakeSlot, Scan, Send, Finish, GiveUp, Report,
           shardVars
  <2>2. ShardTypeOK /\ ShardsTotal \in Nat
    BY EveryPairHasShard DEF ShardInv, ShardTypeOK
  <2> QED BY <2>1, <2>2 DEF ShardTypeOK, ShardsTotal, Shards
<1>2. \A s \in Shards : s \in Nat \ {0}
  BY <1>1 DEF Shards
\* What a shard that has been started and has not ended does.
<1>3. ASSUME NEW s \in Shards, NEW r, shard' = [shard EXCEPT ![s] = r], r.at # "none",
             shard[s].at \notin {"none", "done"}, UNCHANGED <<spawned, result>>,
             metrics' = metrics \/ (metrics' = metrics \cup {s} /\ r.at = "done")
      PROVE  WaitInv'
  <2>1. \A q \in Shards : shard'[q] = IF q = s THEN r ELSE shard[q]
    BY <1>1, <1>3
  <2> QED BY <1>1, <1>3, <2>1 DEF WaitInv
<1>4. ASSUME NEW s \in Shards, NEW at, shard' = To(s, at), at # "none",
             shard[s].at \notin {"none", "done"}, UNCHANGED <<spawned, result>>,
             metrics' = metrics \/ (metrics' = metrics \cup {s} /\ at = "done")
      PROVE  WaitInv'
  <2> DEFINE r == [shard[s] EXCEPT !.at = at]
  <2>1. shard' = [shard EXCEPT ![s] = r] /\ r.at = at
    BY <1>1, <1>4 DEF To, ShardStates
  <2> HIDE DEF r
  <2> QED BY <1>3, <1>4, <2>1
<1>5. CASE Spawn
  <2>1. /\ spawned' = spawned + 1 /\ spawned < ShardsTotal /\ shard' = To(spawned + 1, "wait")
        /\ UNCHANGED <<metrics, result>>
    BY <1>5 DEF Spawn, MaySpawn, To
  <2>2. spawned + 1 \in Shards /\ shard[spawned + 1].at = "none"
    BY <1>1, <2>1 DEF Shards, WaitInv
  <2>3. /\ shard'[spawned + 1].at = "wait"
        /\ \A q \in Shards : q # spawned + 1 => shard'[q] = shard[q]
    BY <1>1, <2>1, <2>2 DEF To, ShardStates
  <2>4. ASSUME NEW q \in Shards PROVE shard'[q].at = "none" <=> q > spawned'
    BY <1>1, <1>2, <2>1, <2>3 DEF WaitInv
  <2>5. ASSUME NEW q \in metrics PROVE q \in Shards /\ shard'[q].at = "done"
    BY <2>2, <2>3 DEF WaitInv
  <2> QED BY <1>1, <2>1, <2>4, <2>5 DEF WaitInv
<1>6. ASSUME NEW s \in Shards, TakeSlot(s) PROVE WaitInv'
  BY <1>4, <1>6 DEF TakeSlot, MayTakeSlot
<1>7. ASSUME NEW s \in Shards, Scan(s) PROVE WaitInv'
  <2>1. shard[s].at = "scan" /\ UNCHANGED <<spawned, result, metrics>>
    BY <1>7 DEF Scan, MayScan
  <2>2. CASE shard' = To(s, "send")
    BY <1>4, <2>1, <2>2
  <2>3. CASE shard' = [shard EXCEPT ![s].left = @ \ {First(@)}]
    <3> DEFINE r == [shard[s] EXCEPT !.left = @ \ {First(@)}]
    <3>1. shard' = [shard EXCEPT ![s] = r] /\ r.at = "scan"
      BY <1>1, <2>1, <2>3 DEF ShardStates
    <3> HIDE DEF r
    <3> QED BY <1>3, <2>1, <3>1
  <2> QED BY <1>7, <2>2, <2>3 DEF Scan
<1>8. ASSUME NEW s \in Shards, Send(s) PROVE WaitInv'
  <2> DEFINE r == [at |-> "scan", left |-> shard[s].left \ {First(shard[s].left)}, found |-> shard[s].found + 1]
  <2>1. shard' = [shard EXCEPT ![s] = r] /\ r.at = "scan"
    BY <1>8 DEF Send
  <2> HIDE DEF r
  <2> QED BY <1>3, <1>8, <2>1 DEF Send, MaySend
<1>9. ASSUME NEW s \in Shards, Finish(s) PROVE WaitInv'
  BY <1>4, <1>9 DEF Finish, MayFinish, Ending
<1>10. ASSUME NEW s \in Shards, GiveUp(s) PROVE WaitInv'
  <2> DEFINE r == [at |-> Ending, left |-> shard[s].left, found |-> -1]
  <2>1. shard' = [shard EXCEPT ![s] = r] /\ r.at = Ending
    BY <1>10 DEF GiveUp
  <2> HIDE DEF r
  <2>2. r.at # "none" /\ shard[s].at \notin {"none", "done"}
    BY <1>10, <2>1 DEF GiveUp, MayGiveUp, Ending
  <2> QED BY <1>3, <1>10, <2>1, <2>2 DEF GiveUp
<1>11. ASSUME NEW s \in Shards, Report(s) PROVE WaitInv'
  BY <1>4, <1>11 DEF Report, MayReport
<1>12. CASE Return
  BY <1>1, <1>12 DEF Return, WaitInv
<1>13. CASE Receive \/ Cancel \/ UNCHANGED shardVars
  BY <1>1, <1>13 DEF Receive, Cancel, shardVars, WaitInv
<1> QED BY <1>5, <1>6, <1>7, <1>8, <1>9, <1>10, <1>11, <1>12, <1>13 DEF ShardNext, Step

\* A set of pairs has a first one.
LEMMA FirstExists ==
    ASSUME NEW ps \in SUBSET Pairs, ps # {}
    PROVE  First(ps) \in ps
<1> DEFINE rows == {p[1] : p \in ps}
           a == Min(rows)
           columns == {p[2] : p \in {q \in ps : q[1] = a}}
           b == Min(columns)
<1>0. \A p \in ps : p[1] \in Nat /\ p[2] \in Nat /\ p = <<p[1], p[2]>>
  BY ShardsAssumption DEF Pairs
<1>1. a \in rows /\ \A x \in rows : a <= x
  <2>1. rows \in SUBSET Nat /\ rows # {}
    BY <1>0
  <2> QED BY <2>1, LeastExists
<1> HIDE DEF a
<1>2. b \in columns /\ \A y \in columns : b <= y
  <2>1. columns \in SUBSET Nat /\ columns # {}
    BY <1>0, <1>1
  <2> QED BY <2>1, LeastExists
<1> HIDE DEF b
<1>3. <<a, b>> \in ps
  <2>1. PICK p \in ps : p[1] = a /\ p[2] = b
    BY <1>2
  <2> QED BY <1>0, <2>1
<1>4. ASSUME NEW q \in ps \ {<<a, b>>} PROVE Before(<<a, b>>, q)
  <2>1. a \in Nat /\ b \in Nat /\ q[1] \in Nat /\ q[2] \in Nat /\ a <= q[1]
    BY <1>0, <1>1, <1>3
  <2>2. q[1] = a => b <= q[2] /\ q[2] # b
    BY <1>0, <1>2
  <2> QED BY <2>1, <2>2 DEF Before
<1> QED BY <1>3, <1>4 DEF First

\* No pair is of two shards.
LEMMA PairsOfOneShard ==
    ASSUME config.shardSize \in Nat \ {0}, NEW s \in Shards, NEW t \in Shards, NEW p,
           p \in PairsOf(s), p \in PairsOf(t)
    PROVE  s = t
<1> DEFINE z == config.shardSize
<1>0. Pool \in Nat \ {0} /\ z \in Nat \ {0} /\ ShardsTotal \in Nat
  BY ShardsAssumption, EveryPairHasShard
<1> HIDE DEF z
<1>1. s \in Nat /\ t \in Nat
  BY <1>0 DEF Shards
<1>2. p[1] \in Nat
  BY <1>0 DEF PairsOf, Pairs
<1>3. ASSUME NEW x \in Nat, p[1] \in Rows(x) PROVE (x - 1) * z < p[1] /\ p[1] <= x * z
  <2> DEFINE lo == (x - 1) * z
             hi == x * z
  <2>1. lo \in Int /\ hi \in Int
    BY <1>0, <1>3
  <2>2. p[1] \in lo + 1 .. Min({hi, Pool})
    BY <1>3 DEF Rows, z
  <2> HIDE DEF lo, hi
  <2>3. Min({hi, Pool}) = IF hi <= Pool THEN hi ELSE Pool
    BY <1>0, <2>1, MinOfPair
  <2>4. lo < p[1] /\ p[1] <= hi
    BY <1>0, <1>2, <2>1, <2>2, <2>3
  <2> QED BY <2>4 DEF lo, hi
<1>4. ASSUME NEW x \in Nat, NEW y \in Nat, x < y, p[1] <= x * z, (y - 1) * z < p[1] PROVE FALSE
  <2>1. x * z <= (y - 1) * z /\ x * z \in Int /\ (y - 1) * z \in Int
    BY <1>0, <1>4
  <2> QED BY <1>2, <1>4, <2>1
<1>5. p[1] \in Rows(s) /\ p[1] \in Rows(t)
  BY DEF PairsOf
<1> QED BY <1>1, <1>3, <1>4, <1>5

\* What a shard has before it is of its own pairs, and no pair is in the
\* channel twice, or there and before a shard.
SharedOut ==
    /\ \A s \in Shards : shard[s].left \subseteq PairsOf(s)
    /\ \A s \in Shards : shard[s].at = "send" => shard[s].left # {}
    /\ \A s \in Shards : \A i \in 1..Len(queue) : queue[i] \notin shard[s].left
    /\ \A i, j \in 1..Len(queue) : queue[i] = queue[j] => i = j

LEMMA SharedOutStep ==
    ASSUME ShardInv, SharedOut, [ShardNext]_shardVars
    PROVE  SharedOut'
<1>1. /\ config' = config /\ Shards' = Shards /\ \A s : PairsOf(s)' = PairsOf(s)
      /\ config.shardSize \in Nat \ {0}
      /\ \A s \in Shards : shard[s] \in ShardStates /\ shard[s].left \subseteq Pairs
      /\ DOMAIN shard = Shards /\ ShardsTotal \in Nat /\ spawned \in 0..ShardsTotal
      /\ queue \in Seq(clashing)
  <2>1. config' = config
    BY DEF ShardNext, Step, Spawn, Receive, Return, Cancel, TakeSlot, Scan, Send, Finish, GiveUp, Report,
           shardVars
  <2>2. Shards' = Shards /\ \A s : PairsOf(s)' = PairsOf(s)
    BY <2>1 DEF Shards, ShardsTotal, PairsOf, Rows
  <2>3. ShardTypeOK /\ ShardsTotal \in Nat
    BY EveryPairHasShard DEF ShardInv, ShardTypeOK
  <2> QED BY <2>1, <2>2, <2>3 DEF ShardTypeOK, ShardStates
\* A shard takes a step, and sends nothing.
<1>2. ASSUME NEW s \in Shards, NEW r, shard' = [shard EXCEPT ![s] = r], r.left \subseteq shard[s].left,
             r.at = "send" => r.left # {}, queue' = queue
      PROVE  SharedOut'
  <2>1. \A q \in Shards : shard'[q] = IF q = s THEN r ELSE shard[q]
    BY <1>1, <1>2
  <2> QED BY <1>1, <1>2, <2>1 DEF SharedOut
<1>3. ASSUME NEW s \in Shards, NEW at, shard' = To(s, at), at = "send" => shard[s].left # {}, queue' = queue
      PROVE  SharedOut'
  <2> DEFINE r == [shard[s] EXCEPT !.at = at]
  <2>1. shard' = [shard EXCEPT ![s] = r] /\ r.at = at /\ r.left = shard[s].left
    BY <1>1, <1>3 DEF To, ShardStates
  <2> HIDE DEF r
  <2> QED BY <1>2, <1>3, <2>1
<1>4. CASE Spawn
  <2>1. spawned < ShardsTotal /\ shard' = To(spawned + 1, "wait") /\ queue' = queue
    BY <1>4 DEF Spawn, MaySpawn, To
  <2>2. spawned + 1 \in Shards
    BY <1>1, <2>1 DEF Shards
  <2> QED BY <1>3, <2>1, <2>2
<1>5. ASSUME NEW s \in Shards, Scan(s) PROVE SharedOut'
  <2>1. shard[s].left # {} /\ queue' = queue
    BY <1>5 DEF Scan, MayScan
  <2>2. CASE shard' = To(s, "send")
    BY <1>3, <2>1, <2>2
  <2>3. CASE shard' = [shard EXCEPT ![s].left = @ \ {First(@)}]
    <3> DEFINE r == [shard[s] EXCEPT !.left = @ \ {First(@)}]
    <3>1. /\ shard' = [shard EXCEPT ![s] = r] /\ r.at = shard[s].at
          /\ r.left = shard[s].left \ {First(shard[s].left)}
      BY <1>1, <2>3 DEF ShardStates
    <3>2. r.at # "send"
      BY <1>5, <3>1 DEF Scan, MayScan
    <3> HIDE DEF r
    <3> QED BY <1>2, <2>1, <3>1, <3>2
  <2> QED BY <1>5, <2>2, <2>3 DEF Scan
<1>6. ASSUME NEW s \in Shards, Send(s) PROVE SharedOut'
  <2> DEFINE first == First(shard[s].left)
             r == [at |-> "scan", left |-> shard[s].left \ {first}, found |-> shard[s].found + 1]
  <2>1. /\ shard[s].at = "send" /\ queue' = Append(queue, first)
        /\ shard' = [shard EXCEPT ![s] = r] /\ r.at = "scan" /\ r.left = shard[s].left \ {first}
    BY <1>6 DEF Send, MaySend
  <2>2. first \in shard[s].left
    BY <1>1, <2>1, FirstExists DEF SharedOut
  <2> HIDE DEF first, r
  <2>3. \A q \in Shards : shard'[q] = IF q = s THEN r ELSE shard[q]
    BY <1>1, <2>1
  <2>4. /\ Len(queue) \in Nat /\ Len(queue') = Len(queue) + 1 /\ queue'[Len(queue) + 1] = first
        /\ \A i \in 1..Len(queue) : queue'[i] = queue[i]
    BY <1>1, <2>1
  <2>5. ASSUME NEW q \in Shards PROVE first \notin shard'[q].left /\ shard'[q].left \subseteq shard[q].left
    BY <1>1, <2>1, <2>2, <2>3, PairsOfOneShard DEF SharedOut
  <2>6. \A i \in 1..Len(queue) : queue[i] # first
    BY <2>2 DEF SharedOut
  <2>7. ASSUME NEW q \in Shards, NEW i \in 1..Len(queue') PROVE queue'[i] \notin shard'[q].left
    <3>1. i \in 1..Len(queue) \/ i = Len(queue) + 1
      BY <2>4
    <3> QED BY <2>4, <2>5, <3>1 DEF SharedOut
  <2>8. ASSUME NEW i \in 1..Len(queue'), NEW j \in 1..Len(queue'), queue'[i] = queue'[j] PROVE i = j
    <3>1. (i \in 1..Len(queue) \/ i = Len(queue) + 1) /\ (j \in 1..Len(queue) \/ j = Len(queue) + 1)
      BY <2>4
    <3> QED BY <2>4, <2>6, <2>8, <3>1 DEF SharedOut
  <2>9. \A q \in Shards : shard'[q].left \subseteq PairsOf(q) /\ (shard'[q].at = "send" => shard'[q].left # {})
    BY <2>1, <2>3, <2>5 DEF SharedOut
  <2> QED BY <1>1, <2>7, <2>8, <2>9 DEF SharedOut
<1>7. ASSUME NEW s \in Shards, TakeSlot(s) \/ Finish(s) \/ Report(s) PROVE SharedOut'
  BY <1>3, <1>7 DEF TakeSlot, Finish, Report, Ending
<1>8. ASSUME NEW s \in Shards, GiveUp(s) PROVE SharedOut'
  <2> DEFINE r == [at |-> Ending, left |-> shard[s].left, found |-> -1]
  <2>1. /\ shard' = [shard EXCEPT ![s] = r] /\ queue' = queue /\ r.at # "send" /\ r.left = shard[s].left
    BY <1>8 DEF GiveUp, Ending
  <2> HIDE DEF r
  <2> QED BY <1>2, <2>1
<1>9. CASE Receive
  <2>1. queue # <<>> /\ queue' = Tail(queue) /\ shard' = shard
    BY <1>9 DEF Receive
  <2>2. Len(queue) \in Nat /\ Len(queue') = Len(queue) - 1 /\ \A i \in 1..Len(queue') : queue'[i] = queue[i + 1]
    BY <1>1, <2>1
  <2>3. \A i \in 1..Len(queue') : i + 1 \in 1..Len(queue) /\ queue'[i] = queue[i + 1]
    BY <2>2
  <2>4. \A i, j \in 1..Len(queue') : queue'[i] = queue'[j] => i = j
    BY <2>2, <2>3 DEF SharedOut
  <2> QED BY <1>1, <2>1, <2>3, <2>4 DEF SharedOut
<1>10. CASE Return \/ Cancel \/ UNCHANGED shardVars
  BY <1>1, <1>10 DEF Return, Cancel, shardVars, SharedOut
<1> QED BY <1>4, <1>5, <1>6, <1>7, <1>8, <1>9, <1>10 DEF ShardNext, Step

\* The comparison never deadlocks, for every pool, shard size, number of
\* workers, threshold and length of the channel: while no result is returned,
\* a shard can go on, the caller can read a conflict, or all are done
\* (planning/pairwise.go:127-300, 302-457).
THEOREM ComparisonGoesOn == ShardSpec => []NobodyWaitsForever
<1>1. ShardInit => WaitInv
  <2> SUFFICES ASSUME ShardInit PROVE WaitInv
    OBVIOUS
  <2>1. /\ \A s \in Shards : shard[s].at = "none"
        /\ spawned = 0 /\ metrics = {} /\ result = None
    BY DEF ShardInit
  <2>2. ShardsTotal \in Nat
    BY ShardsAssumption, EveryPairHasShard DEF ShardInit
  <2> QED BY <2>1, <2>2 DEF WaitInv, Shards
<1>2. ASSUME ShardInv, WaitInv PROVE NobodyWaitsForever
  <2> SUFFICES ASSUME ~result.done, queue = <<>>, ~MaySpawn, ~MayReturn,
                      \A s \in Shards : /\ ~MayTakeSlot(s) /\ ~MayScan(s) /\ ~MaySend(s)
                                        /\ ~MayFinish(s) /\ ~MayGiveUp(s) /\ ~MayReport(s)
               PROVE  FALSE
    BY DEF NobodyWaitsForever
  <2>1. /\ config.workers \in Nat \ {0} /\ config.backpressure \in Nat \ {0}
        /\ ShardsTotal \in Nat /\ spawned \in 0..ShardsTotal
        /\ \A s \in Shards : shard[s].at \in {"none", "wait", "scan", "send", "report", "done"}
    BY <1>2, EveryPairHasShard DEF ShardInv, ShardTypeOK, ShardStates
  <2>2. \A s \in Shards : shard[s].at # "scan"
    BY DEF MayScan, MayFinish, MayGiveUp
  <2>3. \A s \in Shards : shard[s].at # "send"
    BY <2>1 DEF MaySend
  \* The shards that have yet to report are not all of them.
  <2>4. ASSUME NEW s \in Shards, shard[s].at = "report" PROVE FALSE
    <3>1. metrics \subseteq Shards \ {s}
      BY <1>2, <2>4 DEF WaitInv
    <3>a. ShardsTotal \in Nat
      BY <2>1
    <3>2. IsFiniteSet(Shards) /\ Cardinality(Shards) = ShardsTotal
      BY <3>a, FS_Interval DEF Shards
    <3>3. IsFiniteSet(Shards \ {s}) /\ Cardinality(Shards \ {s}) = ShardsTotal - 1
      BY <3>2, FS_RemoveElement
    <3>4. Cardinality(metrics) <= ShardsTotal - 1 /\ Cardinality(metrics) \in Nat
      BY <3>1, <3>3, FS_Subset, FS_CardinalityType
    <3> QED BY <2>1, <2>4, <3>4 DEF MayReport, MetricsCapacity
  \* A slot is free, since nobody runs.
  <2>5. \A s \in Shards : shard[s].at # "wait"
    <3>1. Running = {}
      BY <2>2, <2>3, <2>4 DEF Running
    <3>2. Cardinality(Running) = 0
      BY <3>1, FS_EmptySet
    <3> QED BY <2>1, <3>2 DEF MayTakeSlot
  <2>6. result = None
    BY <1>2 DEF WaitInv
  <2>7. spawned = ShardsTotal \/ (Global /\ exit)
    BY <2>1, <2>5, <2>6 DEF MaySpawn
  <2>8. ASSUME NEW s \in 1..spawned PROVE shard[s].at = "done"
    <3>1. s \in Shards /\ ~(s > spawned)
      BY <2>1 DEF Shards
    <3> QED BY <1>2, <2>1, <2>2, <2>3, <2>4, <2>5, <3>1 DEF WaitInv
  <2> QED BY <2>6, <2>7, <2>8 DEF MayReturn
<1> QED BY <1>1, <1>2, ShardInvariance, WaitStep, PTL DEF ShardSpec

\* Every step of the comparison takes something away of what may still
\* happen, and nothing comes back: no pair is compared, sent or read twice,
\* so that no comparison goes on for ever, for every pool, shard size, number
\* of workers, threshold and length of the channel
\* (planning/pairwise.go:127-300, 302-457).
THEOREM EveryStepIsProgress == ShardSpec => EveryStepCounts
<1> DEFINE Counts == /\ \A i \in DOMAIN Todo : Todo'[i] \subseteq Todo[i]
                     /\ Todo' = Todo => ~cancelled /\ cancelled'
<1>1. ShardInit => WaitInv /\ SharedOut
  <2> SUFFICES ASSUME ShardInit PROVE WaitInv /\ SharedOut
    OBVIOUS
  <2>1. /\ \A s \in Shards : shard[s].at = "none" /\ shard[s].left = PairsOf(s)
        /\ spawned = 0 /\ metrics = {} /\ result = None /\ queue = <<>>
    BY DEF ShardInit
  <2>2. ShardsTotal \in Nat
    BY ShardsAssumption, EveryPairHasShard DEF ShardInit
  <2> QED BY <2>1, <2>2 DEF WaitInv, SharedOut, Shards
<1>2. ASSUME ShardInv, WaitInv, SharedOut, [ShardNext]_shardVars PROVE [Counts]_shardVars
  <2> SUFFICES ASSUME ShardNext PROVE Counts
    BY <1>2
  <2>1. /\ Shards' = Shards /\ config' = config /\ config.shardSize \in Nat \ {0}
        /\ \A s \in Shards : shard[s] \in ShardStates /\ shard[s].left \subseteq Pairs
        /\ DOMAIN shard = Shards /\ ShardsTotal \in Nat /\ spawned \in 0..ShardsTotal
        /\ queue \in Seq(clashing)
    <3>1. config' = config
      BY DEF ShardNext, Step, Spawn, Receive, Return, Cancel, TakeSlot, Scan, Send, Finish, GiveUp, Report
    <3>2. ShardTypeOK /\ ShardsTotal \in Nat
      BY <1>2, EveryPairHasShard DEF ShardInv, ShardTypeOK
    <3> QED BY <3>1, <3>2 DEF ShardTypeOK, ShardStates, Shards, ShardsTotal
  <2>2. ASSUME NEW s \in Shards, shard[s].left # {} PROVE First(shard[s].left) \in shard[s].left
    BY <2>1, <2>2, FirstExists
  <2>3. ASSUME NEW s \in Shards, shard[s].at = "send" PROVE First(shard[s].left) \in shard[s].left
    BY <1>2, <2>2, <2>3 DEF SharedOut
  <2>4. ASSUME NEW s \in Shards, NEW t \in Shards, NEW p \in shard[s].left, p \in shard[t].left PROVE s = t
    BY <1>2, <2>1, <2>4, PairsOfOneShard DEF SharedOut
  \* It is enough to compare the parts one by one.
  <2>5. ASSUME StagesAhead' \subseteq StagesAhead, Compares' \subseteq Compares, Sends' \subseteq Sends,
               Reads' \subseteq Reads, result.done => result'.done,
               \/ StagesAhead' # StagesAhead \/ Compares' # Compares \/ Sends' # Sends \/ Reads' # Reads
               \/ (~result.done /\ result'.done) \/ (~cancelled /\ cancelled')
        PROVE  Counts
    BY <2>5 DEF Todo
  <2>6. /\ \A p : p \in Sends <=> \E t \in Shards : ~Ended(t) /\ p \in shard[t].left
        /\ \A p : p \in Sends' <=> \E t \in Shards : ~Ended(t)' /\ p \in shard'[t].left
    BY <2>1 DEF Sends
  <2>7. /\ \A p : p \in Compares <=> /\ p \in Sends
                                     /\ \A t \in Shards : shard[t].at = "send" => p # First(shard[t].left)
        /\ \A p : p \in Compares' <=> /\ p \in Sends'
                                      /\ \A t \in Shards : shard'[t].at = "send" => p # First(shard'[t].left)
    BY <2>1 DEF Compares
  <2>8. /\ \A p : p \in Reads <=> p \in Sends \/ \E i \in 1..Len(queue) : p = queue[i]
        /\ queue' \in Seq(clashing) => \A p : p \in Reads' <=> p \in Sends' \/ \E i \in 1..Len(queue') : p = queue'[i]
    BY <2>1 DEF Reads
  <2>9. /\ \A x, q : <<x, q>> \in StagesAhead <=>
                       x \in {"start", "slot", "end", "report"} /\ q \in Shards /\ x \in Ahead(shard[q].at)
        /\ \A x, q : <<x, q>> \in StagesAhead' <=>
                       x \in {"start", "slot", "end", "report"} /\ q \in Shards /\ x \in Ahead(shard'[q].at)
        /\ \A y \in StagesAhead' : y = <<y[1], y[2]>>
    BY <2>1 DEF StagesAhead
  \* A shard goes to its next stage, and what it has before it stays or is over.
  <2>10. ASSUME NEW s \in Shards, NEW r, shard' = [shard EXCEPT ![s] = r], r.left = shard[s].left,
                UNCHANGED <<queue, result>>, NEW x \in {"start", "slot", "end", "report"},
                Ahead(r.at) \subseteq Ahead(shard[s].at), x \in Ahead(shard[s].at), x \notin Ahead(r.at),
                \/ r.at \in {"report", "done"}
                \/ r.at \in {"wait", "scan"} /\ shard[s].at \notin {"send", "report", "done"}
         PROVE  Counts
    <3>1. \A q \in Shards : shard'[q] = IF q = s THEN r ELSE shard[q]
      BY <2>1, <2>10
    <3>2. \A q \in Shards : Ended(q) => Ended(q)'
      BY <2>10, <3>1 DEF Ended, Ahead
    <3>3. ASSUME NEW p \in Sends' PROVE \E t \in Shards : ~Ended(t)' /\ ~Ended(t) /\ p \in shard[t].left
      BY <2>6, <2>10, <3>1, <3>2
    <3>4. Sends' \subseteq Sends
      BY <2>6, <3>3
    <3>5. ASSUME NEW p \in Compares' PROVE p \in Compares
      <4>1. PICK t \in Shards : ~Ended(t)' /\ p \in shard[t].left
        BY <2>7, <3>3
      <4>2. ASSUME NEW u \in Shards, shard[u].at = "send" PROVE p # First(shard[u].left)
        <5>1. CASE u # s
          BY <2>7, <3>1, <4>2, <5>1
        <5>2. CASE u = s
          <6>1. Ended(s)' /\ t # s
            BY <2>10, <3>1, <4>1, <4>2, <5>2 DEF Ended
          <6> QED BY <2>3, <2>4, <4>1, <4>2, <5>2, <6>1
        <5> QED BY <5>1, <5>2
      <4> QED BY <2>7, <3>4, <4>2
    <3>6. Reads' \subseteq Reads
      BY <2>1, <2>8, <2>10, <3>4
    <3>7. StagesAhead' \subseteq StagesAhead
      <4>1. ASSUME NEW y, NEW q, <<y, q>> \in StagesAhead' PROVE <<y, q>> \in StagesAhead
        BY <2>9, <2>10, <3>1, <4>1
      <4> QED BY <2>9, <4>1
    <3>8. <<x, s>> \in StagesAhead /\ <<x, s>> \notin StagesAhead'
      BY <2>9, <2>10, <3>1
    <3> QED BY <2>5, <2>10, <3>4, <3>5, <3>6, <3>7, <3>8
  <2>11. ASSUME NEW s \in Shards, NEW at, shard' = To(s, at), UNCHANGED <<queue, result>>,
                NEW x \in {"start", "slot", "end", "report"},
                Ahead(at) \subseteq Ahead(shard[s].at), x \in Ahead(shard[s].at), x \notin Ahead(at),
                \/ at \in {"report", "done"}
                \/ at \in {"wait", "scan"} /\ shard[s].at \notin {"send", "report", "done"}
         PROVE  Counts
    <3> DEFINE r == [shard[s] EXCEPT !.at = at]
    <3>1. shard' = [shard EXCEPT ![s] = r] /\ r.at = at /\ r.left = shard[s].left
      BY <2>1, <2>11 DEF To, ShardStates
    <3> HIDE DEF r
    <3> QED BY <2>10, <2>11, <3>1
  <2>12. CASE Spawn
    <3>1. spawned < ShardsTotal /\ shard' = To(spawned + 1, "wait") /\ UNCHANGED <<queue, result>>
      BY <2>12 DEF Spawn, MaySpawn, To
    <3>2. spawned + 1 \in Shards /\ shard[spawned + 1].at = "none"
      BY <1>2, <2>1, <3>1 DEF Shards, WaitInv
    <3>3. Ahead("wait") \subseteq Ahead("none") /\ "start" \in Ahead("none") /\ "start" \notin Ahead("wait")
      BY DEF Ahead
    <3> QED BY <2>11, <3>1, <3>2, <3>3
  <2>13. ASSUME NEW s \in Shards, TakeSlot(s) PROVE Counts
    <3>1. Ahead("scan") \subseteq Ahead("wait") /\ "slot" \in Ahead("wait") /\ "slot" \notin Ahead("scan")
      BY DEF Ahead
    <3> QED BY <2>11, <2>13, <3>1 DEF TakeSlot, MayTakeSlot
  \* A shard that ends, in one way or the other, or has reported.
  <2>14. ASSUME NEW s \in Shards, NEW r, shard' = [shard EXCEPT ![s] = r], r.left = shard[s].left,
                UNCHANGED <<queue, result>>, shard[s].at \in {"scan", "send"}, r.at = Ending
         PROVE  Counts
    <3>1. /\ Ahead(Ending) \subseteq Ahead(shard[s].at) /\ "end" \in Ahead(shard[s].at)
          /\ "end" \notin Ahead(Ending) /\ Ending \in {"report", "done"}
      BY <2>14 DEF Ahead, Ending
    <3> QED BY <2>10, <2>14, <3>1
  <2>15. ASSUME NEW s \in Shards, Finish(s) PROVE Counts
    <3>1. /\ Ahead(Ending) \subseteq Ahead("scan") /\ "end" \in Ahead("scan")
          /\ "end" \notin Ahead(Ending) /\ Ending \in {"report", "done"}
      BY DEF Ahead, Ending
    <3> QED BY <2>11, <2>15, <3>1 DEF Finish, MayFinish
  <2>16. ASSUME NEW s \in Shards, GiveUp(s) PROVE Counts
    <3> DEFINE r == [at |-> Ending, left |-> shard[s].left, found |-> -1]
    <3>1. /\ shard' = [shard EXCEPT ![s] = r] /\ r.left = shard[s].left /\ r.at = Ending
          /\ UNCHANGED <<queue, result>> /\ shard[s].at \in {"scan", "send"}
      BY <2>16 DEF GiveUp, MayGiveUp
    <3> HIDE DEF r
    <3> QED BY <2>14, <3>1
  <2>17. ASSUME NEW s \in Shards, Report(s) PROVE Counts
    <3>1. Ahead("done") \subseteq Ahead("report") /\ "report" \in Ahead("report") /\ "report" \notin Ahead("done")
      BY DEF Ahead
    <3> QED BY <2>11, <2>17, <3>1 DEF Report, MayReport
  \* A pair is compared, and is no conflict, or it is sent.
  <2>18. ASSUME NEW s \in Shards, NEW r, shard' = [shard EXCEPT ![s] = r], shard[s].left # {},
                r.left = shard[s].left \ {First(shard[s].left)}, r.at = "scan",
                shard[s].at \in {"scan", "send"}, result' = result,
                queue' = queue \/ queue' = Append(queue, First(shard[s].left)), queue' \in Seq(clashing)
         PROVE  Counts
    <3> DEFINE first == First(shard[s].left)
    <3>1. \A q \in Shards : shard'[q] = IF q = s THEN r ELSE shard[q]
      BY <2>1, <2>18
    <3>2. first \in shard[s].left
      BY <2>2, <2>18
    <3> HIDE DEF first
    <3>3. \A q \in Shards : Ended(q)' <=> Ended(q)
      BY <2>18, <3>1 DEF Ended
    <3>4. ~Ended(s) /\ r.left = shard[s].left \ {first}
      BY <2>18 DEF Ended, first
    <3>5. Sends' \subseteq Sends
      BY <2>6, <3>1, <3>3, <3>4
    <3>6. first \in Sends
      BY <2>6, <3>2, <3>4
    <3>7. first \notin Sends'
      <4> SUFFICES ASSUME NEW t \in Shards, ~Ended(t)', first \in shard'[t].left PROVE FALSE
        BY <2>6
      <4>1. t # s
        BY <3>1, <3>4
      <4> QED BY <2>4, <3>1, <3>2, <4>1
    <3>8. ASSUME NEW p \in Compares' PROVE p \in Compares
      <4>1. p \in Sends' /\ p # first
        BY <2>7, <3>7
      <4>2. ASSUME NEW u \in Shards, shard[u].at = "send" PROVE p # First(shard[u].left)
        <5>1. CASE u # s
          BY <2>7, <3>1, <4>2, <5>1
        <5>2. CASE u = s
          BY <4>1, <5>2 DEF first
        <5> QED BY <5>1, <5>2
      <4> QED BY <2>7, <3>5, <4>1, <4>2
    <3>9. Reads' \subseteq Reads
      <4>1. CASE queue' = queue
        BY <2>8, <2>18, <3>5, <4>1
      <4>2. CASE queue' = Append(queue, first)
        <5>0. /\ Len(queue) \in Nat /\ Len(queue') = Len(queue) + 1 /\ queue'[Len(queue) + 1] = first
              /\ \A i \in 1..Len(queue) : queue'[i] = queue[i]
          BY <2>1, <4>2
        <5>1. \A i \in 1..Len(queue') : queue'[i] = first \/ (i \in 1..Len(queue) /\ queue'[i] = queue[i])
          BY <5>0
        <5> QED BY <2>8, <2>18, <3>5, <3>6, <5>1
      <4> QED BY <2>18, <4>1, <4>2 DEF first
    <3>10. StagesAhead' \subseteq StagesAhead
      <4>1. Ahead(r.at) = Ahead(shard[s].at)
        BY <2>18 DEF Ahead
      <4>2. ASSUME NEW y, NEW q, <<y, q>> \in StagesAhead' PROVE <<y, q>> \in StagesAhead
        BY <2>9, <3>1, <4>1, <4>2
      <4> QED BY <2>9, <4>2
    <3> QED BY <2>5, <2>18, <3>5, <3>6, <3>7, <3>8, <3>9, <3>10
  <2>19. ASSUME NEW s \in Shards, Scan(s) PROVE Counts
    <3>1. shard[s].at = "scan" /\ shard[s].left # {} /\ UNCHANGED <<queue, result>>
      BY <2>19 DEF Scan, MayScan
    <3>2. CASE shard' = [shard EXCEPT ![s].left = @ \ {First(@)}]
      <4> DEFINE r == [shard[s] EXCEPT !.left = @ \ {First(@)}]
      <4>1. /\ shard' = [shard EXCEPT ![s] = r] /\ r.at = "scan"
            /\ r.left = shard[s].left \ {First(shard[s].left)}
        BY <2>1, <3>1, <3>2 DEF ShardStates
      <4> HIDE DEF r
      <4> QED BY <2>1, <2>18, <3>1, <4>1
    <3>3. CASE shard' = To(s, "send")
      <4> DEFINE first == First(shard[s].left)
      <4>1. \A q \in Shards : /\ shard'[q].left = shard[q].left
                             /\ shard'[q].at = IF q = s THEN "send" ELSE shard[q].at
        BY <2>1, <3>3 DEF To, ShardStates
      <4>2. \A q \in Shards : Ended(q)' <=> Ended(q)
        BY <3>1, <4>1 DEF Ended
      <4>3. \A p : p \in Sends' <=> p \in Sends
        BY <2>6, <4>1, <4>2
      <4>4. Compares' \subseteq Compares
        BY <2>7, <3>1, <4>1, <4>3
      <4>5. first \in Compares
        <5>1. first \in shard[s].left
          BY <2>2, <3>1
        <5> HIDE DEF first
        <5>2. first \in Sends
          BY <2>6, <3>1, <5>1 DEF Ended
        <5>3. \A t \in Shards : shard[t].at = "send" => first # First(shard[t].left)
          BY <2>3, <2>4, <3>1, <5>1
        <5> QED BY <2>7, <5>2, <5>3
      <4>6. first \notin Compares'
        BY <2>7, <4>1
      <4>7. StagesAhead' \subseteq StagesAhead
        <5>1. \A q \in Shards : Ahead(shard'[q].at) = Ahead(shard[q].at)
          BY <3>1, <4>1 DEF Ahead
        <5>2. ASSUME NEW y, NEW q, <<y, q>> \in StagesAhead' PROVE <<y, q>> \in StagesAhead
          BY <2>9, <5>1, <5>2
        <5> QED BY <2>9, <5>2
      <4>8. Reads' \subseteq Reads
        BY <2>1, <2>8, <3>1, <4>3
      <4> QED BY <2>5, <3>1, <4>3, <4>4, <4>5, <4>6, <4>7, <4>8
    <3> QED BY <2>19, <3>2, <3>3 DEF Scan
  <2>20. ASSUME NEW s \in Shards, Send(s) PROVE Counts
    <3> DEFINE r == [at |-> "scan", left |-> shard[s].left \ {First(shard[s].left)}, found |-> shard[s].found + 1]
    <3>1. /\ shard' = [shard EXCEPT ![s] = r] /\ r.at = "scan" /\ r.left = shard[s].left \ {First(shard[s].left)}
          /\ shard[s].at = "send" /\ result' = result /\ queue' = Append(queue, First(shard[s].left))
      BY <2>20 DEF Send, MaySend
    <3> HIDE DEF r
    <3>2. First(shard[s].left) \in clashing /\ shard[s].left # {}
      BY <1>2, <3>1 DEF ShardInv, ConflictsAreSent, SharedOut
    <3>3. queue' \in Seq(clashing)
      BY <2>1, <3>1, <3>2
    <3> QED BY <2>18, <3>1, <3>2, <3>3
  <2>21. CASE Receive
    <3>1. queue # <<>> /\ queue' = Tail(queue) /\ UNCHANGED <<shard, result>>
      BY <2>21 DEF Receive
    <3>2. /\ queue' \in Seq(clashing) /\ Len(queue) \in Nat /\ Len(queue) > 0 /\ Len(queue') = Len(queue) - 1
          /\ \A i \in 1..Len(queue') : i + 1 \in 1..Len(queue) /\ i + 1 # 1 /\ queue'[i] = queue[i + 1]
      BY <2>1, <3>1
    <3>3. 1 \in 1..Len(queue)
      BY <3>2
    <3>4. Sends' = Sends /\ Compares' = Compares /\ StagesAhead' = StagesAhead
      BY <2>1, <3>1 DEF Sends, Compares, StagesAhead, Ended
    <3>5. Reads' \subseteq Reads
      BY <2>8, <3>2, <3>4
    <3>6. queue[1] \in Reads
      BY <2>8, <3>3
    <3>7. queue[1] \notin Sends
      BY <1>2, <2>6, <3>3 DEF SharedOut
    <3>8. \A i \in 1..Len(queue') : queue'[i] # queue[1]
      BY <1>2, <3>2, <3>3 DEF SharedOut
    <3>9. queue[1] \notin Reads'
      BY <2>8, <3>2, <3>4, <3>7, <3>8
    <3> QED BY <2>5, <3>1, <3>4, <3>5, <3>6, <3>9
  <2>22. ASSUME UNCHANGED <<shard, queue>>, result.done => result'.done,
                (~result.done /\ result'.done) \/ (~cancelled /\ cancelled')
         PROVE  Counts
    <3>1. Sends' = Sends /\ Compares' = Compares /\ StagesAhead' = StagesAhead
      BY <2>1, <2>22 DEF Sends, Compares, StagesAhead, Ended
    <3>2. Reads' = Reads
      BY <2>22, <3>1 DEF Reads
    <3> QED BY <2>5, <2>22, <3>1, <3>2
  <2>23. CASE Return
    <3>1. /\ result = None /\ result'.done /\ UNCHANGED <<shard, queue>>
      BY <2>23 DEF Return, MayReturn
    <3> QED BY <2>22, <3>1 DEF None
  <2>24. CASE Cancel
    BY <2>22, <2>24 DEF Cancel
  <2> QED BY <2>12, <2>13, <2>15, <2>16, <2>17, <2>19, <2>20, <2>21, <2>23, <2>24 DEF ShardNext, Step
<1> QED BY <1>1, <1>2, ShardInvariance, WaitStep, SharedOutStep, PTL DEF ShardSpec, EveryStepCounts

-----------------------------------------------------------------------------
(* The incremental graph. *)

GraphSpec == GraphInit /\ [][GraphNext]_graphVars

GraphTypeOK == shape \in [Numbers -> Shapes] /\ present \subseteq Numbers

GraphInv == GraphTypeOK /\ GraphMatchesBuild

\* What an update compares: each pair once, the lower number first.
UpdatePairs == {p \in present \X present : p[1] < p[2]}

\* A branch is not merged into itself; only a fork's branch may have the name of
\* its base, and then the update stacks on it what the build does not.
NoHeadIsItsBase == \A s \in Shapes : s.head = "" \/ s.head # s.base

LEMMA KeyOfEdge ==
    ASSUME NEW type, NEW from, NEW to, NEW files
    PROVE  Key(Edge(type, from, to, files)) = <<type, from, to>>
  BY DEF Key, Edge

\* Two pull requests conflict within any set of them or in none.
LEMMA ConflictKeys ==
    ASSUME NEW S, NEW k
    PROVE  (\E e \in ConflictEdges(S, shape) : Key(e) = k)
             <=> \E l, r \in S : /\ l < r /\ ConflictFiles(l, r, shape) # {}
                                 /\ k = <<"conflict", l, r>>
<1>1. ASSUME NEW e \in ConflictEdges(S, shape), Key(e) = k
      PROVE  \E l, r \in S : l < r /\ ConflictFiles(l, r, shape) # {} /\ k = <<"conflict", l, r>>
  <2>1. PICK p \in S \X S : /\ p[1] < p[2] /\ ConflictFiles(p[1], p[2], shape) # {}
                            /\ e = Edge("conflict", p[1], p[2], ConflictFiles(p[1], p[2], shape))
    BY DEF ConflictEdges
  <2> QED BY <1>1, <2>1, KeyOfEdge
<1>2. ASSUME NEW l \in S, NEW r \in S, l < r, ConflictFiles(l, r, shape) # {}, k = <<"conflict", l, r>>
      PROVE  \E e \in ConflictEdges(S, shape) : Key(e) = k
  <2>1. Edge("conflict", l, r, ConflictFiles(l, r, shape)) \in ConflictEdges(S, shape)
    <3> DEFINE Q == {q \in S \X S : q[1] < q[2] /\ ConflictFiles(q[1], q[2], shape) # {}}
               E(p) == Edge("conflict", p[1], p[2], ConflictFiles(p[1], p[2], shape))
    <3>1. <<l, r>> \in Q
      BY <1>2
    <3>2. E(<<l, r>>) \in {E(p) : p \in Q}
      BY <3>1
    <3> QED BY <3>2 DEF ConflictEdges
  <2> QED BY <1>2, <2>1, KeyOfEdge
<1> QED BY <1>1, <1>2

LEMMA StackKeys ==
    ASSUME NEW Q, NEW k
    PROVE  (\E e \in {Edge("dependency", p[1], p[2], {}) : p \in Q} : Key(e) = k)
             <=> \E p \in Q : k = <<"dependency", p[1], p[2]>>
  BY KeyOfEdge

LEMMA EitherWay ==
    ASSUME NEW S, NEW a \in S, NEW b \in S, a # b, NEW q, q = <<a, b>> \/ q = <<b, a>>
    PROVE  q \in S \X S /\ q[1] # q[2]
  OBVIOUS

\* The update's own test for a stack finds what the build's test finds.
LEMMA PairsFindTheBuild ==
    ASSUME GraphTypeOK, NoHeadIsItsBase, NEW k
    PROVE  (\E e \in Build(present, shape) : Key(e) = k)
             <=> \E p \in UpdatePairs : \E e \in EdgesOfPair(p[1], p[2]) : Key(e) = k
<1>t. \A n \in present : n \in Nat
  BY GraphAssumption DEF GraphTypeOK
<1>0. /\ present \subseteq Nat
      /\ \A n \in present : shape[n].head = "" \/ shape[n].head # shape[n].base
  BY GraphAssumption DEF GraphTypeOK, NoHeadIsItsBase
<1> DEFINE Stacks(Q) == {q \in Q : shape[q[1]].head # "" /\ shape[q[2]].base = shape[q[1]].head}
<1>1. (\E e \in Build(present, shape) : Key(e) = k)
        <=> \/ \E p \in {q \in present \X present : StackedOn(q[1], q[2], shape)} :
                 k = <<"dependency", p[1], p[2]>>
            \/ \E l, r \in present : /\ l < r /\ ConflictFiles(l, r, shape) # {}
                                     /\ k = <<"conflict", l, r>>
  <2> DEFINE Q == {q \in present \X present : StackedOn(q[1], q[2], shape)}
             D == {Edge("dependency", p[1], p[2], {}) : p \in Q}
  <2>1. Build(present, shape) = D \union ConflictEdges(present, shape)
    BY DEF Build
  <2>2. (\E e \in D : Key(e) = k) <=> \E p \in Q : k = <<"dependency", p[1], p[2]>>
    BY StackKeys
  <2>3. (\E e \in ConflictEdges(present, shape) : Key(e) = k)
          <=> \E l, r \in present : /\ l < r /\ ConflictFiles(l, r, shape) # {}
                                    /\ k = <<"conflict", l, r>>
    BY ConflictKeys
  <2> HIDE DEF D
  <2> QED BY <2>1, <2>2, <2>3
<1>2. ASSUME NEW p \in UpdatePairs
      PROVE  (\E e \in EdgesOfPair(p[1], p[2]) : Key(e) = k)
               <=> \/ \E q \in Stacks({<<p[1], p[2]>>, <<p[2], p[1]>>}) : k = <<"dependency", q[1], q[2]>>
                   \/ \E l, r \in {p[1], p[2]} : /\ l < r /\ ConflictFiles(l, r, shape) # {}
                                                 /\ k = <<"conflict", l, r>>
  <2> DEFINE Q == Stacks({<<p[1], p[2]>>, <<p[2], p[1]>>})
             D == {Edge("dependency", q[1], q[2], {}) : q \in Q}
  <2>1. EdgesOfPair(p[1], p[2]) = D \union ConflictEdges({p[1], p[2]}, shape)
    BY DEF EdgesOfPair
  <2>2. (\E e \in D : Key(e) = k) <=> \E q \in Q : k = <<"dependency", q[1], q[2]>>
    BY StackKeys
  <2>3. (\E e \in ConflictEdges({p[1], p[2]}, shape) : Key(e) = k)
          <=> \E l, r \in {p[1], p[2]} : /\ l < r /\ ConflictFiles(l, r, shape) # {}
                                         /\ k = <<"conflict", l, r>>
    BY ConflictKeys
  <2> HIDE DEF D, Stacks
  <2> QED BY <2>1, <2>2, <2>3
<1>3. ASSUME NEW l \in present, NEW r \in present
      PROVE  StackedOn(l, r, shape)
               <=> l # r /\ shape[l].head # "" /\ shape[r].base = shape[l].head
  BY <1>0 DEF StackedOn
<1>4. ASSUME NEW l \in present, NEW r \in present, StackedOn(l, r, shape), k = <<"dependency", l, r>>
      PROVE  \E p \in UpdatePairs : \E e \in EdgesOfPair(p[1], p[2]) : Key(e) = k
  <2>1. l # r /\ shape[l].head # "" /\ shape[r].base = shape[l].head
    BY <1>3, <1>4
  <2>2. PICK p \in UpdatePairs : <<l, r>> \in {<<p[1], p[2]>>, <<p[2], p[1]>>}
    <3>1. l < r \/ r < l
      <4>1. l \in Nat /\ r \in Nat /\ l # r
        BY <1>t, <2>1
      <4> QED BY <4>1
    <3>2. l < r => <<l, r>> \in UpdatePairs
      BY DEF UpdatePairs
    <3>3. r < l => <<r, l>> \in UpdatePairs
      BY DEF UpdatePairs
    <3> QED BY <3>1, <3>2, <3>3
  <2>3. <<l, r>> \in Stacks({<<p[1], p[2]>>, <<p[2], p[1]>>})
    BY <2>1, <2>2
  <2>4. \E q \in Stacks({<<p[1], p[2]>>, <<p[2], p[1]>>}) : k = <<"dependency", q[1], q[2]>>
    BY <1>4, <2>3
  <2> QED BY <1>2, <2>4
<1>5. ASSUME NEW l \in present, NEW r \in present, l < r, ConflictFiles(l, r, shape) # {},
             k = <<"conflict", l, r>>
      PROVE  \E p \in UpdatePairs : \E e \in EdgesOfPair(p[1], p[2]) : Key(e) = k
  <2> DEFINE p == <<l, r>>
  <2>1. p \in UpdatePairs /\ l \in {p[1], p[2]} /\ r \in {p[1], p[2]}
    BY <1>5 DEF UpdatePairs
  <2> HIDE DEF p
  <2>2. \E e \in EdgesOfPair(p[1], p[2]) : Key(e) = k
    BY <1>2, <1>5, <2>1
  <2> QED BY <2>1, <2>2
<1>6. ASSUME NEW p \in UpdatePairs, \E e \in EdgesOfPair(p[1], p[2]) : Key(e) = k
      PROVE  \E e \in Build(present, shape) : Key(e) = k
  <2>1. p[1] \in present /\ p[2] \in present /\ p[1] # p[2]
    BY <1>t DEF UpdatePairs
  <2>2. CASE \E q \in Stacks({<<p[1], p[2]>>, <<p[2], p[1]>>}) : k = <<"dependency", q[1], q[2]>>
    <3>1. PICK q \in Stacks({<<p[1], p[2]>>, <<p[2], p[1]>>}) : k = <<"dependency", q[1], q[2]>>
      BY <2>2
    <3>2. /\ q \in present \X present /\ q[1] # q[2]
          /\ shape[q[1]].head # "" /\ shape[q[2]].base = shape[q[1]].head
      <4>1. q = <<p[1], p[2]>> \/ q = <<p[2], p[1]>>
        OBVIOUS
      <4>2. q \in present \X present /\ q[1] # q[2]
        <5> HIDE DEF Stacks
        <5>1. \A S, a, b : a \in S /\ b \in S /\ a # b /\ (q = <<a, b>> \/ q = <<b, a>>)
                             => q \in S \X S /\ q[1] # q[2]
          BY EitherWay, Zenon
        <5> QED BY <2>1, <4>1, <5>1, Zenon
      <4>3. shape[q[1]].head # "" /\ shape[q[2]].base = shape[q[1]].head
        OBVIOUS
      <4> QED BY <4>2, <4>3
    <3>3. StackedOn(q[1], q[2], shape)
      BY <1>3, <3>2
    <3> QED BY <1>1, <3>1, <3>2, <3>3
  <2>3. CASE \E l, r \in {p[1], p[2]} : /\ l < r /\ ConflictFiles(l, r, shape) # {}
                                        /\ k = <<"conflict", l, r>>
    BY <1>1, <2>1, <2>3
  <2> QED BY <1>2, <1>6, <2>2, <2>3
<1>7. ASSUME \E e \in Build(present, shape) : Key(e) = k
      PROVE  \E p \in UpdatePairs : \E e \in EdgesOfPair(p[1], p[2]) : Key(e) = k
  <2>1. CASE \E p \in {q \in present \X present : StackedOn(q[1], q[2], shape)} :
               k = <<"dependency", p[1], p[2]>>
    <3>1. PICK p \in present \X present : StackedOn(p[1], p[2], shape) /\ k = <<"dependency", p[1], p[2]>>
      BY <2>1
    <3> QED BY <1>4, <3>1
  <2>2. CASE \E l, r \in present : /\ l < r /\ ConflictFiles(l, r, shape) # {}
                                   /\ k = <<"conflict", l, r>>
    BY <1>5, <2>2
  <2> QED BY <1>1, <1>7, <2>1, <2>2
<1> QED BY <1>6, <1>7

\* Whatever the cache of edges and of fingerprints holds, the edges after an
\* update are, by their ends and type, those of a build from nothing, for any
\* pull requests and any edits, as long as no head has the name of its base
\* (graph/incremental.go:92-142, 210-440 against graph/graph.go:53-175).
THEOREM UpdateFindsTheBuild ==
    ASSUME NoHeadIsItsBase
    PROVE  GraphSpec => []GraphMatchesBuild
<1>1. GraphInit => GraphInv
  BY DEF GraphInit, GraphInv, GraphTypeOK, GraphMatchesBuild
<1>2. GraphInv /\ [GraphNext]_graphVars => GraphInv'
  <2> SUFFICES ASSUME GraphInv, [GraphNext]_graphVars PROVE GraphInv'
    OBVIOUS
  <2>a. GraphTypeOK /\ GraphMatchesBuild
    BY DEF GraphInv
  <2>1. ASSUME NEW n \in Numbers, (\E s \in Shapes : Edit(n, s)) \/ OpenOrClose(n) PROVE GraphInv'
    <3>1. GraphTypeOK'
      BY <2>a, <2>1 DEF GraphTypeOK, Edit, OpenOrClose
    <3>2. current' = FALSE
      BY <2>1 DEF Edit, OpenOrClose
    <3> QED BY <3>1, <3>2 DEF GraphInv, GraphMatchesBuild
  <2>2. CASE FullRebuild
    <3>1. GraphTypeOK' /\ edges' = Build(present, shape) /\ UNCHANGED <<present, shape>>
      BY <2>a, <2>2 DEF GraphTypeOK, FullRebuild
    <3>2. Build(present, shape)' = Build(present, shape)
      BY <3>1
    <3> QED BY <3>1, <3>2 DEF GraphInv, GraphMatchesBuild
  <2>3. CASE IncrementalUpdate
    <3> DEFINE fresh(p)  == p[1] \in Changed \/ p[2] \in Changed
               cached(e) == {c \in edgeCache : Key(c) = Key(e)}
               updated     == UNION {IF fresh(p) THEN EdgesOfPair(p[1], p[2])
                                   ELSE UNION {IF cached(e) = {} THEN {e} ELSE cached(e) :
                                                 e \in EdgesOfPair(p[1], p[2])} : p \in UpdatePairs}
    <3>1. GraphTypeOK' /\ edges' = updated /\ UNCHANGED <<present, shape>>
      BY <2>a, <2>3 DEF GraphTypeOK, IncrementalUpdate, UpdatePairs
    <3>2. \A k : (\E c \in updated : Key(c) = k)
                   <=> \E p \in UpdatePairs : \E e \in EdgesOfPair(p[1], p[2]) : Key(e) = k
      <4>1. ASSUME NEW k, NEW c \in updated, Key(c) = k
            PROVE  \E p \in UpdatePairs : \E e \in EdgesOfPair(p[1], p[2]) : Key(e) = k
        <5>1. PICK p \in UpdatePairs :
                c \in IF fresh(p) THEN EdgesOfPair(p[1], p[2])
                      ELSE UNION {IF cached(e) = {} THEN {e} ELSE cached(e) : e \in EdgesOfPair(p[1], p[2])}
          BY <4>1
        <5>2. CASE ~fresh(p)
          <6>1. PICK e \in EdgesOfPair(p[1], p[2]) : c \in IF cached(e) = {} THEN {e} ELSE cached(e)
            BY <5>1, <5>2
          <6>2. Key(c) = Key(e)
            BY <6>1
          <6> QED BY <4>1, <6>2
        <5> QED BY <4>1, <5>1, <5>2
      <4>2. ASSUME NEW k, NEW p \in UpdatePairs, NEW e \in EdgesOfPair(p[1], p[2]), Key(e) = k
            PROVE  \E c \in updated : Key(c) = k
        <5>1. PICK c : c \in (IF cached(e) = {} THEN {e} ELSE cached(e)) /\ Key(c) = k
          BY <4>2
        <5>2. fresh(p) => e \in updated
          OBVIOUS
        <5>3. ~fresh(p) => c \in updated
          BY <5>1
        <5> QED BY <4>2, <5>1, <5>2, <5>3
      <4> QED BY <4>1, <4>2
    <3> HIDE DEF updated
    <3>3. \A k : (\E c \in updated : Key(c) = k) <=> \E e \in Build(present, shape) : Key(e) = k
      BY <2>a, <3>2, PairsFindTheBuild
    <3>4. {Key(e) : e \in updated} = {Key(e) : e \in Build(present, shape)}
      BY <3>3
    <3>5. Build(present, shape)' = Build(present, shape)
      BY <3>1
    <3> QED BY <3>1, <3>4, <3>5 DEF GraphInv, GraphMatchesBuild
  <2>4. CASE Invalidate \/ UNCHANGED graphVars
    <3>1. UNCHANGED <<present, shape, edges, current>>
      BY <2>4 DEF Invalidate, graphVars
    <3>2. Build(present, shape)' = Build(present, shape)
      BY <3>1
    <3> QED BY <2>a, <3>1, <3>2 DEF GraphInv, GraphTypeOK, GraphMatchesBuild
  <2>5. CASE Clear
    BY <2>a, <2>5 DEF Clear, GraphInv, GraphTypeOK, GraphMatchesBuild
  <2> QED BY <2>1, <2>2, <2>3, <2>4, <2>5 DEF GraphNext
<1>3. GraphInv => GraphMatchesBuild
  BY DEF GraphInv
<1> QED BY <1>1, <1>2, <1>3, PTL DEF GraphSpec

-----------------------------------------------------------------------------
(* The analysis. *)

AnalysisSpec == AnalysisInit /\ [][AnalysisNext]_analysisVars

Grouped == {"conflicts", "review", "collapse", "analysed", "planned"}
Judged == {"collapse", "analysed", "planned"}

LEMMA MaxOfPair ==
    ASSUME NEW a \in Int, NEW b \in Int
    PROVE  Max({a, b}) = IF a >= b THEN a ELSE b
<1>1. \E x \in {a, b} : \A y \in {a, b} : x >= y
  BY SMT
<1>2. /\ Max({a, b}) \in {a, b}
      /\ \A y \in {a, b} : Max({a, b}) >= y
  BY <1>1 DEF Max
<1> QED BY <1>2

LEMMA BestLevel ==
    ASSUME NEW S \in SUBSET (0..3), S # {}
    PROVE  Max(S) \in S /\ \A y \in S : Max(S) >= y
<1>1. \E x \in S : \A y \in S : x >= y
  <2>1. CASE 3 \in S
    BY <2>1
  <2>2. CASE 3 \notin S /\ 2 \in S
    BY <2>2
  <2>3. CASE 3 \notin S /\ 2 \notin S /\ 1 \in S
    BY <2>3
  <2>4. CASE 3 \notin S /\ 2 \notin S /\ 1 \notin S
    <3>1. \A y \in S : y = 0
      BY <2>4
    <3>2. PICK x \in S : TRUE
      OBVIOUS
    <3> QED BY <3>1, <3>2
  <2> QED BY <2>1, <2>2, <2>3, <2>4
<1> QED BY <1>1 DEF Max

\* The groups of the levels low..high link the pairs of these levels, and
\* the similarity of a group is one of them.
LEMMA GroupsLinkThePairs ==
    ASSUME NEW S, NEW T, NEW pairs \in SUBSET (S \X T), NEW lev, \A p \in pairs : lev[p] \in 0..3,
           NEW low \in Nat, NEW high \in Nat
    PROVE  LET gs == GroupsBetween(pairs, lev, low, high)
           IN /\ Linked(gs) = {p \in pairs : lev[p] \in low..high}
              /\ \A g \in gs : g.similarity \in 0..3 /\ g.similarity \in low..high
<1> DEFINE hits == {p \in pairs : lev[p] \in low..high}
           of(c) == {q \in hits : q[1] = c}
           levels(c) == {lev[p] : p \in of(c)}
           group(c) == [canonical |-> c, members |-> {p[2] : p \in of(c)}, similarity |-> Max(levels(c))]
           gs == GroupsBetween(pairs, lev, low, high)
<1>1. gs = {group(c) : c \in {p[1] : p \in hits}}
  BY DEF GroupsBetween
<1>2. ASSUME NEW c \in {p[1] : p \in hits}
      PROVE  /\ levels(c) \in SUBSET (0..3) /\ levels(c) \subseteq low..high /\ levels(c) # {}
             /\ Max(levels(c)) \in levels(c) /\ \A y \in levels(c) : Max(levels(c)) >= y
  <2>1. levels(c) \in SUBSET (0..3) /\ levels(c) \subseteq low..high /\ levels(c) # {}
    OBVIOUS
  <2> HIDE DEF levels
  <2> QED BY <2>1, BestLevel
<1>3. \A p \in pairs : p = <<p[1], p[2]>>
  OBVIOUS
<1>4. ASSUME NEW p \in hits PROVE p \in Linked(gs)
  <2>1. group(p[1]) \in gs /\ p[2] \in group(p[1]).members /\ group(p[1]).canonical = p[1]
    BY <1>1
  <2> HIDE DEF group
  <2>2. <<group(p[1]).canonical, p[2]>> \in Linked(gs)
    BY <2>1 DEF Linked
  <2> QED BY <1>3, <2>1, <2>2
<1>5. ASSUME NEW p \in Linked(gs) PROVE p \in hits
  <2>1. PICK g \in gs : p \in {<<g.canonical, m>> : m \in g.members}
    BY DEF Linked
  <2>2. PICK c \in {q[1] : q \in hits} : g = group(c)
    BY <1>1, <2>1
  <2>3. PICK m \in {q[2] : q \in of(c)} : p = <<c, m>>
    BY <2>1, <2>2
  <2>4. PICK q \in of(c) : m = q[2]
    BY <2>3
  <2> QED BY <1>3, <2>3, <2>4
<1>6. ASSUME NEW g \in gs PROVE g.similarity \in 0..3 /\ g.similarity \in low..high
  <2>1. PICK c \in {q[1] : q \in hits} : g = group(c)
    BY <1>1
  <2>2. g.similarity = Max(levels(c))
    BY <2>1
  <2> HIDE DEF levels
  <2> QED BY <1>2, <2>2
<1> QED BY <1>4, <1>5, <1>6

LEMMA PairsOfPart ==
    ASSUME NEW S \in SUBSET PRs
    PROVE  AllPairs(S, Merged) \in SUBSET (S \X (S \union Merged)) /\ AllPairs(S, Merged) \subseteq AllPairs(PRs, Merged)
  BY DEF AllPairs

\* The groups of a corpus, computed with a threshold.
FoundIn(S, t) == ClassifyDuplicates(Compared(S), level, t)

AnalysisTypeOK ==
    /\ level \in [AllPairs(PRs, Merged) -> Levels]
    /\ corpus \subseteq PRs
    /\ DOMAIN dupRows = SUBSET PRs /\ DOMAIN conflictRows = SUBSET PRs
    /\ IsFiniteSet(conflicts) /\ \A S \in SUBSET PRs : IsFiniteSet(conflictRows[S])

\* Whichever run computed the rows of a corpus and with which threshold.
RowsAreFound ==
    \A S \in SUBSET PRs : \/ dupRows[S] = {}
                          \/ \E t \in {CachedDuplicate, FreshDuplicate} :
                               dupRows[S] = FoundIn(S, t).duplicates \union FoundIn(S, t).overlaps

ResultsOfCorpus ==
    phase \in Judged => DOMAIN results \subseteq corpus /\ \A n \in DOMAIN results : results[n] \in Results

CollapsedForGood ==
    phase \in {"analysed", "planned"} => superseded = CollapsedCorpus(Plans, Score)

AnalysisInv ==
    /\ AnalysisTypeOK /\ RowsAreFound /\ ResultsOfCorpus /\ CollapsedForGood
    /\ SimilarPairsKept /\ PlanIsSafeToPublish /\ ClosedDuplicatesAreSuperseded

KeepsPairs(gs, S) ==
    /\ Linked(gs.duplicates) \union Linked(gs.overlaps) = {p \in Compared(S) : level[p] >= Overlap}
    /\ {p \in Compared(S) : level[p] >= FreshDuplicate} \subseteq Linked(gs.duplicates)

\* What is compared: every pair of a small corpus, of another one the pairs
\* whose hashes collide at least.
LEMMA ComparedPairs ==
    ASSUME NEW S \in SUBSET PRs
    PROVE  /\ Compared(S) \subseteq AllPairs(S, Merged)
           /\ AllPairs(S, Merged) \intersect colliding \subseteq Compared(S)
           /\ Small(S, Merged, ExactBelow) => Compared(S) = AllPairs(S, Merged)
  BY DEF Compared, CandidatePairs

\* Groups that keep the pairs that were compared keep what the property says.
KeepsSimilar(gs, S) ==
    LET similar == {p \in AllPairs(S, Merged) : level[p] >= Overlap}
        listed  == Linked(gs.duplicates) \union Linked(gs.overlaps)
    IN /\ listed \subseteq similar
       /\ similar \intersect colliding \subseteq listed
       /\ Small(S, Merged, ExactBelow) => listed = similar
       /\ {p \in listed : level[p] >= FreshDuplicate} \subseteq Linked(gs.duplicates)

LEMMA KeptPairsAreSimilar ==
    ASSUME NEW S \in SUBSET PRs, NEW gs, KeepsPairs(gs, S)
    PROVE  KeepsSimilar(gs, S)
<1> DEFINE all    == AllPairs(S, Merged)
           listed == Linked(gs.duplicates) \union Linked(gs.overlaps)
<1>1. /\ Compared(S) \subseteq all /\ all \intersect colliding \subseteq Compared(S)
      /\ Small(S, Merged, ExactBelow) => Compared(S) = all
  BY ComparedPairs
<1>2. /\ listed = {p \in Compared(S) : level[p] >= Overlap}
      /\ {p \in Compared(S) : level[p] >= FreshDuplicate} \subseteq Linked(gs.duplicates)
  BY DEF KeepsPairs
<1> QED BY <1>1, <1>2 DEF KeepsSimilar

\* What a run computes, and what a later run makes of it, keeps the pairs.
LEMMA FoundKeepsPairs ==
    ASSUME AnalysisTypeOK, NEW S \in SUBSET PRs, NEW t \in {CachedDuplicate, FreshDuplicate}
    PROVE  /\ KeepsPairs(FoundIn(S, t), S)
           /\ KeepsPairs(SplitCached(FoundIn(S, t).duplicates \union FoundIn(S, t).overlaps), S)
<1> DEFINE pairs == Compared(S)
           dups == GroupsBetween(pairs, level, t, FreshDuplicate)
           overs == GroupsBetween(pairs, level, Overlap, t - 1)
           split == SplitCached(dups \union overs)
<1>1. /\ pairs \in SUBSET (S \X (S \union Merged)) /\ \A p \in pairs : level[p] \in 0..3
  BY PairsOfPart, ComparedPairs, AnalysisAssumption DEF AnalysisTypeOK
<1>2. /\ FoundIn(S, t).duplicates = dups /\ FoundIn(S, t).overlaps = overs
      /\ t \in Nat /\ t - 1 \in Nat /\ t \in 2..3 /\ FreshDuplicate = 3 /\ Overlap = 1 /\ CachedDuplicate = 2
  BY DEF FoundIn, ClassifyDuplicates, CachedDuplicate, FreshDuplicate, Overlap
<1> HIDE DEF pairs
<1>a. ASSUME NEW low \in Nat, NEW high \in Nat
      PROVE  LET gs == GroupsBetween(pairs, level, low, high)
             IN /\ Linked(gs) = {p \in pairs : level[p] \in low..high}
                /\ \A g \in gs : g.similarity \in 0..3 /\ g.similarity \in low..high
  BY <1>1, GroupsLinkThePairs
<1>3. /\ Linked(dups) = {p \in pairs : level[p] \in t..3}
      /\ \A g \in dups : g.similarity \in 0..3 /\ g.similarity \in t..3
  BY <1>2, <1>a
<1>4. /\ Linked(overs) = {p \in pairs : level[p] \in 1..(t - 1)}
      /\ \A g \in overs : g.similarity \in 0..3 /\ g.similarity \in 1..(t - 1)
  BY <1>2, <1>a
<1> HIDE DEF dups, overs
<1>5. Linked(dups) \union Linked(overs) = {p \in pairs : level[p] >= Overlap}
  BY <1>1, <1>2, <1>3, <1>4
<1>6. {p \in pairs : level[p] >= FreshDuplicate} \subseteq Linked(dups)
  BY <1>1, <1>2, <1>3
<1>7. \A G, H : Linked(G \union H) = Linked(G) \union Linked(H)
  BY DEF Linked
<1>8. split.duplicates \union split.overlaps = dups \union overs
  <2>1. \A g \in dups \union overs : g.similarity >= 2 \/ g.similarity = 1
    BY <1>2, <1>3, <1>4
  <2> QED BY <1>2, <2>1 DEF SplitCached
<1>9. Linked(split.duplicates) \union Linked(split.overlaps) = Linked(dups) \union Linked(overs)
  <2> HIDE DEF split
  <2>1. Linked(split.duplicates \union split.overlaps) = Linked(dups \union overs)
    BY <1>8
  <2> QED BY <1>7, <2>1
<1>10. dups \subseteq split.duplicates
  BY <1>2, <1>3 DEF SplitCached
<1>11. Linked(dups) \subseteq Linked(split.duplicates)
  BY <1>10 DEF Linked
<1> HIDE DEF split
<1> QED BY <1>2, <1>5, <1>6, <1>9, <1>11 DEF KeepsPairs, pairs, split

-----------------------------------------------------------------------------
\* Every set of pull requests has the one that stands for it.
LEMMA TopExists ==
    ASSUME NEW S \in SUBSET Nat, S # {}, NEW score, \A a \in S : score[a] \in 0..100
    PROVE  /\ TopOf(S, score) \in S
           /\ \A b \in S \ {TopOf(S, score)} : Better(TopOf(S, score), b, score)
<1> DEFINE gap(a) == 100 - score[a]
           gaps == {gap(a) : a \in S}
           best == {a \in S : gap(a) = Min(gaps)}
<1>0. ASSUME NEW a \in S, NEW b \in S
      PROVE  /\ gap(a) \in Nat /\ score[a] \in Int
             /\ gap(a) <= gap(b) <=> score[a] >= score[b]
             /\ gap(a) = gap(b) <=> score[a] = score[b]
  <2>1. score[a] \in 0..100 /\ score[b] \in 0..100
    OBVIOUS
  <2> QED BY <2>1
<1> HIDE DEF gap
<1>1. gaps \in SUBSET Nat /\ gaps # {}
  BY <1>0
<1>2. Min(gaps) \in gaps /\ \A y \in gaps : Min(gaps) <= y
  <2> HIDE DEF gaps
  <2> QED BY <1>1, LeastExists
<1>3. best \in SUBSET Nat /\ best # {}
  BY <1>2
<1>4. Min(best) \in best /\ \A y \in best : Min(best) <= y
  <2> HIDE DEF best
  <2> QED BY <1>3, LeastExists
<1>5. PICK t \in best : \A y \in best : t <= y
  BY <1>4
<1>6. ASSUME NEW b \in S \ {t} PROVE Better(t, b, score)
  <2>1. gap(t) <= gap(b) /\ t \in S
    BY <1>2, <1>5
  <2>2. score[t] \in Int /\ score[b] \in Int /\ score[t] >= score[b]
    BY <1>0, <2>1
  <2>3. CASE score[t] = score[b]
    <3>1. gap(b) = gap(t)
      BY <1>0, <2>1, <2>3
    <3>2. b \in best
      BY <1>5, <3>1
    <3>3. t <= b /\ t # b /\ t \in Nat /\ b \in Nat
      BY <1>5, <2>1, <3>2
    <3> QED BY <2>3, <3>3 DEF Better
  <2> QED BY <2>2, <2>3 DEF Better
<1>7. t \in S
  BY <1>5
<1> HIDE DEF best
<1> QED BY <1>6, <1>7 DEF TopOf

LEMMA BetterIsStrict ==
    ASSUME NEW score, NEW a \in Nat, NEW b \in Nat, score[a] \in 0..100, score[b] \in 0..100,
           Better(a, b, score)
    PROVE  ~Better(b, a, score)
<1> DEFINE x == score[a]
           y == score[b]
<1>1. x \in Int /\ y \in Int
  OBVIOUS
<1>2. (x > y \/ (x = y /\ a < b)) /\ (Better(b, a, score) <=> (y > x \/ (y = x /\ b < a)))
  BY DEF Better
<1> HIDE DEF x, y
<1> QED BY <1>1, <1>2

\* The plans of groups of pull requests of C, whose nominee is better than the
\* other candidates.
PlansOver(plans, C, score) ==
    \A p \in plans :
        /\ DOMAIN p.role \subseteq C
        /\ DOMAIN p.role # {} => Canonical(p) \in DOMAIN p.role
        /\ \A c \in DOMAIN p.role \ {Canonical(p)} : Better(Canonical(p), c, score)

\* The top of a chain of plans is no candidate of one that nominates another.
ChainHasTop(n, plans, score) ==
    LET top == TopOf(Chain(n, plans), score)
    IN /\ n \in UNION Links(plans) /\ n # top
       /\ \A q \in plans : top \in DOMAIN q.role => top = Canonical(q)

\* A candidate of a plan that nominates another has the top to stand for it.
LEMMA ChainsHaveTops ==
    ASSUME NEW plans, NEW C \in SUBSET Nat, NEW score, \A a \in C : score[a] \in 0..100,
           PlansOver(plans, C, score), NEW p \in plans, NEW n \in DOMAIN p.role, n # Canonical(p)
    PROVE  ChainHasTop(n, plans, score)
<1> DEFINE nodes == UNION Links(plans)
           chain == Chain(n, plans)
           top == TopOf(chain, score)
<1>a. ASSUME NEW q \in plans, NEW m \in DOMAIN q.role, m # Canonical(q)
      PROVE  {Canonical(q), m} \in Links(plans)
  BY <1>a DEF Links
<1>1. nodes \subseteq C
  <2> SUFFICES ASSUME NEW l \in Links(plans) PROVE l \subseteq C
    OBVIOUS
  <2>1. PICK q \in plans : l \in {{Canonical(q), c} : c \in DOMAIN q.role \ {Canonical(q)}}
    BY DEF Links
  <2>2. PICK c \in DOMAIN q.role : l = {Canonical(q), c}
    BY <2>1
  <2> QED BY <2>2 DEF PlansOver
<1>2. n \in nodes
  <2>1. n \in {Canonical(p), n} /\ {Canonical(p), n} \in Links(plans)
    BY <1>a
  <2> QED BY <2>1
<1>3. chain \subseteq nodes /\ n \in chain
  BY <1>2 DEF Chain
<1>4. ASSUME NEW l \in Links(plans), l \intersect chain # {} PROVE l \subseteq chain
  <2>1. PICK m : m \in l /\ m \in chain
    BY <1>4
  <2>2. ASSUME NEW k \in l, NEW S \in SUBSET nodes, n \in S,
               \A x \in Links(plans) : x \intersect S # {} => x \subseteq S
        PROVE  k \in S
    <3>1. m \in S
      BY <2>1, <2>2 DEF Chain
    <3>2. l \intersect S # {}
      BY <2>1, <3>1
    <3> QED BY <2>2, <3>2
  <2>3. l \subseteq nodes
    OBVIOUS
  <2> QED BY <2>2, <2>3 DEF Chain
<1>5. top \in chain /\ \A b \in chain \ {top} : Better(top, b, score)
  <2>1. chain \in SUBSET Nat /\ chain # {} /\ \A a \in chain : score[a] \in 0..100
    BY <1>1, <1>3
  <2> HIDE DEF chain
  <2> QED BY <2>1, TopExists
<1>6. ASSUME NEW q \in plans, NEW m \in DOMAIN q.role, m \in chain, m # Canonical(q) PROVE m # top
  <2>1. {Canonical(q), m} \intersect chain # {}
    BY <1>6
  <2>2. Canonical(q) \in chain
    BY <1>4, <1>6, <1>a, <2>1
  <2>3. Better(Canonical(q), m, score)
    BY <1>6 DEF PlansOver
  <2>4. m = top => Better(m, Canonical(q), score)
    BY <1>5, <1>6, <2>2
  <2>5. /\ Canonical(q) \in Nat /\ m \in Nat
        /\ score[Canonical(q)] \in 0..100 /\ score[m] \in 0..100
    <3> HIDE DEF chain, nodes
    <3>1. Canonical(q) \in C /\ m \in C
      BY <1>1, <1>3, <1>6, <2>2
    <3> QED BY <3>1
  <2>6. ~Better(m, Canonical(q), score)
    BY <2>3, <2>5, BetterIsStrict
  <2> QED BY <2>4, <2>6
<1>7. n # top
  BY <1>3, <1>6
<1>8. ASSUME NEW q \in plans, top \in DOMAIN q.role PROVE top = Canonical(q)
  BY <1>5, <1>6, <1>8
<1> QED BY <1>2, <1>7, <1>8 DEF ChainHasTop

\* A score is a percentage, whatever the review says.
LEMMA ScoreIsPercentage ==
    ASSUME NEW pr, pr.substance \in Nat, pr.confidence \in Nat, NEW k \in Nat
    PROVE  SynthesisScore(pr, k) \in 0..100
<1> DEFINE base == (pr.substance * 25 + pr.confidence * 20) \div 100
                     + (CASE pr.mergeable = "yes" -> 20
                          [] pr.mergeable = "no" -> 5
                          [] OTHER -> 0)
           kept == IF pr.draft THEN (base * 7) \div 10 ELSE base
           penalty == Min({3 * k, 15})
           signal == IF pr.quality = "high" \/ pr.confidence >= 80 THEN 10
                     ELSE IF pr.quality = "low" \/ pr.confidence < 40 THEN -5
                     ELSE 0
           total == kept - penalty + (IF pr.tests THEN 10 ELSE 0) + signal
<1>1. base \in Int
  <2>1. (CASE pr.mergeable = "yes" -> 20 [] pr.mergeable = "no" -> 5 [] OTHER -> 0) \in Nat
    OBVIOUS
  <2>2. (pr.substance * 25 + pr.confidence * 20) \div 100 \in Int
    OBVIOUS
  <2> QED BY <2>1, <2>2
<1> HIDE DEF base
<1>2. kept \in Int
  BY <1>1
<1>3. penalty \in Int
  BY MinOfPair
<1>4. signal \in Int
  OBVIOUS
<1> HIDE DEF kept, penalty, signal
<1>5. total \in Int
  BY <1>2, <1>3, <1>4
<1>6. SynthesisScore(pr, k) = Max({0, Min({100, total})})
  BY DEF SynthesisScore, base, kept, penalty, signal
<1> HIDE DEF total
<1>7. Min({100, total}) = IF 100 <= total THEN 100 ELSE total
  BY <1>5, MinOfPair
<1> DEFINE low == Min({100, total})
<1>8. low \in Int /\ low <= 100
  BY <1>5, <1>7
<1> HIDE DEF low
<1>9. Max({0, low}) = IF 0 >= low THEN 0 ELSE low
  BY <1>8, MaxOfPair
<1> QED BY <1>6, <1>8, <1>9 DEF low

LEMMA ScoresArePercentages ==
    ASSUME AnalysisTypeOK, ResultsOfCorpus, phase \in Judged
    PROVE  \A n \in corpus : Score[n] \in 0..100
<1>1. \A n : Footprint(n) \in Nat
  <2> SUFFICES ASSUME NEW n PROVE Footprint(n) \in Nat
    OBVIOUS
  <2>1. {c \in conflicts : n \in c.pair} \in SUBSET conflicts
    OBVIOUS
  <2>2. IsFiniteSet({c \in conflicts : n \in c.pair})
    BY <2>1, FS_Subset DEF AnalysisTypeOK
  <2> QED BY <2>2, FS_CardinalityType DEF Footprint
<1>2. \A n \in DOMAIN results : results[n].substance \in Nat /\ results[n].confidence \in Nat
  BY AnalysisAssumption DEF ResultsOfCorpus
<1>3. NoReview.substance \in Nat /\ NoReview.confidence \in Nat
  BY DEF NoReview
<1> QED BY <1>1, <1>2, <1>3, ScoreIsPercentage DEF Score

LEMMA PlansNominateTheBest ==
    ASSUME AnalysisTypeOK, ResultsOfCorpus, phase \in Judged
    PROVE  PlansOver(Plans, corpus, Score)
<1>1. corpus \in SUBSET Nat /\ 0 \notin corpus
  BY AnalysisAssumption DEF AnalysisTypeOK
<1>2. ASSUME NEW g, NEW kind
      PROVE  LET p == SynthesisPlan(g, kind, corpus, Score)
             IN /\ DOMAIN p.role \subseteq corpus
                /\ DOMAIN p.role # {} => Canonical(p) \in DOMAIN p.role
                /\ \A c \in DOMAIN p.role \ {Canonical(p)} : Better(Canonical(p), c, Score)
  <2> DEFINE p == SynthesisPlan(g, kind, corpus, Score)
             within == ({g.canonical} \union {d \in g.members : d > 0}) \intersect corpus
             first == TopOf(within, Score)
  <2>1. /\ DOMAIN p.role = within /\ within \subseteq corpus
        /\ p.nominated = IF within = {} THEN 0 ELSE first
    BY DEF SynthesisPlan
  <2>2. ASSUME within # {} PROVE first \in within /\ \A b \in within \ {first} : Better(first, b, Score)
    <3>1. within \in SUBSET Nat /\ \A a \in within : Score[a] \in 0..100
      BY <1>1, ScoresArePercentages
    <3> HIDE DEF within
    <3> QED BY <2>2, <3>1, TopExists
  <2> HIDE DEF within, first, p
  <2>3. within # {} => Canonical(p) = first
    BY <1>1, <2>1, <2>2 DEF Canonical
  <2>4. /\ DOMAIN p.role \subseteq corpus
        /\ DOMAIN p.role # {} => Canonical(p) \in DOMAIN p.role
        /\ \A c \in DOMAIN p.role \ {Canonical(p)} : Better(Canonical(p), c, Score)
    BY <2>1, <2>2, <2>3
  <2> QED BY <2>4 DEF p
<1>3. ASSUME NEW p \in Plans
      PROVE  \E g : p = SynthesisPlan(g, "duplicate", corpus, Score) \/ p = SynthesisPlan(g, "overlap", corpus, Score)
  BY DEF Plans, DuplicateSynthesis
<1> QED BY <1>2, <1>3 DEF PlansOver

LEMMA LaneOfReview ==
    ASSUME NEW r \in Results, NEW ev
    PROVE  /\ ClassifyLane(r, ev) \in Lanes
           /\ ClassifyLane(r, ev) = "duplicate_close" => ev.known
<1>1. r.confidence \in Nat
  BY AnalysisAssumption
<1> QED BY <1>1 DEF ClassifyLane, Lanes

\* Merging and closing is only intended, and an unknown profile only intends.
LEMMA IntentsAreSafe ==
    ASSUME NEW n, NEW lane \in Lanes, NEW profile, NEW dry, NEW i \in ActionIntents(n, lane, profile, dry)
    PROVE  /\ i.action \in {"merge", "close"} => i.dryRun
           /\ profile \notin {"guarded", "autonomous"} => i.dryRun
<1>1. PICK a \in AllowedActions[lane] :
        i = [pr |-> n, action |-> a,
             dryRun |-> \/ dry
                        \/ profile \notin {"guarded", "autonomous"}
                        \/ a \notin ApplyPolicy(lane, RequiredPreflightChecks(lane), profile)]
  BY DEF ActionIntents
<1>2. PreflightDenies(RequiredPreflightChecks(lane))
  <2>1. CASE lane = "fast_merge"
    <3>1. [check |-> "ci_green", status |-> "pending"] \in RequiredPreflightChecks(lane)
      BY <2>1 DEF RequiredPreflightChecks
    <3> QED BY <3>1 DEF PreflightDenies
  <2>2. CASE lane # "fast_merge"
    BY <2>2 DEF RequiredPreflightChecks, PreflightDenies
  <2> QED BY <2>1, <2>2
<1>3. ASSUME a \in {"merge", "close"} PROVE a \notin ApplyPolicy(lane, RequiredPreflightChecks(lane), profile)
  BY <1>2, <1>3 DEF ApplyPolicy
<1> QED BY <1>1, <1>3

-----------------------------------------------------------------------------
LEMMA PlanIsSafe ==
    ASSUME AnalysisTypeOK, ResultsOfCorpus, phase = "analysed",
           NEW profile, NEW dry, Actions(profile, dry)
    PROVE  PlanIsSafeToPublish'
<1>1. PICK of \in DuplicateEvidence(Plans) :
        plan' = [total |-> Cardinality(corpus), profile |-> profile, lane |-> LaneOf(of),
                 canonical |-> [n \in DOMAIN of |-> Canonical(of[n])],
                 intents |-> UNION {ActionIntents(n, LaneOf(of)[n], profile, dry) : n \in DOMAIN LaneOf(of)}]
  BY DEF Actions
<1> DEFINE lane == LaneOf(of)
<1>2. /\ plan'.total = Cardinality(corpus) /\ plan'.profile = profile /\ plan'.lane = lane
      /\ plan'.intents = UNION {ActionIntents(n, lane[n], profile, dry) : n \in DOMAIN lane}
      /\ UNCHANGED corpus
  BY <1>1 DEF Actions
<1>3. DOMAIN lane \subseteq corpus /\ \A n \in DOMAIN lane : lane[n] \in Lanes
  <2>1. CASE results = <<>>
    <3>1. lane = [n \in corpus |-> "human_escalate"]
      BY <2>1 DEF LaneOf
    <3> HIDE DEF lane
    <3> QED BY <3>1 DEF Lanes
  <2>2. CASE results # <<>>
    <3>1. lane = [n \in DOMAIN results |-> ClassifyLane(results[n], Evidence(n, of))]
      BY <2>2 DEF LaneOf
    <3>2. DOMAIN results \subseteq corpus /\ \A n \in DOMAIN results : results[n] \in Results
      BY DEF ResultsOfCorpus, Judged
    <3> HIDE DEF lane
    <3> QED BY <3>1, <3>2, LaneOfReview
  <2> QED BY <2>1, <2>2
<1> HIDE DEF lane
<1>4. ASSUME NEW i \in plan'.intents
      PROVE  /\ i.action \in {"merge", "close"} => i.dryRun
             /\ profile \notin {"guarded", "autonomous"} => i.dryRun
  <2>1. PICK n \in DOMAIN lane : i \in ActionIntents(n, lane[n], profile, dry)
    BY <1>2
  <2> QED BY <1>3, <2>1, IntentsAreSafe
<1>5. AuditAdvisoryZeroWrite(plan') # "fail"
  BY <1>2, <1>4 DEF AuditAdvisoryZeroWrite
<1>6. ASSUME AuditLaneCoverage(plan') = "pass" PROVE DOMAIN plan'.lane = corpus
  <2>1. IsFiniteSet(corpus) /\ Cardinality(corpus) \in Nat
    BY AnalysisAssumption, FS_Subset, FS_CardinalityType DEF AnalysisTypeOK
  <2>2. CASE Cardinality(corpus) = 0
    <3>1. corpus = {}
      BY <2>1, <2>2, FS_EmptySet
    <3> QED BY <1>2, <1>3, <3>1
  <2>3. CASE Cardinality(corpus) > 0
    <3>1. Cardinality(DOMAIN lane) = Cardinality(corpus)
      BY <1>2, <1>6, <2>3 DEF AuditLaneCoverage
    <3> QED BY <1>2, <1>3, <2>1, <3>1, FS_Subset
  <2> QED BY <2>1, <2>2, <2>3
<1> QED BY <1>2, <1>4, <1>5, <1>6 DEF PlanIsSafeToPublish

LEMMA ClosedHaveWhoStands ==
    ASSUME AnalysisTypeOK, ResultsOfCorpus, CollapsedForGood, phase = "analysed",
           NEW profile, NEW dry, Actions(profile, dry)
    PROVE  ClosedDuplicatesAreSuperseded'
<1>1. PICK of \in DuplicateEvidence(Plans) : plan'.lane = LaneOf(of)
  BY DEF Actions
<1> DEFINE lane == LaneOf(of)
           top(n) == TopOf(Chain(n, Plans), Score)
<1>2. superseded' = CollapsedCorpus(Plans, Score)
  BY DEF Actions, CollapsedForGood
<1>3. ASSUME NEW n \in DOMAIN lane, lane[n] = "duplicate_close"
      PROVE  \E p \in Plans : n \in DOMAIN p.role /\ n # Canonical(p)
  <2>1. results # <<>>
    BY <1>3 DEF LaneOf
  <2>2. lane = [m \in DOMAIN results |-> ClassifyLane(results[m], Evidence(m, of))]
    BY <2>1 DEF LaneOf
  <2> HIDE DEF lane
  <2>3. n \in DOMAIN results /\ ClassifyLane(results[n], Evidence(n, of)) = "duplicate_close"
    BY <1>3, <2>2
  <2>4. results[n] \in Results
    BY <2>3 DEF ResultsOfCorpus, Judged
  <2>5. Evidence(n, of).known
    BY <2>3, <2>4, LaneOfReview
  <2>6. n \in DOMAIN of
    BY <2>5 DEF Evidence, NoEvidence
  <2> DEFINE plansOf(m) == {p \in Plans : m \in DOMAIN p.role /\ m # Canonical(p)}
             known == {m \in UNION {DOMAIN p.role : p \in Plans} : plansOf(m) # {}}
  <2>7. of \in {f \in [known -> Plans] : \A m \in known : f[m] \in plansOf(m)}
    BY DEF DuplicateEvidence
  <2>8. DOMAIN of = known /\ \A m \in known : of[m] \in plansOf(m)
    <3> HIDE DEF known, plansOf
    <3> QED BY <2>7
  <2>9. of[n] \in plansOf(n)
    <3> HIDE DEF known, plansOf
    <3> QED BY <2>6, <2>8
  <2> QED BY <2>9
<1>4. ASSUME NEW n \in DOMAIN lane, lane[n] = "duplicate_close"
      PROVE  /\ n \in UNION Links(Plans) /\ n # top(n)
             /\ \A q \in Plans : top(n) \in DOMAIN q.role => top(n) = Canonical(q)
  <2> DEFINE plans == Plans
             score == Score
  <2>1. PICK p \in plans : n \in DOMAIN p.role /\ n # Canonical(p)
    BY <1>3, <1>4
  <2>2. PlansOver(plans, corpus, score) /\ \A a \in corpus : score[a] \in 0..100
    BY PlansNominateTheBest, ScoresArePercentages DEF Judged
  <2>3. corpus \in SUBSET Nat
    BY AnalysisAssumption DEF AnalysisTypeOK
  <2> HIDE DEF plans, score
  <2>4. ChainHasTop(n, plans, score)
    BY <2>1, <2>2, <2>3, ChainsHaveTops
  <2> QED BY <2>4 DEF ChainHasTop, plans, score
<1> DEFINE nodes == UNION Links(Plans)
<1>5. superseded' = [m \in {n \in nodes : n # top(n)} |-> top(m)]
  BY <1>2 DEF CollapsedCorpus
<1> HIDE DEF lane, top, nodes
<1>6. ASSUME NEW n \in DOMAIN lane, lane[n] = "duplicate_close"
      PROVE  /\ n \in DOMAIN superseded'
             /\ ~(superseded'[n] \in DOMAIN lane /\ lane[superseded'[n]] = "duplicate_close")
  <2>1. n \in DOMAIN superseded' /\ superseded'[n] = top(n)
    BY <1>4, <1>5, <1>6 DEF nodes
  <2>2. ~(top(n) \in DOMAIN lane /\ lane[top(n)] = "duplicate_close")
    BY <1>3, <1>4, <1>6
  <2> QED BY <2>1, <2>2
<1> QED BY <1>1, <1>6 DEF ClosedDuplicatesAreSuperseded, lane

\* What the conflicts of a corpus are, they are finitely many.
LEMMA ConflictsAreFinite ==
    ASSUME NEW S \in SUBSET PRs
    PROVE  IsFiniteSet(BuildConflicts(S))
<1> DEFINE pairs == {d \in DOMAIN conflicting : d \subseteq S /\ Surfaced(conflicting[d])}
           f == [c \in pairs |-> ConflictPair(c)]
<1>1. IsFiniteSet(SUBSET S)
  BY AnalysisAssumption, FS_Subset, FS_SUBSET
<1>2. pairs \in SUBSET (SUBSET S)
  OBVIOUS
<1>3. IsFiniteSet(pairs)
  <2> HIDE DEF pairs
  <2> QED BY <1>1, <1>2, FS_Subset
<1>4. f \in Surjection(pairs, BuildConflicts(S))
  <2>1. BuildConflicts(S) = {ConflictPair(c) : c \in pairs}
    BY DEF BuildConflicts
  <2> HIDE DEF pairs
  <2> QED BY <2>1 DEF Surjection
<1> HIDE DEF pairs, f
<1> QED BY <1>3, <1>4, FS_Surjection

LEMMA AnalysisInvariance == AnalysisSpec => []AnalysisInv
<1>1. AnalysisInit => AnalysisInv
  <2> SUFFICES ASSUME AnalysisInit PROVE AnalysisInv
    OBVIOUS
  <2>1. AnalysisTypeOK /\ RowsAreFound
    BY FS_EmptySet DEF AnalysisInit, AnalysisTypeOK, RowsAreFound
  <2>2. phase = "idle"
    BY DEF AnalysisInit
  <2> QED BY <2>1, <2>2 DEF AnalysisInv, ResultsOfCorpus, CollapsedForGood, SimilarPairsKept, PlanIsSafeToPublish,
             ClosedDuplicatesAreSuperseded, Judged
<1>2. AnalysisInv /\ [AnalysisNext]_analysisVars => AnalysisInv'
  <2> SUFFICES ASSUME AnalysisInv, [AnalysisNext]_analysisVars PROVE AnalysisInv'
    OBVIOUS
  <2>a. /\ AnalysisTypeOK /\ RowsAreFound /\ ResultsOfCorpus /\ CollapsedForGood
        /\ SimilarPairsKept /\ PlanIsSafeToPublish /\ ClosedDuplicatesAreSuperseded
    BY DEF AnalysisInv
  \* Rows that stay are still those that were found.
  <2>b. ASSUME UNCHANGED <<level, colliding, dupRows>> PROVE RowsAreFound'
    <3>1. \A S, t : FoundIn(S, t)' = FoundIn(S, t)
      BY <2>b DEF FoundIn, Compared
    <3> QED BY <2>a, <2>b, <3>1 DEF RowsAreFound
  \* Before a phase, nothing is said of it.
  <2>c. ASSUME phase' \in {"idle", "garbage", "duplicates"}
        PROVE  /\ ResultsOfCorpus' /\ CollapsedForGood' /\ SimilarPairsKept' /\ PlanIsSafeToPublish'
               /\ ClosedDuplicatesAreSuperseded'
    BY <2>c DEF ResultsOfCorpus, CollapsedForGood, SimilarPairsKept, PlanIsSafeToPublish,
                ClosedDuplicatesAreSuperseded, Judged
  <2>d. ASSUME phase' \in {"conflicts", "review"}
        PROVE  ResultsOfCorpus' /\ CollapsedForGood' /\ PlanIsSafeToPublish' /\ ClosedDuplicatesAreSuperseded'
    BY <2>d DEF ResultsOfCorpus, CollapsedForGood, PlanIsSafeToPublish, ClosedDuplicatesAreSuperseded, Judged
  <2>e. ASSUME UNCHANGED <<level, colliding, corpus, groups>>, phase \in Grouped PROVE SimilarPairsKept'
    BY <2>a, <2>e DEF SimilarPairsKept, Grouped
  <2>f. ASSUME UNCHANGED <<corpus, groups, conflicts, results>> PROVE Plans' = Plans /\ Score' = Score
    BY <2>f DEF Plans, Score, Footprint
  <2>1. ASSUME NEW fetched \in BOOLEAN, LoadPRs(fetched) PROVE AnalysisInv'
    <3>1. corpus' \subseteq PRs
      BY <2>1 DEF LoadPRs, IntakeControls
    <3>2. AnalysisTypeOK'
      BY <2>a, <2>1, <3>1 DEF LoadPRs, AnalysisTypeOK, world, store
    <3>3. UNCHANGED <<level, colliding, dupRows>> /\ phase' = "garbage"
      BY <2>1 DEF LoadPRs, world, store
    <3> QED BY <2>b, <2>c, <3>2, <3>3 DEF AnalysisInv
  <2>2. CASE ClassifyGarbage
    <3>1. AnalysisTypeOK'
      BY <2>a, <2>2 DEF ClassifyGarbage, AnalysisTypeOK, world, store
    <3>2. UNCHANGED <<level, colliding, dupRows>> /\ phase' = "duplicates"
      BY <2>2 DEF ClassifyGarbage, world, store
    <3> QED BY <2>b, <2>c, <3>1, <3>2 DEF AnalysisInv
  <2>3. CASE LoadDuplicateGroups
    <3>1. /\ UNCHANGED <<level, colliding, dupRows, corpus>> /\ phase' = "conflicts"
          /\ groups' = SplitCached(dupRows[corpus]) /\ dupRows[corpus] # {}
      BY <2>3 DEF LoadDuplicateGroups, world, store, Fingerprint
    <3>2. AnalysisTypeOK'
      BY <2>a, <2>3 DEF LoadDuplicateGroups, AnalysisTypeOK, world, store
    <3>3. PICK t \in {CachedDuplicate, FreshDuplicate} :
            dupRows[corpus] = FoundIn(corpus, t).duplicates \union FoundIn(corpus, t).overlaps
      BY <2>a, <3>1 DEF RowsAreFound, AnalysisTypeOK
    <3>4. KeepsPairs(groups', corpus)
      BY <2>a, <3>1, <3>3, FoundKeepsPairs DEF AnalysisTypeOK
    <3>5. SimilarPairsKept'
      <4>1. KeepsSimilar(groups', corpus)
        BY <2>a, <3>4, KeptPairsAreSimilar DEF AnalysisTypeOK
      <4> QED BY <3>1, <4>1 DEF SimilarPairsKept, KeepsSimilar
    <3> QED BY <2>b, <2>d, <3>1, <3>2, <3>5 DEF AnalysisInv
  <2>4. CASE FindDuplicates
    <3> DEFINE t == IF live THEN FreshDuplicate ELSE CachedDuplicate
               rows == FoundIn(corpus, t).duplicates \union FoundIn(corpus, t).overlaps
    <3>1. /\ UNCHANGED <<level, colliding, conflicting, corpus, conflicts, conflictRows>> /\ phase' = "conflicts"
          /\ groups' = FoundIn(corpus, t) /\ SaveDuplicateGroups(rows)
      BY <2>4 DEF FindDuplicates, world, FoundIn
    <3>2. t \in {CachedDuplicate, FreshDuplicate} /\ corpus \in SUBSET PRs
      BY <2>a DEF AnalysisTypeOK
    <3> HIDE DEF t
    <3>3. SimilarPairsKept'
      <4>1. KeepsPairs(groups', corpus)
        BY <2>a, <3>1, <3>2, FoundKeepsPairs
      <4>2. KeepsSimilar(groups', corpus)
        BY <3>2, <4>1, KeptPairsAreSimilar
      <4> QED BY <3>1, <4>2 DEF SimilarPairsKept, KeepsSimilar
    <3>4. dupRows' = dupRows \/ dupRows' = [dupRows EXCEPT ![corpus] = rows]
      BY <3>1 DEF SaveDuplicateGroups, Fingerprint
    <3>5. RowsAreFound'
      <4>1. \A S, u : FoundIn(S, u)' = FoundIn(S, u)
        BY <3>1 DEF FoundIn, Compared
      <4>2. \A S \in SUBSET PRs : \/ dupRows'[S] = dupRows[S]
                                   \/ (S = corpus /\ dupRows'[S] = rows)
        <5>1. DOMAIN dupRows = SUBSET PRs
          BY <2>a DEF AnalysisTypeOK
        <5> HIDE DEF rows
        <5>2. ASSUME NEW S \in SUBSET PRs, dupRows' = [dupRows EXCEPT ![corpus] = rows]
              PROVE  dupRows'[S] = IF S = corpus THEN rows ELSE dupRows[S]
          BY <5>1, <5>2
        <5> QED BY <3>4, <5>2
      <4> QED BY <2>a, <3>2, <4>1, <4>2 DEF RowsAreFound
    <3>6. AnalysisTypeOK'
      <4>1. DOMAIN dupRows' = SUBSET PRs
        BY <2>a, <3>4 DEF AnalysisTypeOK
      <4> QED BY <2>a, <3>1, <4>1 DEF AnalysisTypeOK
    <3> QED BY <2>d, <3>1, <3>3, <3>5, <3>6 DEF AnalysisInv
  <2>5. CASE LoadConflictCache
    <3>1. /\ UNCHANGED <<level, colliding, dupRows, conflictRows, corpus, groups>> /\ phase = "conflicts" /\ phase' = "review"
          /\ conflicts' = conflictRows[corpus]
      BY <2>5 DEF LoadConflictCache, world, store, Fingerprint
    <3>2. AnalysisTypeOK'
      BY <2>a, <3>1 DEF AnalysisTypeOK
    <3> QED BY <2>b, <2>d, <2>e, <3>1, <3>2 DEF AnalysisInv, Grouped
  <2>6. CASE FindConflicts
    <3>1. /\ UNCHANGED <<level, colliding, dupRows, corpus, groups>> /\ phase = "conflicts" /\ phase' = "review"
          /\ conflicts' = BuildConflicts(corpus)
          /\ conflictRows' = conflictRows \/ conflictRows' = [conflictRows EXCEPT ![corpus] = conflicts']
      BY <2>6 DEF FindConflicts, SaveConflictCache, world, Fingerprint
    <3>2. IsFiniteSet(conflicts')
      BY <2>a, <3>1, ConflictsAreFinite DEF AnalysisTypeOK
    <3>3. AnalysisTypeOK'
      <4>1. /\ DOMAIN conflictRows' = SUBSET PRs
            /\ \A S \in SUBSET PRs : conflictRows'[S] = conflictRows[S] \/ conflictRows'[S] = conflicts'
        BY <2>a, <3>1 DEF AnalysisTypeOK
      <4> QED BY <2>a, <3>1, <3>2, <4>1 DEF AnalysisTypeOK
    <3> QED BY <2>b, <2>d, <2>e, <3>1, <3>3 DEF AnalysisInv, Grouped
  <2>7. CASE Review
    <3>1. /\ UNCHANGED <<level, colliding, dupRows, conflictRows, conflicts, corpus, groups>> /\ phase = "review"
          /\ phase' = "collapse"
      BY <2>7 DEF Review, world, store
    <3>2. DOMAIN results' \subseteq corpus /\ \A n \in DOMAIN results' : results'[n] \in Results
      <4>1. PICK reviewed \in SUBSET corpus : results' \in [reviewed -> Results]
        BY <2>7 DEF Review
      <4> QED BY <4>1
    <3>3. AnalysisTypeOK'
      BY <2>a, <3>1 DEF AnalysisTypeOK
    <3>4. ResultsOfCorpus' /\ CollapsedForGood' /\ PlanIsSafeToPublish' /\ ClosedDuplicatesAreSuperseded'
      BY <3>1, <3>2 DEF ResultsOfCorpus, CollapsedForGood, PlanIsSafeToPublish, ClosedDuplicatesAreSuperseded
    <3> QED BY <2>b, <2>e, <3>1, <3>3, <3>4 DEF AnalysisInv, Grouped
  <2>8. CASE Collapse
    <3>1. /\ UNCHANGED <<level, colliding, dupRows, conflictRows, conflicts, corpus, groups, results>> /\ phase = "collapse"
          /\ phase' = "analysed" /\ superseded' = CollapsedCorpus(Plans, Score)
      BY <2>8 DEF Collapse, world, store
    <3>2. AnalysisTypeOK' /\ ResultsOfCorpus'
      BY <2>a, <3>1 DEF AnalysisTypeOK, ResultsOfCorpus, Judged
    <3>3. CollapsedForGood' /\ PlanIsSafeToPublish' /\ ClosedDuplicatesAreSuperseded'
      BY <2>f, <3>1 DEF CollapsedForGood, PlanIsSafeToPublish, ClosedDuplicatesAreSuperseded
    <3> QED BY <2>b, <2>e, <3>1, <3>2, <3>3 DEF AnalysisInv, Grouped
  <2>9. ASSUME NEW profile, NEW dry, Actions(profile, dry) PROVE AnalysisInv'
    <3>1. /\ UNCHANGED <<level, colliding, dupRows, conflictRows, conflicts, corpus, groups, results, superseded>>
          /\ phase = "analysed" /\ phase' = "planned"
      BY <2>9 DEF Actions, world, store
    <3>2. AnalysisTypeOK' /\ ResultsOfCorpus'
      BY <2>a, <3>1 DEF AnalysisTypeOK, ResultsOfCorpus, Judged
    <3>3. CollapsedForGood'
      BY <2>a, <2>f, <3>1 DEF CollapsedForGood
    <3>4. PlanIsSafeToPublish' /\ ClosedDuplicatesAreSuperseded'
      BY <2>a, <2>9, <3>1, PlanIsSafe, ClosedHaveWhoStands
    <3> QED BY <2>b, <2>e, <3>1, <3>2, <3>3, <3>4 DEF AnalysisInv, Grouped
  <2>10. CASE Done \/ EditContents
    <3>1. /\ UNCHANGED <<level, colliding, dupRows, conflictRows>> /\ phase' = "idle"
          /\ corpus' \subseteq corpus /\ (conflicts' = conflicts \/ conflicts' = {})
      BY <2>10 DEF Done, EditContents, world, store
    <3>2. AnalysisTypeOK'
      BY <2>a, <3>1, FS_EmptySet DEF AnalysisTypeOK
    <3> QED BY <2>b, <2>c, <3>1, <3>2 DEF AnalysisInv
  <2>11. CASE UNCHANGED analysisVars
    <3>1. /\ UNCHANGED <<level, colliding, dupRows, conflictRows, conflicts, corpus, groups, results, superseded, phase, plan>>
      BY <2>11 DEF analysisVars, world, store
    <3>2. AnalysisTypeOK' /\ ResultsOfCorpus' /\ SimilarPairsKept'
      BY <2>a, <3>1 DEF AnalysisTypeOK, ResultsOfCorpus, SimilarPairsKept
    <3>3. CollapsedForGood' /\ PlanIsSafeToPublish' /\ ClosedDuplicatesAreSuperseded'
      BY <2>a, <2>f, <3>1 DEF CollapsedForGood, PlanIsSafeToPublish, ClosedDuplicatesAreSuperseded
    <3> QED BY <2>b, <3>1, <3>2, <3>3 DEF AnalysisInv
  <2> QED BY <2>1, <2>2, <2>3, <2>4, <2>5, <2>6, <2>7, <2>8, <2>9, <2>10, <2>11 DEF AnalysisNext
<1> QED BY <1>1, <1>2, PTL DEF AnalysisSpec

\* Whichever way a run gets its groups, from the cache of runs with other
\* thresholds or by comparing, they link similar pairs only: all of a small
\* corpus, of a larger one those whose hashes collide.  What they link and
\* every threshold calls a duplicate is one, for every set of pull requests,
\* merged ones, similarities and collisions, wherever the code begins to hash
\* (app/service.go:518-588, 1997-2211, cache/sqlite.go:1420-1506).
THEOREM GroupsKeepThePairs == AnalysisSpec => []SimilarPairsKept
<1>1. AnalysisInv => SimilarPairsKept
  BY DEF AnalysisInv
<1> QED BY <1>1, AnalysisInvariance, PTL

\* What is closed for a duplicate has been superseded, by one that stays: the
\* nominee of a group has a better score than its other candidates, so that
\* only the top of the whole chain is no candidate for closing
\* (app/service.go:2404-2562, 2758-2875, app/actions.go:114-134).
THEOREM OnlySupersededAreClosed == AnalysisSpec => []ClosedDuplicatesAreSuperseded
<1>1. AnalysisInv => ClosedDuplicatesAreSuperseded
  BY DEF AnalysisInv
<1> QED BY <1>1, AnalysisInvariance, PTL

\* No plan lets a merge or a close run, none of an advisory profile fails its
\* audit, and the audit of coverage finds a lost review, whatever the corpus,
\* the reviews and the profile
\* (actions/classifier.go:71-212, 331-339, policy.go:28-116, audit.go:27-126).
THEOREM PlansAreSafe == AnalysisSpec => []PlanIsSafeToPublish
<1>1. AnalysisInv => PlanIsSafeToPublish
  BY DEF AnalysisInv
<1> QED BY <1>1, AnalysisInvariance, PTL

-----------------------------------------------------------------------------
(* The review. *)

ReviewSpec == ReviewInit /\ [][ReviewNext]_reviewVars

\* Nothing the classifiers look for is against the pull request.
Clean ==
    /\ subject.ci \notin FailedCI /\ subject.decision # "changes_requested"
    /\ ~subject.draft /\ ~subject.dups /\ ~Stale(subject) /\ subject.pairs = 0

ReviewTypeOK ==
    /\ subject \in Reviewed
    /\ DOMAIN review = {"category", "confidence", "blockers", "action", "tier", "substance", "temporal",
                        "heard", "layers", "exit", "judgment", "from", "reason", "tag"}

\* Until the last pass, a result that nobody recovered is to be merged, now or
\* later, only if it is clean; one that was recovered says from where.
RecoveredIsMarked ==
    step \in {"review", "recovery", "quick_win"} =>
        /\ review.from \in {"", "unknown_escalate"}
        /\ review.from = "" /\ review.temporal \in {"now", "future"} => Clean

ReviewInv == ReviewTypeOK /\ RecoveredIsMarked /\ NowIsClean

\* The first bucket is "now" or "future" only without blockers.
LEMMA FirstBucketIsClean ==
    ASSUME subject \in Reviewed, NEW lost, Reviewing(subject, lost).temporal \in {"now", "future"}
    PROVE  Clean
<1> DEFINE unsafe == SafetyBlockers(subject)
           blockers == unsafe \union (IF Stale(subject) THEN {"stale"} ELSE {})
                         \union (IF subject.pairs > 0 THEN {"conflict"} ELSE {})
                         \union (IF subject.dups THEN {"duplicate"} ELSE {})
<1>1. \E category, substance :
        Reviewing(subject, lost).temporal = TemporalBucket(category, blockers, substance, subject)
  BY DEF Reviewing
<1> HIDE DEF blockers
<1>2. blockers = {}
  BY <1>1 DEF TemporalBucket
<1>3. unsafe = {} /\ ~Stale(subject) /\ ~(subject.pairs > 0) /\ ~subject.dups
  BY <1>2 DEF blockers
<1>4. subject.ci \notin FailedCI /\ subject.decision # "changes_requested" /\ ~subject.draft
  BY <1>3 DEF SafetyBlockers
<1>5. subject.pairs \in Nat
  BY ReviewAssumption
<1>6. subject.pairs = 0
  BY <1>3, <1>5
<1> QED BY <1>3, <1>4, <1>6 DEF Clean

\* Whichever analyzers fail and whichever rules of the two passes apply, a
\* result to be merged now that was not recovered from the escalated ones has
\* nothing against it, for every pull request (review/orchestrator.go:247-467,
\* 1047-1066, classifier.go:16-407, recovery.go:36-207, quickwin.go:15-228).
THEOREM MergeNowIsClean == ReviewSpec => []NowIsClean
<1>1. ReviewInit => ReviewInv
  <2> SUFFICES ASSUME ReviewInit PROVE ReviewInv
    OBVIOUS
  <2>1. subject \in Reviewed /\ review = Unreviewed
    BY DEF ReviewInit
  <2>2. ReviewTypeOK
    BY <2>1 DEF ReviewTypeOK, Unreviewed
  <2>3. review.temporal = "" /\ review.from = ""
    BY <2>1 DEF Unreviewed
  <2> QED BY <2>2, <2>3 DEF ReviewInv, RecoveredIsMarked, NowIsClean
<1>2. ReviewInv /\ [ReviewNext]_reviewVars => ReviewInv'
  <2> SUFFICES ASSUME ReviewInv, [ReviewNext]_reviewVars PROVE ReviewInv'
    OBVIOUS
  <2>a. ReviewTypeOK /\ RecoveredIsMarked /\ NowIsClean
    BY DEF ReviewInv
  <2>b. UNCHANGED subject
    BY DEF ReviewNext, ReviewPR, RunSecondPass, RunQuickWinPass, reviewVars
  <2>c. Clean' <=> Clean
    BY <2>b DEF Clean, Stale, Staleness
  <2>d. Clean' => NowIsClean'
    BY DEF Clean, NowIsClean
  <2>1. ASSUME NEW lost, ReviewPR(lost) PROVE ReviewInv'
    <3>1. review' = Reviewing(subject, lost) /\ step' = "recovery"
      BY <2>1 DEF ReviewPR
    <3>2. /\ review'.from = ""
          /\ DOMAIN review' = {"category", "confidence", "blockers", "action", "tier", "substance", "temporal",
                               "heard", "layers", "exit", "judgment", "from", "reason", "tag"}
      BY <3>1 DEF Reviewing
    <3>3. review'.temporal \in {"now", "future"} => Clean
      BY <2>a, <3>1, FirstBucketIsClean DEF ReviewTypeOK
    <3>4. ReviewTypeOK' /\ RecoveredIsMarked'
      BY <2>a, <2>b, <2>c, <3>1, <3>2, <3>3 DEF ReviewTypeOK, RecoveredIsMarked
    <3>5. NowIsClean'
      <4>1. review'.temporal = "now" => NowIsClean'
        BY <2>c, <2>d, <3>3
      <4> QED BY <4>1 DEF NowIsClean
    <3> QED BY <3>4, <3>5 DEF ReviewInv
  <2>2. CASE RunSecondPass
    <3> DEFINE rule == Recovery(subject)
    <3>1. /\ step = "recovery" /\ step' = "quick_win"
          /\ review' = IF review.category # "unknown_escalate" THEN review
                       ELSE IF rule.to = "" THEN [review EXCEPT !.reason = rule.why]
                       ELSE [review EXCEPT !.category = Bucketed(rule.to), !.temporal = rule.to,
                                           !.from = review.category, !.reason = rule.why,
                                           !.layers = Append(@, rule.to)]
      BY <2>2 DEF RunSecondPass
    <3> HIDE DEF rule
    <3>2. /\ DOMAIN review' = DOMAIN review
          /\ \/ review'.from = review.from /\ review'.temporal = review.temporal
             \/ review'.from = "unknown_escalate"
      BY <2>a, <3>1 DEF ReviewTypeOK
    <3>3. ReviewTypeOK' /\ RecoveredIsMarked'
      BY <2>a, <2>b, <2>c, <3>1, <3>2 DEF ReviewTypeOK, RecoveredIsMarked
    <3>4. NowIsClean'
      <4>1. review'.from \in {"", "low_value"} /\ review'.temporal = "now" => Clean'
        BY <3>1, <3>3 DEF RecoveredIsMarked
      <4> QED BY <2>d, <4>1 DEF NowIsClean
    <3> QED BY <3>3, <3>4 DEF ReviewInv
  <2>3. CASE RunQuickWinPass
    <3> DEFINE rule == QuickWin(subject)
               from == CASE rule.to = "junk" -> review.category
                         [] rule.to # "junk" /\ (review.from = "" \/ rule.to = "") -> "low_value"
                         [] OTHER -> review.from
    <3>1. /\ step = "quick_win" /\ step' = "done"
          /\ review' = IF ~LowValue THEN review
                       ELSE IF rule.to = "" THEN [review EXCEPT !.from = from, !.reason = rule.why]
                       ELSE [review EXCEPT !.category = Bucketed(rule.to),
                                           !.temporal = rule.to, !.from = from, !.reason = rule.why,
                                           !.tag = rule.tag, !.layers = Append(@, "quick_win")]
      BY <2>3 DEF RunQuickWinPass
    <3> HIDE DEF rule, from
    <3>2. DOMAIN review' = DOMAIN review
      BY <3>1
    <3>3. ReviewTypeOK' /\ RecoveredIsMarked'
      BY <2>a, <2>b, <3>1, <3>2 DEF ReviewTypeOK, RecoveredIsMarked
    <3>4. CASE ~LowValue
      <4>1. review' = review
        BY <3>1, <3>4
      <4> QED BY <2>a, <2>b, <3>3, <4>1 DEF ReviewInv, NowIsClean, Stale, Staleness
    <3>5. CASE LowValue
      <4>1. /\ review'.from = from
            /\ review'.temporal = IF rule.to = "" THEN review.temporal ELSE rule.to
        BY <2>a, <3>1, <3>5 DEF ReviewTypeOK
      <4>2. review.temporal = "future"
        BY <3>5 DEF LowValue
      <4>3. ASSUME review'.temporal = "now", review'.from \in {"", "low_value"} PROVE Clean'
        <5>1. rule.to = "now"
          BY <4>1, <4>2, <4>3
        <5>2. review.from = "" \/ from = review.from
          BY <5>1 DEF from
        <5>3. review.from = ""
          BY <2>a, <3>1, <4>1, <4>3, <5>2 DEF RecoveredIsMarked
        <5> QED BY <2>a, <2>c, <3>1, <4>2, <5>3 DEF RecoveredIsMarked
      <4> QED BY <2>d, <3>3, <4>3 DEF ReviewInv, NowIsClean
    <3> QED BY <3>4, <3>5
  <2>4. CASE UNCHANGED reviewVars
    <3>1. UNCHANGED <<subject, step, review>>
      BY <2>4 DEF reviewVars
    <3> QED BY <2>a, <2>c, <3>1 DEF ReviewInv, ReviewTypeOK, RecoveredIsMarked, NowIsClean, Stale, Staleness
  <2> QED BY <2>1, <2>2, <2>3, <2>4 DEF ReviewNext
<1>3. ReviewInv => NowIsClean
  BY DEF ReviewInv
<1> QED BY <1>1, <1>2, <1>3, PTL DEF ReviewSpec
=============================================================================
