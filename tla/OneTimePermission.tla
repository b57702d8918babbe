-------------------------- MODULE OneTimePermission --------------------------
(***************************************************************************)
(* A site permission of one profile, origin and feature, and above all one *)
(* that may be used once: given by the user to BrowserCore, carried by the *)
(* ensure requests of the profile's tabs through the worker queue to the   *)
(* sidecar, used there by a page, and reported back by a receipt.          *)
(*                                                                         *)
(* The shell runs on one thread: a tick is a few of its steps, and the     *)
(* user's and the sync engine's changes fall between ticks.  Each worker's *)
(* thread makes one call of its sidecar at a time; the sidecar runs pages  *)
(* only while it answers one.  A removed worker may still be answering.    *)
(*                                                                         *)
(* A grant is named by its revision: the number of audit events of its key *)
(* when it was given.  Queue is LiveWorker's, with any turn order.         *)
(*                                                                         *)
(* MaxRevision bounds what user and sync decide, MaxGeneration the tabs    *)
(* opened and closed, the input given and what sync decides, MaxFaults the *)
(* failures, MaxWorkers the restarts.                                      *)
(***************************************************************************)
EXTENDS Naturals, Sequences, FiniteSets, SequencesExt, FiniteSetsExt

CONSTANTS
  Tabs,
  Profiles,          \* the kinds of profile: a private one lives as long as its tabs
  Decisions,         \* what the user may decide
  Synced,            \* what the sync engine may decide
  MaxReceipts,       \* receipts per reply
  MaxRevision, MaxGeneration, MaxFaults, MaxWorkers

ASSUME ConstantsAssumption ==
  /\ Profiles \subseteq {"persistent", "private"}
  /\ Decisions \subseteq {"once", "always", "deny"}
  /\ Synced \subseteq {"always", "deny"}
  /\ MaxRevision \in Nat /\ MaxGeneration \in Nat /\ MaxFaults \in Nat
  /\ MaxWorkers \in Nat
  /\ MaxReceipts \in Nat \ {0}

VARIABLES
  core,      \* BrowserCore: the key's entry, its revision, transferred grants
  profile,   \* which kind of profile it is
  open,      \* the open tabs, all of them visible
  phase,     \* where the shell's tick is
  snapshot,  \* the permissions this tick sends
  todo,      \* the tabs this tick has yet to ensure
  started,   \* the number of workers started
  current,   \* the worker registered for the profile, 0 if none
  generation,
  sessions,  \* per tab, the generation of its latest request, 0 if none
  ensured,   \* per tab, the snapshot it was last ensured with
  input,     \* the tabs with input to send
  cooling,   \* a restart has to wait
  worker,    \* per worker, its queue, thread and sidecar
  faults,
  uses,      \* history: how often a page used each grant
  given,     \* history: the grants the user gave
  gone       \* history: grants the user or sync took back, or a worker took along

tabs == <<profile, open, input>>
tick == <<phase, snapshot, todo>>
runtime == <<started, current, generation, sessions, ensured, cooling>>
history == <<uses, given, gone>>
vars == <<core, tabs, tick, runtime, worker, faults, history>>

-----------------------------------------------------------------------------
Workers == 1..MaxWorkers

Revisions == 0..(MaxRevision + 2)

Snapshot == [state : {"none", "once", "always", "deny", "transferred"},
             revision : Revisions]
NoSnapshot == [state |-> "none", revision |-> 0]
Never == [state |-> "never", revision |-> 0]   \* no last_ensure_key

\* seen is history: BrowserCore's revision when the request was made.
Request == [kind : {"ensure", "poll"}, tab : Tabs, generation : Nat,
            snapshot : Snapshot, input : BOOLEAN, seen : Revisions]
NoCall == [kind |-> "none"]

Stored == [decision : {"none", "once", "always", "deny"}, revision : Revisions,
           consumed : BOOLEAN]
NoPermission == [decision |-> "none", revision |-> 0, consumed |-> FALSE]

NewWorker ==
  [stage |-> "free",      \* the thread: free, or where its call is, or stopped
   call |-> NoCall,       \* the request it has taken
   queue |-> [t \in Tabs |-> <<>>],
   closes |-> {},
   responses |-> <<>>,
   tracked |-> {},        \* allow_once_grants
   shutdown |-> FALSE,
   alive |-> TRUE,        \* the sidecar
   stored |-> NoPermission,
   accepted |-> 0,        \* the generation of its snapshot
   receipts |-> <<>>,     \* grants used, not yet reported
   dropped |-> {}]        \* history: grants a snapshot has withdrawn

Response == [kind : {"accepted", "consumed"}, revision : Revisions]
              \cup [kind : {"failed"}, tab : Tabs, generation : Nat]
              \cup {[kind |-> "unavailable"]}

WorkerState ==
  [stage : {"free", "taken", "running", "stopped"},
   call : Request \cup {NoCall, [kind |-> "close"]},
   queue : [Tabs -> Seq(Request)], closes : SUBSET Tabs,
   responses : Seq(Response), tracked : SUBSET Revisions,
   shutdown : BOOLEAN, alive : BOOLEAN,
   stored : Stored, accepted : Nat, receipts : Seq(Revisions),
   dropped : SUBSET Revisions]

Init ==
  /\ core = [entry |-> "none", revision |-> 0, transferred |-> {}]
  /\ profile \in Profiles /\ open = {} /\ phase = "idle" /\ snapshot = NoSnapshot /\ todo = {}
  /\ started = 0 /\ current = 0 /\ generation = 0
  /\ sessions = [t \in Tabs |-> 0]
  /\ ensured = [t \in Tabs |-> Never]
  /\ input = {} /\ cooling = FALSE
  /\ worker = [w \in Workers |-> NewWorker]
  /\ faults = 0
  /\ uses = [r \in Revisions |-> 0]
  /\ given = {} /\ gone = {}

-----------------------------------------------------------------------------
(* BrowserCore *)

\* The grants BrowserCore holds: given, or handed to the sidecar.
Held(c) == c.transferred \cup IF c.entry = "once" THEN {c.revision} ELSE {}

\* record_site_permission_audit_event
Event(c) == [c EXCEPT !.revision = @ + 1]

\* set_site_permission_for_profile
Decided(c, decision) ==
  LET kept == [c EXCEPT !.transferred = {}]
  IN  IF c.entry = decision THEN kept ELSE Event([kept EXCEPT !.entry = decision])

\* revoke_site_permission_for_profile, and the clearing of a profile or origin
Revoked(c) ==
  IF c.entry # "none" THEN Event([c EXCEPT !.entry = "none"])
  ELSE IF c.transferred # {} THEN Event([c EXCEPT !.transferred = {}]) ELSE c

\* Mutant of Synchronized: the grant the sidecar has is left to it.
SynchronizedEntry(c, decision) == [c EXCEPT !.entry = decision]

\* apply_site_permission_sync_record makes no audit event.
Synchronized(c, decision) == [c EXCEPT !.entry = decision, !.transferred = {}]

\* transfer_site_permission_once, for each of some grants: one at most is the entry's.
Transferred(c, grants) ==
  IF c.entry = "once" /\ c.revision \in grants
    THEN Event([c EXCEPT !.entry = "none", !.transferred = @ \cup {c.revision}])
    ELSE c

\* finish_site_permission_once, for each of them
Finished(c, grants) ==
  [c EXCEPT !.transferred = @ \ grants,
            !.revision = @ + Cardinality(c.transferred \cap grants)]

\* apply_permission_consumption
Consumed(c, grants) == Finished(Transferred(c, grants), grants)

\* web_surface_site_permissions_for_core_tab
SnapshotOf(c) ==
  IF c.transferred # {}
    THEN [state |-> "transferred", revision |-> Max(c.transferred)]
    ELSE [state |-> c.entry, revision |-> IF c.entry = "none" THEN 0 ELSE c.revision]

UserDecides(decision) ==
  /\ phase = "idle"
  /\ core.revision < MaxRevision
  /\ core' = Decided(core, decision)
  /\ given' = given \cup Held(core')
  /\ gone' = gone \cup (Held(core) \ Held(core'))
  /\ UNCHANGED <<tabs, tick, runtime, worker, faults, uses>>

UserRevokes ==
  /\ phase = "idle"
  /\ core' = Revoked(core)
  /\ core' # core
  /\ gone' = gone \cup Held(core)
  /\ UNCHANGED <<tabs, tick, runtime, worker, faults, uses, given>>

\* (Within the bounds, or while a grant is with the sidecar.)
SyncDecides(decision) ==
  /\ phase = "idle"
  /\ core.revision < MaxRevision \/ core.transferred # {}
  /\ generation < MaxGeneration
  /\ core' = Synchronized(core, decision)
  /\ core' # core
  /\ gone' = gone \cup Held(core)
  /\ UNCHANGED <<tabs, tick, runtime, worker, faults, uses, given>>

-----------------------------------------------------------------------------
(* The shell *)

OpenTab(t) ==
  /\ phase = "idle" /\ t \notin open
  /\ generation < MaxGeneration
  /\ open' = open \cup {t}
  /\ UNCHANGED <<core, profile, input, tick, runtime, worker, faults, history>>

CloseTab(t) ==
  /\ phase = "idle" /\ t \in open
  /\ generation < MaxGeneration
  /\ open' = open \ {t}
  /\ input' = input \ {t}
  /\ UNCHANGED <<core, profile, tick, runtime, worker, faults, history>>

GiveInput(t) ==
  /\ phase = "idle" /\ t \in open \ input
  /\ generation < MaxGeneration
  /\ input' = input \cup {t}
  /\ UNCHANGED <<core, profile, open, tick, runtime, worker, faults, history>>

\* retire_scoped_worker_permissions: what was given to a worker that goes counts as used.
Retired(tracked, goes) == IF goes THEN tracked ELSE {}

\* The thread has returned, or its sidecar has died: the process is gone, with
\* what it knew.
Exited(w) == [w EXCEPT !.stage = "stopped", !.call = NoCall, !.alive = FALSE,
                !.stored = NoPermission, !.accepted = 0, !.receipts = <<>>, !.dropped = {}]

\* remove_worker: the thread finishes the call it is in.
Removed(w) ==
  [(IF w.stage \in {"free", "stopped"} THEN Exited(w) ELSE w) EXCEPT
     !.shutdown = TRUE, !.queue = [t \in Tabs |-> <<>>], !.closes = {},
     !.responses = <<>>, !.tracked = {}]

\* close_tab and submit_close
Closed(w, closed) ==
  [w EXCEPT !.queue = [t \in Tabs |-> IF t \in closed THEN <<>> ELSE @[t]],
            !.closes = @ \cup closed]

\* ensure_worker starts none while a restart has to wait.
NoWorker(w) == w = 0 /\ (cooling \/ started + 1 \notin Workers)

\* The tick begins: the surfaces of closed tabs go, the last one of a private
\* profile with its worker, and what that worker had counts as used before the
\* permissions are read.  The tabs with input, or whose request would differ from
\* the last one (should_ensure), have a request to make.
Prepare ==
  LET closed == {t \in Tabs \ open : sessions[t] # 0}
      removes == profile = "private" /\ closed # {} /\ \A t \in open : sessions[t] = 0
      grants == Retired(worker[current].tracked, removes)
  IN
  /\ phase = "idle"
  /\ sessions' = [t \in Tabs |-> IF t \in closed THEN 0 ELSE sessions[t]]
  /\ ensured' = [t \in Tabs |-> IF t \in open THEN ensured[t] ELSE Never]
  /\ core' = Consumed(core, grants)
  /\ gone' = gone \cup grants
  /\ worker' = IF closed = {} THEN worker
               ELSE [worker EXCEPT ![current] =
                       IF removes THEN Removed(@) ELSE Closed(@, closed)]
  /\ current' = IF removes THEN 0 ELSE current
  /\ snapshot' = SnapshotOf(core')
  /\ todo' = IF NoWorker(current') THEN {}
             ELSE {t \in open : sessions[t] = 0 \/ ensured[t] # snapshot' \/ t \in input}
  /\ phase' = "ensuring"
  /\ UNCHANGED <<tabs, started, generation, cooling, faults, uses, given>>

\* request_has_ordered_input: a request with a grant to be used once is kept.
Ordered(request) == request.input \/ request.snapshot.state = "once"

\* submit_ensure
Enqueued(line, new) ==
  IF line # <<>> /\ (Last(line).kind = "poll" \/ (~Ordered(new) /\ ~Ordered(Last(line))))
    THEN Append(Front(line), new)
    ELSE Append(line, new)

\* allow_once_grants: what the worker is asked to hand over.
Grants(s) == IF s.state = "once" THEN {s.revision} ELSE {}

Ensure(t) ==
  LET w == IF current # 0 THEN current ELSE started + 1
      request == [kind |-> "ensure", tab |-> t, generation |-> generation + 1,
                  snapshot |-> snapshot, input |-> t \in input, seen |-> core.revision]
  IN
  /\ phase = "ensuring" /\ t \in todo
  /\ current' = w
  /\ started' = IF current # 0 THEN started ELSE w
  /\ generation' = generation + 1
  /\ sessions' = [sessions EXCEPT ![t] = generation + 1]
  /\ ensured' = [ensured EXCEPT ![t] = snapshot]
  /\ input' = input \ {t}
  /\ todo' = todo \ {t}
  /\ worker' = [worker EXCEPT ![w].queue[t] = Enqueued(@, request),
                              ![w].tracked = @ \cup Grants(snapshot)]
  /\ UNCHANGED <<core, profile, open, phase, snapshot, cooling, faults, history>>

\* Mutant of Resent: a request that failed is not sent again.
ResentNever(t, failed) == ensured[t]

\* last_ensure_key is forgotten when the tab's latest request failed.
Resent(t, failed) == IF t \in failed THEN Never ELSE ensured[t]

\* invalidate_scope
Orphaned(t, unavailable) == IF unavailable THEN 0 ELSE sessions[t]

\* drain_responses and submit_poll
Polling(w, tracked, polls) ==
  [w EXCEPT !.responses = <<>>, !.tracked = tracked,
            !.queue = [t \in Tabs |-> IF t \in DOMAIN polls THEN <<polls[t]>> ELSE @[t]]]

\* The tick ends: the worker's responses are read.  A failed request is sent
\* again; a worker that is unavailable is discarded, and what it had counts as
\* used.  Each tab whose queue is empty is polled.  Then BrowserCore is told.
Collect ==
  LET responses == IF current = 0 THEN <<>> ELSE worker[current].responses
      Of(kind) == {i \in DOMAIN responses : responses[i].kind = kind}
      accepted == {responses[i].revision : i \in Of("accepted")}
      consumed == {responses[i].revision : i \in Of("consumed")}
      failed == {t \in Tabs : \E i \in Of("failed") :
                   responses[i].tab = t /\ responses[i].generation = sessions[t]}
      unavailable == Of("unavailable") # {}
      tracked == worker[current].tracked \ consumed
      grants == Retired(tracked, unavailable)
      polled == {t \in open : /\ sessions[t] # 0 /\ worker[current].queue[t] = <<>>
                              /\ worker[current].call.kind \in {"ensure", "poll"} =>
                                   worker[current].call.tab # t}
      Poll(t) == [kind |-> "poll", tab |-> t, generation |-> sessions[t],
                  snapshot |-> NoSnapshot, input |-> FALSE, seen |-> 0]
  IN
  /\ phase = "ensuring" /\ todo = {}
  /\ phase' = "idle"
  /\ ensured' = [t \in Tabs |-> Resent(t, failed)]
  /\ sessions' = [t \in Tabs |-> Orphaned(t, unavailable)]
  /\ cooling' = (cooling \/ unavailable)
  /\ current' = IF unavailable THEN 0 ELSE current
  /\ worker' = IF current = 0 THEN worker ELSE
       [worker EXCEPT ![current] =
          IF unavailable THEN Removed(@) ELSE Polling(@, tracked, [t \in polled |-> Poll(t)])]
  /\ core' = Consumed(Transferred(core, accepted), consumed \cup grants)
  /\ gone' = gone \cup grants
  /\ snapshot' = NoSnapshot
  /\ UNCHANGED <<tabs, todo, started, generation, faults, uses, given>>

\* The delay of ScopeRetryState has passed.
CoolDown ==
  /\ cooling
  /\ cooling' = FALSE
  /\ UNCHANGED <<core, tabs, tick, started, current, generation, sessions, ensured,
                 worker, faults, history>>

-----------------------------------------------------------------------------
(* The workers' threads and their sidecars *)

Take(w) ==
  /\ worker[w].stage = "free" /\ ~worker[w].shutdown
  /\ IF worker[w].closes # {}
       THEN \E t \in worker[w].closes :
              worker' = [worker EXCEPT ![w].closes = @ \ {t}, ![w].stage = "running",
                           ![w].call = [kind |-> "close"]]
       ELSE \E t \in Tabs :
              /\ worker[w].queue[t] # <<>>
              /\ LET request == Head(worker[w].queue[t]) IN
                 worker' = [worker EXCEPT ![w].queue[t] = Tail(@), ![w].call = request,
                              ![w].stage = IF request.kind = "ensure" THEN "taken"
                                           ELSE "running"]
  /\ UNCHANGED <<core, tabs, tick, runtime, faults, history>>

\* Mutant of Outdated: a snapshot is taken in whatever its generation.
NeverOutdated(w) == FALSE

\* A snapshot made before the one the sidecar has is left.
Outdated(w) == worker[w].call.generation < worker[w].accepted

\* Whether a grant of the snapshot is the one the sidecar has.
Known(w, s) == worker[w].stored.decision = "once" /\ worker[w].stored.revision = s.revision

\* Mutant of Replacement: a grant that comes again comes unused.
FreshReplacement(w, s) ==
  IF s.state = "none" THEN NoPermission
  ELSE IF s.state = "transferred"
    THEN [decision |-> "once", revision |-> s.revision,
          consumed |-> IF Known(w, s) THEN worker[w].stored.consumed ELSE TRUE]
    ELSE [decision |-> s.state, revision |-> s.revision, consumed |-> FALSE]

\* What the sidecar stores for a snapshot: a grant it has stays used, and one
\* that was handed over but that it does not know counts as used.
Replacement(w, s) ==
  IF s.state = "none" THEN NoPermission
  ELSE IF s.state = "transferred"
    THEN [decision |-> "once", revision |-> s.revision,
          consumed |-> IF Known(w, s) THEN worker[w].stored.consumed ELSE TRUE]
    ELSE [decision |-> s.state, revision |-> s.revision,
          consumed |-> s.state = "once" /\ Known(w, s) /\ worker[w].stored.consumed]

\* replace_permission_decisions
Apply(w) ==
  LET s == worker[w].call.snapshot IN
  /\ worker[w].stage = "taken" /\ worker[w].alive
  /\ worker' =
       IF Outdated(w) THEN [worker EXCEPT ![w].stage = "running"]
       ELSE [worker EXCEPT
         ![w].stage = "running",
         ![w].stored = Replacement(w, s),
         ![w].accepted = worker[w].call.generation,
         ![w].receipts = IF s.state = "transferred" /\ ~Known(w, s)
                           THEN Append(@, s.revision) ELSE @,
         ![w].dropped = @ \cup {r \in given : r <= worker[w].call.seen
                                 /\ ~(s.state \in {"once", "transferred"} /\ r = s.revision)}]
  /\ UNCHANGED <<core, tabs, tick, runtime, faults, history>>

\* The grant may be used by a page that asks.
Usable(w) == worker[w].stored.decision = "once" /\ ~worker[w].stored.consumed

\* take_permission_decision
PageAsks(w) ==
  /\ worker[w].stage = "running" /\ worker[w].call.kind # "close" /\ worker[w].alive
  /\ Usable(w)
  /\ worker' = [worker EXCEPT ![w].stored.consumed = TRUE,
                  ![w].receipts = Append(@, worker[w].stored.revision)]
  /\ uses' = [uses EXCEPT ![worker[w].stored.revision] = @ + 1]
  /\ UNCHANGED <<core, tabs, tick, runtime, faults, given, gone>>

Failure(w) == <<[kind |-> "failed", tab |-> worker[w].call.tab,
                 generation |-> worker[w].call.generation]>>

\* Mutant of Confirmed: a request that failed confirms its grants too.
ConfirmedAnyway(w, ok) ==
  IF worker[w].call.kind = "ensure" /\ worker[w].call.snapshot.state = "once"
    THEN <<[kind |-> "accepted", revision |-> worker[w].call.snapshot.revision]>>
    ELSE <<>>

\* The grants of a request that succeeded are confirmed.
Confirmed(w, ok) ==
  IF ok /\ worker[w].call.kind = "ensure" /\ worker[w].call.snapshot.state = "once"
    THEN <<[kind |-> "accepted", revision |-> worker[w].call.snapshot.revision]>>
    ELSE <<>>

\* The receipts that fit into one reply.
Batch(w) ==
  IF Len(worker[w].receipts) <= MaxReceipts THEN worker[w].receipts
  ELSE SubSeq(worker[w].receipts, 1, MaxReceipts)

\* Mutant of Reported: a reply that is an error has no room for receipts.
ReportedIfOk(w, ok) ==
  IF ok THEN [i \in DOMAIN Batch(w) |-> [kind |-> "consumed", revision |-> Batch(w)[i]]]
  ELSE <<>>

Reported(w, ok) == [i \in DOMAIN Batch(w) |-> [kind |-> "consumed", revision |-> Batch(w)[i]]]

\* The thread passes on what it is told.
PassedOn(w, ok) ==
  [worker[w] EXCEPT
     !.stage = "free", !.call = NoCall,
     !.receipts = SubSeq(@, Len(Batch(w)) + 1, Len(@)),
     !.responses = @ \o Confirmed(w, ok) \o Reported(w, ok)
                     \o IF ok \/ worker[w].call.kind = "close" THEN <<>> ELSE Failure(w)]

\* The sidecar answers, with a batch of receipts even when it reports an error.
Answer(w, ok) ==
  /\ worker[w].alive
  /\ worker[w].stage = "running" \/ (worker[w].stage = "taken" /\ ~ok)
  /\ ~ok => faults < MaxFaults
  /\ faults' = IF ok THEN faults ELSE faults + 1
  /\ worker' = [worker EXCEPT ![w] =
       IF worker[w].shutdown THEN Exited(@) ELSE PassedOn(w, ok)]
  /\ UNCHANGED <<core, tabs, tick, runtime, history>>

\* The thread finds the sidecar gone, and ends; a close does not notice.
Bereft(w) ==
  IF worker[w].call.kind = "close" THEN [Exited(worker[w]) EXCEPT !.stage = "free"]
  ELSE [Exited(worker[w]) EXCEPT
          !.responses = @ \o Failure(w) \o <<[kind |-> "unavailable"]>>]

\* The sidecar is gone: exited, killed after a timeout, never started.
Dies(w) ==
  /\ worker[w].stage \in {"taken", "running"}
  /\ worker[w].alive => faults < MaxFaults
  /\ faults' = IF worker[w].alive THEN faults + 1 ELSE faults
  /\ worker' = [worker EXCEPT ![w] =
       IF worker[w].shutdown THEN Exited(@)
       ELSE Bereft(w)]
  /\ UNCHANGED <<core, tabs, tick, runtime, history>>

-----------------------------------------------------------------------------
User ==
  \/ \E d \in Decisions : UserDecides(d)
  \/ UserRevokes
  \/ \E d \in Synced : SyncDecides(d)
  \/ \E t \in Tabs : OpenTab(t) \/ CloseTab(t) \/ GiveInput(t)

Tick == Prepare \/ Collect \/ \E t \in Tabs : Ensure(t)

Serve(w) == Take(w) \/ Apply(w) \/ Answer(w, TRUE) \/ (~worker[w].alive /\ Dies(w))

Next ==
  \/ User \/ Tick \/ CoolDown
  \/ \E w \in Workers : Serve(w) \/ PageAsks(w) \/ Answer(w, FALSE) \/ Dies(w)

Spec == Init /\ [][Next]_vars

\* The shell ticks, time passes, and every call returns: the client gives up
\* after a timeout.  Nothing is assumed of the user or of pages.
FairSpec == /\ Spec
            /\ WF_vars(Tick) /\ WF_vars(CoolDown)
            /\ \A w \in Workers : WF_vars(Serve(w))

-----------------------------------------------------------------------------
(* Properties *)

TypeOK ==
  /\ core \in [entry : {"none", "once", "always", "deny"}, revision : Revisions,
               transferred : SUBSET Revisions]
  /\ profile \in Profiles /\ open \subseteq Tabs /\ input \subseteq open
  /\ phase \in {"idle", "ensuring"} /\ snapshot \in Snapshot /\ todo \subseteq open
  /\ started \in 0..MaxWorkers /\ current \in 0..started
  /\ generation \in Nat /\ cooling \in BOOLEAN /\ faults \in 0..MaxFaults
  /\ sessions \in [Tabs -> Nat] /\ \A t \in Tabs : sessions[t] # 0 => current # 0
  /\ ensured \in [Tabs -> Snapshot \cup {Never}]
  /\ worker \in [Workers -> WorkerState]
  /\ uses \in [Revisions -> Nat]
  /\ given \subseteq Revisions /\ gone \subseteq Revisions

\* A grant is used at most once, by whatever page of whatever sidecar, with
\* requests from several tabs overtaking each other and sidecars dying between
\* the use and its receipt.
UsedOnce == \A r \in Revisions : uses[r] <= 1

\* BrowserCore holds at most one decision for a key.  A second one would make the
\* snapshot contradict itself: the sidecar refuses one that names a key twice, and
\* with it every request of the profile.
OneDecision ==
  /\ Cardinality(core.transferred) <= 1
  /\ core.transferred # {} => core.entry = "none"

\* A grant that a snapshot has withdrawn from a sidecar never comes back to it,
\* though requests made earlier may reach it later.
WithdrawnStaysWithdrawn ==
  \A w \in Workers : Usable(w) => worker[w].stored.revision \notin worker[w].dropped

\* A grant that was given is held, or was used, or the user or sync took it back,
\* or it was lost with its sidecar: no failed or repeated request spends it.
GrantsAreKept ==
  \A r \in given : r \in Held(core) \cup gone \/ uses[r] > 0

\* A use is reported: BrowserCore does not go on showing the grant, unless no
\* tab is left to talk to the sidecar.
UsesAreReported ==
  \A r \in Revisions : uses[r] > 0 ~> (r \notin Held(core) \/ open = {})

\* A denial reaches the sidecar, unless it is changed, no tab is left, or no
\* worker can be had.
DenialArrives ==
  core.entry = "deny" ~>
    \/ core.entry # "deny" \/ open = {}
    \/ current = 0 /\ started + 1 \notin Workers
    \/ current # 0 /\ worker[current].stored.decision = "deny"
=============================================================================
