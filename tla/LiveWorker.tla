----------------------------- MODULE LiveWorker -----------------------------
(***************************************************************************)
(* LiveRuntimeWorker: the queue between the shell, which must never block, *)
(* and the one thread that talks to the blocking sidecar client of a       *)
(* profile.                                                                *)
(*                                                                         *)
(* The queue is guarded by a mutex: what the shell or the thread does      *)
(* while holding it is one step.  The client call is made without the      *)
(* mutex, so the queue changes while a call is in flight.  The thread      *)
(* waits on a condition variable; a submission wakes it.                   *)
(*                                                                         *)
(* MaxRequests bounds the ensure requests (the shell numbers them:         *)
(* RequestGeneration) and MaxBacklog the unread responses a poll may add   *)
(* to.                                                                     *)
(***************************************************************************)
EXTENDS Naturals, Sequences, SequencesExt

CONSTANTS
  Tabs,
  Views,       \* what a request can ask a page to be: URL, size, zoom, colours
  NoView,      \* there is no session
  Unknown,     \* a call failed half-way: nobody knows
  Shots,       \* what a frame can show of the page (LivePages)
  NoTab,
  Kinds,       \* the kinds of ensure requests the shell makes
  Commands,    \* what else it does: reloads and closes tabs, drops the worker
  MaxRequests, MaxBacklog

ASSUME ConstantsAssumption ==
  /\ NoView \notin Views /\ Unknown \notin Views \cup {NoView}
  /\ NoTab \notin Tabs
  /\ Kinds \subseteq {"plain", "scroll", "input"}
  /\ Commands \subseteq {"reload", "close", "drop"}
  /\ MaxRequests \in Nat /\ MaxBacklog \in Nat
  /\ IsFiniteSet(Tabs)

VARIABLES
  pending,    \* per tab, the requests not yet dispatched
  ready,      \* the tabs with pending requests, in the order of their turns
  reloads, closes,
  inFlight,   \* the work the thread has taken (in_flight, in_flight_tab)
  failed,     \* initialization_failure
  shutdown,
  thread,     \* where the thread is
  last,       \* last_dispatched_tab
  responses,  \* the channel back to the shell
  alive,      \* the sidecar process still answers
  asked,      \* history: what the sidecar's session of each tab has last been asked for
  count,      \* the generation of the latest request
  latest,     \* the generation of each tab's session
  floor,      \* its frame_generation_floor
  want,       \* what it last asked the tab's page to be
  reached,    \* history: the input that reached each page, in order
  passed,     \* history: the tabs served since each tab became ready
  told        \* history: the shell has read that the runtime is unavailable

queue == <<pending, ready, reloads, closes, inFlight, failed, shutdown>>
sidecar == <<alive, asked>>
shell == <<count, latest, floor, want>>
vars == <<queue, thread, last, responses, sidecar, shell, reached, passed, told>>

-----------------------------------------------------------------------------
Generations == 1..MaxRequests

\* An ensure request with ordered input is a pure scroll or anything else
\* (a click, typed text, a permission to be used once); one without is plain.
\* inputs names the pieces of ordered input it carries.
Request ==
  [kind : {"poll"}, tab : Tabs, gen : Generations, view : {NoView}, inputs : {<<>>}]
    \cup [kind : {"plain", "scroll", "input"}, tab : Tabs, gen : Generations,
          view : Views, inputs : Seq(Generations)]

Work == Request \cup [kind : {"none", "close", "reload"}, tab : Tabs \cup {NoTab}]
NoWork == [kind |-> "none", tab |-> NoTab]

\* A frame is made by a session that has been asked for a view so far; what it shows of
\* the page, which loads in its own time, is left open here.
Response == [kind : {"frame"}, tab : Tabs, gen : Generations,
             view : Views \cup {NoView, Unknown}, shot : Shots]
              \cup [kind : {"failed"}, tab : Tabs, gen : Generations]
              \cup {[kind |-> "unavailable"]}
Unavailable == [kind |-> "unavailable"]
Failed(r) == [kind |-> "failed", tab |-> r.tab, gen |-> r.gen]
Frame(r, view, shot) ==
  [kind |-> "frame", tab |-> r.tab, gen |-> r.gen, view |-> view, shot |-> shot]

Threads == {"starting", "fetch", "waiting", "calling", "exiting", "stopped"}

Init ==
  /\ pending = [t \in Tabs |-> <<>>]
  /\ ready = <<>> /\ reloads = <<>> /\ closes = <<>>
  /\ inFlight = NoWork
  /\ failed = FALSE /\ shutdown = FALSE
  /\ thread = "starting"
  /\ last = NoTab
  /\ responses = <<>>
  /\ alive = TRUE
  /\ asked = [t \in Tabs |-> NoView]
  /\ count = 0
  /\ latest = [t \in Tabs |-> 0]
  /\ floor = [t \in Tabs |-> 0]
  /\ want = [t \in Tabs |-> NoView]
  /\ reached = [t \in Tabs |-> <<>>]
  /\ passed = [t \in Tabs |-> {}]
  /\ told = FALSE

\* Mutant of Notify: the condition variable is not signalled.
NoNotify == UNCHANGED thread

\* The condition variable has one waiter.
Notify == thread' = IF thread = "waiting" THEN "fetch" ELSE thread

-----------------------------------------------------------------------------
(* Submissions *)

\* The shell polls, reloads and closes the tabs it has a session for.
HasSession(t) == want[t] # NoView

\* Mutant of Ordered: a permission to be used once is not ordered input.
OrderedScroll(r) == r.kind = "scroll"

\* request_has_ordered_input
Ordered(r) == r.kind \in {"scroll", "input"}

\* can_merge_consecutive_scroll
CanMerge(new, tail) ==
  new.kind = "scroll" /\ tail.kind = "scroll" /\ new.view = tail.view

\* The request at the tail is replaced: its scroll distance is added to the
\* new one's, its frame is superseded.
Replaces(new, tail) ==
  \/ CanMerge(new, tail)
  \/ tail.kind = "poll"
  \/ ~Ordered(new) /\ ~Ordered(tail)

Merged(new, tail) ==
  IF CanMerge(new, tail) THEN [new EXCEPT !.inputs = tail.inputs \o @] ELSE new

\* The place of a request in its tab's queue.
Enqueued(line, new) ==
  IF line # <<>> /\ Replaces(new, Last(line))
    THEN Append(Front(line), Merged(new, Last(line)))
    ELSE Append(line, new)

\* The tab joins the turn order behind the others, unless it has a turn.
TakeTurn(t) ==
  IF pending[t] = <<>>
    THEN /\ ready' = Append(ready, t)
         /\ passed' = [passed EXCEPT ![t] = {}]
    ELSE UNCHANGED <<ready, passed>>

\* Mutant of StartedLoading: only a new session starts to load.
StartedLoadingOnce(t, view) == want[t] = NoView

\* started_loading: the page is to be another one than so far.
StartedLoading(t, view) == want[t] # view

\* ensure_tab and submit_ensure, under the next generation.  A worker that could not start
\* answers at once.
SubmitEnsure(t, kind, view) ==
  LET new == [kind |-> kind, tab |-> t, gen |-> count + 1, view |-> view,
              inputs |-> IF kind \in {"scroll", "input"} THEN <<count + 1>> ELSE <<>>]
  IN
  /\ ~shutdown
  /\ count < MaxRequests
  /\ count' = count + 1
  /\ latest' = [latest EXCEPT ![t] = count + 1]
  /\ want' = [want EXCEPT ![t] = view]
  /\ floor' = [floor EXCEPT ![t] = IF StartedLoading(t, view) THEN count + 1 ELSE @]
  /\ IF failed
       THEN /\ responses' = Append(responses, Failed(new))
            /\ UNCHANGED <<pending, ready, passed, thread>>
       ELSE /\ pending' = [pending EXCEPT ![t] = Enqueued(@, new)]
            /\ TakeTurn(t)
            /\ Notify
            /\ UNCHANGED responses
  /\ UNCHANGED <<reloads, closes, inFlight, failed, shutdown, last, sidecar, reached, told>>

\* in_flight_tab: closes and reloads have none.
InFlightTab == IF inFlight.kind \in {"close", "reload"} THEN NoTab ELSE inFlight.tab

\* submit_poll, under the generation of the tab's session.
SubmitPoll(t) ==
  LET poll == [kind |-> "poll", tab |-> t, gen |-> latest[t], view |-> NoView,
               inputs |-> <<>>]
  IN
  /\ ~shutdown
  /\ HasSession(t)
  /\ Len(responses) < MaxBacklog
  /\ IF failed
       THEN /\ responses' = Append(responses, Failed(poll))
            /\ UNCHANGED <<pending, ready, passed, thread>>
       ELSE /\ pending[t] = <<>> /\ t # InFlightTab
            /\ pending' = [pending EXCEPT ![t] = <<poll>>]
            /\ TakeTurn(t)
            /\ Notify
            /\ UNCHANGED responses
  /\ UNCHANGED <<reloads, closes, inFlight, failed, shutdown, last, sidecar, shell,
                 reached, told>>

SubmitReload(t) ==
  /\ "reload" \in Commands
  /\ ~shutdown /\ ~failed
  /\ HasSession(t)
  /\ reloads' = IF Contains(reloads, t) THEN reloads ELSE Append(reloads, t)
  /\ Notify
  /\ UNCHANGED <<pending, ready, closes, inFlight, failed, shutdown, last, responses,
                 sidecar, shell, reached, passed, told>>

\* retain: a tab has one place in a line at most (NoRepeats in LiveWorkerProofs).
Without(line, t) ==
  IF Contains(line, t)
    THEN RemoveAt(line, CHOOSE i \in DOMAIN line : line[i] = t)
    ELSE line

ClosedTurns(t) == Without(ready, t)

\* submit_close: nothing of the tab is left for the thread but the close.
SubmitClose(t) ==
  /\ "close" \in Commands
  /\ ~shutdown
  /\ HasSession(t)
  /\ want' = [want EXCEPT ![t] = NoView]
  /\ floor' = [floor EXCEPT ![t] = 0]
  /\ IF failed
       THEN UNCHANGED <<pending, ready, reloads, closes, thread>>
       ELSE /\ pending' = [pending EXCEPT ![t] = <<>>]
            /\ ready' = ClosedTurns(t)
            /\ reloads' = Without(reloads, t)
            /\ closes' = Append(closes, t)
            /\ Notify
  /\ UNCHANGED <<inFlight, failed, shutdown, last, responses, sidecar, count, latest,
                 reached, passed, told>>

\* drain_responses
Drain ==
  /\ responses # <<>>
  /\ responses' = <<>>
  /\ told' = (told \/ Contains(responses, Unavailable))
  /\ UNCHANGED <<queue, thread, last, sidecar, shell, reached, passed>>

\* Drop: the shell blocks until the thread has stopped.
Drop ==
  /\ "drop" \in Commands
  /\ ~shutdown
  /\ shutdown' = TRUE
  /\ Notify
  /\ UNCHANGED <<pending, ready, reloads, closes, inFlight, failed, last, responses,
                 sidecar, shell, reached, passed, told>>

-----------------------------------------------------------------------------
(* The thread *)

Start ==
  /\ thread = "starting"
  /\ thread' = "fetch"
  /\ UNCHANGED <<queue, last, responses, sidecar, shell, reached, passed, told>>

\* Mutant of LastWords: the shell is left to find out for itself.
NoLastWords == <<>>

\* The notice that the owner must discard the worker.
LastWords == <<Unavailable>>

\* What is queued fails: the tabs in the order of a hash map, each one's requests in theirs.
Failures == UNION {{Failed(pending[t][i]) : i \in DOMAIN pending[t]} : t \in Tabs}

TabByTab(line) ==
  \A i, j \in DOMAIN line : i < j /\ line[i].tab = line[j].tab =>
    /\ line[i].gen < line[j].gen
    /\ \A k \in i..j : line[k].tab = line[i].tab

\* fail_worker_initialization
StartFails ==
  /\ thread = "starting"
  /\ thread' = "stopped"
  /\ failed' = TRUE
  /\ alive' = FALSE
  /\ \E line \in SetToSeqs(Failures) :
       TabByTab(line) /\ responses' = responses \o line \o LastWords
  /\ pending' = [t \in Tabs |-> <<>>]
  /\ ready' = <<>> /\ reloads' = <<>> /\ closes' = <<>>
  /\ inFlight' = NoWork
  /\ UNCHANGED <<shutdown, last, asked, shell, reached, passed, told>>

Nothing == reloads = <<>> /\ closes = <<>> /\ \A t \in Tabs : pending[t] = <<>>

\* Mutant of MayWait: the thread sleeps through its end.
MayWaitAnyway == Nothing

MayWait == Nothing /\ ~shutdown

Wait ==
  /\ thread = "fetch"
  /\ MayWait
  /\ thread' = "waiting"
  /\ inFlight' = NoWork
  /\ UNCHANGED <<pending, ready, reloads, closes, failed, shutdown, last, responses,
                 sidecar, shell, reached, passed, told>>

Leave ==
  /\ thread = "fetch"
  /\ shutdown
  /\ thread' = "stopped"
  /\ inFlight' = NoWork
  /\ UNCHANGED <<pending, ready, reloads, closes, failed, shutdown, last, responses,
                 sidecar, shell, reached, passed, told>>

\* The thread has found work and calls the client.
Calls(work) ==
  /\ thread = "fetch"
  /\ ~shutdown
  /\ thread' = "calling"
  /\ inFlight' = work
  /\ UNCHANGED <<failed, shutdown, responses, sidecar, shell, told>>

TakeClose ==
  /\ closes # <<>>
  /\ closes' = Tail(closes)
  /\ Calls([kind |-> "close", tab |-> Head(closes)])
  /\ UNCHANGED <<pending, ready, reloads, last, reached, passed>>

\* Mutant of ClosesDone: a close may wait.
CloseAnyTime == TRUE

\* Closes come before reloads, and reloads before requests.
ClosesDone == closes = <<>>

TakeReload ==
  /\ ClosesDone
  /\ reloads # <<>>
  /\ reloads' = Tail(reloads)
  /\ Calls([kind |-> "reload", tab |-> Head(reloads)])
  /\ UNCHANGED <<pending, ready, closes, last, reached, passed>>

\* Mutant of Turns: the order is left as it is.
SameOrder == ready

\* The tab that was served last gives way when it has come back to the front.
Turns ==
  IF Len(ready) > 1 /\ Head(ready) = last THEN Append(Tail(ready), last) ELSE ready

Input == [n : Generations, view : Views]
Carried(r) == [i \in DOMAIN r.inputs |-> [n |-> r.inputs[i], view |-> r.view]]

TakeRequest ==
  LET t == Head(Turns)
      rest == Tail(pending[t])
  IN
  /\ ClosesDone /\ reloads = <<>>
  /\ ready # <<>> /\ pending[t] # <<>>
  /\ pending' = [pending EXCEPT ![t] = rest]
  /\ ready' = IF rest = <<>> THEN Tail(Turns) ELSE Append(Tail(Turns), t)
  /\ last' = t
  /\ Calls(Head(pending[t]))
  /\ reached' = [reached EXCEPT ![t] = @ \o Carried(Head(pending[t]))]
  /\ passed' = [u \in Tabs |-> IF u = t THEN {} ELSE passed[u] \cup {t}]
  /\ UNCHANGED <<reloads, closes>>

\* The client's answer to a close or a reload is ignored: a tab that is closed twice, or
\* has no session, is no error.
CommandReturns ==
  /\ thread = "calling"
  /\ inFlight.kind \in {"close", "reload"}
  /\ alive
  /\ thread' = "fetch"
  /\ asked' = IF inFlight.kind = "reload" THEN asked
              ELSE [asked EXCEPT ![inFlight.tab] = NoView]
  /\ UNCHANGED <<queue, last, responses, alive, shell, reached, passed, told>>

\* So is an error, which may have ended the sidecar.
CommandFails ==
  /\ thread = "calling"
  /\ inFlight.kind \in {"close", "reload"}
  /\ thread' = "fetch"
  /\ alive' \in {alive, FALSE}
  /\ asked' = IF inFlight.kind = "reload" THEN asked
              ELSE [asked EXCEPT ![inFlight.tab] = Unknown]
  /\ UNCHANGED <<queue, last, responses, shell, reached, passed, told>>

\* A frame, or the word that there is none yet.
RequestReturns ==
  /\ thread = "calling"
  /\ inFlight.kind \notin {"close", "reload"}
  /\ alive
  /\ thread' = "fetch"
  /\ asked' = IF inFlight.kind = "poll" THEN asked
              ELSE [asked EXCEPT ![inFlight.tab] = inFlight.view]
  /\ \/ UNCHANGED responses
     \/ \E shot \in Shots :
          responses' = Append(responses, Frame(inFlight, asked'[inFlight.tab], shot))
  /\ UNCHANGED <<queue, last, alive, shell, reached, passed, told>>

\* An error the sidecar may survive, and that the thread does.  A poll that fails may have
\* retired the session (the address of its page is too long), or may not.
RequestFails ==
  /\ thread = "calling"
  /\ inFlight.kind \notin {"close", "reload"}
  /\ alive
  /\ thread' = "fetch"
  /\ alive' \in BOOLEAN
  /\ responses' = Append(responses, Failed(inFlight))
  /\ \/ asked' = [asked EXCEPT ![inFlight.tab] = Unknown]
     \/ inFlight.kind = "poll" /\ UNCHANGED asked
  /\ UNCHANGED <<queue, last, shell, reached, passed, told>>

\* The sidecar has exited, timed out or broken the protocol: the thread ends,
\* and what is still queued is never answered.
RuntimeUnavailable ==
  /\ thread = "calling"
  /\ inFlight.kind \notin {"close", "reload"}
  /\ thread' = "exiting"
  /\ alive' = FALSE
  /\ responses' = Append(responses, Failed(inFlight)) \o LastWords
  /\ UNCHANGED <<queue, last, asked, shell, reached, passed, told>>

Exit ==
  /\ thread = "exiting"
  /\ thread' = "stopped"
  /\ inFlight' = NoWork
  /\ UNCHANGED <<pending, ready, reloads, closes, failed, shutdown, last, responses,
                 sidecar, shell, reached, passed, told>>

-----------------------------------------------------------------------------
Shell ==
  \/ \E t \in Tabs :
       \/ SubmitPoll(t) \/ SubmitReload(t) \/ SubmitClose(t)
       \/ \E kind \in Kinds, view \in Views :
            SubmitEnsure(t, kind, view)
  \/ Drain
  \/ Drop

Thread ==
  \/ Start \/ StartFails \/ Wait \/ Leave
  \/ TakeClose \/ TakeReload \/ TakeRequest
  \/ CommandReturns \/ CommandFails
  \/ RequestReturns \/ RequestFails \/ RuntimeUnavailable \/ Exit

Next == Shell \/ Thread

Spec == Init /\ [][Next]_vars

\* The thread is scheduled, and every call of the client returns: it gives up
\* after a timeout.  Nothing is assumed of the shell.
FairSpec == Spec /\ WF_vars(Thread)

-----------------------------------------------------------------------------
(* Properties *)

TypeOK ==
  /\ pending \in [Tabs -> Seq(Request)]
  /\ ready \in Seq(Tabs) /\ reloads \in Seq(Tabs) /\ closes \in Seq(Tabs)
  /\ inFlight \in Work
  /\ failed \in BOOLEAN /\ shutdown \in BOOLEAN
  /\ thread \in Threads
  /\ last \in Tabs \cup {NoTab}
  /\ responses \in Seq(Response)
  /\ alive \in BOOLEAN
  /\ asked \in [Tabs -> Views \cup {NoView, Unknown}]
  /\ count \in 0..MaxRequests
  /\ latest \in [Tabs -> 0..MaxRequests]
  /\ floor \in [Tabs -> 0..MaxRequests]
  /\ want \in [Tabs -> Views \cup {NoView}]
  /\ reached \in [Tabs -> Seq(Input)]
  /\ passed \in [Tabs -> SUBSET Tabs]
  /\ told \in BOOLEAN

\* No tab is served twice in a row while another one waits, nor twice in the
\* time that another one waits: the queue is fair, whatever the order in which
\* requests arrive.
TakesTurns ==
  [][TakeRequest =>
       \A u \in Tabs \ {last'} :
         Contains(ready, u) => last' # last /\ last' \notin passed[u]]_vars

\* accepts_frame_generation
Accepts(frame) ==
  HasSession(frame.tab) /\ floor[frame.tab] <= frame.gen /\ frame.gen <= latest[frame.tab]

\* A worker whose thread has ended by itself has told its owner, who discards
\* it: requests are only lost where somebody learns of it.
EndIsReported ==
  thread \in {"exiting", "stopped"} /\ ~shutdown =>
    told \/ Contains(responses, Unavailable)

\* Every request in the queue is dispatched, dropped by a close or superseded,
\* or else the thread has ended; and it ends once the owner is dropped: the join
\* returns.  Reloads go first: only a shell that never stops asking for them can hold
\* a request back.
RequestsAreServed ==
  /\ shutdown ~> (thread = "stopped")
  /\ <>[](reloads = <<>>) => \A t \in Tabs, g \in Generations :
       (\E i \in DOMAIN pending[t] : pending[t][i].gen = g) ~>
       (thread = "stopped" \/ \A i \in DOMAIN pending[t] : pending[t][i].gen # g)

\* The input in the requests of a line, in the order in which it would be handed over.
Flow(line) ==
  LET of[n \in 0..Len(line)] == IF n = 0 THEN <<>> ELSE of[n - 1] \o Carried(line[n])
  IN of[Len(line)]

\* Input reaches the pages as InputStream promises.
Running == thread \notin {"exiting", "stopped"}

Waiting == [t \in Tabs |-> IF Running THEN Flow(pending[t]) ELSE <<>>]

Stream == INSTANCE InputStream WITH waiting <- Waiting, running <- Running

InputInOrder == Stream!Spec
=============================================================================
