------------------------------- MODULE LivePages -------------------------------
(***************************************************************************)
(* What the sidecar does with the calls of LiveWorker: one session per     *)
(* tab, and the page in it, which loads in its own time.                   *)
(*                                                                         *)
(* The sidecar carries out one call after the other, and lets Servo run    *)
(* only while it does (spin_event_loop): the pages of all tabs move while  *)
(* a call is in flight, and not in between.  Servo is not part of this     *)
(* repository: that a load is committed, is given up, or that a page goes  *)
(* elsewhere by itself (a link, a redirect, a script) is left open.        *)
(***************************************************************************)
EXTENDS LiveWorker

CONSTANTS
  Urls,     \* addresses as they are written
  Normal,   \* the form in which Servo reports each (Url::parse)
  UrlOf,    \* the address each view asks for
  Blank     \* the empty document of a new session, which has been asked for nothing

ASSUME PagesAssumption ==
  /\ Blank \notin Urls
  /\ UrlOf \in [Views -> Urls]
  /\ Normal \in [Urls -> Urls]
  /\ \A url \in Urls : Normal[Normal[url]] = Normal[url]
  /\ Shots = [page : Urls \cup {Blank, Unknown}, finished : BOOLEAN]

VARIABLES
  pages,    \* the session of each tab
  step      \* how far the sidecar is with the call in flight

pagesVars == <<vars, pages, step>>

-----------------------------------------------------------------------------
Page ==
  [open : BOOLEAN,                 \* there is a session
   requested : Urls \cup {Blank},  \* LiveSession::requested_url
   page : Urls \cup {Blank},       \* the address of the page that is there (current_url)
   loading : SUBSET Urls,          \* the loads that have been issued and may still end
   awaiting : BOOLEAN,             \* awaiting_url_change
   strayed : BOOLEAN]              \* history: more can have become of the page than its load

Gone == [open |-> FALSE, requested |-> Blank, page |-> Blank, loading |-> {},
         awaiting |-> FALSE, strayed |-> FALSE]

Fresh == [Gone EXCEPT !.open = TRUE]

\* ensure_session
Opened(p) == IF p.open THEN p ELSE Fresh

PagesInit ==
  /\ Init
  /\ pages = [t \in Tabs |-> Gone]
  /\ step = "idle"

Becomes(t, p) == pages' = [pages EXCEPT ![t] = p]

\* A load is committed.  What else was loading may be given up for it.  Servo tells of a
\* new address; of the same one it need not.
Commits(t) ==
  \E url \in pages[t].loading, rest \in SUBSET pages[t].loading,
     awaiting \in {FALSE, pages[t].awaiting} :
    /\ url # pages[t].page => ~awaiting
    /\ Becomes(t, [pages[t] EXCEPT !.page = url, !.loading = rest, !.awaiting = awaiting])

\* A load ends and leaves the page as it was.
Abandons(t) ==
  \E rest \in SUBSET pages[t].loading :
    Becomes(t, [pages[t] EXCEPT !.loading = rest, !.strayed = TRUE])

\* The page goes elsewhere by itself.
Strays(t) ==
  \E url \in Urls :
    Becomes(t, [pages[t] EXCEPT !.page = Normal[url], !.awaiting = FALSE, !.strayed = TRUE])

\* Mutant of Awaits: the hold is not armed.
AwaitsNothing(p, url) == p.awaiting

\* arm_pending_navigation: until Servo reports another address, the page counts as loading.
Awaits(p, url) == p.awaiting \/ p.page # Normal[url]

\* Mutant of Remembered: the request is forgotten where the page needs no navigation.
Forgotten(p, url) == p

\* The page is there already: whatever is still loading goes on loading.
Remembered(p, url) == [p EXCEPT !.requested = url, !.strayed = p.loading # {}]

\* The load is issued, whatever is still loading.
Loads(p, url) ==
  [p EXCEPT !.requested = url, !.loading = @ \cup {Normal[url]},
            !.awaiting = Awaits(p, url), !.strayed = p.loading # {}]

\* What a call makes of the session of its tab; a navigation is still to come.
Outcome(p) ==
  CASE inFlight.kind = "close" -> Gone
    [] inFlight.kind \in {"poll", "reload"} -> p
    [] OTHER -> LET url == UrlOf[inFlight.view]
                IN IF Opened(p).page = url /\ Opened(p).requested # url
                     THEN Remembered(Opened(p), url) ELSE Opened(p)

\* The session has been asked for another address, and its page is at another one.
Navigates ==
  /\ inFlight.kind \in {"plain", "scroll", "input"}
  /\ UrlOf[inFlight.view] \notin {Opened(pages[inFlight.tab]).requested,
                                  Opened(pages[inFlight.tab]).page}

-----------------------------------------------------------------------------
\* handle_request
Handle ==
  /\ thread = "calling"
  /\ alive
  /\ step = "idle"
  /\ step' = IF Navigates THEN "navigating" ELSE "handled"
  /\ Becomes(inFlight.tab, Outcome(pages[inFlight.tab]))
  /\ UNCHANGED vars

\* ServoHost::navigate issues the load after it has let Servo run.
Navigate ==
  /\ step = "navigating"
  /\ alive
  /\ step' = "handled"
  /\ Becomes(inFlight.tab, Loads(pages[inFlight.tab], UrlOf[inFlight.view]))
  /\ UNCHANGED vars

\* Servo runs.
Tick(t) ==
  /\ step # "idle"
  /\ alive
  /\ pages[t].open
  /\ Commits(t) \/ Abandons(t) \/ Strays(t)
  /\ UNCHANGED <<vars, step>>

\* LiveFrameReport: the address of the page as it is now, and whether it is complete.  A page
\* that may have strayed can be at any address: it is not told apart.
Report(p) ==
  [page : {IF p.strayed THEN Unknown ELSE p.page},
   finished : IF p.awaiting THEN {FALSE} ELSE BOOLEAN]

\* A session without a page that could be painted, or none at all, has no frame.
Answered ==
  /\ step = "handled"
  /\ responses' # responses =>
       pages[inFlight.tab].open /\ Last(responses').shot \in Report(pages[inFlight.tab])
  /\ step' = "idle"
  /\ UNCHANGED pages

\* What an error leaves of the session: what the call has made of it so far, or a new one
\* that has not been asked for anything; or nothing, where the address of the page is too
\* long (retire_oversized_loaded_url_session) or where it has been closed all the same.
Leftovers(p) ==
  IF inFlight.kind \in {"poll", "reload", "close"} THEN {p, Gone} ELSE {p, Opened(p), Gone}

Broken ==
  /\ step' = "idle"
  /\ \E p \in Leftovers(pages[inFlight.tab]) :
       /\ Becomes(inFlight.tab, p)
       /\ inFlight.kind = "reload" \/ asked'[inFlight.tab] # Unknown => UNCHANGED pages

\* The sidecar has no part in the other steps.
Apart ==
  \/ Shell
  \/ Start \/ StartFails \/ Wait \/ Leave
  \/ TakeClose \/ TakeReload \/ TakeRequest \/ Exit

PagesNext ==
  \/ Apart /\ UNCHANGED <<pages, step>>
  \/ Handle \/ Navigate
  \/ \E t \in Tabs : Tick(t)
  \/ CommandReturns /\ Answered
  \/ RequestReturns /\ Answered
  \/ CommandFails /\ Broken
  \/ RequestFails /\ Broken
  \/ RuntimeUnavailable /\ step' = "idle" /\ UNCHANGED pages

PagesSpec == PagesInit /\ [][PagesNext]_pagesVars

-----------------------------------------------------------------------------
(* Properties *)

\* The page is the one of an address, or its load is on the way, unless more has become
\* of it.
Shows(p, url) ==
  /\ p.open
  /\ p.requested = url
  /\ p.loading = {} => p.page = Normal[url] \/ p.strayed

\* When nothing of a tab is queued or in flight, the sidecar's session has been asked for
\* what the shell last wanted, and shows it or loads it; or it is gone if the shell closed
\* it; unless a call failed.  No merge, replacement or overtaking loses the last word, no
\* close strikes a session that was opened after it, and no navigation that the sidecar
\* skips as needless was needed.  Left out is the page that has gone elsewhere by itself,
\* whose load failed, or that was asked for while an earlier load was still under way:
\* that load may still replace it.
Converges ==
  \A t \in Tabs :
    /\ pending[t] = <<>> /\ ~Contains(closes, t) /\ inFlight.tab # t
    /\ thread \in {"starting", "fetch", "waiting", "calling"}
    => \/ asked[t] = Unknown
       \/ want[t] = NoView /\ pages[t] = Gone
       \/ HasSession(t) /\ Shows(pages[t], UrlOf[want[t]])

\* A frame the shell accepts comes from a session that has been asked for what the shell
\* last wanted; and if it says that its page is complete, then it is that page, unless
\* more can have become of it.  After a navigation in the address bar, or a close and a
\* reopening, the page before is never presented as finished, although the load takes its
\* time and the first frames may still be of the page before, and report its address.
FramesAreCurrent ==
  \A i \in DOMAIN responses :
    LET frame == responses[i]
    IN
    frame.kind = "frame" /\ Accepts(frame) =>
      \/ frame.view = Unknown
      \/ /\ frame.view = want[frame.tab]
         /\ frame.shot.finished => frame.shot.page \in {Normal[UrlOf[frame.view]], Unknown}
=============================================================================
