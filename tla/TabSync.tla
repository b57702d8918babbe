------------------------------ MODULE TabSync ------------------------------
(***************************************************************************)
(* The spaces and tabs of several machines of one account, which exchange   *)
(* them as snapshots, and what comes back of them when a machine starts     *)
(* again: both go through apply_sync_snapshot_body.                         *)
(*                                                                         *)
(* A machine is one BrowserCore under one standard profile; of the rest of  *)
(* it, SyncShell has the scheduling and BrowserState what is active where.  *)
(* Addresses are "pages"; titles, flags, sort keys and times, with which a  *)
(* record replaces those of a tab, are left out.  The lists of spaces and   *)
(* tabs are sets: a lookup of the first that matches finds any, and records *)
(* are applied in any order.                                                *)
(*                                                                         *)
(* MaxEdits bounds what the users change.                                   *)
(***************************************************************************)
EXTENDS Naturals, FiniteSets, Sequences, SequencesExt

CONSTANTS
  Machines,
  Tabs, Spaces,   \* ids, drawn when something is made
  Names, Work,    \* of spaces; Work is the name of the space a window starts with
  Pages, Home,    \* addresses; Home is where a new tab begins
  MaxEdits, Enough,
  None

ASSUME ConstantsAssumption ==
  /\ None \notin Machines \cup Tabs \cup Spaces \cup Names \cup Pages
  /\ Work \in Names /\ Home \in Pages
  /\ MaxEdits \in Nat /\ Enough \in Nat
  /\ IsFiniteSet(Tabs) /\ IsFiniteSet(Spaces)

VARIABLES
  core,     \* per machine, its BrowserCore
  head,     \* the account's snapshot at the service
  round,    \* per machine, its exchange with the service
  edits,    \* how often users have changed something
  sweeps,   \* history: how often every machine has completed a round since the last change
  seen      \* history: ... and the machines that have, of the next sweep

vars == <<core, head, round, edits, sweeps, seen>>

-----------------------------------------------------------------------------
\* spaces and tabs; a snapshot has both, and knows the name of the space of a tab.
Tab == [space : Spaces, page : Pages]

Document == [space : [Spaces -> Names \cup {None}], tab : [Tabs -> Tab \cup {None}]]

ASSUME NullAssumption == None \notin Tab /\ None \notin Document

Core == [space : [Spaces -> Names \cup {None}], tab : [Tabs -> Tab \cup {None}],
         active : Tabs, here : Spaces]

\* SyncSnapshotBody::from_core, local_body_from_core
Body(c) == [space |-> c.space, tab |-> c.tab]

\* "fetched" holds a snapshot to be merged, "merged" what is to be uploaded; both
\* know whether the head is still the one they started from.
Round == [at : {"fetched", "merged"}, body : Document, current : BOOLEAN]
NoRound == [at |-> "idle"]

LiveSpaces(c) == {s \in Spaces : c.space[s] # None}
Open(c) == {t \in Tabs : c.tab[t] # None}
OpenIn(c, s) == {t \in Open(c) : c.tab[t].space = s}

\* A window as it starts: BrowserCore::new
Started(s, t) ==
  [space |-> [r \in Spaces |-> IF r = s THEN Work ELSE None],
   tab |-> [u \in Tabs |-> IF u = t THEN [space |-> s, page |-> Home] ELSE None],
   active |-> t, here |-> s]

\* Ids that are nowhere: not with a machine, the service or an exchange.
Bodies == {core[m] : m \in Machines} \cup (IF head = None THEN {} ELSE {head})
          \cup {round[m].body : m \in {k \in Machines : round[k] # NoRound}}
FreshTabs == Tabs \ UNION {Open(b) : b \in Bodies}
FreshSpaces == Spaces \ UNION {LiveSpaces(b) : b \in Bodies}

\* One id is as good as another.
One(S) == IF S = {} THEN {} ELSE {CHOOSE x \in S : TRUE}

Init ==
  \E s \in One({f \in [Machines -> Spaces] : IsInjective(f)}),
     t \in One({f \in [Machines -> Tabs] : IsInjective(f)}) :
    /\ core = [m \in Machines |-> Started(s[m], t[m])]
    /\ head = None
    /\ round = [m \in Machines |-> NoRound]
    /\ edits = 0 /\ sweeps = 0 /\ seen = {}

-----------------------------------------------------------------------------
(* Records are applied to a core *)

\* apply_space_sync_record: the space with the id, or else one with the name, takes
\* the name; or there is a new one, of an id of its own.
SpaceApplied(c, s, name, fresh) ==
  LET same == IF c.space[s] # None THEN {s} ELSE {r \in Spaces : c.space[r] = name} IN
  {[c EXCEPT !.space[r] = name] : r \in IF same # {} THEN same ELSE One(fresh \ LiveSpaces(c))}

\* Mutant of SpaceFor: the name is not looked up.
SpaceById(c, s, name) == IF c.space[s] # None THEN {s} ELSE {c.here}

\* sync_space_id: the space with the id, one with the name, or the active one.
SpaceFor(c, s, name) ==
  LET named == {r \in Spaces : name # None /\ c.space[r] = name} IN
  IF c.space[s] # None THEN {s} ELSE IF named # {} THEN named ELSE {c.here}

\* Mutant of Put: a tab that is open stays as it is.
PutNew(c, t, tab) == IF c.tab[t] = None THEN [c EXCEPT !.tab[t] = tab] ELSE c

Put(c, t, tab) == [c EXCEPT !.tab[t] = tab]

\* apply_tab_sync_record: the tab with the id, or else one at the same page in the
\* same space, is replaced, or there is a new one.
TabApplied(c, t, name, tab) ==
  UNION {LET new == [space |-> s, page |-> tab.page]
             same == IF c.tab[t] # None THEN {t} ELSE {u \in Tabs : c.tab[u] = new} IN
         {Put(c, u, new) : u \in IF same # {} THEN same ELSE {t}} :
           s \in SpaceFor(c, tab.space, name)}

\* A body that is being applied to a core: the spaces and tabs that are still to come.
Begun(c, body) == [core |-> c, spaces |-> LiveSpaces(body), tabs |-> Open(body)]

\* A record is applied: of a space while there is one, then of a tab, in any order.
After(p, body, fresh) ==
  IF p.spaces # {}
    THEN UNION {{[p EXCEPT !.core = d, !.spaces = @ \ {s}] :
                   d \in SpaceApplied(p.core, s, body.space[s], fresh)} : s \in p.spaces}
    ELSE UNION {{[p EXCEPT !.core = d, !.tabs = @ \ {t}] :
                   d \in TabApplied(p.core, t, body.space[body.tab[t].space], body.tab[t])} :
                      t \in p.tabs}

Records(body) == Cardinality(LiveSpaces(body)) + Cardinality(Open(body))

\* apply_sync_snapshot_body
Applied(c, body, fresh) ==
  LET at[n \in 0..Records(body)] ==
        IF n = 0 THEN {Begun(c, body)} ELSE UNION {After(p, body, fresh) : p \in at[n - 1]}
  IN {p.core : p \in at[Records(body)]}

-----------------------------------------------------------------------------
(* What the user does at a machine *)

\* What there is to be exchanged is not what it was.
Changed == sweeps' = 0 /\ seen' = {}

\* The user is at it again.
Edits ==
  /\ edits < MaxEdits /\ edits' = edits + 1
  /\ Changed

Becomes(m, c) ==
  /\ core' = [core EXCEPT ![m] = c]
  /\ Edits
  /\ UNCHANGED <<head, round>>

Selected(c, t) == [c EXCEPT !.active = t, !.here = c.tab[t].space]
Added(c, t, s, page) == [c EXCEPT !.tab[t] = [space |-> s, page |-> page]]

\* open_tab
OpenTab(m, page) ==
  \E t \in One(FreshTabs) :
    Becomes(m, [Added(core[m], t, core[m].here, page) EXCEPT !.active = t])

\* update_tab_url, by the user or by the page
Navigate(m, t, page) ==
  /\ t \in Open(core[m]) /\ core[m].tab[t].page # page
  /\ Becomes(m, [core[m] EXCEPT !.tab[t].page = page])

\* select_tab: nothing is changed that is exchanged here.
SelectTab(m, t) ==
  /\ t \in Open(core[m])
  /\ core' = [core EXCEPT ![m] = Selected(@, t)]
  /\ UNCHANGED <<head, round, edits, sweeps, seen>>

\* close_tab: a space is not left without a tab.
CloseTab(m, t) ==
  LET c == [core[m] EXCEPT !.tab[t] = None]
      s == core[m].tab[t].space
      after == IF OpenIn(c, s) # {} THEN {<<c, n>> : n \in OpenIn(c, s)}
               ELSE {<<Added(c, n, s, Home), n>> : n \in One(FreshTabs)} IN
  /\ t \in Open(core[m])
  /\ \E a \in after : Becomes(m, IF core[m].active = t THEN Selected(a[1], a[2]) ELSE a[1])

\* move_active_tab_to_space
MoveToSpace(m, s) ==
  LET from == core[m].tab[core[m].active].space
      c == [core[m] EXCEPT !.tab[core[m].active].space = s, !.here = s] IN
  /\ core[m].active \in Open(core[m]) /\ s \in LiveSpaces(core[m]) /\ s # from
  /\ IF OpenIn(c, from) # {} THEN Becomes(m, c)
     ELSE \E n \in One(FreshTabs) : Becomes(m, Added(c, n, from, Home))

\* create_space: two may have the same name.
CreateSpace(m, name) ==
  \E s \in One(FreshSpaces), t \in One(FreshTabs) :
    Becomes(m, Selected(Added([core[m] EXCEPT !.space[s] = name], t, s, Home), t))

\* select_space: its tab that was active last, or a new one.
Entered(c, s) ==
  IF OpenIn(c, s) # {} THEN {Selected(c, t) : t \in OpenIn(c, s)}
                       ELSE {Selected(Added(c, t, s, Home), t) : t \in One(FreshTabs)}

\* To a space that came without a tab, which need not be an edit that counts;
\* otherwise it is as to select one of its tabs.
SelectSpace(m, s) ==
  /\ s \in LiveSpaces(core[m]) /\ OpenIn(core[m], s) = {}
  /\ \E c \in Entered(core[m], s) : core' = [core EXCEPT ![m] = c]
  /\ Changed
  /\ UNCHANGED <<head, round, edits>>

\* trash_space, with its tabs
TrashSpace(m, s) ==
  LET c == [core[m] EXCEPT !.space[s] = None,
                           !.tab = [t \in Tabs |-> IF t \in OpenIn(core[m], s) THEN None ELSE @[t]]]
      first == UNION {Entered(c, r) : r \in LiveSpaces(c)} IN
  /\ s \in LiveSpaces(core[m]) /\ Cardinality(LiveSpaces(core[m])) > 1
  /\ \E d \in IF core[m].here = s THEN first ELSE {c} : Becomes(m, d)

\* The window is closed, and opened again: what was saved at quitting is applied to a
\* window as it starts.
Restart(m) ==
  /\ Edits
  /\ round' = [round EXCEPT ![m] = NoRound]
  /\ UNCHANGED head
  /\ \E s \in One(FreshSpaces), t \in One(FreshTabs) :
       \E c \in Applied(Started(s, t), Body(core[m]), FreshSpaces \ {s}) :
         core' = [core EXCEPT ![m] = c]

-----------------------------------------------------------------------------
(* A machine's exchange with the service *)

Goes(m, r) == round' = [round EXCEPT ![m] = r]

\* sync_bytes: the first snapshot is uploaded as it is; one that differs from what the
\* machine has comes back.
Fetch(m) ==
  /\ round[m] = NoRound /\ head # Body(core[m])
  /\ Goes(m, IF head = None THEN [at |-> "merged", body |-> Body(core[m]), current |-> TRUE]
             ELSE [at |-> "fetched", body |-> head, current |-> TRUE])
  /\ UNCHANGED <<core, head, edits, sweeps, seen>>

\* apply_sync_snapshot_bytes, and the upload of the outcome that the shell starts then.
Merge(m) ==
  /\ round[m].at = "fetched"
  /\ UNCHANGED <<head, edits, sweeps, seen>>
  /\ \E c \in Applied(core[m], round[m].body, FreshSpaces) :
       /\ core' = [core EXCEPT ![m] = c]
       /\ Goes(m, [round[m] EXCEPT !.at = "merged", !.body = Body(c)])

\* Machine m has exchanged all that it has.
Completed(m) ==
  IF seen \cup {m} = Machines
    THEN seen' = {} /\ sweeps' = (IF sweeps = Enough THEN Enough ELSE sweeps + 1)
    ELSE seen' = seen \cup {m} /\ UNCHANGED sweeps

\* upload_payload: the head is replaced if it is the one that was merged, and comes
\* back otherwise.
Upload(m) ==
  /\ round[m].at = "merged"
  /\ IF round[m].current
       THEN /\ head' = round[m].body
            /\ round' = [k \in Machines |-> IF k = m \/ round[k] = NoRound THEN NoRound
                                           ELSE [round[k] EXCEPT !.current = FALSE]]
            /\ IF round[m].body = Body(core[m]) THEN Completed(m)
                                               ELSE UNCHANGED <<sweeps, seen>>
       ELSE /\ Goes(m, [at |-> "fetched", body |-> head, current |-> TRUE])
            /\ UNCHANGED <<head, sweeps, seen>>
  /\ UNCHANGED <<core, edits>>

\* The exchange fails, before or after the service has answered.
Fail(m) ==
  /\ round[m] # NoRound
  /\ Goes(m, NoRound)
  /\ UNCHANGED <<core, head, edits, sweeps, seen>>

Next ==
  \E m \in Machines :
    \/ \E t \in Tabs : SelectTab(m, t) \/ CloseTab(m, t)
    \/ \E page \in Pages : OpenTab(m, page) \/ \E t \in Tabs : Navigate(m, t, page)
    \/ \E s \in Spaces : MoveToSpace(m, s) \/ SelectSpace(m, s) \/ TrashSpace(m, s)
    \/ \E name \in Names : CreateSpace(m, name)
    \/ Restart(m) \/ Fetch(m) \/ Merge(m) \/ Upload(m) \/ Fail(m)

Spec == Init /\ [][Next]_vars

-----------------------------------------------------------------------------
(* Properties *)

\* Every variable has its type.
TypeOK ==
  /\ core \in [Machines -> Core]
  /\ head \in Document \cup {None}
  /\ round \in [Machines -> Round \cup {NoRound}]

\* The pages that are open, by the name of their space: what the user sees.
Shown(b) == {<<b.space[b.tab[t].space], b.tab[t].page>> : t \in Open(b)}

\* Two machines that exchange in turn, twice each and with no change between, show the
\* same: whatever ids they have given to the same space or page, and however their
\* exchanges overlap or fail, the snapshots do not send them round in circles.  (Once
\* each is not enough: a record may be taken for the tab that the next record moves.
\* Of three machines two may be kept from meeting by what the third makes of a snapshot.)
Agreement ==
  sweeps = Enough => \A m, k \in Machines : Shown(core[m]) = Shown(core[k])

\* What was open is open after a restart, in a space of the same name, although the
\* spaces get other ids and tabs are matched with those the window starts with.
RestartKeepsPages ==
  [][\A m \in Machines : Restart(m) => Shown(core[m]) \subseteq Shown(core'[m])]_vars

=============================================================================
