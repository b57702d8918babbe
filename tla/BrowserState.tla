---------------------------- MODULE BrowserState ----------------------------
(***************************************************************************)
(* The tabs of one window: where each tab is, the spaces and profiles, the  *)
(* split views and groups, the archive and the trash, and what is active.   *)
(*                                                                         *)
(* BrowserCore is owned by the shell's thread, so a command is one step.    *)
(* The order of tabs and panes is left out: "the nearest tab of the space"  *)
(* is any open tab of it.  So are titles, addresses, colours, flags and     *)
(* times; a tab is idle, or named by a search, whenever it may be.          *)
(* The tab each profile was last at within a space is left out too: going   *)
(* to a profile leads to any open tab of it.                                *)
(*                                                                         *)
(* The operators below take a core to the core after, or to the set of      *)
(* those that may come after: commands call one another.                    *)
(***************************************************************************)
EXTENDS Naturals, FiniteSets

CONSTANTS
  Tabs, Spaces, Profiles, Splits, Groups,   \* ids, drawn when something is made
  Private,       \* the profiles of kind Private
  MaxPanes,      \* MAX_SPLIT_PANES
  None

ASSUME ConstantsAssumption ==
  /\ None \notin Tabs \cup Spaces \cup Profiles \cup Splits \cup Groups
  /\ Private \subseteq Profiles
  /\ IsFiniteSet(Tabs)
  /\ MaxPanes \in Nat \ {0, 1}

VARIABLE core

-----------------------------------------------------------------------------
\* tabs, archived_tabs, and the two lists in every TrashedSpace: a tab is in one
\* of them, or in none before it is made and after its space is purged.
TabPlaces == {"nowhere", "open", "archived", "trash", "trashArchive"}

Tab == [at : TabPlaces, space : Spaces \cup {None}, profile : Profiles \cup {None},
        split : Splits \cup {None}, group : Groups \cup {None}]
NoTab == [at |-> "nowhere", space |-> None, profile |-> None, split |-> None, group |-> None]

\* spaces and trashed_spaces, with the default profile and active_tabs_by_space.
Space == [at : {"nowhere", "live", "trash"}, home : Profiles \cup {None}, last : Tabs \cup {None}]
NoSpace == [at |-> "nowhere", home |-> None, last |-> None]

\* split_layouts and archived_split_layouts.
Layout == [at : {"nowhere", "open", "archived"}, panes : SUBSET Tabs, saved : BOOLEAN]
NoLayout == [at |-> "nowhere", panes |-> {}, saved |-> FALSE]

\* Where the user is.
Active == [tab : Tabs, space : Spaces, profile : Profiles]

Core == [tab : [Tabs -> Tab], space : [Spaces -> Space], profiles : SUBSET Profiles,
         layout : [Splits -> Layout], group : [Groups -> Spaces \cup {None}], active : Active]

\* A tab as build_tab_for makes it.
NewTab(s, p) == [at |-> "open", space |-> s, profile |-> p, split |-> None, group |-> None]

Init ==
  \E t \in Tabs, s \in Spaces, p \in Profiles \ Private :
    core = [tab |-> [u \in Tabs |-> IF u = t THEN NewTab(s, p) ELSE NoTab],
            space |-> [r \in Spaces |-> IF r = s THEN [at |-> "live", home |-> p, last |-> t]
                                        ELSE NoSpace],
            profiles |-> {p},
            layout |-> [x \in Splits |-> NoLayout],
            group |-> [g \in Groups |-> None],
            active |-> [tab |-> t, space |-> s, profile |-> p]]

-----------------------------------------------------------------------------
(* What a command finds *)

Open(c) == {t \in Tabs : c.tab[t].at = "open"}
OpenIn(c, s) == {t \in Open(c) : c.tab[t].space = s}
Archived(c) == {t \in Tabs : c.tab[t].at = "archived"}
Live(c) == {s \in Spaces : c.space[s].at = "live"}
ActiveTab(c) == c.tab[c.active.tab]

\* Ids that nothing has or remembers.
FreshTabs(c) ==
  {t \in Tabs : c.tab[t].at = "nowhere" /\ \A x \in Splits : t \notin c.layout[x].panes}
FreshSplits(c) == {x \in Splits : c.layout[x].at = "nowhere" /\ \A t \in Tabs : c.tab[t].split # x}
FreshGroups(c) == {g \in Groups : c.group[g] = None /\ \A t \in Tabs : c.tab[t].group # g}

\* The saved split views that have one of the tabs.
SavedSplits(c, ts) ==
  {x \in Splits : c.layout[x].at = "open" /\ c.layout[x].saved /\ \E t \in ts : c.tab[t].split = x}
Panes(c, xs) == UNION {c.layout[x].panes : x \in xs}

-----------------------------------------------------------------------------
(* What commands are made of *)

Selected(c, t) ==
  LET s == c.tab[t].space IN
  [c EXCEPT !.active = [tab |-> t, space |-> s, profile |-> c.tab[t].profile],
            !.space[s].last = t]

Added(c, t, tab) == [c EXCEPT !.tab[t] = tab]

\* The tabs leave the split views they are panes of; a view left with one is dissolved.
Detached(c, ts) ==
  LET left(x) == c.layout[x].panes \ ts
      dissolved == {x \in Splits : c.layout[x].at = "open" /\ Cardinality(left(x)) <= 1} IN
  [c EXCEPT
    !.layout = [x \in Splits |-> IF x \in dissolved THEN NoLayout
                                 ELSE IF c.layout[x].at = "open"
                                   THEN [c.layout[x] EXCEPT !.panes = left(x)]
                                   ELSE c.layout[x]],
    !.tab = [t \in Tabs |->
              IF c.tab[t].at = "open" /\ (t \in ts \/ c.tab[t].split \in dissolved)
                THEN [c.tab[t] EXCEPT !.split = None] ELSE c.tab[t]]]

\* The open tabs go to the archive, each saved split view as a whole; the others
\* leave the split view they are in.
Put(c, ts) ==
  LET views == SavedSplits(c, ts)
      loose == ts \ Panes(c, views)
      d == Detached(c, loose) IN
  [d EXCEPT
    !.tab = [t \in Tabs |-> IF t \in loose \cup Panes(c, views)
                              THEN [d.tab[t] EXCEPT !.at = "archived"] ELSE d.tab[t]],
    !.layout = [x \in Splits |-> IF x \in views THEN [c.layout[x] EXCEPT !.at = "archived"]
                                 ELSE d.layout[x]]]

\* Mutant of Settled: the space's last tab is looked after, and not the active one.
SettledSpace(c, s, n) ==
  IF c.space[s].last \notin Open(c) THEN [c EXCEPT !.space[s].last = n] ELSE c

\* After tabs of a space have left: the nearest one takes the place of the active
\* one, and of the space's last one.
Settled(c, s, n) ==
  IF c.active.tab \notin Open(c) THEN Selected(c, n)
  ELSE IF c.space[s].last \notin Open(c) THEN [c EXCEPT !.space[s].last = n]
  ELSE c

\* The closing of tabs of one space; a new tab is made when no other is left in it.
Closed(c, ts, s) ==
  LET d == Put(c, ts) IN
  IF OpenIn(d, s) # {}
    THEN {Settled(d, s, n) : n \in OpenIn(d, s)}
    ELSE {Settled(Added(d, t, NewTab(s, c.tab[u].profile)), s, t) :
            t \in FreshTabs(d), u \in ts \cup Panes(c, SavedSplits(c, ts))}

\* select_space: back to the tab it was left at, or to any, or to a new one.
SpaceSelected(c, s) ==
  IF c.space[s].last \in OpenIn(c, s) THEN {Selected(c, c.space[s].last)}
  ELSE IF OpenIn(c, s) # {} THEN {Selected(c, t) : t \in OpenIn(c, s)}
  ELSE {Selected(Added(c, t, NewTab(s, c.space[s].home)), t) : t \in FreshTabs(c)}

\* select_profile, within the active space.
ProfileSelected(c, p) ==
  LET s == c.active.space
      there == {t \in OpenIn(c, s) : c.tab[t].profile = p} IN
  IF there # {} THEN {Selected(c, t) : t \in there}
  ELSE {Selected(Added(c, t, NewTab(s, p)), t) : t \in FreshTabs(c)}

-----------------------------------------------------------------------------
(* Tabs *)

\* open_tab; a new tab in the active space, under the active profile.
OpenTab(t) ==
  /\ t \in FreshTabs(core)
  /\ core' = LET d == Added(core, t, NewTab(core.active.space, core.active.profile)) IN
             [d EXCEPT !.active.tab = t, !.space[core.active.space].last = t]

\* select_tab; also what waking, recovering and stepping through tabs come to.
SelectTab(t) ==
  /\ t \in Open(core)
  /\ core' = Selected(core, t)

\* Mutant of CloseTab: a pane of a saved split view is closed like any other tab.
ClosePane(t) ==
  LET unsaved == [core EXCEPT !.layout = [x \in Splits |-> [@[x] EXCEPT !.saved = FALSE]]] IN
  /\ t \in Open(core)
  /\ core' \in Closed(unsaved, {t}, core.tab[t].space)

\* close_tab and close_active_tab
CloseTab(t) ==
  /\ t \in Open(core)
  /\ core' \in Closed(core, {t}, core.tab[t].space)

\* Mutant of MoveToSpace: the tab takes its group along.
MoveWithGroup(s) ==
  LET t == core.active.tab
      from == core.active.space
      d == [Detached(core, {t}) EXCEPT !.tab[t].space = s] IN
  /\ s \in Live(core) /\ s # from
  /\ \E n \in OpenIn(d, from) : core' = Selected([d EXCEPT !.space[from].last = n], t)

\* move_active_tab_to_space
MoveToSpace(s) ==
  LET t == core.active.tab
      from == core.active.space
      d == [Detached(core, {t}) EXCEPT !.tab[t].space = s, !.tab[t].group = None] IN
  /\ s \in Live(core) /\ s # from
  /\ IF OpenIn(d, from) # {}
       THEN \E n \in OpenIn(d, from) : core' = Selected([d EXCEPT !.space[from].last = n], t)
       ELSE \E n \in FreshTabs(d) :
              core' = Selected([Added(d, n, NewTab(from, core.active.profile))
                                  EXCEPT !.space[from].last = n], t)

\* archive_idle_tabs: only of the active space, and no pane of a split view.
ArchiveIdle(ts) ==
  /\ ts \subseteq {t \in OpenIn(core, core.active.space) :
                    t # core.active.tab /\ core.tab[t].split = None}
  /\ ts # {}
  /\ core' = [core EXCEPT !.tab = [t \in Tabs |-> IF t \in ts THEN [@[t] EXCEPT !.at = "archived"]
                                                  ELSE @[t]]]

\* restore_archived_tab_at_index: a tab closed with its saved split view brings
\* back the whole of it.
Restore(t) ==
  LET x == core.tab[t].split
      whole == x # None /\ core.layout[x].at = "archived"
      back == IF whole THEN core.layout[x].panes ELSE {t}
      opened == [core EXCEPT !.tab = [u \in Tabs |-> IF u \in back THEN [@[u] EXCEPT !.at = "open"]
                                                     ELSE @[u]]] IN
  /\ t \in Archived(core) /\ back \subseteq Archived(core)
  /\ core' = Selected(IF whole THEN [opened EXCEPT !.layout[x].at = "open"] ELSE opened, t)

-----------------------------------------------------------------------------
(* Split views *)

\* The layout of the active tab's split view, when it has one.
InSplit == ActiveTab(core).split # None /\ core.layout[ActiveTab(core).split].at = "open"

\* save_active_split_view
SaveSplit ==
  /\ InSplit
  /\ core' = [core EXCEPT !.layout[ActiveTab(core).split].saved = TRUE]

\* detach_active_split_pane
DetachPane ==
  /\ InSplit
  /\ core' = Detached(core, {core.active.tab})

\* A tab joins a split view as a new pane.
Joined(c, x, t, tab) ==
  [Added(c, t, [tab EXCEPT !.split = x]) EXCEPT !.layout[x].panes = @ \cup {t}]

\* duplicate_active_split_pane
DuplicatePane(t) ==
  LET x == ActiveTab(core).split IN
  /\ InSplit /\ t \in FreshTabs(core)
  /\ core.active.tab \in core.layout[x].panes
  /\ Cardinality(core.layout[x].panes) < MaxPanes
  /\ core' = Selected(Joined(core, x, t, NewTab(core.active.space, core.active.profile)), t)

\* Mutant of ForNewPane: a full split view is left without telling its layout.
ForNewPaneForgotten(x) ==
  [core EXCEPT !.tab[core.active.tab].split = x,
               !.layout[x] = [at |-> "open", panes |-> {core.active.tab}, saved |-> FALSE]]

\* split_id_for_new_pane: out of a full split view, into one of its own.
ForNewPane(x) ==
  [Detached(core, {core.active.tab}) EXCEPT
    !.tab[core.active.tab].split = x,
    !.layout[x] = [at |-> "open", panes |-> {core.active.tab}, saved |-> FALSE]]

\* split_active_tab_right
SplitRight(x, t) ==
  LET room == InSplit /\ Cardinality(core.layout[ActiveTab(core).split].panes) < MaxPanes
      tab == NewTab(ActiveTab(core).space, ActiveTab(core).profile) IN
  /\ t \in FreshTabs(core)
  /\ IF room
       THEN /\ x = ActiveTab(core).split
            /\ core' = Selected(Joined(core, x, t, tab), t)
       ELSE /\ x \in FreshSplits(core)
            /\ core' = Selected(Joined(ForNewPane(x), x, t, tab), t)

-----------------------------------------------------------------------------
(* Groups *)

\* find_or_create_active_space_tab_group: the group of that name, or a new one.
GroupsHere == {g \in Groups : core.group[g] = core.active.space}

\* The group of the active tab, unless it has gone meanwhile.
InGroup == ActiveTab(core).group # None /\ core.group[ActiveTab(core).group] # None
GroupTabs(g) == {t \in OpenIn(core, core.active.space) : core.tab[t].group = g}

\* The open tabs get the group, or none.
Grouped(c, ts, g) ==
  [c EXCEPT !.tab = [t \in Tabs |-> IF t \in ts THEN [@[t] EXCEPT !.group = g] ELSE @[t]]]

\* group_active_tab
GroupActive(g) ==
  /\ g \in GroupsHere \cup FreshGroups(core)
  /\ core' = Grouped([core EXCEPT !.group[g] = core.active.space], {core.active.tab}, g)

\* auto_group_active_space_tabs_by_domain: the tabs of a domain, two at least, get
\* the group of its name.  A group holds one domain's tabs here.
AutoGroup(g, ts) ==
  /\ g \in GroupsHere \cup FreshGroups(core)
  /\ ts \subseteq {t \in OpenIn(core, core.active.space) :
                    core.tab[t].group = None /\ core.tab[t].split = None}
  /\ Cardinality(ts) >= 2
  /\ core' = Grouped([core EXCEPT !.group[g] = core.active.space], ts, g)

\* ungroup_active_tab
Ungroup ==
  /\ InGroup
  /\ core' = Grouped(core, {core.active.tab}, None)

\* close_active_tab_group closes its tabs one after the other, and stops at one that
\* an earlier one has taken along, as a pane of the same saved split view.
CloseGroup(closed) ==
  LET g == ActiveTab(core).group
      together(t, u) == core.tab[t].split # None /\ core.tab[t].split = core.tab[u].split
                          /\ SavedSplits(core, {t}) # {}
      d == [Grouped(core, GroupTabs(g), None) EXCEPT !.group[g] = None] IN
  /\ InGroup
  /\ closed \subseteq GroupTabs(g) /\ closed # {}
  /\ \A t, u \in closed : t # u => ~together(t, u)
  /\ closed # GroupTabs(g) => \E t \in closed, u \in GroupTabs(g) \ closed : together(t, u)
  /\ core' \in Closed(d, closed, core.active.space)

\* split_active_tab_group
SplitGroup(x) ==
  LET g == ActiveTab(core).group
      ts == GroupTabs(g)
      d == Grouped(Detached(core, ts), ts, None) IN
  /\ InGroup /\ x \in FreshSplits(core)
  /\ Cardinality(ts) \in 2..MaxPanes
  /\ core' = [d EXCEPT !.tab = [t \in Tabs |-> IF t \in ts THEN [@[t] EXCEPT !.split = x] ELSE @[t]],
                       !.group[g] = None,
                       !.layout[x] = [at |-> "open", panes |-> ts, saved |-> FALSE]]

\* group_active_split_view
GroupSplit(g) ==
  LET x == ActiveTab(core).split
      ts == core.layout[x].panes IN
  /\ InSplit /\ g \in FreshGroups(core)
  /\ \A t \in ts : t \in OpenIn(core, core.active.space)
  /\ core' = [Grouped(core, ts, g) EXCEPT
                !.tab = [t \in Tabs |-> IF t \in ts THEN [@[t] EXCEPT !.split = None] ELSE @[t]],
                !.group[g] = core.active.space,
                !.layout[x] = NoLayout]

-----------------------------------------------------------------------------
(* Spaces and profiles *)

\* create_space
CreateSpace(s, t) ==
  LET home == IF core.active.profile \in Private THEN core.space[core.active.space].home
              ELSE core.active.profile IN
  /\ core.space[s].at = "nowhere" /\ t \in FreshTabs(core)
  /\ core' = Selected([Added(core, t, NewTab(s, home)) EXCEPT
                         !.space[s] = [at |-> "live", home |-> home, last |-> t]], t)

\* select_space, and select_next_space and select_previous_space, which come to it.
SelectSpace(s) ==
  /\ s \in Live(core)
  /\ core' \in SpaceSelected(core, s)

\* A space's tabs, and its archived tabs, go from one pair of lists to the other.
Carried(c, s, open, archive, toOpen, toArchive) ==
  [c EXCEPT !.tab = [t \in Tabs |->
     IF @[t].space # s THEN @[t]
     ELSE IF @[t].at = open THEN [@[t] EXCEPT !.at = toOpen]
     ELSE IF @[t].at = archive THEN [@[t] EXCEPT !.at = toArchive]
     ELSE @[t]]]

\* trash_space: never the last one.
TrashSpace(s) ==
  LET d == [Carried(core, s, "open", "archived", "trash", "trashArchive") EXCEPT
              !.space[s].at = "trash", !.space[s].last = None] IN
  /\ s \in Live(core) /\ Cardinality(Live(core)) > 1
  /\ IF core.active.space = s
       THEN \E r \in Live(d) : core' \in SpaceSelected(d, r)
       ELSE core' = d

\* restore_trashed_space
RestoreSpace(s) ==
  /\ core.space[s].at = "trash"
  /\ core' \in SpaceSelected([Carried(core, s, "trash", "trashArchive", "open", "archived")
                                EXCEPT !.space[s].at = "live"], s)

\* purge_expired_trashed_spaces; layouts and groups of the space are left behind.
PurgeSpaces(ss) ==
  /\ ss # {} /\ \A s \in ss : core.space[s].at = "trash"
  /\ core' = [core EXCEPT
                !.space = [s \in Spaces |-> IF s \in ss THEN NoSpace ELSE @[s]],
                !.tab = [t \in Tabs |-> IF @[t].space \in ss /\ @[t].at \in {"trash", "trashArchive"}
                                          THEN NoTab ELSE @[t]]]

\* create_profile
CreateProfile(p) ==
  /\ p \notin core.profiles
  /\ core' \in ProfileSelected([core EXCEPT !.profiles = @ \cup {p}], p)

\* select_profile
SelectProfile(p) ==
  /\ p \in core.profiles
  /\ core' \in ProfileSelected(core, p)

\* set_space_default_profile
SetHome(s, p) ==
  /\ s \in Live(core) /\ p \in core.profiles \ Private
  /\ core' = [core EXCEPT !.space[s].home = p]

Next ==
  \/ \E t \in Tabs : OpenTab(t) \/ SelectTab(t) \/ CloseTab(t) \/ Restore(t) \/ DuplicatePane(t)
  \/ \E ts \in SUBSET Tabs : ArchiveIdle(ts) \/ CloseGroup(ts)
  \/ \E x \in Splits : SplitGroup(x) \/ \E t \in Tabs : SplitRight(x, t)
  \/ SaveSplit \/ DetachPane \/ Ungroup
  \/ \E g \in Groups : GroupActive(g) \/ GroupSplit(g)
  \/ \E g \in Groups, ts \in SUBSET Tabs : AutoGroup(g, ts)
  \/ \E s \in Spaces : MoveToSpace(s) \/ SelectSpace(s) \/ TrashSpace(s) \/ RestoreSpace(s)
  \/ \E s \in Spaces, t \in Tabs : CreateSpace(s, t)
  \/ \E ss \in SUBSET Spaces : PurgeSpaces(ss)
  \/ \E p \in Profiles : CreateProfile(p) \/ SelectProfile(p)
  \/ \E s \in Spaces, p \in Profiles : SetHome(s, p)

Spec == Init /\ [][Next]_core

-----------------------------------------------------------------------------
(* Properties *)

\* Every part of the core has its type.
TypeOK == core \in Core

\* The window always has an active tab, open, in the active space and of the active
\* profile, and the active space is not in the trash.
ActiveTabIsOpen ==
  /\ core.active.tab \in Open(core)
  /\ core.active.space \in Live(core)
  /\ ActiveTab(core).space = core.active.space
  /\ ActiveTab(core).profile = core.active.profile

\* Every live space has the open tab it was left at; that of the active space is the
\* active tab.
SpacesRemember ==
  /\ \A s \in Live(core) : core.space[s].last \in OpenIn(core, s)
  /\ core.space[core.active.space].last = core.active.tab

\* Whatever has been closed, moved, archived or trashed, in this space or in another,
\* active_tab finds a tab, and going to a space is going back to the tab it was left at,
\* never to another or to a new one.
ActiveIsOpen == ActiveTabIsOpen /\ SpacesRemember

\* The tabs that say they are panes of an open split view are its panes; they are two
\* at least, of one space, and all open or all in the trash.
OpenSplitsAreWhole ==
  /\ \A t \in Tabs : core.tab[t].at \in {"open", "trash"} /\ core.tab[t].split # None =>
       LET y == core.layout[core.tab[t].split] IN y.at = "open" /\ t \in y.panes
  /\ \A x \in Splits : core.layout[x].at = "open" =>
       /\ Cardinality(core.layout[x].panes) \in 2..MaxPanes
       /\ \A t, u \in core.layout[x].panes :
            /\ core.tab[t].at \in {"open", "trash", "nowhere"}
            /\ core.tab[t].at = core.tab[u].at /\ core.tab[t].space = core.tab[u].space
       /\ \A t \in core.layout[x].panes : core.tab[t].at # "nowhere" => core.tab[t].split = x

\* The panes of a saved split view that was closed are all in the archive, or all in
\* the trash with their space, and no archived tab points to another one.
ClosedSplitsAreWhole ==
  /\ \A t \in Tabs : core.tab[t].at \in {"archived", "trashArchive"} /\ core.tab[t].split # None =>
       LET y == core.layout[core.tab[t].split] IN y.at = "archived" /\ t \in y.panes
  /\ \A x \in Splits : core.layout[x].at = "archived" =>
       \A t, u \in core.layout[x].panes :
         /\ core.tab[t].at \in {"archived", "trashArchive", "nowhere"}
         /\ core.tab[t].at = core.tab[u].at /\ core.tab[t].space = core.tab[u].space

\* The two records of a split view, the tabs' and the layout's, agree wherever its panes
\* are: no open pane is without its view, and a closed view can be restored.
SplitsMatchTabs == OpenSplitsAreWhole /\ ClosedSplitsAreWhole

\* The tabs of a group are in the group's space, the archived ones too.
GroupsKeepToTheirSpace ==
  \A t \in Tabs : LET g == core.tab[t].group IN
    g # None /\ core.group[g] # None => core.group[g] = core.tab[t].space

\* A saved split view is closed as a whole and comes back as a whole, whichever command
\* closes or restores one of its panes.
SavedSplitsStayTogether ==
  [][\A x \in Splits : LET ts == core.layout[x].panes IN
       /\ (\E t \in ts : t \in Open(core) /\ core.layout[x].saved /\ core'.tab[t].at = "archived")
            => \A t \in ts : core'.tab[t].at = "archived"
       /\ (core.layout[x].at = "archived" /\ \E t \in ts : t \in Archived(core) /\ t \in Open(core'))
            => ts \subseteq Open(core')]_core

=============================================================================
