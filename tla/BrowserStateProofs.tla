------------------------- MODULE BrowserStateProofs -------------------------
(***************************************************************************)
(* The properties of BrowserState, for any number of tabs, spaces,          *)
(* profiles, split views and groups.                                       *)
(*                                                                         *)
(* The invariant has two parts: that a core is sound, which every part of a *)
(* command keeps, and that what is active is open, which only the whole     *)
(* command does.                                                           *)
(***************************************************************************)
EXTENDS BrowserState, FiniteSetTheorems, TLAPS

\* A tab that is nowhere is blank; one that is open or archived is of a live space, and
\* one in the trash of a space in the trash.  Spaces and tabs have profiles.
Placed(c) ==
  /\ \A t \in Tabs :
       /\ c.tab[t].at = "nowhere" => c.tab[t] = NoTab
       /\ c.tab[t].at # "nowhere" => c.tab[t].profile \in Profiles /\ c.tab[t].space \in Spaces
       /\ c.tab[t].at \in {"open", "archived"} => c.space[c.tab[t].space].at = "live"
       /\ c.tab[t].at \in {"trash", "trashArchive"} => c.space[c.tab[t].space].at = "trash"
  /\ \A s \in Spaces : c.space[s].at # "nowhere" => c.space[s].home \in Profiles

\* Where the layout of a tab's split view is.
Side(at) == IF at \in {"open", "trash"} THEN "open" ELSE "archived"

\* A tab that has a split view is a pane of it.
TabsArePanes(c) ==
  \A t \in Tabs : c.tab[t].at # "nowhere" /\ c.tab[t].split # None =>
    /\ t \in c.layout[c.tab[t].split].panes
    /\ c.layout[c.tab[t].split].at = Side(c.tab[t].at)

\* The panes of a split view have it, and are in one place of one space.
PanesAreTogether(c) ==
  \A x \in Splits : \A t \in c.layout[x].panes :
    /\ c.tab[t].at # "nowhere" => c.tab[t].split = x
    /\ \A u \in c.layout[x].panes : c.tab[u].at = c.tab[t].at /\ c.tab[u].space = c.tab[t].space

\* A split view has at least two panes, and one that is gone has none.
ViewsHaveSizes(c) ==
  \A x \in Splits :
    /\ c.layout[x].at # "nowhere" => Cardinality(c.layout[x].panes) \in 2..MaxPanes
    /\ c.layout[x].at = "nowhere" => c.layout[x].panes = {}

\* The tabs of a group are in the group's space.
GroupsKeep(c) ==
  \A t \in Tabs : LET g == c.tab[t].group IN
    g # None /\ c.group[g] # None => c.group[g] = c.tab[t].space

Sound(c) ==
  c \in Core /\ Placed(c) /\ TabsArePanes(c) /\ PanesAreTogether(c) /\ ViewsHaveSizes(c) /\ GroupsKeep(c)

-----------------------------------------------------------------------------
(* Tabs leave their split views *)

\* The panes that stay in a split view.
LEMMA PanesThatStay ==
  ASSUME NEW c, Sound(c), NEW ts \in SUBSET Open(c), NEW x \in Splits
  PROVE  /\ IsFiniteSet(c.layout[x].panes)
         /\ c.layout[x].panes \subseteq Tabs
         /\ Cardinality(c.layout[x].panes \ ts) \in Nat
         /\ Cardinality(c.layout[x].panes \ ts) <= Cardinality(c.layout[x].panes)
         /\ c.layout[x].panes \cap ts = {} => c.layout[x].panes \ ts = c.layout[x].panes
<1>1. c.layout[x].panes \subseteq Tabs
  BY DEF Sound, Core, Layout
<1>2. IsFiniteSet(c.layout[x].panes)
  BY <1>1, ConstantsAssumption, FS_Subset
<1>3. IsFiniteSet(c.layout[x].panes \ ts) /\ c.layout[x].panes \ ts \subseteq c.layout[x].panes
  BY <1>2, FS_Subset
<1>. QED BY <1>1, <1>2, <1>3, FS_CardinalityType, FS_Subset


\* The split views that are left with one pane.
Dissolved(c, ts) ==
  {x \in Splits : c.layout[x].at = "open" /\ Cardinality(c.layout[x].panes \ ts) <= 1}

\* The same without those tabs.
DetachedLayout(c, ts, x) ==
  IF x \in Dissolved(c, ts) THEN NoLayout
  ELSE IF c.layout[x].at = "open" THEN [c.layout[x] EXCEPT !.panes = @ \ ts]
  ELSE c.layout[x]

\* Only open tabs leave their split view.
DetachedTab(c, ts, t) ==
  IF c.tab[t].at = "open" /\ (t \in ts \/ c.tab[t].split \in Dissolved(c, ts))
    THEN [c.tab[t] EXCEPT !.split = None] ELSE c.tab[t]

LEMMA NoLayoutParts == NoLayout.at = "nowhere" /\ NoLayout.panes = {} /\ NoLayout.saved = FALSE
  BY DEF NoLayout

\* What becomes of a layout, field by field.
LEMMA DetachedLayoutParts ==
  ASSUME NEW c \in Core, NEW ts, NEW x \in Splits
  PROVE  \/ /\ x \in Dissolved(c, ts) /\ DetachedLayout(c, ts, x).at = "nowhere"
            /\ DetachedLayout(c, ts, x).panes = {}
         \/ /\ x \notin Dissolved(c, ts) /\ c.layout[x].at = "open"
            /\ DetachedLayout(c, ts, x).at = "open"
            /\ DetachedLayout(c, ts, x).panes = c.layout[x].panes \ ts
         \/ /\ x \notin Dissolved(c, ts) /\ c.layout[x].at # "open"
            /\ DetachedLayout(c, ts, x) = c.layout[x]
<1>1. c.layout[x] \in Layout
  BY DEF Core
<1>2. CASE x \in Dissolved(c, ts)
  BY <1>2, NoLayoutParts DEF DetachedLayout
<1>3. CASE x \notin Dissolved(c, ts)
  BY <1>1, <1>3 DEF DetachedLayout, Layout
<1>. QED BY <1>2, <1>3

\* What Detached does to each tab and layout.
LEMMA DetachedParts ==
  ASSUME NEW c \in Core, NEW ts \in SUBSET Open(c)
  PROVE  LET d == Detached(c, ts) IN
         /\ d \in Core
         /\ d.space = c.space /\ d.profiles = c.profiles /\ d.group = c.group /\ d.active = c.active
         /\ \A x \in Splits : d.layout[x] = DetachedLayout(c, ts, x)
         /\ \A t \in Tabs : d.tab[t] = DetachedTab(c, ts, t)
<1>. DEFINE layout == [x \in Splits |-> DetachedLayout(c, ts, x)]
            tab == [t \in Tabs |-> DetachedTab(c, ts, t)]
<1>1. Detached(c, ts) = [c EXCEPT !.layout = layout, !.tab = tab]
  BY DEF Core, Detached, DetachedLayout, DetachedTab, Dissolved
<1>2. layout \in [Splits -> Layout]
  BY DEF Core, Layout, NoLayout, DetachedLayout
<1>3. tab \in [Tabs -> Tab]
  BY DEF Core, Tab, DetachedTab
<1>. HIDE DEF layout, tab
<1>4. [c EXCEPT !.layout = layout, !.tab = tab] \in Core
  BY <1>2, <1>3 DEF Core
<1>5. LET d == [c EXCEPT !.layout = layout, !.tab = tab] IN
      /\ d.space = c.space /\ d.profiles = c.profiles /\ d.group = c.group /\ d.active = c.active
      /\ d.layout = layout /\ d.tab = tab
  BY DEF Core
<1>. QED BY <1>1, <1>4, <1>5 DEF layout, tab

\* Their other fields stay, and a split view that is dissolved is of open tabs.
LEMMA DetachedFields ==
  ASSUME NEW c, Sound(c), NEW ts \in SUBSET Open(c)
  PROVE  LET d == Detached(c, ts) IN
         /\ \A t \in Tabs :
              /\ d.tab[t].at = c.tab[t].at /\ d.tab[t].space = c.tab[t].space
              /\ d.tab[t].profile = c.tab[t].profile /\ d.tab[t].group = c.tab[t].group
              /\ d.tab[t].split \in {c.tab[t].split, None}
              /\ t \in ts => d.tab[t].split = None
         /\ \A x \in Splits :
              /\ d.layout[x].panes \subseteq c.layout[x].panes
              /\ d.layout[x].panes \cap ts = {}
              /\ x \in Dissolved(c, ts) => c.layout[x].panes \subseteq Open(c)
<1>. DEFINE d == Detached(c, ts)
<1>1. c \in Core /\ ts \subseteq Open(c)
  BY DEF Sound
<1>2. \A t \in Tabs : d.tab[t] = DetachedTab(c, ts, t)
  BY <1>1, DetachedParts
<1>3. \A x \in Splits : d.layout[x] = DetachedLayout(c, ts, x)
  BY <1>1, DetachedParts
<1>. HIDE DEF d
<1>4. ASSUME NEW t \in Tabs
      PROVE  /\ d.tab[t].at = c.tab[t].at /\ d.tab[t].space = c.tab[t].space
             /\ d.tab[t].profile = c.tab[t].profile /\ d.tab[t].group = c.tab[t].group
             /\ d.tab[t].split \in {c.tab[t].split, None}
             /\ t \in ts => d.tab[t].split = None
  BY ZenonT(30), <1>1, <1>2 DEF DetachedTab, Core, Tab, Open
<1>5. ASSUME NEW x \in Splits
      PROVE  /\ d.layout[x].panes \subseteq c.layout[x].panes
             /\ d.layout[x].panes \cap ts = {}
             /\ x \in Dissolved(c, ts) => c.layout[x].panes \subseteq Open(c)
  <2>1. c.layout[x] \in Layout
    BY <1>1 DEF Core
  <2>2. d.layout[x].panes \subseteq c.layout[x].panes
    BY <1>1, <1>3, DetachedLayoutParts
  <2>3. c.layout[x].at # "open" => c.layout[x].panes \cap ts = {}
    BY <1>1, <2>1, ConstantsAssumption
    DEF Sound, TabsArePanes, PanesAreTogether, Open, Side, Layout, Core, Tab
  <2>4. d.layout[x].panes \cap ts = {}
    BY <1>1, <1>3, <2>3, DetachedLayoutParts
  <2>5. ASSUME x \in Dissolved(c, ts)
        PROVE  c.layout[x].panes \subseteq Open(c)
    <3>1. c.layout[x].panes \cap ts # {}
      <4>1. Cardinality(c.layout[x].panes) \in 2..MaxPanes
        BY <2>5 DEF Dissolved, Sound, ViewsHaveSizes
      <4>2. Cardinality(c.layout[x].panes \ ts) <= 1
        BY <2>5 DEF Dissolved
      <4>3. c.layout[x].panes \cap ts = {} => c.layout[x].panes \ ts = c.layout[x].panes
        BY PanesThatStay
      <4>4. ~(Cardinality(c.layout[x].panes) <= 1)
        BY <4>1, ConstantsAssumption
      <4>. QED BY <4>2, <4>3, <4>4
    <3>. QED BY <1>1, <2>1, <3>1 DEF Sound, PanesAreTogether, Open, Layout
  <2>. QED BY <2>2, <2>4, <2>5
<1>. QED BY <1>4, <1>5 DEF d

LEMMA DetachedSound ==
  ASSUME NEW c, Sound(c), NEW ts \in SUBSET Open(c)
  PROVE  Sound(Detached(c, ts))
<1>. DEFINE d == Detached(c, ts)
<1>1. c \in Core /\ d \in Core /\ d.space = c.space /\ d.group = c.group
  BY DetachedParts DEF Sound
<1>2. \A t \in Tabs : d.tab[t] = DetachedTab(c, ts, t)
  BY <1>1, DetachedParts
<1>3. \A x \in Splits : d.layout[x] = DetachedLayout(c, ts, x)
  BY <1>1, DetachedParts
<1>4. \A t \in Tabs :
        /\ d.tab[t].at = c.tab[t].at /\ d.tab[t].space = c.tab[t].space
        /\ d.tab[t].profile = c.tab[t].profile /\ d.tab[t].group = c.tab[t].group
        /\ d.tab[t].split \in {c.tab[t].split, None}
        /\ t \in ts => d.tab[t].split = None
  BY DetachedFields
<1>5. \A x \in Splits :
        /\ d.layout[x].panes \subseteq c.layout[x].panes
        /\ d.layout[x].panes \cap ts = {}
        /\ x \in Dissolved(c, ts) => c.layout[x].panes \subseteq Open(c)
  BY DetachedFields
<1>. HIDE DEF d
<1>6. Placed(d)
  BY <1>1, <1>2, <1>4 DEF Sound, Placed, NoTab, DetachedTab
<1>7. TabsArePanes(d)
  <2>1. SUFFICES ASSUME NEW t \in Tabs, d.tab[t].at # "nowhere", d.tab[t].split # None
        PROVE  /\ t \in d.layout[d.tab[t].split].panes
               /\ d.layout[d.tab[t].split].at = Side(d.tab[t].at)
    BY DEF TabsArePanes
  <2>. DEFINE x == d.tab[t].split
  <2>2. c.tab[t].split = x /\ x \in Splits /\ c.tab[t].at = d.tab[t].at
    BY <1>1, <1>4, <2>1 DEF Core, Tab
  <2>3. t \in c.layout[x].panes /\ c.layout[x].at = Side(c.tab[t].at) /\ t \notin ts
    BY <1>4, <2>1, <2>2 DEF Sound, TabsArePanes
  <2>4. x \notin Dissolved(c, ts)
    <3>1. SUFFICES ASSUME x \in Dissolved(c, ts)
          PROVE  d.tab[t].split = None
      BY <2>1
    <3>2. c.tab[t].at = "open"
      BY <1>5, <2>2, <2>3, <3>1 DEF Open
    <3>. QED BY <1>1, <1>2, <2>2, <3>1, <3>2 DEF DetachedTab, Core, Tab
  <2>5. d.layout[x] = IF c.layout[x].at = "open" THEN [c.layout[x] EXCEPT !.panes = @ \ ts] ELSE c.layout[x]
    BY <1>3, <2>2, <2>4 DEF DetachedLayout
  <2>6. c.layout[x] \in Layout
    BY <1>1, <2>2 DEF Core
  <2>. QED BY <2>2, <2>3, <2>5, <2>6 DEF Layout
<1>8. PanesAreTogether(d)
  <2>1. ASSUME NEW x \in Splits, NEW t \in d.layout[x].panes, d.tab[t].at # "nowhere"
        PROVE  d.tab[t].split = x
    <3>1. t \in Tabs /\ t \in c.layout[x].panes /\ t \notin ts
      BY <1>1, <1>5, <2>1 DEF Core, Layout
    <3>2. c.tab[t].split = x
      BY <1>4, <2>1, <3>1 DEF Sound, PanesAreTogether
    <3>3. x \notin Dissolved(c, ts)
      BY <1>1, <1>3, <2>1, DetachedLayoutParts
    <3>. QED BY <1>2, <3>1, <3>2, <3>3 DEF DetachedTab
  <2>2. ASSUME NEW x \in Splits, NEW t \in d.layout[x].panes, NEW u \in d.layout[x].panes
        PROVE  d.tab[u].at = d.tab[t].at /\ d.tab[u].space = d.tab[t].space
    <3>1. t \in Tabs /\ u \in Tabs /\ t \in c.layout[x].panes /\ u \in c.layout[x].panes
      BY <1>1, <1>5, <2>2 DEF Core, Layout
    <3>. QED BY <1>4, <3>1 DEF Sound, PanesAreTogether
  <2>. QED BY <2>1, <2>2 DEF PanesAreTogether
<1>9. ViewsHaveSizes(d)
  <2>1. SUFFICES ASSUME NEW x \in Splits
        PROVE  /\ d.layout[x].at # "nowhere" => Cardinality(d.layout[x].panes) \in 2..MaxPanes
               /\ d.layout[x].at = "nowhere" => d.layout[x].panes = {}
    BY DEF ViewsHaveSizes
  <2>2. c.layout[x] \in Layout
    BY <1>1 DEF Core
  <2>3. CASE x \in Dissolved(c, ts)
    BY <1>1, <1>3, <2>3, DetachedLayoutParts
  <2>4. CASE x \notin Dissolved(c, ts) /\ c.layout[x].at = "open"
    <3>1. d.layout[x].panes = c.layout[x].panes \ ts /\ d.layout[x].at = "open"
      BY <1>3, <2>2, <2>4 DEF DetachedLayout, Layout
    <3>2. Cardinality(c.layout[x].panes) \in 2..MaxPanes
      BY <2>4 DEF Sound, ViewsHaveSizes
    <3>3. Cardinality(c.layout[x].panes \ ts) \in Nat /\ ~(Cardinality(c.layout[x].panes \ ts) <= 1)
      BY <2>4, PanesThatStay DEF Dissolved
    <3>4. Cardinality(c.layout[x].panes \ ts) <= Cardinality(c.layout[x].panes)
      BY PanesThatStay
    <3>. QED BY <3>1, <3>2, <3>3, <3>4, ConstantsAssumption
  <2>5. CASE x \notin Dissolved(c, ts) /\ c.layout[x].at # "open"
    BY <1>3, <2>5 DEF DetachedLayout, Sound, ViewsHaveSizes
  <2>. QED BY <2>3, <2>4, <2>5
<1>10. GroupsKeep(d)
  BY <1>1, <1>4 DEF Sound, GroupsKeep
<1>. QED BY <1>1, <1>6, <1>7, <1>8, <1>9, <1>10 DEF Sound, d

-----------------------------------------------------------------------------
(* Tabs go to the archive *)

\* Those that go: each saved split view goes as a whole.
Gone(c, ts) == ts \cup Panes(c, SavedSplits(c, ts))

\* A saved split view that goes is of the space of the tabs that take it along.
LEMMA SavedSplitsAreHere ==
  ASSUME NEW c, Sound(c), NEW s, NEW ts \in SUBSET OpenIn(c, s)
  PROVE  /\ SavedSplits(c, ts) \subseteq Splits
         /\ Gone(c, ts) \subseteq OpenIn(c, s) /\ ts \subseteq Gone(c, ts)
         /\ \A x \in SavedSplits(c, ts) :
              /\ c.layout[x].at = "open" /\ c.layout[x].panes \subseteq OpenIn(c, s)
              /\ \A t \in c.layout[x].panes : c.tab[t].split = x
<1>1. ASSUME NEW x \in SavedSplits(c, ts)
      PROVE  /\ x \in Splits /\ c.layout[x].at = "open" /\ c.layout[x].panes \subseteq OpenIn(c, s)
             /\ \A t \in c.layout[x].panes : c.tab[t].split = x
  <2>1. PICK u \in ts : c.tab[u].split = x
    BY DEF SavedSplits
  <2>2. x \in Splits /\ c.layout[x].at = "open" /\ x # None
    BY ConstantsAssumption DEF SavedSplits
  <2>3. u \in Tabs /\ c.tab[u].at = "open" /\ c.tab[u].space = s
    BY DEF OpenIn, Open
  <2>4. u \in c.layout[x].panes
    BY <2>1, <2>2, <2>3 DEF Sound, TabsArePanes
  <2>5. c.layout[x].panes \subseteq Tabs
    BY <2>2 DEF Sound, Core, Layout
  <2>6. \A t \in c.layout[x].panes : c.tab[t].at = "open" /\ c.tab[t].space = s
    BY <2>2, <2>3, <2>4 DEF Sound, PanesAreTogether
  <2>7. \A t \in c.layout[x].panes : c.tab[t].split = x
    BY <2>2, <2>6 DEF Sound, PanesAreTogether
  <2>. QED BY <2>2, <2>5, <2>6, <2>7 DEF OpenIn, Open
<1>. QED BY <1>1 DEF Gone, Panes

\* The core once the other tabs have left their split views.
Loosened(c, ts) == Detached(c, ts \ Panes(c, SavedSplits(c, ts)))

PutTab(c, ts, t) ==
  IF t \in Gone(c, ts) THEN [Loosened(c, ts).tab[t] EXCEPT !.at = "archived"]
  ELSE Loosened(c, ts).tab[t]

PutLayout(c, ts, x) ==
  IF x \in SavedSplits(c, ts) THEN [c.layout[x] EXCEPT !.at = "archived"]
  ELSE Loosened(c, ts).layout[x]

\* What Put does to each tab and layout.
LEMMA PutParts ==
  ASSUME NEW c, Sound(c), NEW s, NEW ts \in SUBSET OpenIn(c, s)
  PROVE  LET p == Put(c, ts) IN
         /\ p \in Core
         /\ p.space = c.space /\ p.profiles = c.profiles /\ p.group = c.group /\ p.active = c.active
         /\ \A t \in Tabs : p.tab[t] = PutTab(c, ts, t)
         /\ \A x \in Splits : p.layout[x] = PutLayout(c, ts, x)
<1>. DEFINE views == SavedSplits(c, ts)
            d == Loosened(c, ts)
            tab == [t \in Tabs |-> PutTab(c, ts, t)]
            layout == [x \in Splits |-> PutLayout(c, ts, x)]
<1>1. ts \ Panes(c, views) \in SUBSET Open(c)
  BY DEF OpenIn
<1>2. /\ c \in Core /\ d \in Core
      /\ d.space = c.space /\ d.profiles = c.profiles /\ d.group = c.group /\ d.active = c.active
  BY <1>1, DetachedParts DEF Sound, Loosened
<1>3. (ts \ Panes(c, views)) \cup Panes(c, views) = Gone(c, ts)
  BY DEF Gone
<1>4. Put(c, ts) = [d EXCEPT !.tab = tab, !.layout = layout]
  BY <1>3 DEF Put, PutTab, PutLayout, Loosened
<1>5. tab \in [Tabs -> Tab]
  BY <1>2 DEF Core, Tab, TabPlaces, PutTab
<1>6. layout \in [Splits -> Layout]
  BY <1>2 DEF Core, Layout, PutLayout
<1>. HIDE DEF d, tab, layout
<1>7. LET p == [d EXCEPT !.tab = tab, !.layout = layout] IN
      /\ p \in Core
      /\ p.space = d.space /\ p.profiles = d.profiles /\ p.group = d.group /\ p.active = d.active
      /\ p.tab = tab /\ p.layout = layout
  BY <1>2, <1>5, <1>6 DEF Core
<1>. QED BY <1>2, <1>4, <1>7 DEF tab, layout

\* Whatever tabs of a space are put away, the core is sound, and only they and the panes
\* of their saved split views leave.
LEMMA PutSound ==
  ASSUME NEW c, Sound(c), NEW s \in Live(c), NEW ts \in SUBSET OpenIn(c, s)
  PROVE  LET p == Put(c, ts) IN
         /\ Sound(p)
         /\ p.space = c.space /\ p.profiles = c.profiles /\ p.group = c.group /\ p.active = c.active
         /\ \A t \in Tabs :
              /\ p.tab[t].at = IF t \in Gone(c, ts) THEN "archived" ELSE c.tab[t].at
              /\ p.tab[t].space = c.tab[t].space /\ p.tab[t].profile = c.tab[t].profile
<1>. DEFINE views == SavedSplits(c, ts)
            loose == ts \ Panes(c, views)
            d == Detached(c, loose)
            p == Put(c, ts)
<1>1. loose \in SUBSET Open(c)
  BY DEF OpenIn
<1>2. Sound(d)
  BY <1>1, DetachedSound
<1>3. /\ c \in Core /\ d \in Core /\ p \in Core
      /\ d.space = c.space /\ d.profiles = c.profiles /\ d.group = c.group /\ d.active = c.active
  BY <1>1, DetachedParts, PutParts DEF Sound
<1>4. p.space = c.space /\ p.profiles = c.profiles /\ p.group = c.group /\ p.active = c.active
  BY PutParts
<1>5. \A t \in Tabs : p.tab[t] = IF t \in Gone(c, ts) THEN [d.tab[t] EXCEPT !.at = "archived"]
                                 ELSE d.tab[t]
  BY PutParts DEF PutTab, PutLayout, Loosened
<1>6. \A x \in Splits : p.layout[x] = IF x \in views THEN [c.layout[x] EXCEPT !.at = "archived"]
                                      ELSE d.layout[x]
  <2>1. \A x \in Splits : p.layout[x] = PutLayout(c, ts, x)
    BY PutParts
  <2>. HIDE DEF p
  <2>. QED BY <2>1 DEF PutLayout, Loosened
<1>7. \A t \in Tabs :
        /\ d.tab[t].at = c.tab[t].at /\ d.tab[t].space = c.tab[t].space
        /\ d.tab[t].profile = c.tab[t].profile /\ d.tab[t].group = c.tab[t].group
        /\ d.tab[t].split \in {c.tab[t].split, None}
        /\ t \in loose => d.tab[t].split = None
  BY <1>1, DetachedFields
<1>8. \A x \in Splits :
        /\ d.layout[x].panes \subseteq c.layout[x].panes
        /\ d.layout[x].panes \cap loose = {}
  BY <1>1, DetachedFields
<1>9. /\ views \subseteq Splits /\ Gone(c, ts) \subseteq OpenIn(c, s)
      /\ \A x \in views : /\ c.layout[x].at = "open" /\ c.layout[x].panes \subseteq OpenIn(c, s)
                          /\ \A t \in c.layout[x].panes : c.tab[t].split = x
  BY SavedSplitsAreHere
<1>10. \A x \in Splits : d.layout[x] = DetachedLayout(c, loose, x)
  BY <1>1, <1>3, DetachedParts
<1>11. Gone(c, ts) = loose \cup Panes(c, views) /\ loose \cap Panes(c, views) = {}
  BY DEF Gone
<1>12. \A t \in Tabs : d.tab[t] = DetachedTab(c, loose, t)
  BY <1>1, <1>3, DetachedParts
<1>. HIDE DEF d, p, loose, views
\* The saved split views are not touched before they go.
<1>13. ASSUME NEW x \in views
       PROVE  d.layout[x].panes = c.layout[x].panes /\ d.layout[x].at = "open"
  <2>1. x \in Splits /\ c.layout[x].panes \cap loose = {}
    BY <1>9, <1>11 DEF Panes
  <2>2. c.layout[x].at = "open" /\ Cardinality(c.layout[x].panes) \in 2..MaxPanes
    BY <1>9 DEF Sound, ViewsHaveSizes
  <2>3. c.layout[x].panes \ loose = c.layout[x].panes
    BY <2>1
  <2>4. x \notin Dissolved(c, loose)
    <3>1. ~(Cardinality(c.layout[x].panes) <= 1)
      BY <2>2, ConstantsAssumption
    <3>. QED BY <2>3, <3>1 DEF Dissolved
  <2>5. /\ DetachedLayout(c, loose, x).at = "open"
        /\ DetachedLayout(c, loose, x).panes = c.layout[x].panes \ loose
    BY <1>3, <2>1, <2>2, <2>4, DetachedLayoutParts
  <2>. QED BY <1>10, <2>1, <2>3, <2>5
<1>14. ASSUME NEW x \in views, NEW t \in c.layout[x].panes
       PROVE  t \in Tabs /\ t \in Gone(c, ts) /\ d.tab[t].split = x /\ d.tab[t].at = "open"
  <2>1. t \in Tabs /\ c.tab[t].at = "open" /\ c.tab[t].split = x /\ x \in Splits
    BY <1>9 DEF OpenIn, Open
  <2>2. t \in d.layout[x].panes /\ d.tab[t].at = "open"
    BY <1>7, <1>13, <2>1
  <2>. QED BY <1>2, <1>11, <2>1, <2>2 DEF Sound, PanesAreTogether, Panes
\* Nothing else that goes is a pane.
<1>15. ASSUME NEW x \in Splits, x \notin views, NEW t \in d.layout[x].panes
       PROVE  t \in Tabs /\ t \notin Gone(c, ts)
  <2>1. t \in Tabs /\ t \in c.layout[x].panes /\ t \notin loose
    BY <1>3, <1>8 DEF Core, Layout
  <2>2. ASSUME t \in Panes(c, views)
        PROVE  FALSE
    <3>1. PICK y \in views : t \in c.layout[y].panes
      BY <2>2 DEF Panes
    <3>2. c.tab[t].split = y /\ c.tab[t].at = "open"
      BY <1>9, <3>1 DEF OpenIn, Open
    <3>3. c.tab[t].split = x
      BY <2>1, <3>2 DEF Sound, PanesAreTogether
    <3>. QED BY <1>15, <3>1, <3>2, <3>3
  <2>. QED BY <1>11, <2>1, <2>2
<1>16. \A t \in Tabs :
         /\ p.tab[t].at = IF t \in Gone(c, ts) THEN "archived" ELSE c.tab[t].at
         /\ p.tab[t].space = c.tab[t].space /\ p.tab[t].profile = c.tab[t].profile
         /\ p.tab[t].group = c.tab[t].group /\ p.tab[t].split = d.tab[t].split
  <2>1. SUFFICES ASSUME NEW t \in Tabs
        PROVE  /\ p.tab[t].at = IF t \in Gone(c, ts) THEN "archived" ELSE d.tab[t].at
               /\ p.tab[t].space = d.tab[t].space /\ p.tab[t].profile = d.tab[t].profile
               /\ p.tab[t].group = d.tab[t].group /\ p.tab[t].split = d.tab[t].split
    BY <1>7
  <2>2. d.tab[t] \in Tab
    BY <1>3 DEF Core
  <2>3. p.tab[t] = IF t \in Gone(c, ts) THEN [d.tab[t] EXCEPT !.at = "archived"] ELSE d.tab[t]
    BY <1>5
  <2>. QED BY <2>2, <2>3 DEF Tab
<1>17. \A x \in Splits :
         IF x \in views THEN p.layout[x].at = "archived" /\ p.layout[x].panes = c.layout[x].panes
         ELSE p.layout[x] = d.layout[x]
  <2>1. SUFFICES ASSUME NEW x \in Splits, x \in views
        PROVE  p.layout[x].at = "archived" /\ p.layout[x].panes = c.layout[x].panes
    BY <1>6
  <2>2. c.layout[x] \in Layout
    BY <1>3 DEF Core
  <2>3. p.layout[x] = [c.layout[x] EXCEPT !.at = "archived"]
    BY <1>6, <2>1
  <2>. QED BY <2>2, <2>3 DEF Layout
<1>18. Placed(p)
  <2>1. \A t \in Gone(c, ts) : c.tab[t].at = "open" /\ c.space[c.tab[t].space].at = "live"
    BY <1>9 DEF OpenIn, Open, Live
  <2>2. \A t \in Tabs : t \notin Gone(c, ts) => p.tab[t] = d.tab[t]
    BY <1>5
  <2>. QED BY <1>2, <1>3, <1>4, <1>7, <1>16, <2>1, <2>2 DEF Sound, Placed
<1>19. TabsArePanes(p)
  <2>1. SUFFICES ASSUME NEW t \in Tabs, p.tab[t].at # "nowhere", p.tab[t].split # None
        PROVE  /\ t \in p.layout[p.tab[t].split].panes
               /\ p.layout[p.tab[t].split].at = Side(p.tab[t].at)
    BY DEF TabsArePanes
  <2>2. CASE t \in Panes(c, views)
    <3>1. PICK x \in views : t \in c.layout[x].panes
      BY <2>2 DEF Panes
    <3>2. p.tab[t].split = x /\ p.tab[t].at = "archived" /\ x \in Splits
      BY <1>9, <1>14, <1>16, <3>1
    <3>. QED BY <1>17, <3>1, <3>2 DEF Side
  <2>3. CASE t \notin Panes(c, views)
    <3>1. t \notin loose /\ t \notin Gone(c, ts)
      BY <1>7, <1>11, <1>16, <2>1, <2>3
    <3>2. d.tab[t].at = p.tab[t].at /\ d.tab[t].split = p.tab[t].split /\ d.tab[t].split \in Splits
      BY <1>3, <1>5, <2>1, <3>1 DEF Core, Tab
    <3>3. t \in d.layout[d.tab[t].split].panes /\ d.layout[d.tab[t].split].at = Side(d.tab[t].at)
      BY <1>2, <2>1, <3>2 DEF Sound, TabsArePanes
    <3>4. d.tab[t].split \notin views
      BY <1>13, <2>3, <3>3 DEF Panes
    <3>. QED BY <1>17, <3>2, <3>3, <3>4
  <2>. QED BY <2>2, <2>3
<1>20. PanesAreTogether(p)
  <2>1. ASSUME NEW x \in Splits, NEW t \in p.layout[x].panes
        PROVE  /\ p.tab[t].at # "nowhere" => p.tab[t].split = x
               /\ \A u \in p.layout[x].panes : p.tab[u].at = p.tab[t].at /\ p.tab[u].space = p.tab[t].space
    <3>1. CASE x \in views
      <4>1. p.layout[x].panes = c.layout[x].panes
        BY <1>17, <3>1
      <4>2. \A u \in c.layout[x].panes : u \in Tabs /\ p.tab[u].at = "archived" /\ p.tab[u].split = x
        BY <1>14, <1>16, <3>1
      <4>3. \A u \in c.layout[x].panes : p.tab[u].space = s
        BY <1>9, <1>16, <3>1, <4>2 DEF OpenIn
      <4>. QED BY <2>1, <4>1, <4>2, <4>3
    <3>2. CASE x \notin views
      <4>1. p.layout[x].panes = d.layout[x].panes
        BY <1>17, <3>2
      <4>2. \A u \in d.layout[x].panes : u \in Tabs /\ p.tab[u] = d.tab[u]
        BY <1>5, <1>15, <3>2
      <4>. QED BY <1>2, <2>1, <4>1, <4>2 DEF Sound, PanesAreTogether
    <3>. QED BY <3>1, <3>2
  <2>. QED BY <2>1 DEF PanesAreTogether
<1>21. ViewsHaveSizes(p)
  <2>1. \A x \in views : Cardinality(c.layout[x].panes) \in 2..MaxPanes
    BY <1>9 DEF Sound, ViewsHaveSizes
  <2>. QED BY <1>2, <1>17, <2>1 DEF Sound, ViewsHaveSizes
<1>22. GroupsKeep(p)
  BY <1>4, <1>16 DEF Sound, GroupsKeep
<1>23. Sound(p)
  BY <1>3, <1>18, <1>19, <1>20, <1>21, <1>22 DEF Sound
<1>. QED BY <1>4, <1>16, <1>23 DEF p

-----------------------------------------------------------------------------
(* What is active *)

\* The active tab is open, where the rest of the core says it is.
ActiveIsHere(c) ==
  /\ c.active.tab \in Open(c) /\ c.active.space \in Live(c)
  /\ ActiveTab(c).space = c.active.space /\ ActiveTab(c).profile = c.active.profile
  /\ c.space[c.active.space].last = c.active.tab

\* The live spaces, but for some, remember an open tab.
Remembering(c, but) == \A s \in Live(c) \ but : c.space[s].last \in OpenIn(c, s)

\* What holds between commands.
Good(c) == Sound(c) /\ ActiveIsHere(c) /\ Remembering(c, {})

\* Every tab stays where it is; there may be new ones.
Still(c, d) == \A t \in Tabs : c.tab[t].at # "nowhere" => d.tab[t].at = c.tab[t].at

\* No open tab goes to the archive and none comes back from it, unless to the trash.
Quiet(c, d) ==
  \A t \in Tabs : /\ c.tab[t].at = "open" => d.tab[t].at \in {"open", "trash"}
                  /\ c.tab[t].at = "archived" => d.tab[t].at \in {"archived", "trashArchive"}

\* Soundness is about the tabs, the layouts, the groups, and what spaces are there.
LEMMA SoundTransfers ==
  ASSUME NEW c, Sound(c), NEW d \in Core, d.tab = c.tab, d.layout = c.layout, d.group = c.group,
         \A s \in Spaces : d.space[s].at = c.space[s].at /\ d.space[s].home \in {c.space[s].home} \cup Profiles
  PROVE  Sound(d) /\ Open(d) = Open(c) /\ Live(d) = Live(c) /\ Still(c, d)
<1>1. Placed(d)
  <2>1. \A t \in Tabs : c.tab[t].at # "nowhere" => c.tab[t].space \in Spaces
    BY DEF Sound, Placed
  <2>. QED BY <2>1 DEF Sound, Placed, Core, Tab, TabPlaces
<1>2. TabsArePanes(d) /\ PanesAreTogether(d) /\ ViewsHaveSizes(d) /\ GroupsKeep(d)
  BY DEF Sound, TabsArePanes, PanesAreTogether, ViewsHaveSizes, GroupsKeep
<1>3. Open(d) = Open(c) /\ Live(d) = Live(c) /\ Still(c, d)
  BY DEF Open, Live, Still
<1>. QED BY <1>1, <1>2, <1>3 DEF Sound

\* A space comes to remember another tab.
LEMMA RememberedParts ==
  ASSUME NEW c, Sound(c), NEW s \in Spaces, NEW n \in Tabs
  PROVE  LET d == [c EXCEPT !.space[s].last = n] IN
         /\ Sound(d) /\ d.tab = c.tab /\ d.layout = c.layout /\ d.group = c.group
         /\ d.active = c.active /\ d.profiles = c.profiles
         /\ Open(d) = Open(c) /\ Live(d) = Live(c) /\ Still(c, d)
         /\ d.space[s].last = n
         /\ \A r \in Spaces : r # s => d.space[r].last = c.space[r].last
<1>. DEFINE space == [c.space EXCEPT ![s].last = n]
            d == [c EXCEPT !.space = space]
<1>1. c \in Core /\ c.space \in [Spaces -> Space]
  BY DEF Sound, Core
<1>2. space \in [Spaces -> Space]
  BY <1>1 DEF Space
<1>3. /\ space[s].last = n
      /\ \A r \in Spaces : r # s => space[r].last = c.space[r].last
      /\ \A r \in Spaces : space[r].at = c.space[r].at /\ space[r].home = c.space[r].home
  BY <1>1 DEF Space
<1>4. d = [c EXCEPT !.space[s].last = n]
  BY <1>1 DEF Core
<1>. HIDE DEF space
<1>5. d \in Core
  BY <1>1, <1>2 DEF Core
<1>6. /\ d.tab = c.tab /\ d.layout = c.layout /\ d.group = c.group
      /\ d.active = c.active /\ d.profiles = c.profiles /\ d.space = space
  BY <1>1 DEF Core
<1>. HIDE DEF d
<1>7. Sound(d) /\ Open(d) = Open(c) /\ Live(d) = Live(c) /\ Still(c, d)
  BY <1>3, <1>5, <1>6, SoundTransfers
<1>. QED BY <1>3, <1>4, <1>6, <1>7

\* The user goes somewhere.
LEMMA ActiveParts ==
  ASSUME NEW c, Sound(c), NEW t \in Tabs, NEW s \in Spaces, NEW p \in Profiles
  PROVE  LET d == [c EXCEPT !.active = [tab |-> t, space |-> s, profile |-> p]] IN
         /\ Sound(d) /\ d.tab = c.tab /\ d.layout = c.layout /\ d.group = c.group
         /\ d.space = c.space /\ d.profiles = c.profiles
         /\ d.active.tab = t /\ d.active.space = s /\ d.active.profile = p
         /\ Open(d) = Open(c) /\ Live(d) = Live(c) /\ Still(c, d)
<1>. DEFINE active == [tab |-> t, space |-> s, profile |-> p]
            d == [c EXCEPT !.active = active]
<1>1. active \in Active /\ active.tab = t /\ active.space = s /\ active.profile = p
  BY DEF Active
<1>2. c \in Core
  BY DEF Sound
<1>. HIDE DEF active
<1>3. /\ d \in Core /\ d.tab = c.tab /\ d.layout = c.layout /\ d.group = c.group
      /\ d.space = c.space /\ d.profiles = c.profiles /\ d.active = active
  BY <1>1, <1>2 DEF Core
<1>. HIDE DEF d
<1>4. Sound(d) /\ Open(d) = Open(c) /\ Live(d) = Live(c) /\ Still(c, d)
  BY <1>3, SoundTransfers
<1>. QED BY <1>1, <1>3, <1>4 DEF d, active

\* To select an open tab makes up for what its space remembers, and for what was active.
LEMMA SelectedGood ==
  ASSUME NEW c, Sound(c), NEW t \in Open(c), Remembering(c, {c.tab[t].space})
  PROVE  /\ Good(Selected(c, t)) /\ Still(c, Selected(c, t))
         /\ Selected(c, t).tab = c.tab /\ Selected(c, t).layout = c.layout
<1>. DEFINE s == c.tab[t].space
            p == c.tab[t].profile
            d == [c EXCEPT !.active = [tab |-> t, space |-> s, profile |-> p]]
            e == [d EXCEPT !.space[s].last = t]
<1>1. t \in Tabs /\ s \in Spaces /\ p \in Profiles /\ s \in Live(c) /\ t \in OpenIn(c, s)
  BY DEF Sound, Placed, Open, Live, OpenIn
<1>2. Selected(c, t) = e
  BY DEF Selected
<1>. HIDE DEF s, p
<1>3. /\ Sound(d) /\ d.tab = c.tab /\ d.layout = c.layout /\ d.group = c.group
      /\ d.space = c.space /\ d.profiles = c.profiles
      /\ d.active.tab = t /\ d.active.space = s /\ d.active.profile = p
      /\ Open(d) = Open(c) /\ Live(d) = Live(c) /\ Still(c, d)
  BY <1>1, ActiveParts
<1>. HIDE DEF d
<1>4. /\ Sound(e) /\ e.tab = d.tab /\ e.layout = d.layout /\ e.group = d.group
      /\ e.active = d.active /\ e.profiles = d.profiles
      /\ Open(e) = Open(d) /\ Live(e) = Live(d) /\ Still(d, e)
      /\ e.space[s].last = t
      /\ \A r \in Spaces : r # s => e.space[r].last = d.space[r].last
  BY <1>1, <1>3, RememberedParts
<1>. HIDE DEF e
<1>5. ActiveIsHere(e)
  BY <1>1, <1>3, <1>4 DEF ActiveIsHere, ActiveTab, s, p
<1>6. Remembering(e, {})
  BY <1>1, <1>3, <1>4 DEF Remembering, OpenIn, Live, s
<1>7. Still(c, e)
  BY <1>3, <1>4 DEF Still
<1>. QED BY <1>2, <1>3, <1>4, <1>5, <1>6, <1>7 DEF Good

\* A new tab is open, and everything else is as it was.
LEMMA AddedSound ==
  ASSUME NEW c, Sound(c), NEW t \in FreshTabs(c), NEW s \in Live(c), NEW p \in Profiles
  PROVE  LET d == Added(c, t, NewTab(s, p)) IN
         /\ Sound(d) /\ d.layout = c.layout /\ d.group = c.group
         /\ d.active = c.active /\ d.profiles = c.profiles /\ d.space = c.space
         /\ t \in Tabs /\ t \in OpenIn(d, s) /\ d.tab[t].profile = p
         /\ \A u \in Tabs : u # t => d.tab[u] = c.tab[u]
         /\ Still(c, d) /\ \A u \in Open(c) : u \in Open(d) /\ d.tab[u] = c.tab[u]
<1>. DEFINE new == NewTab(s, p)
            tab == [c.tab EXCEPT ![t] = new]
            d == [c EXCEPT !.tab = tab]
<1>1. /\ c \in Core /\ t \in Tabs /\ c.tab[t].at = "nowhere" /\ \A x \in Splits : t \notin c.layout[x].panes
      /\ s \in Spaces /\ c.space[s].at = "live"
  BY DEF Sound, FreshTabs, Live
<1>2. /\ new \in Tab /\ new.at = "open" /\ new.space = s /\ new.profile = p
      /\ new.split = None /\ new.group = None
  BY <1>1 DEF NewTab, Tab, TabPlaces
<1>. HIDE DEF new
<1>3. /\ tab \in [Tabs -> Tab] /\ tab[t] = new /\ \A u \in Tabs : u # t => tab[u] = c.tab[u]
  BY <1>1, <1>2 DEF Core
<1>4. Added(c, t, NewTab(s, p)) = d
  BY <1>1 DEF Added, Core, new
<1>. HIDE DEF tab
<1>5. /\ d \in Core /\ d.layout = c.layout /\ d.group = c.group /\ d.tab = tab
      /\ d.active = c.active /\ d.profiles = c.profiles /\ d.space = c.space
  BY <1>1, <1>3 DEF Core
<1>. HIDE DEF d
<1>6. Placed(d)
  BY <1>1, <1>2, <1>3, <1>5 DEF Sound, Placed
<1>7. TabsArePanes(d)
  BY <1>1, <1>2, <1>3, <1>5 DEF Sound, TabsArePanes
<1>8. PanesAreTogether(d)
  <2>1. \A x \in Splits : \A u \in c.layout[x].panes : u \in Tabs /\ d.tab[u] = c.tab[u]
    BY <1>1, <1>3, <1>5 DEF Core, Layout
  <2>. QED BY <1>5, <2>1 DEF Sound, PanesAreTogether
<1>9. ViewsHaveSizes(d) /\ GroupsKeep(d)
  BY <1>1, <1>2, <1>3, <1>5 DEF Sound, ViewsHaveSizes, GroupsKeep
<1>10. Sound(d)
  BY <1>5, <1>6, <1>7, <1>8, <1>9 DEF Sound
<1>11. t \in OpenIn(d, s) /\ d.tab[t].profile = p
  BY <1>1, <1>2, <1>3, <1>5 DEF OpenIn, Open
<1>12. Still(c, d) /\ \A u \in Open(c) : u \in Open(d) /\ d.tab[u] = c.tab[u]
  BY <1>1, <1>3, <1>5 DEF Still, Open
<1>. QED BY <1>1, <1>3, <1>4, <1>5, <1>10, <1>11, <1>12

\* After tabs of a space have left: what is missing is put right.
LEMMA SettledGood ==
  ASSUME NEW c, Sound(c), NEW s \in Live(c), NEW n \in OpenIn(c, s),
         Remembering(c, {s}),
         c.active.tab \in Open(c) => ActiveIsHere(c),
         c.space[s].last \in Open(c) => c.space[s].last \in OpenIn(c, s)
  PROVE  Good(Settled(c, s, n)) /\ Settled(c, s, n).tab = c.tab
<1>1. s \in Spaces /\ n \in Tabs /\ n \in Open(c) /\ c.tab[n].space = s
  BY DEF Live, OpenIn, Open
<1>2. CASE c.active.tab \notin Open(c)
  <2>1. Settled(c, s, n) = Selected(c, n)
    BY <1>2 DEF Settled
  <2>. QED BY <1>1, <2>1, SelectedGood
<1>3. CASE c.active.tab \in Open(c) /\ c.space[s].last \notin Open(c)
  <2>. DEFINE d == [c EXCEPT !.space[s].last = n]
  <2>1. Settled(c, s, n) = d
    BY <1>3 DEF Settled
  <2>2. /\ Sound(d) /\ d.tab = c.tab /\ d.active = c.active
        /\ Open(d) = Open(c) /\ Live(d) = Live(c) /\ d.space[s].last = n
        /\ \A r \in Spaces : r # s => d.space[r].last = c.space[r].last
    BY <1>1, RememberedParts
  <2>. HIDE DEF d
  <2>3. ActiveIsHere(d)
    BY <1>3, <2>2 DEF ActiveIsHere, ActiveTab, Live
  <2>4. Remembering(d, {})
    BY <1>1, <2>2 DEF Remembering, OpenIn, Live
  <2>. QED BY <2>1, <2>2, <2>3, <2>4 DEF Good
<1>4. CASE c.active.tab \in Open(c) /\ c.space[s].last \in Open(c)
  <2>1. Settled(c, s, n) = c
    BY <1>4 DEF Settled
  <2>. QED BY <1>4, <2>1 DEF Good, Remembering
<1>. QED BY <1>2, <1>3, <1>4

-----------------------------------------------------------------------------
(* Tabs are closed *)

\* SavedSplitsStayTogether, of a core and one that comes after it.
Kept(c, d) ==
  \A x \in Splits : LET ts == c.layout[x].panes IN
    /\ (\E t \in ts : t \in Open(c) /\ c.layout[x].saved /\ d.tab[t].at = "archived")
         => \A t \in ts : d.tab[t].at = "archived"
    /\ (c.layout[x].at = "archived" /\ \E t \in ts : t \in Archived(c) /\ t \in Open(d))
         => ts \subseteq Open(d)

LEMMA QuietIsKept ==
  ASSUME NEW c, NEW d, c \in Core, Still(c, d) \/ Quiet(c, d)
  PROVE  Kept(c, d)
<1>1. \A x \in Splits : c.layout[x].panes \subseteq Tabs
  BY DEF Core, Layout
<1>. QED BY <1>1 DEF Still, Quiet, Kept, Open, Archived

\* To close tabs is to archive those that go, and no others.
LEMMA ClosedGood ==
  ASSUME NEW c, Good(c), NEW s \in Live(c), NEW ts \in SUBSET OpenIn(c, s), NEW e \in Closed(c, ts, s)
  PROVE  /\ Good(e)
         /\ \A t \in Tabs : /\ t \in Gone(c, ts) => e.tab[t].at = "archived"
                            /\ t \notin Gone(c, ts) /\ c.tab[t].at = "open" => e.tab[t].at = "open"
                            /\ c.tab[t].at = "archived" => e.tab[t].at = "archived"
<1>. DEFINE p == Put(c, ts)
<1>1. Sound(c) /\ ActiveIsHere(c) /\ Remembering(c, {}) /\ s \in Spaces
  BY DEF Good, Live
<1>2. Gone(c, ts) \subseteq OpenIn(c, s)
  BY <1>1, SavedSplitsAreHere
<1>3. /\ Sound(p)
      /\ p.space = c.space /\ p.profiles = c.profiles /\ p.group = c.group /\ p.active = c.active
      /\ \A t \in Tabs :
           /\ p.tab[t].at = IF t \in Gone(c, ts) THEN "archived" ELSE c.tab[t].at
           /\ p.tab[t].space = c.tab[t].space /\ p.tab[t].profile = c.tab[t].profile
  BY <1>1, PutSound
<1>4. e \in IF OpenIn(p, s) # {}
              THEN {Settled(p, s, n) : n \in OpenIn(p, s)}
              ELSE {Settled(Added(p, t, NewTab(s, c.tab[u].profile)), s, t) :
                      t \in FreshTabs(p), u \in ts \cup Panes(c, SavedSplits(c, ts))}
  BY DEF Closed
<1>. HIDE DEF p
<1>5. s \in Live(p) /\ \A r \in Live(p) : r \in Live(c)
  BY <1>3 DEF Live
<1>6. \A r \in Live(c) : c.space[r].last \in Tabs /\ c.tab[c.space[r].last].at = "open"
                         /\ c.tab[c.space[r].last].space = r
  BY <1>1 DEF Remembering, OpenIn, Open
<1>7. Remembering(p, {s})
  <2>1. SUFFICES ASSUME NEW r \in Live(p), r # s
        PROVE  p.space[r].last \in OpenIn(p, r)
    BY DEF Remembering
  <2>2. p.space[r].last \notin Gone(c, ts)
    BY <1>2, <1>3, <1>5, <1>6, <2>1 DEF OpenIn
  <2>. QED BY <1>3, <1>5, <1>6, <2>1, <2>2 DEF OpenIn, Open
<1>8. p.active.tab \in Open(p) => ActiveIsHere(p)
  BY <1>1, <1>3 DEF ActiveIsHere, ActiveTab, Open, Live
<1>9. p.space[s].last \in Open(p) => p.space[s].last \in OpenIn(p, s)
  BY <1>3, <1>6 DEF OpenIn
<1>10. CASE OpenIn(p, s) # {}
  <2>1. PICK n \in OpenIn(p, s) : e = Settled(p, s, n)
    BY <1>4, <1>10
  <2>2. Good(e) /\ e.tab = p.tab
    BY <1>3, <1>5, <1>7, <1>8, <1>9, <2>1, SettledGood
  <2>. QED BY <1>2, <1>3, <2>2 DEF OpenIn, Open
<1>11. CASE OpenIn(p, s) = {}
  <2>1. PICK t \in FreshTabs(p), u \in Gone(c, ts) : e = Settled(Added(p, t, NewTab(s, c.tab[u].profile)), s, t)
    BY <1>4, <1>11 DEF Gone
  <2>2. c.tab[u].profile \in Profiles
    BY <1>1, <1>2 DEF OpenIn, Open, Sound, Placed
  <2>. DEFINE d == Added(p, t, NewTab(s, c.tab[u].profile))
  <2>3. /\ Sound(d) /\ d.active = p.active /\ d.space = p.space
        /\ t \in Tabs /\ t \in OpenIn(d, s)
        /\ \A v \in Tabs : v # t => d.tab[v] = p.tab[v]
        /\ \A v \in Open(p) : v \in Open(d) /\ d.tab[v] = p.tab[v]
    BY <1>3, <1>5, <2>2, AddedSound
  <2>4. p.tab[t].at = "nowhere"
    BY DEF FreshTabs
  <2>5. e = Settled(d, s, t)
    BY <2>1
  <2>. HIDE DEF d
  <2>6. s \in Live(d) /\ Live(d) = Live(p)
    BY <1>5, <2>3 DEF Live
  <2>7. Remembering(d, {s})
    BY <1>7, <2>3, <2>6 DEF Remembering, OpenIn
  <2>8. d.active.tab \in Open(d) => ActiveIsHere(d)
    <3>1. d.active.tab \in Tabs /\ d.active.tab # t
      BY <1>1, <1>3, <2>3, <2>4 DEF ActiveIsHere, Open
    <3>. QED BY <1>8, <2>3, <2>6, <3>1 DEF ActiveIsHere, ActiveTab, Open
  <2>9. d.space[s].last \in Open(d) => d.space[s].last \in OpenIn(d, s)
    <3>1. d.space[s].last \in Tabs /\ d.space[s].last # t
      BY <1>3, <1>6, <2>3, <2>4
    <3>. QED BY <1>9, <2>3, <3>1 DEF OpenIn, Open
  <2>10. Good(e) /\ e.tab = d.tab
    BY <2>3, <2>5, <2>6, <2>7, <2>8, <2>9, SettledGood
  <2>11. t \notin Gone(c, ts) /\ c.tab[t].at = "nowhere"
    BY <1>3, <2>3, <2>4
  <2>. QED BY <1>2, <1>3, <2>3, <2>10, <2>11 DEF OpenIn, Open
<1>. QED BY <1>10, <1>11

\* A saved split view that is touched goes as a whole.
LEMMA GoneIsKept ==
  ASSUME NEW c, Sound(c), NEW s, NEW ts \in SUBSET OpenIn(c, s), NEW e,
         \A t \in Tabs : /\ t \in Gone(c, ts) => e.tab[t].at = "archived"
                         /\ t \notin Gone(c, ts) /\ c.tab[t].at = "open" => e.tab[t].at = "open"
                         /\ c.tab[t].at = "archived" => e.tab[t].at = "archived"
  PROVE  Kept(c, e)
<1>1. ASSUME NEW x \in Splits, NEW t \in c.layout[x].panes, t \in Open(c), c.layout[x].saved,
             e.tab[t].at = "archived"
      PROVE  \A u \in c.layout[x].panes : e.tab[u].at = "archived"
  <2>1. t \in Tabs /\ c.tab[t].at = "open" /\ c.tab[t].split = x /\ x # None
    BY <1>1, ConstantsAssumption DEF Open, Sound, PanesAreTogether
  <2>2. c.layout[x].at = "open"
    BY <2>1 DEF Sound, TabsArePanes, Side
  <2>3. t \in Gone(c, ts)
    BY <1>1, <2>1
  <2>4. x \in SavedSplits(c, ts)
    <3>1. CASE t \in ts
      BY <1>1, <2>1, <2>2, <3>1 DEF SavedSplits
    <3>2. CASE t \in Panes(c, SavedSplits(c, ts))
      <4>1. PICK y \in SavedSplits(c, ts) : t \in c.layout[y].panes
        BY <3>2 DEF Panes
      <4>2. c.tab[t].split = y
        BY <4>1, SavedSplitsAreHere
      <4>. QED BY <2>1, <4>2
    <3>. QED BY <2>3, <3>1, <3>2 DEF Gone
  <2>5. c.layout[x].panes \subseteq Gone(c, ts) /\ c.layout[x].panes \subseteq Tabs
    BY <2>4 DEF Gone, Panes, Sound, Core, Layout
  <2>. QED BY <2>5
<1>2. \A t \in Archived(c) : t \notin Open(e)
  BY DEF Archived, Open
<1>. QED BY <1>1, <1>2 DEF Kept

-----------------------------------------------------------------------------
(* The user goes to a space, or to a profile *)

LEMMA SpaceSelectedGood ==
  ASSUME NEW c, Sound(c), NEW s \in Live(c), Remembering(c, {s}), NEW e \in SpaceSelected(c, s)
  PROVE  Good(e) /\ Still(c, e)
<1>1. s \in Spaces /\ c.space[s].home \in Profiles
  BY DEF Live, Sound, Placed
<1>2. CASE \E t \in OpenIn(c, s) : e = Selected(c, t)
  <2>1. PICK t \in OpenIn(c, s) : e = Selected(c, t)
    BY <1>2
  <2>2. t \in Open(c) /\ c.tab[t].space = s
    BY DEF OpenIn
  <2>. QED BY <2>1, <2>2, SelectedGood
<1>3. CASE \E t \in FreshTabs(c) : e = Selected(Added(c, t, NewTab(s, c.space[s].home)), t)
  <2>1. PICK t \in FreshTabs(c) : e = Selected(Added(c, t, NewTab(s, c.space[s].home)), t)
    BY <1>3
  <2>. DEFINE d == Added(c, t, NewTab(s, c.space[s].home))
  <2>2. /\ Sound(d) /\ d.space = c.space /\ t \in OpenIn(d, s) /\ Still(c, d)
        /\ \A u \in Open(c) : u \in Open(d) /\ d.tab[u] = c.tab[u]
    BY <1>1, AddedSound
  <2>3. e = Selected(d, t)
    BY <2>1
  <2>. HIDE DEF d
  <2>4. t \in Open(d) /\ d.tab[t].space = s
    BY <2>2 DEF OpenIn
  <2>5. Remembering(d, {s})
    BY <2>2 DEF Remembering, OpenIn, Live
  <2>6. Good(e) /\ e.tab = d.tab
    BY <2>2, <2>3, <2>4, <2>5, SelectedGood
  <2>. QED BY <2>2, <2>6 DEF Still
<1>. QED BY <1>2, <1>3 DEF SpaceSelected

LEMMA ProfileSelectedGood ==
  ASSUME NEW c, Good(c), NEW p \in Profiles, NEW e \in ProfileSelected(c, p)
  PROVE  Good(e) /\ Still(c, e)
<1>. DEFINE s == c.active.space
<1>1. Sound(c) /\ s \in Live(c) /\ Remembering(c, {}) /\ Remembering(c, {s})
  BY DEF Good, ActiveIsHere, Remembering
<1>2. CASE \E t \in OpenIn(c, s) : e = Selected(c, t)
  <2>1. PICK t \in OpenIn(c, s) : e = Selected(c, t)
    BY <1>2
  <2>2. t \in Open(c) /\ c.tab[t].space = s
    BY DEF OpenIn
  <2>. QED BY <1>1, <2>1, <2>2, SelectedGood
<1>3. CASE \E t \in FreshTabs(c) : e = Selected(Added(c, t, NewTab(s, p)), t)
  <2>1. PICK t \in FreshTabs(c) : e = Selected(Added(c, t, NewTab(s, p)), t)
    BY <1>3
  <2>. DEFINE d == Added(c, t, NewTab(s, p))
  <2>2. /\ Sound(d) /\ d.space = c.space /\ t \in OpenIn(d, s) /\ Still(c, d)
        /\ \A u \in Open(c) : u \in Open(d) /\ d.tab[u] = c.tab[u]
    BY <1>1, AddedSound
  <2>3. e = Selected(d, t)
    BY <2>1
  <2>. HIDE DEF d
  <2>4. t \in Open(d) /\ d.tab[t].space = s
    BY <2>2 DEF OpenIn
  <2>5. Remembering(d, {s})
    BY <1>1, <2>2 DEF Remembering, OpenIn, Live
  <2>6. Good(e) /\ e.tab = d.tab
    BY <2>2, <2>3, <2>4, <2>5, SelectedGood
  <2>. QED BY <2>2, <2>6 DEF Still
<1>. QED BY <1>2, <1>3 DEF ProfileSelected

-----------------------------------------------------------------------------
(* Parts of the core are replaced *)

\* New tabs, layouts and groups, and the rest as it was.
With(c, tab, layout, group) == [c EXCEPT !.tab = tab, !.layout = layout, !.group = group]

LEMMA WithParts ==
  ASSUME NEW c \in Core, NEW tab \in [Tabs -> Tab], NEW layout \in [Splits -> Layout],
         NEW group \in [Groups -> Spaces \cup {None}]
  PROVE  LET d == With(c, tab, layout, group) IN
         /\ d \in Core /\ d.tab = tab /\ d.layout = layout /\ d.group = group
         /\ d.space = c.space /\ d.profiles = c.profiles /\ d.active = c.active
  BY DEF With, Core

\* What every space remembers is where it was: that is enough for the active tab, too.
LEMMA StaysGood ==
  ASSUME NEW c, Good(c), NEW d, Sound(d), d.active = c.active,
         \A s \in Spaces : d.space[s].at = c.space[s].at /\ d.space[s].last = c.space[s].last,
         \A t \in Open(c) : (\E s \in Live(c) : t = c.space[s].last) =>
           /\ d.tab[t].at = c.tab[t].at /\ d.tab[t].space = c.tab[t].space
           /\ d.tab[t].profile = c.tab[t].profile
  PROVE  Good(d)
<1>1. Live(d) = Live(c)
  BY DEF Live
<1>2. \A s \in Live(c) : c.space[s].last \in Open(c) /\ c.tab[c.space[s].last].space = s /\ s \in Spaces
  BY DEF Good, Remembering, OpenIn, Live
<1>3. Remembering(d, {})
  BY SMTT(30), <1>1, <1>2 DEF Remembering, OpenIn, Open
<1>4. ActiveIsHere(d)
  <2>1. c.active.space \in Live(c) /\ c.active.tab = c.space[c.active.space].last
    BY DEF Good, ActiveIsHere
  <2>. QED BY <1>1, <1>2, <2>1 DEF Good, ActiveIsHere, ActiveTab, Open
<1>. QED BY <1>3, <1>4 DEF Good

\* Only the groups of tabs are changed.
LEMMA GroupedSound ==
  ASSUME NEW c, Sound(c), NEW d \in Core, d.layout = c.layout, d.space = c.space, d.active = c.active,
         \A t \in Tabs : /\ d.tab[t].at = c.tab[t].at /\ d.tab[t].space = c.tab[t].space
                         /\ d.tab[t].profile = c.tab[t].profile /\ d.tab[t].split = c.tab[t].split
                         /\ c.tab[t].at = "nowhere" => d.tab[t] = c.tab[t],
         GroupsKeep(d)
  PROVE  Sound(d) /\ Still(c, d) /\ (Good(c) => Good(d))
<1>1. Placed(d)
  BY DEF Sound, Placed
<1>2. TabsArePanes(d) /\ ViewsHaveSizes(d)
  BY DEF Sound, TabsArePanes, ViewsHaveSizes
<1>3. PanesAreTogether(d)
  <2>1. \A x \in Splits : c.layout[x].panes \subseteq Tabs
    BY DEF Sound, Core, Layout
  <2>. QED BY <2>1 DEF Sound, PanesAreTogether
<1>4. Sound(d)
  BY <1>1, <1>2, <1>3 DEF Sound
<1>5. Still(c, d)
  BY DEF Still
<1>6. Good(c) => Good(d)
  BY <1>4, StaysGood DEF Open
<1>. QED BY <1>4, <1>5, <1>6

-----------------------------------------------------------------------------
(* Tabs: what each command comes to *)

LEMMA GoodParts ==
  ASSUME Good(core)
  PROVE  /\ Sound(core) /\ core \in Core /\ ActiveIsHere(core)
         /\ \A S : Remembering(core, S)
         /\ core.active.tab \in Tabs /\ core.active.tab \in Open(core)
         /\ core.active.space \in Spaces /\ core.active.space \in Live(core)
         /\ core.active.profile \in Profiles
         /\ core.tab[core.active.tab].space = core.active.space
         /\ core.tab[core.active.tab].profile = core.active.profile
         /\ core.tab[core.active.tab].at = "open"
  BY DEF Good, Sound, ActiveIsHere, ActiveTab, Remembering, Open, Live, Core, Active

LEMMA OpenTabGood ==
  ASSUME Good(core), NEW t \in Tabs, OpenTab(t)
  PROVE  Good(core') /\ Still(core, core')
<1>. DEFINE s == core.active.space
            d == Added(core, t, NewTab(s, core.active.profile))
<1>1. t \in FreshTabs(core) /\ core' = [d EXCEPT !.active.tab = t, !.space[s].last = t]
  BY DEF OpenTab
<1>2. /\ Sound(d) /\ d.active = core.active /\ d.space = core.space
      /\ t \in OpenIn(d, s) /\ d.tab[t].profile = core.active.profile
      /\ Still(core, d) /\ \A u \in Open(core) : u \in Open(d) /\ d.tab[u] = core.tab[u]
  BY <1>1, GoodParts, AddedSound
<1>. HIDE DEF d
<1>3. t \in Open(d) /\ d.tab[t].space = s
  BY <1>2 DEF OpenIn
<1>4. core' = Selected(d, t)
  <2>1. d.active = [tab |-> d.active.tab, space |-> s, profile |-> core.active.profile]
    BY <1>2, GoodParts DEF Sound, Core, Active
  <2>2. [d.active EXCEPT !.tab = t] = [tab |-> t, space |-> s, profile |-> core.active.profile]
    BY <2>1
  <2>3. d \in Core
    BY <1>2 DEF Sound
  <2>4. core' = [[d EXCEPT !.active = [d.active EXCEPT !.tab = t]] EXCEPT !.space[s].last = t]
    BY <1>1, <2>3 DEF Core
  <2>. QED BY <1>2, <1>3, <2>2, <2>4 DEF Selected
<1>5. Remembering(d, {s})
  <2>1. Remembering(core, {s})
    BY GoodParts
  <2>. QED BY <1>2, <2>1 DEF Remembering, OpenIn, Live
<1>6. Good(core') /\ core'.tab = d.tab
  BY <1>2, <1>3, <1>4, <1>5, SelectedGood
<1>. QED BY <1>2, <1>6 DEF Still

LEMMA SelectTabGood ==
  ASSUME Good(core), NEW t \in Tabs, SelectTab(t)
  PROVE  Good(core') /\ Still(core, core')
  BY GoodParts, SelectedGood DEF SelectTab

LEMMA CloseTabGood ==
  ASSUME Good(core), NEW t \in Tabs, CloseTab(t)
  PROVE  Good(core') /\ Kept(core, core')
<1>1. core.tab[t].space \in Live(core) /\ {t} \in SUBSET OpenIn(core, core.tab[t].space)
  BY GoodParts DEF CloseTab, Sound, Placed, Open, OpenIn, Live
<1>. QED BY <1>1, GoodParts, ClosedGood, GoneIsKept DEF CloseTab

\* A tab is taken to another space, without its group.
Moved(c, t, s) == [c EXCEPT !.tab[t].space = s, !.tab[t].group = None]

\* An open tab that is no pane may be in any live space.
LEMMA MovedSound ==
  ASSUME NEW c, Sound(c), NEW t \in Open(c), c.tab[t].split = None, NEW s \in Live(c)
  PROVE  LET d == Moved(c, t, s) IN
         /\ Sound(d) /\ d.space = c.space /\ d.active = c.active /\ d.layout = c.layout
         /\ d.tab[t].at = "open" /\ d.tab[t].space = s /\ d.tab[t].profile = c.tab[t].profile
         /\ \A u \in Tabs : u # t => d.tab[u] = c.tab[u]
         /\ Still(c, d)
<1>. DEFINE new == [c.tab[t] EXCEPT !.space = s, !.group = None]
            tab == [c.tab EXCEPT ![t] = new]
            d == With(c, tab, c.layout, c.group)
<1>1. /\ c \in Core /\ t \in Tabs /\ c.tab[t].at = "open" /\ s \in Spaces /\ c.space[s].at = "live"
      /\ c.tab \in [Tabs -> Tab] /\ c.layout \in [Splits -> Layout] /\ c.group \in [Groups -> Spaces \cup {None}]
  BY DEF Sound, Open, Live, Core
<1>2. /\ new \in Tab /\ new.at = "open" /\ new.space = s /\ new.profile = c.tab[t].profile
      /\ new.split = None /\ new.group = None
  <2>1. c.tab[t] \in Tab
    BY <1>1
  <2>. QED BY <1>1, <2>1 DEF Tab
<1>3. Moved(c, t, s) = d
  BY <1>1 DEF Moved, With, Core
<1>. HIDE DEF new
<1>4. tab \in [Tabs -> Tab] /\ tab[t] = new /\ \A u \in Tabs : u # t => tab[u] = c.tab[u]
  BY <1>1, <1>2
<1>. HIDE DEF tab
<1>5. /\ d \in Core /\ d.tab = tab /\ d.layout = c.layout /\ d.group = c.group
      /\ d.space = c.space /\ d.profiles = c.profiles /\ d.active = c.active
  BY <1>1, <1>4, WithParts
<1>. HIDE DEF d
<1>6. Placed(d)
  BY <1>1, <1>2, <1>4, <1>5 DEF Sound, Placed
<1>7. TabsArePanes(d)
  BY <1>1, <1>2, <1>4, <1>5 DEF Sound, TabsArePanes
<1>8. PanesAreTogether(d)
  <2>1. \A x \in Splits : \A u \in c.layout[x].panes : u \in Tabs /\ u # t
    BY <1>1, ConstantsAssumption DEF Sound, PanesAreTogether, Core, Layout
  <2>. QED BY <1>4, <1>5, <2>1 DEF Sound, PanesAreTogether
<1>9. ViewsHaveSizes(d) /\ GroupsKeep(d)
  BY <1>1, <1>2, <1>4, <1>5 DEF Sound, ViewsHaveSizes, GroupsKeep
<1>10. Sound(d) /\ Still(c, d)
  BY <1>1, <1>2, <1>4, <1>5, <1>6, <1>7, <1>8, <1>9 DEF Sound, Still
<1>. QED BY <1>2, <1>3, <1>4, <1>5, <1>10

LEMMA MoveToSpaceGood ==
  ASSUME Good(core), NEW s \in Spaces, MoveToSpace(s)
  PROVE  Good(core') /\ Still(core, core')
<1>. DEFINE t == core.active.tab
            from == core.active.space
            e == Detached(core, {t})
            d == Moved(e, t, s)
<1>1. /\ s \in Live(core) /\ s # from /\ from \in Live(core) /\ from \in Spaces
      /\ t \in Tabs /\ core.tab[t].at = "open" /\ core.tab[t].space = from
      /\ {t} \in SUBSET Open(core) /\ core.space[from].last = t
      /\ core.active.profile \in Profiles
  BY GoodParts DEF MoveToSpace, ActiveIsHere
<1>2. Sound(core)
  BY GoodParts
<1>3. Sound(e) /\ e.space = core.space /\ e.active = core.active
  BY <1>1, <1>2, DetachedParts, DetachedSound DEF Sound
<1>4. \A u \in Tabs : /\ e.tab[u].at = core.tab[u].at /\ e.tab[u].space = core.tab[u].space
                      /\ u = t => e.tab[u].split = None
  BY <1>1, <1>2, DetachedFields
<1>5. IF OpenIn(d, from) # {}
        THEN \E n \in OpenIn(d, from) : core' = Selected([d EXCEPT !.space[from].last = n], t)
        ELSE \E n \in FreshTabs(d) :
               core' = Selected([Added(d, n, NewTab(from, core.active.profile))
                                   EXCEPT !.space[from].last = n], t)
  BY DEF MoveToSpace, Moved
<1>. HIDE DEF e
<1>6. t \in Open(e) /\ e.tab[t].split = None /\ s \in Live(e) /\ from \in Live(e) /\ Live(e) = Live(core)
  BY <1>1, <1>3, <1>4 DEF Open, Live
<1>7. /\ Sound(d) /\ d.space = e.space /\ d.active = e.active
      /\ d.tab[t].at = "open" /\ d.tab[t].space = s
      /\ \A u \in Tabs : u # t => d.tab[u] = e.tab[u]
      /\ Still(e, d)
  <2>. HIDE DEF t, from
  <2>. QED BY <1>3, <1>6, MovedSound
<1>. HIDE DEF d
<1>8. Still(core, d)
  BY <1>4, <1>7 DEF Still
\* Every other space remembers a tab that has not moved.
<1>9. \A r \in Live(core) \ {s, from} : /\ core.space[r].last \in Tabs /\ core.space[r].last # t
                                       /\ d.tab[core.space[r].last].at = "open"
                                       /\ d.tab[core.space[r].last].space = r
  <2>1. Remembering(core, {})
    BY GoodParts
  <2>2. \A r \in Live(core) : /\ core.space[r].last \in Tabs
                              /\ core.tab[core.space[r].last].at = "open"
                              /\ core.tab[core.space[r].last].space = r
    BY <2>1 DEF Remembering, OpenIn, Open
  <2>. HIDE DEF t, from
  <2>. QED BY SMTT(30), <1>1, <1>4, <1>7, <2>2
<1>10. ASSUME NEW c, Sound(c), c.space = d.space, NEW n \in OpenIn(c, from), Still(core, c),
              \A u \in Open(d) : u \in Open(c) /\ c.tab[u] = d.tab[u],
              core' = Selected([c EXCEPT !.space[from].last = n], t)
       PROVE  Good(core') /\ Still(core, core')
  <2>. DEFINE f == [c EXCEPT !.space[from].last = n]
  <2>1. /\ Sound(f) /\ f.tab = c.tab /\ Open(f) = Open(c) /\ Live(f) = Live(c)
        /\ f.space[from].last = n
        /\ \A r \in Spaces : r # from => f.space[r].last = c.space[r].last
    <3>1. n \in Tabs
      BY DEF OpenIn, Open
    <3>. HIDE DEF t, from
    <3>. QED BY <1>1, <1>10, <3>1, RememberedParts
  <2>2. core' = Selected(f, t)
    BY <1>10
  <2>. HIDE DEF f
  <2>3. t \in Open(f) /\ f.tab[t].space = s
    BY <1>1, <1>7, <1>10, <2>1 DEF Open
  <2>4. Remembering(f, {s})
    <3>1. \A r \in Live(core) \ {s, from} : /\ core.space[r].last \in Open(d)
                                           /\ d.tab[core.space[r].last].space = r
      BY <1>9 DEF Open
    <3>2. Live(f) = Live(core)
      BY <1>3, <1>7, <1>10, <2>1 DEF Live
    <3>. QED BY <1>3, <1>7, <1>10, <2>1, <3>1, <3>2 DEF Remembering, OpenIn, Live
  <2>5. Good(core') /\ core'.tab = f.tab
    BY <2>1, <2>2, <2>3, <2>4, SelectedGood
  <2>. QED BY <1>10, <2>1, <2>5 DEF Still
<1>11. CASE OpenIn(d, from) # {}
  BY <1>5, <1>7, <1>8, <1>10, <1>11
<1>12. CASE OpenIn(d, from) = {}
  <2>1. PICK n \in FreshTabs(d) :
          core' = Selected([Added(d, n, NewTab(from, core.active.profile)) EXCEPT !.space[from].last = n], t)
    BY <1>5, <1>12
  <2>. DEFINE c == Added(d, n, NewTab(from, core.active.profile))
  <2>2. /\ Sound(c) /\ c.space = d.space /\ n \in OpenIn(c, from) /\ Still(d, c) /\ n \in Tabs
        /\ \A u \in Open(d) : u \in Open(c) /\ c.tab[u] = d.tab[u]
        /\ \A u \in Tabs : u # n => c.tab[u] = d.tab[u]
    BY <1>1, <1>3, <1>6, <1>7, AddedSound DEF Live
  <2>3. core' = Selected([c EXCEPT !.space[from].last = n], t)
    BY <2>1
  <2>4. d.tab[n].at = "nowhere"
    BY DEF FreshTabs
  <2>. HIDE DEF c
  <2>5. Still(core, c)
    <3>1. n # t /\ core.tab[n].at = "nowhere"
      BY <1>4, <1>7, <2>2, <2>4
    <3>. QED BY <1>8, <2>2, <3>1 DEF Still
  <2>. QED BY <1>10, <2>2, <2>3, <2>5
<1>. QED BY <1>11, <1>12

LEMMA ArchiveIdleGood ==
  ASSUME Good(core), NEW ts \in SUBSET Tabs, ArchiveIdle(ts)
  PROVE  Good(core') /\ Kept(core, core')
<1>. DEFINE tab == [t \in Tabs |-> IF t \in ts THEN [core.tab[t] EXCEPT !.at = "archived"] ELSE core.tab[t]]
            d == With(core, tab, core.layout, core.group)
<1>1. /\ \A t \in ts : /\ core.tab[t].at = "open" /\ core.tab[t].space = core.active.space
                       /\ t # core.active.tab /\ core.tab[t].split = None
      /\ Sound(core) /\ core \in Core /\ core.tab \in [Tabs -> Tab]
  BY GoodParts DEF ArchiveIdle, OpenIn, Open, Core
<1>2. core' = d
  BY <1>1 DEF ArchiveIdle, With, Core
<1>3. tab \in [Tabs -> Tab]
  BY <1>1 DEF Tab, TabPlaces
<1>4. \A t \in Tabs :
        /\ tab[t].at = IF t \in ts THEN "archived" ELSE core.tab[t].at
        /\ tab[t].space = core.tab[t].space /\ tab[t].profile = core.tab[t].profile
        /\ tab[t].split = core.tab[t].split /\ tab[t].group = core.tab[t].group
        /\ t \notin ts => tab[t] = core.tab[t]
  <2>1. \A t \in Tabs : core.tab[t] \in Tab
    BY <1>1
  <2>. QED BY <2>1 DEF Tab
<1>. HIDE DEF tab
<1>5. /\ d \in Core /\ d.tab = tab /\ d.layout = core.layout /\ d.group = core.group
      /\ d.space = core.space /\ d.active = core.active
  BY <1>1, <1>3, WithParts DEF Core
<1>. HIDE DEF d
<1>6. Placed(d)
  BY <1>1, <1>4, <1>5 DEF Sound, Placed
<1>7. TabsArePanes(d)
  BY <1>1, <1>4, <1>5 DEF Sound, TabsArePanes
<1>8. PanesAreTogether(d)
  <2>1. \A x \in Splits : \A u \in core.layout[x].panes : u \in Tabs /\ u \notin ts
    BY <1>1, ConstantsAssumption DEF Sound, PanesAreTogether, Core, Layout
  <2>. QED BY <1>1, <1>4, <1>5, <2>1 DEF Sound, PanesAreTogether
<1>9. ViewsHaveSizes(d) /\ GroupsKeep(d)
  BY <1>1, <1>4, <1>5 DEF Sound, ViewsHaveSizes, GroupsKeep
<1>10. Sound(d)
  BY <1>5, <1>6, <1>7, <1>8, <1>9 DEF Sound
<1>11. Good(d)
  <2>1. \A s \in Live(core) : core.space[s].last \in Open(core) /\ core.tab[core.space[s].last].space = s
    <3>1. Remembering(core, {})
      BY GoodParts
    <3>. QED BY <3>1 DEF Remembering, OpenIn
  <2>2. \A s \in Live(core) : core.space[s].last \notin ts
    BY <1>1, <2>1, GoodParts DEF ActiveIsHere
  <2>. QED BY <1>4, <1>5, <1>10, <2>1, <2>2, StaysGood DEF Open
<1>12. Kept(core, d)
  <2>1. \A x \in Splits : \A u \in core.layout[x].panes : u \in Open(core) => d.tab[u].at = "open"
    BY <1>1, <1>4, <1>5, ConstantsAssumption DEF Sound, PanesAreTogether, Open
  <2>2. \A u \in Archived(core) : u \notin Open(d)
    BY <1>1, <1>4, <1>5 DEF Archived, Open
  <2>. QED BY <2>1, <2>2 DEF Kept
<1>. QED BY <1>2, <1>11, <1>12

LEMMA RestoreGood ==
  ASSUME Good(core), NEW t \in Tabs, Restore(t)
  PROVE  Good(core') /\ Kept(core, core')
<1>. DEFINE x == core.tab[t].split
            whole == x # None /\ core.layout[x].at = "archived"
            back == IF whole THEN core.layout[x].panes ELSE {t}
            tab == [u \in Tabs |-> IF u \in back THEN [core.tab[u] EXCEPT !.at = "open"] ELSE core.tab[u]]
            layout == IF whole THEN [core.layout EXCEPT ![x] = [core.layout[x] EXCEPT !.at = "open"]]
                      ELSE core.layout
            d == With(core, tab, layout, core.group)
<1>1. /\ Sound(core) /\ core \in Core /\ core.tab \in [Tabs -> Tab] /\ core.layout \in [Splits -> Layout]
      /\ core.group \in [Groups -> Spaces \cup {None}]
      /\ t \in Archived(core) /\ core.tab[t].at = "archived" /\ back \subseteq Archived(core)
      /\ x \in Splits \cup {None}
  BY GoodParts DEF Restore, Core, Archived, Tab
<1>2. core' = Selected(d, t)
  <2>1. CASE whole
    BY <1>1, <2>1 DEF Restore, With, Core
  <2>2. CASE ~whole
    BY <1>1, <2>2 DEF Restore, With, Core
  <2>. QED BY <2>1, <2>2
<1>3. /\ whole => x \in Splits /\ t \in core.layout[x].panes
                  /\ \A u \in core.layout[x].panes : u \in Tabs /\ core.tab[u].at = "archived" /\ core.tab[u].split = x
      /\ ~whole => x = None
      /\ t \in back
  <2>1. ~whole => x = None
    BY <1>1 DEF Sound, TabsArePanes, Side
  <2>2. ASSUME whole
        PROVE  /\ x \in Splits /\ t \in core.layout[x].panes
               /\ \A u \in core.layout[x].panes : u \in Tabs /\ core.tab[u].at = "archived" /\ core.tab[u].split = x
    <3>1. x \in Splits /\ t \in core.layout[x].panes
      BY <1>1, <2>2 DEF Sound, TabsArePanes
    <3>2. core.layout[x].panes \subseteq Tabs
      BY <1>1, <3>1 DEF Layout
    <3>. QED BY <1>1, <3>1, <3>2 DEF Sound, PanesAreTogether
  <2>. QED BY <2>1, <2>2
<1>4. tab \in [Tabs -> Tab]
  BY <1>1 DEF Tab, TabPlaces
<1>5. \A u \in Tabs :
        /\ tab[u].at = IF u \in back THEN "open" ELSE core.tab[u].at
        /\ tab[u].space = core.tab[u].space /\ tab[u].profile = core.tab[u].profile
        /\ tab[u].split = core.tab[u].split /\ tab[u].group = core.tab[u].group
        /\ u \notin back => tab[u] = core.tab[u]
  <2>1. \A u \in Tabs : core.tab[u] \in Tab
    BY <1>1
  <2>. QED BY <2>1 DEF Tab
<1>6. layout \in [Splits -> Layout]
  <2>1. CASE whole
    <3>1. core.layout[x] \in Layout
      BY <1>1, <1>3, <2>1
    <3>2. [core.layout[x] EXCEPT !.at = "open"] \in Layout
      BY <3>1 DEF Layout
    <3>. QED BY <1>1, <1>3, <2>1, <3>2
  <2>. QED BY <1>1, <2>1
<1>7. \A y \in Splits :
        /\ layout[y].panes = core.layout[y].panes
        /\ layout[y].at = IF whole /\ y = x THEN "open" ELSE core.layout[y].at
  <2>1. \A y \in Splits : core.layout[y] \in Layout
    BY <1>1
  <2>. QED BY <1>1, <1>3, <2>1 DEF Layout
<1>8. back \subseteq Tabs /\ \A u \in back : core.tab[u].at = "archived" /\ core.tab[u].split = x
  BY <1>1, <1>3 DEF Archived
<1>9. \A u \in Tabs : whole /\ core.tab[u].at # "nowhere" /\ core.tab[u].split = x => u \in back
  BY <1>1, <1>3 DEF Sound, TabsArePanes
<1>10. \A y \in Splits : \A u \in core.layout[y].panes : u \in Tabs /\ (u \in back <=> whole /\ y = x)
  <2>1. SUFFICES ASSUME NEW y \in Splits, NEW u \in core.layout[y].panes
        PROVE  u \in Tabs /\ (u \in back <=> whole /\ y = x)
    OBVIOUS
  <2>2. u \in Tabs
    BY <1>1 DEF Layout
  <2>3. u \in back => core.tab[u].split = y
    BY <1>1, <1>8, <2>2 DEF Sound, PanesAreTogether
  <2>. QED BY <1>3, <1>8, <2>2, <2>3, ConstantsAssumption
<1>. HIDE DEF tab, layout, back, whole, x
<1>11. /\ d \in Core /\ d.tab = tab /\ d.layout = layout /\ d.group = core.group
       /\ d.space = core.space /\ d.active = core.active
  BY <1>1, <1>4, <1>6, WithParts
<1>. HIDE DEF d
<1>12. Placed(d)
  BY <1>1, <1>5, <1>8, <1>11 DEF Sound, Placed
<1>13. TabsArePanes(d)
  <2>1. SUFFICES ASSUME NEW u \in Tabs, d.tab[u].at # "nowhere", d.tab[u].split # None
        PROVE  /\ u \in d.layout[d.tab[u].split].panes
               /\ d.layout[d.tab[u].split].at = Side(d.tab[u].at)
    BY DEF TabsArePanes
  <2>2. /\ core.tab[u].at # "nowhere" /\ core.tab[u].split = d.tab[u].split
        /\ d.tab[u].split \in Splits
    BY <1>1, <1>5, <1>8, <1>11, <2>1 DEF Tab
  <2>3. u \in core.layout[d.tab[u].split].panes /\ core.layout[d.tab[u].split].at = Side(core.tab[u].at)
    BY <1>1, <2>1, <2>2 DEF Sound, TabsArePanes
  <2>. QED BY <1>5, <1>7, <1>10, <1>11, <2>2, <2>3 DEF Side
<1>14. PanesAreTogether(d)
  BY <1>1, <1>5, <1>7, <1>8, <1>10, <1>11 DEF Sound, PanesAreTogether
<1>15. ViewsHaveSizes(d) /\ GroupsKeep(d)
  <2>1. whole => core.layout[x].at = "archived"
    BY DEF whole
  <2>. QED BY <1>1, <1>5, <1>7, <1>11, <2>1 DEF Sound, ViewsHaveSizes, GroupsKeep
<1>16. Sound(d)
  BY <1>11, <1>12, <1>13, <1>14, <1>15 DEF Sound
<1>17. t \in Open(d)
  BY <1>3, <1>5, <1>11 DEF Open
<1>18. Remembering(d, {d.tab[t].space})
  <2>1. Remembering(core, {})
    BY GoodParts
  <2>. QED BY <1>5, <1>8, <1>11, <2>1 DEF Remembering, OpenIn, Open, Live
<1>19. Good(core') /\ core'.tab = d.tab
  BY <1>2, <1>16, <1>17, <1>18, SelectedGood
<1>20. Kept(core, core')
  <2>1. \A u \in Open(core) : core'.tab[u].at = "open"
    BY <1>5, <1>8, <1>11, <1>19 DEF Open
  <2>2. ASSUME NEW y \in Splits, NEW u \in core.layout[y].panes, u \in Archived(core), u \in Open(core')
        PROVE  core.layout[y].panes \subseteq Open(core')
    <3>1. u \in back
      BY <1>5, <1>11, <1>19, <2>2 DEF Archived, Open
    <3>. QED BY <1>5, <1>10, <1>11, <1>19, <2>2, <3>1 DEF Open
  <2>. QED BY <2>1, <2>2 DEF Kept
<1>. QED BY <1>19, <1>20

-----------------------------------------------------------------------------
(* Split views: what each command comes to *)

\* Soundness, but for the size of one split view.
SoundBut(c, x) ==
  /\ c \in Core /\ Placed(c) /\ TabsArePanes(c) /\ PanesAreTogether(c) /\ GroupsKeep(c)
  /\ \A y \in Splits \ {x} :
       /\ c.layout[y].at # "nowhere" => Cardinality(c.layout[y].panes) \in 2..MaxPanes
       /\ c.layout[y].at = "nowhere" => c.layout[y].panes = {}

\* A new tab takes its place next to an open pane, where there is room.
LEMMA JoinedSound ==
  ASSUME NEW c, NEW x \in Splits, SoundBut(c, x), c.layout[x].at = "open",
         NEW a \in c.layout[x].panes, a \in Open(c),
         Cardinality(c.layout[x].panes) \in 1..(MaxPanes - 1),
         NEW t \in FreshTabs(c), NEW p \in Profiles
  PROVE  LET d == Joined(c, x, t, NewTab(c.tab[a].space, p)) IN
         /\ Sound(d) /\ d.space = c.space /\ d.active = c.active
         /\ t \in OpenIn(d, c.tab[a].space) /\ Still(c, d)
         /\ \A u \in Open(c) : u \in Open(d) /\ d.tab[u] = c.tab[u]
<1>. DEFINE s == c.tab[a].space
            new == [NewTab(s, p) EXCEPT !.split = x]
            tab == [c.tab EXCEPT ![t] = new]
            view == [c.layout[x] EXCEPT !.panes = @ \cup {t}]
            layout == [c.layout EXCEPT ![x] = view]
            d == With(c, tab, layout, c.group)
<1>1. /\ c \in Core /\ c.tab \in [Tabs -> Tab] /\ c.layout \in [Splits -> Layout]
      /\ c.group \in [Groups -> Spaces \cup {None}]
      /\ t \in Tabs /\ c.tab[t].at = "nowhere" /\ \A y \in Splits : t \notin c.layout[y].panes
      /\ a \in Tabs /\ c.tab[a].at = "open" /\ s \in Spaces /\ c.space[s].at = "live" /\ x # None
  BY ConstantsAssumption DEF SoundBut, FreshTabs, Core, Open, Placed
<1>2. /\ new \in Tab /\ new.at = "open" /\ new.space = s /\ new.profile = p
      /\ new.split = x /\ new.group = None
  BY <1>1 DEF NewTab, Tab, TabPlaces
<1>3. view \in Layout /\ view.at = "open" /\ view.panes = c.layout[x].panes \cup {t}
  <2>1. c.layout[x] \in Layout
    BY <1>1
  <2>. QED BY <1>1, <2>1 DEF Layout
<1>4. Joined(c, x, t, NewTab(s, p)) = d
  BY <1>1 DEF Joined, Added, With, Core
<1>. HIDE DEF new, view
<1>5. tab \in [Tabs -> Tab] /\ tab[t] = new /\ \A u \in Tabs : u # t => tab[u] = c.tab[u]
  BY <1>1, <1>2
<1>6. layout \in [Splits -> Layout] /\ layout[x] = view /\ \A y \in Splits : y # x => layout[y] = c.layout[y]
  BY <1>1, <1>3
<1>. HIDE DEF tab, layout, s
<1>7. /\ d \in Core /\ d.tab = tab /\ d.layout = layout /\ d.group = c.group
      /\ d.space = c.space /\ d.active = c.active
  BY <1>1, <1>5, <1>6, WithParts
<1>. HIDE DEF d
<1>8. Placed(d)
  BY <1>1, <1>2, <1>5, <1>7 DEF SoundBut, Placed
<1>9. TabsArePanes(d)
  <2>1. ASSUME NEW u \in Tabs, u # t, d.tab[u].at # "nowhere", d.tab[u].split # None
        PROVE  /\ u \in d.layout[d.tab[u].split].panes
               /\ d.layout[d.tab[u].split].at = Side(d.tab[u].at)
    <3>1. d.tab[u] = c.tab[u] /\ c.tab[u].split \in Splits
      BY <1>1, <1>5, <1>7, <2>1 DEF Tab
    <3>2. u \in c.layout[c.tab[u].split].panes /\ c.layout[c.tab[u].split].at = Side(c.tab[u].at)
      BY <2>1, <3>1 DEF SoundBut, TabsArePanes
    <3>. QED BY <1>3, <1>6, <1>7, <3>1, <3>2
  <2>2. t \in d.layout[x].panes /\ d.layout[x].at = "open" /\ d.tab[t].split = x /\ d.tab[t].at = "open"
    BY <1>2, <1>3, <1>5, <1>6, <1>7
  <2>. QED BY <2>1, <2>2 DEF TabsArePanes, Side
<1>10. PanesAreTogether(d)
  <2>1. ASSUME NEW y \in Splits, NEW u \in d.layout[y].panes
        PROVE  /\ d.tab[u].at # "nowhere" => d.tab[u].split = y
               /\ y = x => d.tab[u].at = "open" /\ d.tab[u].space = s
               /\ y # x => u \in c.layout[y].panes /\ d.tab[u] = c.tab[u]
    <3>1. u \in Tabs
      BY <1>1, <1>7 DEF Core, Layout
    <3>2. CASE u = t
      BY <1>1, <1>2, <1>3, <1>5, <1>6, <1>7, <3>2
    <3>3. CASE u # t
      <4>1. u \in c.layout[y].panes /\ d.tab[u] = c.tab[u]
        BY <1>3, <1>5, <1>6, <1>7, <2>1, <3>1, <3>3
      <4>. QED BY <1>1, <4>1 DEF SoundBut, PanesAreTogether, s
    <3>. QED BY <3>2, <3>3
  <2>2. ASSUME NEW y \in Splits, NEW v \in d.layout[y].panes, NEW u \in d.layout[y].panes
        PROVE  d.tab[u].at = d.tab[v].at /\ d.tab[u].space = d.tab[v].space
    <3>1. CASE y = x
      BY <2>1, <3>1
    <3>2. CASE y # x
      BY <2>1, <3>2 DEF SoundBut, PanesAreTogether
    <3>. QED BY <3>1, <3>2
  <2>. QED BY <2>1, <2>2 DEF PanesAreTogether
<1>11. ViewsHaveSizes(d)
  <2>1. Cardinality(view.panes) = Cardinality(c.layout[x].panes) + 1
    <3>1. c.layout[x].panes \subseteq Tabs
      BY <1>1 DEF Layout
    <3>2. IsFiniteSet(c.layout[x].panes)
      BY <3>1, ConstantsAssumption, FS_Subset
    <3>3. t \notin c.layout[x].panes
      BY <1>1
    <3>4. Cardinality(c.layout[x].panes \cup {t}) = Cardinality(c.layout[x].panes) + 1
      BY <3>2, <3>3, FS_AddElement
    <3>. QED BY <1>3, <3>4
  <2>2. Cardinality(view.panes) \in 2..MaxPanes
    BY <2>1, ConstantsAssumption
  <2>. QED BY <1>3, <1>6, <1>7, <2>2 DEF SoundBut, ViewsHaveSizes
<1>12. GroupsKeep(d)
  BY <1>2, <1>5, <1>7 DEF SoundBut, GroupsKeep
<1>13. Sound(d)
  BY <1>7, <1>8, <1>9, <1>10, <1>11, <1>12 DEF Sound
<1>14. t \in OpenIn(d, s) /\ Still(c, d) /\ \A u \in Open(c) : u \in Open(d) /\ d.tab[u] = c.tab[u]
  BY <1>1, <1>2, <1>5, <1>7 DEF OpenIn, Open, Still
<1>. QED BY <1>4, <1>7, <1>13, <1>14 DEF s

\* The active tab goes to a split view of its own, for a new pane.
LEMMA ForNewPaneSound ==
  ASSUME Good(core), NEW x \in FreshSplits(core)
  PROVE  LET d == ForNewPane(x) IN
         /\ SoundBut(d, x) /\ x \in Splits /\ d.layout[x].at = "open" /\ d.layout[x].panes = {core.active.tab}
         /\ d.space = core.space /\ d.active = core.active
         /\ \A t \in Tabs : /\ d.tab[t].at = core.tab[t].at /\ d.tab[t].space = core.tab[t].space
                            /\ d.tab[t].profile = core.tab[t].profile
         /\ \A t \in FreshTabs(core) : t \in FreshTabs(d)
<1>. DEFINE a == core.active.tab
            e == Detached(core, {a})
            tab == [e.tab EXCEPT ![a] = [e.tab[a] EXCEPT !.split = x]]
            view == [at |-> "open", panes |-> {a}, saved |-> FALSE]
            layout == [e.layout EXCEPT ![x] = view]
            d == With(e, tab, layout, e.group)
<1>1. /\ Sound(core) /\ core \in Core /\ a \in Tabs /\ core.tab[a].at = "open" /\ {a} \in SUBSET Open(core)
      /\ x \in Splits /\ x # None /\ core.layout[x].at = "nowhere" /\ \A t \in Tabs : core.tab[t].split # x
  BY GoodParts, ConstantsAssumption DEF FreshSplits
<1>2. /\ Sound(e) /\ e \in Core /\ e.space = core.space /\ e.active = core.active
  BY <1>1, DetachedParts, DetachedSound
<1>3. /\ \A t \in Tabs :
           /\ e.tab[t].at = core.tab[t].at /\ e.tab[t].space = core.tab[t].space
           /\ e.tab[t].profile = core.tab[t].profile
           /\ e.tab[t].split \in {core.tab[t].split, None}
           /\ t = a => e.tab[t].split = None
      /\ \A y \in Splits : e.layout[y].panes \subseteq core.layout[y].panes /\ a \notin e.layout[y].panes
  BY <1>1, DetachedFields
<1>4. view \in Layout /\ view.at = "open" /\ view.panes = {a}
  BY <1>1 DEF Layout
<1>. HIDE DEF e, view
<1>5. ForNewPane(x) = d
  <2>. USE DEF e, view
  <2>1. Detached(core, {core.active.tab}) \in Core
    BY <1>2
  <2>. HIDE DEF e
  <2>2. ForNewPane(x) = [e EXCEPT !.tab[a].split = x, !.layout[x] = view]
    BY DEF ForNewPane, e
  <2>. QED BY <1>2, <2>2 DEF With, Core
<1>6. /\ e.tab \in [Tabs -> Tab] /\ e.layout \in [Splits -> Layout] /\ e.group \in [Groups -> Spaces \cup {None}]
  BY <1>2 DEF Core
<1>7. /\ tab \in [Tabs -> Tab]
      /\ \A t \in Tabs : t # a => tab[t] = e.tab[t]
      /\ tab[a].at = e.tab[a].at /\ tab[a].space = e.tab[a].space /\ tab[a].profile = e.tab[a].profile
      /\ tab[a].group = e.tab[a].group /\ tab[a].split = x
  <2>1. e.tab[a] \in Tab
    BY <1>1, <1>6
  <2>2. [e.tab[a] EXCEPT !.split = x] \in Tab
    BY <1>1, <2>1 DEF Tab
  <2>. QED BY <1>1, <1>6, <2>1, <2>2 DEF Tab
<1>8. layout \in [Splits -> Layout] /\ layout[x] = view /\ \A y \in Splits : y # x => layout[y] = e.layout[y]
  BY <1>1, <1>4, <1>6
<1>. HIDE DEF tab, layout
<1>9. /\ d \in Core /\ d.tab = tab /\ d.layout = layout /\ d.group = e.group
      /\ d.space = core.space /\ d.active = core.active
  BY <1>2, <1>6, <1>7, <1>8, WithParts
<1>. HIDE DEF d, a
<1>10. Placed(d)
  BY <1>1, <1>2, <1>3, <1>7, <1>9 DEF Sound, Placed
<1>11. TabsArePanes(d)
  <2>1. ASSUME NEW u \in Tabs, u # a, d.tab[u].at # "nowhere", d.tab[u].split # None
        PROVE  /\ u \in d.layout[d.tab[u].split].panes
               /\ d.layout[d.tab[u].split].at = Side(d.tab[u].at)
    <3>1. d.tab[u] = e.tab[u] /\ e.tab[u].split \in Splits /\ e.tab[u].split # x
      BY <1>1, <1>3, <1>6, <1>7, <1>9, <2>1 DEF Tab
    <3>2. u \in e.layout[e.tab[u].split].panes /\ e.layout[e.tab[u].split].at = Side(e.tab[u].at)
      BY <1>2, <2>1, <3>1 DEF Sound, TabsArePanes
    <3>. QED BY <1>8, <1>9, <3>1, <3>2
  <2>2. a \in d.layout[x].panes /\ d.layout[x].at = "open" /\ d.tab[a].split = x /\ d.tab[a].at = "open"
    BY <1>1, <1>3, <1>4, <1>7, <1>8, <1>9
  <2>. QED BY <2>1, <2>2 DEF TabsArePanes, Side
<1>12. PanesAreTogether(d)
  <2>1. \A y \in Splits : y # x => \A u \in d.layout[y].panes : u \in e.layout[y].panes /\ d.tab[u] = e.tab[u]
    BY <1>3, <1>6, <1>7, <1>8, <1>9 DEF Layout
  <2>2. d.layout[x].panes = {a} /\ d.tab[a].split = x
    BY <1>4, <1>7, <1>8, <1>9
  <2>. QED BY <1>2, <2>1, <2>2 DEF Sound, PanesAreTogether
<1>13. GroupsKeep(d)
  BY <1>2, <1>7, <1>9 DEF Sound, GroupsKeep
<1>14. SoundBut(d, x)
  BY <1>2, <1>8, <1>9, <1>10, <1>11, <1>12, <1>13 DEF SoundBut, Sound, ViewsHaveSizes
<1>15. \A t \in Tabs : /\ d.tab[t].at = core.tab[t].at /\ d.tab[t].space = core.tab[t].space
                       /\ d.tab[t].profile = core.tab[t].profile
  BY <1>3, <1>7, <1>9
<1>16. \A t \in FreshTabs(core) : t \in FreshTabs(d)
  BY <1>1, <1>3, <1>4, <1>8, <1>9, <1>15 DEF FreshTabs
<1>. QED BY <1>1, <1>4, <1>5, <1>8, <1>9, <1>14, <1>15, <1>16 DEF a

\* To go to the pane that has joined.
LEMMA JoinedGood ==
  ASSUME Good(core), NEW c, c.space = core.space, c.active = core.active,
         \A t \in Tabs : c.tab[t].at = core.tab[t].at /\ c.tab[t].space = core.tab[t].space,
         NEW x \in Splits, SoundBut(c, x), c.layout[x].at = "open",
         core.active.tab \in c.layout[x].panes,
         Cardinality(c.layout[x].panes) \in 1..(MaxPanes - 1),
         NEW t \in FreshTabs(c), core' = Selected(Joined(c, x, t, NewTab(core.active.space, core.active.profile)), t)
  PROVE  Good(core') /\ Still(core, core')
<1>. DEFINE a == core.active.tab
            s == core.active.space
            d == Joined(c, x, t, NewTab(s, core.active.profile))
<1>1. /\ a \in Tabs /\ a \in Open(core) /\ a \in Open(c) /\ c.tab[a].space = s /\ core.active.profile \in Profiles
      /\ a \in c.layout[x].panes
  BY GoodParts DEF Open
<1>2. /\ Sound(d) /\ d.space = c.space
      /\ t \in OpenIn(d, s) /\ Still(c, d)
      /\ \A u \in Open(c) : u \in Open(d) /\ d.tab[u] = c.tab[u]
  <2>. HIDE DEF a, s
  <2>. QED BY <1>1, JoinedSound
<1>3. core' = Selected(d, t)
  OBVIOUS
<1>. HIDE DEF d
<1>4. t \in Open(d) /\ d.tab[t].space = s
  BY <1>2 DEF OpenIn
<1>5. Remembering(d, {s})
  <2>1. Remembering(core, {})
    BY GoodParts
  <2>2. \A u \in Open(core) : u \in Open(d) /\ d.tab[u].space = core.tab[u].space
    BY <1>2 DEF Open
  <2>. QED BY <1>2, <2>1, <2>2 DEF Remembering, OpenIn, Live
<1>6. Good(core') /\ core'.tab = d.tab
  BY <1>2, <1>3, <1>4, <1>5, SelectedGood
<1>. QED BY <1>2, <1>6 DEF Still

\* The active pane, and the split view it is of.
LEMMA InSplitParts ==
  ASSUME Good(core), InSplit
  PROVE  LET x == core.tab[core.active.tab].split IN
         /\ ActiveTab(core).split = x
         /\ x \in Splits /\ x # None /\ core.layout[x].at = "open" /\ core.active.tab \in core.layout[x].panes
         /\ core.layout[x] \in Layout
         /\ Cardinality(core.layout[x].panes) \in 2..MaxPanes
         /\ SoundBut(core, x)
<1>. DEFINE x == core.tab[core.active.tab].split
<1>1. Sound(core) /\ core \in Core /\ core.active.tab \in Tabs /\ core.tab[core.active.tab].at = "open"
  BY GoodParts
<1>2. x # None /\ core.layout[x].at = "open" /\ ActiveTab(core).split = x
  BY DEF InSplit, ActiveTab
<1>3. x \in Splits
  BY <1>1, <1>2 DEF Core, Tab
<1>4. core.active.tab \in core.layout[x].panes
  BY <1>1, <1>2, <1>3 DEF Sound, TabsArePanes
<1>5. core.layout[x] \in Layout
  BY <1>1, <1>3 DEF Core
<1>6. SoundBut(core, x) /\ Cardinality(core.layout[x].panes) \in 2..MaxPanes
  BY <1>1, <1>2, <1>3 DEF Sound, SoundBut, ViewsHaveSizes
<1>. QED BY <1>2, <1>3, <1>4, <1>5, <1>6

LEMMA SaveSplitGood ==
  ASSUME Good(core), SaveSplit
  PROVE  Good(core') /\ Still(core, core')
<1>. DEFINE x == core.tab[core.active.tab].split
            view == [core.layout[x] EXCEPT !.saved = TRUE]
            layout == [core.layout EXCEPT ![x] = view]
            d == With(core, core.tab, layout, core.group)
<1>1. /\ Sound(core) /\ core \in Core /\ core.tab \in [Tabs -> Tab] /\ core.layout \in [Splits -> Layout]
      /\ core.group \in [Groups -> Spaces \cup {None}]
  BY GoodParts DEF Core
<1>2. x \in Splits /\ core.layout[x] \in Layout /\ ActiveTab(core).split = x
  BY InSplitParts DEF SaveSplit
<1>3. view \in Layout /\ view.at = core.layout[x].at /\ view.panes = core.layout[x].panes
  BY <1>2 DEF Layout
<1>4. core' = d
  BY <1>1, <1>2 DEF SaveSplit, With, Core
<1>. HIDE DEF view
<1>5. /\ layout \in [Splits -> Layout]
      /\ \A y \in Splits : layout[y].at = core.layout[y].at /\ layout[y].panes = core.layout[y].panes
  BY <1>1, <1>2, <1>3
<1>. HIDE DEF layout
<1>6. /\ d \in Core /\ d.tab = core.tab /\ d.layout = layout /\ d.group = core.group
      /\ d.space = core.space /\ d.active = core.active
  BY <1>1, <1>5, WithParts
<1>. HIDE DEF d
<1>7. Placed(d) /\ GroupsKeep(d) /\ Still(core, d)
  BY <1>1, <1>6 DEF Sound, Placed, GroupsKeep, Still
<1>8. TabsArePanes(d)
  <2>1. \A t \in Tabs : core.tab[t].split \in Splits \cup {None}
    BY <1>1 DEF Tab
  <2>. QED BY <1>1, <1>5, <1>6, <2>1 DEF Sound, TabsArePanes
<1>9. PanesAreTogether(d) /\ ViewsHaveSizes(d)
  BY <1>1, <1>5, <1>6 DEF Sound, PanesAreTogether, ViewsHaveSizes
<1>10. Sound(d)
  BY <1>6, <1>7, <1>8, <1>9 DEF Sound
<1>11. Good(d)
  BY <1>6, <1>10, StaysGood
<1>. QED BY <1>4, <1>7, <1>11

LEMMA DetachPaneGood ==
  ASSUME Good(core), DetachPane
  PROVE  Good(core') /\ Still(core, core')
<1>. DEFINE d == Detached(core, {core.active.tab})
<1>1. Sound(core) /\ core \in Core /\ {core.active.tab} \in SUBSET Open(core) /\ core' = d
  BY GoodParts DEF DetachPane
<1>2. Sound(d) /\ d.space = core.space /\ d.active = core.active
  BY <1>1, DetachedParts, DetachedSound
<1>3. \A t \in Tabs : d.tab[t].at = core.tab[t].at /\ d.tab[t].space = core.tab[t].space
                      /\ d.tab[t].profile = core.tab[t].profile
  BY <1>1, DetachedFields
<1>. HIDE DEF d
<1>4. Good(d) /\ Still(core, d)
  BY <1>2, <1>3, StaysGood DEF Open, Still
<1>. QED BY <1>1, <1>4

LEMMA DuplicatePaneGood ==
  ASSUME Good(core), NEW t \in Tabs, DuplicatePane(t)
  PROVE  Good(core') /\ Still(core, core')
<1>. DEFINE x == core.tab[core.active.tab].split
<1>1. /\ ActiveTab(core).split = x /\ x \in Splits /\ core.layout[x].at = "open"
      /\ core.active.tab \in core.layout[x].panes /\ SoundBut(core, x)
      /\ Cardinality(core.layout[x].panes) \in 2..MaxPanes
  BY InSplitParts DEF DuplicatePane
<1>2. /\ t \in FreshTabs(core) /\ Cardinality(core.layout[x].panes) < MaxPanes
      /\ core' = Selected(Joined(core, x, t, NewTab(core.active.space, core.active.profile)), t)
  BY <1>1 DEF DuplicatePane
<1>. HIDE DEF x
<1>3. Cardinality(core.layout[x].panes) \in 1..(MaxPanes - 1)
  BY <1>1, <1>2, ConstantsAssumption
<1>. QED BY <1>1, <1>2, <1>3, JoinedGood

LEMMA SplitRightGood ==
  ASSUME Good(core), NEW x \in Splits, NEW t \in Tabs, SplitRight(x, t)
  PROVE  Good(core') /\ Still(core, core')
<1>. DEFINE y == core.tab[core.active.tab].split
            room == InSplit /\ Cardinality(core.layout[y].panes) < MaxPanes
            tab == NewTab(core.active.space, core.active.profile)
<1>1. NewTab(ActiveTab(core).space, ActiveTab(core).profile) = tab /\ ActiveTab(core).split = y
  BY GoodParts DEF ActiveTab
<1>2. /\ t \in FreshTabs(core)
      /\ IF room THEN x = y /\ core' = Selected(Joined(core, x, t, tab), t)
         ELSE x \in FreshSplits(core) /\ core' = Selected(Joined(ForNewPane(x), x, t, tab), t)
  BY <1>1 DEF SplitRight
<1>3. CASE room
  <2>1. /\ x \in Splits /\ core.layout[x].at = "open"
        /\ core.active.tab \in core.layout[x].panes /\ SoundBut(core, x)
        /\ Cardinality(core.layout[x].panes) \in 2..MaxPanes /\ Cardinality(core.layout[x].panes) < MaxPanes
    BY <1>2, <1>3, InSplitParts
  <2>2. Cardinality(core.layout[x].panes) \in 1..(MaxPanes - 1)
    BY <2>1, ConstantsAssumption
  <2>. QED BY <1>2, <1>3, <2>1, <2>2, JoinedGood
<1>4. CASE ~room
  <2>. DEFINE d == ForNewPane(x)
  <2>1. x \in FreshSplits(core) /\ core' = Selected(Joined(d, x, t, tab), t)
    BY <1>2, <1>4
  <2>2. /\ SoundBut(d, x) /\ d.layout[x].at = "open" /\ d.layout[x].panes = {core.active.tab}
        /\ d.space = core.space /\ d.active = core.active
        /\ \A u \in Tabs : d.tab[u].at = core.tab[u].at /\ d.tab[u].space = core.tab[u].space
        /\ t \in FreshTabs(d)
    BY <1>2, <2>1, ForNewPaneSound
  <2>. HIDE DEF d
  <2>3. Cardinality(d.layout[x].panes) \in 1..(MaxPanes - 1)
    <3>1. Cardinality(d.layout[x].panes) = 1
      BY <2>2, FS_Singleton
    <3>2. 1 \in 1..(MaxPanes - 1)
      BY ConstantsAssumption
    <3>. QED BY <3>1, <3>2
  <2>. QED BY <2>1, <2>2, <2>3, JoinedGood
<1>. QED BY <1>3, <1>4

-----------------------------------------------------------------------------
(* Groups: what each command comes to *)

\* The tabs get the group, or none, and the spaces of the groups are changed as well.
Regrouped(c, ts, g, group) == Grouped([c EXCEPT !.group = group], ts, g)

LEMMA GroupedParts ==
  ASSUME NEW c, Sound(c), NEW ts \in SUBSET Tabs, NEW g \in Groups \cup {None},
         NEW group \in [Groups -> Spaces \cup {None}]
  PROVE  LET d == Regrouped(c, ts, g, group) IN
         /\ d \in Core /\ d.layout = c.layout /\ d.space = c.space /\ d.active = c.active
         /\ d.profiles = c.profiles /\ d.group = group
         /\ \A t \in Tabs : /\ d.tab[t].at = c.tab[t].at /\ d.tab[t].space = c.tab[t].space
                            /\ d.tab[t].profile = c.tab[t].profile /\ d.tab[t].split = c.tab[t].split
                            /\ d.tab[t].group = IF t \in ts THEN g ELSE c.tab[t].group
                            /\ t \notin ts => d.tab[t] = c.tab[t]
<1>. DEFINE tab == [t \in Tabs |-> IF t \in ts THEN [c.tab[t] EXCEPT !.group = g] ELSE c.tab[t]]
            d == With(c, tab, c.layout, group)
<1>1. c \in Core /\ c.tab \in [Tabs -> Tab] /\ c.layout \in [Splits -> Layout]
  BY DEF Sound, Core
<1>2. Regrouped(c, ts, g, group) = d
  BY <1>1 DEF Regrouped, Grouped, With, Core
<1>3. /\ tab \in [Tabs -> Tab]
      /\ \A t \in Tabs : /\ tab[t].at = c.tab[t].at /\ tab[t].space = c.tab[t].space
                         /\ tab[t].profile = c.tab[t].profile /\ tab[t].split = c.tab[t].split
                         /\ tab[t].group = IF t \in ts THEN g ELSE c.tab[t].group
                         /\ t \notin ts => tab[t] = c.tab[t]
  <2>1. \A t \in Tabs : c.tab[t] \in Tab
    BY <1>1
  <2>. QED BY <1>1, <2>1 DEF Tab
<1>. HIDE DEF tab
<1>4. /\ d \in Core /\ d.tab = tab /\ d.layout = c.layout /\ d.group = group
      /\ d.space = c.space /\ d.profiles = c.profiles /\ d.active = c.active
  BY <1>1, <1>3, WithParts
<1>. QED BY <1>2, <1>3, <1>4

LEMMA GroupedInCore ==
  ASSUME NEW c, Sound(c), NEW ts \in SUBSET Tabs, NEW g \in Groups \cup {None}
  PROVE  Grouped(c, ts, g) \in Core
<1>. DEFINE group == c.group
<1>1. group \in [Groups -> Spaces \cup {None}] /\ [c EXCEPT !.group = group] = c
  BY DEF Sound, Core
<1>2. Grouped(c, ts, g) = Regrouped(c, ts, g, group)
  BY <1>1 DEF Regrouped
<1>. HIDE DEF group
<1>. QED BY <1>1, <1>2, GroupedParts

\* Open tabs of the active space come to a group of it, be it new or not.
LEMMA TakenIntoGroup ==
  ASSUME Good(core), NEW g \in Groups, g \in GroupsHere \cup FreshGroups(core),
         NEW ts \in SUBSET OpenIn(core, core.active.space),
         core' = Grouped([core EXCEPT !.group[g] = core.active.space], ts, g)
  PROVE  Good(core') /\ Still(core, core')
<1>. DEFINE s == core.active.space
            group == [core.group EXCEPT ![g] = s]
            d == Regrouped(core, ts, g, group)
<1>1. /\ Sound(core) /\ core \in Core /\ s \in Spaces /\ core.group \in [Groups -> Spaces \cup {None}]
      /\ ts \in SUBSET Tabs /\ \A t \in ts : core.tab[t].at = "open" /\ core.tab[t].space = s
  BY GoodParts DEF Core, OpenIn, Open
<1>2. core' = d
  BY <1>1 DEF Regrouped, Core
<1>3. /\ group \in [Groups -> Spaces \cup {None}] /\ group[g] = s
      /\ \A h \in Groups : h # g => group[h] = core.group[h]
  BY <1>1
<1>. HIDE DEF group, s
<1>4. /\ d \in Core /\ d.layout = core.layout /\ d.space = core.space /\ d.active = core.active
      /\ d.group = group
      /\ \A t \in Tabs : /\ d.tab[t].at = core.tab[t].at /\ d.tab[t].space = core.tab[t].space
                         /\ d.tab[t].profile = core.tab[t].profile /\ d.tab[t].split = core.tab[t].split
                         /\ d.tab[t].group = IF t \in ts THEN g ELSE core.tab[t].group
                         /\ t \notin ts => d.tab[t] = core.tab[t]
  BY <1>1, <1>3, GroupedParts
<1>. HIDE DEF d
<1>5. GroupsKeep(d)
  <2>1. SUFFICES ASSUME NEW t \in Tabs, d.tab[t].group # None, d.group[d.tab[t].group] # None
        PROVE  d.group[d.tab[t].group] = d.tab[t].space
    BY DEF GroupsKeep
  <2>2. CASE t \in ts
    BY <1>1, <1>3, <1>4, <2>2
  <2>3. CASE t \notin ts /\ core.tab[t].group = g
    <3>1. core.group[g] = s
      BY <1>1, <2>3 DEF GroupsHere, FreshGroups, s
    <3>2. core.tab[t].space = s
      BY <1>1, <2>1, <2>3, <1>3, <1>4, <3>1, ConstantsAssumption DEF Sound, GroupsKeep
    <3>. QED BY <1>3, <1>4, <2>3, <3>2
  <2>4. CASE t \notin ts /\ core.tab[t].group # g
    <3>1. core.tab[t].group \in Groups
      BY <1>1, <1>4, <2>1, <2>4 DEF Core, Tab
    <3>. QED BY <1>1, <1>3, <1>4, <2>1, <2>4, <3>1 DEF Sound, GroupsKeep
  <2>. QED BY <2>2, <2>3, <2>4
<1>6. \A t \in Tabs : core.tab[t].at = "nowhere" => d.tab[t] = core.tab[t]
  BY <1>1, <1>4
<1>. QED BY <1>1, <1>2, <1>4, <1>5, <1>6, GroupedSound

\* Tabs leave their group, which may go.
LEMMA TakenOutOfGroup ==
  ASSUME NEW c, Sound(c), NEW ts \in SUBSET Open(c),
         NEW group \in [Groups -> Spaces \cup {None}],
         \A h \in Groups : group[h] \in {c.group[h], None}
  PROVE  LET d == Regrouped(c, ts, None, group) IN
         /\ Sound(d) /\ Still(c, d) /\ (Good(c) => Good(d)) /\ d.layout = c.layout /\ d.active = c.active
         /\ d.space = c.space /\ d.group = group
         /\ \A t \in Tabs : /\ d.tab[t].at = c.tab[t].at /\ d.tab[t].space = c.tab[t].space
                            /\ d.tab[t].profile = c.tab[t].profile /\ d.tab[t].split = c.tab[t].split
<1>. DEFINE d == Regrouped(c, ts, None, group)
<1>1. c \in Core /\ ts \in SUBSET Tabs /\ \A t \in ts : c.tab[t].at = "open"
  BY DEF Sound, Open
<1>2. /\ d \in Core /\ d.layout = c.layout /\ d.space = c.space /\ d.active = c.active /\ d.group = group
      /\ \A t \in Tabs : /\ d.tab[t].at = c.tab[t].at /\ d.tab[t].space = c.tab[t].space
                         /\ d.tab[t].profile = c.tab[t].profile /\ d.tab[t].split = c.tab[t].split
                         /\ d.tab[t].group = IF t \in ts THEN None ELSE c.tab[t].group
                         /\ t \notin ts => d.tab[t] = c.tab[t]
  BY <1>1, GroupedParts
<1>. HIDE DEF d
<1>3. GroupsKeep(d)
  <2>1. \A t \in Tabs : c.tab[t].group \in Groups \cup {None}
    BY <1>1 DEF Core, Tab
  <2>. QED BY <1>2, <2>1 DEF Sound, GroupsKeep
<1>4. \A t \in Tabs : c.tab[t].at = "nowhere" => d.tab[t] = c.tab[t]
  BY <1>1, <1>2
<1>5. Sound(d) /\ Still(c, d) /\ (Good(c) => Good(d))
  BY <1>2, <1>3, <1>4, GroupedSound
<1>. QED BY <1>2, <1>5 DEF d

LEMMA GroupActiveGood ==
  ASSUME Good(core), NEW g \in Groups, GroupActive(g)
  PROVE  Good(core') /\ Still(core, core')
<1>1. {core.active.tab} \in SUBSET OpenIn(core, core.active.space)
  BY GoodParts DEF OpenIn
<1>. QED BY <1>1, TakenIntoGroup DEF GroupActive

LEMMA AutoGroupGood ==
  ASSUME Good(core), NEW g \in Groups, NEW ts \in SUBSET Tabs, AutoGroup(g, ts)
  PROVE  Good(core') /\ Still(core, core')
<1>1. ts \in SUBSET OpenIn(core, core.active.space)
  BY DEF AutoGroup
<1>. QED BY <1>1, TakenIntoGroup DEF AutoGroup

LEMMA UngroupGood ==
  ASSUME Good(core), Ungroup
  PROVE  Good(core') /\ Still(core, core')
<1>1. /\ Sound(core) /\ core \in Core /\ {core.active.tab} \in SUBSET Open(core)
      /\ core.group \in [Groups -> Spaces \cup {None}]
  BY GoodParts DEF Core
<1>2. [core EXCEPT !.group = core.group] = core
  BY <1>1 DEF Core
<1>3. core' = Regrouped(core, {core.active.tab}, None, core.group)
  BY <1>2 DEF Ungroup, Regrouped
<1>. QED BY <1>1, <1>3, TakenOutOfGroup

LEMMA CloseGroupGood ==
  ASSUME Good(core), NEW closed \in SUBSET Tabs, CloseGroup(closed)
  PROVE  Good(core') /\ Kept(core, core')
<1>. DEFINE g == core.tab[core.active.tab].group
            s == core.active.space
            group == [core.group EXCEPT ![g] = None]
            ts == GroupTabs(g)
            d == Regrouped(core, ts, None, group)
<1>1. /\ Sound(core) /\ core \in Core /\ core.group \in [Groups -> Spaces \cup {None}]
      /\ s \in Live(core) /\ ActiveTab(core).group = g
  BY GoodParts DEF Core, ActiveTab
<1>2. ts \in SUBSET Open(core) /\ closed \in SUBSET OpenIn(core, s)
  BY <1>1 DEF CloseGroup, GroupTabs, OpenIn
<1>3. /\ group \in [Groups -> Spaces \cup {None}]
      /\ \A h \in Groups : group[h] \in {core.group[h], None}
  BY <1>1
<1>4. core' \in Closed(d, closed, s)
  <2>1. [Grouped(core, ts, None) EXCEPT !.group[g] = None] = d
    BY <1>1 DEF Regrouped, Grouped, Core
  <2>. QED BY <1>1, <2>1 DEF CloseGroup
<1>. HIDE DEF group, ts, s
<1>5. /\ Sound(d) /\ Still(core, d) /\ Good(d) /\ d.layout = core.layout /\ d.space = core.space
      /\ \A t \in Tabs : d.tab[t].at = core.tab[t].at /\ d.tab[t].space = core.tab[t].space
                         /\ d.tab[t].split = core.tab[t].split
  BY <1>1, <1>2, <1>3, TakenOutOfGroup
<1>. HIDE DEF d
<1>6. s \in Live(d) /\ closed \in SUBSET OpenIn(d, s)
  BY <1>1, <1>2, <1>5 DEF Live, OpenIn, Open
<1>7. /\ Good(core')
      /\ \A t \in Tabs : /\ t \in Gone(d, closed) => core'.tab[t].at = "archived"
                         /\ t \notin Gone(d, closed) /\ d.tab[t].at = "open" => core'.tab[t].at = "open"
                         /\ d.tab[t].at = "archived" => core'.tab[t].at = "archived"
  BY <1>4, <1>5, <1>6, ClosedGood
<1>8. Kept(d, core')
  <2>. HIDE DEF g
  <2>1. Sound(d) /\ closed \in SUBSET OpenIn(d, s)
    BY <1>5, <1>6
  <2>. QED BY <1>7, <2>1, GoneIsKept
<1>9. Kept(core, core')
  BY <1>5, <1>8 DEF Kept, Open, Archived
<1>. QED BY <1>7, <1>9

LEMMA SplitGroupGood ==
  ASSUME Good(core), NEW x \in Splits, SplitGroup(x)
  PROVE  Good(core') /\ Still(core, core')
<1>. DEFINE g == core.tab[core.active.tab].group
            s == core.active.space
            ts == GroupTabs(g)
            c == Detached(core, ts)
            group == [c.group EXCEPT ![g] = None]
            e == Regrouped(c, ts, None, group)
            tab == [t \in Tabs |-> IF t \in ts THEN [e.tab[t] EXCEPT !.split = x] ELSE e.tab[t]]
            view == [at |-> "open", panes |-> ts, saved |-> FALSE]
            layout == [e.layout EXCEPT ![x] = view]
            d == With(e, tab, layout, e.group)
<1>1. /\ Sound(core) /\ core \in Core /\ x # None /\ ActiveTab(core).group = g
      /\ core.layout[x].at = "nowhere" /\ \A t \in Tabs : core.tab[t].split # x
      /\ ts \in SUBSET Open(core) /\ ts \subseteq Tabs
      /\ \A t \in ts : core.tab[t].at = "open" /\ core.tab[t].space = s
      /\ Cardinality(ts) \in 2..MaxPanes
  BY GoodParts, ConstantsAssumption DEF SplitGroup, FreshSplits, ActiveTab, GroupTabs, OpenIn, Open
<1>2. /\ Sound(c) /\ c \in Core /\ c.space = core.space /\ c.active = core.active
      /\ c.group \in [Groups -> Spaces \cup {None}]
  BY <1>1, DetachedParts, DetachedSound DEF Core
<1>3. /\ \A t \in Tabs :
           /\ c.tab[t].at = core.tab[t].at /\ c.tab[t].space = core.tab[t].space
           /\ c.tab[t].profile = core.tab[t].profile
           /\ c.tab[t].split \in {core.tab[t].split, None}
           /\ t \in ts => c.tab[t].split = None
      /\ \A y \in Splits : c.layout[y].panes \subseteq core.layout[y].panes /\ c.layout[y].panes \cap ts = {}
  <2>. HIDE DEF ts
  <2>. QED BY <1>1, DetachedFields
<1>4. core' = d
  <2>1. c.group = core.group
    BY <1>1, DetachedParts
  <2>2. Grouped(c, ts, None) \in Core
    <3>. HIDE DEF c, ts, g, s
    <3>. QED BY <1>1, <1>2, GroupedInCore
  <2>4. core' = [Grouped(c, ts, None) EXCEPT
                   !.tab = [t \in Tabs |-> IF t \in ts THEN [@[t] EXCEPT !.split = x] ELSE @[t]],
                   !.group[g] = None, !.layout[x] = view]
    BY <1>1 DEF SplitGroup
  <2>. HIDE DEF c
  <2>5. e = [Grouped(c, ts, None) EXCEPT !.group = group]
    BY <1>2 DEF Regrouped, Grouped, Core
  <2>. DEFINE f == Grouped(c, ts, None)
  <2>6. f.group = c.group
    BY <1>2 DEF Grouped, Core
  <2>. HIDE DEF f, e, ts, view
  <2>. QED BY <2>2, <2>4, <2>5, <2>6 DEF With, Core, f
<1>. HIDE DEF c, s
<1>5. ts \in SUBSET Open(c)
  BY <1>1, <1>3 DEF Open
<1>6. /\ group \in [Groups -> Spaces \cup {None}]
      /\ \A h \in Groups : group[h] \in {c.group[h], None}
  BY <1>2
<1>. HIDE DEF group, ts
<1>7. /\ Sound(e) /\ e.layout = c.layout /\ e.active = c.active /\ e.space = c.space
      /\ \A t \in Tabs : /\ e.tab[t].at = c.tab[t].at /\ e.tab[t].space = c.tab[t].space
                         /\ e.tab[t].profile = c.tab[t].profile /\ e.tab[t].split = c.tab[t].split
  BY <1>2, <1>5, <1>6, TakenOutOfGroup
<1>. HIDE DEF e
<1>8. /\ e \in Core /\ e.tab \in [Tabs -> Tab] /\ e.layout \in [Splits -> Layout]
      /\ e.group \in [Groups -> Spaces \cup {None}]
  BY <1>7 DEF Sound, Core
<1>9. view \in Layout /\ view.at = "open" /\ view.panes = ts
  BY <1>1 DEF Layout
<1>. HIDE DEF view
<1>10. /\ tab \in [Tabs -> Tab]
       /\ \A t \in Tabs : /\ tab[t].at = e.tab[t].at /\ tab[t].space = e.tab[t].space
                          /\ tab[t].profile = e.tab[t].profile /\ tab[t].group = e.tab[t].group
                          /\ tab[t].split = IF t \in ts THEN x ELSE e.tab[t].split
                          /\ t \notin ts => tab[t] = e.tab[t]
  <2>1. \A t \in Tabs : e.tab[t] \in Tab
    BY <1>8
  <2>. QED BY <2>1 DEF Tab
<1>11. layout \in [Splits -> Layout] /\ layout[x] = view /\ \A y \in Splits : y # x => layout[y] = e.layout[y]
  BY <1>8, <1>9
<1>. HIDE DEF tab, layout
<1>12. /\ d \in Core /\ d.tab = tab /\ d.layout = layout /\ d.group = e.group
       /\ d.space = core.space /\ d.active = core.active
  BY <1>2, <1>7, <1>8, <1>10, <1>11, WithParts
<1>. HIDE DEF d
<1>13. Placed(d)
  <2>1. Placed(e)
    BY <1>7 DEF Sound
  <2>2. ASSUME NEW t \in Tabs
        PROVE  /\ d.tab[t].at = e.tab[t].at /\ d.tab[t].space = e.tab[t].space
               /\ d.tab[t].profile = e.tab[t].profile
               /\ e.tab[t].at = "nowhere" => d.tab[t] = e.tab[t]
    <3>1. t \in ts => core.tab[t].at = "open"
      BY <1>1, <1>2, <1>3, <1>5, <1>7 DEF Open
    <3>2. e.tab[t].at = core.tab[t].at
      BY <1>3, <1>7
    <3>. QED BY <1>10, <1>12, <3>1, <3>2
  <2>3. d.space = e.space
    BY <1>2, <1>7, <1>12
  <2>. QED BY <2>1, <2>2, <2>3 DEF Placed
<1>14. TabsArePanes(d)
  <2>1. ASSUME NEW u \in Tabs, u \notin ts, d.tab[u].at # "nowhere", d.tab[u].split # None
        PROVE  /\ u \in d.layout[d.tab[u].split].panes
               /\ d.layout[d.tab[u].split].at = Side(d.tab[u].at)
    <3>1. d.tab[u] = e.tab[u] /\ e.tab[u].split \in Splits /\ e.tab[u].split # x
      BY <1>1, <1>3, <1>7, <1>8, <1>10, <1>12, <2>1 DEF Tab
    <3>2. u \in e.layout[e.tab[u].split].panes /\ e.layout[e.tab[u].split].at = Side(e.tab[u].at)
      BY <1>7, <2>1, <3>1 DEF Sound, TabsArePanes
    <3>. QED BY <1>11, <1>12, <3>1, <3>2
  <2>2. \A u \in ts : u \in d.layout[x].panes /\ d.layout[x].at = "open" /\ d.tab[u].split = x /\ d.tab[u].at = "open"
    BY <1>1, <1>3, <1>7, <1>9, <1>10, <1>11, <1>12
  <2>. QED BY <2>1, <2>2 DEF TabsArePanes, Side
<1>15. PanesAreTogether(d)
  <2>1. \A y \in Splits : y # x => \A u \in d.layout[y].panes : u \in e.layout[y].panes /\ d.tab[u] = e.tab[u]
    <3>1. \A y \in Splits : \A u \in e.layout[y].panes : u \in Tabs /\ u \notin ts
      BY <1>3, <1>7, <1>8 DEF Layout
    <3>. QED BY <1>10, <1>11, <1>12, <3>1
  <2>2. d.layout[x].panes = ts /\ \A u \in ts : d.tab[u].split = x /\ d.tab[u].at = "open" /\ d.tab[u].space = s
    BY <1>1, <1>3, <1>7, <1>9, <1>10, <1>11, <1>12
  <2>. QED BY <1>7, <2>1, <2>2 DEF Sound, PanesAreTogether
<1>16. ViewsHaveSizes(d)
  BY <1>1, <1>7, <1>9, <1>11, <1>12 DEF Sound, ViewsHaveSizes
<1>17. GroupsKeep(d)
  BY <1>7, <1>10, <1>12 DEF Sound, GroupsKeep
<1>18. Sound(d)
  BY <1>12, <1>13, <1>14, <1>15, <1>16, <1>17 DEF Sound
<1>19. \A t \in Tabs : d.tab[t].at = core.tab[t].at /\ d.tab[t].space = core.tab[t].space
                       /\ d.tab[t].profile = core.tab[t].profile
  BY <1>3, <1>7, <1>10, <1>12
<1>20. Good(d) /\ Still(core, d)
  BY <1>12, <1>18, <1>19, StaysGood DEF Open, Still
<1>. QED BY <1>4, <1>20

LEMMA GroupSplitGood ==
  ASSUME Good(core), NEW g \in Groups, GroupSplit(g)
  PROVE  Good(core') /\ Still(core, core')
<1>. DEFINE x == core.tab[core.active.tab].split
            s == core.active.space
            ts == core.layout[x].panes
            tab == [t \in Tabs |-> IF t \in ts THEN [core.tab[t] EXCEPT !.group = g, !.split = None]
                                   ELSE core.tab[t]]
            layout == [core.layout EXCEPT ![x] = NoLayout]
            group == [core.group EXCEPT ![g] = s]
            d == With(core, tab, layout, group)
<1>1. /\ Sound(core) /\ core \in Core /\ s \in Spaces /\ core.tab \in [Tabs -> Tab]
      /\ core.layout \in [Splits -> Layout] /\ core.group \in [Groups -> Spaces \cup {None}]
  BY GoodParts DEF Core
<1>2. /\ x \in Splits /\ x # None /\ core.layout[x].at = "open" /\ ActiveTab(core).split = x
      /\ ts \subseteq Tabs /\ \A t \in Tabs : core.tab[t].group # g
      /\ \A t \in ts : core.tab[t].at = "open" /\ core.tab[t].space = s /\ core.tab[t].split = x
  <2>1. /\ x \in Splits /\ x # None /\ core.layout[x].at = "open" /\ ActiveTab(core).split = x
    BY InSplitParts DEF GroupSplit
  <2>2. \A t \in Tabs : core.tab[t].group # g
    BY DEF GroupSplit, FreshGroups
  <2>3. ts \subseteq Tabs
    BY <1>1, <2>1 DEF Layout
  <2>4. \A t \in ts : core.tab[t].at = "open" /\ core.tab[t].space = s
    BY <2>1 DEF GroupSplit, OpenIn, Open
  <2>. QED BY <1>1, <2>1, <2>2, <2>3, <2>4 DEF Sound, PanesAreTogether
<1>3. core' = d
  <2>1. core' = [Grouped(core, ts, g) EXCEPT
                   !.tab = [t \in Tabs |-> IF t \in ts THEN [@[t] EXCEPT !.split = None] ELSE @[t]],
                   !.group[g] = s, !.layout[x] = NoLayout]
    BY <1>2 DEF GroupSplit
  <2>2. \A t \in Tabs : [[core.tab[t] EXCEPT !.group = g] EXCEPT !.split = None]
                          = [core.tab[t] EXCEPT !.group = g, !.split = None]
    OBVIOUS
  <2>3. tab = [t \in Tabs |-> IF t \in ts THEN [Grouped(core, ts, g).tab[t] EXCEPT !.split = None]
                              ELSE Grouped(core, ts, g).tab[t]]
    BY <1>1, <2>2 DEF Grouped, Core
  <2>4. /\ Grouped(core, ts, g).group = core.group /\ Grouped(core, ts, g).layout = core.layout
        /\ core' = [Grouped(core, ts, g) EXCEPT !.tab = tab, !.layout = layout, !.group = group]
    <3>1. Grouped(core, ts, g).group = core.group /\ Grouped(core, ts, g).layout = core.layout
      BY <1>1 DEF Grouped, Core
    <3>2. Grouped(core, ts, g) \in Core
      <4>. HIDE DEF ts, x, s
      <4>. QED BY <1>1, <1>2, GroupedInCore
    <3>. DEFINE f == Grouped(core, ts, g)
    <3>. HIDE DEF tab, f, ts, s, x
    <3>. QED BY <2>1, <2>3, <3>1, <3>2 DEF f, Core
  <2>. HIDE DEF tab, layout, group
  <2>. QED BY <1>1, <2>4 DEF With, Grouped, Core
<1>4. /\ tab \in [Tabs -> Tab]
      /\ \A t \in Tabs : /\ tab[t].at = core.tab[t].at /\ tab[t].space = core.tab[t].space
                         /\ tab[t].profile = core.tab[t].profile
                         /\ t \in ts => tab[t].group = g /\ tab[t].split = None
                         /\ t \notin ts => tab[t] = core.tab[t]
  <2>1. \A t \in Tabs : core.tab[t] \in Tab
    BY <1>1
  <2>. QED BY <2>1 DEF Tab
<1>5. /\ layout \in [Splits -> Layout] /\ layout[x].at = "nowhere" /\ layout[x].panes = {}
      /\ \A y \in Splits : y # x => layout[y] = core.layout[y]
  <2>1. NoLayout \in Layout
    BY DEF NoLayout, Layout
  <2>. QED BY <1>1, <1>2, <2>1, NoLayoutParts
<1>6. /\ group \in [Groups -> Spaces \cup {None}] /\ group[g] = s
      /\ \A h \in Groups : h # g => group[h] = core.group[h]
  BY <1>1
<1>. HIDE DEF tab, layout, group
<1>7. /\ d \in Core /\ d.tab = tab /\ d.layout = layout /\ d.group = group
      /\ d.space = core.space /\ d.active = core.active
  BY SMTT(30), <1>1, <1>4, <1>5, <1>6, WithParts
<1>8. \A t \in Tabs : core.tab[t].at # "nowhere" /\ core.tab[t].split = x => t \in ts
  BY <1>1, <1>2 DEF Sound, TabsArePanes
<1>9. \A y \in Splits : y # x => \A t \in core.layout[y].panes : t \in Tabs /\ t \notin ts
  <2>. SUFFICES ASSUME NEW y \in Splits, y # x, NEW t \in core.layout[y].panes
                PROVE  t \in Tabs /\ t \notin ts
    OBVIOUS
  <2>1. t \in Tabs
    BY <1>1 DEF Layout
  <2>2. core.tab[t].at # "nowhere" => core.tab[t].split = y
    BY <1>1 DEF Sound, PanesAreTogether
  <2>. HIDE DEF ts, x, s
  <2>. QED BY <1>2, <2>1, <2>2
<1>. HIDE DEF d, ts, s, x
<1>10. Placed(d)
  BY <1>1, <1>2, <1>4, <1>7 DEF Sound, Placed
<1>11. TabsArePanes(d)
  <2>1. SUFFICES ASSUME NEW u \in Tabs, d.tab[u].at # "nowhere", d.tab[u].split # None
        PROVE  /\ u \in d.layout[d.tab[u].split].panes
               /\ d.layout[d.tab[u].split].at = Side(d.tab[u].at)
    BY DEF TabsArePanes
  <2>2. u \notin ts /\ d.tab[u] = core.tab[u]
    BY <1>4, <1>7, <2>1
  <2>3. core.tab[u].split \in Splits /\ core.tab[u].split # x
    BY <1>1, <1>8, <2>1, <2>2 DEF Tab
  <2>. QED BY <1>1, <1>5, <1>7, <2>1, <2>2, <2>3 DEF Sound, TabsArePanes
<1>12. PanesAreTogether(d)
  BY <1>1, <1>4, <1>5, <1>7, <1>9 DEF Sound, PanesAreTogether
<1>13. ViewsHaveSizes(d)
  BY <1>1, <1>5, <1>7 DEF Sound, ViewsHaveSizes
<1>14. GroupsKeep(d)
  <2>1. \A t \in Tabs : core.tab[t].group \in Groups \cup {None}
    BY <1>1 DEF Tab
  <2>. QED BY <1>1, <1>2, <1>4, <1>6, <1>7, <2>1 DEF Sound, GroupsKeep
<1>15. Sound(d)
  BY <1>7, <1>10, <1>11, <1>12, <1>13, <1>14 DEF Sound
<1>16. Good(d) /\ Still(core, d)
  BY <1>4, <1>7, <1>15, StaysGood DEF Open, Still
<1>. QED BY <1>3, <1>16

-----------------------------------------------------------------------------
(* Spaces and profiles: what each command comes to *)

\* Other spaces and tabs, and the rest as it was.
WithSpaces(c, space, tab) == [c EXCEPT !.space = space, !.tab = tab]

LEMMA WithSpacesParts ==
  ASSUME NEW c \in Core, NEW space \in [Spaces -> Space], NEW tab \in [Tabs -> Tab]
  PROVE  LET d == WithSpaces(c, space, tab) IN
         /\ d \in Core /\ d.space = space /\ d.tab = tab /\ d.layout = c.layout
         /\ d.group = c.group /\ d.profiles = c.profiles /\ d.active = c.active
  BY DEF WithSpaces, Core

\* There is another space, which remembers a tab that is not there yet.
LEMMA SpaceMade ==
  ASSUME NEW c, Sound(c), NEW s \in Spaces, c.space[s].at = "nowhere", NEW p \in Profiles, NEW t \in Tabs
  PROVE  LET d == [c EXCEPT !.space[s] = [at |-> "live", home |-> p, last |-> t]] IN
         /\ Sound(d) /\ d.tab = c.tab /\ d.layout = c.layout /\ d.active = c.active
         /\ s \in Live(d) /\ \A r \in Spaces : r # s => d.space[r] = c.space[r]
<1>. DEFINE new == [at |-> "live", home |-> p, last |-> t]
            space == [c.space EXCEPT ![s] = new]
            d == WithSpaces(c, space, c.tab)
<1>1. c \in Core /\ c.space \in [Spaces -> Space] /\ c.tab \in [Tabs -> Tab]
  BY DEF Sound, Core
<1>2. new \in Space /\ new.at = "live" /\ new.home = p
  BY DEF Space
<1>3. [c EXCEPT !.space[s] = [at |-> "live", home |-> p, last |-> t]] = d
  BY <1>1 DEF WithSpaces, Core
<1>. HIDE DEF new
<1>4. space \in [Spaces -> Space] /\ space[s] = new /\ \A r \in Spaces : r # s => space[r] = c.space[r]
  BY <1>1, <1>2
<1>. HIDE DEF space
<1>5. /\ d \in Core /\ d.space = space /\ d.tab = c.tab /\ d.layout = c.layout
      /\ d.group = c.group /\ d.active = c.active
  BY <1>1, <1>4, WithSpacesParts
<1>. HIDE DEF d
<1>6. Placed(d)
  <2>1. \A u \in Tabs : c.tab[u].at # "nowhere" => c.tab[u].space \in Spaces /\ c.tab[u].space # s
    BY <1>1 DEF Sound, Placed, Tab, TabPlaces
  <2>. QED BY <1>2, <1>4, <1>5, <2>1 DEF Sound, Placed
<1>7. TabsArePanes(d) /\ PanesAreTogether(d) /\ ViewsHaveSizes(d) /\ GroupsKeep(d)
  BY <1>5 DEF Sound, TabsArePanes, PanesAreTogether, ViewsHaveSizes, GroupsKeep
<1>8. Sound(d) /\ s \in Live(d)
  BY <1>2, <1>4, <1>5, <1>6, <1>7 DEF Sound, Live
<1>. QED BY <1>3, <1>4, <1>5, <1>8

LEMMA CreateSpaceGood ==
  ASSUME Good(core), NEW s \in Spaces, NEW t \in Tabs, CreateSpace(s, t)
  PROVE  Good(core') /\ Still(core, core')
<1>. DEFINE home == IF core.active.profile \in Private THEN core.space[core.active.space].home
                    ELSE core.active.profile
            made == [at |-> "live", home |-> home, last |-> t]
            c == [core EXCEPT !.space[s] = made]
            d == Added(c, t, NewTab(s, home))
<1>1. /\ Sound(core) /\ core \in Core /\ core.space[s].at = "nowhere" /\ t \in FreshTabs(core)
      /\ core.tab[t].at = "nowhere"
  BY GoodParts DEF CreateSpace, FreshTabs
<1>2. home \in Profiles
  <2>1. core.space[core.active.space].home \in Profiles
    BY GoodParts DEF Sound, Placed, Live
  <2>. QED BY <2>1, GoodParts
<1>3. core' = Selected(d, t)
  <2>1. core' = Selected([Added(core, t, NewTab(s, home)) EXCEPT !.space[s] = made], t)
    BY DEF CreateSpace
  <2>. HIDE DEF home, made
  <2>2. [Added(core, t, NewTab(s, home)) EXCEPT !.space[s] = made] = d
    BY <1>1 DEF Added, Core
  <2>. QED BY <2>1, <2>2
<1>. HIDE DEF home
<1>4. /\ Sound(c) /\ c.tab = core.tab /\ c.layout = core.layout /\ c.active = core.active
      /\ s \in Live(c) /\ \A r \in Spaces : r # s => c.space[r] = core.space[r]
  BY <1>1, <1>2, SpaceMade
<1>. HIDE DEF c
<1>5. t \in FreshTabs(c)
  BY <1>1, <1>4 DEF FreshTabs
<1>6. /\ Sound(d) /\ d.space = c.space /\ t \in OpenIn(d, s) /\ Still(c, d)
      /\ \A u \in Open(c) : u \in Open(d) /\ d.tab[u] = c.tab[u]
  BY <1>2, <1>4, <1>5, AddedSound
<1>. HIDE DEF d
<1>7. t \in Open(d) /\ d.tab[t].space = s
  BY <1>6 DEF OpenIn
<1>8. Remembering(d, {s})
  <2>1. Remembering(core, {})
    BY GoodParts
  <2>2. \A r \in Live(d) \ {s} : r \in Live(core) /\ d.space[r].last \in OpenIn(core, r)
    BY <1>4, <1>6, <2>1 DEF Remembering, Live
  <2>. QED BY <1>4, <1>6, <2>2 DEF Remembering, OpenIn, Open
<1>9. Good(core') /\ core'.tab = d.tab
  BY <1>3, <1>6, <1>7, <1>8, SelectedGood
<1>. QED BY <1>4, <1>6, <1>9 DEF Still

LEMMA SelectSpaceGood ==
  ASSUME Good(core), NEW s \in Spaces, SelectSpace(s)
  PROVE  Good(core') /\ Still(core, core')
<1>1. Remembering(core, {s}) /\ Sound(core)
  BY GoodParts
<1>. QED BY <1>1, SpaceSelectedGood DEF SelectSpace

\* The space, with its tabs, is somewhere else.
CarriedTo(c, s, open, archive, toOpen, toArchive, to, last) ==
  [Carried(c, s, open, archive, toOpen, toArchive) EXCEPT !.space[s].at = to, !.space[s].last = last]

\* The tabs of a space go with it to the trash, or come with it from there.
LEMMA CarriedSound ==
  ASSUME NEW c, Sound(c), NEW s \in Spaces, NEW last \in Tabs \cup {None},
         NEW open, NEW archive, NEW toOpen, NEW toArchive, NEW from, NEW to,
         \/ /\ open = "open" /\ archive = "archived" /\ from = "live"
            /\ toOpen = "trash" /\ toArchive = "trashArchive" /\ to = "trash"
         \/ /\ open = "trash" /\ archive = "trashArchive" /\ from = "trash"
            /\ toOpen = "open" /\ toArchive = "archived" /\ to = "live",
         c.space[s].at = from
  PROVE  LET d == CarriedTo(c, s, open, archive, toOpen, toArchive, to, last) IN
         /\ Sound(d) /\ d.layout = c.layout /\ d.active = c.active
         /\ d.space[s].at = to /\ \A r \in Spaces : r # s => d.space[r] = c.space[r]
         /\ \A t \in Tabs : c.tab[t].space # s => d.tab[t] = c.tab[t]
         /\ Quiet(c, d)
<1>. DEFINE place(t) == IF c.tab[t].space # s THEN c.tab[t]
                        ELSE IF c.tab[t].at = open THEN [c.tab[t] EXCEPT !.at = toOpen]
                        ELSE IF c.tab[t].at = archive THEN [c.tab[t] EXCEPT !.at = toArchive]
                        ELSE c.tab[t]
            tab == [t \in Tabs |-> place(t)]
            new == [c.space[s] EXCEPT !.at = to, !.last = last]
            space == [c.space EXCEPT ![s] = new]
            d == WithSpaces(c, space, tab)
<1>1. /\ c \in Core /\ c.tab \in [Tabs -> Tab] /\ c.space \in [Spaces -> Space]
      /\ c.space[s] \in Space
  BY DEF Sound, Core
<1>2. new \in Space /\ new.at = to /\ new.home = c.space[s].home
  BY <1>1 DEF Space
<1>3. CarriedTo(c, s, open, archive, toOpen, toArchive, to, last) = d
  <2>1. Carried(c, s, open, archive, toOpen, toArchive) = [c EXCEPT !.tab = tab]
    BY <1>1 DEF Carried, Core
  <2>2. [c.space EXCEPT ![s] = [[c.space[s] EXCEPT !.at = to] EXCEPT !.last = last]] = space
    BY <1>1 DEF Space
  <2>. HIDE DEF tab
  <2>. QED BY <1>1, <2>1, <2>2 DEF CarriedTo, WithSpaces, Core
<1>4. /\ tab \in [Tabs -> Tab]
      /\ \A t \in Tabs :
           /\ tab[t].at = IF c.tab[t].space = s /\ c.tab[t].at = open THEN toOpen
                          ELSE IF c.tab[t].space = s /\ c.tab[t].at = archive THEN toArchive
                          ELSE c.tab[t].at
           /\ tab[t].space = c.tab[t].space /\ tab[t].profile = c.tab[t].profile
           /\ tab[t].split = c.tab[t].split /\ tab[t].group = c.tab[t].group
           /\ (c.tab[t].space # s \/ c.tab[t].at \notin {open, archive}) => tab[t] = c.tab[t]
  <2>1. SUFFICES ASSUME NEW t \in Tabs
        PROVE  /\ place(t) \in Tab
               /\ place(t).at = IF c.tab[t].space = s /\ c.tab[t].at = open THEN toOpen
                              ELSE IF c.tab[t].space = s /\ c.tab[t].at = archive THEN toArchive
                              ELSE c.tab[t].at
               /\ place(t).space = c.tab[t].space /\ place(t).profile = c.tab[t].profile
               /\ place(t).split = c.tab[t].split /\ place(t).group = c.tab[t].group
               /\ (c.tab[t].space # s \/ c.tab[t].at \notin {open, archive}) => place(t) = c.tab[t]
    OBVIOUS
  <2>2. c.tab[t] \in Tab
    BY <1>1
  <2>. QED BY <2>2 DEF Tab, TabPlaces
<1>. HIDE DEF tab, new
<1>5. space \in [Spaces -> Space] /\ space[s] = new /\ \A r \in Spaces : r # s => space[r] = c.space[r]
  BY <1>1, <1>2
<1>. HIDE DEF space
<1>6. /\ d \in Core /\ d.space = space /\ d.tab = tab /\ d.layout = c.layout
      /\ d.group = c.group /\ d.active = c.active
  BY <1>1, <1>4, <1>5, WithSpacesParts
<1>. HIDE DEF d
\* The space's tabs are all in the two lists that are carried.
<1>7. \A t \in Tabs : c.tab[t].at # "nowhere" /\ c.tab[t].space = s => c.tab[t].at \in {open, archive}
  BY <1>1 DEF Sound, Placed, Tab, TabPlaces
<1>8. \A t \in Tabs : (d.tab[t].at = "nowhere" <=> c.tab[t].at = "nowhere") /\ Side(d.tab[t].at) = Side(c.tab[t].at)
  BY <1>4, <1>6 DEF Side
<1>9. Placed(d)
  <2>1. \A t \in Tabs : d.tab[t].at = "nowhere" => d.tab[t] = NoTab
    BY <1>4, <1>6, <1>8 DEF Sound, Placed
  <2>2. \A t \in Tabs : d.tab[t].at # "nowhere" => d.tab[t].profile \in Profiles /\ d.tab[t].space \in Spaces
    BY <1>4, <1>6, <1>8 DEF Sound, Placed
  <2>3. \A t \in Tabs : /\ d.tab[t].at \in {"open", "archived"} => d.space[d.tab[t].space].at = "live"
                        /\ d.tab[t].at \in {"trash", "trashArchive"} => d.space[d.tab[t].space].at = "trash"
    BY <1>2, <1>4, <1>5, <1>6, <1>7 DEF Sound, Placed
  <2>4. \A r \in Spaces : d.space[r].at # "nowhere" => d.space[r].home \in Profiles
    BY <1>2, <1>5, <1>6 DEF Sound, Placed
  <2>. QED BY <2>1, <2>2, <2>3, <2>4 DEF Placed
<1>10. TabsArePanes(d)
  BY <1>4, <1>6, <1>8 DEF Sound, TabsArePanes
<1>11. PanesAreTogether(d)
  <2>1. \A x \in Splits : c.layout[x].panes \subseteq Tabs
    BY <1>1 DEF Core, Layout
  <2>. QED BY <1>4, <1>6, <1>8, <2>1 DEF Sound, PanesAreTogether
<1>12. ViewsHaveSizes(d) /\ GroupsKeep(d)
  BY <1>4, <1>6 DEF Sound, ViewsHaveSizes, GroupsKeep
<1>13. Sound(d)
  BY <1>6, <1>9, <1>10, <1>11, <1>12 DEF Sound
<1>14. Quiet(c, d)
  BY <1>4, <1>6 DEF Quiet
<1>. QED BY <1>2, <1>3, <1>4, <1>5, <1>6, <1>13, <1>14

LEMMA TrashSpaceGood ==
  ASSUME Good(core), NEW s \in Spaces, TrashSpace(s)
  PROVE  Good(core') /\ Quiet(core, core')
<1>. DEFINE d == CarriedTo(core, s, "open", "archived", "trash", "trashArchive", "trash", None)
<1>1. /\ Sound(core) /\ core.space[s].at = "live" /\ Remembering(core, {}) /\ ActiveIsHere(core)
      /\ IF core.active.space = s THEN \E r \in Live(d) : core' \in SpaceSelected(d, r) ELSE core' = d
  BY GoodParts DEF TrashSpace, Live, CarriedTo
<1>2. /\ Sound(d) /\ d.active = core.active
      /\ d.space[s].at = "trash" /\ \A r \in Spaces : r # s => d.space[r] = core.space[r]
      /\ \A t \in Tabs : core.tab[t].space # s => d.tab[t] = core.tab[t]
      /\ Quiet(core, d)
  BY <1>1, CarriedSound
<1>. HIDE DEF d
<1>3. \A r \in Live(d) : r # s /\ r \in Live(core) /\ d.space[r].last \in OpenIn(d, r)
  BY <1>1, <1>2 DEF Remembering, OpenIn, Open, Live
<1>4. CASE core.active.space = s
  <2>1. PICK r \in Live(d) : core' \in SpaceSelected(d, r)
    BY <1>1, <1>4
  <2>2. Remembering(d, {r})
    BY <1>3 DEF Remembering
  <2>3. Good(core') /\ Still(d, core')
    BY <1>2, <2>1, <2>2, SpaceSelectedGood
  <2>4. Quiet(core, core')
    BY <1>2, <2>3 DEF Quiet, Still
  <2>. QED BY <2>3, <2>4
<1>5. CASE core.active.space # s
  <2>1. core' = d /\ Remembering(d, {})
    BY <1>1, <1>3, <1>5 DEF Remembering
  <2>2. ActiveIsHere(d)
    BY <1>1, <1>2, <1>5, GoodParts DEF ActiveIsHere, ActiveTab, Open, Live
  <2>. QED BY <1>2, <2>1, <2>2 DEF Good
<1>. QED BY <1>4, <1>5

LEMMA RestoreSpaceGood ==
  ASSUME Good(core), NEW s \in Spaces, RestoreSpace(s)
  PROVE  Good(core') /\ Quiet(core, core')
<1>. DEFINE last == core.space[s].last
            d == CarriedTo(core, s, "trash", "trashArchive", "open", "archived", "live", last)
<1>1. /\ Sound(core) /\ core \in Core /\ core.space[s].at = "trash" /\ Remembering(core, {})
      /\ last \in Tabs \cup {None}
  BY GoodParts DEF RestoreSpace, Core, Space
<1>2. core' \in SpaceSelected(d, s)
  <2>. DEFINE c == Carried(core, s, "trash", "trashArchive", "open", "archived")
  <2>1. c = [core EXCEPT !.tab = c.tab]
    BY <1>1 DEF Carried, Core
  <2>2. core' \in SpaceSelected([c EXCEPT !.space[s].at = "live"], s)
    BY DEF RestoreSpace
  <2>. HIDE DEF c
  <2>3. core.space[s] = [at |-> core.space[s].at, home |-> core.space[s].home, last |-> last]
    BY <1>1 DEF Core, Space
  <2>4. [[core.space[s] EXCEPT !.at = "live"] EXCEPT !.last = last] = [core.space[s] EXCEPT !.at = "live"]
    BY <2>3
  <2>5. [c EXCEPT !.space[s].at = "live"] = [c EXCEPT !.space[s].at = "live", !.space[s].last = last]
    <3>. HIDE DEF last
    <3>. QED BY <1>1, <2>1, <2>4 DEF Core
  <2>. QED BY <2>2, <2>5 DEF CarriedTo, c
<1>. HIDE DEF last
<1>3. /\ Sound(d) /\ d.active = core.active
      /\ d.space[s].at = "live" /\ \A r \in Spaces : r # s => d.space[r] = core.space[r]
      /\ \A t \in Tabs : core.tab[t].space # s => d.tab[t] = core.tab[t]
      /\ Quiet(core, d)
  BY <1>1, CarriedSound
<1>. HIDE DEF d
<1>4. s \in Live(d) /\ Remembering(d, {s})
  BY <1>1, <1>3 DEF Remembering, OpenIn, Open, Live
<1>5. Good(core') /\ Still(d, core')
  BY <1>2, <1>3, <1>4, SpaceSelectedGood
<1>6. Quiet(core, core')
  BY <1>3, <1>5 DEF Quiet, Still
<1>. QED BY <1>5, <1>6

LEMMA PurgeSpacesGood ==
  ASSUME Good(core), NEW ss \in SUBSET Spaces, PurgeSpaces(ss)
  PROVE  Good(core') /\ Quiet(core, core')
<1>. DEFINE space == [s \in Spaces |-> IF s \in ss THEN NoSpace ELSE core.space[s]]
            tab == [t \in Tabs |-> IF core.tab[t].space \in ss /\ core.tab[t].at \in {"trash", "trashArchive"}
                                     THEN NoTab ELSE core.tab[t]]
            d == WithSpaces(core, space, tab)
<1>1. /\ Sound(core) /\ core \in Core /\ core.tab \in [Tabs -> Tab] /\ core.space \in [Spaces -> Space]
      /\ \A s \in ss : core.space[s].at = "trash"
  BY GoodParts DEF PurgeSpaces, Core
<1>2. core' = d
  BY <1>1 DEF PurgeSpaces, WithSpaces, Core
<1>3. NoTab \in Tab /\ NoTab.at = "nowhere" /\ NoTab.group = None /\ NoTab.split = None /\ NoTab.space = None
  BY DEF NoTab, Tab, TabPlaces
<1>4. NoSpace \in Space /\ NoSpace.at = "nowhere"
  BY DEF NoSpace, Space
\* What is purged of the tabs is all that are of those spaces.
<1>5. \A t \in Tabs : core.tab[t].space \in ss =>
        core.tab[t].at \in {"trash", "trashArchive"} \/ core.tab[t] = NoTab
  BY <1>1, ConstantsAssumption DEF Sound, Placed, Tab, TabPlaces
<1>6. /\ tab \in [Tabs -> Tab]
      /\ \A t \in Tabs : tab[t] = IF core.tab[t].space \in ss THEN NoTab ELSE core.tab[t]
  BY <1>1, <1>3, <1>5
<1>7. /\ space \in [Spaces -> Space]
      /\ \A s \in Spaces : space[s] = IF s \in ss THEN NoSpace ELSE core.space[s]
  BY <1>1, <1>4
<1>. HIDE DEF tab, space
<1>8. /\ d \in Core /\ d.space = space /\ d.tab = tab /\ d.layout = core.layout
      /\ d.group = core.group /\ d.active = core.active
  BY <1>1, <1>6, <1>7, WithSpacesParts
<1>. HIDE DEF d
<1>9. Placed(d)
  <2>1. \A s \in Spaces : d.space[s].at # "nowhere" => d.space[s].home \in Profiles
    BY <1>1, <1>4, <1>7, <1>8 DEF Sound, Placed
  <2>2. ASSUME NEW t \in Tabs
        PROVE  /\ d.tab[t].at = "nowhere" => d.tab[t] = NoTab
               /\ d.tab[t].at # "nowhere" => d.tab[t].profile \in Profiles /\ d.tab[t].space \in Spaces
               /\ d.tab[t].at \in {"open", "archived"} => d.space[d.tab[t].space].at = "live"
               /\ d.tab[t].at \in {"trash", "trashArchive"} => d.space[d.tab[t].space].at = "trash"
    <3>1. CASE core.tab[t].space \in ss
      BY <1>3, <1>6, <1>8, <3>1
    <3>2. CASE core.tab[t].space \notin ss
      <4>1. d.tab[t] = core.tab[t]
        BY <1>6, <1>8, <3>2
      <4>2. core.tab[t].at # "nowhere" => d.space[core.tab[t].space] = core.space[core.tab[t].space]
        BY <1>1, <1>7, <1>8, <3>2 DEF Sound, Placed
      <4>. QED BY <1>1, <4>1, <4>2 DEF Sound, Placed
    <3>. QED BY <3>1, <3>2
  <2>. QED BY <2>1, <2>2 DEF Placed
<1>10. TabsArePanes(d)
  BY <1>1, <1>3, <1>6, <1>8 DEF Sound, TabsArePanes
<1>11. PanesAreTogether(d)
  <2>1. \A x \in Splits : core.layout[x].panes \subseteq Tabs
    BY <1>1 DEF Core, Layout
  <2>. QED BY <1>1, <1>3, <1>6, <1>8, <2>1 DEF Sound, PanesAreTogether
<1>12. ViewsHaveSizes(d) /\ GroupsKeep(d)
  BY <1>1, <1>3, <1>6, <1>8 DEF Sound, ViewsHaveSizes, GroupsKeep
<1>13. Sound(d)
  BY <1>8, <1>9, <1>10, <1>11, <1>12 DEF Sound
<1>14. \A t \in Tabs : core.tab[t].at \in {"open", "archived"} => d.tab[t] = core.tab[t]
  BY <1>1, <1>3, <1>5, <1>6, <1>8
<1>15. \A s \in Live(core) : d.space[s] = core.space[s]
  BY <1>1, <1>7, <1>8 DEF Live
<1>16. \A s \in Live(d) : s \in Live(core)
  BY <1>1, <1>4, <1>7, <1>8 DEF Live
<1>17. Remembering(d, {})
  <2>1. Remembering(core, {})
    BY GoodParts
  <2>. QED BY <1>14, <1>15, <1>16, <2>1 DEF Remembering, OpenIn, Open
<1>18. ActiveIsHere(d)
  BY <1>8, <1>14, <1>15, GoodParts DEF ActiveIsHere, ActiveTab, Open, Live
<1>19. Quiet(core, d)
  BY <1>14 DEF Quiet
<1>. QED BY <1>2, <1>13, <1>17, <1>18, <1>19 DEF Good

LEMMA CreateProfileGood ==
  ASSUME Good(core), NEW p \in Profiles, CreateProfile(p)
  PROVE  Good(core') /\ Still(core, core')
<1>. DEFINE d == [core EXCEPT !.profiles = @ \cup {p}]
<1>1. Sound(core) /\ core \in Core /\ core' \in ProfileSelected(d, p)
  BY GoodParts DEF CreateProfile
<1>2. /\ d \in Core /\ d.tab = core.tab /\ d.layout = core.layout /\ d.group = core.group
      /\ d.space = core.space /\ d.active = core.active
  BY <1>1 DEF Core
<1>. HIDE DEF d
<1>3. Sound(d) /\ Still(core, d)
  BY <1>1, <1>2, SoundTransfers
<1>4. Good(d)
  BY <1>2, <1>3, StaysGood
<1>5. Good(core') /\ Still(d, core')
  BY <1>1, <1>4, ProfileSelectedGood
<1>. QED BY <1>2, <1>5 DEF Still

LEMMA SelectProfileGood ==
  ASSUME Good(core), NEW p \in Profiles, SelectProfile(p)
  PROVE  Good(core') /\ Still(core, core')
  BY ProfileSelectedGood DEF SelectProfile

LEMMA SetHomeGood ==
  ASSUME Good(core), NEW s \in Spaces, NEW p \in Profiles, SetHome(s, p)
  PROVE  Good(core') /\ Still(core, core')
<1>. DEFINE space == [core.space EXCEPT ![s] = [core.space[s] EXCEPT !.home = p]]
            d == WithSpaces(core, space, core.tab)
<1>1. /\ Sound(core) /\ core \in Core /\ core.tab \in [Tabs -> Tab] /\ core.space \in [Spaces -> Space]
  BY GoodParts DEF Core
<1>2. core' = d
  BY <1>1 DEF SetHome, WithSpaces, Core
<1>3. /\ space \in [Spaces -> Space]
      /\ \A r \in Spaces : /\ space[r].at = core.space[r].at /\ space[r].last = core.space[r].last
                           /\ space[r].home \in {core.space[r].home} \cup Profiles
  BY <1>1 DEF Space
<1>. HIDE DEF space
<1>4. /\ d \in Core /\ d.space = space /\ d.tab = core.tab /\ d.layout = core.layout
      /\ d.group = core.group /\ d.active = core.active
  BY <1>1, <1>3, WithSpacesParts
<1>. HIDE DEF d
<1>5. Sound(d) /\ Still(core, d)
  BY <1>1, <1>3, <1>4, SoundTransfers
<1>6. Good(d)
  BY <1>3, <1>4, <1>5, StaysGood
<1>. QED BY <1>2, <1>5, <1>6

-----------------------------------------------------------------------------
(* The theorems *)

LEMMA InitGood == Init => Good(core)
<1>. SUFFICES ASSUME NEW t \in Tabs, NEW s \in Spaces, NEW p \in Profiles \ Private,
                     core = [tab |-> [u \in Tabs |-> IF u = t THEN NewTab(s, p) ELSE NoTab],
                             space |-> [r \in Spaces |-> IF r = s THEN [at |-> "live", home |-> p, last |-> t]
                                                         ELSE NoSpace],
                             profiles |-> {p},
                             layout |-> [x \in Splits |-> NoLayout],
                             group |-> [g \in Groups |-> None],
                             active |-> [tab |-> t, space |-> s, profile |-> p]]
              PROVE  Good(core)
  BY DEF Init
<1>. DEFINE tab == [u \in Tabs |-> IF u = t THEN NewTab(s, p) ELSE NoTab]
            space == [r \in Spaces |-> IF r = s THEN [at |-> "live", home |-> p, last |-> t] ELSE NoSpace]
            layout == [x \in Splits |-> NoLayout]
            group == [g \in Groups |-> None]
            active == [tab |-> t, space |-> s, profile |-> p]
<1>1. /\ tab \in [Tabs -> Tab]
      /\ tab[t].at = "open" /\ tab[t].space = s /\ tab[t].profile = p
      /\ \A u \in Tabs : /\ u # t => tab[u] = NoTab /\ tab[u].at = "nowhere"
                         /\ tab[u].split = None /\ tab[u].group = None
  BY DEF NewTab, NoTab, Tab, TabPlaces
<1>2. /\ space \in [Spaces -> Space]
      /\ space[s].at = "live" /\ space[s].home = p /\ space[s].last = t
      /\ \A r \in Spaces : r # s => space[r].at = "nowhere"
  BY DEF NoSpace, Space
<1>3. /\ layout \in [Splits -> Layout]
      /\ \A x \in Splits : layout[x].at = "nowhere" /\ layout[x].panes = {}
  BY DEF NoLayout, Layout
<1>4. group \in [Groups -> Spaces \cup {None}] /\ active \in Active
      /\ active.tab = t /\ active.space = s /\ active.profile = p
  BY DEF Active
<1>. HIDE DEF tab, space, layout, group, active
<1>5. core = [tab |-> tab, space |-> space, profiles |-> {p}, layout |-> layout, group |-> group,
              active |-> active]
  BY DEF tab, space, layout, group, active
<1>6. /\ core \in Core /\ core.tab = tab /\ core.space = space /\ core.layout = layout
      /\ core.group = group /\ core.active = active
  BY <1>1, <1>2, <1>3, <1>4, <1>5 DEF Core
<1>7. Placed(core)
  BY <1>1, <1>2, <1>6 DEF Placed
<1>8. TabsArePanes(core) /\ PanesAreTogether(core) /\ ViewsHaveSizes(core) /\ GroupsKeep(core)
  BY <1>1, <1>3, <1>6 DEF TabsArePanes, PanesAreTogether, ViewsHaveSizes, GroupsKeep
<1>9. ActiveIsHere(core) /\ Remembering(core, {})
  BY <1>1, <1>2, <1>4, <1>6 DEF ActiveIsHere, ActiveTab, Remembering, OpenIn, Open, Live
<1>. QED BY <1>6, <1>7, <1>8, <1>9 DEF Good, Sound

\* Every command keeps what is good, and every saved split view together.
LEMMA NextGood ==
  ASSUME Good(core), Next
  PROVE  Good(core') /\ Kept(core, core')
<1>0. core \in Core
  BY GoodParts
<1>1. ASSUME NEW t \in Tabs, OpenTab(t) \/ SelectTab(t) \/ DuplicatePane(t)
      PROVE  Good(core') /\ Kept(core, core')
  BY <1>0, <1>1, OpenTabGood, SelectTabGood, DuplicatePaneGood, QuietIsKept
<1>2. ASSUME NEW t \in Tabs, CloseTab(t) \/ Restore(t)
      PROVE  Good(core') /\ Kept(core, core')
  BY <1>2, CloseTabGood, RestoreGood
<1>3. ASSUME NEW ts \in SUBSET Tabs, ArchiveIdle(ts) \/ CloseGroup(ts)
      PROVE  Good(core') /\ Kept(core, core')
  BY <1>3, ArchiveIdleGood, CloseGroupGood
<1>4. ASSUME NEW x \in Splits, SplitGroup(x) \/ \E t \in Tabs : SplitRight(x, t)
      PROVE  Good(core') /\ Kept(core, core')
  BY <1>0, <1>4, SplitGroupGood, SplitRightGood, QuietIsKept
<1>5. ASSUME SaveSplit \/ DetachPane \/ Ungroup
      PROVE  Good(core') /\ Kept(core, core')
  BY <1>0, <1>5, SaveSplitGood, DetachPaneGood, UngroupGood, QuietIsKept
<1>6. ASSUME NEW g \in Groups, GroupActive(g) \/ GroupSplit(g) \/ \E ts \in SUBSET Tabs : AutoGroup(g, ts)
      PROVE  Good(core') /\ Kept(core, core')
  BY <1>0, <1>6, GroupActiveGood, GroupSplitGood, AutoGroupGood, QuietIsKept
<1>7. ASSUME NEW s \in Spaces,
             MoveToSpace(s) \/ SelectSpace(s) \/ \E t \in Tabs : CreateSpace(s, t)
      PROVE  Good(core') /\ Kept(core, core')
  BY <1>0, <1>7, MoveToSpaceGood, SelectSpaceGood, CreateSpaceGood, QuietIsKept
<1>8. ASSUME NEW s \in Spaces, TrashSpace(s) \/ RestoreSpace(s)
      PROVE  Good(core') /\ Kept(core, core')
  BY <1>0, <1>8, TrashSpaceGood, RestoreSpaceGood, QuietIsKept
<1>9. ASSUME NEW ss \in SUBSET Spaces, PurgeSpaces(ss)
      PROVE  Good(core') /\ Kept(core, core')
  BY <1>0, <1>9, PurgeSpacesGood, QuietIsKept
<1>10. ASSUME NEW p \in Profiles, CreateProfile(p) \/ SelectProfile(p) \/ \E s \in Spaces : SetHome(s, p)
       PROVE  Good(core') /\ Kept(core, core')
  BY <1>0, <1>10, CreateProfileGood, SelectProfileGood, SetHomeGood, QuietIsKept
<1>. QED BY <1>1, <1>2, <1>3, <1>4, <1>5, <1>6, <1>7, <1>8, <1>9, <1>10 DEF Next

\* Between commands the core is good.
LEMMA AlwaysGood == Spec => []Good(core)
<1>1. Good(core) /\ [Next]_core => Good(core)'
  BY NextGood
<1>. QED BY <1>1, InitGood, PTL DEF Spec

\* The core has its type: every lookup that a command makes is of something there is.
THEOREM BrowserTypes == Spec => []TypeOK
<1>1. Good(core) => TypeOK
  BY DEF Good, Sound, TypeOK
<1>. QED BY <1>1, AlwaysGood, PTL

\* Whatever is closed, moved, archived, trashed or purged, the active tab is open and
\* every live space remembers a tab of its own.
THEOREM SomethingIsActive == Spec => []ActiveIsOpen
<1>1. Good(core) => ActiveIsOpen
  BY DEF Good, ActiveIsHere, Remembering, ActiveIsOpen, ActiveTabIsOpen, SpacesRemember
<1>. QED BY <1>1, AlwaysGood, PTL

\* Tabs and layouts never disagree about a split view, open, closed or in the trash.
THEOREM SplitsAgree == Spec => []SplitsMatchTabs
<1>1. ASSUME Good(core)
      PROVE  OpenSplitsAreWhole
  <2>1. Sound(core) /\ core \in Core
    BY <1>1 DEF Good, Sound
  <2>2. \A t \in Tabs : core.tab[t].at \in {"open", "trash"} /\ core.tab[t].split # None =>
          core.layout[core.tab[t].split].at = "open" /\ t \in core.layout[core.tab[t].split].panes
    BY <2>1 DEF Sound, TabsArePanes, Side
  <2>3. ASSUME NEW x \in Splits, core.layout[x].at = "open"
        PROVE  /\ Cardinality(core.layout[x].panes) \in 2..MaxPanes
               /\ \A t, u \in core.layout[x].panes :
                    /\ core.tab[t].at \in {"open", "trash", "nowhere"}
                    /\ core.tab[t].at = core.tab[u].at /\ core.tab[t].space = core.tab[u].space
               /\ \A t \in core.layout[x].panes : core.tab[t].at # "nowhere" => core.tab[t].split = x
    <3>1. core.layout[x].panes \subseteq Tabs
      BY <2>1 DEF Core, Layout
    <3>2. \A t \in core.layout[x].panes : core.tab[t].at \in {"open", "trash", "nowhere"}
      BY <2>1, <2>3, <3>1, ConstantsAssumption
      DEF Sound, PanesAreTogether, TabsArePanes, Side, Core, Tab, TabPlaces
    <3>. QED BY <2>1, <2>3, <3>2 DEF Sound, PanesAreTogether, ViewsHaveSizes
  <2>. QED BY <2>2, <2>3 DEF OpenSplitsAreWhole
<1>2. ASSUME Good(core)
      PROVE  ClosedSplitsAreWhole
  <2>1. Sound(core) /\ core \in Core
    BY <1>2 DEF Good, Sound
  <2>2. \A t \in Tabs : core.tab[t].at \in {"archived", "trashArchive"} /\ core.tab[t].split # None =>
          core.layout[core.tab[t].split].at = "archived" /\ t \in core.layout[core.tab[t].split].panes
    BY <2>1 DEF Sound, TabsArePanes, Side
  <2>3. ASSUME NEW x \in Splits, core.layout[x].at = "archived"
        PROVE  \A t, u \in core.layout[x].panes :
                 /\ core.tab[t].at \in {"archived", "trashArchive", "nowhere"}
                 /\ core.tab[t].at = core.tab[u].at /\ core.tab[t].space = core.tab[u].space
    <3>1. core.layout[x].panes \subseteq Tabs
      BY <2>1 DEF Core, Layout
    <3>2. \A t \in core.layout[x].panes : core.tab[t].at \in {"archived", "trashArchive", "nowhere"}
      BY <2>1, <2>3, <3>1, ConstantsAssumption
      DEF Sound, PanesAreTogether, TabsArePanes, Side, Core, Tab, TabPlaces
    <3>. QED BY <2>1, <3>2 DEF Sound, PanesAreTogether
  <2>. QED BY <2>2, <2>3 DEF ClosedSplitsAreWhole
<1>3. Good(core) => SplitsMatchTabs
  BY <1>1, <1>2 DEF SplitsMatchTabs
<1>. QED BY <1>3, AlwaysGood, PTL

\* No tab is in a group of another space.
THEOREM GroupsStayHome == Spec => []GroupsKeepToTheirSpace
<1>1. Good(core) => GroupsKeepToTheirSpace
  BY DEF Good, Sound, GroupsKeep, GroupsKeepToTheirSpace
<1>. QED BY <1>1, AlwaysGood, PTL

\* A saved split view is closed as a whole and comes back as a whole.
THEOREM SavedSplitsKept == Spec => SavedSplitsStayTogether
<1>. DEFINE Together == \A x \in Splits : LET ts == core.layout[x].panes IN
       /\ (\E t \in ts : t \in Open(core) /\ core.layout[x].saved /\ core'.tab[t].at = "archived")
            => \A t \in ts : core'.tab[t].at = "archived"
       /\ (core.layout[x].at = "archived" /\ \E t \in ts : t \in Archived(core) /\ t \in Open(core'))
            => ts \subseteq Open(core')
<1>1. Good(core) /\ [Next]_core => [Together]_core
  BY NextGood DEF Kept
<1>2. Spec => [][Together]_core
  BY <1>1, AlwaysGood, PTL DEF Spec
<1>. QED BY <1>2 DEF SavedSplitsStayTogether

=============================================================================
