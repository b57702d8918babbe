--------------------------- MODULE DownloadsProofs ---------------------------
(***************************************************************************)
(* The safety properties of Downloads, for any number of downloads, paths   *)
(* and profiles.                                                           *)
(***************************************************************************)
EXTENDS Downloads, TLAPS

\* An id is drawn once: what is asked for has no transfer yet.
AskedAreNew == \A d \in asking : transfer[d].at = "none"

\* An entry is of a transfer, and shows its path.
EntriesHaveTransfers ==
  \A d \in Ids : entry[d] # NoEntry =>
    transfer[d].at # "none" /\ entry[d].path = transfer[d].path

\* A result follows the file, which is replaced but never removed.
ResultsHaveFiles == \A d \in Ids : transfer[d].at = "published" => file[transfer[d].path] # None

PathsAreKnown == \A d \in Ids : transfer[d].at # "none" => transfer[d].path \in Paths

DownloadInv ==
  /\ TypeOK /\ PrivateLeavesNothing /\ CompletedIsPublished
  /\ AskedAreNew /\ EntriesHaveTransfers /\ ResultsHaveFiles /\ PathsAreKnown

LEMMA InitDownloadInv == Init => DownloadInv
  BY ConstantsAssumption
  DEF Init, DownloadInv, TypeOK, PrivateLeavesNothing, CompletedIsPublished, AskedAreNew,
      EntriesHaveTransfers, ResultsHaveFiles, PathsAreKnown, NoEntry, Transfers, States

-----------------------------------------------------------------------------
(* Steps that start a download *)

\* A new entry is of a path and of the active profile.
LEMMA StartedInv ==
  ASSUME DownloadInv, NEW d \in Ids, NEW path \in Paths,
         transfer[d].at = "none", d \notin asking', asking' \subseteq asking,
         Started(d, path), UNCHANGED <<profile, file, confirming, opened>>
  PROVE  DownloadInv'
<1>. DEFINE new == [state |-> "in_progress", profile |-> profile, path |-> path, confirmed |-> FALSE]
<1>1. /\ entry' = [entry EXCEPT ![d] = new]
      /\ transfer' = [transfer EXCEPT ![d] = [at |-> "running", path |-> path]]
  BY DEF Started
<1>2. new \in Entry /\ new.state = "in_progress"
  BY DEF DownloadInv, TypeOK, Entry, States
<1>. HIDE DEF new
<1>3. TypeOK'
  BY <1>1, <1>2 DEF DownloadInv, TypeOK, Transfers
<1>4. PrivateLeavesNothing'
  <2>1. new.profile = profile
    BY DEF new
  <2>. QED BY <1>1, <2>1 DEF DownloadInv, TypeOK, PrivateLeavesNothing
<1>5. CompletedIsPublished'
  BY <1>1, <1>2 DEF DownloadInv, TypeOK, CompletedIsPublished
<1>6. AskedAreNew'
  BY <1>1 DEF DownloadInv, TypeOK, AskedAreNew
<1>7. EntriesHaveTransfers'
  <2>1. new.path = path
    BY DEF new
  <2>. QED BY <1>1, <2>1 DEF DownloadInv, TypeOK, EntriesHaveTransfers
<1>8. ResultsHaveFiles' /\ PathsAreKnown'
  BY <1>1 DEF DownloadInv, TypeOK, ResultsHaveFiles, PathsAreKnown
<1>. QED BY <1>3, <1>4, <1>5, <1>6, <1>7, <1>8 DEF DownloadInv

-----------------------------------------------------------------------------
(* Steps that change the list and nothing else of it *)

\* The entries that a profile leaves are gone, and the others as they were.
LEMMA ClearedEntries ==
  ASSUME NEW p, NEW d \in Ids
  PROVE  \/ entry[d].profile = p /\ Cleared(p)[d] = NoEntry
         \/ entry[d].profile # p /\ Cleared(p)[d] = entry[d]
  BY DEF Cleared

LEMMA ClearInv ==
  ASSUME DownloadInv, Clear
  PROVE  DownloadInv'
<1>1. entry' = Cleared(profile) /\ UNCHANGED <<profile, asking, transfer, file, confirming, opened>>
  BY DEF Clear
<1>2. \A d \in Ids : entry'[d] = NoEntry \/ entry'[d] = entry[d]
  BY <1>1, ClearedEntries
<1>3. NoEntry.state = None /\ NoEntry.profile = None
  BY DEF NoEntry
<1>4. entry' \in [Ids -> Entry \cup {NoEntry}]
  BY <1>1 DEF Cleared, DownloadInv, TypeOK
<1>5. TypeOK'
  BY <1>1, <1>4 DEF DownloadInv, TypeOK
<1>6. PrivateLeavesNothing' /\ CompletedIsPublished'
  BY <1>1, <1>2, <1>3, ConstantsAssumption DEF DownloadInv, PrivateLeavesNothing, CompletedIsPublished, States
<1>7. AskedAreNew' /\ EntriesHaveTransfers' /\ ResultsHaveFiles' /\ PathsAreKnown'
  BY <1>1, <1>2 DEF DownloadInv, AskedAreNew, EntriesHaveTransfers, ResultsHaveFiles, PathsAreKnown
<1>. QED BY <1>5, <1>6, <1>7 DEF DownloadInv

\* The list of a private profile goes with the change that leaves it.
LEMMA SwitchInv ==
  ASSUME DownloadInv, NEW p \in Profiles, Switch(p)
  PROVE  DownloadInv'
<1>1. /\ p # profile /\ profile' = p
      /\ entry' = IF profile \in Private THEN Cleared(profile) ELSE entry
      /\ UNCHANGED <<asking, transfer, file, confirming, opened>>
  BY DEF Switch
<1>2. \A d \in Ids : entry'[d] = NoEntry \/ entry'[d] = entry[d]
  BY <1>1, ClearedEntries
<1>3. NoEntry.state = None /\ NoEntry.profile = None
  BY DEF NoEntry
<1>4. entry' \in [Ids -> Entry \cup {NoEntry}]
  BY <1>1 DEF Cleared, DownloadInv, TypeOK
<1>5. TypeOK'
  BY <1>1, <1>4 DEF DownloadInv, TypeOK
<1>6. PrivateLeavesNothing'
  <2>. SUFFICES ASSUME NEW d \in Ids, entry'[d].profile \in Private
                PROVE  FALSE
    BY DEF PrivateLeavesNothing
  <2>1. entry'[d] = entry[d] /\ entry[d].profile \in Private
    BY <1>2, <1>3, ConstantsAssumption
  <2>2. entry[d].profile = profile
    BY <2>1 DEF DownloadInv, PrivateLeavesNothing
  <2>3. entry'[d] = NoEntry
    BY <1>1, <2>1, <2>2, ClearedEntries
  <2>. QED BY <1>3, <2>1, <2>3, ConstantsAssumption
<1>7. CompletedIsPublished'
  BY <1>1, <1>2, <1>3, ConstantsAssumption DEF DownloadInv, CompletedIsPublished, States
<1>8. AskedAreNew' /\ EntriesHaveTransfers' /\ ResultsHaveFiles' /\ PathsAreKnown'
  BY <1>1, <1>2 DEF DownloadInv, AskedAreNew, EntriesHaveTransfers, ResultsHaveFiles, PathsAreKnown
<1>. QED BY <1>5, <1>6, <1>7, <1>8 DEF DownloadInv

\* An entry takes another state: only a delivered result makes it completed.
LEMMA StateInv ==
  ASSUME DownloadInv, NEW d \in Ids, NEW s \in States, entry[d] # NoEntry,
         entry' = [entry EXCEPT ![d].state = s],
         \/ transfer' = transfer
         \/ transfer[d].at \in {"published", "failed"} /\ transfer' = [transfer EXCEPT ![d].at = "over"],
         s = "completed" => transfer'[d].at = "over" /\ file[entry[d].path] # None,
         UNCHANGED <<profile, asking, file, confirming, opened>>
  PROVE  DownloadInv'
<1>1. entry[d] \in Entry /\ entry'[d] = [entry[d] EXCEPT !.state = s]
  BY DEF DownloadInv, TypeOK
<1>2. entry'[d] \in Entry /\ entry'[d].state = s /\ entry'[d].profile = entry[d].profile
      /\ entry'[d].path = entry[d].path
  BY <1>1 DEF Entry
<1>3. \A e \in Ids : e # d => entry'[e] = entry[e]
  BY DEF DownloadInv, TypeOK
<1>10. transfer' \in [Ids -> [at : Transfers, path : Paths \cup {None}]]
  BY DEF DownloadInv, TypeOK, Transfers
<1>11. \A e \in Ids :
        /\ transfer'[e].path = transfer[e].path
        /\ \/ transfer'[e].at = transfer[e].at
           \/ transfer[e].at \in {"published", "failed"} /\ transfer'[e].at = "over"
  <2>1. CASE transfer' = transfer
    BY <2>1
  <2>2. CASE transfer[d].at \in {"published", "failed"} /\ transfer' = [transfer EXCEPT ![d].at = "over"]
    <3>1. transfer'[d] = [transfer[d] EXCEPT !.at = "over"] /\ transfer[d] \in [at : Transfers, path : Paths \cup {None}]
      BY <2>2 DEF DownloadInv, TypeOK
    <3>2. transfer'[d].at = "over" /\ transfer'[d].path = transfer[d].path
      BY <3>1
    <3>3. \A e \in Ids : e # d => transfer'[e] = transfer[e]
      BY <2>2 DEF DownloadInv, TypeOK
    <3>. QED BY <2>2, <3>2, <3>3
  <2>. QED BY <2>1, <2>2
<1>4. TypeOK'
  <2>1. entry' \in [Ids -> Entry \cup {NoEntry}]
    BY <1>2, <1>3 DEF DownloadInv, TypeOK
  <2>. QED BY <1>10, <2>1 DEF DownloadInv, TypeOK
<1>5. PrivateLeavesNothing'
  BY <1>2, <1>3 DEF DownloadInv, PrivateLeavesNothing
<1>6. CompletedIsPublished'
  <2>. SUFFICES ASSUME NEW e \in Ids, entry'[e].state = "completed"
                PROVE  transfer'[e].at = "over" /\ file[entry'[e].path] # None
    BY DEF CompletedIsPublished
  <2>1. CASE e = d
    BY <2>1, <1>2
  <2>2. CASE e # d
    BY <2>2, <1>3, <1>11 DEF DownloadInv, CompletedIsPublished
  <2>. QED BY <2>1, <2>2
<1>7. AskedAreNew'
  <2>. SUFFICES ASSUME NEW e \in asking PROVE transfer'[e].at = "none"
    BY DEF AskedAreNew
  <2>1. e \in Ids /\ transfer[e].at = "none"
    BY DEF DownloadInv, TypeOK, AskedAreNew
  <2>. QED BY <1>11, <2>1
<1>8. EntriesHaveTransfers'
  <2>. SUFFICES ASSUME NEW e \in Ids, entry'[e] # NoEntry
                PROVE  transfer'[e].at # "none" /\ entry'[e].path = transfer'[e].path
    BY DEF EntriesHaveTransfers
  <2>1. entry[e] # NoEntry /\ entry'[e].path = entry[e].path
    BY <1>2, <1>3
  <2>2. transfer[e].at # "none" /\ entry[e].path = transfer[e].path
    BY <2>1 DEF DownloadInv, EntriesHaveTransfers
  <2>. QED BY <1>11, <2>1, <2>2
<1>9. ResultsHaveFiles' /\ PathsAreKnown'
  BY <1>11 DEF DownloadInv, ResultsHaveFiles, PathsAreKnown
<1>. QED BY <1>4, <1>5, <1>6, <1>7, <1>8, <1>9 DEF DownloadInv

LEMMA ControlInv ==
  ASSUME DownloadInv, NEW d \in Ids, NEW move \in DOMAIN Moves, Control(d, move)
  PROVE  DownloadInv'
<1>1. Moves[move].to \in States \ {"completed"}
  BY DEF Moves, States
<1>2. /\ entry[d] # NoEntry /\ entry' = [entry EXCEPT ![d].state = Moves[move].to]
      /\ UNCHANGED <<profile, asking, transfer, file, confirming, opened>>
  BY DEF Control, Visible
<1>. DEFINE s == Moves[move].to
<1>. HIDE DEF s
<1>4. s \in States /\ s # "completed" /\ entry' = [entry EXCEPT ![d].state = s]
  BY <1>1, <1>2 DEF s
<1>. QED BY <1>2, <1>4, StateInv

LEMMA DeliverInv ==
  ASSUME DownloadInv, NEW d \in Ids, Deliver(d)
  PROVE  DownloadInv'
<1>1. transfer' = [transfer EXCEPT ![d].at = "over"]
      /\ transfer[d].at \in {"published", "failed"}
      /\ UNCHANGED <<profile, asking, file, confirming, opened>>
  BY DEF Deliver
<1>2. transfer' \in [Ids -> [at : Transfers, path : Paths \cup {None}]]
  BY <1>1 DEF DownloadInv, TypeOK, Transfers
<1>3. transfer'[d] = [at |-> "over", path |-> transfer[d].path]
      /\ \A e \in Ids : e # d => transfer'[e] = transfer[e]
  BY <1>1 DEF DownloadInv, TypeOK
<1>4. CASE Visible(d)
  <2>1. entry[d] # NoEntry /\ entry' = [entry EXCEPT ![d].state = Outcome(d)]
    BY <1>4 DEF Deliver, Visible
  <2>2. entry[d] \in Entry
    BY <2>1 DEF DownloadInv, TypeOK
  <2>3. Outcome(d) \in States
    BY <2>2 DEF Outcome, Entry, States
  <2>4. Outcome(d) = "completed" => transfer'[d].at = "over" /\ file[entry[d].path] # None
    BY <1>3, <2>1, <2>2
    DEF Outcome, DownloadInv, CompletedIsPublished, ResultsHaveFiles, EntriesHaveTransfers, Entry, States
  <2>. DEFINE s == Outcome(d)
  <2>. HIDE DEF s
  <2>5. /\ s \in States /\ entry' = [entry EXCEPT ![d].state = s]
        /\ s = "completed" => transfer'[d].at = "over" /\ file[entry[d].path] # None
    BY <2>1, <2>3, <2>4 DEF s
  <2>. QED BY <1>1, <2>1, <2>5, StateInv
<1>5. CASE ~Visible(d)
  <2>1. entry' = entry
    BY <1>5 DEF Deliver
  <2>. QED BY <1>1, <1>2, <1>3, <2>1
    DEF DownloadInv, TypeOK, PrivateLeavesNothing, CompletedIsPublished, AskedAreNew,
        EntriesHaveTransfers, ResultsHaveFiles, PathsAreKnown
<1>. QED BY <1>4, <1>5

-----------------------------------------------------------------------------
(* The other steps *)

LEMMA TransferInv ==
  ASSUME DownloadInv, NEW d \in Ids, Publish(d) \/ Fail(d)
  PROVE  DownloadInv'
<1>. DEFINE at == IF Publish(d) THEN "published" ELSE "failed"
<1>1. transfer[d].at = "running" /\ transfer' = [transfer EXCEPT ![d].at = at]
      /\ UNCHANGED <<profile, asking, entry, confirming, opened>>
      /\ (file' = file \/ file' = [file EXCEPT ![transfer[d].path] = d])
      /\ (at = "published" => file' = [file EXCEPT ![transfer[d].path] = d])
  BY DEF Publish, Fail
<1>2. at \in {"published", "failed"}
  OBVIOUS
<1>. HIDE DEF at
<1>3. transfer[d].path \in Paths
  BY <1>1 DEF DownloadInv, PathsAreKnown
<1>4. transfer'[d] = [at |-> at, path |-> transfer[d].path]
      /\ \A e \in Ids : e # d => transfer'[e] = transfer[e]
  BY <1>1 DEF DownloadInv, TypeOK
<1>5. \A p \in Paths : file[p] # None => file'[p] # None
  BY <1>1, <1>3, ConstantsAssumption DEF DownloadInv, TypeOK
<1>6. TypeOK'
  BY <1>1, <1>2, <1>3 DEF DownloadInv, TypeOK, Transfers
<1>7. CompletedIsPublished'
  <2>. SUFFICES ASSUME NEW e \in Ids, entry[e].state = "completed"
                PROVE  transfer'[e].at = "over" /\ file'[entry[e].path] # None
    BY <1>1 DEF CompletedIsPublished
  <2>1. transfer[e].at = "over" /\ file[entry[e].path] # None
    BY DEF DownloadInv, CompletedIsPublished
  <2>2. e # d
    BY <1>1, <2>1
  <2>3. entry[e] # NoEntry
    BY ConstantsAssumption DEF NoEntry, States
  <2>4. entry[e].path \in Paths
    BY <2>3 DEF DownloadInv, TypeOK, Entry
  <2>. QED BY <1>4, <1>5, <2>1, <2>2, <2>4
<1>8. ResultsHaveFiles'
  <2>. SUFFICES ASSUME NEW e \in Ids, transfer'[e].at = "published"
                PROVE  file'[transfer'[e].path] # None
    BY DEF ResultsHaveFiles
  <2>1. CASE e = d
    BY <1>1, <1>3, <1>4, <2>1, ConstantsAssumption DEF DownloadInv, TypeOK
  <2>2. CASE e # d
    BY <1>4, <1>5, <2>2 DEF DownloadInv, ResultsHaveFiles, PathsAreKnown
  <2>. QED BY <2>1, <2>2
<1>9. PrivateLeavesNothing' /\ AskedAreNew' /\ EntriesHaveTransfers' /\ PathsAreKnown'
  BY <1>1, <1>2, <1>3, <1>4
  DEF DownloadInv, TypeOK, PrivateLeavesNothing, AskedAreNew, EntriesHaveTransfers, PathsAreKnown
<1>. QED BY <1>6, <1>7, <1>8, <1>9 DEF DownloadInv

LEMMA PromptInv ==
  ASSUME DownloadInv, NEW d \in Ids, Ask(d) \/ Decline(d)
  PROVE  DownloadInv'
  BY DEF Ask, Decline, Fresh, DownloadInv, TypeOK, PrivateLeavesNothing, CompletedIsPublished,
         AskedAreNew, EntriesHaveTransfers, ResultsHaveFiles, PathsAreKnown

\* A confirmation that still finds its entry marks it.
LEMMA FileInv ==
  ASSUME DownloadInv, (\E d \in Ids : OpenFile(d)) \/ Confirm \/ Dismiss
  PROVE  DownloadInv'
<1>1. UNCHANGED <<profile, asking, transfer, file>>
  BY DEF OpenFile, Confirm, Dismiss
<1>2. CASE entry' = entry
  <2>1. confirming' \in Ids \cup {None} /\ opened' \subseteq Ids
    BY DEF OpenFile, Confirm, Dismiss, Opened, DownloadInv, TypeOK
  <2>. QED BY <1>1, <1>2, <2>1
    DEF DownloadInv, TypeOK, PrivateLeavesNothing, CompletedIsPublished, AskedAreNew,
        EntriesHaveTransfers, ResultsHaveFiles, PathsAreKnown
<1>3. CASE Confirm /\ Visible(confirming) /\ entry[confirming].state = "completed"
  <2>1. /\ confirming \in Ids /\ confirming' = None /\ opened' \subseteq Ids
        /\ entry' = [entry EXCEPT ![confirming].confirmed = TRUE]
    BY <1>3 DEF Confirm, Opened, DownloadInv, TypeOK
  <2>2. entry[confirming] \in Entry /\ entry[confirming] # NoEntry
    BY <1>3, <2>1 DEF Visible, DownloadInv, TypeOK
  <2>3. /\ entry'[confirming] \in Entry
        /\ \A d \in Ids :
             /\ entry'[d].state = entry[d].state /\ entry'[d].profile = entry[d].profile
             /\ entry'[d].path = entry[d].path
             /\ entry'[d] # NoEntry => entry[d] # NoEntry
    BY <2>1, <2>2 DEF DownloadInv, TypeOK, Entry
  <2>4. TypeOK'
    BY <1>1, <2>1, <2>3 DEF DownloadInv, TypeOK
  <2>5. PrivateLeavesNothing' /\ CompletedIsPublished'
    BY <1>1, <2>3 DEF DownloadInv, PrivateLeavesNothing, CompletedIsPublished
  <2>6. EntriesHaveTransfers'
    <3>. SUFFICES ASSUME NEW d \in Ids, entry'[d] # NoEntry
                  PROVE  transfer[d].at # "none" /\ entry'[d].path = transfer[d].path
      BY <1>1 DEF EntriesHaveTransfers
    <3>1. entry[d] # NoEntry /\ entry'[d].path = entry[d].path
      BY <2>3
    <3>. QED BY <3>1 DEF DownloadInv, EntriesHaveTransfers
  <2>7. AskedAreNew' /\ ResultsHaveFiles' /\ PathsAreKnown'
    BY <1>1 DEF DownloadInv, AskedAreNew, ResultsHaveFiles, PathsAreKnown
  <2>. QED BY <2>4, <2>5, <2>6, <2>7 DEF DownloadInv
<1>. QED BY <1>2, <1>3 DEF OpenFile, Confirm, Dismiss

-----------------------------------------------------------------------------
LEMMA NextDownloadInv == DownloadInv /\ [Next]_vars => DownloadInv'
<1>. SUFFICES ASSUME DownloadInv, [Next]_vars PROVE DownloadInv'
  OBVIOUS
<1>1. ASSUME NEW d \in Ids, Ask(d) \/ Decline(d) PROVE DownloadInv'
  BY <1>1, PromptInv
<1>2. ASSUME NEW d \in Ids, Publish(d) \/ Fail(d) PROVE DownloadInv'
  BY <1>2, TransferInv
<1>3. ASSUME NEW d \in Ids, Deliver(d) PROVE DownloadInv'
  BY <1>3, DeliverInv
<1>4. ASSUME NEW d \in Ids, NEW path \in Paths, AnswerPath(d, path) \/ StartInDirectory(d, path)
      PROVE DownloadInv'
  <2>1. transfer[d].at = "none" /\ d \notin asking' /\ asking' \subseteq asking
    BY <1>4 DEF AnswerPath, StartInDirectory, Fresh, DownloadInv, AskedAreNew
  <2>2. Started(d, path) /\ UNCHANGED <<profile, file, confirming, opened>>
    BY <1>4 DEF AnswerPath, StartInDirectory
  <2>. QED BY <2>1, <2>2, StartedInv
<1>5. ASSUME NEW d \in Ids, NEW move \in DOMAIN Moves, Control(d, move) PROVE DownloadInv'
  BY <1>5, ControlInv
<1>6. ASSUME NEW p \in Profiles, Switch(p) PROVE DownloadInv'
  BY <1>6, SwitchInv
<1>7. CASE Clear
  BY <1>7, ClearInv
<1>8. CASE (\E d \in Ids : OpenFile(d)) \/ Confirm \/ Dismiss
  BY <1>8, FileInv
<1>9. CASE UNCHANGED vars
  BY <1>9
  DEF vars, DownloadInv, TypeOK, PrivateLeavesNothing, CompletedIsPublished, AskedAreNew,
      EntriesHaveTransfers, ResultsHaveFiles, PathsAreKnown
<1>. QED BY <1>1, <1>2, <1>3, <1>4, <1>5, <1>6, <1>7, <1>8, <1>9 DEF Next

\* The list agrees with the transfers at every moment, for any number of downloads.
THEOREM DownloadInvariant == Spec => []DownloadInv
  BY InitDownloadInv, NextDownloadInv, PTL DEF Spec

\* A profile of kind Private has a list of downloads only while it is active.
THEOREM PrivateListsVanish == Spec => []PrivateLeavesNothing
<1>1. DownloadInv => PrivateLeavesNothing
  BY DEF DownloadInv
<1>. QED BY <1>1, DownloadInvariant, PTL

\* What is shown as completed was put in its place by its own transfer.
THEOREM CompletedArePublished == Spec => []CompletedIsPublished
<1>1. DownloadInv => CompletedIsPublished
  BY DEF DownloadInv
<1>. QED BY <1>1, DownloadInvariant, PTL

\* No dangerous file is opened without a confirmation of its own, in its own profile.
THEOREM DangerousAreConfirmed == Spec => DangerousIsConfirmed
<1>. DEFINE Asked == \A d \in opened' \ opened :
                       /\ entry'[d].profile = profile
                       /\ entry'[d].path \in Dangerous => entry'[d].confirmed
<1>1. TypeOK /\ [Next]_vars => Asked \/ UNCHANGED vars
  <2>. SUFFICES ASSUME TypeOK, [Next]_vars PROVE Asked \/ UNCHANGED vars
    OBVIOUS
  <2>1. ASSUME NEW d \in Ids, OpenFile(d) PROVE Asked
    <3>1. entry' = entry /\ opened' \subseteq opened \cup {d}
          /\ (opened' # opened => entry[d].profile = profile
                                  /\ (entry[d].path \in Dangerous => entry[d].confirmed))
      BY <2>1 DEF OpenFile, Opened, Visible, TypeOK, Entry, NoEntry
    <3>. QED BY <3>1
  <2>2. CASE Confirm
    <3>1. CASE Visible(confirming) /\ entry[confirming].state = "completed"
      <4>1. confirming \in Ids /\ opened' \subseteq opened \cup {confirming}
            /\ entry' = [entry EXCEPT ![confirming].confirmed = TRUE]
        BY <2>2, <3>1 DEF Confirm, Opened, TypeOK
      <4>2. entry[confirming] \in Entry /\ entry[confirming].profile = profile
        BY <4>1, <3>1 DEF Visible, TypeOK
      <4>3. entry'[confirming].confirmed /\ entry'[confirming].profile = profile
        BY <4>1, <4>2 DEF TypeOK, Entry
      <4>. QED BY <4>1, <4>3
    <3>2. CASE ~(Visible(confirming) /\ entry[confirming].state = "completed")
      BY <2>2, <3>2 DEF Confirm
    <3>. QED BY <3>1, <3>2
  <2>3. ASSUME \/ Clear \/ Dismiss \/ UNCHANGED vars
               \/ \E d \in Ids : Ask(d) \/ Decline(d) \/ Publish(d) \/ Fail(d) \/ Deliver(d)
               \/ \E d \in Ids, path \in Paths : AnswerPath(d, path) \/ StartInDirectory(d, path)
               \/ \E d \in Ids, move \in DOMAIN Moves : Control(d, move)
               \/ \E p \in Profiles : Switch(p)
        PROVE  UNCHANGED opened
    BY <2>3 DEF Clear, Dismiss, Ask, Decline, Publish, Fail, Deliver, AnswerPath, StartInDirectory,
                Control, Switch, vars
  <2>. QED BY <2>1, <2>2, <2>3 DEF Next
<1>2. DownloadInv => TypeOK
  BY DEF DownloadInv
<1>. QED BY <1>1, <1>2, DownloadInvariant, PTL DEF Spec, DangerousIsConfirmed
=============================================================================
