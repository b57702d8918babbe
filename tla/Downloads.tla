------------------------------ MODULE Downloads ------------------------------
(***************************************************************************)
(* The downloads of a window: the list kept in BrowserCore, the transfers   *)
(* that run in the background, and the questions put to the user.           *)
(*                                                                         *)
(* The shell's thread takes one step for each click and for each result a   *)
(* transfer hands back; a transfer publishes its file, by a rename, before  *)
(* the shell hears of it.  Every lookup of an entry is among those of the   *)
(* active profile.  Bytes, progress and checksums are left out, and so is   *)
(* everything of the window but its active profile.                         *)
(***************************************************************************)
EXTENDS Naturals

CONSTANTS
  Ids,           \* download ids, each drawn when the user asks for a download
  Paths,         \* where files may be put
  Dangerous,     \* the paths whose name has one of DANGEROUS_DOWNLOAD_EXTENSIONS
  Profiles,
  Private,       \* the profiles of kind Private
  None

States == {"in_progress", "paused", "completed", "cancelled", "failed"}

ASSUME ConstantsAssumption ==
  /\ Dangerous \subseteq Paths /\ Private \subseteq Profiles
  /\ None \notin Ids \cup Paths \cup Profiles \cup States

VARIABLES
  profile,      \* active_profile_id
  asking,       \* the downloads whose file prompt is open
  entry,        \* download_entries
  transfer,     \* per id, its background task and the result it holds
  file,         \* per path, the download that was put there last
  confirming,   \* download_security_confirmation
  opened        \* history: the downloads whose file was opened or revealed

vars == <<profile, asking, entry, transfer, file, confirming, opened>>

Entry == [state : States, profile : Profiles, path : Paths, confirmed : BOOLEAN]
NoEntry == [state |-> None, profile |-> None, path |-> None, confirmed |-> FALSE]

\* "published" and "failed" are results that the shell has not been handed yet.
Transfers == {"none", "running", "published", "failed", "over"}

Init ==
  /\ profile \in Profiles
  /\ asking = {}
  /\ entry = [d \in Ids |-> NoEntry]
  /\ transfer = [d \in Ids |-> [at |-> "none", path |-> None]]
  /\ file = [p \in Paths |-> None]
  /\ confirming = None
  /\ opened = {}

\* download_entry_mut, visible_download_entry
Visible(d) == entry[d] # NoEntry /\ entry[d].profile = profile

Fresh(d) == d \notin asking /\ transfer[d].at = "none"

-----------------------------------------------------------------------------
(* Starting *)

\* start_download_to_path: the entry is of the profile active now.
Started(d, path) ==
  /\ entry' = [entry EXCEPT ![d] = [state |-> "in_progress", profile |-> profile,
                                    path |-> path, confirmed |-> FALSE]]
  /\ transfer' = [transfer EXCEPT ![d] = [at |-> "running", path |-> path]]

\* download_active_tab, where the profile's policy is to ask: the prompt is awaited.
Ask(d) ==
  /\ Fresh(d)
  /\ asking' = asking \cup {d}
  /\ UNCHANGED <<profile, entry, transfer, file, confirming, opened>>

\* ... and its answer: a path, which may be taken, or nothing.
AnswerPath(d, path) ==
  /\ d \in asking
  /\ asking' = asking \ {d}
  /\ Started(d, path)
  /\ UNCHANGED <<profile, file, confirming, opened>>

Decline(d) ==
  /\ d \in asking
  /\ asking' = asking \ {d}
  /\ UNCHANGED <<profile, entry, transfer, file, confirming, opened>>

\* ... and where the policy is a directory: a path that no file has yet.
StartInDirectory(d, path) ==
  /\ Fresh(d) /\ file[path] = None
  /\ Started(d, path)
  /\ UNCHANGED <<profile, asking, file, confirming, opened>>

-----------------------------------------------------------------------------
(* The transfer *)

\* download_to_file: everything was received and renamed to its place.
Publish(d) ==
  /\ transfer[d].at = "running"
  /\ transfer' = [transfer EXCEPT ![d].at = "published"]
  /\ file' = [file EXCEPT ![transfer[d].path] = d]
  /\ UNCHANGED <<profile, asking, entry, confirming, opened>>

\* ... or it failed, and its temporary file is removed.
Fail(d) ==
  /\ transfer[d].at = "running"
  /\ transfer' = [transfer EXCEPT ![d].at = "failed"]
  /\ UNCHANGED <<profile, asking, entry, file, confirming, opened>>

\* Mutant of Outcome: a failure is recorded like a success.
OutcomeAlways(d) == IF entry[d].state = "in_progress" THEN "completed" ELSE entry[d].state

\* complete_download and fail_download, which refuse an entry in another state.
Outcome(d) ==
  IF transfer[d].at = "published" /\ entry[d].state = "in_progress" THEN "completed"
  ELSE IF transfer[d].at = "failed" /\ entry[d].state \in {"in_progress", "paused"} THEN "failed"
  ELSE entry[d].state

\* handle_http_download_result: of an entry that is not found the result is dropped.
Deliver(d) ==
  /\ transfer[d].at \in {"published", "failed"}
  /\ transfer' = [transfer EXCEPT ![d].at = "over"]
  /\ entry' = IF Visible(d) THEN [entry EXCEPT ![d].state = Outcome(d)] ELSE entry
  /\ UNCHANGED <<profile, asking, file, confirming, opened>>

-----------------------------------------------------------------------------
(* The list *)

\* pause_download, resume_download, cancel_download and retry_download change the
\* entry, and nothing else.
Moves == [pause |-> [from |-> {"in_progress"}, to |-> "paused"],
          resume |-> [from |-> {"paused"}, to |-> "in_progress"],
          cancel |-> [from |-> {"in_progress", "paused"}, to |-> "cancelled"],
          retry |-> [from |-> {"cancelled", "failed"}, to |-> "in_progress"]]

Control(d, move) ==
  /\ Visible(d) /\ entry[d].state \in Moves[move].from
  /\ entry' = [entry EXCEPT ![d].state = Moves[move].to]
  /\ UNCHANGED <<profile, asking, transfer, file, confirming, opened>>

\* clear_downloads_for_profile
Cleared(p) == [d \in Ids |-> IF entry[d].profile = p THEN NoEntry ELSE entry[d]]

Clear ==
  /\ entry' = Cleared(profile)
  /\ UNCHANGED <<profile, asking, transfer, file, confirming, opened>>

\* Mutant of Switch: the profile that is entered is cleared, not the one that is left.
SwitchLate(p) ==
  /\ p # profile /\ profile' = p
  /\ entry' = IF p \in Private THEN Cleared(p) ELSE entry
  /\ UNCHANGED <<asking, transfer, file, confirming, opened>>

\* select_tab, when the tab is of another profile: a private one leaves no list.
Switch(p) ==
  /\ p # profile /\ profile' = p
  /\ entry' = IF profile \in Private THEN Cleared(profile) ELSE entry
  /\ UNCHANGED <<asking, transfer, file, confirming, opened>>

-----------------------------------------------------------------------------
(* The files *)

\* execute_download_file_action: nothing is opened where there is no file.
Opened(d) == opened' = IF file[entry[d].path] # None THEN opened \cup {d} ELSE opened

\* Mutant of OpenFile: no question is asked.
OpenFileAtOnce(d) ==
  /\ Visible(d) /\ entry[d].state = "completed"
  /\ Opened(d)
  /\ UNCHANGED <<profile, asking, entry, transfer, file, confirming>>

\* open_download_file and reveal_download_file, offered for a completed download: the
\* user is asked first when the file is dangerous and was not confirmed before.
OpenFile(d) ==
  /\ Visible(d) /\ entry[d].state = "completed"
  /\ IF entry[d].path \in Dangerous /\ ~entry[d].confirmed
       THEN confirming' = d /\ UNCHANGED opened
       ELSE Opened(d) /\ UNCHANGED confirming
  /\ UNCHANGED <<profile, asking, entry, transfer, file>>

\* confirm_download_security_prompt: the entry is looked up again.
Confirm ==
  /\ confirming # None
  /\ confirming' = None
  /\ IF Visible(confirming) /\ entry[confirming].state = "completed"
       THEN entry' = [entry EXCEPT ![confirming].confirmed = TRUE] /\ Opened(confirming)
       ELSE UNCHANGED <<entry, opened>>
  /\ UNCHANGED <<profile, asking, transfer, file>>

\* cancel_download_security_prompt
Dismiss ==
  /\ confirming # None
  /\ confirming' = None
  /\ UNCHANGED <<profile, asking, entry, transfer, file, opened>>

Next ==
  \/ \E d \in Ids : Ask(d) \/ Decline(d) \/ Publish(d) \/ Fail(d) \/ Deliver(d) \/ OpenFile(d)
  \/ \E d \in Ids, path \in Paths : AnswerPath(d, path) \/ StartInDirectory(d, path)
  \/ \E d \in Ids, move \in DOMAIN Moves : Control(d, move)
  \/ \E p \in Profiles : Switch(p)
  \/ Clear \/ Confirm \/ Dismiss

Spec == Init /\ [][Next]_vars

-----------------------------------------------------------------------------
(* Properties *)

\* Every variable has its type.
TypeOK ==
  /\ profile \in Profiles /\ asking \subseteq Ids /\ opened \subseteq Ids
  /\ entry \in [Ids -> Entry \cup {NoEntry}]
  /\ transfer \in [Ids -> [at : Transfers, path : Paths \cup {None}]]
  /\ file \in [Paths -> Ids \cup {None}]
  /\ confirming \in Ids \cup {None}

\* A private profile has a list of downloads only while it is the active one, although
\* its transfers and its prompts outlive the change to another profile.
PrivateLeavesNothing == \A d \in Ids : entry[d].profile \in Private => entry[d].profile = profile

\* A download is shown as completed only when its own transfer is over and a file is in
\* its place, however it was paused, cancelled and retried, and whenever the result came.
\* (The file may be another download's that was given the same path.)
CompletedIsPublished ==
  \A d \in Ids : entry[d].state = "completed" => transfer[d].at = "over" /\ file[entry[d].path] # None

\* A file with a dangerous name is opened only when the user has confirmed the question
\* about that download, in the profile it belongs to; the entry may have been cleared
\* and the profile changed while the question was open.
DangerousIsConfirmed ==
  [][\A d \in opened' \ opened :
       /\ entry'[d].profile = profile
       /\ entry'[d].path \in Dangerous => entry'[d].confirmed]_vars

=============================================================================
