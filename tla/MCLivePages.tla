----------------------------- MODULE MCLivePages -----------------------------
(* Instances of LivePages for TLC. *)
EXTENDS LivePages, TLC

CONSTANTS v, w, short, long, other

\* Two pages, the address of one of which is not written the way Servo reports it.
MCUrlOf == (v :> short) @@ (w :> other)
MCNormal == (short :> long) @@ (long :> long) @@ (other :> other)
MCShots == [page : Urls \cup {Blank, Unknown}, finished : BOOLEAN]

\* The shell reads the answers before the next call begins.
Prompt == thread = "calling" => responses = <<>>
=============================================================================
