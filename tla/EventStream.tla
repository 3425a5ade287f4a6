----------------------------- MODULE EventStream -----------------------------
(***************************************************************************)
(* What the client of a streaming chat completion may see: an error        *)
(* response, or status 200 and an event stream of content chunks that      *)
(* either ends properly -- one finish chunk, then [DONE] -- or breaks off. *)
(***************************************************************************)
VARIABLES phase

Phases == {"waiting", "refused", "open", "finished", "done", "broken"}

Init == phase = "waiting"

Refuse == phase = "waiting" /\ phase' = "refused"
Open   == phase = "waiting" /\ phase' = "open"
Finish == phase = "open" /\ phase' = "finished"
Done   == phase = "finished" /\ phase' = "done"
Break  == phase = "open" /\ phase' = "broken"

Next == Refuse \/ Open \/ Finish \/ Done \/ Break

Spec == Init /\ [][Next]_phase
=============================================================================
