--------------------------- MODULE MCTelegramGuard ---------------------------
(* Instances of TelegramGuard for TLC.                                       *)
EXTENDS TelegramGuard

Plain == [match |-> None, safety |-> None, community |-> FALSE, message |-> TRUE]
Noisy == [Plain EXCEPT !.community = TRUE]
PolicyMatch == [Plain EXCEPT !.match = "policy"]
CriticalMatch == [Plain EXCEPT !.match = "critical"]
Media == [CriticalMatch EXCEPT !.safety = "restrict_sender", !.community = TRUE]
Joining == [Plain EXCEPT !.community = TRUE, !.message = FALSE]

MCTraits == {Noisy, CriticalMatch, Media, Joining}
MCPolicyTraits == {Plain, PolicyMatch}
MCModes == {"enforce", "observe", "challenge_only", "review_required"}
MCEnforce == {"enforce"}
=============================================================================
