----------------------------- MODULE MCStartup -----------------------------
(* Model values and configurations for checking Startup. *)
EXTENDS Startup

CONSTANTS i1, i2, s1, s2, decay

Good == [smtp |-> "complete", secret |-> "long", password |-> TRUE, google |-> 3,
         publicBase |-> "unset", decayBase |-> "absolute", tier |-> "full_guest",
         policy |-> "disabled", captcha |-> "altcha", captchaSecret |-> TRUE,
         zone |-> "known", proxies |-> "listed", sweeps |-> TRUE]
OpenCaptcha == [Good EXCEPT !.captchaSecret = FALSE]
TwoAtATime == {{i1, i2}, {i1, s1}, {s1, s2}}
Configs  == {Good, OpenCaptcha}

\* The second migration drops what the first one made.
SecondDropsFirst == [v \in {1, 2} |-> IF v = 2 THEN {1} ELSE {}]
=============================================================================
