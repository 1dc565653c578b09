----------------------------- MODULE MCSettings -----------------------------
(* Instances of Settings: two calls for the key, two requests, two hours.     *)
EXTENDS Settings

CONSTANTS s1, u1

\* The password and another hour; another hour without the password; the frequency alone,
\* with the hour and with the fields before it.
MCInputs ==
    {[NoInput EXCEPT !.hour = 17, !.secret = s1],
     [NoInput EXCEPT !.hour = 9],
     [NoInput EXCEPT !.freq = "never"],
     [NoInput EXCEPT !.hour = 17, !.freq = "daily"],
     [NoInput EXCEPT !.user = u1, !.ask = FALSE, !.freq = "daily"]}
=============================================================================
