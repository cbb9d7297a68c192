----------------------- MODULE MCRegistrationMessaging -----------------------
(***************************************************************************)
(* Small instances of RegistrationMessaging for TLC.                       *)
(***************************************************************************)
EXTENDS RegistrationMessagingProperties, TLC

CONSTANTS r1, r2, s1, alice, bob

\* The set-up that the listeners imply: mail and SMS for registrations and for
\* logins that failed, the app's queue for logins.
MCBindings ==
  {<<"registration", "", "q_mail">>, <<"registration", "", "q_sms">>,
   <<"login", "", "q_app">>, <<"waitfile", "", "waitfile">>,
   <<"login", "login_failed", "q_mail">>, <<"login", "login_failed", "q_sms">>}

Symmetry == Permutations(Request) \cup Permutations(User)
==============================================================================
