------------------------------- MODULE MCLogin -------------------------------
(* Values of InviteLogin's constants for TLC: a recruiter, and a candidate  *)
(* who came back with a new Google account at the old address, and with     *)
(* another that spells it differently.  The candidate's address is also     *)
(* configured, with a role that is misspelt.                                *)
EXTENDS InviteLogin, TLC

CONSTANTS rita, cleo, cleo2, cleo3

\* Handlers are alike, and so are the two accounts at one address.
Perms == Permutations(Handlers) \cup Permutations({cleo, cleo2})

SomeEmails == [a \in Accounts |-> CASE a = rita -> "rita@"
                                    [] a = cleo3 -> "Cleo@"
                                    [] OTHER -> "cleo@"]

InLowerCase == [e \in Emails |-> IF e = "Cleo@" THEN "cleo@" ELSE e]

SomeRoles == [e \in Emails |-> CASE e = "rita@" -> "recruiter"
                                 [] e = "cleo@" -> "unknown"
                                 [] OTHER -> "none"]
=============================================================================
