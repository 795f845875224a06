------------------------------ MODULE MCAuthRules ------------------------------
(***************************************************************************)
(* Instances of AuthRules for TLC: every set of up to MaxLogons logons of  *)
(* a small universe of times, users and outcomes.                          *)
(***************************************************************************)
EXTENDS AuthRules

CONSTANTS
  MaxLogons  \* bound: size of an input

\* From before the window before the range (-2) to the end of the range (4): the range
\* 1..3 lies in two buckets.
MCTimes == -2..4
TwoScopes == {"g", "h"}
TwoUsers == {"u", "v"}

\* At one instant the success of u comes before its failure, that of v after it.
Logon(scope, t, user, status) ==
  [id |-> 10 * (t + 2) + (IF scope = "g" THEN 4 ELSE 0)
                      + (IF user = "u" THEN status ELSE 5 - status),
   time |-> t, scope |-> scope, user |-> user, status |-> status]

Logons(scopes, users, from) ==
  {Logon(s, t, u, o) : s \in scopes, t \in from..4, u \in users, o \in {1, 2}}

\* One user name is empty: an event that is not eligible.
Nameless == [id |-> 99, time |-> 1, scope |-> "h", user |-> "", status |-> 2]

\* The subsets of S with at most n elements.
UpTo(n, S) ==
  LET small[k \in 0..n] ==
        IF k = 0 THEN {{}}
        ELSE small[k - 1] \cup {T \cup {x} : T \in small[k - 1], x \in S}
  IN  small[n]

\* One scope over all the times; two scopes inside the range, with and without an event
\* that is not eligible.
Small == UpTo(MaxLogons, Logons({"h"}, TwoUsers, -2))
Mixed == UpTo(MaxLogons, Logons(TwoScopes, TwoUsers, 2))
MCInputs == Small \cup Mixed \cup {S \cup {Nameless} : S \in Mixed}
===============================================================================
