---------------------------- MODULE MCDashboard -----------------------------
(***************************************************************************)
(* The model-checking instance of what members of the dashboard share:     *)
(* Membership and BlogPosts.  They keep disjoint state, and the blog looks *)
(* at no more of a membership than its permissions, so that their steps    *)
(* commute: the run takes the behaviours of each of them, not their        *)
(* interleavings.                                                          *)
(***************************************************************************)
EXTENDS Membership, BlogPosts, TLC

CONSTANTS a, b, c, r1, r2, s1, s2

Updates == {[status |-> "revoked"], [role |-> "viewer"],
            [role |-> "admin", status |-> "approved"], [expires |-> "later"]}

Administrator == [role |-> "admin", status |-> "approved", expires |-> "never",
                  user |-> TRUE, project |-> "none"]
Known == [role |-> "viewer", status |-> "approved", expires |-> "never",
          user |-> TRUE, project |-> "on"]
NoRequest == [status |-> "none", verified |-> FALSE]

\* Two administrators, and a third person with the membership m, the account x,
\* the access request e and the session s.
Begun(m, x, e, s, k) ==
    [member |-> [p \in Member |-> IF p = c THEN m ELSE Administrator],
     account |-> [p \in Member |-> IF p = c THEN x ELSE "on"],
     entry |-> [p \in Member |-> IF p = c THEN e ELSE NoRequest],
     session |-> {a, b} \cup s,
     cookie |-> {},
     keys |-> [p \in Member |-> IF p = c THEN k ELSE NoKeys]]

Starts ==
    {Begun(Known, "on", NoRequest, {c}, [NoKeys EXCEPT !.external = TRUE, !.managed = TRUE]),
     Begun([Known EXCEPT !.user = FALSE, !.project = "none", !.status = "pending"], "none",
           [status |-> "pending", verified |-> TRUE], {}, NoKeys),
     Begun([Known EXCEPT !.user = FALSE, !.project = "none"], "on", NoRequest, {}, NoKeys),
     Begun([Known EXCEPT !.user = FALSE, !.project = "none", !.status = "none"], "off",
           [status |-> "pending", verified |-> FALSE], {}, NoKeys)}

Symmetry == Permutations({a, b}) \cup Permutations({r1, r2}) \cup Permutations({s1, s2})

-----------------------------------------------------------------------------
VARIABLE part  \* the one that moves

dashboardVars == <<part, vars, blogPostsVars>>

\* The parts that do not move stay in one of their initial states.
MCInit ==
    /\ part \in {"members", "posts"}
    /\ Init /\ (part # "members" => member[c] = Known)
    /\ BlogPostsInit

MCNext ==
    /\ UNCHANGED part
    /\ \/ /\ part = "members" /\ Next
          /\ UNCHANGED blogPostsVars
       \/ /\ part = "posts" /\ BlogPostsNext
          /\ UNCHANGED vars

MCSpec == MCInit /\ [][MCNext]_dashboardVars
=============================================================================
