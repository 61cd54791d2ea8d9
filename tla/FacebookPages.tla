--------------------------- MODULE FacebookPages ---------------------------
(***************************************************************************)
(* The Facebook pages of an application (app/api/v1/facebook/router.py,    *)
(* app/services/facebook_management.py, facebook_client.py).               *)
(*                                                                         *)
(* One page of one application.  Its token is stored when Facebook knows   *)
(* it, and is used by requests that publish and that change or cancel what *)
(* is scheduled.  A request reads the token once, and everything that it   *)
(* does with it may be overtaken: by a reconnection, by a disconnection    *)
(* and by the hour at which Facebook publishes a scheduled post.           *)
(***************************************************************************)
EXTENDS Naturals, FiniteSets

CONSTANTS
    PageVisit,  \* requests about the page
    PageToken,  \* tokens that Facebook issues
    MaxLapses   \* answers and transactions that are lost

ASSUME MaxLapsesAssumption == MaxLapses \in Nat

VARIABLES
    page,     \* the row of facebook_page_tokens
    valid,    \* Facebook: the tokens that it still accepts
    posts,    \* Facebook: what became of the post of each request
    visit,    \* what each request does
    lapses

pageVars == <<page, valid, posts, visit, lapses>>

NoPage == [there |-> FALSE, active |-> FALSE, token |-> {}]
NoVisit == [does |-> "none", at |-> "idle", token |-> {}, row |-> NoPage]
Live == {"scheduled", "published"}

PagesInit ==
    /\ page = NoPage
    /\ valid = PageToken
    /\ posts = [v \in PageVisit |-> "none"]
    /\ visit = [v \in PageVisit |-> NoVisit]
    /\ lapses = 0

Lapse == lapses < MaxLapses /\ lapses' = lapses + 1
Visiting(v, does, place) == visit[v].does = does /\ visit[v].at = place
Becomes(v, place) == visit' = [visit EXCEPT ![v].at = place]

\* A request begins and reads the row.
Reads(v, does, place) ==
    /\ visit[v].at = "idle"
    /\ visit' = [visit EXCEPT ![v] = [NoVisit EXCEPT !.does = does, !.at = place, !.row = page]]

\* The transaction of a request: the answer of one that fails is 500.
Commits(v, row, place) ==
    \/ page' = row /\ Becomes(v, place) /\ UNCHANGED lapses
    \/ page' \in {page, row} /\ Becomes(v, "failed") /\ Lapse

-----------------------------------------------------------------------------
\* store_page_token: Facebook is asked first, then the row is read.
Verify(v, t) ==
    /\ visit[v].at = "idle"
    /\ t \in valid
    /\ visit' = [visit EXCEPT ![v] = [NoVisit EXCEPT !.does = "connect", !.at = "verified", !.token = {t}]]
    /\ UNCHANGED <<page, valid, posts, lapses>>

ReadConnection(v) ==
    /\ Visiting(v, "connect", "verified")
    /\ visit' = [visit EXCEPT ![v].at = "read", ![v].row = page]
    /\ UNCHANGED <<page, valid, posts, lapses>>

\* Mutant: only a new row is made active.
RotateToken(v) ==
    /\ Visiting(v, "connect", "read")
    /\ Commits(v, [there |-> TRUE, active |-> (visit[v].row.there => page.active),
                   token |-> visit[v].token], "success")
    /\ UNCHANGED <<valid, posts>>

\* The page of an application is unique.  A row that was read as active is not
\* made active: the assignment changes nothing, and is not part of the update.
StoreToken(v) ==
    /\ Visiting(v, "connect", "read")
    /\ IF ~visit[v].row.there /\ page.there
       THEN Becomes(v, "failed") /\ UNCHANGED <<page, lapses>>
       ELSE Commits(v, [there |-> TRUE, active |-> (visit[v].row.active => page.active),
                        token |-> visit[v].token], "success")
    /\ UNCHANGED <<valid, posts>>

\* disconnect_page
BeginDisconnect(v) ==
    /\ page.there
    /\ Reads(v, "disconnect", "read")
    /\ UNCHANGED <<page, valid, posts, lapses>>

Disconnect(v) ==
    /\ Visiting(v, "disconnect", "read")
    /\ Commits(v, [page EXCEPT !.active = @ /\ ~visit[v].row.active], "success")
    /\ UNCHANGED <<valid, posts>>

-----------------------------------------------------------------------------
\* post_to_page, manage_post: without an active row the answer is 404.
UseToken(v, does) ==
    /\ page.active
    /\ Reads(v, does, "send")
    /\ UNCHANGED <<page, valid, posts, lapses>>

Accepted(v) == visit[v].row.token \subseteq valid

\* Facebook makes the post of a text, a photo that was uploaded before, or a video.
\* An error, also one after the post was made, is answered as an error.
Publish(v, how) ==
    /\ Visiting(v, "publish", "send")
    /\ Accepted(v)
    /\ \/ posts' = [posts EXCEPT ![v] = how] /\ Becomes(v, "success") /\ UNCHANGED lapses
       \/ posts' = [posts EXCEPT ![v] = how] /\ Becomes(v, "failed") /\ Lapse
       \/ Becomes(v, "failed") /\ UNCHANGED <<posts, lapses>>
    /\ UNCHANGED <<page, valid>>

\* Error 190: the token has expired or was revoked.
Expired(v) == Visiting(v, "publish", "send") /\ ~Accepted(v)

\* The row is made inactive, whatever its token is by now.
RefuseToken(v) ==
    /\ Expired(v)
    /\ Commits(v, [page EXCEPT !.active = FALSE], "refused")
    /\ UNCHANGED <<valid, posts>>

\* manage_post: the post p is looked at.
Inspect(v, p) ==
    /\ \/ Visiting(v, "cancel", "send")
       \/ Visiting(v, "change", "send")
    /\ IF Accepted(v) /\ posts[p] = "scheduled"
       THEN visit' = [visit EXCEPT ![v].at = "act", ![v].token = {p}]
       ELSE Becomes(v, "failed")
    /\ UNCHANGED <<page, valid, posts, lapses>>

\* It is deleted or changed, also when Facebook has published it since.
ActOnPost(v) ==
    LET Done(p) == IF visit[v].does = "cancel" THEN [posts EXCEPT ![p] = "cancelled"] ELSE posts
    IN /\ visit[v].at = "act"
       /\ \E p \in visit[v].token :
             \/ Accepted(v) /\ posts[p] \in Live /\ posts' = Done(p) /\ Becomes(v, "success") /\ UNCHANGED lapses
             \/ Accepted(v) /\ posts[p] \in Live /\ posts' = Done(p) /\ Becomes(v, "failed") /\ Lapse
             \/ Becomes(v, "failed") /\ UNCHANGED <<posts, lapses>>
       /\ UNCHANGED <<page, valid>>

-----------------------------------------------------------------------------
\* Facebook publishes what is due, and its user revokes a token.
FacebookStep ==
    /\ \/ \E v \in PageVisit : posts[v] = "scheduled" /\ posts' = [posts EXCEPT ![v] = "published"]
                               /\ UNCHANGED valid
       \/ \E t \in valid : valid' = valid \ {t} /\ UNCHANGED posts
    /\ UNCHANGED <<page, visit, lapses>>

PagesNext ==
    \/ \E v \in PageVisit :
          \/ \E t \in PageToken : Verify(v, t)
          \/ ReadConnection(v) \/ StoreToken(v) \/ BeginDisconnect(v) \/ Disconnect(v)
          \/ \E does \in {"publish", "cancel", "change"} : UseToken(v, does)
          \/ \E how \in Live : Publish(v, how)
          \/ RefuseToken(v)
          \/ \E p \in PageVisit : Inspect(v, p)
          \/ ActOnPost(v)
    \/ FacebookStep

PagesSpec == PagesInit /\ [][PagesNext]_pageVars

-----------------------------------------------------------------------------
PageRow == [there : BOOLEAN, active : BOOLEAN, token : SUBSET PageToken]

PagesTypeOK ==
    /\ page \in PageRow
    /\ valid \subseteq PageToken
    /\ posts \in [PageVisit -> {"none", "scheduled", "published", "cancelled"}]
    /\ visit \in [PageVisit -> [does : {"none", "connect", "disconnect", "publish", "cancel", "change"},
                                at : {"idle", "verified", "read", "send", "act", "success", "failed", "refused"},
                                token : SUBSET (PageToken \cup PageVisit), row : PageRow]]
    /\ lapses \in 0..MaxLapses

(***************************************************************************)
(* What the application is told of its page is true.  A page that counts   *)
(* as connected has a token that Facebook had verified, and one that does  *)
(* not was disconnected or had a token refused.  A post that is said to be *)
(* made was made, for the request that asked for it, and it is gone only   *)
(* if it was cancelled; one that is said to be cancelled is gone.          *)
(***************************************************************************)
ToldTruly ==
    /\ page.active => \E v \in PageVisit : visit[v].does = "connect" /\ visit[v].token = page.token
    /\ page.there /\ ~page.active =>
          \E v \in PageVisit : /\ visit[v].at \in {"success", "failed", "refused"}
                              /\ (visit[v].does = "disconnect" \/ (visit[v].does = "publish" /\ ~Accepted(v)))
    /\ \A v \in PageVisit :
          /\ posts[v] # "none" => visit[v].does = "publish"
          /\ Visiting(v, "publish", "success") => posts[v] # "none"
          /\ posts[v] = "cancelled" => \E c \in PageVisit : visit[c].does = "cancel" /\ v \in visit[c].token
          /\ Visiting(v, "cancel", "success") => \A p \in visit[v].token : posts[p] = "cancelled"

(***************************************************************************)
(* Connections hold.  A request disconnects a page only when it had found  *)
(* it connected, and was asked to or had its token refused, also if the    *)
(* page has another token by now.  A page is connected again only by a     *)
(* request that found it disconnected and had its own token verified, so   *)
(* that none that was overtaken by a disconnection undoes it.  And a token *)
(* that is said to be stored is that of a connected page, unless the page  *)
(* was disconnected after the request had read it as connected.            *)
(***************************************************************************)
ConnectionsHold ==
    [][/\ page.active /\ ~page'.active =>
             \E v \in PageVisit : /\ visit[v].row.active
                                 /\ (Visiting(v, "disconnect", "read") \/ Expired(v))
       /\ ~page.active /\ page'.active =>
             \E v \in PageVisit : /\ Visiting(v, "connect", "read") /\ ~visit[v].row.active
                                 /\ page'.token = visit[v].token
       /\ \A v \in PageVisit : Visiting(v, "connect", "read") /\ Visiting(v, "connect", "success")' =>
             /\ page'.token = visit[v].token
             /\ page'.active \/ (visit[v].row.active /\ ~page.active)]_pageVars

\* Both, for every page and whatever requests overtake each other.
PageIsTrue == []ToldTruly /\ ConnectionsHold
=============================================================================
