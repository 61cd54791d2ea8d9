------------------------------- MODULE SignIn -------------------------------
(***************************************************************************)
(* Sign-ins with Google (app/api/v1/dashboard/router.py, the auth section, *)
(* and app/api/v1/auth/router.py): the browser may repeat or race every    *)
(* step of a login, time passes between them, and a process may die in any *)
(* handler.  What a login leads to, a session of a member, is the subject  *)
(* of Membership; here a membership is only approved or not.               *)
(***************************************************************************)
EXTENDS Naturals

CONSTANTS
    Login,      \* logins that browsers start, all by one person
    Legacy,     \* those of the gateway's own login page, which ends in a cookie
    ByEmail,    \* those whose address Google does not vouch for: a code is sent
    Handler,    \* requests at work at the same time
    MaxGuesses  \* wrong codes that are answered

ASSUME SignInAssumption == Legacy \subseteq Login /\ ByEmail \subseteq Login

VARIABLES
    oauth,      \* oauth_transactions: "none", "started", "consumed", "ticket", "taken", "expired"
    challenge,  \* email_challenges: state, attempts, and the verification that locks it
    handler,    \* what each request does, for which login, and what it has read
    approved,   \* the membership of the person
    sessions,   \* sessions and cookies each login has led to
    guesses     \* codes that were answered as wrong, for each challenge

signInVars == <<oauth, challenge, handler, approved, sessions, guesses>>

MaxAttempts == 5
Free == "free"
ASSUME FreeAssumption == Free \notin Handler
Rest == [at |-> "rest"]
NoChallenge == [state |-> "none", attempts |-> 0, lock |-> Free]

SignInInit ==
    /\ oauth = [l \in Login |-> "none"]
    /\ challenge = [l \in Login |-> NoChallenge]
    /\ handler = [h \in Handler |-> Rest]
    /\ approved = TRUE
    /\ sessions = [l \in Login |-> 0]
    /\ guesses = [l \in Login |-> 0]

At(h, place) == handler[h].at = place
LogsOn(h, place, l) == handler' = [handler EXCEPT ![h] = [at |-> place, login |-> l]]
Ends(h) == handler' = [handler EXCEPT ![h] = Rest]

\* /auth/start and /auth/login
StartLogin(l) ==
    /\ oauth[l] = "none"
    /\ oauth' = [oauth EXCEPT ![l] = "started"]
    /\ UNCHANGED <<challenge, handler, approved, sessions, guesses>>

\* Mutant: the state is looked at, and consumed when Google has answered.
ConsumeLater(h, l) ==
    /\ At(h, "rest")
    /\ oauth[l] = "started"
    /\ LogsOn(h, "google", l)
    /\ UNCHANGED <<oauth, challenge, approved, sessions, guesses>>

\* The callback consumes the state in one conditional UPDATE, and commits.
Callback(h, l) ==
    /\ At(h, "rest")
    /\ oauth[l] = "started"
    /\ oauth' = [oauth EXCEPT ![l] = "consumed"]
    /\ LogsOn(h, "google", l)
    /\ UNCHANGED <<challenge, approved, sessions, guesses>>

\* Google answers: the dashboard's login gets a ticket for its browser, ...
IssueTicket(h) ==
    /\ At(h, "google")
    /\ handler[h].login \notin Legacy
    /\ oauth' = [oauth EXCEPT ![handler[h].login] = "ticket"]
    /\ Ends(h)
    /\ UNCHANGED <<challenge, approved, sessions, guesses>>

\* ... the gateway's own a cookie, whatever the dashboard thinks of the person.
IssueCookie(h) ==
    /\ At(h, "google")
    /\ handler[h].login \in Legacy
    /\ sessions' = [sessions EXCEPT ![handler[h].login] = @ + 1]
    /\ Ends(h)
    /\ UNCHANGED <<oauth, challenge, approved, guesses>>

\* The ticket is cleared by one conditional UPDATE, and committed.
Exchange(h, l) ==
    /\ At(h, "rest")
    /\ oauth[l] = "ticket"
    /\ oauth' = [oauth EXCEPT ![l] = "taken"]
    /\ LogsOn(h, "exchange", l)
    /\ UNCHANGED <<challenge, approved, sessions, guesses>>

\* establish, at the commit of its transaction.
Establish(l) == sessions' = [sessions EXCEPT ![l] = @ + 1]

\* An approved member with an address of Google is signed in.
Admit(h) ==
    /\ At(h, "exchange")
    /\ handler[h].login \notin ByEmail
    /\ approved
    /\ Establish(handler[h].login)
    /\ Ends(h)
    /\ UNCHANGED <<oauth, challenge, approved, guesses>>

\* Others are sent a code, unless one was sent within the last minute.
Recent == \E l \in Login : challenge[l].state = "sent"
CheckRecent(h) ==
    /\ At(h, "exchange")
    /\ handler[h].login \in ByEmail
    /\ approved
    /\ IF Recent THEN Ends(h) ELSE LogsOn(h, "deliver", handler[h].login)
    /\ UNCHANGED <<oauth, challenge, approved, sessions, guesses>>

\* The challenge is stored once the mail is out.
Deliver(h) ==
    /\ At(h, "deliver")
    /\ challenge' = [challenge EXCEPT ![handler[h].login].state = "sent"]
    /\ Ends(h)
    /\ UNCHANGED <<oauth, approved, sessions, guesses>>

\* verify locks the challenge and looks at it.
Verifiable(c) == c.state \in {"sent", "minute"} /\ c.attempts < MaxAttempts
\* Mutant: the row is read without FOR UPDATE.
ReadChallenge(h, l) ==
    /\ At(h, "rest")
    /\ Verifiable(challenge[l])
    /\ handler' = [handler EXCEPT ![h] = [at |-> "verify", login |-> l,
                                          attempts |-> challenge[l].attempts]]
    /\ UNCHANGED <<oauth, challenge, approved, sessions, guesses>>

LockChallenge(h, l) ==
    /\ At(h, "rest")
    /\ challenge[l].lock = Free
    /\ Verifiable(challenge[l])
    /\ challenge' = [challenge EXCEPT ![l].lock = h]
    /\ handler' = [handler EXCEPT ![h] = [at |-> "verify", login |-> l,
                                          attempts |-> challenge[l].attempts]]
    /\ UNCHANGED <<oauth, approved, sessions, guesses>>

\* The code is compared and is another: the request is about to commit the attempt.
WrongCode(h) ==
    /\ At(h, "verify")
    /\ handler' = [handler EXCEPT ![h].at = "wrong"]
    /\ UNCHANGED <<oauth, challenge, approved, sessions, guesses>>

\* The attempt is committed, and the guess answered unless the answer is lost.  A
\* request that fails before (Fail) has compared a code that does not count, and
\* that is not answered.
CountAttempt(h) ==
    /\ At(h, "wrong")
    /\ LET l == handler[h].login
       IN /\ challenge' = [challenge EXCEPT ![l].attempts = handler[h].attempts + 1,
                                            ![l].lock = Free]
          /\ \/ guesses[l] < MaxGuesses /\ guesses' = [guesses EXCEPT ![l] = @ + 1]
             \/ UNCHANGED guesses
    /\ Ends(h)
    /\ UNCHANGED <<oauth, approved, sessions>>

\* The right code consumes the challenge and signs in, in one transaction.
RightCode(h) ==
    /\ At(h, "verify")
    /\ approved
    /\ LET l == handler[h].login
       IN /\ challenge' = [challenge EXCEPT ![l] = [state |-> "consumed", lock |-> Free,
                                                    attempts |-> handler[h].attempts + 1]]
          /\ Establish(l)
    /\ Ends(h)
    /\ UNCHANGED <<oauth, approved, guesses>>

\* A refusal (403 of establish included), a crash or a lost connection: what
\* was not committed is rolled back.
Fail(h) ==
    /\ ~At(h, "rest")
    /\ challenge' = [l \in Login |-> IF challenge[l].lock = h
                                     THEN [challenge[l] EXCEPT !.lock = Free] ELSE challenge[l]]
    /\ Ends(h)
    /\ UNCHANGED <<oauth, approved, sessions, guesses>>

\* Ten minutes to Google and back, sixty seconds for the ticket.
ExpireLogin(l) ==
    /\ oauth[l] \in {"started", "ticket"}
    /\ oauth' = [oauth EXCEPT ![l] = "expired"]
    /\ UNCHANGED <<challenge, handler, approved, sessions, guesses>>

\* A challenge that is no longer recent, then one that is no longer valid.
AgeChallenge(l) ==
    /\ challenge[l].state \in {"sent", "minute"}
    /\ challenge[l].lock = Free
    /\ challenge' = [challenge EXCEPT ![l].state = IF @ = "sent" THEN "minute" ELSE "expired"]
    /\ UNCHANGED <<oauth, handler, approved, sessions, guesses>>

Approve == /\ approved' = ~approved
           /\ UNCHANGED <<oauth, challenge, handler, sessions, guesses>>

SignInNext ==
    \/ \E l \in Login : StartLogin(l) \/ ExpireLogin(l) \/ AgeChallenge(l)
    \/ \E h \in Handler, l \in Login : Callback(h, l) \/ Exchange(h, l) \/ LockChallenge(h, l)
    \/ \E h \in Handler : \/ IssueTicket(h) \/ IssueCookie(h) \/ Admit(h) \/ CheckRecent(h)
                          \/ Deliver(h) \/ WrongCode(h) \/ CountAttempt(h) \/ RightCode(h) \/ Fail(h)
    \/ Approve

SignInSpec == SignInInit /\ [][SignInNext]_signInVars

-----------------------------------------------------------------------------
(***************************************************************************)
(* However its steps are repeated or race each other, one login leads to   *)
(* one session at most.                                                    *)
(***************************************************************************)
OneSessionPerSignIn == \A l \in Login : sessions[l] <= 1

(***************************************************************************)
(* No more than five codes are answered as wrong for a challenge, however  *)
(* many requests race or fail.                                             *)
(***************************************************************************)
GuessesAreLimited == \A l \in Login : guesses[l] <= MaxAttempts
=============================================================================
