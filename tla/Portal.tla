------------------------------- MODULE Portal -------------------------------
(***************************************************************************)
(* Accounts, API keys, portal sessions and the login limit: the handlers   *)
(* of the portal's API on any number of replicas, and the database tables  *)
(* that they share.  A call is one HTTP request.  Each of its statements   *)
(* may be lost, or take effect without its answer; Maintain deletes rows   *)
(* that are out of date meanwhile, and keys are revoked.                   *)
(***************************************************************************)
EXTENDS Integers, Sequences, FiniteSets

CONSTANTS
    Emails,   \* email addresses; an account has one owner
    Visitors, \* emails that sign up and log in; the others have an account
    Calls,    \* calls under way or just answered, on any replica
    Tokens,   \* session tokens: a new one is a token that nothing refers to
    Limit,    \* login attempts per window: 5 in the code
    Window,   \* ticks of the clock in 15 minutes
    MaxKeys,  \* bound on the API keys of an account
    Null

ASSUME PortalAssumption ==
    /\ Visitors \subseteq Emails
    /\ Limit \in Nat \ {0} /\ Window \in Nat /\ MaxKeys \in Nat \ {0}
    /\ Null \notin Emails \cup Calls \cup Tokens \cup (Emails \X (1..MaxKeys))

VARIABLES
    users,     \* emails in users
    owners,    \* emails with a password, an account and its ownership
    signing,   \* [Emails -> the open transaction that has inserted the email]
    keys,      \* [Emails -> Seq(active?)]: api_keys of an account, oldest first
    sessions,  \* [Tokens -> owner]: portal_sessions
    expired,   \* sessions past their expires_at
    attempts,  \* [Emails -> attempts], 0 without a row, beyond Limit + 1 the same
    age,       \* [Emails -> ticks since window_started]
    cookies,   \* tokens that clients have been given
    call,      \* [Calls -> the call]
    guesses    \* history: [Emails -> ages of the logins admitted of late]

accounts == <<users, owners, signing, keys>>
limits == <<attempts, age, guesses>>
vars == <<accounts, sessions, expired, limits, cookies, call>>

Key == Emails \X (1..MaxKeys)

Running == {"creating", "filling", "counting", "verifying", "clearing",
            "checking", "closing", "choosing", "recording"}

\* The answers that promise something; after any other the call is over.
Answers == {"taken", "left", "served"}

Ops == {"account", "logout", "chat", "api"}

Call == [op    : Ops \cup {Null},
         at    : {"new"} \cup Running \cup Answers,
         email : Emails \cup {Null},  \* given, or found
         cred  : Tokens \cup Key \cup {Null},
         key   : Key \cup {Null},     \* recorded with the usage
         valid : BOOLEAN]            \* history: cred was good on arrival

TypeOK ==
    /\ users \subseteq Emails /\ owners \subseteq Emails
    /\ signing \in [Emails -> Calls \cup {Null}]
    /\ keys \in [Emails -> Seq(BOOLEAN)]
    /\ \A e \in Emails : Len(keys[e]) <= MaxKeys
    /\ sessions \in [Tokens -> Emails \cup {Null}]
    /\ expired \subseteq Tokens /\ cookies \subseteq Tokens
    /\ attempts \in [Emails -> 0..Limit + 1]
    /\ age \in [Emails -> 0..Window + 1]
    /\ guesses \in [Emails -> Seq(0..Window)]
    /\ call \in [Calls -> Call]
    /\ \A c \in Calls : call[c].at = "served" =>
          /\ call[c].email \in Emails
          /\ call[c].key = Null <=> call[c].op = "account"

Idle == [op |-> Null, at |-> "new", email |-> Null, cred |-> Null, key |-> Null,
         valid |-> FALSE]

Init ==
    /\ users = Emails \ Visitors /\ owners = users
    /\ expired = {} /\ cookies = {}
    /\ signing = [e \in Emails |-> Null]
    /\ keys = [e \in Emails |-> IF e \in owners THEN <<TRUE>> ELSE <<>>]
    /\ sessions = [t \in Tokens |-> Null]
    /\ attempts = [e \in Emails |-> 0]
    /\ age = [e \in Emails |-> 0]
    /\ guesses = [e \in Emails |-> <<>>]
    /\ call = [c \in Calls |-> Idle]

At(c, stage) == call[c].at = stage

Goto(c, stage) == call' = [call EXCEPT ![c].at = stage]

\* The response is written; nobody has to remember the call.
Done(c) == call' = [call EXCEPT ![c] = Idle]

\* The next stage of a call whose statement was answered, or not: 503.
Answered(c, stage, seen) == IF seen THEN Goto(c, stage) ELSE Done(c)

Fresh(t) ==
    /\ sessions[t] = Null /\ t \notin cookies
    /\ \A c \in Calls : call[c].cred # t

Live(t) == sessions[t] # Null /\ t \notin expired

Active(k) == keys[k[1]][k[2]]
-----------------------------------------------------------------------------
(* Requests.  One that is refused without a look at the database changes   *)
(* nothing, and is left out.                                               *)

Arrive(c, new) == At(c, "new") /\ call' = [call EXCEPT ![c] = new]

StartSignup(c, e) ==
    /\ e \in Visitors
    /\ Arrive(c, [Idle EXCEPT !.at = "creating", !.email = e])
    /\ UNCHANGED <<accounts, sessions, expired, limits, cookies>>

StartLogin(c, e) ==
    /\ e \in Visitors
    /\ Arrive(c, [Idle EXCEPT !.at = "counting", !.email = e])
    /\ UNCHANGED <<accounts, sessions, expired, limits, cookies>>

StartWithCookie(c, op, t) ==
    /\ t \in cookies
    /\ Arrive(c, [Idle EXCEPT !.op = op, !.at = "checking", !.cred = t,
                              !.valid = Live(t)])
    /\ UNCHANGED <<accounts, sessions, expired, limits, cookies>>

StartWithKey(c, k) ==
    /\ k[2] \in DOMAIN keys[k[1]]
    /\ Arrive(c, [Idle EXCEPT !.op = "api", !.at = "checking", !.cred = k,
                              !.valid = Active(k)])
    /\ UNCHANGED <<accounts, sessions, expired, limits, cookies>>
-----------------------------------------------------------------------------
(* Store.Signup: one transaction.                                          *)

\* Mutation of CreateUser: by the pool, not by the transaction.
CreateUserAtOnce(c) ==
    LET e == call[c].email
    IN  /\ At(c, "creating") /\ signing[e] = Null
        /\ Goto(c, IF e \in users THEN "taken" ELSE "filling")
        /\ users' = users \cup {e}
        /\ UNCHANGED <<owners, signing, keys, sessions, expired, limits, cookies>>

\* The index on users.email makes the insert wait for the transaction that
\* has inserted the same email, and fail when that has been committed.
CreateUser(c) ==
    LET e == call[c].email
    IN  /\ At(c, "creating") /\ signing[e] = Null
        /\ IF e \in users
           THEN Goto(c, "taken") /\ UNCHANGED signing
           ELSE Goto(c, "filling") /\ signing' = [signing EXCEPT ![e] = c]
        /\ UNCHANGED <<users, owners, keys, sessions, expired, limits, cookies>>

\* Password, account, owner, first key and session; then the commit.
CommitSignup(c, t, seen) ==
    LET e == call[c].email
    IN  /\ At(c, "filling") /\ Fresh(t)
        /\ users' = users \cup {e}
        /\ owners' = owners \cup {e}
        /\ keys' = [keys EXCEPT ![e] = <<TRUE>>]
        /\ sessions' = [sessions EXCEPT ![t] = e]
        /\ signing' = [signing EXCEPT ![e] = Null]
        /\ cookies' = IF seen THEN cookies \cup {t} ELSE cookies
        /\ Done(c)
        /\ UNCHANGED <<expired, limits>>
-----------------------------------------------------------------------------
(* Store.Login.                                                            *)

Stale(e) == age[e] > Window

AtMost(n, max) == IF n < max THEN n ELSE max

\* Mutation of CountAttempt: every attempt starts the window again.
CountAndExtend(c, seen) ==
    LET e == call[c].email
        fresh == attempts[e] = 0 \/ Stale(e)
        count == IF fresh THEN 1 ELSE AtMost(attempts[e] + 1, Limit + 1)
    IN  /\ At(c, "counting")
        /\ attempts' = [attempts EXCEPT ![e] = count]
        /\ age' = [age EXCEPT ![e] = 0]
        /\ guesses' = [guesses EXCEPT ![e] = IF count <= Limit THEN Append(@, 0) ELSE @]
        /\ Answered(c, "verifying", seen /\ count <= Limit)
        /\ UNCHANGED <<accounts, sessions, expired, cookies>>

CountAttempt(c, seen) ==
    LET e == call[c].email
        fresh == attempts[e] = 0 \/ Stale(e)
        count == IF fresh THEN 1 ELSE AtMost(attempts[e] + 1, Limit + 1)
    IN  /\ At(c, "counting")
        /\ attempts' = [attempts EXCEPT ![e] = count]
        /\ age' = [age EXCEPT ![e] = IF fresh THEN 0 ELSE @]
        /\ guesses' = [guesses EXCEPT ![e] = IF count <= Limit THEN Append(@, 0) ELSE @]
        /\ Answered(c, "verifying", seen /\ count <= Limit)
        /\ UNCHANGED <<accounts, sessions, expired, cookies>>

WrongPassword(c) ==
    /\ At(c, "verifying")
    /\ Done(c)
    /\ UNCHANGED <<accounts, sessions, expired, limits, cookies>>

\* The owner of the email is read, the password compared, the session inserted.
OpenSession(c, t, seen) ==
    LET e == call[c].email
    IN  /\ At(c, "verifying") /\ e \in users \cap owners
        /\ Fresh(t)
        /\ sessions' = [sessions EXCEPT ![t] = e]
        /\ call' = [call EXCEPT ![c] =
                      IF seen THEN [@ EXCEPT !.at = "clearing", !.cred = t] ELSE Idle]
        /\ UNCHANGED <<accounts, expired, limits, cookies>>

\* An error of this statement is ignored.
ClearAttempts(c, done) ==
    LET e == call[c].email
    IN  /\ At(c, "clearing")
        /\ IF done
           THEN /\ attempts' = [attempts EXCEPT ![e] = 0]
                /\ age' = [age EXCEPT ![e] = 0]
                /\ guesses' = [guesses EXCEPT ![e] = <<>>]
           ELSE UNCHANGED limits
        /\ cookies' = cookies \cup {call[c].cred}
        /\ Done(c)
        /\ UNCHANGED <<accounts, sessions, expired>>
-----------------------------------------------------------------------------
(* Calls with a cookie or a key.                                           *)

\* Mutation of CheckSession: without AND p.expires_at > now().
CheckRowOnly(c) ==
    LET t == call[c].cred
        next == CASE call[c].op = "account" -> "served"
                  [] call[c].op = "logout"  -> "closing"
                  [] call[c].op = "chat"    -> "choosing"
    IN  /\ At(c, "checking") /\ call[c].op # "api"
        /\ IF sessions[t] # Null
           THEN call' = [call EXCEPT ![c].at = next, ![c].email = sessions[t]]
           ELSE Done(c)
        /\ UNCHANGED <<accounts, sessions, expired, limits, cookies>>

CheckSession(c) ==
    LET t == call[c].cred
        next == CASE call[c].op = "account" -> "served"
                  [] call[c].op = "logout"  -> "closing"
                  [] call[c].op = "chat"    -> "choosing"
    IN  /\ At(c, "checking") /\ call[c].op # "api"
        /\ IF Live(t)
           THEN call' = [call EXCEPT ![c].at = next, ![c].email = sessions[t]]
           ELSE Done(c)
        /\ UNCHANGED <<accounts, sessions, expired, limits, cookies>>

\* Mutation of Logout: an error of the store is no error of the handler.
LogoutAnyway(c, seen) ==
    /\ At(c, "closing")
    /\ sessions' = IF seen THEN [sessions EXCEPT ![call[c].cred] = Null] ELSE sessions
    /\ expired' = IF seen THEN expired \ {call[c].cred} ELSE expired
    /\ Goto(c, "left")
    /\ UNCHANGED <<accounts, limits, cookies>>

Logout(c, seen) ==
    /\ At(c, "closing")
    /\ sessions' = [sessions EXCEPT ![call[c].cred] = Null]
    /\ expired' = expired \ {call[c].cred}
    /\ Answered(c, "left", seen)
    /\ UNCHANGED <<accounts, limits, cookies>>

\* Mutation of ChatKeys: without AND revoked_at IS NULL.
ChatKeysEver(e) == {e} \X DOMAIN keys[e]

ChatKeys(e) == {k \in {e} \X DOMAIN keys[e] : Active(k)}

\* Mutation of ChatKeyID: without if keyID == "".
ChatWithoutKey(c) ==
    LET K == ChatKeys(call[c].email)
    IN  /\ At(c, "choosing")
        /\ IF K = {} THEN Goto(c, "recording")
           ELSE \E k \in K : /\ \A j \in K : k[2] <= j[2]
                             /\ call' = [call EXCEPT ![c].at = "recording", ![c].key = k]
        /\ UNCHANGED <<accounts, sessions, expired, limits, cookies>>

\* The oldest active key of the account, if there is one.
ChatKeyID(c) ==
    LET K == ChatKeys(call[c].email)
    IN  /\ At(c, "choosing")
        /\ IF K = {} THEN Done(c)
           ELSE \E k \in K : /\ \A j \in K : k[2] <= j[2]
                             /\ call' = [call EXCEPT ![c].at = "recording", ![c].key = k]
        /\ UNCHANGED <<accounts, sessions, expired, limits, cookies>>

\* Mutation of Authenticate: without AND revoked_at IS NULL.
AuthenticateEver(c) ==
    LET k == call[c].cred
    IN  /\ At(c, "checking") /\ call[c].op = "api"
        /\ call' = [call EXCEPT ![c].at = "recording", ![c].email = k[1], ![c].key = k]
        /\ UNCHANGED <<accounts, sessions, expired, limits, cookies>>

Authenticate(c) ==
    LET k == call[c].cred
    IN  /\ At(c, "checking") /\ call[c].op = "api"
        /\ IF Active(k)
           THEN call' = [call EXCEPT ![c].at = "recording", ![c].email = k[1], ![c].key = k]
           ELSE Done(c)
        /\ UNCHANGED <<accounts, sessions, expired, limits, cookies>>

\* The body has been read and its model found; the usage is recorded under
\* the key that was read earlier, which is not looked at again.
BeginUsage(c) ==
    /\ At(c, "recording")
    /\ Goto(c, "served")
    /\ UNCHANGED <<accounts, sessions, expired, limits, cookies>>

(***************************************************************************)
(* A statement that fails, a timeout, a client that leaves or a replica    *)
(* that ends, before the statement took effect: an open transaction is     *)
(* rolled back.  Or the gateway refuses to serve the completion.           *)
(***************************************************************************)
Fail(c) ==
    /\ call[c].at \in Running \ {"clearing"}
    /\ signing' = [e \in Emails |-> IF signing[e] = c THEN Null ELSE signing[e]]
    /\ Done(c)
    /\ UNCHANGED <<users, owners, keys, sessions, expired, limits, cookies>>

\* The client is done with the answer.
Forget(c) ==
    /\ call[c].at \in Answers
    /\ Done(c)
    /\ UNCHANGED <<accounts, sessions, expired, limits, cookies>>
-----------------------------------------------------------------------------
(* What else changes the tables.                                           *)

IssueKey(e) ==
    /\ e \in owners /\ Len(keys[e]) < MaxKeys
    /\ keys' = [keys EXCEPT ![e] = Append(@, TRUE)]
    /\ UNCHANGED <<users, owners, signing, sessions, expired, limits, cookies, call>>

RevokeKey(k) ==
    /\ k[2] \in DOMAIN keys[k[1]] /\ Active(k)
    /\ keys' = [keys EXCEPT ![k[1]][k[2]] = FALSE]
    /\ UNCHANGED <<users, owners, signing, sessions, expired, limits, cookies, call>>

\* Seven days pass.
Expire(t) ==
    /\ sessions[t] # Null /\ t \notin expired
    /\ expired' = expired \cup {t}
    /\ UNCHANGED <<accounts, sessions, limits, cookies, call>>

\* The browser drops the cookie.
DropCookie(t) ==
    /\ t \in cookies
    /\ cookies' = cookies \ {t}
    /\ UNCHANGED <<accounts, sessions, expired, limits, call>>

\* The first statements of Maintain.
DeleteSessions ==
    /\ expired # {}
    /\ sessions' = [t \in Tokens |-> IF t \in expired THEN Null ELSE sessions[t]]
    /\ expired' = {}
    /\ UNCHANGED <<accounts, limits, cookies, call>>

\* Mutation of Outdated: without its WHERE.
OutdatedAtOnce == {e \in Emails : attempts[e] > 0}

Outdated == {e \in Emails : attempts[e] > 0 /\ Stale(e)}

DeleteAttempts ==
    /\ Outdated # {}
    /\ attempts' = [e \in Emails |-> IF e \in Outdated THEN 0 ELSE attempts[e]]
    /\ age' = [e \in Emails |-> IF e \in Outdated THEN 0 ELSE age[e]]
    /\ UNCHANGED <<accounts, sessions, expired, cookies, call, guesses>>

\* The ages one tick later, without those that leave the window: the oldest
\* come first.
Older(ages) ==
    LET gone == CHOOSE k \in 0..Len(ages) :
                    \A i \in 1..Len(ages) : i <= k <=> ages[i] >= Window
    IN  [i \in 1..(Len(ages) - gone) |-> ages[i + gone] + 1]

Tick ==
    /\ age' = [e \in Emails |-> IF attempts[e] = 0 THEN 0
                                ELSE AtMost(age[e] + 1, Window + 1)]
    /\ guesses' = [e \in Emails |-> Older(guesses[e])]
    /\ UNCHANGED <<accounts, sessions, expired, attempts, cookies, call>>
-----------------------------------------------------------------------------
Handle(c) ==
    \/ CreateUser(c)
    \/ \E t \in Tokens, seen \in BOOLEAN : CommitSignup(c, t, seen) \/ OpenSession(c, t, seen)
    \/ \E seen \in BOOLEAN : CountAttempt(c, seen) \/ Logout(c, seen)
    \/ WrongPassword(c)
    \/ \E done \in BOOLEAN : ClearAttempts(c, done)
    \/ CheckSession(c) \/ ChatKeyID(c) \/ Authenticate(c)
    \/ BeginUsage(c)
    \/ Fail(c)

Next ==
    \/ \E c \in Calls :
          \/ Handle(c) \/ Forget(c)
          \/ \E e \in Emails : StartSignup(c, e) \/ StartLogin(c, e)
          \/ \E op \in {"account", "logout", "chat"}, t \in Tokens : StartWithCookie(c, op, t)
          \/ \E k \in Key : StartWithKey(c, k)
    \/ \E e \in Emails : IssueKey(e)
    \/ \E k \in Key : RevokeKey(k)
    \/ \E t \in Tokens : Expire(t) \/ DropCookie(t)
    \/ DeleteSessions \/ DeleteAttempts
    \/ Tick

Spec == Init /\ [][Next]_vars

(***************************************************************************)
(* Time passes, and a completion is recorded or refused: ReadTimeout and   *)
(* accountQueryTimeout bound what its handler waits for.  Nobody is forced *)
(* to do anything else.                                                    *)
(***************************************************************************)
FairSpec ==
    /\ Spec
    /\ WF_vars(Tick)
    /\ \A c \in Calls : WF_vars(At(c, "recording") /\ Handle(c))
-----------------------------------------------------------------------------
(***************************************************************************)
(* "A shared database counter limits guessing across gateway replicas":    *)
(* within one window's length, wherever it begins, and however calls,      *)
(* lost answers and Maintain interleave, no more than twice Limit logins   *)
(* of an email get as far as the password, unless its owner logs in.       *)
(***************************************************************************)
GuessingLimited == \A e \in Emails : Len(guesses[e]) <= 2 * Limit

(***************************************************************************)
(* "too many attempts; try again later" (Retry-After: 900): a lock-out     *)
(* ends with time, also when attempts go on without a pause.               *)
(***************************************************************************)
LockedOut(e) == attempts[e] > Limit /\ ~Stale(e)

LockoutEnds == \A e \in Emails : LockedOut(e) ~> ~LockedOut(e)

(***************************************************************************)
(* Signup "creates the account and its first API key in one transaction":  *)
(* no email is taken that cannot log in.                                   *)
(***************************************************************************)
RegisteredWhole == \A e \in users : e \in owners /\ keys[e] # <<>>

(***************************************************************************)
(* A session or key that was logged out, past its time or revoked when the *)
(* request arrived opens nothing: neither account data nor a completion.   *)
(* (One that ends while the request is under way may still be served.)     *)
(***************************************************************************)
ServedWasAuthorised == \A c \in Calls : At(c, "served") => call[c].valid

\* Calls that go on by what they have read of session t, or of key k.
BySession(t) ==
    {c \in Calls : /\ call[c].op # "api" /\ call[c].cred = t
                   /\ call[c].at \in {"closing", "choosing", "recording", "served"}}

UnderKey(k) == {c \in Calls : call[c].key = k}

Revoked(k) == k[2] \in DOMAIN keys[k[1]] /\ ~Active(k)

(***************************************************************************)
(* What is read of a session or a key may be out of date when it is used:  *)
(* nothing is looked at again before the completion is recorded.  But what *)
(* has ended stays ended and gains no further call, over logins, signups,  *)
(* issued keys and Maintain: the session of a cookie is not opened again,  *)
(* and whoever may still use a revoked key has read it before.             *)
(***************************************************************************)
RevokedStaysOut ==
    [][/\ \A t \in Tokens : ~Live(t) =>
             /\ BySession(t)' \subseteq BySession(t)
             /\ t \in cookies => ~Live(t)'
       /\ \A k \in Key : Revoked(k) =>
             /\ UnderKey(k)' \subseteq UnderKey(k)
             /\ Revoked(k)'
      ]_vars

(***************************************************************************)
(* A revocation takes effect: after the completions that had read the key  *)
(* in time, none is recorded under it any more, however clients go on with *)
(* the key, or with the cookies of its account.                            *)
(***************************************************************************)
RevocationTakesEffect ==
    \A k \in Key : Revoked(k) ~> [](\A c \in UnderKey(k) : ~At(c, "recording"))

(***************************************************************************)
(* After the answer 204 the session is gone, whatever else failed, and     *)
(* "email is already registered" is said of registered emails only, also   *)
(* when two signups of one email race and one is rolled back.              *)
(***************************************************************************)
AnswersHold ==
    \A c \in Calls :
        /\ At(c, "left") => sessions[call[c].cred] = Null
        /\ At(c, "taken") => call[c].email \in owners
=============================================================================
