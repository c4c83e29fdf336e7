------------------------------ MODULE Accounts ------------------------------
(***************************************************************************)
(* Users of the shop: the User table (prisma/schema.prisma), registering   *)
(* and logging in over REST (auth.controller.ts, auth.service.ts) and over *)
(* tRPC (trpc/routers/auth.ts), shadow accounts of guests and their        *)
(* pruning (users/user.service.ts), the sessions the server keeps in       *)
(* memory (app.ts) and the user each browser keeps in its localStorage     *)
(* (login, register, Navbar of src/storefront).                            *)
(*                                                                         *)
(* Nothing but the pruning runs in a transaction: a request looks for an   *)
(* email, and inserts later, where the unique index has the last word.     *)
(* Server and browser each have their own idea of who is signed in, and    *)
(* requests of several tabs of one browser overlap.                        *)
(*                                                                         *)
(* A user has a password or none; whether the one that is typed is right   *)
(* is a choice.  Ids are drawn once (uuid).  No code adds addresses, so    *)
(* the deletion of a guest's addresses changes nothing.                    *)
(***************************************************************************)
EXTENDS Naturals

CONSTANTS
    Ids,        \* the ids there are for users, a bound of the accounts made
    Emails,
    Browsers,
    Calls,      \* requests that may be under way at the same time
    None

VARIABLES
    user,       \* user[i]: the row with id i, None if there is none
    drawn,      \* the ids that have been drawn
    session,    \* session[b]: the id in the session of browser b
    local,      \* local[b]: the id of the user in the localStorage of b
    call,       \* call[c]: the progress of request c
    pruning     \* the ids the open pruning transaction has found, or None

vars == <<user, drawn, session, local, call, pruning>>
tableVars == <<user, drawn>>
signVars == <<session, local>>

User == [email : Emails, password : BOOLEAN, registered : BOOLEAN, old : BOOLEAN]

ASSUME NoneAssumption == None \notin Ids \cup Emails \cup Browsers \cup User

Call == [at : {"idle", "find", "create", "compare", "created", "answer", "logout"},
         kind : {"register", "trpcRegister", "login", "logout", "guest", None},
         browser : Browsers \cup {None}, email : Emails \cup {None},
         id : Ids \cup {None}]

NoCall == [at |-> "idle", kind |-> None, browser |-> None, email |-> None, id |-> None]

Init ==
    /\ user = [i \in Ids |-> None]
    /\ drawn = {}
    /\ session = [b \in Browsers |-> None]
    /\ local = [b \in Browsers |-> None]
    /\ call = [c \in Calls |-> NoCall]
    /\ pruning = None

Rows == {i \in Ids : user[i] # None}
WithEmail(e) == {i \in Rows : user[i].email = e}

Goes(c, at) == call' = [call EXCEPT ![c].at = at]
Finds(c, at, i) == call' = [call EXCEPT ![c].at = at, ![c].id = i]
Returns(c) == call' = [call EXCEPT ![c] = NoCall]

-----------------------------------------------------------------------------
(* Requests.  Logging out forgets the user before the server is told.      *)

Starts(c, at, kind, b, e) ==
    /\ call[c].at = "idle"
    /\ call' = [call EXCEPT ![c] = [at |-> at, kind |-> kind, browser |-> b,
                                    email |-> e, id |-> None]]
    /\ UNCHANGED <<tableVars, session, pruning>>

Register(c, b, e) == Starts(c, "find", "register", b, e) /\ UNCHANGED local
TrpcRegister(c, b, e) == Starts(c, "create", "trpcRegister", b, e) /\ UNCHANGED local
Login(c, b, e) == Starts(c, "find", "login", b, e) /\ UNCHANGED local
Guest(c, e) == Starts(c, "find", "guest", None, e) /\ UNCHANGED local

Logout(c, b) ==
    /\ local[b] # None
    /\ Starts(c, "logout", "logout", b, None)
    /\ local' = [local EXCEPT ![b] = None]

-----------------------------------------------------------------------------
(* Registering, and shadow accounts                                        *)

\* findUnique: a taken email is refused, and a guest is given that account,
\* whoever's it is.
FindFree(c) ==
    /\ call[c].at = "find" /\ call[c].kind \in {"register", "guest"}
    /\ IF WithEmail(call[c].email) = {} THEN Goes(c, "create") ELSE Returns(c)
    /\ UNCHANGED <<tableVars, signVars, pruning>>

\* Wrong on purpose, for Taken: the column is not unique.
TakenByNobody(e) == FALSE

\* The unique index over the emails.
Taken(e) == WithEmail(e) # {}

NewUser(c) == [email |-> call[c].email, password |-> call[c].kind # "guest",
               registered |-> call[c].kind # "guest", old |-> FALSE]

\* create, after the hash: it throws when the email was taken meanwhile.
Create(c, i) ==
    /\ call[c].at = "create"
    /\ i \notin drawn
    /\ IF Taken(call[c].email)
       THEN Returns(c) /\ UNCHANGED tableVars
       ELSE /\ user' = [user EXCEPT ![i] = NewUser(c)]
            /\ drawn' = drawn \cup {i}
            /\ IF call[c].kind = "guest" THEN Returns(c)
               ELSE Finds(c, IF call[c].kind = "register" THEN "created" ELSE "answer", i)
    /\ UNCHANGED <<signVars, pruning>>

\* The REST route signs the browser in; no page uses it.
SessionStarts(c) ==
    /\ call[c].at = "created"
    /\ session' = [session EXCEPT ![call[c].browser] = call[c].id]
    /\ Returns(c)
    /\ UNCHANGED <<tableVars, local, pruning>>

-----------------------------------------------------------------------------
(* Signing in and out                                                      *)

\* Wrong on purpose, for FindAccount: a shadow account is signed in to.
FindAnyAccount(c) ==
    /\ call[c].at = "find" /\ call[c].kind = "login"
    /\ \/ \E i \in WithEmail(call[c].email) : Finds(c, "compare", i)
       \/ WithEmail(call[c].email) = {} /\ Returns(c)
    /\ UNCHANGED <<tableVars, signVars, pruning>>

\* findUnique: an account without a password cannot be signed in to.
FindAccount(c) ==
    /\ call[c].at = "find" /\ call[c].kind = "login"
    /\ \/ \E i \in WithEmail(call[c].email) :
             user[i].password /\ Finds(c, "compare", i)
       \/ /\ \A i \in WithEmail(call[c].email) : ~user[i].password
          /\ Returns(c)
    /\ UNCHANGED <<tableVars, signVars, pruning>>

\* The password is right: the session is started and the answer sent.
Compared(c) ==
    /\ call[c].at = "compare"
    /\ session' = [session EXCEPT ![call[c].browser] = call[c].id]
    /\ Goes(c, "answer")
    /\ UNCHANGED <<tableVars, local, pruning>>

\* The page stores the user it is answered with: the one of the session after
\* a login, and one without any session after a registration over tRPC.
Answered(c) ==
    /\ call[c].at = "answer"
    /\ local' = [local EXCEPT ![call[c].browser] = call[c].id]
    /\ Returns(c)
    /\ UNCHANGED <<tableVars, session, pruning>>

\* session.destroy
LoggedOut(c) ==
    /\ call[c].at = "logout"
    /\ session' = [session EXCEPT ![call[c].browser] = None]
    /\ Returns(c)
    /\ UNCHANGED <<tableVars, local, pruning>>

\* A wrong password, a statement that throws, a request or an answer lost;
\* the page does not mind a logout that fails.
Fails(c) ==
    /\ call[c].at # "idle"
    /\ Returns(c)
    /\ UNCHANGED <<tableVars, signVars, pruning>>

\* A day has passed.
SessionExpires(b) ==
    /\ session[b] # None
    /\ session' = [session EXCEPT ![b] = None]
    /\ UNCHANGED <<tableVars, local, call, pruning>>

-----------------------------------------------------------------------------
(* UserService                                                             *)

\* registerUser: the shadow account counts as registered, without a password.
RegisterUser(i) ==
    /\ i \in Rows
    /\ user' = [user EXCEPT ![i].registered = TRUE]
    /\ UNCHANGED <<drawn, signVars, call, pruning>>

\* A day after it was created.
Ages(i) ==
    /\ i \in Rows /\ ~user[i].old
    /\ user' = [user EXCEPT ![i].old = TRUE]
    /\ UNCHANGED <<drawn, signVars, call, pruning>>

\* Wrong on purpose, for Abandoned: only the age is asked for.
AbandonedOld == {i \in Rows : user[i].old}

Abandoned == {i \in Rows : ~user[i].registered /\ user[i].old}

\* findMany in a transaction that sees what others commit meanwhile.
PruneFinds ==
    /\ pruning = None /\ Abandoned # {}
    /\ pruning' = Abandoned
    /\ UNCHANGED <<tableVars, signVars, call>>

\* The deletions name the ids alone: who has registered since is deleted too.
PruneDeletes ==
    /\ pruning # None
    /\ user' = [i \in Ids |-> IF i \in pruning THEN None ELSE user[i]]
    /\ pruning' = None
    /\ UNCHANGED <<drawn, signVars, call>>

PruneFails ==
    /\ pruning # None
    /\ pruning' = None
    /\ UNCHANGED <<tableVars, signVars, call>>

-----------------------------------------------------------------------------
\* The sessions are in the memory of the process, and its requests end.
Restart ==
    /\ session' = [b \in Browsers |-> None]
    /\ call' = [c \in Calls |-> NoCall]
    /\ pruning' = None
    /\ UNCHANGED <<tableVars, local>>

Request(c) ==
    \/ \E b \in Browsers, e \in Emails : Register(c, b, e)
    \/ \E b \in Browsers, e \in Emails : TrpcRegister(c, b, e)
    \/ \E b \in Browsers, e \in Emails : Login(c, b, e)
    \/ \E e \in Emails : Guest(c, e)
    \/ \E b \in Browsers : Logout(c, b)

Next ==
    \/ \E c \in Calls : Request(c)
    \/ \E c \in Calls : FindFree(c)
    \/ \E c \in Calls, i \in Ids : Create(c, i)
    \/ \E c \in Calls : SessionStarts(c)
    \/ \E c \in Calls : FindAccount(c)
    \/ \E c \in Calls : Compared(c)
    \/ \E c \in Calls : Answered(c)
    \/ \E c \in Calls : LoggedOut(c)
    \/ \E c \in Calls : Fails(c)
    \/ \E b \in Browsers : SessionExpires(b)
    \/ \E i \in Ids : RegisterUser(i)
    \/ \E i \in Ids : Ages(i)
    \/ PruneFinds
    \/ PruneDeletes
    \/ PruneFails
    \/ Restart

Spec == Init /\ [][Next]_vars

-----------------------------------------------------------------------------
\* Type invariant.
TypeOK ==
    /\ user \in [Ids -> User \cup {None}]
    /\ drawn \subseteq Ids /\ Rows \subseteq drawn
    /\ session \in [Browsers -> Ids \cup {None}]
    /\ local \in [Browsers -> Ids \cup {None}]
    /\ call \in [Calls -> Call]
    /\ pruning = None \/ pruning \subseteq drawn

Account(i) == user[i] # None /\ user[i].password

\* Who a session or a browser says is signed in has an account with a password
\* in the table: sessions and browsers keep copies that nothing updates, so an
\* account that has been signed in to may never be pruned, renamed or lose its
\* password (auth.controller.ts:19 and 35, user.service.ts:50-70,
\* login/page.tsx:42, register/page.tsx:29).
SignedInIsReal ==
    \A b \in Browsers :
       /\ session[b] # None => Account(session[b])
       /\ local[b] # None => Account(local[b])

\* Registrations and guests that overlap, each having found its email free, end
\* with one account of that email: an email never stands for two people
\* (auth.controller.ts:13-18, user.service.ts:11-26, schema.prisma:34).
OneAccountPerEmail ==
    \A i, j \in Rows : user[i].email = user[j].email => i = j

Safe(i) == i \in Rows /\ user[i].registered /\ (pruning = None \/ i \notin pruning)

\* Who has registered keeps the account, unless a pruning under way had found the
\* guest before: prunings that begin later, fail, are started over or overlap
\* further registrations do not take it (user.service.ts:32-39 and 44-70,
\* auth.controller.ts:18).
RegisteredStay == [][\A i \in Ids : Safe(i) => Safe(i)']_vars

-----------------------------------------------------------------------------
(* The invariant that the proofs are by                                    *)

\* A request that goes on with an account goes on with a real one, in a
\* browser; and one that pruning has found is old and without a password.
CallsOK ==
    \A c \in Calls :
       /\ call[c].at \in {"compare", "created", "answer"} =>
             call[c].id # None /\ Account(call[c].id) /\ call[c].browser # None
       /\ call[c].at = "logout" => call[c].browser # None
       /\ call[c].at \in {"find", "create"} => call[c].email # None
       /\ call[c].at \in {"find", "create"} /\ call[c].browser = None =>
             call[c].kind = "guest"

PruningOK ==
    pruning # None =>
       \A i \in pruning : user[i] # None => user[i].old /\ ~user[i].password

\* A password account counts as registered.
PasswordsRegistered ==
    \A i \in Rows : user[i].password => user[i].registered

IInv == TypeOK /\ SignedInIsReal /\ OneAccountPerEmail /\ CallsOK /\ PruningOK
          /\ PasswordsRegistered
=============================================================================
