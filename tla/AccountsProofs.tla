--------------------------- MODULE AccountsProofs ---------------------------
(***************************************************************************)
(* For every number of accounts, browsers and overlapping requests: the    *)
(* invariant of Accounts is inductive, and who has registered stays.        *)
(***************************************************************************)
EXTENDS Accounts, TLAPS

LEMMA InitEstablishes == Init => IInv
<1> SUFFICES ASSUME Init PROVE IInv
  OBVIOUS
<1>1. TypeOK
  BY DEF Init, TypeOK, NoCall, Call, Rows
<1>2. SignedInIsReal /\ OneAccountPerEmail /\ PasswordsRegistered
  BY DEF Init, SignedInIsReal, OneAccountPerEmail, PasswordsRegistered, Rows
<1>3. CallsOK /\ PruningOK
  BY DEF Init, CallsOK, PruningOK, NoCall
<1> QED BY <1>1, <1>2, <1>3 DEF IInv

\* What a request may be, given the table.
Sound(r) ==
    /\ r \in Call
    /\ r.at \in {"compare", "created", "answer"} =>
          r.id # None /\ Account(r.id) /\ r.browser # None
    /\ r.at = "logout" => r.browser # None
    /\ r.at \in {"find", "create"} => r.email # None
    /\ r.at \in {"find", "create"} /\ r.browser = None => r.kind = "guest"

LEMMA CallsSound ==
  ASSUME IInv, NEW c \in Calls
  PROVE  Sound(call[c]) /\ Sound(NoCall)
BY DEF IInv, TypeOK, CallsOK, Sound, NoCall, Call

\* A request moves on, and may sign a browser in to a real account or out.
LEMMA CallStep ==
  ASSUME IInv, NEW c \in Calls, NEW r, Sound(r), call' = [call EXCEPT ![c] = r],
         UNCHANGED <<tableVars, pruning>>,
         session' \in [Browsers -> Ids \cup {None}],
         local' \in [Browsers -> Ids \cup {None}],
         \A b \in Browsers : /\ session'[b] \in {session[b], None} \/ Account(session'[b])
                             /\ local'[b] \in {local[b], None} \/ Account(local'[b])
  PROVE  IInv'
<1> USE DEF tableVars
<1>1. /\ call' \in [Calls -> Call] /\ call'[c] = r
      /\ \A d \in Calls \ {c} : call'[d] = call[d]
  BY DEF Sound, IInv, TypeOK
<1>2. TypeOK'
  BY <1>1 DEF IInv, TypeOK, Rows
<1>3. CallsOK'
  BY <1>1 DEF IInv, CallsOK, Sound, Account
<1>4. SignedInIsReal'
  BY DEF IInv, SignedInIsReal, Account
<1>5. OneAccountPerEmail' /\ PruningOK' /\ PasswordsRegistered'
  BY DEF IInv, OneAccountPerEmail, PruningOK, PasswordsRegistered, Rows
<1> QED BY <1>2, <1>3, <1>4, <1>5 DEF IInv

\* Nobody is signed in or out.
LEMMA QuietStep ==
  ASSUME IInv, NEW c \in Calls, NEW r, Sound(r), call' = [call EXCEPT ![c] = r],
         UNCHANGED <<tableVars, signVars, pruning>>
  PROVE  IInv'
BY CallStep DEF signVars, IInv, TypeOK

\* The rows change, but no account with a password loses it or goes.
LEMMA TableStep ==
  ASSUME IInv, UNCHANGED <<signVars, call>>,
         user' \in [Ids -> User \cup {None}], drawn' = drawn,
         Rows' \subseteq Rows,
         \A i \in Rows : Account(i) => Account(i)',
         \A i \in Rows' : /\ user'[i].email = user[i].email
                          /\ user'[i].password = user[i].password
                          /\ user[i].registered => user'[i].registered
                          /\ user[i].old => user'[i].old,
         pruning' \in {pruning, None}
  PROVE  IInv'
<1> USE DEF signVars
<1>1. TypeOK'
  BY DEF IInv, TypeOK
<1>2. \A i \in Ids : Account(i) => Account(i)'
  BY DEF Account, Rows
<1>3. SignedInIsReal'
  BY <1>2 DEF IInv, SignedInIsReal, TypeOK, Account
<1>4. CallsOK'
  BY <1>2 DEF IInv, CallsOK, TypeOK, Call, Account
<1>5. OneAccountPerEmail' /\ PasswordsRegistered'
  BY DEF IInv, OneAccountPerEmail, PasswordsRegistered
<1>6. PruningOK'
  <2> SUFFICES ASSUME pruning' # None, NEW i \in pruning', user'[i] # None
               PROVE  user'[i].old /\ ~user'[i].password
    BY DEF PruningOK
  <2>1. pruning # None /\ i \in pruning /\ i \in Ids
    BY DEF IInv, TypeOK
  <2>2. i \in Rows' /\ i \in Rows
    BY <2>1 DEF Rows
  <2>3. user[i] # None /\ user[i].old /\ ~user[i].password
    BY <2>1, <2>2 DEF IInv, PruningOK, Rows
  <2> QED BY <2>2, <2>3
<1> QED BY <1>1, <1>3, <1>4, <1>5, <1>6 DEF IInv

LEMMA StartsKeep ==
  ASSUME IInv, NEW c \in Calls, Request(c)
  PROVE  IInv'
<1>1. ASSUME NEW b \in Browsers, NEW e \in Emails,
             NEW at \in {"find", "create"},
             NEW kind \in {"register", "trpcRegister", "login"},
             Starts(c, at, kind, b, e), UNCHANGED local
      PROVE  IInv'
  <2> DEFINE r == [at |-> at, kind |-> kind, browser |-> b, email |-> e, id |-> None]
  <2>1. Sound(r)
    BY NoneAssumption DEF Sound, Call
  <2>2. call' = [call EXCEPT ![c] = r] /\ UNCHANGED <<tableVars, signVars, pruning>>
    BY <1>1 DEF Starts, signVars
  <2> HIDE DEF r
  <2> QED BY <2>1, <2>2, QuietStep
<1>2. ASSUME NEW e \in Emails, Guest(c, e) PROVE IInv'
  <2> DEFINE r == [at |-> "find", kind |-> "guest", browser |-> None, email |-> e,
                   id |-> None]
  <2>1. Sound(r)
    BY NoneAssumption DEF Sound, Call
  <2>2. call' = [call EXCEPT ![c] = r] /\ UNCHANGED <<tableVars, signVars, pruning>>
    BY <1>2 DEF Guest, Starts, signVars
  <2> HIDE DEF r
  <2> QED BY <2>1, <2>2, QuietStep
<1>3. ASSUME NEW b \in Browsers, Logout(c, b) PROVE IInv'
  <2> DEFINE r == [at |-> "logout", kind |-> "logout", browser |-> b, email |-> None,
                   id |-> None]
  <2>1. Sound(r)
    BY NoneAssumption DEF Sound, Call
  <2>2. /\ call' = [call EXCEPT ![c] = r]
        /\ UNCHANGED <<tableVars, session, pruning>>
        /\ local' = [local EXCEPT ![b] = None]
    BY <1>3 DEF Logout, Starts
  <2>3. local' \in [Browsers -> Ids \cup {None}]
        /\ \A x \in Browsers : local'[x] \in {local[x], None}
    BY <2>2 DEF IInv, TypeOK
  <2> HIDE DEF r
  <2> QED BY <2>1, <2>2, <2>3, CallStep DEF IInv, TypeOK
<1> QED BY <1>1, <1>2, <1>3 DEF Request, Register, TrpcRegister, Login

\* A row is inserted: its id is new, and nobody has its email.
LEMMA CreateStep ==
  ASSUME IInv, NEW c \in Calls, NEW i \in Ids, Create(c, i)
  PROVE  IInv'
<1> DEFINE e == call[c].email
<1>1. Sound(call[c]) /\ Sound(NoCall) /\ call[c].at = "create" /\ e \in Emails
  BY CallsSound DEF Create, Sound, Call
<1>2. CASE Taken(e)
  BY <1>1, <1>2, QuietStep DEF Create, Returns
<1>3. CASE ~Taken(e)
  <2> DEFINE row == NewUser(c)
  <2>1. /\ row \in User /\ row.email = e
        /\ row.password <=> call[c].kind # "guest"
        /\ row.registered <=> call[c].kind # "guest"
    BY <1>1 DEF NewUser, User
  <2>2. /\ user' = [user EXCEPT ![i] = row] /\ drawn' = drawn \cup {i} /\ i \notin drawn
        /\ UNCHANGED <<signVars, pruning>>
    BY <1>3 DEF Create
  <2> HIDE DEF row
  <2>3. user[i] = None /\ i \notin Rows
    BY <2>2 DEF IInv, TypeOK, Rows
  <2>4. /\ user' \in [Ids -> User \cup {None}] /\ user'[i] = row
        /\ \A j \in Ids \ {i} : user'[j] = user[j]
    BY <2>1, <2>2 DEF IInv, TypeOK
  <2>5. Rows' \subseteq Rows \cup {i}
    BY <2>4 DEF Rows
  <2>6. PICK r : /\ call' = [call EXCEPT ![c] = r] /\ r \in Call
                 /\ \/ r = NoCall
                    \/ r.at \in {"created", "answer"} /\ r.id = i
                       /\ r.browser = call[c].browser /\ call[c].kind # "guest"
    <3>1. CASE call[c].kind = "guest"
      BY <1>1, <1>3, <3>1 DEF Create, Returns, Sound
    <3>2. CASE call[c].kind # "guest"
      <4> DEFINE at == IF call[c].kind = "register" THEN "created" ELSE "answer"
                 r == [call[c] EXCEPT !.at = at, !.id = i]
      <4>1. call' = [call EXCEPT ![c] = r]
        BY <1>3, <3>2 DEF Create, Finds, IInv, TypeOK
      <4>2. r \in Call /\ r.at \in {"created", "answer"} /\ r.id = i
              /\ r.browser = call[c].browser
        BY <1>1 DEF Sound, Call
      <4> HIDE DEF r
      <4> QED BY <3>2, <4>1, <4>2
    <3> QED BY <3>1, <3>2
  <2>7. \A j \in Ids : Account(j) => user'[j] # None /\ user'[j].password
    BY <2>3, <2>4 DEF Account
  <2>8. call[c].kind # "guest" =>
            user'[i] # None /\ user'[i].password /\ call[c].browser # None
    BY <1>1, <2>1, <2>4, NoneAssumption DEF Sound
  <2>9. /\ call' \in [Calls -> Call] /\ call'[c] = r
        /\ \A d \in Calls \ {c} : call'[d] = call[d]
    BY <2>6 DEF IInv, TypeOK
  <2>10. TypeOK'
    BY <2>2, <2>4, <2>5, <2>9 DEF IInv, TypeOK, signVars
  <2>11. CallsOK'
    <3>1. ASSUME NEW d \in Calls \ {c} PROVE
            /\ call'[d].at \in {"compare", "created", "answer"} =>
                 /\ call'[d].id # None /\ call'[d].browser # None
                 /\ user'[call'[d].id] # None /\ user'[call'[d].id].password
            /\ call'[d].at = "logout" => call'[d].browser # None
            /\ call'[d].at \in {"find", "create"} => call'[d].email # None
            /\ call'[d].at \in {"find", "create"} /\ call'[d].browser = None =>
                 call'[d].kind = "guest"
      BY <2>7, <2>9 DEF IInv, CallsOK, TypeOK, Call
    <3>2. /\ r.at \in {"compare", "created", "answer"} =>
                 /\ r.id # None /\ r.browser # None
                 /\ user'[r.id] # None /\ user'[r.id].password
          /\ r.at \notin {"logout", "find", "create"}
      BY <2>6, <2>8, NoneAssumption DEF NoCall
    <3> QED BY <2>9, <3>1, <3>2 DEF CallsOK, Account
  <2>12. SignedInIsReal'
    BY <2>2, <2>7 DEF IInv, SignedInIsReal, TypeOK, signVars, Account
  <2>13. OneAccountPerEmail'
    BY <1>3, <2>1, <2>4, <2>5 DEF IInv, OneAccountPerEmail, Taken, WithEmail, Rows
  <2>14. PruningOK'
    BY <2>2, <2>4 DEF IInv, PruningOK, TypeOK
  <2>15. PasswordsRegistered'
    BY <2>1, <2>4, <2>5 DEF IInv, PasswordsRegistered, Rows
  <2> QED BY <2>10, <2>11, <2>12, <2>13, <2>14, <2>15 DEF IInv
<1> QED BY <1>2, <1>3

\* The other steps of a request.
LEMMA RequestsKeep ==
  ASSUME IInv, NEW c \in Calls,
         \/ FindFree(c) \/ SessionStarts(c) \/ FindAccount(c) \/ Compared(c)
         \/ Answered(c) \/ LoggedOut(c) \/ Fails(c)
  PROVE  IInv'
<1> DEFINE b == call[c].browser
<1>1. Sound(call[c]) /\ Sound(NoCall) /\ call[c] \in Call
  BY CallsSound DEF Sound
<1>2. CASE FindFree(c)
  <2> DEFINE r == [call[c] EXCEPT !.at = "create"]
  <2>1. Sound(r)
    BY <1>1, <1>2 DEF FindFree, Sound, Call
  <2>2. /\ call' = [call EXCEPT ![c] = r] \/ call' = [call EXCEPT ![c] = NoCall]
        /\ UNCHANGED <<tableVars, signVars, pruning>>
    BY <1>2 DEF FindFree, Goes, Returns
  <2> HIDE DEF r
  <2> QED BY <1>1, <2>1, <2>2, QuietStep
<1>3. CASE FindAccount(c)
  <2>1. CASE Returns(c)
    BY <1>1, <1>3, <2>1, QuietStep DEF FindAccount, Returns
  <2>2. CASE ~Returns(c)
    <3>1. PICK i \in WithEmail(call[c].email) : user[i].password /\ Finds(c, "compare", i)
      BY <1>3, <2>2 DEF FindAccount
    <3> DEFINE r == [call[c] EXCEPT !.at = "compare", !.id = i]
    <3>2. i \in Ids /\ Account(i) /\ i # None
      BY <3>1, NoneAssumption DEF WithEmail, Rows, Account
    <3>3. b # None
      BY <1>1, <1>3 DEF FindAccount, Sound
    <3>4. Sound(r)
      BY <1>1, <3>2, <3>3 DEF Sound, Call
    <3>5. call' = [call EXCEPT ![c] = r] /\ UNCHANGED <<tableVars, signVars, pruning>>
      BY <1>3, <3>1 DEF FindAccount, Finds, IInv, TypeOK
    <3> HIDE DEF r
    <3> QED BY <3>4, <3>5, QuietStep
  <2> QED BY <2>1, <2>2
<1>4. CASE SessionStarts(c)
  <2>1. /\ call' = [call EXCEPT ![c] = NoCall] /\ UNCHANGED <<tableVars, local, pruning>>
        /\ session' = [session EXCEPT ![b] = call[c].id] /\ call[c].at = "created"
    BY <1>4 DEF SessionStarts, Returns
  <2>2. Account(call[c].id) /\ call[c].id \in Ids /\ b \in Browsers
    BY <1>1, <2>1 DEF Sound, Call
  <2>3. /\ session' \in [Browsers -> Ids \cup {None}]
        /\ \A x \in Browsers : session'[x] = session[x] \/ Account(session'[x])
    BY <2>1, <2>2 DEF IInv, TypeOK
  <2> QED BY <1>1, <2>1, <2>3, CallStep DEF IInv, TypeOK
<1>5. CASE Compared(c)
  <2> DEFINE r == [call[c] EXCEPT !.at = "answer"]
  <2>1. /\ call' = [call EXCEPT ![c] = r] /\ UNCHANGED <<tableVars, local, pruning>>
        /\ session' = [session EXCEPT ![b] = call[c].id] /\ call[c].at = "compare"
    BY <1>5 DEF Compared, Goes
  <2>2. Account(call[c].id) /\ call[c].id \in Ids /\ b \in Browsers
    BY <1>1, <2>1 DEF Sound, Call
  <2>3. /\ session' \in [Browsers -> Ids \cup {None}]
        /\ \A x \in Browsers : session'[x] = session[x] \/ Account(session'[x])
    BY <2>1, <2>2 DEF IInv, TypeOK
  <2>4. Sound(r)
    BY <1>1, <2>1 DEF Sound, Call
  <2> HIDE DEF r
  <2> QED BY <2>1, <2>3, <2>4, CallStep DEF IInv, TypeOK
<1>6. CASE Answered(c)
  <2>1. /\ call' = [call EXCEPT ![c] = NoCall] /\ UNCHANGED <<tableVars, session, pruning>>
        /\ local' = [local EXCEPT ![b] = call[c].id] /\ call[c].at = "answer"
    BY <1>6 DEF Answered, Returns
  <2>2. Account(call[c].id) /\ call[c].id \in Ids /\ b \in Browsers
    BY <1>1, <2>1 DEF Sound, Call
  <2>3. /\ local' \in [Browsers -> Ids \cup {None}]
        /\ \A x \in Browsers : local'[x] = local[x] \/ Account(local'[x])
    BY <2>1, <2>2 DEF IInv, TypeOK
  <2> QED BY <1>1, <2>1, <2>3, CallStep DEF IInv, TypeOK
<1>7. CASE LoggedOut(c)
  <2>1. /\ call' = [call EXCEPT ![c] = NoCall] /\ UNCHANGED <<tableVars, local, pruning>>
        /\ session' = [session EXCEPT ![b] = None]
    BY <1>7 DEF LoggedOut, Returns
  <2>2. /\ session' \in [Browsers -> Ids \cup {None}]
        /\ \A x \in Browsers : session'[x] \in {session[x], None}
    BY <1>1, <1>7, <2>1 DEF LoggedOut, Sound, Call, IInv, TypeOK
  <2> QED BY <1>1, <2>1, <2>2, CallStep DEF IInv, TypeOK
<1>8. CASE Fails(c)
  BY <1>1, <1>8, QuietStep DEF Fails, Returns
<1> QED BY <1>2, <1>3, <1>4, <1>5, <1>6, <1>7, <1>8

\* What UserService does to rows that are there, and the end of sessions.
LEMMA RowsKeep ==
  ASSUME IInv,
         \/ \E i \in Ids : RegisterUser(i) \/ Ages(i)
         \/ PruneDeletes \/ PruneFails
  PROVE  IInv'
<1>1. ASSUME NEW i \in Ids, RegisterUser(i) \/ Ages(i) PROVE IInv'
  <2>1. i \in Rows /\ user[i] \in User
    BY <1>1 DEF RegisterUser, Ages, IInv, TypeOK, Rows
  <2>2. PICK row \in User :
           /\ user' = [user EXCEPT ![i] = row]
           /\ row.email = user[i].email /\ row.password = user[i].password
           /\ user[i].registered => row.registered
           /\ user[i].old => row.old
    <3>1. CASE RegisterUser(i)
      <4> DEFINE row == [user[i] EXCEPT !.registered = TRUE]
      <4>1. row \in User /\ row.email = user[i].email /\ row.password = user[i].password
              /\ row.registered /\ row.old = user[i].old
        BY <2>1 DEF User
      <4>2. user' = [user EXCEPT ![i] = row]
        BY <3>1 DEF RegisterUser
      <4> QED BY <4>1, <4>2
    <3>2. CASE Ages(i)
      <4> DEFINE row == [user[i] EXCEPT !.old = TRUE]
      <4>1. row \in User /\ row.email = user[i].email /\ row.password = user[i].password
              /\ row.old /\ row.registered = user[i].registered
        BY <2>1 DEF User
      <4>2. user' = [user EXCEPT ![i] = row]
        BY <3>2 DEF Ages
      <4> QED BY <4>1, <4>2
    <3> QED BY <1>1, <3>1, <3>2
  <2>3. /\ user' \in [Ids -> User \cup {None}] /\ user'[i] = row
        /\ \A j \in Ids \ {i} : user'[j] = user[j]
    BY <2>2 DEF IInv, TypeOK
  <2>4. UNCHANGED <<drawn, signVars, call, pruning>>
    BY <1>1 DEF RegisterUser, Ages
  <2>5. Rows' \subseteq Rows /\ \A j \in Rows : Account(j) => Account(j)'
    BY <2>1, <2>2, <2>3, NoneAssumption DEF Rows, Account
  <2>6. \A j \in Rows' : /\ user'[j].email = user[j].email
                         /\ user'[j].password = user[j].password
                         /\ user[j].registered => user'[j].registered
                         /\ user[j].old => user'[j].old
    BY <2>2, <2>3 DEF Rows
  <2> QED BY <2>3, <2>4, <2>5, <2>6, TableStep
<1>2. CASE PruneDeletes
  <2>1. /\ user' \in [Ids -> User \cup {None}]
        /\ \A j \in Ids : user'[j] = IF j \in pruning THEN None ELSE user[j]
        /\ pruning # None /\ pruning' = None /\ UNCHANGED <<drawn, signVars, call>>
    BY <1>2 DEF PruneDeletes, IInv, TypeOK
  <2>2. \A j \in Rows : Account(j) => Account(j)'
    BY <2>1 DEF IInv, PruningOK, Account, Rows
  <2>3. Rows' \subseteq Rows /\ \A j \in Rows' : user'[j] = user[j]
    BY <2>1 DEF Rows
  <2> QED BY <2>1, <2>2, <2>3, TableStep
<1>3. CASE PruneFails
  <2>1. /\ pruning' = None /\ UNCHANGED <<user, drawn, signVars, call>>
    BY <1>3 DEF PruneFails, tableVars
  <2>2. Rows' = Rows /\ user' \in [Ids -> User \cup {None}]
        /\ \A j \in Rows : Account(j) => Account(j)'
    BY <2>1 DEF Rows, Account, IInv, TypeOK
  <2> QED BY <2>1, <2>2, TableStep
<1> QED BY <1>1, <1>2, <1>3

LEMMA NextKeeps ==
  ASSUME IInv, [Next]_vars
  PROVE  IInv'
<1>1. ASSUME NEW b \in Browsers, SessionExpires(b) PROVE IInv'
  <2> USE <1>1 DEF SessionExpires, tableVars, IInv
  <2>1. TypeOK' /\ SignedInIsReal'
    BY DEF TypeOK, SignedInIsReal, Rows, Account
  <2>2. CallsOK' /\ PruningOK' /\ OneAccountPerEmail' /\ PasswordsRegistered'
    BY DEF CallsOK, PruningOK, OneAccountPerEmail, PasswordsRegistered, Rows, Account
  <2> QED BY <2>1, <2>2
<1>2. CASE PruneFinds
  <2> USE <1>2 DEF PruneFinds, tableVars, signVars, IInv
  <2>1. TypeOK'
    BY DEF TypeOK, Rows, Abandoned
  <2>2. PruningOK'
    BY DEF PruningOK, Abandoned, PasswordsRegistered, Rows
  <2>3. CallsOK' /\ SignedInIsReal' /\ OneAccountPerEmail' /\ PasswordsRegistered'
    BY DEF CallsOK, SignedInIsReal, OneAccountPerEmail, PasswordsRegistered, Rows,
           Account
  <2> QED BY <2>1, <2>2, <2>3
<1>3. CASE Restart
  <2> USE <1>3 DEF Restart, tableVars, IInv
  <2>1. TypeOK'
    BY DEF TypeOK, Rows, NoCall, Call
  <2>2. CallsOK' /\ PruningOK'
    BY DEF CallsOK, PruningOK, NoCall
  <2>3. SignedInIsReal' /\ OneAccountPerEmail' /\ PasswordsRegistered'
    BY DEF SignedInIsReal, OneAccountPerEmail, PasswordsRegistered, Rows, Account
  <2> QED BY <2>1, <2>2, <2>3
<1>4. CASE UNCHANGED vars
  BY <1>4 DEF vars, IInv, TypeOK, SignedInIsReal, OneAccountPerEmail, CallsOK,
              PruningOK, PasswordsRegistered, Rows, Account
<1> QED BY <1>1, <1>2, <1>3, <1>4, StartsKeep, CreateStep, RequestsKeep, RowsKeep
        DEF Next

\* The inductive invariant holds in every reachable state.
THEOREM Invariance == Spec => []IInv
<1>1. IInv /\ [Next]_vars => IInv'
  BY NextKeeps
<1> QED BY <1>1, InitEstablishes, PTL DEF Spec

\* Rows, sessions, browsers and requests keep their types
\* (schema.prisma:32-42, auth.controller.ts:8-40).
THEOREM TypeCorrect == Spec => []TypeOK
<1>1. IInv => TypeOK
  BY DEF IInv
<1> QED BY <1>1, Invariance, PTL

\* However many requests overlap and whatever is pruned meanwhile, who a session
\* or a browser says is signed in has an account with a password
\* (auth.controller.ts:19 and 35, user.service.ts:50-70).
THEOREM SignedIn == Spec => []SignedInIsReal
<1>1. IInv => SignedInIsReal
  BY DEF IInv
<1> QED BY <1>1, Invariance, PTL

\* However many registrations and guests overlap, an email has one account
\* (auth.controller.ts:13-18, user.service.ts:11-26).
THEOREM OneAccount == Spec => []OneAccountPerEmail
<1>1. IInv => OneAccountPerEmail
  BY DEF IInv
<1> QED BY <1>1, Invariance, PTL

\* What a step leaves of an account that is safe from the pruning under way.
LEMMA SafeStays ==
  ASSUME IInv, [Next]_vars, NEW i \in Ids, Safe(i)
  PROVE  Safe(i)'
<1> USE NoneAssumption
<1>1. /\ user[i] # None /\ user[i].registered /\ user[i] \in User
      /\ user \in [Ids -> User \cup {None}] /\ i \in drawn
      /\ pruning = None \/ i \notin pruning
  BY DEF IInv, TypeOK, Safe, Rows
<1>2. CASE PruneDeletes
  BY <1>1, <1>2 DEF PruneDeletes, Safe, Rows
<1>3. CASE PruneFinds
  BY <1>1, <1>3 DEF PruneFinds, Abandoned, tableVars, Safe, Rows
<1>4. CASE PruneFails \/ Restart
  BY <1>1, <1>4 DEF PruneFails, Restart, tableVars, Safe, Rows
<1>5. ASSUME NEW c \in Calls, NEW j \in Ids, Create(c, j) PROVE Safe(i)'
  <2>1. pruning' = pruning /\ (UNCHANGED user \/ (j # i /\ user' = [user EXCEPT ![j] = NewUser(c)]))
    BY <1>1, <1>5 DEF Create, tableVars
  <2> QED BY <1>1, <2>1 DEF Safe, Rows
<1>6. ASSUME NEW j \in Ids, RegisterUser(j) \/ Ages(j) PROVE Safe(i)'
  <2>1. user[j] \in User /\ pruning' = pruning
    BY <1>1, <1>6 DEF RegisterUser, Ages, Rows
  <2>2. PICK row \in User : /\ user' = [user EXCEPT ![j] = row]
                            /\ user[j].registered => row.registered
    <3>1. /\ [user[j] EXCEPT !.registered = TRUE] \in User
          /\ [user[j] EXCEPT !.registered = TRUE].registered
          /\ [user[j] EXCEPT !.old = TRUE] \in User
          /\ [user[j] EXCEPT !.old = TRUE].registered = user[j].registered
      BY <2>1 DEF User
    <3> QED BY <1>6, <3>1 DEF RegisterUser, Ages
  <2> QED BY <1>1, <2>1, <2>2 DEF Safe, Rows
<1>7. CASE UNCHANGED <<user, pruning>>
  BY <1>1, <1>7 DEF Safe, Rows
<1> QED
  BY <1>2, <1>3, <1>4, <1>5, <1>6, <1>7
     DEF Next, vars, Request, Register, TrpcRegister, Login, Guest, Logout, Starts,
         FindFree, SessionStarts, FindAccount, Compared, Answered, LoggedOut, Fails,
         SessionExpires, tableVars

\* For any number of guests, registrations and prunings, an account that had
\* registered before a pruning read its ids is not deleted by it
\* (user.service.ts:32-39 and 44-70).
THEOREM RegisteredAreKept == Spec => RegisteredStay
<1>1. IInv /\ [Next]_vars => [\A i \in Ids : Safe(i) => Safe(i)']_vars
  BY SafeStays
<1> QED BY <1>1, Invariance, PTL DEF Spec, RegisteredStay
=============================================================================
