-------------------------- MODULE Accounts_proofs --------------------------
(* Proofs about Accounts, for any addresses, identities, requests in flight *)
(* and bounds.                                                              *)
EXTENDS Accounts, FiniteSetTheorems, TLAPS

(***************************************************************************)
(* Rows, and the requests that will write them.                            *)
(***************************************************************************)

\* What is true of the row of account u, if the addresses in C were confirmed.
RowOK(u, row, C) ==
    /\ row \in User
    /\ row.v4 \in {NoIdentity, row.identity}
    /\ IsFiniteSet(row.emails) /\ Cardinality(row.emails) \in 1 .. MaxEmails - 1
    /\ \A e \in row.emails : <<u, e>> \in C

\* What is true of a request: the row it read was right once, and what it checked
\* since holds of that row, not of the one that is there.
HandlingOK(d, C) ==
    /\ d \in Handling
    /\ d.row = NoUser \/ RowOK(d.uuid, d.row, C)
    /\ d.op \notin {"new", "oneClick"} => d.row # NoUser
    /\ d.op = "v4" => d.identity = d.row.identity
    /\ d.op = "remove" => d.email \in d.row.emails /\ Cardinality(d.row.emails) > 1
    /\ d.at = "checked" /\ d.op \in {"new", "oneClick", "add", "change"} =>
         <<d.uuid, d.email>> \in C
    /\ d.at = "checked" /\ d.op = "add" => Cardinality(d.row.emails) + 1 < MaxEmails

\* The invariant.
AccountsInv ==
    /\ AccountsTypeOK
    /\ \A u \in Uuid : users[u] = NoUser \/ RowOK(u, users[u], confirmed)
    /\ \A h \in Handler : handler[h] = NoHandling \/ HandlingOK(handler[h], confirmed)

\* More addresses may have been confirmed since.
LEMMA Confirming ==
  ASSUME NEW C, NEW D, C \subseteq D
  PROVE  /\ \A u, row : RowOK(u, row, C) => RowOK(u, row, D)
         /\ \A d : HandlingOK(d, C) => HandlingOK(d, D)
<1>1. \A u, row : RowOK(u, row, C) => RowOK(u, row, D)
  BY DEF RowOK
<1>2. \A d : HandlingOK(d, C) => HandlingOK(d, D)
  BY <1>1 DEF HandlingOK
<1> QED
  BY <1>1, <1>2

\* A list of one address.
LEMMA OneAddress ==
  ASSUME NEW e
  PROVE  IsFiniteSet({e}) /\ Cardinality({e}) \in 1 .. MaxEmails - 1
<1>1. IsFiniteSet({e}) /\ Cardinality({e}) = 1
  BY FS_Singleton, Zenon
<1>2. 1 \in 1 .. MaxEmails - 1
  BY AccountsAssumption
<1> QED
  BY <1>1, <1>2

\* The row that a request writes is right, if what it read and checked was.
LEMMA RowWritten ==
  ASSUME NEW d, NEW C, HandlingOK(d, C), d.at = "checked",
         d.op \in {"new", "oneClick", "add", "change", "remove", "v4"} \/ d.op = "terms"
  PROVE  RowOK(d.uuid, RowOf(d), C)
<1>1. d \in Handling /\ (d.row = NoUser \/ RowOK(d.uuid, d.row, C))
  BY DEF HandlingOK
<1>2. CASE d.op \in {"new", "oneClick"}
  <2>1. /\ NewRow(d) \in User
        /\ NewRow(d).v4 = NewRow(d).identity
        /\ NewRow(d).emails = IF d.row = NoUser THEN {d.email} ELSE d.row.emails
    BY <1>1 DEF NewRow, User, Handling, RowOK
  <2>2. <<d.uuid, d.email>> \in C
    BY <1>2 DEF HandlingOK
  <2>3. RowOK(d.uuid, NewRow(d), C)
    BY <1>1, <2>1, <2>2, OneAddress DEF RowOK
  <2> QED
    BY <1>2, <2>3 DEF RowOf
<1>3. CASE d.op = "add"
  <2>1. /\ RowOK(d.uuid, d.row, C) /\ Cardinality(d.row.emails) + 1 < MaxEmails
        /\ <<d.uuid, d.email>> \in C /\ d.email \in Email
    BY <1>1, <1>3 DEF HandlingOK, Handling
  <2>2. RowOf(d) = [d.row EXCEPT !.emails = d.row.emails \cup {d.email}]
    BY <1>3 DEF RowOf
  <2>3. /\ RowOf(d) \in User
        /\ RowOf(d).v4 = d.row.v4 /\ RowOf(d).identity = d.row.identity
        /\ RowOf(d).emails = d.row.emails \cup {d.email}
    BY <2>1, <2>2 DEF RowOK, User
  <2>4. /\ IsFiniteSet(d.row.emails \cup {d.email})
        /\ Cardinality(d.row.emails \cup {d.email}) \in
             {Cardinality(d.row.emails), Cardinality(d.row.emails) + 1}
    BY <2>1, FS_AddElement DEF RowOK
  <2>5. Cardinality(d.row.emails \cup {d.email}) \in 1 .. MaxEmails - 1
    BY <2>1, <2>4, AccountsAssumption DEF RowOK
  <2> QED
    BY <2>1, <2>3, <2>4, <2>5 DEF RowOK
<1>4. CASE d.op = "change"
  <2>1. RowOK(d.uuid, d.row, C) /\ <<d.uuid, d.email>> \in C /\ d.email \in Email
    BY <1>1, <1>4 DEF HandlingOK, Handling
  <2>2. RowOf(d) = [d.row EXCEPT !.emails = {d.email}]
    BY <1>4 DEF RowOf
  <2>3. /\ RowOf(d) \in User
        /\ RowOf(d).v4 = d.row.v4 /\ RowOf(d).identity = d.row.identity
        /\ RowOf(d).emails = {d.email}
    BY <2>1, <2>2 DEF RowOK, User
  <2> QED
    BY <2>1, <2>3, OneAddress DEF RowOK
<1>5. CASE d.op = "remove"
  <2>1. /\ RowOK(d.uuid, d.row, C) /\ d.email \in d.row.emails
        /\ Cardinality(d.row.emails) > 1
    BY <1>1, <1>5 DEF HandlingOK
  <2>2. RowOf(d) = [d.row EXCEPT !.emails = d.row.emails \ {d.email}]
    BY <1>5 DEF RowOf, RemainingList
  <2>3. /\ RowOf(d) \in User
        /\ RowOf(d).v4 = d.row.v4 /\ RowOf(d).identity = d.row.identity
        /\ RowOf(d).emails = d.row.emails \ {d.email}
    BY <2>1, <2>2 DEF RowOK, User
  <2>4. /\ IsFiniteSet(d.row.emails \ {d.email})
        /\ Cardinality(d.row.emails \ {d.email}) = Cardinality(d.row.emails) - 1
    BY <2>1, FS_RemoveElement DEF RowOK
  <2>5. Cardinality(d.row.emails \ {d.email}) \in 1 .. MaxEmails - 1
    BY <2>1, <2>4, AccountsAssumption DEF RowOK
  <2> QED
    BY <2>1, <2>3, <2>4, <2>5 DEF RowOK
<1>6. CASE d.op = "v4"
  <2>1. RowOK(d.uuid, d.row, C) /\ d.identity = d.row.identity /\ d.identity \in Identity
    BY <1>1, <1>6 DEF HandlingOK, Handling
  <2>2. RowOf(d) = [d.row EXCEPT !.v4 = d.identity]
    BY <1>6 DEF RowOf, UpgradedRow
  <2>3. /\ RowOf(d) \in User
        /\ RowOf(d).v4 = d.identity /\ RowOf(d).identity = d.row.identity
        /\ RowOf(d).emails = d.row.emails
    BY <2>1, <2>2 DEF RowOK, User
  <2> QED
    BY <2>1, <2>3 DEF RowOK
<1>7. CASE d.op = "terms"
  <2>1. RowOK(d.uuid, d.row, C)
    BY <1>1, <1>7 DEF HandlingOK
  <2>2. RowOf(d) = [d.row EXCEPT !.terms = 1]
    BY <1>7 DEF RowOf
  <2>3. /\ RowOf(d) \in User
        /\ RowOf(d).v4 = d.row.v4 /\ RowOf(d).identity = d.row.identity
        /\ RowOf(d).emails = d.row.emails
    BY <2>1, <2>2 DEF RowOK, User
  <2> QED
    BY <2>1, <2>3 DEF RowOK
<1> QED
  BY <1>2, <1>3, <1>4, <1>5, <1>6, <1>7

-----------------------------------------------------------------------------
(***************************************************************************)
(* Steps.                                                                  *)
(***************************************************************************)

\* What a step has to show: types, and that each row and each request that it
\* writes is right.
LEMMA AccountsInvKept ==
  ASSUME AccountsInv, AccountsTypeOK', confirmed \subseteq confirmed',
         \A u \in Uuid : \/ users'[u] = users[u] \/ users'[u] = NoUser
                        \/ RowOK(u, users'[u], confirmed'),
         \A h \in Handler : \/ handler'[h] = handler[h] \/ handler'[h] = NoHandling
                           \/ HandlingOK(handler'[h], confirmed')
  PROVE  AccountsInv'
  BY Confirming DEF AccountsInv

\* The request that handler h is busy with.
LEMMA BusyHandler ==
  ASSUME AccountsInv, NEW h \in Handler, handler[h].at # "idle"
  PROVE  handler[h] \in Handling /\ HandlingOK(handler[h], confirmed)
  BY DEF AccountsInv, NoHandling, HandlingOK

\* Ending a request.
LEMMA FinishKeeps ==
  ASSUME AccountsTypeOK, NEW h \in Handler, Finish(h)
  PROVE  /\ handler' \in [Handler -> Handling \cup {NoHandling}]
         /\ \A x \in Handler : handler'[x] = handler[x] \/ handler'[x] = NoHandling
  BY DEF AccountsTypeOK, Finish

\* Taking up a request.
LEMMA BeginKeeps ==
  ASSUME AccountsTypeOK, NEW h \in Handler, NEW op \in Operation,
         NEW at \in {"read", "checked"}, NEW u \in Uuid, NEW e \in Email,
         NEW i \in Identity, NEW keyed \in BOOLEAN, Begin(h, op, at, u, e, i, keyed)
  PROVE  /\ requests' \in 0 .. MaxRequests
         /\ handler' \in [Handler -> Handling \cup {NoHandling}]
         /\ handler'[h] \in Handling
         /\ handler'[h].op = op /\ handler'[h].at = at /\ handler'[h].uuid = u
         /\ handler'[h].row = users[u] /\ handler'[h].email = e
         /\ handler'[h].identity = i
         /\ \A x \in Handler : x # h => handler'[x] = handler[x]
<1> DEFINE d == [op |-> op, at |-> at, uuid |-> u, row |-> users[u], email |-> e,
                 token |-> emailToken[e], identity |-> i, keyed |-> keyed,
                 drops |-> IF op = "oneClick" THEN OwnerOf(e) ELSE {}]
<1>0. OwnerOf(e) \subseteq Uuid
  BY DEF OwnerOf, Registered
<1>1. d \in Handling
  <2>1. (IF op = "oneClick" THEN OwnerOf(e) ELSE {}) \in SUBSET Uuid
    BY <1>0
  <2>2. users[u] \in User \cup {NoUser} /\ emailToken[e] \in Nat
    BY DEF AccountsTypeOK
  <2> QED
    BY <2>1, <2>2 DEF Handling
<1>2. handler' = [handler EXCEPT ![h] = d]
  BY DEF Begin
<1>3. handler' \in [Handler -> Handling \cup {NoHandling}] /\ handler'[h] = d
  BY <1>1, <1>2 DEF AccountsTypeOK
<1>4. \A x \in Handler : x # h => handler'[x] = handler[x]
  BY <1>2 DEF AccountsTypeOK
<1>5. requests' \in 0 .. MaxRequests
  BY AccountsAssumption DEF AccountsTypeOK, Begin
<1> QED
  BY <1>1, <1>3, <1>4, <1>5

\* A new token.
LEMMA TokenKeeps ==
  ASSUME AccountsTypeOK, NEW e \in Email, NEW sent \in BOOLEAN, NewToken(e, sent)
  PROVE  emailToken' \in [Email -> Nat] /\ mailed' \subseteq Email
BY DEF AccountsTypeOK, NewToken

\* The first state.
LEMMA AccountsInitInv == AccountsInit => AccountsInv
<1> SUFFICES ASSUME AccountsInit PROVE AccountsInv
  OBVIOUS
<1>1. ASSUME NEW u \in Uuid
      PROVE  users[u] = NoUser \/ RowOK(u, users[u], confirmed)
  <2>1. CASE u \notin DOMAIN Legacy
    BY <2>1 DEF AccountsInit
  <2>2. CASE u \in DOMAIN Legacy
    <3>1. users[u] = [emails |-> {Legacy[u][1]}, identity |-> Legacy[u][2],
                      v4 |-> NoIdentity, keyed |-> FALSE, terms |-> 0]
      BY <2>2 DEF AccountsInit
    <3>2. Legacy[u][1] \in Email /\ Legacy[u][2] \in Identity
      BY <2>2, AccountsAssumption
    <3>3. users[u] \in User
      BY <3>1, <3>2 DEF User
    <3>4. users[u].emails = {Legacy[u][1]} /\ users[u].v4 = NoIdentity
      BY <3>1
    <3>5. <<u, Legacy[u][1]>> \in confirmed
      BY <2>2 DEF AccountsInit
    <3> QED
      BY <3>3, <3>4, <3>5, OneAddress DEF RowOK
  <2> QED
    BY <2>1, <2>2
<1>2. users \in [Uuid -> User \cup {NoUser}]
  <2>1. \A u \in Uuid : users[u] \in User \cup {NoUser}
    BY <1>1 DEF RowOK
  <2> QED
    BY <2>1 DEF AccountsInit
<1>3. confirmed \subseteq Uuid \X Email
  BY AccountsAssumption DEF AccountsInit
<1>4. /\ emailToken \in [Email -> Nat] /\ requests \in 0 .. MaxRequests
      /\ mailed \subseteq Email /\ stored \subseteq Identity
  BY AccountsAssumption DEF AccountsInit
<1>5. /\ handler \in [Handler -> Handling \cup {NoHandling}]
      /\ \A h \in Handler : handler[h] = NoHandling
  BY DEF AccountsInit
<1>6. AccountsTypeOK
  BY <1>2, <1>3, <1>4, <1>5 DEF AccountsTypeOK
<1> QED
  BY <1>1, <1>5, <1>6 DEF AccountsInv

\* A row that is there, and the holder of an identity or an address.
LEMMA RegisteredRow ==
  ASSUME AccountsInv, NEW u \in Registered
  PROVE  u \in Uuid /\ users[u] # NoUser /\ users[u] \in User
         /\ users[u].identity \in Identity
  BY DEF AccountsInv, Registered, RowOK, User

\* What a user row still is with another column of terms.
LEMMA TermsKept ==
  ASSUME NEW u, NEW row, NEW C, RowOK(u, row, C)
  PROVE  RowOK(u, [row EXCEPT !.terms = 1], C)
<1>1. /\ [row EXCEPT !.terms = 1] \in User
      /\ [row EXCEPT !.terms = 1].v4 = row.v4
      /\ [row EXCEPT !.terms = 1].identity = row.identity
      /\ [row EXCEPT !.terms = 1].emails = row.emails
  BY DEF RowOK, User
<1> QED
  BY <1>1 DEF RowOK

\* Every step keeps the invariant.
LEMMA AccountsStepInv == AccountsInv /\ [AccountsNext]_accountVars => AccountsInv'
<1> SUFFICES ASSUME AccountsInv, [AccountsNext]_accountVars PROVE AccountsInv'
  OBVIOUS
<1>0. AccountsTypeOK
  BY DEF AccountsInv
<1>1. ASSUME NEW h \in Handler, NEW op \in Operation, NEW at \in {"read", "checked"},
             NEW u \in Uuid, NEW e \in Email, NEW i \in Identity, NEW keyed \in BOOLEAN,
             Begin(h, op, at, u, e, i, keyed),
             UNCHANGED <<users, stored>>,
             emailToken' \in [Email -> Nat], mailed' \subseteq Email,
             confirmed \subseteq confirmed', confirmed' \subseteq Uuid \X Email,
             op \notin {"new", "oneClick"} => users[u] # NoUser,
             op = "v4" => i = users[u].identity,
             op = "remove" => e \in users[u].emails /\ Cardinality(users[u].emails) > 1,
             at = "checked" => \/ op \notin {"new", "oneClick", "add", "change"}
                               \/ op = "oneClick" /\ <<u, e>> \in confirmed'
      PROVE  AccountsInv'
  <2>1. /\ handler'[h] \in Handling /\ handler'[h].op = op /\ handler'[h].at = at
        /\ handler'[h].uuid = u /\ handler'[h].row = users[u]
        /\ handler'[h].email = e /\ handler'[h].identity = i
        /\ \A x \in Handler : x # h => handler'[x] = handler[x]
        /\ requests' \in 0 .. MaxRequests
        /\ handler' \in [Handler -> Handling \cup {NoHandling}]
    BY <1>0, <1>1, BeginKeeps
  <2>2. HandlingOK(handler'[h], confirmed')
    <3>1. users[u] = NoUser \/ RowOK(u, users[u], confirmed')
      BY <1>1, Confirming DEF AccountsInv
    <3> QED
      BY <1>1, <2>1, <3>1 DEF HandlingOK
  <2>3. AccountsTypeOK'
    BY <1>0, <1>1, <2>1 DEF AccountsTypeOK
  <2> QED
    BY <1>1, <2>1, <2>2, <2>3, AccountsInvKept
<1>2. ASSUME NEW h \in Handler, NEW e \in Email, NEW force \in BOOLEAN,
             SendLoginEmail(h, e, force)
      PROVE  AccountsInv'
  <2>1. emailToken' \in [Email -> Nat] /\ mailed' \subseteq Email
    <3>1. PICK sent \in BOOLEAN : NewToken(e, sent)
      BY <1>2 DEF SendLoginEmail
    <3> QED
      BY <1>0, <3>1, TokenKeeps
  <2>2. users' = users /\ stored' = stored /\ confirmed' = confirmed
    BY <1>2 DEF SendLoginEmail
  <2>3. CASE UNCHANGED <<handler, requests>>
    BY <1>0, <2>1, <2>2, <2>3, AccountsInvKept DEF AccountsTypeOK
  <2>4. CASE \E u \in OwnerOf(e) :
               Begin(h, "purge", "checked", u, e, users[u].identity, TRUE)
    <3>1. PICK u \in OwnerOf(e) :
                 Begin(h, "purge", "checked", u, e, users[u].identity, TRUE)
      BY <2>4
    <3>2. u \in Uuid /\ users[u] # NoUser /\ users[u].identity \in Identity
      BY RegisteredRow DEF OwnerOf
    <3>3. "purge" \in Operation
      BY DEF Operation
    <3>4. confirmed \subseteq confirmed' /\ confirmed' \subseteq Uuid \X Email
      BY <1>0, <2>2 DEF AccountsTypeOK
    <3> QED
      BY <1>1, <2>1, <2>2, <3>1, <3>2, <3>3, <3>4
  <2> QED
    BY <1>2, <2>3, <2>4 DEF SendLoginEmail, Missing
<1>3. ASSUME NEW i \in Identity, NEW e \in Email, SendConfirmation(i, e)
      PROVE  AccountsInv'
  <2>1. emailToken' \in [Email -> Nat] /\ mailed' \subseteq Email
    BY <1>0, <1>3, TokenKeeps DEF SendConfirmation
  <2> QED
    BY <1>0, <1>3, <2>1, AccountsInvKept DEF SendConfirmation, AccountsTypeOK
<1>4. ASSUME NEW h \in Handler, NEW e \in Email, NEW i \in Identity, NEW keyed \in BOOLEAN,
             BeginNewUser(h, e, i, keyed)
      PROVE  AccountsInv'
  <2>1. PICK u \in Uuid : Begin(h, "new", "read", u, e, i, keyed)
    BY <1>4 DEF BeginNewUser
  <2>2. /\ confirmed \subseteq confirmed' /\ confirmed' \subseteq Uuid \X Email
        /\ UNCHANGED <<users, emailToken, mailed, stored>>
    BY <1>0, <1>4 DEF BeginNewUser, AccountsTypeOK
  <2>3. emailToken' \in [Email -> Nat] /\ mailed' \subseteq Email
    BY <1>0, <2>2 DEF AccountsTypeOK
  <2>4. "new" \in Operation
    BY DEF Operation
  <2> QED
    BY <1>1, <2>1, <2>2, <2>3, <2>4
<1>5. ASSUME NEW h \in Handler, NEW e \in Email, NEW i \in Identity, BeginOneClick(h, e, i)
      PROVE  AccountsInv'
  <2>1. PICK u \in Uuid : /\ Begin(h, "oneClick", "checked", u, e, i, TRUE)
                          /\ confirmed' = confirmed \cup {<<u, e>>}
    BY <1>5 DEF BeginOneClick
  <2>2. /\ confirmed \subseteq confirmed' /\ confirmed' \subseteq Uuid \X Email
        /\ <<u, e>> \in confirmed'
    BY <1>0, <2>1 DEF AccountsTypeOK
  <2>3. UNCHANGED <<users, emailToken, mailed, stored>>
    BY <1>5 DEF BeginOneClick
  <2>4. "oneClick" \in Operation /\ TRUE \in BOOLEAN
    BY DEF Operation
  <2>5. emailToken' \in [Email -> Nat] /\ mailed' \subseteq Email
    BY <1>0, <2>3 DEF AccountsTypeOK
  <2> QED
    BY <1>1, <2>1, <2>2, <2>3, <2>4, <2>5
<1>6. ASSUME NEW h \in Handler, NEW op \in Operation, NEW i \in Identity, NEW e \in Email,
             BeginAddEmail(h, op, i, e)
      PROVE  AccountsInv'
  <2>1. PICK u \in HolderOf(i) : Begin(h, op, "read", u, e, i, TRUE)
    BY <1>6 DEF BeginAddEmail
  <2>2. u \in Uuid /\ users[u] # NoUser
    BY RegisteredRow DEF HolderOf
  <2> QED
    BY <1>0, <1>1, <1>6, <2>1, <2>2 DEF BeginAddEmail, AccountsTypeOK
<1>7. ASSUME NEW h \in Handler, NEW op \in Operation, NEW i \in Identity, NEW e \in Email,
             BeginEdit(h, op, i, e)
      PROVE  AccountsInv'
  <2>1. PICK u \in HolderOf(i) :
          /\ op = "remove" => e \in users[u].emails /\ Cardinality(users[u].emails) > 1
          /\ Begin(h, op, "checked", u, e, i, TRUE)
    BY <1>7 DEF BeginEdit
  <2>2. u \in Uuid /\ users[u] # NoUser /\ users[u].identity = i
    BY RegisteredRow DEF HolderOf
  <2> QED
    BY <1>0, <1>1, <1>7, <2>1, <2>2 DEF BeginEdit, AccountsTypeOK
<1>8. ASSUME NEW h \in Handler, NEW e \in Email, BeginVerify(h, e) PROVE AccountsInv'
  <2>1. PICK u \in OwnerOf(e) :
               Begin(h, "verify", "read", u, e, users[u].identity, TRUE)
    BY <1>8 DEF BeginVerify
  <2>2. u \in Uuid /\ users[u] # NoUser /\ users[u].identity \in Identity
    BY RegisteredRow DEF OwnerOf
  <2> QED
    BY <1>0, <1>1, <1>8, <2>1, <2>2 DEF BeginVerify, Operation, AccountsTypeOK
<1>9. ASSUME NEW h \in Handler, EndVerify(h) PROVE AccountsInv'
  <2>1. handler[h].email \in Email
    BY <1>9, BusyHandler DEF EndVerify, Handling
  <2>2. emailToken' \in [Email -> Nat] /\ mailed' \subseteq Email
    BY <1>0, <1>9, <2>1, TokenKeeps DEF EndVerify, AccountsTypeOK
  <2> QED
    BY <1>0, <1>9, <2>2, FinishKeeps, AccountsInvKept DEF EndVerify, AccountsTypeOK
<1>10. ASSUME NEW h \in Handler, CheckToken(h) PROVE AccountsInv'
  <2> DEFINE d == handler[h]
  <2>1. d \in Handling /\ HandlingOK(d, confirmed) /\ d.at = "read"
        /\ d.op \in {"new", "add", "change"}
    BY <1>10, BusyHandler DEF CheckToken
  <2>2. /\ confirmed \subseteq confirmed' /\ confirmed' \subseteq Uuid \X Email
        /\ TokenIsRight(d) => <<d.uuid, d.email>> \in confirmed'
    BY <1>0, <1>10, <2>1 DEF CheckToken, AccountsTypeOK, Handling
  <2>3. HandlingOK(d, confirmed')
    BY <2>1, <2>2, Confirming
  <2> DEFINE c == [d EXCEPT !.at = "checked"]
  <2>4. /\ c \in Handling /\ c.at = "checked" /\ c.op = d.op /\ c.uuid = d.uuid
        /\ c.row = d.row /\ c.email = d.email /\ c.identity = d.identity
    BY <2>1 DEF Handling
  <2>5. /\ handler' \in [Handler -> Handling \cup {NoHandling}]
        /\ \A x \in Handler : x # h => handler'[x] = handler[x]
        /\ \/ handler'[h] = NoHandling
           \/ /\ handler'[h] = c /\ TokenIsRight(d)
              /\ d.op = "add" => Cardinality(d.row.emails) + 1 < MaxEmails
    BY <1>0, <1>10, <2>4 DEF CheckToken, AccountsTypeOK
  <2>6. TokenIsRight(d) /\ (d.op = "add" => Cardinality(d.row.emails) + 1 < MaxEmails)
          => HandlingOK(c, confirmed')
    BY <2>1, <2>2, <2>3, <2>4 DEF HandlingOK
  <2>7. AccountsTypeOK'
    BY <1>0, <1>10, <2>2, <2>5 DEF CheckToken, AccountsTypeOK
  <2> QED
    BY <1>10, <2>2, <2>5, <2>6, <2>7, AccountsInvKept DEF CheckToken
<1>11. ASSUME NEW h \in Handler, Save(h) PROVE AccountsInv'
  <2> DEFINE d == handler[h]
  <2>1. d \in Handling /\ HandlingOK(d, confirmed) /\ d.at = "checked"
        /\ d.op \notin {"delete", "purge", "verify"}
    BY <1>11, BusyHandler DEF Save, Writing
  <2>2. RowOK(d.uuid, RowOf(d), confirmed)
    BY <2>1, RowWritten DEF Handling, Operation
  <2>3. emailToken' \in [Email -> Nat] /\ mailed' \subseteq Email
    BY <1>0, <1>11, <2>1, TokenKeeps DEF Save, AccountsTypeOK, Handling
  <2>4. users' = [u \in Uuid |-> IF u = d.uuid THEN RowOf(d)
                                 ELSE IF u \in d.drops THEN NoUser ELSE users[u]]
    BY <1>11 DEF Save
  <2>5. users' \in [Uuid -> User \cup {NoUser}]
    BY <1>0, <2>2, <2>4 DEF AccountsTypeOK, RowOK
  <2>6. \A u \in Uuid : \/ users'[u] = users[u] \/ users'[u] = NoUser
                        \/ RowOK(u, users'[u], confirmed)
    BY <2>2, <2>4
  <2> QED
    BY <1>0, <1>11, <2>3, <2>5, <2>6, FinishKeeps, AccountsInvKept DEF Save, AccountsTypeOK
<1>12. ASSUME NEW h \in Handler, RollBack(h) PROVE AccountsInv'
  BY <1>0, <1>12, FinishKeeps, AccountsInvKept DEF RollBack, AccountsTypeOK
<1>13. ASSUME NEW h \in Handler, SaveTerms(h) PROVE AccountsInv'
  <2> DEFINE d == handler[h]
  <2>1. d.uuid \in Uuid
    BY <1>13, BusyHandler DEF SaveTerms, Handling
  <2>2. CASE users[d.uuid] = NoUser
    BY <1>0, <1>13, <2>2, FinishKeeps, AccountsInvKept DEF SaveTerms, AccountsTypeOK
  <2>3. CASE users[d.uuid] # NoUser
    <3>1. RowOK(d.uuid, [users[d.uuid] EXCEPT !.terms = 1], confirmed)
      BY <2>1, <2>3, TermsKept DEF AccountsInv
    <3>2. users' = [users EXCEPT ![d.uuid] = [users[d.uuid] EXCEPT !.terms = 1]]
      BY <1>13, <2>3 DEF SaveTerms
    <3>3. users' \in [Uuid -> User \cup {NoUser}]
      BY <1>0, <2>1, <3>1, <3>2 DEF AccountsTypeOK, RowOK
    <3>4. \A u \in Uuid : users'[u] = users[u] \/ RowOK(u, users'[u], confirmed)
      BY <1>0, <2>1, <3>1, <3>2 DEF AccountsTypeOK
    <3> QED
      BY <1>0, <1>13, <3>3, <3>4, FinishKeeps, AccountsInvKept DEF SaveTerms, AccountsTypeOK
  <2> QED
    BY <2>2, <2>3
<1>14. ASSUME NEW h \in Handler, RemoveUser(h) PROVE AccountsInv'
  <2>1. /\ users' \in [Uuid -> User \cup {NoUser}] /\ stored' \subseteq Identity
        /\ \A u \in Uuid : users'[u] = users[u] \/ users'[u] = NoUser
    BY <1>0, <1>14 DEF RemoveUser, AccountsTypeOK
  <2> QED
    BY <1>0, <1>14, <2>1, FinishKeeps, AccountsInvKept DEF RemoveUser, AccountsTypeOK
<1>15. ASSUME NEW i \in Identity, StoreVault(i) PROVE AccountsInv'
  BY <1>0, <1>15, AccountsInvKept DEF StoreVault, AccountsTypeOK
<1>16. ASSUME UNCHANGED accountVars PROVE AccountsInv'
  BY <1>0, <1>16, AccountsInvKept DEF accountVars, AccountsTypeOK
<1> QED
  BY <1>2, <1>3, <1>4, <1>5, <1>6, <1>7, <1>8, <1>9, <1>10, <1>11, <1>12, <1>13, <1>14,
     <1>15, <1>16
  DEF AccountsNext

(***************************************************************************)
(* Theorems.                                                               *)
(***************************************************************************)

\* The invariant holds of every behaviour.
LEMMA AccountsInvHolds == AccountsSpec => []AccountsInv
  BY AccountsInitInv, AccountsStepInv, PTL DEF AccountsSpec

(* AccountsTypeOK: every variable keeps its type.                           *)
THEOREM AccountsTypeCorrect == AccountsSpec => []AccountsTypeOK
<1>1. AccountsInv => AccountsTypeOK
  BY DEF AccountsInv
<1> QED
  BY <1>1, AccountsInvHolds, PTL

(* KeysBelongTogether: no overlap of resets, upgrades and edits gives a row *)
(* the v4 commitment of another identity than its own.                      *)
THEOREM KeysAreOfOneIdentity == AccountsSpec => []KeysBelongTogether
<1>1. AccountsInv => KeysBelongTogether
  BY DEF AccountsInv, KeysBelongTogether, Registered, RowOK
<1> QED
  BY <1>1, AccountsInvHolds, PTL

(* EmailListBounds: no overlap of additions, removals and changes empties a *)
(* list of addresses, or fills it up to MaxEmails.                          *)
THEOREM ListsAreBounded == AccountsSpec => []EmailListBounds
<1>1. AccountsInv => EmailListBounds
  BY DEF AccountsInv, EmailListBounds, Registered, RowOK
<1> QED
  BY <1>1, AccountsInvHolds, PTL

(* EmailsAreConfirmed: no stale row that is written back, or inserted again *)
(* after a deletion, brings an address that was not confirmed for it.       *)
THEOREM AddressesAreConfirmed == AccountsSpec => []EmailsAreConfirmed
<1>1. AccountsInv => EmailsAreConfirmed
  BY DEF AccountsInv, EmailsAreConfirmed, Registered, RowOK
<1> QED
  BY <1>1, AccountsInvHolds, PTL
=============================================================================
