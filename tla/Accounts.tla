----------------------------- MODULE Accounts -----------------------------
(***************************************************************************)
(* The accounts of the passport server (UserService): rows of users with   *)
(* their user_emails, and the tokens that email addresses are confirmed    *)
(* with.  A handler reads a row, checks a token, and overwrites the whole  *)
(* row (upsertUser), in one transaction that isolates its writes but locks *)
(* nothing that it reads: what others commit in between is overwritten, or *)
(* inserted again after it was deleted.                                    *)
(*                                                                         *)
(* A transaction is a read, the check of a token if it has one, and a      *)
(* commit that applies its writes or rolls all of them back.               *)
(***************************************************************************)
EXTENDS Naturals, FiniteSets
LOCAL INSTANCE Functions

CONSTANTS Uuid, Email,
          Identity,      \* Semaphore identities that clients make
          Handler,       \* requests that may be in flight at one time
          MaxEmails,     \* MAX_USER_EMAIL_ADDRESES, which a list does not reach
          DeleteMissing, \* DELETE_MISSING_USERS: whether login drops such users
          Legacy,        \* accounts that are there: the address and identity of each
          MaxTokens,     \* bound: tokens made, for all addresses together
          MaxRequests    \* bound: requests that read a row

ASSUME AccountsAssumption ==
    /\ MaxEmails \in Nat /\ MaxEmails > 1 /\ MaxTokens \in Nat /\ MaxRequests \in Nat
    /\ DeleteMissing \in BOOLEAN
    /\ DOMAIN Legacy \subseteq Uuid
    /\ \A u \in DOMAIN Legacy : Legacy[u] \in Email \X Identity
    /\ \A u, w \in DOMAIN Legacy : u # w => /\ Legacy[u][1] # Legacy[w][1]
                                          /\ Legacy[u][2] # Legacy[w][2]

VARIABLES
    users,      \* the row of each uuid, or NoUser
    emailToken, \* email_tokens: the current token of each address, 0 none
    mailed,     \* addresses whose owner was sent the current token
    stored,     \* identities with an encrypted storage (E2EEService)
    handler,    \* where each request stands
    confirmed,  \* history: the addresses confirmed for each uuid
    requests    \* counter of the bound

accountVars == <<users, emailToken, mailed, stored, handler, confirmed, requests>>

NoUser == [emails |-> {}]
NoIdentity == "none"

\* identity stands for commitment, salt and encryption_key, that a client sends
\* together; keyed: it is encryption_key that is set.
User == [emails : SUBSET Email, identity : Identity, v4 : Identity \cup {NoIdentity},
         keyed : BOOLEAN, terms : {0, 1}]

Operation == {"new", "oneClick", "add", "change", "remove", "terms", "v4",
              "delete", "purge", "verify"}

\* row: the row that was read; uuid: its key, or a new one; drops: the users
\* that the transaction deletes for the new one.
Handling == [op : Operation, at : {"read", "checked"}, uuid : Uuid,
             row : User \cup {NoUser}, email : Email, token : Nat,
             identity : Identity, keyed : BOOLEAN, drops : SUBSET Uuid]
NoHandling == [at |-> "idle"]

AccountsTypeOK ==
    /\ users \in [Uuid -> User \cup {NoUser}]
    /\ emailToken \in [Email -> Nat]
    /\ mailed \subseteq Email
    /\ stored \subseteq Identity
    /\ handler \in [Handler -> Handling \cup {NoHandling}]
    /\ confirmed \subseteq Uuid \X Email
    /\ requests \in 0 .. MaxRequests

AccountsInit ==
    /\ users = [u \in Uuid |->
         IF u \in DOMAIN Legacy
         THEN [emails |-> {Legacy[u][1]}, identity |-> Legacy[u][2], v4 |-> NoIdentity,
               keyed |-> FALSE, terms |-> 0]
         ELSE NoUser]
    /\ emailToken = [e \in Email |-> 0]
    /\ mailed = {} /\ stored = {}
    /\ confirmed = {<<u, Legacy[u][1]>> : u \in DOMAIN Legacy}
    /\ handler = [h \in Handler |-> NoHandling]
    /\ requests = 0

Busy == {h \in Handler : handler[h] # NoHandling}
Registered == {u \in Uuid : users[u] # NoUser}
OwnerOf(e) == {u \in Registered : e \in users[u].emails}
HolderOf(i) == {u \in Registered : users[u].identity = i}

\* The user of an address is to be deleted: the storage that his key names is gone.
Missing(e) == {u \in OwnerOf(e) : /\ DeleteMissing /\ users[u].keyed
                                  /\ users[u].identity \notin stored}

\* randomUUID, and the identity that a client makes for a new account.
FreshUuid(u) == /\ \A e \in Email : <<u, e>> \notin confirmed
                /\ users[u] = NoUser /\ \A h \in Busy : handler[h].uuid # u
FreshIdentity(i) == HolderOf(i) = {} /\ \A h \in Busy : handler[h].identity # i

\* Which of the handlers a new one is, makes no difference.
IsNextHandler(h) == h \notin Busy /\ h = CHOOSE x \in Handler : x \notin Busy

\* saveNewTokenForEmail makes a token that the address never had (only tokens of
\* one address are compared); it may be sent to the address or not.
NewToken(e, sent) ==
    /\ SumFunction(emailToken) < MaxTokens
    /\ emailToken' = [emailToken EXCEPT ![e] = @ + 1]
    /\ mailed' = IF sent THEN mailed \cup {e} ELSE mailed \ {e}

\* The row is read.  A request brings the token that is current when it is sent;
\* with any other it would be refused, and change nothing.
Begin(h, op, at, u, e, i, keyed) ==
    /\ IsNextHandler(h) /\ requests < MaxRequests
    /\ requests' = requests + 1
    /\ handler' = [handler EXCEPT ![h] =
         [op |-> op, at |-> at, uuid |-> u, row |-> users[u], email |-> e,
          token |-> emailToken[e], identity |-> i, keyed |-> keyed,
          drops |-> IF op = "oneClick" THEN OwnerOf(e) ELSE {}]]

Finish(h) == handler' = [handler EXCEPT ![h] = NoHandling]

-----------------------------------------------------------------------------
\* handleSendTokenEmail, up to the removal of a user whose storage is missing.
SendLoginEmail(h, e, force) ==
    LET refused == ~ force /\ \E u \in OwnerOf(e) \ Missing(e) : ~ users[u].keyed IN
    /\ IsNextHandler(h)
    /\ NewToken(e, ~ refused)
    /\ IF Missing(e) = {} THEN UNCHANGED <<handler, requests>>
       ELSE \E u \in Missing(e) : Begin(h, "purge", "checked", u, e, users[u].identity, TRUE)
    /\ UNCHANGED <<users, stored, confirmed>>

\* handleAddUserEmail and handleChangeUserEmail without a confirmation code.
SendConfirmation(i, e) ==
    /\ HolderOf(i) # {} /\ OwnerOf(e) = {}
    /\ NewToken(e, TRUE)
    /\ UNCHANGED <<users, stored, handler, confirmed, requests>>

\* handleNewUser reads the user of the address: an account is made, or reset.
BeginNewUser(h, e, i, keyed) ==
    /\ e \in mailed /\ FreshIdentity(i)
    /\ \E u \in Uuid : /\ IF OwnerOf(e) = {} THEN FreshUuid(u) ELSE u \in OwnerOf(e)
                       /\ Begin(h, "new", "read", u, e, i, keyed)
    /\ UNCHANGED <<users, emailToken, mailed, stored, confirmed>>

\* handleOneClickLogin: the address is vouched for by a ticket, not a token.  It
\* has no user, or one who is deleted in the transaction that makes the new one.
BeginOneClick(h, e, i) ==
    /\ OwnerOf(e) = Missing(e) /\ FreshIdentity(i)
    /\ \E u \in Uuid : /\ FreshUuid(u)
                       /\ Begin(h, "oneClick", "checked", u, e, i, TRUE)
                       /\ confirmed' = confirmed \cup {<<u, e>>}
    /\ UNCHANGED <<users, emailToken, mailed, stored>>

\* handleAddUserEmail, handleChangeUserEmail with a confirmation code.
BeginAddEmail(h, op, i, e) ==
    /\ op \in {"add", "change"} /\ e \in mailed /\ OwnerOf(e) = {}
    /\ \E u \in HolderOf(i) :
         /\ op = "change" => Cardinality(users[u].emails) = 1
         /\ Begin(h, op, "read", u, e, i, TRUE)
    /\ UNCHANGED <<users, emailToken, mailed, stored, confirmed>>

\* handleRemoveUserEmail, handleAgreeTerms, handleAddV4Commitment and
\* handleDeleteAccount: what the row that was read must be like.
BeginEdit(h, op, i, e) ==
    /\ op \in {"remove", "terms", "v4", "delete"}
    /\ \E u \in HolderOf(i) :
         /\ op = "remove" => e \in users[u].emails /\ Cardinality(users[u].emails) > 1
         /\ op # "remove" => e = CHOOSE x \in Email : TRUE
         /\ op = "v4" => users[u].v4 = NoIdentity
         /\ Begin(h, op, "checked", u, e, i, TRUE)
    /\ UNCHANGED <<users, emailToken, mailed, stored, confirmed>>

\* handleVerifyToken: the right token was sent; the user is read after it.
BeginVerify(h, e) ==
    /\ e \in mailed
    /\ \E u \in OwnerOf(e) : Begin(h, "verify", "read", u, e, users[u].identity, TRUE)
    /\ UNCHANGED <<users, emailToken, mailed, stored, confirmed>>

EndVerify(h) ==
    /\ handler[h].at = "read" /\ handler[h].op = "verify"
    /\ IF \E u \in OwnerOf(handler[h].email) : users[u].keyed
       THEN NewToken(handler[h].email, FALSE) ELSE UNCHANGED <<emailToken, mailed>>
    /\ Finish(h)
    /\ UNCHANGED <<users, stored, confirmed, requests>>

-----------------------------------------------------------------------------
TokenIsRight(d) == emailToken[d.email] = d.token

\* Variant: the token is only compared when an account is made.
CheckTokenOfNew(h) ==
    LET d == handler[h] IN
    /\ d.at = "read" /\ d.op \in {"new", "add", "change"}
    /\ handler' = [handler EXCEPT ![h] =
         IF d.op = "new" => TokenIsRight(d) THEN [d EXCEPT !.at = "checked"] ELSE NoHandling]
    /\ confirmed' = confirmed \cup {c \in {<<d.uuid, d.email>>} : TokenIsRight(d)}
    /\ UNCHANGED <<users, emailToken, mailed, stored, requests>>

\* checkTokenCorrect, and the bound on the length of the list.
CheckToken(h) ==
    LET d == handler[h] IN
    /\ d.at = "read" /\ d.op \in {"new", "add", "change"}
    /\ handler' = [handler EXCEPT ![h] =
         IF TokenIsRight(d) /\ (d.op = "add" => Cardinality(d.row.emails) + 1 < MaxEmails)
         THEN [d EXCEPT !.at = "checked"] ELSE NoHandling]
    /\ confirmed' = confirmed \cup {c \in {<<d.uuid, d.email>>} : TokenIsRight(d)}
    /\ UNCHANGED <<users, emailToken, mailed, stored, requests>>

\* The row of an account that is made or reset.
NewRow(d) ==
    [emails |-> IF d.row = NoUser THEN {d.email} ELSE d.row.emails,
     identity |-> d.identity, v4 |-> d.identity, keyed |-> d.keyed, terms |-> 1]

\* Variant: what others took off the list meanwhile is taken off as well.
ShorterList(d) == (d.row.emails \cap users[d.uuid].emails) \ {d.email}

\* newEmailList.
RemainingList(d) == d.row.emails \ {d.email}

\* Variant: two columns are updated, of the row as it has become.
UpgradedColumns(d) ==
    IF users[d.uuid] = NoUser THEN NoUser ELSE [users[d.uuid] EXCEPT !.v4 = d.identity]

UpgradedRow(d) == [d.row EXCEPT !.v4 = d.identity]

\* The row that a transaction writes whole.
RowOf(d) ==
    CASE d.op \in {"new", "oneClick"} -> NewRow(d)
      [] d.op = "add"    -> [d.row EXCEPT !.emails = @ \cup {d.email}]
      [] d.op = "change" -> [d.row EXCEPT !.emails = {d.email}]
      [] d.op = "remove" -> [d.row EXCEPT !.emails = RemainingList(d)]
      [] d.op = "terms"  -> [d.row EXCEPT !.terms = 1]
      [] d.op = "v4"     -> UpgradedRow(d)

Writing(h) == /\ handler[h].at = "checked"
              /\ handler[h].op \notin {"delete", "purge", "verify"}
              /\ handler[h].op = "terms" => handler[h].row.terms = 1

\* user_emails.email is unique: no address of the row has another owner.
EmailsAreFree(d) == \A e \in RowOf(d).emails : OwnerOf(e) \subseteq {d.uuid} \cup d.drops

\* upsertUser: the row and all of its addresses.
Save(h) ==
    LET d == handler[h] IN
    /\ Writing(h) /\ EmailsAreFree(d)
    /\ users' = [u \in Uuid |-> IF u = d.uuid THEN RowOf(d)
                               ELSE IF u \in d.drops THEN NoUser ELSE users[u]]
    /\ IF d.op = "new" THEN NewToken(d.email, FALSE) ELSE UNCHANGED <<emailToken, mailed>>
    /\ Finish(h)
    /\ UNCHANGED <<stored, confirmed, requests>>

\* The transaction, with its new token and what it deleted, is undone.
RollBack(h) ==
    /\ Writing(h) /\ ~ EmailsAreFree(handler[h])
    /\ Finish(h)
    /\ UNCHANGED <<users, emailToken, mailed, stored, confirmed, requests>>

\* agreeTermsAndUnredactTickets, one column of the row if it is still there.
SaveTerms(h) ==
    LET d == handler[h] IN
    /\ d.at = "checked" /\ d.op = "terms" /\ d.row.terms = 0
    /\ users' = IF users[d.uuid] = NoUser THEN users
                ELSE [users EXCEPT ![d.uuid].terms = 1]
    /\ Finish(h)
    /\ UNCHANGED <<emailToken, mailed, stored, confirmed, requests>>

\* deleteUserByUUID, and deleteE2EEByV3Commitment for one who asked for it; that
\* is rolled back if the row is gone.
RemoveUser(h) ==
    LET d == handler[h] IN
    /\ d.at = "checked" /\ d.op \in {"delete", "purge"}
    /\ users' = [users EXCEPT ![d.uuid] = NoUser]
    /\ stored' = IF d.op = "delete" /\ users[d.uuid] # NoUser
                 THEN stored \ {d.identity} ELSE stored
    /\ Finish(h)
    /\ UNCHANGED <<emailToken, mailed, confirmed, requests>>

\* External: a client saves its encrypted storage.
StoreVault(i) ==
    /\ HolderOf(i) # {} /\ i \notin stored
    /\ stored' = stored \cup {i}
    /\ UNCHANGED <<users, emailToken, mailed, handler, confirmed, requests>>

AccountsNext ==
    \/ \E h \in Handler, e \in Email, i \in Identity :
         \/ \E keyed \in BOOLEAN : BeginNewUser(h, e, i, keyed)
         \/ BeginOneClick(h, e, i)
         \/ \E op \in Operation : BeginAddEmail(h, op, i, e) \/ BeginEdit(h, op, i, e)
    \/ \E h \in Handler, e \in Email :
         \/ \E force \in BOOLEAN : SendLoginEmail(h, e, force)
         \/ BeginVerify(h, e)
    \/ \E h \in Handler : \/ EndVerify(h) \/ CheckToken(h) \/ Save(h) \/ RollBack(h)
                          \/ SaveTerms(h) \/ RemoveUser(h)
    \/ \E i \in Identity : StoreVault(i) \/ \E e \in Email : SendConfirmation(i, e)

AccountsSpec == AccountsInit /\ [][AccountsNext]_accountVars

-----------------------------------------------------------------------------
(* The v4 commitment of a row is that of its v3 identity: an upgrade that   *)
(* overlaps a reset of the account overwrites it, or is overwritten, whole. *)
KeysBelongTogether ==
    \A u \in Registered : users[u].v4 \in {NoIdentity, users[u].identity}

(* No overlap of requests leaves an account without an address, or with as  *)
(* many as MaxEmails: two removals, each of which leaves one address, leave *)
(* one.                                                                     *)
EmailListBounds ==
    \A u \in Registered : Cardinality(users[u].emails) \in 1 .. MaxEmails - 1

(* An account has an address only if it was confirmed for that account,     *)
(* also when a stale list is written back or a deleted row is inserted      *)
(* again.                                                                   *)
EmailsAreConfirmed ==
    \A u \in Registered : \A e \in users[u].emails : <<u, e>> \in confirmed
=============================================================================
