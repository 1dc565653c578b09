------------------------------ MODULE Accounts ------------------------------
(***************************************************************************)
(* The administrator's account: its creation when the server starts          *)
(* (TryInitialSetup, possibly in several instances at once), the setup that  *)
(* replaces the printed credentials (CompleteInitialSetup), logins, access   *)
(* tokens and changes of the profile.                                        *)
(*                                                                         *)
(* A password is hashed with a new salt each time, so a hash is a number     *)
(* that is never used again; access tokens are signed with a key made from   *)
(* the hash.  Token expiry is not modelled.                                 *)
(***************************************************************************)
EXTENDS Naturals, FiniteSets

CONSTANTS
    Instances,   \* server processes
    Requests,    \* requests of the setup and profile pages in progress
    Passwords,   \* passwords people make up; the server's random ones are not among them
    Emails,
    BootEmail,   \* bootstrapAdminEmail
    None,
    MaxHash,     \* bound: passwords stored
    MaxCrashes   \* bound: crashes of instances

ASSUME AccountsAssumption ==
    /\ Instances \cap Passwords = {}
    /\ BootEmail \in Emails
    /\ None \notin Emails \cup Passwords \cup Instances \cup Requests
    /\ MaxHash \in Nat
    /\ MaxCrashes \in Nat

VARIABLES
    setup,     \* settings, key initial_setup_done: absent, pending (false) or done
    users,     \* users; every row is an administrator's
    hashes,    \* passwords hashed and stored so far
    tokens,    \* access tokens given out: the user and the hash that signed them
    boot,      \* TryInitialSetup in each instance
    req,       \* the requests in progress
    rowLock,   \* the request whose transaction has updated the user's row
    printed,   \* bootstrap passwords printed on stderr
    typed,     \* history: the new passwords that requests of the two pages carried
    crashes

vars == <<setup, users, hashes, tokens, boot, req, rowLock, printed, typed, crashes>>

\* An instance creates at most one administrator; the instance's name stands for the id and
\* for the password that it generates.
UserIds == Instances
AllPasswords == Passwords \cup Instances
User == [live : BOOLEAN, email : Emails \cup {None}, pwd : AllPasswords \cup {None}, hash : 0..MaxHash]
NoUser == [live |-> FALSE, email |-> None, pwd |-> None, hash |-> 0]

Boot == [pc : {"off", "read", "ensured", "create", "print", "up"}, inserted : BOOLEAN]
Off == [pc |-> "off", inserted |-> FALSE]

Request == [pc : {"idle", "setup", "complete", "profile", "email", "password", "issue"},
            user : UserIds \cup {None}, email : Emails \cup {None},
            pwd : AllPasswords \cup {None}, cur : AllPasswords \cup {None},
            seen : AllPasswords \cup {None}, alone : BOOLEAN]
NoRequest == [pc |-> "idle", user |-> None, email |-> None, pwd |-> None, cur |-> None,
              seen |-> None, alone |-> TRUE]

TypeOK ==
    /\ setup \in {"absent", "pending", "done"}
    /\ users \in [UserIds -> User]
    /\ hashes \in 0..MaxHash
    /\ tokens \subseteq UserIds \X (0..MaxHash)
    /\ boot \in [Instances -> Boot]
    /\ req \in [Requests -> Request]
    /\ rowLock \in Requests \cup {None}
    /\ printed \subseteq Instances
    /\ typed \subseteq AllPasswords
    /\ crashes \in 0..MaxCrashes

Init ==
    /\ setup = "absent"
    /\ users = [u \in UserIds |-> NoUser]
    /\ hashes = 0
    /\ tokens = {}
    /\ boot = [i \in Instances |-> Off]
    /\ req = [r \in Requests |-> NoRequest]
    /\ rowLock = None
    /\ printed = {}
    /\ typed = {}
    /\ crashes = 0

-----------------------------------------------------------------------------
(* Queries *)

GetAdminUser == \E u \in UserIds : users[u].live

GetUserByEmail(u, e) == users[u].live /\ users[u].email = e
GetUserByID(u) == users[u].live

\* A hash fits the password it was made of.
CheckPasswordHash(p, pwd) == p = pwd

\* users_email_active_unique_idx.
EmailInUse(e, u) == \E v \in UserIds \ {u} : users[v].live /\ users[v].email = e

CreateAdminUser(p) == [live |-> TRUE, email |-> BootEmail, pwd |-> p, hash |-> hashes + 1]
CompleteInitialSetupForUserMutant(u, e, p) == [users[u] EXCEPT !.email = e]
CompleteInitialSetupForUser(u, e, p) ==
    [users[u] EXCEPT !.email = e, !.pwd = p, !.hash = hashes + 1]
UpdateUserEmail(u, e) == [users[u] EXCEPT !.email = e]
UpdateUserPasswordMutant(row, p) == [row EXCEPT !.pwd = p]
UpdateUserPassword(row, p) == [row EXCEPT !.pwd = p, !.hash = hashes + 1]

-----------------------------------------------------------------------------
(* TryInitialSetup *)

bootFrame == <<tokens, req, rowLock, typed>>

BootRead(i) ==
    /\ boot[i].pc = "off"
    /\ boot' = [boot EXCEPT ![i].pc = IF setup = "done" THEN "up" ELSE "read"]
    /\ UNCHANGED <<setup, users, hashes, printed, crashes, bootFrame>>

\* Ensure inserts the row unless it is there; it waits for another transaction that has
\* inserted it and not ended.
EnsureWaitsMutant(i) == FALSE
EnsureWaits(i) == \E j \in Instances \ {i} : boot[j].inserted

BootEnsure(i) ==
    /\ boot[i].pc = "read"
    /\ ~EnsureWaits(i)
    /\ boot' = [boot EXCEPT ![i] = [pc |-> "ensured", inserted |-> setup = "absent"]]
    /\ UNCHANGED <<setup, users, hashes, printed, crashes, bootFrame>>

\* With an administrator the transaction is rolled back.
BootLook(i) ==
    /\ boot[i].pc = "ensured"
    /\ boot' = [boot EXCEPT ![i] = IF GetAdminUser THEN [pc |-> "up", inserted |-> FALSE]
                                   ELSE [@ EXCEPT !.pc = "create"]]
    /\ UNCHANGED <<setup, users, hashes, printed, crashes, bootFrame>>

\* The insert is refused when an administrator has the bootstrap e-mail; else it commits.
BootCreate(i) ==
    /\ boot[i].pc = "create"
    /\ IF EmailInUse(BootEmail, i)
       THEN /\ boot' = [boot EXCEPT ![i] = [pc |-> "up", inserted |-> FALSE]]
            /\ UNCHANGED <<setup, users, hashes>>
       ELSE /\ hashes < MaxHash
            /\ users' = [users EXCEPT ![i] = CreateAdminUser(i)]
            /\ hashes' = hashes + 1
            /\ setup' = IF boot[i].inserted THEN "pending" ELSE setup
            /\ boot' = [boot EXCEPT ![i] = [pc |-> "print", inserted |-> FALSE]]
    /\ UNCHANGED <<printed, crashes, bootFrame>>

\* logBootstrapAdminCredentials, after the commit.
BootPrint(i) ==
    /\ boot[i].pc = "print"
    /\ boot' = [boot EXCEPT ![i].pc = "up"]
    /\ printed' = printed \cup {i}
    /\ UNCHANGED <<setup, users, hashes, crashes, bootFrame>>

Crash(i) ==
    /\ boot[i].pc # "off"
    /\ crashes < MaxCrashes
    /\ crashes' = crashes + 1
    /\ boot' = [boot EXCEPT ![i] = Off]
    /\ UNCHANGED <<setup, users, hashes, printed, bootFrame>>

-----------------------------------------------------------------------------
(* Login and Authenticate *)

reqFrame == <<boot, printed, crashes>>

\* An instance is up and answers.
Serving == \E i \in Instances : boot[i].pc = "up"

\* The passwords people have, to log in with and to choose again: those they made up and
\* those the server printed.
KnownPasswords == Passwords \cup printed

\* signAccessToken and verifyAccessToken: the key is made from the user's hash.
SignAccessToken(u) == <<u, users[u].hash>>
VerifyAccessToken(tok, u) == tok = <<u, users[u].hash>>

Login(u, e, p) ==
    /\ Serving
    /\ GetUserByEmail(u, e)
    /\ CheckPasswordHash(p, users[u].pwd)
    /\ tokens' = tokens \cup {SignAccessToken(u)}
    /\ UNCHANGED <<setup, users, hashes, req, rowLock, typed, reqFrame>>

\* Service and middleware: the subject names the user, whose hash verifies the token.
AuthenticateUser(u, tok) == tok \in tokens /\ GetUserByID(u) /\ VerifyAccessToken(tok, u)

\* The middleware authenticates the request; everything after it goes by the user's id.
Authenticate(r, u, tok, pc) ==
    /\ Serving
    /\ req[r].pc = "idle"
    /\ AuthenticateUser(u, tok)
    /\ req' = [req EXCEPT ![r] = [NoRequest EXCEPT !.pc = pc, !.user = u]]
    /\ UNCHANGED <<setup, users, hashes, tokens, rowLock, typed, reqFrame>>

-----------------------------------------------------------------------------
(* CompleteInitialSetup *)

\* The transaction begins with the setting; when it is done the request is refused.  Of the
\* new password only the length is looked at: it may be the printed one.
CompleteRead(r, e, p) ==
    /\ req[r].pc = "setup"
    /\ req' = [req EXCEPT ![r] = IF setup = "done" THEN NoRequest
                                 ELSE [@ EXCEPT !.pc = "complete", !.email = e, !.pwd = p]]
    /\ typed' = typed \cup {p}
    /\ UNCHANGED <<setup, users, hashes, tokens, rowLock, reqFrame>>

Issuing(u) == [NoRequest EXCEPT !.pc = "issue", !.user = u]

\* After a commit the requests that have already read are not alone any more.
Unread == {"idle", "setup", "profile", "issue"}
NotAlone(q) == [s \in Requests |-> [q[s] EXCEPT !.alone = (q[s].alone /\ q[s].pc \in Unread)]]

\* The update waits for a transaction that holds the row; with the setting and the
\* commit it is one step for the others.
CompleteCommit(r) ==
    /\ req[r].pc = "complete"
    /\ rowLock = None
    /\ ~EmailInUse(req[r].email, req[r].user)
    /\ hashes < MaxHash
    /\ users' = [users EXCEPT ![req[r].user] =
                     CompleteInitialSetupForUser(req[r].user, req[r].email, req[r].pwd)]
    /\ hashes' = hashes + 1
    /\ setup' = "done"
    /\ req' = NotAlone([req EXCEPT ![r] = Issuing(req[r].user)])
    /\ UNCHANGED <<tokens, rowLock, typed, reqFrame>>

\* The e-mail is in use, or an error ends the request; its transaction is rolled back.
RequestFail(r) ==
    /\ req[r].pc # "idle"
    /\ req' = [req EXCEPT ![r] = NoRequest]
    /\ rowLock' = IF rowLock = r THEN None ELSE rowLock
    /\ UNCHANGED <<setup, users, hashes, tokens, typed, reqFrame>>

\* IssueAccessToken reads the user again.
IssueAccessToken(r) ==
    /\ req[r].pc = "issue"
    /\ tokens' = tokens \cup {SignAccessToken(req[r].user)}
    /\ req' = [req EXCEPT ![r] = NoRequest]
    /\ UNCHANGED <<setup, users, hashes, rowLock, typed, reqFrame>>

-----------------------------------------------------------------------------
(* UpdateProfile *)

\* It reads the user without a lock; e, p and cur are None when the field is absent.
ProfileRead(r, e, p, cur) ==
    /\ req[r].pc = "profile"
    /\ e # None \/ p # None
    /\ p = None => cur = None    \* not used
    /\ req' = [req EXCEPT ![r] = [@ EXCEPT !.pc = IF e # None THEN "email" ELSE "password",
                                           !.email = e, !.pwd = p, !.cur = cur,
                                           !.seen = users[req[r].user].pwd]]
    /\ typed' = IF p = None THEN typed ELSE typed \cup {p}
    /\ UNCHANGED <<setup, users, hashes, tokens, rowLock, reqFrame>>

\* UpdateUserEmail locks the row and returns it as it is now; nobody else sees the change
\* until the commit.
ProfileEmailMutant(r) ==
    /\ req[r].pc = "email"
    /\ rowLock = None
    /\ ~EmailInUse(req[r].email, req[r].user)
    /\ rowLock' = r
    /\ req' = [req EXCEPT ![r].pc = "password"]
    /\ UNCHANGED <<setup, users, hashes, tokens, typed, reqFrame>>
ProfileEmail(r) ==
    /\ req[r].pc = "email"
    /\ rowLock = None
    /\ ~EmailInUse(req[r].email, req[r].user)
    /\ rowLock' = r
    /\ req' = [req EXCEPT ![r] = [@ EXCEPT !.pc = "password",
                                           !.seen = UpdateUserEmail(req[r].user, req[r].email).pwd]]
    /\ UNCHANGED <<setup, users, hashes, tokens, typed, reqFrame>>

\* The presented password is compared with the row the request has.
CurrentPasswordValid(q) == q.cur # None /\ CheckPasswordHash(q.cur, q.seen)

\* UpdateUserPassword writes only the password, to the row as it is now, ...
ProfileCommit(r) ==
    LET q == req[r]
        now == IF rowLock = r THEN UpdateUserEmail(q.user, q.email) ELSE users[q.user]
    IN  /\ q.pc = "password"
        /\ rowLock \in {None, r}
        /\ rowLock' = None
        /\ \/ /\ q.pwd = None
              /\ users' = [users EXCEPT ![q.user] = now]
              /\ hashes' = hashes
              /\ req' = NotAlone([req EXCEPT ![r] = NoRequest])
           \/ /\ q.pwd # None
              /\ CurrentPasswordValid(q)
              /\ hashes < MaxHash
              /\ users' = [users EXCEPT ![q.user] = UpdateUserPassword(now, q.pwd)]
              /\ hashes' = hashes + 1
              /\ req' = NotAlone([req EXCEPT ![r] = Issuing(q.user)])
        /\ UNCHANGED <<setup, tokens, typed, reqFrame>>

-----------------------------------------------------------------------------
BootNext(i) ==
    \/ BootRead(i)
    \/ BootEnsure(i)
    \/ BootLook(i)
    \/ BootCreate(i)
    \/ BootPrint(i)
    \/ Crash(i)

RequestNext(r) ==
    \/ \E u \in UserIds, tok \in tokens, pc \in {"setup", "profile"} : Authenticate(r, u, tok, pc)
    \/ \E e \in Emails, p \in KnownPasswords : CompleteRead(r, e, p)
    \/ CompleteCommit(r)
    \/ RequestFail(r)
    \/ IssueAccessToken(r)
    \/ \E e \in Emails \cup {None}, p, c \in KnownPasswords \cup {None} :
           ProfileRead(r, e, p, c)
    \/ ProfileEmail(r)
    \/ ProfileCommit(r)

Next ==
    \/ \E i \in Instances : BootNext(i)
    \/ \E u \in UserIds, e \in Emails, p \in KnownPasswords : Login(u, e, p)
    \/ \E r \in Requests : RequestNext(r)

Spec == Init /\ [][Next]_vars

-----------------------------------------------------------------------------
(* Properties *)

\* There is never a second administrator: an instance that found none before another one
\* created it, and goes on after the setup has moved that one to another e-mail, would get
\* past the unique index; only the wait in Ensure prevents it.
OneAdmin == \A u, v \in UserIds : users[u].live /\ users[v].live => u = v

\* Once the setup is done, the account opens with a password that somebody typed into the setup
\* or the profile page, whichever of the overlapping requests wrote last: the password that
\* TryInitialSetup generated works only if it was typed there again, which nothing refuses.
BootstrapPasswordDies ==
    setup = "done" => \A u \in UserIds : users[u].live => users[u].pwd \in typed

\* The setting and the administrator are committed together.
AdminWithSetting == setup = "absent" <=> \A u \in UserIds : ~users[u].live

\* The transactions of TryInitialSetup: one at most has inserted the setting, and only that one
\* creates an administrator.
BootsOK ==
    \A i \in Instances :
        /\ boot[i].inserted => setup = "absent" /\ boot[i].pc \in {"ensured", "create"}
        /\ boot[i].pc = "ensured" => boot[i].inserted \/ setup # "absent"
        /\ boot[i].pc = "create" => boot[i].inserted
        /\ \A j \in Instances : boot[i].inserted /\ boot[j].inserted => i = j

\* What a request knows at its step.
RequestOK(r, q) ==
    /\ q.pc # "idle" => q.user \in UserIds /\ users[q.user].live
    /\ q.pc = "complete" => q.pwd \in typed /\ q.email \in Emails
    /\ q.pc \in {"email", "password"} /\ q.pwd # None => q.pwd \in typed
    /\ q.pc = "email" => q.email \in Emails
    /\ q.pc \in {"email", "password"} /\ q.alone => q.seen = users[q.user].pwd
    /\ rowLock = r => /\ q.pc = "password"
                      /\ q.email \in Emails
                      /\ q.seen = users[q.user].pwd
RequestsOK == \A r \in Requests : RequestOK(r, req[r])

\* The next hash is new to the rows and to the tokens.
HashesUsed ==
    /\ \A u \in UserIds : users[u].hash <= hashes
    /\ \A tok \in tokens : tok[2] <= hashes

\* The inductive invariant.
AccountsInv ==
    /\ TypeOK
    /\ OneAdmin
    /\ BootstrapPasswordDies
    /\ HashesUsed
    /\ AdminWithSetting
    /\ BootsOK
    /\ RequestsOK

\* A password is replaced by someone who knows it: UpdateProfile's comparison is with the
\* row of its first read, which may be stale when another request has committed since,
\* but not when the request has locked the row by changing the e-mail.
ReplacedKnowingly ==
    [][\A r \in Requests :
          /\ req[r].pc = "password"
          /\ req'[r].pc = "issue"
          /\ req[r].alone \/ rowLock = r
          => req[r].cur = users[req[r].user].pwd]_vars

\* Whoever stores a new password ends every session: no token that was given out before, for
\* the printed password, for another setup that overlapped this one or for a profile change,
\* is accepted after the commit.
SessionsEnd ==
    [][\A r \in Requests :
          req[r].pc \in {"complete", "password"} /\ req'[r].pc = "issue" =>
              LET u == req[r].user IN \A tok \in tokens : tok # <<u, users'[u].hash>>]_vars

=============================================================================
