--------------------------- MODULE AccountsProofs ---------------------------
(***************************************************************************)
(* Proofs about Accounts, for any number of server instances, requests,      *)
(* passwords and crashes.  AccountsInv is inductive; the theorems read the   *)
(* properties off it.                                                       *)
(***************************************************************************)
EXTENDS Accounts, TLAPS

LEMMA RecordTypes ==
    /\ NoUser \in User
    /\ Off \in Boot
    /\ NoRequest \in Request
<1>1. NoUser \in User
  BY AccountsAssumption DEF NoUser, User
<1> QED
  BY <1>1 DEF Off, Boot, NoRequest, Request

\* No administrator and no setting at the start.
LEMMA InitInv == Init => AccountsInv
<1> SUFFICES ASSUME Init PROVE AccountsInv
  OBVIOUS
<1>1. TypeOK
  <2>1. users \in [UserIds -> User] /\ boot \in [Instances -> Boot] /\ req \in [Requests -> Request]
    BY RecordTypes DEF Init, UserIds
  <2>2. hashes \in 0..MaxHash /\ crashes \in 0..MaxCrashes
    BY AccountsAssumption DEF Init
  <2> QED
    BY <2>1, <2>2 DEF Init, TypeOK
<1>2. OneAdmin /\ BootstrapPasswordDies /\ AdminWithSetting
  BY DEF Init, OneAdmin, BootstrapPasswordDies, AdminWithSetting, NoUser
<1>3. HashesUsed
  BY DEF Init, HashesUsed, NoUser
<1>4. BootsOK
  BY DEF Init, BootsOK, Off
<1>5. RequestsOK
  BY AccountsAssumption DEF Init, RequestsOK, RequestOK, NoRequest
<1> QED
  BY <1>1, <1>2, <1>3, <1>4, <1>5 DEF AccountsInv

-----------------------------------------------------------------------------
(* TryInitialSetup *)

\* What an instance may become while the rows stay.
BootAllowed(i, b) ==
    /\ b \in Boot
    /\ b.inserted => /\ setup = "absent"
                     /\ b.pc \in {"ensured", "create"}
                     /\ \A j \in Instances \ {i} : ~boot[j].inserted
    /\ b.pc = "ensured" => b.inserted \/ setup # "absent"
    /\ b.pc = "create" => b.inserted

LEMMA BootFrame ==
    ASSUME AccountsInv, NEW i \in Instances, NEW b, BootAllowed(i, b),
           boot' = [boot EXCEPT ![i] = b],
           printed' \subseteq Instances, crashes' \in 0..MaxCrashes,
           UNCHANGED <<setup, users, hashes, bootFrame>>
    PROVE  AccountsInv'
<1>1. TypeOK'
  BY DEF AccountsInv, TypeOK, BootAllowed, bootFrame
<1>2. boot'[i] = b /\ \A j \in Instances \ {i} : boot'[j] = boot[j]
  BY DEF AccountsInv, TypeOK
<1>3. BootsOK'
  BY <1>2 DEF AccountsInv, BootsOK, BootAllowed
<1>4. OneAdmin' /\ BootstrapPasswordDies' /\ AdminWithSetting' /\ RequestsOK'
  BY DEF AccountsInv, OneAdmin, BootstrapPasswordDies, AdminWithSetting, RequestsOK, RequestOK,
     bootFrame
<1>5. HashesUsed'
  BY DEF AccountsInv, HashesUsed, bootFrame
<1> QED
  BY <1>1, <1>3, <1>4, <1>5 DEF AccountsInv

\* An instance that holds nothing may be at any step before its insert and after its commit.
LEMMA BootIdle ==
    ASSUME NEW i, NEW pc \in {"off", "read", "print", "up"}
    PROVE  BootAllowed(i, [pc |-> pc, inserted |-> FALSE])
BY DEF BootAllowed, Boot

LEMMA BootMoves ==
    ASSUME AccountsInv, NEW i \in Instances, boot[i].pc \notin {"ensured", "create"},
           NEW pc \in {"off", "read", "print", "up"}
    PROVE  BootAllowed(i, [boot[i] EXCEPT !.pc = pc])
<1> DEFINE b == [boot[i] EXCEPT !.pc = pc]
<1>1. boot[i] \in Boot /\ ~boot[i].inserted
  BY DEF AccountsInv, TypeOK, BootsOK
<1>2. b \in Boot /\ b.pc = pc /\ ~b.inserted
  BY <1>1 DEF Boot
<1> HIDE DEF b
<1>3. BootAllowed(i, b)
  BY <1>2 DEF BootAllowed
<1> QED
  BY <1>3 DEF b

LEMMA BootReadInv ==
    ASSUME AccountsInv, NEW i \in Instances, BootRead(i)
    PROVE  AccountsInv'
<1>1. PICK pc \in {"read", "up"} : boot' = [boot EXCEPT ![i] = [boot[i] EXCEPT !.pc = pc]]
  BY DEF BootRead, AccountsInv, TypeOK
<1>2. BootAllowed(i, [boot[i] EXCEPT !.pc = pc])
  BY BootMoves DEF BootRead
<1>3. UNCHANGED <<setup, users, hashes, printed, crashes, bootFrame>>
  BY DEF BootRead
<1> QED
  BY <1>1, <1>2, <1>3, BootFrame DEF AccountsInv, TypeOK

LEMMA BootPrintInv ==
    ASSUME AccountsInv, NEW i \in Instances, BootPrint(i)
    PROVE  AccountsInv'
<1>1. boot' = [boot EXCEPT ![i] = [boot[i] EXCEPT !.pc = "up"]]
  BY DEF BootPrint, AccountsInv, TypeOK
<1>2. BootAllowed(i, [boot[i] EXCEPT !.pc = "up"])
  BY BootMoves DEF BootPrint
<1>3. /\ printed' \subseteq Instances
      /\ UNCHANGED <<setup, users, hashes, crashes, bootFrame>>
  BY DEF BootPrint, AccountsInv, TypeOK
<1> QED
  BY <1>1, <1>2, <1>3, BootFrame DEF AccountsInv, TypeOK

LEMMA CrashInv ==
    ASSUME AccountsInv, NEW i \in Instances, Crash(i)
    PROVE  AccountsInv'
<1>1. BootAllowed(i, Off)
  BY BootIdle DEF Off
<1>3. crashes' \in 0..MaxCrashes
  BY AccountsAssumption DEF Crash, AccountsInv, TypeOK
<1>4. /\ boot' = [boot EXCEPT ![i] = Off] /\ printed' \subseteq Instances
      /\ UNCHANGED <<setup, users, hashes, bootFrame>>
  BY DEF Crash, AccountsInv, TypeOK
<1> QED
  BY <1>1, <1>3, <1>4, BootFrame

LEMMA BootEnsureInv ==
    ASSUME AccountsInv, NEW i \in Instances, BootEnsure(i)
    PROVE  AccountsInv'
<1> DEFINE b == [pc |-> "ensured", inserted |-> setup = "absent"]
<1>1. (setup = "absent") \in BOOLEAN
  OBVIOUS
<1>2. b \in Boot
  BY <1>1 DEF Boot
<1>3. b.pc = "ensured" /\ b.inserted = (setup = "absent")
  OBVIOUS
<1>4. boot' = [boot EXCEPT ![i] = b] /\ UNCHANGED <<setup, users, hashes, printed, crashes, bootFrame>>
  BY DEF BootEnsure
<1> HIDE DEF b
<1>5. BootAllowed(i, b)
  BY <1>2, <1>3 DEF BootAllowed, BootEnsure, EnsureWaits
<1> QED
  BY <1>4, <1>5, BootFrame DEF AccountsInv, TypeOK

\* Without an administrator there is no setting either, so the insert was this transaction's.
LEMMA BootLookInv ==
    ASSUME AccountsInv, NEW i \in Instances, BootLook(i)
    PROVE  AccountsInv'
<1>1. UNCHANGED <<setup, users, hashes, printed, crashes, bootFrame>>
  BY DEF BootLook
<1>2. CASE GetAdminUser
  <2>1. boot' = [boot EXCEPT ![i] = [pc |-> "up", inserted |-> FALSE]]
    BY <1>2 DEF BootLook
  <2> QED
    BY <1>1, <2>1, BootIdle, BootFrame DEF AccountsInv, TypeOK
<1>3. CASE ~GetAdminUser
  <2> DEFINE b == [boot[i] EXCEPT !.pc = "create"]
  <2>1. boot' = [boot EXCEPT ![i] = b]
    BY <1>3 DEF BootLook
  <2>2. boot[i] \in Boot /\ boot[i].inserted /\ setup = "absent"
    BY <1>3 DEF GetAdminUser, AccountsInv, TypeOK, AdminWithSetting, BootsOK, BootLook
  <2>3. b \in Boot /\ b.pc = "create" /\ b.inserted
    BY <2>2 DEF Boot
  <2> HIDE DEF b
  <2>4. BootAllowed(i, b)
    BY <2>2, <2>3 DEF BootAllowed, AccountsInv, BootsOK
  <2> QED
    BY <1>1, <2>1, <2>4, BootFrame DEF AccountsInv, TypeOK
<1> QED
  BY <1>2, <1>3

LEMMA BootCreateInv ==
    ASSUME AccountsInv, NEW i \in Instances, BootCreate(i)
    PROVE  AccountsInv'
<1>1. boot[i].inserted /\ setup = "absent" /\ \A u \in UserIds : ~users[u].live
  BY DEF BootCreate, AccountsInv, BootsOK, AdminWithSetting
<1>2. ~EmailInUse(BootEmail, i)
  BY <1>1 DEF EmailInUse
<1>3. /\ hashes < MaxHash
      /\ users' = [users EXCEPT ![i] = CreateAdminUser(i)]
      /\ hashes' = hashes + 1
      /\ setup' = "pending"
      /\ boot' = [boot EXCEPT ![i] = [pc |-> "print", inserted |-> FALSE]]
      /\ UNCHANGED <<printed, crashes, bootFrame>>
  BY <1>1, <1>2 DEF BootCreate
<1>4. i \in UserIds /\ i \in AllPasswords /\ hashes + 1 \in 0..MaxHash
  BY <1>3, AccountsAssumption DEF UserIds, AllPasswords, AccountsInv, TypeOK
<1>5. CreateAdminUser(i) \in User /\ CreateAdminUser(i).live
  BY <1>4, AccountsAssumption DEF CreateAdminUser, User
<1>6. users'[i] = CreateAdminUser(i) /\ \A u \in UserIds \ {i} : users'[u] = users[u]
  BY <1>3, <1>4 DEF AccountsInv, TypeOK
<1>7. boot'[i] = [pc |-> "print", inserted |-> FALSE] /\ \A j \in Instances \ {i} : boot'[j] = boot[j]
  BY <1>3 DEF AccountsInv, TypeOK
<1>8. TypeOK'
  BY <1>3, <1>4, <1>5 DEF AccountsInv, TypeOK, Boot, bootFrame
<1>9. OneAdmin' /\ BootstrapPasswordDies' /\ AdminWithSetting'
  BY <1>1, <1>3, <1>4, <1>5, <1>6 DEF OneAdmin, BootstrapPasswordDies, AdminWithSetting
<1>10. BootsOK'
  BY <1>1, <1>3, <1>7 DEF AccountsInv, BootsOK
<1>11. RequestsOK'
  <2>1. \A r \in Requests : req[r].pc = "idle"
    BY <1>1 DEF AccountsInv, RequestsOK, RequestOK
  <2>2. \A r \in Requests : rowLock # r
    BY <2>1 DEF AccountsInv, RequestsOK, RequestOK
  <2> QED
    BY <1>3, <2>1, <2>2 DEF RequestsOK, RequestOK, bootFrame
<1>12. HashesUsed'
  <2>1. CreateAdminUser(i).hash = hashes' /\ hashes <= hashes' /\ hashes \in Nat /\ hashes' \in Nat
    BY <1>3, AccountsAssumption DEF CreateAdminUser, AccountsInv, TypeOK
  <2>2. \A u \in UserIds : users[u].hash \in Nat /\ users[u].hash <= hashes
    BY AccountsAssumption DEF AccountsInv, TypeOK, User, HashesUsed
  <2>3. \A tok \in tokens : tok[2] \in Nat /\ tok[2] <= hashes
    BY AccountsAssumption DEF AccountsInv, TypeOK, HashesUsed
  <2> QED
    BY <1>3, <1>6, <2>1, <2>2, <2>3 DEF HashesUsed, bootFrame
<1> QED
  BY <1>8, <1>9, <1>10, <1>11, <1>12 DEF AccountsInv

-----------------------------------------------------------------------------
(* Requests that change no row *)

LEMMA RequestFrame ==
    ASSUME AccountsInv, NEW r \in Requests, NEW q \in Request,
           req' = [req EXCEPT ![r] = q],
           tokens' \subseteq UserIds \X (0..MaxHash),
           rowLock' \in Requests \cup {None}, rowLock' \in {r, rowLock, None},
           tokens' \subseteq tokens \cup {<<u, users[u].hash>> : u \in UserIds},
           typed \subseteq typed', typed' \subseteq AllPasswords,
           RequestOK(r, q)',
           UNCHANGED <<setup, users, hashes, reqFrame>>
    PROVE  AccountsInv'
<1>1. TypeOK'
  BY DEF AccountsInv, TypeOK, reqFrame
<1>2. req'[r] = q /\ \A s \in Requests \ {r} : req'[s] = req[s]
  BY DEF AccountsInv, TypeOK
<1>3. \A s \in Requests \ {r} : rowLock' = s => rowLock = s
  BY AccountsAssumption
<1>4. RequestsOK'
  BY <1>2, <1>3 DEF AccountsInv, RequestsOK, RequestOK
<1>5. OneAdmin' /\ BootstrapPasswordDies' /\ AdminWithSetting' /\ BootsOK'
  BY DEF AccountsInv, OneAdmin, BootstrapPasswordDies, AdminWithSetting, BootsOK, reqFrame
<1>6. HashesUsed'
  BY DEF AccountsInv, HashesUsed
<1> QED
  BY <1>1, <1>4, <1>5, <1>6 DEF AccountsInv

\* A token is signed with a stored hash.
LEMMA TokenType ==
    ASSUME AccountsInv, NEW u \in UserIds
    PROVE  /\ tokens \cup {SignAccessToken(u)} \subseteq UserIds \X (0..MaxHash)
           /\ \A tok \in tokens \cup {SignAccessToken(u)} : tok[2] <= hashes
           /\ tokens \cup {SignAccessToken(u)} \subseteq tokens \cup {<<v, users[v].hash>> : v \in UserIds}
BY DEF AccountsInv, TypeOK, SignAccessToken, User, HashesUsed

LEMMA LoginInv ==
    ASSUME AccountsInv, NEW u \in UserIds, NEW e, NEW p, Login(u, e, p)
    PROVE  AccountsInv'
<1>1. TypeOK'
  BY TokenType DEF Login, AccountsInv, TypeOK, reqFrame
<1>2. UNCHANGED <<setup, users, hashes, req, rowLock, typed, boot>>
  BY DEF Login, reqFrame
<1>3. HashesUsed'
  BY <1>2, TokenType DEF Login, AccountsInv, HashesUsed
<1> QED
  BY <1>1, <1>2, <1>3 DEF AccountsInv, OneAdmin, BootstrapPasswordDies, AdminWithSetting, BootsOK,
     RequestsOK, RequestOK

LEMMA AuthenticateInv ==
    ASSUME AccountsInv, NEW r \in Requests, NEW u \in UserIds, NEW tok,
           NEW pc \in {"setup", "profile"}, Authenticate(r, u, tok, pc)
    PROVE  AccountsInv'
<1> DEFINE q == [NoRequest EXCEPT !.pc = pc, !.user = u]
<1>1. q \in Request /\ q.pc = pc /\ q.user = u
  BY RecordTypes DEF Request, NoRequest
<1>2. /\ req' = [req EXCEPT ![r] = q]
      /\ UNCHANGED <<setup, users, hashes, tokens, rowLock, typed, reqFrame>>
  BY DEF Authenticate
<1> HIDE DEF q
<1>3. rowLock # r
  BY DEF Authenticate, AccountsInv, RequestsOK, RequestOK
<1>4. RequestOK(r, q)'
  BY <1>1, <1>2, <1>3 DEF RequestOK, Authenticate, AuthenticateUser, GetUserByID
<1> QED
  BY <1>1, <1>2, <1>4, RequestFrame DEF AccountsInv, TypeOK

\* A request that has ended, or is left to give out a token.
LEMMA RequestEnds ==
    ASSUME AccountsInv, NEW r \in Requests, rowLock' # r
    PROVE  /\ NoRequest \in Request
           /\ RequestOK(r, NoRequest)'
BY RecordTypes DEF RequestOK, NoRequest

\* The records of a request that has read the setting, read the user, changed the e-mail.
Completing(q, e, p) == [q EXCEPT !.pc = "complete", !.email = e, !.pwd = p]
Profiling(q, pc, e, p, c, s) ==
    [q EXCEPT !.pc = pc, !.email = e, !.pwd = p, !.cur = c, !.seen = s]
Locking(q, s) == [q EXCEPT !.pc = "password", !.seen = s]

LEMMA CompletingRecord ==
    ASSUME NEW q \in Request, NEW e \in Emails, NEW p \in AllPasswords
    PROVE  /\ Completing(q, e, p) \in Request
           /\ Completing(q, e, p).pc = "complete"
           /\ Completing(q, e, p).email = e
           /\ Completing(q, e, p).pwd = p
           /\ Completing(q, e, p).user = q.user
BY DEF Completing, Request

LEMMA ProfilingRecord ==
    ASSUME NEW q \in Request, NEW pc \in {"email", "password"}, NEW e \in Emails \cup {None},
           NEW p \in AllPasswords \cup {None}, NEW c \in AllPasswords \cup {None},
           NEW s \in AllPasswords \cup {None}
    PROVE  /\ Profiling(q, pc, e, p, c, s) \in Request
           /\ Profiling(q, pc, e, p, c, s).pc = pc
           /\ Profiling(q, pc, e, p, c, s).email = e
           /\ Profiling(q, pc, e, p, c, s).pwd = p
           /\ Profiling(q, pc, e, p, c, s).seen = s
           /\ Profiling(q, pc, e, p, c, s).user = q.user
BY DEF Profiling, Request

LEMMA LockingRecord ==
    ASSUME NEW q \in Request, NEW s \in AllPasswords \cup {None}
    PROVE  /\ Locking(q, s) \in Request
           /\ Locking(q, s).pc = "password"
           /\ Locking(q, s).email = q.email
           /\ Locking(q, s).pwd = q.pwd
           /\ Locking(q, s).seen = s
           /\ Locking(q, s).user = q.user
BY DEF Locking, Request

LEMMA CompleteReadInv ==
    ASSUME AccountsInv, NEW r \in Requests, NEW e \in Emails, NEW p \in KnownPasswords, CompleteRead(r, e, p)
    PROVE  AccountsInv'
<1>1. UNCHANGED <<setup, users, hashes, tokens, rowLock, reqFrame>> /\ p \in typed'
  BY DEF CompleteRead
<1>5. p \in AllPasswords /\ typed \subseteq typed' /\ typed' \subseteq AllPasswords
  BY DEF CompleteRead, KnownPasswords, AllPasswords, AccountsInv, TypeOK
<1>2. rowLock # r
  BY DEF CompleteRead, AccountsInv, RequestsOK, RequestOK
<1>3. CASE setup = "done"
  <2>1. req' = [req EXCEPT ![r] = NoRequest]
    BY <1>3 DEF CompleteRead
  <2> QED
    BY <1>1, <1>2, <1>5, <2>1, RequestEnds, RequestFrame DEF AccountsInv, TypeOK
<1>4. CASE setup # "done"
  <2>1. req' = [req EXCEPT ![r] = Completing(req[r], e, p)] /\ req[r] \in Request
    BY <1>4 DEF CompleteRead, Completing, AccountsInv, TypeOK
  <2>2. PICK q \in Request :
           /\ q = Completing(req[r], e, p)
           /\ q.pc = "complete" /\ q.email = e /\ q.pwd = p /\ q.user = req[r].user
    BY <1>5, <2>1, CompletingRecord
  <2>3. RequestOK(r, q)'
    BY <1>1, <1>2, <1>4, <2>2 DEF RequestOK, AccountsInv, RequestsOK, CompleteRead
  <2> QED
    BY <1>1, <1>5, <2>1, <2>2, <2>3, RequestFrame DEF AccountsInv, TypeOK
<1> QED
  BY <1>3, <1>4

LEMMA RequestFailInv ==
    ASSUME AccountsInv, NEW r \in Requests, RequestFail(r)
    PROVE  AccountsInv'
<1>1. /\ req' = [req EXCEPT ![r] = NoRequest]
      /\ UNCHANGED <<setup, users, hashes, tokens, typed, reqFrame>>
  BY DEF RequestFail
<1>2. /\ rowLock' # r /\ rowLock' \in {r, rowLock, None} /\ rowLock' \in Requests \cup {None}
  BY AccountsAssumption DEF RequestFail, AccountsInv, TypeOK
<1> QED
  BY <1>1, <1>2, RequestEnds, RequestFrame DEF AccountsInv, TypeOK

LEMMA IssueAccessTokenInv ==
    ASSUME AccountsInv, NEW r \in Requests, IssueAccessToken(r)
    PROVE  AccountsInv'
<1>1. req[r].user \in UserIds /\ rowLock # r
  BY DEF IssueAccessToken, AccountsInv, RequestsOK, RequestOK
<1>2. /\ tokens' \subseteq UserIds \X (0..MaxHash)
      /\ tokens' \subseteq tokens \cup {<<v, users[v].hash>> : v \in UserIds}
  BY <1>1, TokenType DEF IssueAccessToken
<1>3. /\ req' = [req EXCEPT ![r] = NoRequest]
      /\ UNCHANGED <<setup, users, hashes, rowLock, typed, reqFrame>>
  BY DEF IssueAccessToken
<1> QED
  BY <1>1, <1>2, <1>3, RequestEnds, RequestFrame DEF AccountsInv, TypeOK

LEMMA ProfileReadInv ==
    ASSUME AccountsInv, NEW r \in Requests, NEW e \in Emails \cup {None},
           NEW p \in KnownPasswords \cup {None}, NEW c \in KnownPasswords \cup {None}, ProfileRead(r, e, p, c)
    PROVE  AccountsInv'
<1> DEFINE pc == IF e # None THEN "email" ELSE "password"
           seen == users[req[r].user].pwd
<1>1. req[r] \in Request /\ req[r].user \in UserIds /\ users[req[r].user].live /\ rowLock # r
  BY DEF AccountsInv, TypeOK, RequestsOK, RequestOK, ProfileRead
<1>2. users[req[r].user] \in User
  BY <1>1 DEF AccountsInv, TypeOK
<1>3. seen \in AllPasswords \cup {None} /\ c \in AllPasswords \cup {None} /\ pc \in {"email", "password"}
  BY <1>2 DEF User, KnownPasswords, AllPasswords, AccountsInv, TypeOK
<1>4. pc = "email" => e \in Emails
  OBVIOUS
<1>5. /\ req' = [req EXCEPT ![r] = Profiling(req[r], pc, e, p, c, seen)]
      /\ UNCHANGED <<setup, users, hashes, tokens, rowLock, reqFrame>>
  BY DEF ProfileRead, Profiling
<1>8. p \in AllPasswords \cup {None} /\ typed \subseteq typed' /\ typed' \subseteq AllPasswords
      /\ (p # None => p \in typed')
  BY DEF ProfileRead, KnownPasswords, AllPasswords, AccountsInv, TypeOK
<1> HIDE DEF pc, seen
<1>6. PICK q \in Request :
         /\ q = Profiling(req[r], pc, e, p, c, seen)
         /\ q.pc = pc /\ q.email = e /\ q.pwd = p /\ q.seen = seen /\ q.user = req[r].user
  <2>1. PICK q0 \in Request, pc0 \in {"email", "password"}, c0 \in AllPasswords \cup {None},
             s0 \in AllPasswords \cup {None}, p0 \in AllPasswords \cup {None} : p0 = p /\ q0 = req[r] /\ pc0 = pc /\ c0 = c /\ s0 = seen
    BY <1>1, <1>3, <1>8
  <2>2. Profiling(q0, pc0, e, p0, c0, s0) \in Request
    BY ProfilingRecord
  <2>3. /\ Profiling(q0, pc0, e, p0, c0, s0).pc = pc0
        /\ Profiling(q0, pc0, e, p0, c0, s0).email = e
        /\ Profiling(q0, pc0, e, p0, c0, s0).pwd = p0
        /\ Profiling(q0, pc0, e, p0, c0, s0).seen = s0
        /\ Profiling(q0, pc0, e, p0, c0, s0).user = q0.user
    BY DEF Profiling, Request
  <2> QED
    BY <2>1, <2>2, <2>3
<1>7. RequestOK(r, q)'
  BY <1>1, <1>3, <1>4, <1>5, <1>6, <1>8 DEF RequestOK, seen
<1> QED
  BY <1>5, <1>6, <1>7, <1>8, RequestFrame DEF AccountsInv, TypeOK

LEMMA ProfileEmailInv ==
    ASSUME AccountsInv, NEW r \in Requests, ProfileEmail(r)
    PROVE  AccountsInv'
<1> DEFINE u == req[r].user
<1>1. req[r] \in Request /\ u \in UserIds /\ users[u].live /\ req[r].email \in Emails
  BY DEF AccountsInv, TypeOK, RequestsOK, RequestOK, ProfileEmail
<1>2. users[u] \in User
  BY <1>1 DEF AccountsInv, TypeOK
<1>3. UpdateUserEmail(u, req[r].email).pwd = users[u].pwd /\ users[u].pwd \in AllPasswords \cup {None}
  BY <1>2 DEF UpdateUserEmail, User
<1>4. /\ req' = [req EXCEPT ![r] = Locking(req[r], users[u].pwd)] /\ rowLock' = r
      /\ UNCHANGED <<setup, users, hashes, tokens, typed, reqFrame>>
  BY <1>3 DEF ProfileEmail, Locking
<1>5. PICK q \in Request :
         /\ q = Locking(req[r], users[u].pwd)
         /\ q.pc = "password" /\ q.email = req[r].email /\ q.pwd = req[r].pwd /\ q.seen = users[u].pwd /\ q.user = u
  BY <1>1, <1>3, LockingRecord
<1>7. q.pwd # None => q.pwd \in typed
  BY <1>5 DEF ProfileEmail, AccountsInv, RequestsOK, RequestOK
<1>6. RequestOK(r, q)'
  BY <1>1, <1>4, <1>5, <1>7 DEF RequestOK
<1> QED
  BY <1>4, <1>5, <1>6, RequestFrame DEF AccountsInv, TypeOK

-----------------------------------------------------------------------------
(* Commits *)

\* After a commit a request that has read is not alone; nothing else of it changes.
LEMMA NotAloneRecord ==
    ASSUME NEW q \in [Requests -> Request], NEW s \in Requests
    PROVE  /\ NotAlone(q)[s] \in Request
           /\ NotAlone(q)[s].pc = q[s].pc /\ NotAlone(q)[s].user = q[s].user
           /\ NotAlone(q)[s].email = q[s].email /\ NotAlone(q)[s].pwd = q[s].pwd
           /\ NotAlone(q)[s].seen = q[s].seen
           /\ NotAlone(q)[s].alone => q[s].pc \in Unread
<1> DEFINE b == q[s].alone /\ q[s].pc \in Unread
           q0 == q[s]
           q1 == [q0 EXCEPT !.alone = b]
<1>1. NotAlone(q)[s] = q1
  BY DEF NotAlone
<1>2. b \in BOOLEAN /\ q0 \in Request
  OBVIOUS
<1>3. b => q[s].pc \in Unread
  OBVIOUS
<1> HIDE DEF b, q0
<1>4. q1 \in Request /\ q1.alone = b
  BY <1>2 DEF Request
<1>5. q1.pc = q0.pc /\ q1.user = q0.user /\ q1.email = q0.email /\ q1.pwd = q0.pwd /\ q1.seen = q0.seen
  BY <1>2 DEF Request
<1> HIDE DEF q1
<1> QED
  BY <1>1, <1>3, <1>4, <1>5 DEF q0

LEMMA NotAloneType ==
    ASSUME NEW q \in [Requests -> Request]
    PROVE  NotAlone(q) \in [Requests -> Request]
<1>1. \A s \in Requests : NotAlone(q)[s] \in Request
  BY NotAloneRecord
<1>2. NotAlone(q) = [s \in Requests |-> NotAlone(q)[s]]
  BY DEF NotAlone
<1> QED
  BY <1>1, <1>2

\* A commit writes the row of the one administrator, which stays, when nobody else holds it.
Commits(r, u, row, q) ==
    /\ u \in UserIds /\ users[u].live
    /\ row \in User /\ row.live
    /\ row.pwd \in typed \/ (row.pwd = users[u].pwd /\ setup' = setup)
    /\ row.hash <= hashes' /\ hashes <= hashes'
    /\ q \in Request
    /\ q.pc \in {"idle", "issue"}
    /\ q.pc = "issue" => q.user = u
    /\ rowLock \in {None, r} /\ rowLock' = None
    /\ users' = [users EXCEPT ![u] = row]
    /\ req' = NotAlone([req EXCEPT ![r] = q])
    /\ hashes' \in 0..MaxHash
    /\ setup' \in {setup, "done"}
    /\ tokens' = tokens /\ typed' = typed
    /\ UNCHANGED reqFrame

LEMMA CommitFrame ==
    ASSUME AccountsInv, NEW r \in Requests, NEW u, NEW row, NEW q, Commits(r, u, row, q)
    PROVE  AccountsInv'
<1> USE DEF Commits
<1> DEFINE req1 == [req EXCEPT ![r] = q]
<1>1. req1 \in [Requests -> Request] /\ req1[r] = q /\ \A s \in Requests \ {r} : req1[s] = req[s]
  BY DEF AccountsInv, TypeOK
<1> HIDE DEF req1
<1>2. req' = NotAlone(req1)
  BY DEF req1
<1>3. users'[u] = row /\ \A v \in UserIds \ {u} : users'[v] = users[v]
  BY DEF AccountsInv, TypeOK
<1>4. setup' \in {"absent", "pending", "done"}
  BY DEF AccountsInv, TypeOK
<1>5. TypeOK'
  BY <1>1, <1>2, <1>4, NotAloneType DEF AccountsInv, TypeOK, reqFrame
<1>6. OneAdmin'
  BY <1>3 DEF AccountsInv, OneAdmin
<1>7. \A v \in UserIds : users[v].live => v = u
  BY DEF AccountsInv, OneAdmin
<1>8. setup # "absent" /\ setup' # "absent"
  BY DEF AccountsInv, AdminWithSetting
<1>9. AdminWithSetting'
  BY <1>3, <1>8 DEF AdminWithSetting
<1>10. BootstrapPasswordDies'
  <2> SUFFICES ASSUME (setup = "done")', NEW v \in UserIds, users'[v].live
               PROVE  users'[v].pwd \in typed'
    BY DEF BootstrapPasswordDies
  <2>1. v = u
    BY <1>3, <1>7
  <2>2. setup = "done" => users[u].pwd \in typed
    BY DEF AccountsInv, BootstrapPasswordDies
  <2> QED
    BY <1>3, <2>1, <2>2
<1>11. BootsOK'
  BY <1>8 DEF AccountsInv, BootsOK, reqFrame
<1>12. HashesUsed'
  <2>1. hashes \in Nat /\ hashes' \in Nat /\ \A v \in UserIds : users[v].hash \in Nat /\ users[v].hash <= hashes
    BY AccountsAssumption DEF AccountsInv, TypeOK, User, HashesUsed
  <2>2. \A tok \in tokens : tok[2] \in Nat /\ tok[2] <= hashes
    BY AccountsAssumption DEF AccountsInv, TypeOK, HashesUsed
  <2> QED
    BY <1>3, <2>1, <2>2 DEF HashesUsed
<1>13. RequestsOK'
  <2> SUFFICES ASSUME NEW s \in Requests PROVE RequestOK(s, req[s])'
    BY DEF RequestsOK
  <2>1. rowLock' # s
    BY AccountsAssumption
  <2>2. /\ req'[s].pc = req1[s].pc /\ req'[s].user = req1[s].user
        /\ req'[s].email = req1[s].email /\ req'[s].pwd = req1[s].pwd
        /\ req'[s].alone => req1[s].pc \in Unread
    BY <1>1, <1>2, NotAloneRecord
  <2>3. req1[s].pc # "idle" => req1[s].user = u
    BY <1>1, <1>7 DEF AccountsInv, RequestsOK, RequestOK
  <2>4. /\ req1[s].pc = "complete" => req1[s].pwd \in typed /\ req1[s].email \in Emails
        /\ req1[s].pc \in {"email", "password"} /\ req1[s].pwd # None => req1[s].pwd \in typed
        /\ req1[s].pc = "email" => req1[s].email \in Emails
    BY <1>1 DEF AccountsInv, RequestsOK, RequestOK
  <2> QED
    BY <1>3, <2>1, <2>2, <2>3, <2>4 DEF RequestOK, Unread
<1> QED
  BY <1>5, <1>6, <1>9, <1>10, <1>11, <1>12, <1>13 DEF AccountsInv

LEMMA IssuingRecord ==
    ASSUME NEW u \in UserIds
    PROVE  Issuing(u) \in Request /\ Issuing(u).pc = "issue" /\ Issuing(u).user = u
BY RecordTypes DEF Issuing, NoRequest, Request

\* The rows that the updates write.
LEMMA CompletedRow ==
    ASSUME NEW u, users[u] \in User, NEW e \in Emails, NEW p \in AllPasswords, hashes + 1 \in 0..MaxHash
    PROVE  /\ CompleteInitialSetupForUser(u, e, p) \in User
           /\ CompleteInitialSetupForUser(u, e, p).live = users[u].live
           /\ CompleteInitialSetupForUser(u, e, p).pwd = p
           /\ CompleteInitialSetupForUser(u, e, p).hash = hashes + 1
<1> DEFINE row == users[u]
           h == hashes + 1
<1>1. row \in User /\ h \in 0..MaxHash
  OBVIOUS
<1> HIDE DEF row, h
<1>2. /\ [row EXCEPT !.email = e, !.pwd = p, !.hash = h] \in User
      /\ [row EXCEPT !.email = e, !.pwd = p, !.hash = h].live = row.live
      /\ [row EXCEPT !.email = e, !.pwd = p, !.hash = h].pwd = p
      /\ [row EXCEPT !.email = e, !.pwd = p, !.hash = h].hash = h
  BY <1>1 DEF User, AllPasswords
<1> QED
  BY <1>2 DEF row, h, CompleteInitialSetupForUser

LEMMA PasswordRow ==
    ASSUME NEW row \in User, NEW p \in AllPasswords, hashes + 1 \in 0..MaxHash
    PROVE  /\ UpdateUserPassword(row, p) \in User
           /\ UpdateUserPassword(row, p).live = row.live
           /\ UpdateUserPassword(row, p).pwd = p
           /\ UpdateUserPassword(row, p).hash = hashes + 1
<1> DEFINE h == hashes + 1
<1>1. h \in 0..MaxHash
  OBVIOUS
<1> HIDE DEF h
<1>2. /\ [row EXCEPT !.pwd = p, !.hash = h] \in User
      /\ [row EXCEPT !.pwd = p, !.hash = h].live = row.live
      /\ [row EXCEPT !.pwd = p, !.hash = h].pwd = p
      /\ [row EXCEPT !.pwd = p, !.hash = h].hash = h
  BY <1>1 DEF User, AllPasswords
<1> QED
  BY <1>2 DEF h, UpdateUserPassword

LEMMA CompleteCommitInv ==
    ASSUME AccountsInv, NEW r \in Requests, CompleteCommit(r)
    PROVE  AccountsInv'
<1> DEFINE u == req[r].user
           e == req[r].email
           p == req[r].pwd
           row == CompleteInitialSetupForUser(u, e, p)
<1>1. u \in UserIds /\ users[u].live /\ e \in Emails /\ p \in typed /\ p \in AllPasswords /\ users[u] \in User
  BY DEF CompleteCommit, AccountsInv, TypeOK, RequestsOK, RequestOK
<1>2. hashes + 1 \in 0..MaxHash
  BY AccountsAssumption DEF CompleteCommit, AccountsInv, TypeOK
<1>3. row \in User /\ row.live /\ row.pwd = p /\ row.hash = hashes + 1
  BY <1>1, <1>2, CompletedRow
<1>4. hashes \in Nat
  BY AccountsAssumption DEF AccountsInv, TypeOK
<1>5. /\ rowLock = None /\ rowLock' = None /\ setup' = "done" /\ hashes' = hashes + 1
      /\ users' = [users EXCEPT ![u] = row]
      /\ req' = NotAlone([req EXCEPT ![r] = Issuing(u)])
      /\ UNCHANGED <<tokens, typed, reqFrame>>
  BY DEF CompleteCommit
<1>6. Issuing(u) \in Request /\ Issuing(u).pc = "issue" /\ Issuing(u).user = u
  BY <1>1, IssuingRecord
<1> HIDE DEF u, e, p, row
<1>7. Commits(r, u, row, Issuing(u))
  BY <1>1, <1>2, <1>3, <1>4, <1>5, <1>6 DEF Commits
<1> QED
  BY <1>7, CommitFrame

\* The row that UpdateProfile writes: a row it has locked has the new e-mail.
LEMMA ProfileRow ==
    ASSUME AccountsInv, NEW r \in Requests, req[r].pc = "password",
           NEW now, now = IF rowLock = r THEN UpdateUserEmail(req[r].user, req[r].email)
                                         ELSE users[req[r].user]
    PROVE  now \in User /\ now.live /\ now.pwd = users[req[r].user].pwd /\ now.hash = users[req[r].user].hash
<1>1. req[r].user \in UserIds /\ users[req[r].user].live /\ users[req[r].user] \in User
  BY DEF AccountsInv, TypeOK, RequestsOK, RequestOK
<1>2. CASE rowLock = r
  <2>1. req[r].email \in Emails
    BY <1>2 DEF AccountsInv, RequestsOK, RequestOK
  <2>2. now = [users[req[r].user] EXCEPT !.email = req[r].email]
    BY <1>2 DEF UpdateUserEmail
  <2> QED
    BY <1>1, <2>1, <2>2 DEF User
<1> QED
  BY <1>1, <1>2

LEMMA ProfileCommitInv ==
    ASSUME AccountsInv, NEW r \in Requests, ProfileCommit(r)
    PROVE  AccountsInv'
<1> DEFINE u == req[r].user
           p == req[r].pwd
           now == IF rowLock = r THEN UpdateUserEmail(req[r].user, req[r].email)
                                 ELSE users[req[r].user]
           row == UpdateUserPassword(now, p)
<1>1. req[r].pc = "password" /\ rowLock \in {None, r} /\ rowLock' = None
      /\ UNCHANGED <<setup, tokens, typed, reqFrame>>
  BY DEF ProfileCommit
<1>2. now \in User /\ now.live /\ now.pwd = users[u].pwd /\ now.hash = users[u].hash
  BY <1>1, ProfileRow
<1>6. hashes \in Nat
  BY AccountsAssumption DEF AccountsInv, TypeOK
<1>3. u \in UserIds /\ users[u].live /\ p \in AllPasswords \cup {None} /\ (p # None => p \in typed)
  BY <1>1 DEF AccountsInv, TypeOK, Request, RequestsOK, RequestOK
<1>4. CASE p = None
  <2>1. /\ users' = [users EXCEPT ![u] = now] /\ hashes' = hashes
        /\ req' = NotAlone([req EXCEPT ![r] = NoRequest])
    BY <1>4 DEF ProfileCommit
  <2>2. NoRequest.pc = "idle" /\ NoRequest.user = None
    BY DEF NoRequest
  <2>3. hashes' \in 0..MaxHash
    BY <2>1 DEF AccountsInv, TypeOK
  <2> HIDE DEF u, p, now, row
  <2>4. setup' = setup /\ now.pwd = users[u].pwd /\ now.hash <= hashes /\ hashes <= hashes
    BY <1>1, <1>2, <1>3, <1>6 DEF AccountsInv, HashesUsed
  <2>5. Commits(r, u, now, NoRequest)
    BY <1>1, <1>2, <1>3, <2>1, <2>2, <2>3, <2>4, RecordTypes DEF Commits
  <2> QED
    BY <2>5, CommitFrame
<1>5. CASE p # None
  <2>1. /\ users' = [users EXCEPT ![u] = row] /\ hashes' = hashes + 1 /\ hashes < MaxHash
        /\ req' = NotAlone([req EXCEPT ![r] = Issuing(u)])
    BY <1>5 DEF ProfileCommit
  <2>2. hashes' \in 0..MaxHash
    BY <2>1, AccountsAssumption DEF AccountsInv, TypeOK
  <2>3. p \in AllPasswords /\ p \in typed
    BY <1>3, <1>5
  <2> HIDE DEF u, p, now
  <2>4. row \in User /\ row.live /\ row.pwd = p /\ row.hash = hashes + 1
    BY <1>2, <2>1, <2>2, <2>3, PasswordRow
  <2> HIDE DEF row
  <2>5. setup' = setup /\ row.pwd \in typed /\ row.hash <= hashes' /\ hashes <= hashes'
    BY <1>1, <1>6, <2>1, <2>3, <2>4
  <2>6. Issuing(u) \in Request /\ Issuing(u).pc = "issue" /\ Issuing(u).user = u
    BY <1>3, IssuingRecord
  <2>7. Commits(r, u, row, Issuing(u))
    BY <1>1, <1>3, <2>1, <2>2, <2>4, <2>5, <2>6 DEF Commits
  <2> QED
    BY <2>7, CommitFrame
<1> QED
  BY <1>4, <1>5

-----------------------------------------------------------------------------
(* The theorems *)

LEMMA BootNextInv ==
    ASSUME AccountsInv, NEW i \in Instances, BootNext(i)
    PROVE  AccountsInv'
BY BootReadInv, BootEnsureInv, BootLookInv, BootCreateInv, BootPrintInv, CrashInv DEF BootNext

LEMMA RequestNextInv ==
    ASSUME AccountsInv, NEW r \in Requests, RequestNext(r)
    PROVE  AccountsInv'
BY AuthenticateInv, CompleteReadInv, CompleteCommitInv, RequestFailInv, IssueAccessTokenInv,
   ProfileReadInv, ProfileEmailInv, ProfileCommitInv DEF RequestNext

LEMMA StepInv == AccountsInv /\ [Next]_vars => AccountsInv'
<1> SUFFICES ASSUME AccountsInv, [Next]_vars PROVE AccountsInv'
  OBVIOUS
<1>1. CASE Next
  BY <1>1, BootNextInv, LoginInv, RequestNextInv DEF Next
<1>2. CASE UNCHANGED vars
  BY <1>2 DEF vars, AccountsInv, TypeOK, OneAdmin, BootstrapPasswordDies, HashesUsed, AdminWithSetting,
     BootsOK, RequestsOK, RequestOK
<1> QED
  BY <1>1, <1>2

\* AccountsInv is inductive: an administrator exists exactly when the setting does, one
\* transaction at most has inserted the setting, and a request that is alone, or holds the
\* row, has read the row as it is now.
THEOREM AccountsInvariant == Spec => []AccountsInv
BY InitInv, StepInv, PTL DEF Spec

\* Every variable keeps its type.
THEOREM TypeCorrect == Spec => []TypeOK
<1>1. AccountsInv => TypeOK
  BY DEF AccountsInv
<1> QED
  BY <1>1, AccountsInvariant, PTL

\* However many instances start at once, crash and start again, the insert of the setting
\* lets one of them create the administrator, and no other one later.
THEOREM OneAdministrator == Spec => []OneAdmin
<1>1. AccountsInv => OneAdmin
  BY DEF AccountsInv
<1> QED
  BY <1>1, AccountsInvariant, PTL

\* Whatever setups and profile changes overlap, once the setup is done the password is one that
\* somebody typed; the generated one is gone unless it was typed again.
THEOREM PrintedPasswordDies == Spec => []BootstrapPasswordDies
<1>1. AccountsInv => BootstrapPasswordDies
  BY DEF AccountsInv
<1> QED
  BY <1>1, AccountsInvariant, PTL

-----------------------------------------------------------------------------
(* Who replaces a password *)

\* Only the commits of a new password take a request to the token that it gives out.
LEMMA OnlyCommitIssues ==
    ASSUME AccountsInv, Next, NEW r \in Requests, req[r].pc \in {"complete", "password"},
           req'[r].pc = "issue"
    PROVE  (ProfileCommit(r) /\ req[r].pwd # None) \/ CompleteCommit(r)
<1>1. CASE \E i \in Instances : BootNext(i)
  <2>1. UNCHANGED req
    BY <1>1 DEF BootNext, BootRead, BootEnsure, BootLook, BootCreate, BootPrint, Crash, bootFrame
  <2> QED
    BY <2>1
<1>2. CASE \E u \in UserIds, e \in Emails, p \in KnownPasswords : Login(u, e, p)
  BY <1>2 DEF Login
<1>3. CASE \E s \in Requests : RequestNext(s)
  <2>1. PICK s \in Requests : RequestNext(s)
    BY <1>3
  <2>2. req \in [Requests -> Request]
    BY DEF AccountsInv, TypeOK
  <2>3. ASSUME NEW q, req' = [req EXCEPT ![s] = q], s # r
        PROVE  FALSE
    BY <2>2, <2>3
  <2>4. ASSUME NEW q \in Request, req' = NotAlone([req EXCEPT ![s] = q]), q.pc = "idle" \/ s # r
        PROVE  FALSE
    <3> DEFINE req1 == [req EXCEPT ![s] = q]
    <3>1. req1 \in [Requests -> Request] /\ req1[r].pc # "issue"
      BY <2>2, <2>4
    <3> HIDE DEF req1
    <3>2. req' = NotAlone(req1)
      BY <2>4 DEF req1
    <3>3. req'[r].pc = req1[r].pc
      BY <3>1, <3>2, NotAloneRecord
    <3> QED
      BY <3>1, <3>3
  <2>5. req[s].pc # "idle" => req[s].user \in UserIds
    BY DEF AccountsInv, RequestsOK, RequestOK
  <2>6. CASE \E u \in UserIds, tok \in tokens, pc \in {"setup", "profile"} : Authenticate(s, u, tok, pc)
    BY <2>3, <2>6 DEF Authenticate
  <2>7. CASE \E e \in Emails, p \in KnownPasswords : CompleteRead(s, e, p)
    BY <2>3, <2>7 DEF CompleteRead
  <2>8. CASE CompleteCommit(s)
    <3>1. Issuing(req[s].user) \in Request
      BY <2>5, <2>8, IssuingRecord DEF CompleteCommit
    <3>2. req' = NotAlone([req EXCEPT ![s] = Issuing(req[s].user)])
      BY <2>8 DEF CompleteCommit
    <3>3. s = r
      BY <2>4, <3>1, <3>2
    <3> QED
      BY <2>8, <3>3
  <2>9. CASE RequestFail(s)
    <3>1. s # r
      BY <2>2, <2>9 DEF RequestFail, NoRequest
    <3> QED
      BY <2>3, <2>9, <3>1 DEF RequestFail
  <2>10. CASE IssueAccessToken(s)
    BY <2>3, <2>10 DEF IssueAccessToken
  <2>11. CASE \E e \in Emails \cup {None}, p, c \in KnownPasswords \cup {None} :
                 ProfileRead(s, e, p, c)
    BY <2>3, <2>11 DEF ProfileRead
  <2>12. CASE ProfileEmail(s)
    BY <2>3, <2>12 DEF ProfileEmail
  <2>13. CASE ProfileCommit(s)
    <3>1. CASE req[s].pwd = None
      <4>1. req' = NotAlone([req EXCEPT ![s] = NoRequest])
        BY <2>13, <3>1 DEF ProfileCommit
      <4>2. NoRequest \in Request /\ NoRequest.pc = "idle"
        BY RecordTypes DEF NoRequest
      <4> QED
        BY <2>4, <4>1, <4>2
    <3>2. CASE req[s].pwd # None
      <4>1. req' = NotAlone([req EXCEPT ![s] = Issuing(req[s].user)])
        BY <2>13, <3>2 DEF ProfileCommit
      <4>2. Issuing(req[s].user) \in Request
        BY <2>5, <2>13, IssuingRecord DEF ProfileCommit
      <4>3. s = r
        BY <2>4, <4>1, <4>2
      <4> QED
        BY <2>13, <3>2, <4>3
    <3> QED
      BY <3>1, <3>2
  <2> QED
    BY <2>1, <2>6, <2>7, <2>8, <2>9, <2>10, <2>11, <2>12, <2>13 DEF RequestNext
<1> QED
  BY <1>1, <1>2, <1>3 DEF Next

\* A new password is stored for someone who presented the one it replaces, whenever no other
\* request has committed since UpdateProfile's first read or the request holds the row.
THEOREM PasswordReplacedKnowingly == Spec => ReplacedKnowingly
<1> DEFINE Knows(r) == /\ req[r].pc = "password"
                       /\ req'[r].pc = "issue"
                       /\ req[r].alone \/ rowLock = r
                       => req[r].cur = users[req[r].user].pwd
<1>1. AccountsInv /\ [Next]_vars => [\A r \in Requests : Knows(r)]_vars
  <2> SUFFICES ASSUME AccountsInv, Next, NEW r \in Requests,
                      req[r].pc = "password", req'[r].pc = "issue", req[r].alone \/ rowLock = r
               PROVE  req[r].cur = users[req[r].user].pwd
    OBVIOUS
  <2>1. ProfileCommit(r) /\ req[r].pwd # None
    BY OnlyCommitIssues DEF CompleteCommit
  <2>2. req[r].cur = req[r].seen
    BY <2>1 DEF ProfileCommit, CurrentPasswordValid, CheckPasswordHash
  <2>3. req[r].seen = users[req[r].user].pwd
    BY DEF AccountsInv, RequestsOK, RequestOK
  <2> QED
    BY <2>2, <2>3
<1> QED
  BY <1>1, AccountsInvariant, PTL DEF Spec, ReplacedKnowingly

\* The hash of a new password has signed no token yet, so the commit of a setup or of a profile
\* change ends every session that was open.
THEOREM EverySessionEnds == Spec => SessionsEnd
<1> DEFINE Ends(r) == req[r].pc \in {"complete", "password"} /\ req'[r].pc = "issue" =>
                          LET u == req[r].user IN \A tok \in tokens : tok # <<u, users'[u].hash>>
<1>1. AccountsInv /\ [Next]_vars => [\A r \in Requests : Ends(r)]_vars
  <2> SUFFICES ASSUME AccountsInv, Next, NEW r \in Requests,
                      req[r].pc \in {"complete", "password"}, req'[r].pc = "issue",
                      NEW tok \in tokens
               PROVE  tok # <<req[r].user, users'[req[r].user].hash>>
    OBVIOUS
  <2>1. (ProfileCommit(r) /\ req[r].pwd # None) \/ CompleteCommit(r)
    BY OnlyCommitIssues
  <2>2. /\ req[r].user \in UserIds /\ users[req[r].user] \in User /\ users \in [UserIds -> User]
        /\ hashes \in Nat
    BY AccountsAssumption DEF AccountsInv, TypeOK, RequestsOK, RequestOK
  <2>3. users'[req[r].user].hash = hashes + 1
    <3>1. CASE CompleteCommit(r)
      <4>1. users'[req[r].user] = CompleteInitialSetupForUser(req[r].user, req[r].email, req[r].pwd)
        BY <2>2, <3>1 DEF CompleteCommit
      <4>2. req[r].email \in Emails /\ req[r].pwd \in AllPasswords /\ hashes + 1 \in 0..MaxHash
        BY <3>1, AccountsAssumption DEF CompleteCommit, AccountsInv, TypeOK, RequestsOK, RequestOK
      <4> QED
        BY <2>2, <4>1, <4>2, CompletedRow
    <3>2. CASE ProfileCommit(r) /\ req[r].pwd # None
      <4> DEFINE now == IF rowLock = r THEN UpdateUserEmail(req[r].user, req[r].email)
                                       ELSE users[req[r].user]
      <4>1. users' = [users EXCEPT ![req[r].user] = UpdateUserPassword(now, req[r].pwd)]
        BY <3>2 DEF ProfileCommit
      <4>2. users'[req[r].user] = UpdateUserPassword(now, req[r].pwd)
        BY <2>2, <4>1
      <4>3. req[r].pc = "password" /\ hashes < MaxHash
        BY <3>2 DEF ProfileCommit
      <4>4. now \in User
        BY <4>3, ProfileRow
      <4>5. req[r].pwd \in AllPasswords /\ hashes + 1 \in 0..MaxHash
        BY <2>2, <3>2, <4>3, AccountsAssumption DEF AccountsInv, TypeOK, Request
      <4> HIDE DEF now
      <4> QED
        BY <4>2, <4>4, <4>5, PasswordRow
    <3> QED
      BY <2>1, <3>1, <3>2
  <2>4. tok[2] <= hashes /\ tok[2] \in Nat
    BY AccountsAssumption DEF AccountsInv, TypeOK, HashesUsed
  <2> QED
    BY <2>2, <2>3, <2>4
<1> QED
  BY <1>1, AccountsInvariant, PTL DEF Spec, SessionsEnd

-----------------------------------------------------------------------------
(* The setup stays done *)

\* Once CompleteInitialSetup has committed, no instance that is still in TryInitialSetup, however
\* late it goes on, sets initial_setup_done back to false and opens the setup page again.
SetupStaysDone == [][setup = "done" => setup' = "done"]_vars

\* TryInitialSetup commits the setting only in the transaction that inserted it, and such a
\* transaction is in progress only while there is no setting.
THEOREM SetupNeverReopens == Spec => SetupStaysDone
<1>1. AccountsInv /\ [Next]_vars => [setup = "done" => setup' = "done"]_vars
  <2> SUFFICES ASSUME AccountsInv, Next, setup = "done" PROVE setup' = "done"
    OBVIOUS
  <2>1. ASSUME NEW i \in Instances, BootNext(i) PROVE setup' = "done"
    <3>1. ~boot[i].inserted
      BY DEF AccountsInv, BootsOK
    <3> QED
      BY <2>1, <3>1 DEF BootNext, BootRead, BootEnsure, BootLook, BootCreate, BootPrint, Crash
  <2>2. ASSUME NEW r \in Requests, RequestNext(r) PROVE setup' = "done"
    BY <2>2 DEF RequestNext, Authenticate, CompleteRead, CompleteCommit, RequestFail,
       IssueAccessToken, ProfileRead, ProfileEmail, ProfileCommit
  <2> QED
    BY <2>1, <2>2 DEF Next, Login
<1> QED
  BY <1>1, AccountsInvariant, PTL DEF Spec, SetupStaysDone
=============================================================================
