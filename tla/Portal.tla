-------------------------------- MODULE Portal --------------------------------
(***************************************************************************)
(* Accounts and sessions: the users table as the portal (internal/portal)  *)
(* and the management routes change it, and the portal's map of sessions,  *)
(* which lives in memory.                                                  *)
(*                                                                         *)
(* Every HTTP request is a goroutine of its own, every statement commits   *)
(* alone, and between the statements of a login lies an argon2 hash.  So a *)
(* request of several statements is a call in a slot (pc names the next    *)
(* one); a request of one statement is one action.                         *)
(*                                                                         *)
(* Data: a password is the form its hash is stored in, and a login either  *)
(* has the right one or not.  A user name is a member of Names, or a pair  *)
(* for the name with the Telegram id appended.  handleLogout is no action: *)
(* it deletes the plain token from a map keyed by the token's hash, so it  *)
(* changes nothing.                                                        *)
(***************************************************************************)
EXTENDS Integers, FiniteSets

CONSTANTS
  Ids,                \* the accounts that can be created
  Names, Telegrams,   \* user names; Telegram identities
  None,               \* NULL in a column, and no account
  Slots,              \* requests in progress
  RegistrationOpen, RequireApproval,   \* portal.Config
  LockAfter, LockFor, SessionTTL,      \* portal.Config
  MaxCalls, MaxEdits, \* bounds: calls of several statements; other requests
  MaxTroubles,        \* bound: crashes of the host, statements that fail
  MaxTime             \* bound: the clock

ASSUME PortalAssumption ==
  /\ IsFiniteSet(Ids) /\ IsFiniteSet(Slots)
  /\ None \notin Ids \cup Names \cup Telegrams \cup (Names \X Telegrams)
  /\ RegistrationOpen \in BOOLEAN /\ RequireApproval \in BOOLEAN
  /\ LockAfter \in Nat \ {0} /\ LockFor \in Nat \ {0} /\ SessionTTL \in Nat
  /\ MaxCalls \in Nat /\ MaxEdits \in Nat /\ MaxTroubles \in Nat /\ MaxTime \in Nat

VARIABLES
  users,      \* the row of each account; its name is None if there is none
  sessions,   \* the sessions of the portal's map
  call,       \* what each slot is executing
  now,
  strikes,    \* history: wrong passwords since the last login or lock
  carried,    \* history: the Telegram identities an account has had
  waiting,    \* history: registered for approval, no status set by an admin yet
  calls, edits, troubles

history == <<strikes, carried, waiting>>
bounds  == <<calls, edits, troubles>>
vars    == <<users, sessions, call, now, history, bounds>>

\* "banned" differs from "disabled" in name only.
Statuses  == {"active", "pending", "disabled"}
UserNames == Names \cup (Names \X Telegrams)
NoRow == [name |-> None, tg |-> None, pw |-> "none", status |-> "active",
          failed |-> 0, lock |-> 0]
Idle  == [pc |-> "idle", id |-> None, name |-> None, tg |-> None,
          seen |-> [failed |-> 0, lock |-> 0]]

Init ==
  /\ users = [i \in Ids |-> NoRow]
  /\ sessions = {}
  /\ call = [s \in Slots |-> Idle]
  /\ now = 1
  /\ strikes = [i \in Ids |-> 0] /\ carried = [i \in Ids |-> {}] /\ waiting = {}
  /\ calls = 0 /\ edits = 0 /\ troubles = 0

-----------------------------------------------------------------------------
(* The users table.                                                        *)

Accounts == {i \in Ids : users[i].name # None}
Taken(n, t) == \E i \in Accounts : users[i].name = n \/ (t # None /\ users[i].tg = t)

\* Create inserts an active account; both columns are UNIQUE.
Create(i, n, t, form) ==
  /\ i \in Ids \ Accounts /\ ~Taken(n, t)
  /\ users' = [users EXCEPT ![i] = [NoRow EXCEPT !.name = n, !.tg = t, !.pw = form]]
  /\ carried' = [carried EXCEPT ![i] = IF t = None THEN {} ELSE {t}]

SetStatus(i, status) == users' = [users EXCEPT ![i].status = status]

Trouble == troubles < MaxTroubles /\ troubles' = troubles + 1

\* An idle slot takes a call; slot s continues as c.
Free(s) == call[s].pc = "idle" /\ calls < MaxCalls /\ calls' = calls + 1
Set(s, c) == call' = [call EXCEPT ![s] = c]

\* Faulty variant: the counter of the row read before the password was checked.
RecordFailedLoginStale(s, i) ==
  LET failed == call[s].seen.failed + 1 IN
  users' = [users EXCEPT ![i].failed = IF failed >= LockAfter THEN 0 ELSE failed,
                         ![i].lock   = IF failed >= LockAfter THEN now + LockFor ELSE 0]

\* Faulty variant: the counter is not started afresh by a lock.
RecordFailedLoginKeeps(s, i) ==
  LET failed == users[i].failed + 1 IN
  users' = [users EXCEPT ![i].failed = failed,
                         ![i].lock   = IF failed >= LockAfter THEN now + LockFor ELSE 0]

\* One transaction: the counter is read again, and the lock is written either
\* way, as NULL while the counter is below the limit.
RecordFailedLogin(s, i) ==
  LET failed == users[i].failed + 1 IN
  users' = [users EXCEPT ![i].failed = IF failed >= LockAfter THEN 0 ELSE failed,
                         ![i].lock   = IF failed >= LockAfter THEN now + LockFor ELSE 0]

-----------------------------------------------------------------------------
(* Registration: the account is inserted active, and a second statement,   *)
(* whose error nobody looks at, makes it wait for approval.                *)

Register(s, i, n) ==
  /\ RegistrationOpen /\ Free(s)
  /\ Create(i, n, None, "argon")
  /\ Set(s, [Idle EXCEPT !.pc = IF RequireApproval THEN "reg_pending" ELSE "session",
                         !.id = i])
  /\ waiting' = IF RequireApproval THEN waiting \cup {i} ELSE waiting
  /\ UNCHANGED <<sessions, now, strikes, edits, troubles>>

\* Faulty variant: the second statement is forgotten.
RegisterPendingSkipped(s) ==
  /\ call[s].pc = "reg_pending"
  /\ Set(s, Idle)
  /\ UNCHANGED <<users, sessions, now, history, bounds>>

RegisterPending(s) ==
  /\ call[s].pc = "reg_pending"
  /\ \/ SetStatus(call[s].id, "pending") /\ UNCHANGED troubles
     \/ Trouble /\ UNCHANGED users
  /\ Set(s, Idle)
  /\ UNCHANGED <<sessions, now, history, calls, edits>>

-----------------------------------------------------------------------------
(* Login with a password: read the row, look at the lock, check the        *)
(* password, then count the failure or stamp the login and open a session. *)

\* Faulty variant: the lock is not looked at.
LockedNever(i) == FALSE

Locked(i) == users[i].lock > 0 /\ now < users[i].lock

\* The password is right only for a hash in the form verifyPassword parses.
LoginRead(s, i, right) ==
  /\ Free(s) /\ i \in Accounts /\ ~Locked(i)
  /\ right => users[i].pw = "argon" /\ users[i].status = "active"
  /\ Set(s, [Idle EXCEPT !.pc = IF right THEN "login" ELSE "strike", !.id = i,
                         !.seen = [failed |-> users[i].failed, lock |-> users[i].lock]])
  /\ UNCHANGED <<users, sessions, now, history, edits, troubles>>

LoginFailed(s) ==
  LET i == call[s].id IN
  /\ call[s].pc = "strike"
  /\ RecordFailedLogin(s, i)
  /\ strikes' = [strikes EXCEPT ![i] = IF users'[i].lock > 0 THEN 0 ELSE @ + 1]
  /\ Set(s, Idle)
  /\ UNCHANGED <<sessions, now, carried, waiting, bounds>>

\* RecordLogin clears the counter and the lock of the row as it is now.
RecordLogin(s) ==
  LET i == call[s].id IN
  /\ call[s].pc = "login"
  /\ users' = [users EXCEPT ![i].failed = 0, ![i].lock = 0]
  /\ strikes' = [strikes EXCEPT ![i] = 0]
  /\ Set(s, [call[s] EXCEPT !.pc = "session"])
  /\ UNCHANGED <<sessions, now, carried, waiting, bounds>>

\* createSession; via is the Telegram identity that signed in, if any.
CreateSession(s) ==
  LET c == call[s] IN
  /\ c.pc = "session"
  /\ sessions' = sessions \cup {[user |-> c.id, via |-> c.tg,
                                 expires |-> now + SessionTTL]}
  /\ Set(s, Idle)
  /\ UNCHANGED <<users, now, history, bounds>>

-----------------------------------------------------------------------------
(* Login with Telegram: find the account of the identity or create one,    *)
(* under the Telegram name or, when that is taken, the name with the       *)
(* identity appended.  It looks neither at the lock nor at RequireApproval.*)

TelegramRead(s, n, t) ==
  LET mine == {i \in Accounts : users[i].tg = t}
      c    == [Idle EXCEPT !.name = n, !.tg = t]
  IN
  /\ Free(s)
  /\ \/ mine = {} /\ Set(s, [c EXCEPT !.pc = "tg_create"])
     \/ \E i \in mine : /\ users[i].status = "active"
                        /\ Set(s, [c EXCEPT !.pc = "login", !.id = i])
  /\ UNCHANGED <<users, sessions, now, history, edits, troubles>>

TelegramCreate(s) ==
  LET c == call[s] IN
  /\ c.pc = "tg_create"
  /\ \/ \E i \in Ids : /\ Create(i, c.name, c.tg, "none")
                       /\ Set(s, [c EXCEPT !.pc = "login", !.id = i])
     \/ /\ Taken(c.name, c.tg) /\ Set(s, [c EXCEPT !.pc = "tg_suffix"])
        /\ UNCHANGED <<users, carried>>
  /\ UNCHANGED <<sessions, now, strikes, waiting, bounds>>

\* Faulty variant: a taken name signs in the account that has it.
TelegramByName(s) ==
  LET c == call[s] IN
  /\ c.pc = "tg_suffix"
  /\ \E i \in Accounts : /\ users[i].name = c.name
                         /\ Set(s, [c EXCEPT !.pc = "login", !.id = i])
  /\ UNCHANGED <<users, sessions, now, history, bounds>>

\* A second duplicate answers 409.
TelegramSuffix(s) ==
  LET c == call[s]
      n == <<c.name, c.tg>>
  IN
  /\ c.pc = "tg_suffix"
  /\ \/ \E i \in Ids : /\ Create(i, n, c.tg, "none")
                       /\ Set(s, [c EXCEPT !.pc = "login", !.id = i])
     \/ Taken(n, c.tg) /\ Set(s, Idle) /\ UNCHANGED <<users, carried>>
  /\ UNCHANGED <<sessions, now, strikes, waiting, bounds>>

-----------------------------------------------------------------------------
(* Requests of one statement: the owner's, who has a session, and the      *)
(* admin's.                                                                *)

\* getSession: a session is accepted to the end of its time.
Alive(i) == \E se \in sessions : se.user = i /\ now <= se.expires

\* A request with a session that has ended removes it from the map.
ExpireSession(se) ==
  /\ se \in sessions /\ now > se.expires
  /\ sessions' = sessions \ {se}
  /\ UNCHANGED <<users, call, now, history, bounds>>

Edit == edits < MaxEdits /\ edits' = edits + 1

\* Replaces the identity an account had.
LinkTelegram(i, t) ==
  /\ Alive(i) /\ Edit /\ \A j \in Accounts \ {i} : users[j].tg # t
  /\ users' = [users EXCEPT ![i].tg = t]
  /\ carried' = [carried EXCEPT ![i] = @ \cup {t}]
  /\ UNCHANGED <<sessions, call, now, strikes, waiting, calls, troubles>>

\* handleSetPassword, and mgmtResetPassword: the latter also empties the
\* sessions table, which the portal does not use.
SetPassword(i) ==
  /\ i \in Accounts /\ Edit
  /\ users' = [users EXCEPT ![i].pw = "argon"]
  /\ UNCHANGED <<sessions, call, now, history, calls, troubles>>

\* mgmtCreateUser: an admin's password is stored as a sha256.
AdminCreate(i, n, form) ==
  /\ Edit /\ Create(i, n, None, form)
  /\ UNCHANGED <<sessions, call, now, strikes, waiting, calls, troubles>>

AdminStatus(i, status) ==
  /\ i \in Accounts /\ Edit /\ SetStatus(i, status)
  /\ waiting' = waiting \ {i}
  /\ UNCHANGED <<sessions, call, now, strikes, carried, calls, troubles>>

\* mgmtUpdateUser with a new name.
AdminRename(i, n) ==
  /\ i \in Accounts /\ Edit /\ \A j \in Accounts \ {i} : users[j].name # n
  /\ users' = [users EXCEPT ![i].name = n]
  /\ UNCHANGED <<sessions, call, now, history, calls, troubles>>

-----------------------------------------------------------------------------

\* The host process ends and starts again: the map of sessions is empty.
Crash ==
  /\ Trouble
  /\ sessions' = {} /\ call' = [s \in Slots |-> Idle]
  /\ UNCHANGED <<users, now, history, calls, edits>>

Tick ==
  /\ now < MaxTime /\ now' = now + 1
  /\ UNCHANGED <<users, sessions, call, history, bounds>>

Step(s) ==
  \/ RegisterPending(s) \/ LoginFailed(s) \/ RecordLogin(s) \/ CreateSession(s)
  \/ TelegramCreate(s) \/ TelegramSuffix(s)

Begin(s) ==
  \/ \E i \in Ids, n \in Names : Register(s, i, n)
  \/ \E i \in Ids, right \in BOOLEAN : LoginRead(s, i, right)
  \/ \E n \in Names, t \in Telegrams : TelegramRead(s, n, t)

Request ==
  \E i \in Ids :
    \/ \E t \in Telegrams : LinkTelegram(i, t)
    \/ SetPassword(i)
    \/ \E n \in Names, form \in {"none", "sha"} : AdminCreate(i, n, form)
    \/ \E status \in Statuses : AdminStatus(i, status)
    \/ \E n \in Names : AdminRename(i, n)

Next ==
  \/ \E s \in Slots : Step(s) \/ Begin(s)
  \/ Request
  \/ \E se \in sessions : ExpireSession(se)
  \/ Crash \/ Tick

Spec == Init /\ [][Next]_vars

-----------------------------------------------------------------------------

Row == [name : UserNames \cup {None}, tg : Telegrams \cup {None},
        pw : {"none", "argon", "sha"}, status : Statuses,
        failed : 0..LockAfter - 1, lock : Nat]
Session == [user : Ids, via : Telegrams \cup {None}, expires : Nat]
Call == [pc : {"idle", "reg_pending", "strike", "login", "session", "tg_create",
               "tg_suffix"},
         id : Ids \cup {None}, name : Names \cup {None}, tg : Telegrams \cup {None},
         seen : [failed : 0..LockAfter - 1, lock : Nat]]
ProperCall == {c \in Call :
  /\ c.pc \in {"reg_pending", "strike", "login", "session"} => c.id \in Ids
  /\ c.pc \in {"tg_create", "tg_suffix"} => c.name \in Names /\ c.tg \in Telegrams}

\* The shapes of the table, the map of sessions and the slots.
TypeOK ==
  /\ users \in [Ids -> Row]
  /\ sessions \subseteq Session
  /\ call \in [Slots -> ProperCall]
  /\ now \in Nat
  /\ strikes \in [Ids -> Nat] /\ carried \in [Ids -> SUBSET Telegrams]
  /\ waiting \subseteq Ids
  /\ calls \in 0..MaxCalls /\ edits \in 0..MaxEdits /\ troubles \in 0..MaxTroubles

\* However the logins of an account overlap, it never takes LockAfter wrong
\* passwords in a row without being locked (RecordFailedLogin).
LockIsDue == \A i \in Ids : strikes[i] < LockAfter

\* A lock in force is lifted before its time only by a Telegram login, or by a
\* login that read the account before this lock was set (handleLogin).
LockHolds ==
  [][\A i \in Ids : users[i].lock > now /\ users'[i].lock < users[i].lock =>
       \E s \in Slots : /\ call[s].id = i /\ call[s].pc \in {"strike", "login"}
                        /\ call[s].tg # None \/ call[s].seen.lock # users[i].lock]_vars

\* A Telegram login opens a session only on an account that has had this
\* identity, whatever name it came with and whoever else is signing in.
TelegramSignsOwn ==
  /\ \A se \in sessions : se.via # None => se.via \in carried[se.user]
  /\ \A i, j \in Accounts : i # j => users[i].tg # users[j].tg \/ users[i].tg = None

\* With RequireApproval, an account nobody approved is active only while its
\* registration is between its two statements; a crash there and a failed
\* second statement are the only ways for it to stay so (handleRegister).
Unapproved == {i \in waiting : users[i].status = "active"}
Registering == {call[s].id : s \in {t \in Slots : call[t].pc = "reg_pending"}}
ApprovalWaits ==
  Cardinality(Unapproved \ Registering) <= troubles * Cardinality(Slots)
=============================================================================
