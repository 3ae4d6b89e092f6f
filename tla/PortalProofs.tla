----------------------------- MODULE PortalProofs -----------------------------
(***************************************************************************)
(* Proofs about Portal, for any number of accounts, identities and         *)
(* requests, wherever the process dies.  The invariant Linked says what a  *)
(* call may still rely on after it read its row, and what the rows owe to  *)
(* the calls and sessions that name them.                                  *)
(***************************************************************************)
EXTENDS Portal, FiniteSetTheorems, TLAPS

\* What a call may rely on: its account exists (as), it read a lock that was
\* over at time t, and the identity it signs in with is one the account had.
Placed(c, as, had, t) ==
  /\ c.pc \in {"reg_pending", "strike", "login", "session"} => c.id \in as
  /\ c.pc \in {"strike", "login"} /\ c.tg = None => c.seen.lock <= t
  /\ c.pc \in {"login", "session"} /\ c.tg # None => c.tg \in had[c.id]

CallsPlaced == \A s \in Slots : Placed(call[s], Accounts, carried, now)

\* An id without an account has the row of nobody, an identity is carried by
\* one account, and the counter of a row is its wrong passwords in a row.
RowsLinked ==
  /\ \A i \in Ids \ Accounts : users[i] = NoRow
  /\ \A i \in Accounts : users[i].tg # None => users[i].tg \in carried[i]
  /\ \A i, j \in Accounts : i # j => users[i].tg # users[j].tg \/ users[i].tg = None
  /\ \A i \in Ids : strikes[i] = users[i].failed

SessionsLinked ==
  \A se \in sessions : /\ se.user \in Accounts
                       /\ se.via # None => se.via \in carried[se.user]

Linked == RowsLinked /\ SessionsLinked /\ CallsPlaced

\* A step as LockHolds wants it.
LockStep ==
  \A i \in Ids : users[i].lock > now /\ users'[i].lock < users[i].lock =>
    \E s \in Slots : /\ call[s].id = i /\ call[s].pc \in {"strike", "login"}
                     /\ call[s].tg # None \/ call[s].seen.lock # users[i].lock

\* Accounts stay and keep what they have carried; the clock does not go back.
Grows ==
  /\ Accounts \subseteq Accounts' /\ \A i \in Accounts : carried[i] \subseteq carried'[i]
  /\ now' \in Nat /\ now <= now'

-----------------------------------------------------------------------------
(* What the helpers do.                                                    *)

LEMMA NobodyProper == Idle \in ProperCall /\ NoRow \in Row
  BY PortalAssumption DEF Idle, ProperCall, Call, NoRow, Row, Statuses

\* One slot moves on, the others do not.
LEMMA SlotMoves ==
  ASSUME TypeOK, NEW s \in Slots, NEW c \in ProperCall, Set(s, c)
  PROVE  /\ call' \in [Slots -> ProperCall]
         /\ call'[s] = c /\ \A q \in Slots \ {s} : call'[q] = call[q]
  BY DEF TypeOK, Set

\* A row changes: the others do not, and its name and identity are as said.
LEMMA RowChanges ==
  ASSUME TypeOK, NEW i \in Ids, NEW r \in Row, users' = [users EXCEPT ![i] = r]
  PROVE  /\ users' \in [Ids -> Row]
         /\ users'[i] = r /\ \A j \in Ids \ {i} : users'[j] = users[j]
  BY DEF TypeOK

\* UsersRepo.Create: a new account beside the others, under a name and an
\* identity that were free.
Added(i, t) ==
  /\ i \in Ids \ Accounts /\ Accounts' = Accounts \cup {i}
  /\ users' \in [Ids -> Row] /\ carried' \in [Ids -> SUBSET Telegrams]
  /\ \A j \in Ids \ {i} : users'[j] = users[j] /\ carried'[j] = carried[j]
  /\ users'[i].tg = t /\ users'[i].failed = 0
  /\ carried'[i] = IF t = None THEN {} ELSE {t}
  /\ \A j \in Accounts : t = None \/ users[j].tg # t

LEMMA CreateAdds ==
  ASSUME TypeOK, NEW i, NEW n \in UserNames, NEW t \in Telegrams \cup {None},
         NEW form \in {"none", "argon", "sha"}, Create(i, n, t, form)
  PROVE  Added(i, t)
<1> DEFINE r == [NoRow EXCEPT !.name = n, !.tg = t, !.pw = form]
<1>1. r \in Row /\ r.name = n /\ r.tg = t /\ r.failed = 0
  BY NobodyProper DEF Row, NoRow
<1>2. i \in Ids \ Accounts /\ ~Taken(n, t) /\ users' = [users EXCEPT ![i] = r]
  BY DEF Create
<1> HIDE DEF r
<1>3. users' \in [Ids -> Row] /\ users'[i] = r /\ \A j \in Ids \ {i} : users'[j] = users[j]
  BY <1>1, <1>2, RowChanges
<1>4. /\ carried' \in [Ids -> SUBSET Telegrams]
      /\ carried'[i] = IF t = None THEN {} ELSE {t}
      /\ \A j \in Ids \ {i} : carried'[j] = carried[j]
  BY <1>2 DEF Create, TypeOK
<1>5. n # None
  BY PortalAssumption DEF UserNames
<1>6. Accounts' = Accounts \cup {i}
  BY <1>1, <1>2, <1>3, <1>5 DEF Accounts
<1>7. \A j \in Accounts : t = None \/ users[j].tg # t
  BY <1>2 DEF Taken
<1> QED
  BY <1>1, <1>2, <1>3, <1>4, <1>6, <1>7 DEF Added

\* The rows RecordFailedLogin and RecordLogin write.
LEMMA StrikeRow ==
  ASSUME TypeOK, NEW s \in Slots, NEW i \in Ids, RecordFailedLogin(s, i)
  PROVE  /\ users' \in [Ids -> Row] /\ \A j \in Ids \ {i} : users'[j] = users[j]
         /\ users'[i].name = users[i].name /\ users'[i].tg = users[i].tg
         /\ users'[i].failed = IF users'[i].lock > 0 THEN 0 ELSE users[i].failed + 1
<1> DEFINE failed == users[i].failed + 1
           r == [users[i] EXCEPT !.failed = IF failed >= LockAfter THEN 0 ELSE failed,
                                 !.lock   = IF failed >= LockAfter THEN now + LockFor ELSE 0]
<1>1. users[i] \in Row /\ now \in Nat /\ users[i].failed \in 0..LockAfter - 1
  BY DEF TypeOK, Row
<1>2. /\ r.name = users[i].name /\ r.tg = users[i].tg
      /\ r.failed = IF r.lock > 0 THEN 0 ELSE users[i].failed + 1
  BY <1>1, PortalAssumption DEF Row
<1>3. r \in Row
  <2>1. failed \in Nat /\ (~(failed >= LockAfter) => failed \in 0..LockAfter - 1)
    BY <1>1, PortalAssumption
  <2>2. now + LockFor \in Nat /\ 0 \in 0..LockAfter - 1 /\ 0 \in Nat
    BY <1>1, PortalAssumption
  <2> QED
    BY <1>1, <2>1, <2>2 DEF Row
<1>4. users' = [users EXCEPT ![i] = r]
  BY DEF RecordFailedLogin, TypeOK
<1> QED
  BY <1>2, <1>3, <1>4, RowChanges

-----------------------------------------------------------------------------
(* Type correctness.                                                       *)

LEMMA BeginTypes ==
  ASSUME TypeOK, NEW s \in Slots, Begin(s)
  PROVE  TypeOK'
<1>1. ASSUME NEW i \in Ids, NEW n \in Names, Register(s, i, n) PROVE TypeOK'
  <2> DEFINE c == [Idle EXCEPT !.pc = IF RequireApproval THEN "reg_pending" ELSE "session",
                               !.id = i]
  <2>1. c \in ProperCall
    BY NobodyProper, PortalAssumption DEF ProperCall, Call, Idle
  <2>2. call' \in [Slots -> ProperCall]
    BY <1>1, <2>1, SlotMoves DEF Register
  <2>3. users' \in [Ids -> Row] /\ carried' \in [Ids -> SUBSET Telegrams]
    <3>1. Create(i, n, None, "argon") /\ n \in UserNames
      BY <1>1 DEF Register, UserNames
    <3> QED BY <3>1, CreateAdds DEF Added
  <2>4. waiting' \subseteq Ids
    BY <1>1 DEF Register, TypeOK
  <2>5. calls' \in 0..MaxCalls
    BY <1>1, PortalAssumption DEF Register, Free, TypeOK
  <2> QED
    BY <1>1, <2>2, <2>3, <2>4, <2>5 DEF Register, TypeOK
<1>2. ASSUME NEW i \in Ids, NEW right \in BOOLEAN, LoginRead(s, i, right) PROVE TypeOK'
  <2> DEFINE c == [Idle EXCEPT !.pc = IF right THEN "login" ELSE "strike", !.id = i,
                     !.seen = [failed |-> users[i].failed, lock |-> users[i].lock]]
  <2>1. c \in ProperCall
    <3>1. users[i] \in Row
      BY DEF TypeOK
    <3> QED BY <3>1, NobodyProper DEF ProperCall, Call, Idle, Row
  <2>2. call' \in [Slots -> ProperCall]
    BY <1>2, <2>1, SlotMoves DEF LoginRead
  <2>3. calls' \in 0..MaxCalls
    BY <1>2, PortalAssumption DEF LoginRead, Free, TypeOK
  <2> QED
    BY <1>2, <2>2, <2>3 DEF LoginRead, history, TypeOK
<1>3. ASSUME NEW n \in Names, NEW t \in Telegrams, TelegramRead(s, n, t) PROVE TypeOK'
  <2> DEFINE c == [Idle EXCEPT !.name = n, !.tg = t]
  <2>1. /\ [c EXCEPT !.pc = "tg_create"] \in ProperCall
        /\ \A i \in Ids : [c EXCEPT !.pc = "login", !.id = i] \in ProperCall
    BY NobodyProper DEF ProperCall, Call, Idle
  <2>2. call' \in [Slots -> ProperCall]
    <3>1. CASE Set(s, [c EXCEPT !.pc = "tg_create"])
      BY <3>1, <2>1, SlotMoves
    <3>2. ASSUME NEW i \in Accounts, Set(s, [c EXCEPT !.pc = "login", !.id = i])
          PROVE  call' \in [Slots -> ProperCall]
      BY <3>2, <2>1, SlotMoves DEF Accounts
    <3> QED BY <1>3, <3>1, <3>2 DEF TelegramRead
  <2>3. Free(s) /\ UNCHANGED <<users, sessions, now, history, edits, troubles>>
    BY <1>3 DEF TelegramRead
  <2>4. calls' \in 0..MaxCalls
    BY <2>3, PortalAssumption DEF Free, TypeOK
  <2> QED
    BY <2>2, <2>3, <2>4 DEF history, TypeOK
<1> QED
  BY <1>1, <1>2, <1>3 DEF Begin

LEMMA StepTypes ==
  ASSUME TypeOK, NEW s \in Slots, Step(s)
  PROVE  TypeOK'
<1> DEFINE c == call[s]
<1>1. c \in ProperCall /\ c \in Call
  BY DEF TypeOK, ProperCall
<1>2. CASE RegisterPending(s)
  <2>1. c.id \in Ids
    BY <1>1, <1>2 DEF RegisterPending, ProperCall
  <2>2. users' \in [Ids -> Row] /\ troubles' \in 0..MaxTroubles
    <3>1. users[c.id] \in Row
      BY <2>1 DEF TypeOK
    <3>2. CASE SetStatus(c.id, "pending") /\ UNCHANGED troubles
      BY <2>1, <3>1, <3>2 DEF SetStatus, TypeOK, Row, Statuses
    <3>3. CASE Trouble /\ UNCHANGED users
      BY <3>3, PortalAssumption DEF Trouble, TypeOK
    <3> QED BY <1>2, <3>2, <3>3 DEF RegisterPending
  <2>3. call' \in [Slots -> ProperCall]
    BY <1>2, NobodyProper, SlotMoves DEF RegisterPending
  <2> QED
    BY <1>2, <2>2, <2>3 DEF RegisterPending, history, TypeOK
<1>3. CASE LoginFailed(s)
  <2>1. c.id \in Ids
    BY <1>1, <1>3 DEF LoginFailed, ProperCall
  <2>2. users' \in [Ids -> Row]
    BY <1>3, <2>1, StrikeRow DEF LoginFailed
  <2>3. call' \in [Slots -> ProperCall]
    BY <1>3, NobodyProper, SlotMoves DEF LoginFailed
  <2>4. strikes' \in [Ids -> Nat]
    BY <1>3, <2>1 DEF LoginFailed, TypeOK
  <2> QED
    BY <1>3, <2>2, <2>3, <2>4 DEF LoginFailed, bounds, TypeOK
<1>4. CASE RecordLogin(s)
  <2>1. c.id \in Ids
    BY <1>1, <1>4 DEF RecordLogin, ProperCall
  <2>2. users' \in [Ids -> Row]
    <3>1. users[c.id] \in Row /\ 0 \in 0..LockAfter - 1
      BY <2>1, PortalAssumption DEF TypeOK
    <3> QED BY <1>4, <2>1, <3>1 DEF RecordLogin, TypeOK, Row
  <2>3. [c EXCEPT !.pc = "session"] \in ProperCall
    BY <1>1, <2>1 DEF ProperCall, Call
  <2>4. call' \in [Slots -> ProperCall]
    BY <1>4, <2>3, SlotMoves DEF RecordLogin
  <2>5. strikes' \in [Ids -> Nat]
    BY <1>4, <2>1 DEF RecordLogin, TypeOK
  <2> QED
    BY <1>4, <2>2, <2>4, <2>5 DEF RecordLogin, bounds, TypeOK
<1>5. CASE CreateSession(s)
  <2>1. c.id \in Ids
    BY <1>1, <1>5 DEF CreateSession, ProperCall
  <2>2. sessions' \subseteq Session
    BY <1>1, <1>5, <2>1, PortalAssumption DEF CreateSession, Session, Call, TypeOK
  <2>3. call' \in [Slots -> ProperCall]
    BY <1>5, NobodyProper, SlotMoves DEF CreateSession
  <2> QED
    BY <1>5, <2>2, <2>3 DEF CreateSession, history, bounds, TypeOK
<1>6. CASE TelegramCreate(s)
  <2>1. c.name \in Names /\ c.tg \in Telegrams /\ c.name \in UserNames
    BY <1>1, <1>6 DEF TelegramCreate, ProperCall, UserNames
  <2>2. /\ [c EXCEPT !.pc = "tg_suffix"] \in ProperCall
        /\ \A i \in Ids : [c EXCEPT !.pc = "login", !.id = i] \in ProperCall
    BY <1>1, <2>1 DEF ProperCall, Call
  <2>3. /\ users' \in [Ids -> Row] /\ carried' \in [Ids -> SUBSET Telegrams]
        /\ call' \in [Slots -> ProperCall]
    <3>1. ASSUME NEW i \in Ids, Create(i, c.name, c.tg, "none"),
                 Set(s, [c EXCEPT !.pc = "login", !.id = i])
          PROVE  <2>3!:
      BY <2>1, <2>2, <3>1, CreateAdds, SlotMoves DEF Added
    <3>2. CASE Set(s, [c EXCEPT !.pc = "tg_suffix"]) /\ UNCHANGED <<users, carried>>
      BY <2>2, <3>2, SlotMoves DEF TypeOK
    <3> QED BY <1>6, <3>1, <3>2 DEF TelegramCreate
  <2> QED
    BY <1>6, <2>3 DEF TelegramCreate, bounds, TypeOK
<1>7. CASE TelegramSuffix(s)
  <2>1. c.tg \in Telegrams /\ <<c.name, c.tg>> \in UserNames
    BY <1>1, <1>7 DEF TelegramSuffix, ProperCall, UserNames
  <2>2. \A i \in Ids : [c EXCEPT !.pc = "login", !.id = i] \in ProperCall
    BY <1>1 DEF ProperCall, Call
  <2>3. /\ users' \in [Ids -> Row] /\ carried' \in [Ids -> SUBSET Telegrams]
        /\ call' \in [Slots -> ProperCall]
    <3>1. ASSUME NEW i \in Ids, Create(i, <<c.name, c.tg>>, c.tg, "none"),
                 Set(s, [c EXCEPT !.pc = "login", !.id = i])
          PROVE  <2>3!:
      BY <2>1, <2>2, <3>1, CreateAdds, SlotMoves DEF Added
    <3>2. CASE Set(s, Idle) /\ UNCHANGED <<users, carried>>
      BY <3>2, NobodyProper, SlotMoves DEF TypeOK
    <3> QED BY <1>7, <3>1, <3>2 DEF TelegramSuffix
  <2> QED
    BY <1>7, <2>3 DEF TelegramSuffix, bounds, TypeOK
<1> QED
  BY <1>2, <1>3, <1>4, <1>5, <1>6, <1>7 DEF Step

LEMMA RequestTypes ==
  ASSUME TypeOK, Request
  PROVE  TypeOK'
<1>1. PICK i \in Ids :
        \/ \E t \in Telegrams : LinkTelegram(i, t)
        \/ SetPassword(i)
        \/ \E n \in Names, form \in {"none", "sha"} : AdminCreate(i, n, form)
        \/ \E status \in Statuses : AdminStatus(i, status)
        \/ \E n \in Names : AdminRename(i, n)
  BY DEF Request
<1>2. users[i] \in Row
  BY DEF TypeOK
<1>3. ASSUME Edit PROVE edits' \in 0..MaxEdits
  BY <1>3, PortalAssumption DEF Edit, TypeOK
<1>4. ASSUME NEW t \in Telegrams, LinkTelegram(i, t) PROVE TypeOK'
  <2>1. [users[i] EXCEPT !.tg = t] \in Row
    BY <1>2 DEF Row
  <2>2. users' \in [Ids -> Row]
    BY <1>4, <2>1 DEF LinkTelegram, TypeOK
  <2>3. carried' \in [Ids -> SUBSET Telegrams]
    BY <1>4 DEF LinkTelegram, TypeOK
  <2> QED BY <1>3, <1>4, <2>2, <2>3 DEF LinkTelegram, TypeOK
<1>5. CASE SetPassword(i)
  <2>1. [users[i] EXCEPT !.pw = "argon"] \in Row
    BY <1>2 DEF Row
  <2>2. users' \in [Ids -> Row]
    BY <1>5, <2>1 DEF SetPassword, TypeOK
  <2> QED BY <1>3, <1>5, <2>2 DEF SetPassword, history, TypeOK
<1>6. ASSUME NEW n \in Names, NEW form \in {"none", "sha"}, AdminCreate(i, n, form)
      PROVE  TypeOK'
  <2>1. users' \in [Ids -> Row] /\ carried' \in [Ids -> SUBSET Telegrams]
    <3>1. Create(i, n, None, form) /\ n \in UserNames
      BY <1>6 DEF AdminCreate, UserNames
    <3> QED BY <3>1, CreateAdds DEF Added
  <2> QED BY <1>3, <1>6, <2>1 DEF AdminCreate, TypeOK
<1>7. ASSUME NEW status \in Statuses, AdminStatus(i, status) PROVE TypeOK'
  <2>1. [users[i] EXCEPT !.status = status] \in Row
    BY <1>2 DEF Row
  <2>2. users' \in [Ids -> Row] /\ waiting' \subseteq Ids
    BY <1>7, <2>1 DEF AdminStatus, SetStatus, TypeOK
  <2> QED BY <1>3, <1>7, <2>2 DEF AdminStatus, TypeOK
<1>8. ASSUME NEW n \in Names, AdminRename(i, n) PROVE TypeOK'
  <2>1. [users[i] EXCEPT !.name = n] \in Row
    BY <1>2 DEF Row, UserNames
  <2>2. users' \in [Ids -> Row]
    BY <1>8, <2>1 DEF AdminRename, TypeOK
  <2> QED BY <1>3, <1>8, <2>2 DEF AdminRename, history, TypeOK
<1> QED
  BY <1>1, <1>4, <1>5, <1>6, <1>7, <1>8

LEMMA NextTypes == TypeOK /\ [Next]_vars => TypeOK'
<1> SUFFICES ASSUME TypeOK, [Next]_vars PROVE TypeOK'
  OBVIOUS
<1>1. ASSUME NEW se \in sessions, ExpireSession(se) PROVE TypeOK'
  BY <1>1 DEF ExpireSession, history, bounds, TypeOK
<1>2. CASE Crash
  BY <1>2, NobodyProper, PortalAssumption DEF Crash, Trouble, history, TypeOK
<1>3. CASE Tick
  BY <1>3 DEF Tick, history, bounds, TypeOK
<1>4. CASE UNCHANGED vars
  BY <1>4 DEF vars, history, bounds, TypeOK
<1> QED
  BY <1>1, <1>2, <1>3, <1>4, BeginTypes, StepTypes, RequestTypes DEF Next

LEMMA InitTypes == Init => TypeOK
  BY NobodyProper, PortalAssumption DEF Init, TypeOK

\* The users table, the map of sessions and the requests keep their shapes, in
\* particular the counter of failed logins stays below the lock.
THEOREM PortalTypeCorrect == Spec => []TypeOK
  BY InitTypes, NextTypes, PTL DEF Spec

-----------------------------------------------------------------------------
(* The invariant: first the parts of Linked that a step leaves to the rest. *)

LEMMA CallsMove ==
  ASSUME TypeOK, CallsPlaced, Grows, NEW s \in Slots, NEW c \in ProperCall, Set(s, c),
         Placed(c, Accounts', carried', now')
  PROVE  CallsPlaced'
<1>1. call'[s] = c /\ \A q \in Slots \ {s} : call'[q] = call[q]
  BY SlotMoves
<1>2. ASSUME NEW q \in Slots, q # s PROVE Placed(call[q], Accounts', carried', now')
  <2>1. call[q] \in Call /\ now \in Nat
    BY DEF TypeOK, ProperCall
  <2>2. call[q].seen.lock \in Nat
    BY <2>1 DEF Call
  <2> QED
    BY <2>1, <2>2 DEF CallsPlaced, Placed, Grows
<1> QED
  BY <1>1, <1>2 DEF CallsPlaced

LEMMA CallsStay ==
  ASSUME TypeOK, CallsPlaced, Grows, UNCHANGED call
  PROVE  CallsPlaced'
<1>1. ASSUME NEW q \in Slots PROVE Placed(call[q], Accounts', carried', now')
  <2>1. call[q] \in Call /\ now \in Nat
    BY DEF TypeOK, ProperCall
  <2>2. call[q].seen.lock \in Nat
    BY <2>1 DEF Call
  <2> QED
    BY <2>1, <2>2 DEF CallsPlaced, Placed, Grows
<1> QED
  BY <1>1 DEF CallsPlaced

LEMMA SessionsStay ==
  ASSUME SessionsLinked, Grows, sessions' \subseteq sessions
  PROVE  SessionsLinked'
  BY DEF SessionsLinked, Grows

LEMMA IdlePlaced == \A as, had, t : Placed(Idle, as, had, t)
  BY DEF Placed, Idle

\* Nothing happens to the accounts.
LEMMA RowsStay ==
  ASSUME TypeOK, RowsLinked, UNCHANGED <<users, strikes, carried>>
  PROVE  RowsLinked' /\ Accounts' = Accounts /\ LockStep /\ (UNCHANGED now => Grows)
<1>1. Accounts' = Accounts /\ RowsLinked'
  BY DEF RowsLinked, Accounts
<1>2. LockStep
  <2>1. \A i \in Ids : users[i].lock \in Nat
    BY DEF TypeOK, Row
  <2> QED BY <2>1 DEF LockStep
<1>3. UNCHANGED now => Grows
  BY <1>1 DEF Grows, TypeOK
<1> QED
  BY <1>1, <1>2, <1>3

\* An account is added.
LEMMA RowsAdded ==
  ASSUME TypeOK, RowsLinked, UNCHANGED <<strikes, now>>,
         NEW i, NEW n \in UserNames, NEW t \in Telegrams \cup {None},
         NEW form \in {"none", "argon", "sha"}, Create(i, n, t, form)
  PROVE  /\ RowsLinked' /\ LockStep /\ Grows
         /\ i \in Accounts' /\ (t # None => t \in carried'[i])
<1>1. Added(i, t)
  BY CreateAdds
<1>2. users[i].failed = 0 /\ users[i].lock = 0 /\ Accounts \subseteq Ids
  BY <1>1 DEF Added, RowsLinked, NoRow, Accounts
<1>3. Grows
  BY <1>1, <1>2 DEF Added, Grows, TypeOK
<1>4. RowsLinked'
  BY <1>1, <1>2 DEF Added, RowsLinked
<1>5. LockStep
  <2>1. \A j \in Ids : users[j].lock \in Nat
    BY DEF TypeOK, Row
  <2>2. now \in Nat
    BY DEF TypeOK
  <2> QED BY <1>1, <1>2, <2>1, <2>2 DEF Added, LockStep
<1> QED
  BY <1>1, <1>3, <1>4, <1>5 DEF Added

\* The row of an account changes in what nobody relies on.
LEMMA RowsEdited ==
  ASSUME TypeOK, RowsLinked, UNCHANGED <<carried, now>>, NEW i \in Accounts,
         \A j \in Ids \ {i} : users'[j] = users[j] /\ strikes'[j] = strikes[j],
         users'[i].name # None, users'[i].tg = users[i].tg,
         strikes'[i] = users'[i].failed
  PROVE  RowsLinked' /\ Accounts' = Accounts /\ Grows
<1>1. Accounts' = Accounts /\ i \in Ids
  BY DEF Accounts
<1>2. RowsLinked'
  BY <1>1 DEF RowsLinked, Accounts
<1> QED
  BY <1>1, <1>2 DEF Grows, TypeOK

LEMMA LinkedBegin ==
  ASSUME TypeOK, Linked, NEW s \in Slots, Begin(s)
  PROVE  Linked' /\ LockStep
<1> USE DEF Linked
<1>1. ASSUME NEW i \in Ids, NEW n \in Names, Register(s, i, n) PROVE Linked' /\ LockStep
  <2> DEFINE c == [Idle EXCEPT !.pc = IF RequireApproval THEN "reg_pending" ELSE "session",
                               !.id = i]
  <2>1. c \in ProperCall /\ c.tg = None /\ c.id = i /\ c.pc \in {"reg_pending", "session"}
    BY NobodyProper, PortalAssumption DEF ProperCall, Call, Idle
  <2>2. /\ n \in UserNames /\ Create(i, n, None, "argon") /\ Set(s, c)
        /\ UNCHANGED <<sessions, now, strikes>>
    BY <1>1 DEF Register, UserNames
  <2> HIDE DEF c
  <2>3. RowsLinked' /\ LockStep /\ Grows /\ i \in Accounts'
    BY <2>2, RowsAdded
  <2>4. CallsPlaced'
    <3>1. Placed(c, Accounts', carried', now')
      BY <2>1, <2>3 DEF Placed
    <3> QED BY <2>1, <2>2, <2>3, <3>1, CallsMove
  <2> QED
    BY <2>2, <2>3, <2>4, SessionsStay
<1>2. ASSUME NEW i \in Ids, NEW right \in BOOLEAN, LoginRead(s, i, right)
      PROVE  Linked' /\ LockStep
  <2> DEFINE c == [Idle EXCEPT !.pc = IF right THEN "login" ELSE "strike", !.id = i,
                     !.seen = [failed |-> users[i].failed, lock |-> users[i].lock]]
  <2>1. c \in ProperCall /\ c.tg = None /\ c.id = i /\ c.pc \in {"login", "strike"}
        /\ c.seen.lock = users[i].lock /\ users[i].lock \in Nat
    <3>1. users[i] \in Row
      BY DEF TypeOK
    <3> QED BY <3>1, NobodyProper DEF ProperCall, Call, Idle, Row
  <2>2. /\ Set(s, c) /\ i \in Accounts /\ ~Locked(i)
        /\ UNCHANGED <<users, sessions, now, strikes, carried>>
    BY <1>2 DEF LoginRead, history
  <2> HIDE DEF c
  <2>3. RowsLinked' /\ LockStep /\ Grows /\ Accounts' = Accounts
    BY <2>2, RowsStay
  <2>4. CallsPlaced'
    <3>1. now \in Nat
      BY DEF TypeOK
    <3>2. Placed(c, Accounts', carried', now')
      BY <2>1, <2>2, <2>3, <3>1 DEF Placed, Locked
    <3> QED BY <2>1, <2>2, <2>3, <3>2, CallsMove
  <2> QED
    BY <2>2, <2>3, <2>4, SessionsStay
<1>3. ASSUME NEW n \in Names, NEW t \in Telegrams, TelegramRead(s, n, t)
      PROVE  Linked' /\ LockStep
  <2> DEFINE create == [Idle EXCEPT !.name = n, !.tg = t, !.pc = "tg_create"]
             login(i) == [Idle EXCEPT !.name = n, !.tg = t, !.pc = "login", !.id = i]
  <2>1. /\ create \in ProperCall /\ create.pc = "tg_create"
        /\ \A i \in Ids : /\ login(i) \in ProperCall /\ login(i).pc = "login"
                          /\ login(i).id = i /\ login(i).tg = t
    BY NobodyProper DEF ProperCall, Call, Idle
  <2>2. /\ \/ Set(s, create)
           \/ \E i \in Accounts : users[i].tg = t /\ Set(s, login(i))
        /\ UNCHANGED <<users, sessions, now, strikes, carried>>
    BY <1>3 DEF TelegramRead, history
  <2>3. t # None /\ Accounts \subseteq Ids
    BY PortalAssumption DEF Accounts
  <2> HIDE DEF create, login
  <2>4. RowsLinked' /\ LockStep /\ Grows /\ Accounts' = Accounts
    BY <2>2, RowsStay
  <2>5. CallsPlaced'
    <3>1. CASE Set(s, create)
      <4>1. Placed(create, Accounts', carried', now')
        BY <2>1 DEF Placed
      <4> QED BY <2>1, <2>4, <3>1, <4>1, CallsMove
    <3>2. ASSUME NEW i \in Accounts, users[i].tg = t, Set(s, login(i)) PROVE CallsPlaced'
      <4>1. t \in carried'[i]
        BY <2>2, <2>3, <3>2 DEF RowsLinked
      <4>2. Placed(login(i), Accounts', carried', now')
        BY <2>1, <2>3, <2>4, <4>1 DEF Placed
      <4> QED BY <2>1, <2>3, <2>4, <3>2, <4>2, CallsMove
    <3> QED BY <2>2, <3>1, <3>2
  <2> QED
    BY <2>2, <2>4, <2>5, SessionsStay
<1> QED
  BY <1>1, <1>2, <1>3 DEF Begin

LEMMA LinkedStep ==
  ASSUME TypeOK, Linked, NEW s \in Slots, Step(s)
  PROVE  Linked' /\ LockStep
<1> USE DEF Linked
<1> DEFINE c == call[s]
<1>1. /\ c \in ProperCall /\ c \in Call /\ Placed(c, Accounts, carried, now)
      /\ now \in Nat /\ Accounts \subseteq Ids
  BY DEF TypeOK, ProperCall, CallsPlaced, Accounts
<1>2. CASE RegisterPending(s)
  <2>1. c.id \in Accounts
    BY <1>1, <1>2 DEF RegisterPending, Placed
  <2>2. Set(s, Idle) /\ UNCHANGED <<sessions, now, strikes, carried>>
    BY <1>2 DEF RegisterPending, history
  <2>3. RowsLinked' /\ LockStep /\ Grows
    <3>1. CASE SetStatus(c.id, "pending")
      <4>1. /\ \A j \in Ids \ {c.id} : users'[j] = users[j] /\ strikes'[j] = strikes[j]
            /\ users'[c.id].name # None /\ users'[c.id].tg = users[c.id].tg
            /\ strikes'[c.id] = users'[c.id].failed /\ users'[c.id].lock = users[c.id].lock
        <5>1. users[c.id] \in Row /\ strikes[c.id] = users[c.id].failed
              /\ users[c.id].name # None
          BY <1>1, <2>1 DEF TypeOK, RowsLinked, Accounts
        <5>2. users' = [users EXCEPT ![c.id] = [users[c.id] EXCEPT !.status = "pending"]]
          BY <3>1, <2>1, <1>1 DEF SetStatus, TypeOK
        <5> QED BY <1>1, <2>1, <2>2, <5>1, <5>2 DEF TypeOK, Row
      <4>2. RowsLinked' /\ Grows
        BY <2>1, <2>2, <4>1, RowsEdited
      <4>3. LockStep
        <5>1. \A i \in Ids : users[i].lock \in Nat
          BY DEF TypeOK, Row
        <5> QED BY <2>1, <4>1, <5>1 DEF LockStep
      <4> QED BY <4>2, <4>3
    <3>2. CASE UNCHANGED users
      BY <2>2, <3>2, RowsStay
    <3> QED BY <1>2, <3>1, <3>2 DEF RegisterPending
  <2>4. CallsPlaced'
    BY <2>2, <2>3, IdlePlaced, NobodyProper, CallsMove
  <2> QED
    BY <2>2, <2>3, <2>4, SessionsStay
<1>3. CASE LoginFailed(s)
  <2>1. c.id \in Accounts /\ c.id \in Ids
    BY <1>1, <1>3 DEF LoginFailed, Placed
  <2>2. /\ RecordFailedLogin(s, c.id) /\ Set(s, Idle) /\ UNCHANGED <<sessions, now, carried>>
        /\ strikes' = [strikes EXCEPT ![c.id] = IF users'[c.id].lock > 0 THEN 0 ELSE @ + 1]
    BY <1>3 DEF LoginFailed
  <2>3. /\ \A j \in Ids \ {c.id} : users'[j] = users[j]
        /\ users'[c.id].name = users[c.id].name /\ users'[c.id].tg = users[c.id].tg
        /\ users'[c.id].failed = IF users'[c.id].lock > 0 THEN 0 ELSE users[c.id].failed + 1
    BY <2>1, <2>2, StrikeRow
  <2>4. /\ strikes'[c.id] = users'[c.id].failed
        /\ \A j \in Ids \ {c.id} : strikes'[j] = strikes[j]
    BY <2>1, <2>2, <2>3 DEF RowsLinked, TypeOK
  <2>5. users[c.id].name # None
    BY <2>1 DEF Accounts
  <2>6. RowsLinked' /\ Grows
    BY <2>1, <2>2, <2>3, <2>4, <2>5, RowsEdited
  <2>7. LockStep
    <3>1. \A i \in Ids : users[i].lock \in Nat
      BY DEF TypeOK, Row
    <3>2. users[c.id].lock > now => c.tg # None \/ c.seen.lock # users[c.id].lock
      <4>1. c.tg = None => c.seen.lock <= now /\ c.seen.lock \in Nat
        BY <1>1, <1>3 DEF LoginFailed, Placed, Call
      <4> QED BY <1>1, <2>1, <3>1, <4>1
    <3> QED BY <1>3, <2>1, <2>3, <3>1, <3>2 DEF LockStep, LoginFailed
  <2>8. CallsPlaced'
    BY <2>2, <2>6, IdlePlaced, NobodyProper, CallsMove
  <2> QED
    BY <2>2, <2>6, <2>7, <2>8, SessionsStay
<1>4. CASE RecordLogin(s)
  <2>1. c.id \in Accounts /\ c.id \in Ids
    BY <1>1, <1>4 DEF RecordLogin, Placed
  <2>2. /\ users' = [users EXCEPT ![c.id] = [users[c.id] EXCEPT !.failed = 0, !.lock = 0]]
        /\ Set(s, [c EXCEPT !.pc = "session"]) /\ UNCHANGED <<sessions, now, carried>>
        /\ strikes' = [strikes EXCEPT ![c.id] = 0]
    BY <1>4, <2>1 DEF RecordLogin, TypeOK
  <2>3. /\ \A j \in Ids \ {c.id} : users'[j] = users[j] /\ strikes'[j] = strikes[j]
        /\ users'[c.id].name # None /\ users'[c.id].tg = users[c.id].tg
        /\ strikes'[c.id] = users'[c.id].failed
    <3>1. users[c.id] \in Row /\ users[c.id].name # None
      BY <2>1 DEF TypeOK, Accounts
    <3> QED BY <2>1, <2>2, <3>1 DEF TypeOK, Row
  <2>4. RowsLinked' /\ Grows /\ Accounts' = Accounts
    BY <2>1, <2>2, <2>3, RowsEdited
  <2>5. LockStep
    <3>1. \A i \in Ids : users[i].lock \in Nat
      BY DEF TypeOK, Row
    <3>2. users[c.id].lock > now => c.tg # None \/ c.seen.lock # users[c.id].lock
      <4>1. c.tg = None => c.seen.lock <= now /\ c.seen.lock \in Nat
        BY <1>1, <1>4 DEF RecordLogin, Placed, Call
      <4> QED BY <1>1, <2>1, <3>1, <4>1
    <3> QED BY <1>4, <2>1, <2>3, <3>1, <3>2 DEF LockStep, RecordLogin
  <2>6. CallsPlaced'
    <3> DEFINE d == [c EXCEPT !.pc = "session"]
    <3>1. d \in ProperCall /\ d.pc = "session" /\ d.id = c.id /\ d.tg = c.tg
      BY <1>1, <2>1 DEF ProperCall, Call
    <3>2. c.tg # None => c.tg \in carried'[c.id]
      BY <1>1, <1>4, <2>2 DEF RecordLogin, Placed
    <3>3. Set(s, d)
      BY <2>2
    <3> HIDE DEF d
    <3>4. Placed(d, Accounts', carried', now')
      BY <2>1, <2>4, <3>1, <3>2 DEF Placed
    <3> QED BY <2>4, <3>1, <3>3, <3>4, CallsMove
  <2> QED
    BY <2>2, <2>4, <2>5, <2>6, SessionsStay
<1>5. CASE CreateSession(s)
  <2>1. c.id \in Accounts /\ (c.tg # None => c.tg \in carried[c.id])
    BY <1>1, <1>5 DEF CreateSession, Placed
  <2>2. /\ sessions' = sessions \cup {[user |-> c.id, via |-> c.tg, expires |-> now + SessionTTL]}
        /\ Set(s, Idle) /\ UNCHANGED <<users, now, strikes, carried>>
    BY <1>5 DEF CreateSession, history
  <2>3. RowsLinked' /\ LockStep /\ Grows /\ Accounts' = Accounts
    BY <2>2, RowsStay
  <2>4. SessionsLinked'
    BY <2>1, <2>2, <2>3 DEF SessionsLinked
  <2>5. CallsPlaced'
    BY <2>2, <2>3, IdlePlaced, NobodyProper, CallsMove
  <2> QED
    BY <2>3, <2>4, <2>5
<1>6. ASSUME NEW i \in Ids, NEW n \in UserNames, c.tg \in Telegrams,
             Create(i, n, c.tg, "none"), Set(s, [c EXCEPT !.pc = "login", !.id = i]),
             UNCHANGED <<sessions, now, strikes>>
      PROVE  Linked' /\ LockStep
  <2> DEFINE d == [c EXCEPT !.pc = "login", !.id = i]
  <2>1. d \in ProperCall /\ d.pc = "login" /\ d.id = i /\ d.tg = c.tg /\ Set(s, d)
    BY <1>1, <1>6 DEF ProperCall, Call
  <2> HIDE DEF d
  <2>2. c.tg # None
    BY <1>6, PortalAssumption
  <2>3. RowsLinked' /\ LockStep /\ Grows /\ i \in Accounts' /\ c.tg \in carried'[i]
    BY <1>6, <2>2, RowsAdded
  <2>4. Placed(d, Accounts', carried', now')
    BY <2>1, <2>2, <2>3 DEF Placed
  <2>5. CallsPlaced'
    BY <2>1, <2>3, <2>4, CallsMove
  <2> QED
    BY <1>6, <2>3, <2>5, SessionsStay
<1>7. CASE TelegramCreate(s)
  <2>1. c.name \in UserNames /\ c.tg \in Telegrams
    BY <1>1, <1>7 DEF TelegramCreate, ProperCall, UserNames
  <2>2. ASSUME UNCHANGED <<users, carried>>, Set(s, [c EXCEPT !.pc = "tg_suffix"])
        PROVE  Linked' /\ LockStep
    <3> DEFINE d == [c EXCEPT !.pc = "tg_suffix"]
    <3>1. d \in ProperCall /\ d.pc = "tg_suffix" /\ Set(s, d)
      BY <1>1, <1>7, <2>2 DEF ProperCall, Call, TelegramCreate
    <3> HIDE DEF d
    <3>2. Placed(d, Accounts', carried', now')
      BY <3>1 DEF Placed
    <3>3. UNCHANGED <<sessions, now, strikes>>
      BY <1>7 DEF TelegramCreate
    <3>4. RowsLinked' /\ LockStep /\ Grows
      BY <2>2, <3>3, RowsStay
    <3>5. CallsPlaced'
      BY <3>1, <3>2, <3>4, CallsMove
    <3> QED BY <3>3, <3>4, <3>5, SessionsStay
  <2> QED
    BY <1>6, <1>7, <2>1, <2>2 DEF TelegramCreate
<1>8. CASE TelegramSuffix(s)
  <2>1. <<c.name, c.tg>> \in UserNames /\ c.tg \in Telegrams
    BY <1>1, <1>8 DEF TelegramSuffix, ProperCall, UserNames
  <2>2. ASSUME UNCHANGED <<users, carried>>, Set(s, Idle)
        PROVE  Linked' /\ LockStep
    <3>1. UNCHANGED <<sessions, now, strikes>>
      BY <1>8 DEF TelegramSuffix
    <3>2. RowsLinked' /\ LockStep /\ Grows
      BY <2>2, <3>1, RowsStay
    <3>3. CallsPlaced'
      BY <2>2, <3>2, IdlePlaced, NobodyProper, CallsMove
    <3> QED BY <3>1, <3>2, <3>3, SessionsStay
  <2> QED
    BY <1>6, <1>8, <2>1, <2>2 DEF TelegramSuffix
<1> QED
  BY <1>2, <1>3, <1>4, <1>5, <1>7, <1>8 DEF Step

LEMMA LinkedRequest ==
  ASSUME TypeOK, Linked, Request
  PROVE  Linked' /\ LockStep
<1> USE DEF Linked
<1>1. \A i \in Ids : users[i].lock \in Nat
  BY DEF TypeOK, Row
<1>2. ASSUME NEW i \in Accounts, UNCHANGED <<sessions, call, now, strikes, carried>>,
             NEW r \in Row, users' = [users EXCEPT ![i] = r],
             r.name # None, r.tg = users[i].tg, r.failed = users[i].failed,
             r.lock = users[i].lock
      PROVE  Linked' /\ LockStep
  <2>1. i \in Ids /\ users'[i] = r /\ \A j \in Ids \ {i} : users'[j] = users[j]
    BY <1>2, RowChanges DEF Accounts
  <2>2. strikes[i] = users[i].failed
    BY <2>1 DEF RowsLinked
  <2>3. RowsLinked' /\ Grows
    BY <1>2, <2>1, <2>2, RowsEdited
  <2>4. LockStep
    BY <1>1, <1>2, <2>1 DEF LockStep
  <2> QED
    BY <1>2, <2>3, <2>4, SessionsStay, CallsStay
<1>3. PICK i \in Ids :
        \/ \E t \in Telegrams : LinkTelegram(i, t)
        \/ SetPassword(i)
        \/ \E n \in Names, form \in {"none", "sha"} : AdminCreate(i, n, form)
        \/ \E status \in Statuses : AdminStatus(i, status)
        \/ \E n \in Names : AdminRename(i, n)
  BY DEF Request
<1>4. users[i] \in Row /\ (i \in Accounts <=> users[i].name # None)
  BY DEF TypeOK, Accounts
<1>5. ASSUME NEW t \in Telegrams, LinkTelegram(i, t) PROVE Linked' /\ LockStep
  <2> DEFINE r == [users[i] EXCEPT !.tg = t]
  <2>1. r \in Row /\ r.tg = t /\ r.name = users[i].name /\ r.failed = users[i].failed
        /\ r.lock = users[i].lock
    BY <1>4 DEF Row
  <2>2. /\ users' = [users EXCEPT ![i] = r]
        /\ \A j \in Accounts \ {i} : users[j].tg # t
        /\ carried' = [carried EXCEPT ![i] = @ \cup {t}]
        /\ UNCHANGED <<sessions, call, now, strikes>>
    BY <1>5 DEF LinkTelegram, TypeOK
  <2>3. i \in Accounts
    BY <1>5 DEF LinkTelegram, Alive, SessionsLinked
  <2> HIDE DEF r
  <2>4. users'[i] = r /\ \A j \in Ids \ {i} : users'[j] = users[j]
    BY <2>1, <2>2, RowChanges
  <2>5. carried'[i] = carried[i] \cup {t} /\ \A j \in Ids \ {i} : carried'[j] = carried[j]
    BY <2>2 DEF TypeOK
  <2>6. Accounts' = Accounts
    BY <1>4, <2>1, <2>3, <2>4 DEF Accounts
  <2>7. Grows
    BY <2>2, <2>5, <2>6 DEF Grows, Accounts, TypeOK
  <2>8. RowsLinked'
    <3>1. \A j \in Ids \ Accounts : users'[j] = NoRow
      BY <2>3, <2>4 DEF RowsLinked
    <3>2. \A j \in Accounts : users'[j].tg # None => users'[j].tg \in carried'[j]
      BY <2>1, <2>4, <2>5 DEF RowsLinked, Accounts
    <3>3. \A j \in Accounts \ {i} : users'[i].tg # users'[j].tg
      BY <2>1, <2>2, <2>4 DEF Accounts
    <3>4. \A j, k \in Accounts : j # k => users'[j].tg # users'[k].tg \/ users'[j].tg = None
      BY <2>3, <2>4, <3>3 DEF RowsLinked, Accounts
    <3>5. \A j \in Ids : strikes'[j] = users'[j].failed
      BY <2>1, <2>2, <2>4 DEF RowsLinked
    <3> QED
      BY <2>6, <3>1, <3>2, <3>4, <3>5 DEF RowsLinked
  <2>9. LockStep
    BY <1>1, <2>1, <2>4 DEF LockStep
  <2> QED
    BY <2>2, <2>7, <2>8, <2>9, SessionsStay, CallsStay
<1>6. CASE SetPassword(i)
  <2>1. /\ [users[i] EXCEPT !.pw = "argon"] \in Row /\ i \in Accounts
        /\ users' = [users EXCEPT ![i] = [users[i] EXCEPT !.pw = "argon"]]
        /\ UNCHANGED <<sessions, call, now, strikes, carried>>
    BY <1>4, <1>6 DEF SetPassword, history, TypeOK, Row
  <2> QED BY <1>2, <1>4, <2>1 DEF Row
<1>7. ASSUME NEW n \in Names, NEW form \in {"none", "sha"}, AdminCreate(i, n, form)
      PROVE  Linked' /\ LockStep
  <2>1. n \in UserNames /\ Create(i, n, None, form) /\ UNCHANGED <<sessions, call, now, strikes>>
    BY <1>7 DEF AdminCreate, UserNames
  <2>2. RowsLinked' /\ LockStep /\ Grows
    BY <2>1, RowsAdded
  <2> QED BY <2>1, <2>2, SessionsStay, CallsStay
<1>8. ASSUME NEW status \in Statuses, AdminStatus(i, status) PROVE Linked' /\ LockStep
  <2>1. /\ [users[i] EXCEPT !.status = status] \in Row /\ i \in Accounts
        /\ users' = [users EXCEPT ![i] = [users[i] EXCEPT !.status = status]]
        /\ UNCHANGED <<sessions, call, now, strikes, carried>>
    BY <1>4, <1>8 DEF AdminStatus, SetStatus, TypeOK, Row
  <2> QED BY <1>2, <1>4, <2>1 DEF Row
<1>9. ASSUME NEW n \in Names, AdminRename(i, n) PROVE Linked' /\ LockStep
  <2>1. /\ [users[i] EXCEPT !.name = n] \in Row /\ i \in Accounts /\ n # None
        /\ users' = [users EXCEPT ![i] = [users[i] EXCEPT !.name = n]]
        /\ UNCHANGED <<sessions, call, now, strikes, carried>>
    BY <1>4, <1>9, PortalAssumption DEF AdminRename, history, TypeOK, Row, UserNames
  <2> QED BY <1>2, <1>4, <2>1 DEF Row
<1> QED
  BY <1>3, <1>5, <1>6, <1>7, <1>8, <1>9

LEMMA LinkedNext == TypeOK /\ Linked /\ [Next]_vars => Linked' /\ LockStep
<1> SUFFICES ASSUME TypeOK, Linked, [Next]_vars PROVE Linked' /\ LockStep
  OBVIOUS
<1> USE DEF Linked
<1>1. ASSUME UNCHANGED <<users, strikes, carried, now>>, UNCHANGED call,
             sessions' \subseteq sessions
      PROVE  Linked' /\ LockStep
  BY <1>1, RowsStay, SessionsStay, CallsStay
<1>2. ASSUME NEW se \in sessions, ExpireSession(se) PROVE Linked' /\ LockStep
  BY <1>1, <1>2 DEF ExpireSession, history
<1>3. CASE Crash
  <2>1. /\ sessions' = {} /\ call' = [s \in Slots |-> Idle]
        /\ UNCHANGED <<users, now, strikes, carried>>
    BY <1>3 DEF Crash, history
  <2>2. RowsLinked' /\ LockStep
    BY <2>1, RowsStay
  <2>3. SessionsLinked' /\ CallsPlaced'
    BY <2>1, IdlePlaced DEF SessionsLinked, CallsPlaced
  <2> QED BY <2>2, <2>3
<1>4. CASE Tick
  <2>1. now' = now + 1 /\ UNCHANGED <<users, sessions, call, strikes, carried>>
    BY <1>4 DEF Tick, history
  <2>2. RowsLinked' /\ LockStep /\ Accounts' = Accounts
    BY <2>1, RowsStay
  <2>3. Grows
    BY <2>1, <2>2 DEF Grows, TypeOK
  <2> QED BY <2>1, <2>2, <2>3, SessionsStay, CallsStay
<1>5. CASE UNCHANGED vars
  BY <1>1, <1>5 DEF vars, history
<1> QED
  BY <1>2, <1>3, <1>4, <1>5, LinkedBegin, LinkedStep, LinkedRequest DEF Next

LEMMA LinkedInit == Init => Linked
<1> SUFFICES ASSUME Init PROVE Linked
  OBVIOUS
<1>1. \A i \in Ids : users[i] = NoRow /\ strikes[i] = 0
  BY DEF Init
<1>2. NoRow.name = None /\ NoRow.failed = 0
  BY DEF NoRow
<1>3. Accounts = {}
  BY <1>1, <1>2 DEF Accounts
<1>4. RowsLinked
  BY <1>1, <1>2, <1>3 DEF RowsLinked
<1>5. SessionsLinked /\ CallsPlaced
  BY IdlePlaced DEF Init, SessionsLinked, CallsPlaced
<1> QED
  BY <1>4, <1>5 DEF Linked

LEMMA AlwaysLinked == Spec => [](TypeOK /\ Linked)
<1>1. Init => TypeOK /\ Linked
  BY InitTypes, LinkedInit
<1>2. (TypeOK /\ Linked) /\ [Next]_vars => (TypeOK /\ Linked)'
  BY NextTypes, LinkedNext
<1> QED
  BY <1>1, <1>2, PTL DEF Spec

\* However its logins overlap, an account never takes LockAfter wrong passwords
\* in a row without being locked.
THEOREM LocksAreDue == Spec => []LockIsDue
<1>1. TypeOK /\ Linked => LockIsDue
  <2> SUFFICES ASSUME TypeOK, Linked, NEW i \in Ids PROVE strikes[i] < LockAfter
    BY DEF LockIsDue
  <2>1. users[i].failed \in 0..LockAfter - 1 /\ strikes[i] = users[i].failed
    BY DEF TypeOK, Row, Linked, RowsLinked
  <2> QED BY <2>1, PortalAssumption
<1> QED
  BY <1>1, AlwaysLinked, PTL

\* A lock in force is lifted early only by a Telegram login or by a login that
\* read the account before the lock was set.
THEOREM LocksHold == Spec => LockHolds
<1>1. TypeOK /\ Linked /\ [Next]_vars => [LockStep]_vars
  BY LinkedNext
<1>2. Spec => [][LockStep]_vars
  BY <1>1, AlwaysLinked, PTL DEF Spec
<1> QED
  BY <1>2 DEF LockHolds, LockStep

\* A Telegram login opens a session only on an account that has had its
\* identity, and an identity belongs to one account.
THEOREM IdentitiesSignInTheirOwn == Spec => []TelegramSignsOwn
<1>1. Linked => TelegramSignsOwn
  BY DEF Linked, RowsLinked, SessionsLinked, TelegramSignsOwn
<1> QED
  BY <1>1, AlwaysLinked, PTL

-----------------------------------------------------------------------------
(* Approval: who is active without it.                                     *)

Left == Unapproved \ Registering

WaitingKnown == waiting \subseteq Accounts

\* A step that makes nobody active: rows keep their names, whoever still waits
\* and is active was so before, and no registration is left.
Quiet ==
  /\ waiting' \subseteq waiting
  /\ \A j \in waiting : /\ users'[j].name # None
                        /\ j \in waiting' /\ users'[j].status = "active"
                             => users[j].status = "active"
  /\ Registering \subseteq Registering'

\* Only a registration that is cut off leaves somebody active.
LeftStep ==
  /\ WaitingKnown'
  /\ \/ Left' \subseteq Left
     \/ troubles' = troubles + 1 /\ Left' \subseteq Left \cup Registering

LEMMA QuietLeaves == ASSUME TypeOK, WaitingKnown, Quiet PROVE LeftStep
  BY DEF Quiet, LeftStep, Left, WaitingKnown, Unapproved, Accounts, TypeOK

\* A slot that is not between the statements of a registration moves on.
LEMMA SlotQuiet ==
  ASSUME TypeOK, NEW s \in Slots, NEW c \in ProperCall, Set(s, c),
         call[s].pc # "reg_pending"
  PROVE  Registering \subseteq Registering'
<1>1. \A q \in Slots : call[q].pc = "reg_pending" => call'[q] = call[q]
  BY SlotMoves
<1> QED
  BY <1>1 DEF Registering

LEMMA AddingQuiet ==
  ASSUME TypeOK, WaitingKnown, NEW i, NEW t, Added(i, t), waiting' \subseteq waiting,
         Registering \subseteq Registering'
  PROVE  Quiet
  BY DEF Added, Quiet, WaitingKnown, Accounts

LEMMA CallTypes ==
  ASSUME TypeOK, NEW s \in Slots
  PROVE  /\ call[s] \in ProperCall
         /\ call[s].pc \in {"reg_pending", "strike", "login", "session"} => call[s].id \in Ids
         /\ call[s].pc \in {"tg_create", "tg_suffix"} => call[s].name \in Names
                                                        /\ call[s].tg \in Telegrams
  BY DEF TypeOK, ProperCall

LEMMA LeftBegin ==
  ASSUME TypeOK, TypeOK', WaitingKnown, NEW s \in Slots, Begin(s)
  PROVE  LeftStep
<1>1. call[s].pc = "idle" /\ call' = [call EXCEPT ![s] = call'[s]]
      /\ call[s] \in ProperCall /\ call'[s] \in ProperCall
  BY DEF Begin, Register, LoginRead, TelegramRead, Free, Set, TypeOK
<1>2. Set(s, call'[s])
  BY <1>1 DEF Set
<1>3. Registering \subseteq Registering'
  BY <1>1, <1>2, SlotQuiet
<1>4. ASSUME UNCHANGED <<users, waiting>> PROVE LeftStep
  <2>1. Quiet
    BY <1>3, <1>4 DEF Quiet, WaitingKnown, Accounts
  <2> QED BY <2>1, QuietLeaves
<1>5. ASSUME NEW i \in Ids, NEW n \in Names, Register(s, i, n) PROVE LeftStep
  <2>1. n \in UserNames /\ Create(i, n, None, "argon")
    BY <1>5 DEF Register, UserNames
  <2>2. Added(i, None)
    BY <2>1, CreateAdds
  <2>3. CASE ~RequireApproval
    <3>1. waiting' = waiting
      BY <1>5, <2>3 DEF Register
    <3>2. Quiet
      BY <1>3, <2>2, <3>1, AddingQuiet
    <3> QED BY <3>2, QuietLeaves
  <2>4. CASE RequireApproval
    <3>1. waiting' = waiting \cup {i} /\ call'[s].pc = "reg_pending" /\ call'[s].id = i
      BY <1>5, <2>4 DEF Register, Set, Idle, TypeOK
    <3>2. i \in Registering'
      BY <3>1 DEF Registering
    <3>3. Left' \subseteq Left
      BY <1>3, <2>2, <3>1, <3>2 DEF Left, Unapproved, Added, TypeOK
    <3>4. WaitingKnown'
      BY <2>2, <3>1 DEF WaitingKnown, Added
    <3> QED BY <3>3, <3>4 DEF LeftStep
  <2> QED BY <2>3, <2>4
<1> QED
  BY <1>4, <1>5 DEF Begin, LoginRead, TelegramRead, history

LEMMA LeftMove ==
  ASSUME TypeOK, TypeOK', WaitingKnown, NEW s \in Slots, Step(s)
  PROVE  LeftStep
<1>1. call[s] \in ProperCall /\ call'[s] \in ProperCall /\ call' = [call EXCEPT ![s] = call'[s]]
  BY DEF Step, RegisterPending, LoginFailed, RecordLogin, CreateSession, TelegramCreate,
     TelegramSuffix, Set, TypeOK
<1>2. call[s].pc # "reg_pending" => Registering \subseteq Registering'
  BY <1>1, SlotQuiet DEF Set
<1>3. CASE RegisterPending(s)
  <2> DEFINE i == call[s].id
  <2>1. call[s].pc = "reg_pending" /\ i \in Ids /\ waiting' = waiting
        /\ \A q \in Slots \ {s} : call'[q] = call[q]
    BY <1>1, <1>3, CallTypes DEF RegisterPending, history, TypeOK
  <2>2. Registering \subseteq Registering' \cup {i}
    BY <2>1 DEF Registering
  <2>3. i \in Registering
    BY <2>1 DEF Registering
  <2>4. CASE SetStatus(i, "pending") /\ UNCHANGED troubles
    <3>1. /\ users'[i].status = "pending" /\ users'[i].name = users[i].name
          /\ \A j \in Ids \ {i} : users'[j] = users[j]
      BY <2>1, <2>4 DEF SetStatus, TypeOK, Row
    <3>2. WaitingKnown'
      BY <2>1, <3>1 DEF WaitingKnown, Accounts
    <3>3. Left' \subseteq Left
      BY <2>1, <2>2, <3>1 DEF Left, Unapproved, TypeOK
    <3> QED BY <3>2, <3>3 DEF LeftStep
  <2>5. CASE Trouble /\ UNCHANGED users
    <3>1. WaitingKnown' /\ Unapproved' = Unapproved
      BY <2>1, <2>5 DEF WaitingKnown, Accounts, Unapproved
    <3>2. Left' \subseteq Left \cup Registering
      BY <3>1 DEF Left
    <3> QED BY <2>5, <3>1, <3>2 DEF LeftStep, Trouble
  <2> QED BY <1>3, <2>4, <2>5 DEF RegisterPending
<1>4. CASE LoginFailed(s) \/ RecordLogin(s) \/ CreateSession(s)
  <2>1. call[s].pc \in {"strike", "login", "session"} /\ waiting' = waiting
    BY <1>4 DEF LoginFailed, RecordLogin, CreateSession, history
  <2>2. \A j \in Ids : users'[j].status = users[j].status /\ users'[j].name = users[j].name
    <3>1. call[s].id \in Ids
      BY <2>1, CallTypes
    <3>2. CASE LoginFailed(s)
      BY <3>1, <3>2 DEF LoginFailed, RecordFailedLogin, TypeOK, Row
    <3>3. CASE RecordLogin(s)
      BY <3>1, <3>3 DEF RecordLogin, TypeOK, Row
    <3>4. CASE CreateSession(s)
      BY <3>4 DEF CreateSession
    <3> QED BY <1>4, <3>2, <3>3, <3>4
  <2>3. Quiet
    BY <1>2, <2>1, <2>2 DEF Quiet, WaitingKnown, Accounts
  <2> QED BY <2>3, QuietLeaves
<1>5. CASE TelegramCreate(s) \/ TelegramSuffix(s)
  <2> DEFINE n == call[s].name
             t == call[s].tg
  <2>1. call[s].pc \in {"tg_create", "tg_suffix"} /\ waiting' = waiting
    BY <1>5 DEF TelegramCreate, TelegramSuffix
  <2>2. /\ n \in UserNames /\ <<n, t>> \in UserNames
        /\ t \in Telegrams \cup {None} /\ Registering \subseteq Registering'
    BY <1>2, <2>1, CallTypes DEF UserNames
  <2>3. (\E i \in Ids : Create(i, n, t, "none") \/ Create(i, <<n, t>>, t, "none"))
        \/ UNCHANGED users
    BY <1>5 DEF TelegramCreate, TelegramSuffix
  <2>4. CASE UNCHANGED users
    BY <2>1, <2>2, <2>4, QuietLeaves DEF Quiet, WaitingKnown, Accounts
  <2>5. ASSUME NEW i \in Ids, Create(i, n, t, "none") \/ Create(i, <<n, t>>, t, "none")
        PROVE  LeftStep
    <3>1. Added(i, t)
      BY <2>2, <2>5, CreateAdds
    <3>2. Quiet
      BY <2>1, <2>2, <3>1, AddingQuiet
    <3> QED BY <3>2, QuietLeaves
  <2> QED BY <2>3, <2>4, <2>5
<1> QED
  BY <1>3, <1>4, <1>5 DEF Step

LEMMA LeftRequest ==
  ASSUME TypeOK, TypeOK', WaitingKnown, Request
  PROVE  LeftStep
<1>1. call' = call /\ Registering' = Registering
  BY DEF Request, LinkTelegram, SetPassword, AdminCreate, AdminStatus, AdminRename, Registering
<1>2. ASSUME NEW i \in Ids, NEW n \in Names, NEW form \in {"none", "sha"},
             AdminCreate(i, n, form)
      PROVE  LeftStep
  <2>1. n \in UserNames /\ Create(i, n, None, form) /\ waiting' = waiting
    BY <1>2 DEF AdminCreate, UserNames
  <2>2. Added(i, None)
    BY <2>1, CreateAdds
  <2>3. Quiet
    BY <1>1, <2>1, <2>2, AddingQuiet
  <2> QED BY <2>3, QuietLeaves
<1>3. ASSUME NEW i \in Ids, NEW status \in Statuses, AdminStatus(i, status) PROVE LeftStep
  <2>1. /\ waiting' = waiting \ {i} /\ users'[i].name = users[i].name
        /\ \A j \in Ids \ {i} : users'[j] = users[j]
    BY <1>3 DEF AdminStatus, SetStatus, TypeOK, Row
  <2>2. Quiet
    BY <1>1, <2>1 DEF Quiet, WaitingKnown, Accounts
  <2> QED BY <2>2, QuietLeaves
<1>4. ASSUME NEW i \in Ids,
             \/ \E t \in Telegrams : LinkTelegram(i, t)
             \/ SetPassword(i)
             \/ \E n \in Names : AdminRename(i, n)
      PROVE  LeftStep
  <2>1. /\ waiting' = waiting
        /\ \A j \in Ids : /\ users'[j].status = users[j].status
                          /\ users[j].name # None => users'[j].name # None
    <3>1. CASE \E t \in Telegrams : LinkTelegram(i, t)
      BY <3>1 DEF LinkTelegram, TypeOK, Row
    <3>2. CASE SetPassword(i)
      BY <3>2 DEF SetPassword, history, TypeOK, Row
    <3>3. CASE \E n \in Names : AdminRename(i, n)
      BY <3>3, PortalAssumption DEF AdminRename, history, TypeOK, Row
    <3> QED BY <1>4, <3>1, <3>2, <3>3
  <2>2. Quiet
    BY <1>1, <2>1 DEF Quiet, WaitingKnown, Accounts
  <2> QED BY <2>2, QuietLeaves
<1> QED
  BY <1>2, <1>3, <1>4 DEF Request

LEMMA LeftNext == TypeOK /\ TypeOK' /\ WaitingKnown /\ [Next]_vars => LeftStep
<1> SUFFICES ASSUME TypeOK, TypeOK', WaitingKnown, [Next]_vars PROVE LeftStep
  OBVIOUS
<1>1. CASE Crash
  <2>1. WaitingKnown' /\ Unapproved' = Unapproved /\ troubles' = troubles + 1
    BY <1>1 DEF Crash, Trouble, history, WaitingKnown, Accounts, Unapproved
  <2> QED BY <2>1 DEF LeftStep, Left
<1>2. ASSUME (\E se \in sessions : ExpireSession(se)) \/ Tick \/ UNCHANGED vars PROVE LeftStep
  <2>1. UNCHANGED <<users, call, waiting>>
    BY <1>2 DEF ExpireSession, Tick, vars, history
  <2> QED BY <2>1, QuietLeaves DEF Quiet, WaitingKnown, Accounts, Registering
<1> QED
  BY <1>1, <1>2, LeftBegin, LeftMove, LeftRequest DEF Next

LEMMA TroublesGrow == [Next]_vars => troubles' = troubles \/ troubles' = troubles + 1
<1> SUFFICES ASSUME [Next]_vars PROVE troubles' = troubles \/ troubles' = troubles + 1
  OBVIOUS
<1>1. ASSUME NEW s \in Slots, Step(s) PROVE troubles' = troubles \/ troubles' = troubles + 1
  BY <1>1 DEF Step, RegisterPending, LoginFailed, RecordLogin, CreateSession, TelegramCreate,
     TelegramSuffix, Trouble, bounds
<1>2. ASSUME NEW s \in Slots, Begin(s) PROVE troubles' = troubles
  BY <1>2 DEF Begin, Register, LoginRead, TelegramRead
<1>3. ASSUME Request PROVE troubles' = troubles
  BY <1>3 DEF Request, LinkTelegram, SetPassword, AdminCreate, AdminStatus, AdminRename
<1>4. ASSUME (\E se \in sessions : ExpireSession(se)) \/ Crash \/ Tick \/ UNCHANGED vars
      PROVE  troubles' = troubles \/ troubles' = troubles + 1
  BY <1>4 DEF ExpireSession, Crash, Trouble, Tick, vars, bounds
<1> QED
  BY <1>1, <1>2, <1>3, <1>4 DEF Next

\* At most one registration per slot is between its statements.
LEMMA RegisteringBounded ==
  ASSUME TypeOK
  PROVE  IsFiniteSet(Registering) /\ Cardinality(Registering) <= Cardinality(Slots)
<1> DEFINE P == {t \in Slots : call[t].pc = "reg_pending"}
           f == [t \in P |-> call[t].id]
<1>1. IsFiniteSet(P) /\ Cardinality(P) <= Cardinality(Slots)
  BY FS_Subset, PortalAssumption
<1>2. f \in Surjection(P, Registering)
  BY DEF Surjection, Registering
<1>3. IsFiniteSet(Registering) /\ Cardinality(Registering) <= Cardinality(P)
  BY <1>1, <1>2, FS_Surjection
<1>4. Cardinality(P) \in Nat /\ Cardinality(Slots) \in Nat /\ Cardinality(Registering) \in Nat
  BY <1>1, <1>3, PortalAssumption, FS_CardinalityType
<1> HIDE DEF P
<1> QED BY <1>1, <1>3, <1>4

\* An account nobody approved is active only while it registers, but for those
\* whose registration a crash or a failed statement cut off.
THEOREM ApprovalIsAwaited == Spec => []ApprovalWaits
<1> DEFINE Inv == TypeOK /\ WaitingKnown /\ ApprovalWaits
<1>1. Init => Inv
  <2> SUFFICES ASSUME Init PROVE Inv
    OBVIOUS
  <2>1. waiting = {} /\ troubles = 0
    BY DEF Init
  <2>2. Unapproved \ Registering = {}
    BY <2>1 DEF Unapproved
  <2>3. Cardinality(Slots) \in Nat
    BY PortalAssumption, FS_CardinalityType
  <2>4. ApprovalWaits
    BY <2>1, <2>2, <2>3, FS_EmptySet DEF ApprovalWaits
  <2> QED BY <2>1, <2>4, InitTypes DEF WaitingKnown
<1>2. Inv /\ [Next]_vars => Inv'
  <2> SUFFICES ASSUME Inv, [Next]_vars PROVE Inv'
    OBVIOUS
  <2>1. TypeOK' /\ LeftStep
    BY NextTypes, LeftNext
  <2> DEFINE a == Cardinality(Left)
             b == Cardinality(Left')
             k == Cardinality(Slots)
             p == troubles * k
             q == troubles' * k
  <2>2. IsFiniteSet(Ids) /\ Left \subseteq Ids /\ Left' \subseteq Ids
    BY <2>1, PortalAssumption DEF Left, Unapproved, TypeOK
  <2>3. /\ IsFiniteSet(Left) /\ IsFiniteSet(Left') /\ a \in Nat /\ b \in Nat
        /\ k \in Nat
    <3>1. IsFiniteSet(Left) /\ IsFiniteSet(Left')
      BY <2>2, FS_Subset
    <3> QED BY <3>1, PortalAssumption, FS_CardinalityType
  <2>4. a <= p /\ troubles \in Nat /\ troubles' \in Nat /\ troubles <= troubles'
    <3>1. a <= p
      BY DEF Left, ApprovalWaits
    <3>2. troubles \in Nat /\ troubles' \in Nat
      BY <2>1, PortalAssumption DEF TypeOK
    <3>3. troubles' = troubles \/ troubles' = troubles + 1
      BY TroublesGrow
    <3> QED BY <3>1, <3>2, <3>3
  <2>5. p \in Nat /\ q \in Nat
    BY <2>3, <2>4
  <2>6. b <= q
    <3>1. CASE Left' \subseteq Left
      <4>1. b <= a
        BY <2>3, <3>1, FS_Subset
      <4>2. p <= q
        BY <2>3, <2>4
      <4> HIDE DEF a, b, k, p, q
      <4> QED BY <2>3, <2>4, <2>5, <4>1, <4>2
    <3>2. CASE troubles' = troubles + 1 /\ Left' \subseteq Left \cup Registering
      <4>1. IsFiniteSet(Left \cup Registering)
            /\ Cardinality(Left \cup Registering) <= a + k
        <5>1. IsFiniteSet(Registering) /\ Cardinality(Registering) <= k
          BY RegisteringBounded
        <5>2. /\ IsFiniteSet(Left \cup Registering)
              /\ Cardinality(Left \cup Registering)
                   = a + Cardinality(Registering) - Cardinality(Left \cap Registering)
          BY <2>3, <5>1, FS_Union
        <5>3. IsFiniteSet(Left \cap Registering)
          BY <2>3, FS_Subset
        <5>4. Cardinality(Left \cap Registering) \in Nat /\ Cardinality(Registering) \in Nat
          BY <5>1, <5>3, FS_CardinalityType
        <5> HIDE DEF a, k
        <5> QED BY <2>3, <5>1, <5>2, <5>4
      <4>2. b <= Cardinality(Left \cup Registering)
        BY <3>2, <4>1, FS_Subset
      <4>3. Cardinality(Left \cup Registering) \in Nat
        BY <4>1, FS_CardinalityType
      <4>4. q = p + k
        BY <2>3, <2>4, <3>2
      <4> HIDE DEF a, b, k, p, q
      <4> QED BY <2>3, <2>4, <2>5, <4>1, <4>2, <4>3, <4>4
    <3> QED BY <2>1, <3>1, <3>2 DEF LeftStep
  <2>7. ApprovalWaits'
    BY <2>6 DEF ApprovalWaits, Left
  <2> QED BY <2>1, <2>7 DEF LeftStep
<1>3. Inv => ApprovalWaits
  OBVIOUS
<1> QED
  BY <1>1, <1>2, <1>3, PTL DEF Spec
=============================================================================
