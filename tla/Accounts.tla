------------------------------ MODULE Accounts ------------------------------
(***************************************************************************)
(* The accounts of the panel: services/userService.ts behind               *)
(* auth/adminAuth.ts, login and tokens of services/adminService.ts, and    *)
(* what the panel does with the answers (api/client.ts, AccountPage,       *)
(* AdminLogin).                                                            *)
(*                                                                         *)
(* A request is checked against the row of its actor and goes on later,    *)
(* with what it read; its answer travels back to a browser whose token may *)
(* have changed meanwhile.                                                 *)
(***************************************************************************)
EXTENDS Integers, FiniteSets

CONSTANTS
  Users, Calls, None,
  InitialRole,     \* of each user, "none": there is no account yet
  Kinds,           \* bound: what is asked for
  Exclusive,       \* TRUE: PGlite; FALSE: one pg.Client (SharedConnection)
  MaxChanges       \* bound: requests that may change an account

Roles == { "tecnico", "admin", "operador" }
PatchKinds == { "promote", "demote", "deactivate", "reactivate", "reset" }
Changing == PatchKinds \cup { "create", "password" }
Results == { "200", "400", "401", "403", "409", "inactive", "session_changed" }

ASSUME AccountsAssumption ==
  /\ None \notin Users \cup Calls \cup Results \cup Int /\ IsFiniteSet(Users)
  /\ InitialRole \in [ Users -> Roles \cup { "none" } ]
  /\ \E u \in Users : InitialRole[u] = "admin"
  /\ Kinds \subseteq Changing \cup { "poll", "login" }
  /\ Exclusive \in BOOLEAN /\ MaxChanges \in Nat

VARIABLES
  rows,      \* admin_users
  stored,    \* localStorage of each user's browser: the version in its token
  call,      \* requests
  owner,     \* the request whose transaction PGlite is running
  changes,   \* how many were sent that change an account
  cut        \* history: the last version an administrator cut off, by user

vars == << rows, stored, call, owner, changes, cut >>

Idle ==
  [ stage |-> "idle", user |-> None, kind |-> "poll", target |-> None,
    token |-> None, role |-> "none", admins |-> {}, seen |-> None,
    result |-> None, fresh |-> None ]

Row(role, must) == [ role |-> role, active |-> TRUE, version |-> 0, must |-> must ]

Init ==
  /\ rows = [ u \in Users |-> Row(InitialRole[u], FALSE) ]
  /\ stored = [ u \in Users |-> None ]
  /\ call = [ c \in Calls |-> Idle ]
  /\ owner = None /\ changes = 0
  /\ cut = [ u \in Users |-> -1 ]

ActiveAdmins == { u \in Users : rows[u].role = "admin" /\ rows[u].active }

-----------------------------------------------------------------------------
(* Requests and answers                                                    *)

Goes(c, step) == call' = [ call EXCEPT ![c] = step ]

(* With PGlite a statement waits for the transaction in progress.          *)
Free(c) == Exclusive => owner \in { None, c }

Answers(c, result, fresh) ==
  Goes(c, [ stage |-> "answered", user |-> call[c].user, kind |-> call[c].kind,
            target |-> None, token |-> call[c].token, role |-> "none", admins |-> {},
            seen |-> None, result |-> result, fresh |-> fresh ])

Refuses(c, result) == Answers(c, result, None) /\ UNCHANGED rows

(* The panel adds the token it holds at that moment; only login has none.  *)
Sends(c, u, kind, target) ==
  /\ call[c].stage = "idle" /\ kind \in Kinds
  /\ kind = "login" <=> stored[u] = None
  /\ kind \notin PatchKinds \cup { "create" } => target = u
  /\ kind = "create" <=> rows[target].role = "none"
  /\ kind \in Changing => changes < MaxChanges
  /\ changes' = IF kind \in Changing THEN changes + 1 ELSE changes
  /\ Goes(c, [ stage |-> "sent", user |-> u, kind |-> kind, target |-> target,
               token |-> stored[u], role |-> "none", admins |-> {}, seen |-> None,
               result |-> None, fresh |-> None ])
  /\ UNCHANGED << rows, stored, owner, cut >>

(* requireAdmin and requirePermission: the role is the one of the row.     *)
Checks(c) ==
  LET r == rows[call[c].user]
      kind == call[c].kind
  IN /\ call[c].stage = "sent" /\ kind # "login" /\ Free(c)
     /\ IF ~ r.active
          THEN Refuses(c, "inactive")
        ELSE IF r.version # call[c].token
          THEN Refuses(c, "session_changed")
        ELSE IF \/ r.must /\ kind # "password"
                \/ kind \in PatchKinds \cup { "create" } /\ r.role = "operador"
                \/ kind = "password" /\ r.role = "tecnico"
          THEN Refuses(c, "403")
        ELSE IF kind = "poll"
          THEN Refuses(c, "200")
        ELSE Goes(c, [ call[c] EXCEPT !.stage = "checked", !.role = r.role ]) /\ UNCHANGED rows
     /\ UNCHANGED << stored, owner, changes, cut >>

(* login: a wrong password is answered like an inactive account, without a *)
(* reason.                                                                 *)
LogsIn(c) ==
  LET r == rows[call[c].user]
  IN /\ call[c].stage = "sent" /\ call[c].kind = "login" /\ Free(c)
     /\ \/ r.role # "none" /\ r.active /\ Answers(c, "200", r.version) /\ UNCHANGED rows
        \/ Refuses(c, "401")
     /\ UNCHANGED << stored, owner, changes, cut >>

-----------------------------------------------------------------------------
(* updateUser                                                              *)

(* Fault: the transaction does not keep others out.                        *)
PatchReadsUnlocked(c) ==
  /\ call[c].stage = "checked" /\ call[c].kind \in PatchKinds
  /\ Goes(c, [ call[c] EXCEPT !.stage = "read", !.admins = ActiveAdmins,
                              !.seen = rows[call[c].target] ])
  /\ UNCHANGED << rows, stored, owner, changes, cut >>

(* BEGIN, the active admins FOR UPDATE and the target.  Two requests on a  *)
(* shared connection are in one transaction, where no lock waits.  (What   *)
(* one of them rolls back of the other is SharedConnection's matter.)      *)
PatchReads(c) ==
  /\ call[c].stage = "checked" /\ call[c].kind \in PatchKinds /\ Free(c)
  /\ owner' = c
  /\ Goes(c, [ call[c] EXCEPT !.stage = "read", !.admins = ActiveAdmins,
                              !.seen = rows[call[c].target] ])
  /\ UNCHANGED << rows, stored, changes, cut >>

RoleAfter(kind, r) ==
  CASE kind = "promote" -> "admin" [] kind = "demote" -> "operador" [] OTHER -> r.role

ActiveAfter(kind, r) == kind = "reactivate" \/ (r.active /\ kind # "deactivate")

CutsSession(kind, r) ==
  RoleAfter(kind, r) # r.role \/ (r.active /\ ~ ActiveAfter(kind, r)) \/ kind = "reset"

(* Why updateUser throws, for an actor with a role and a target as read.   *)
Refused(role, me, target, kind, r, admins) ==
  LET roleChanges == RoleAfter(kind, r) # r.role
      deactivates == r.active /\ ~ ActiveAfter(kind, r)
  IN \/ r.role = "none"
     \/ r.role = "tecnico" /\ role # "tecnico"
     \/ me = target /\ (roleChanges \/ deactivates \/ kind = "reset")
     \/ r.role = "admin" /\ r.active /\ (deactivates \/ roleChanges) /\ admins \subseteq { target }

(* userActionState: the same rules written a second time, for the panel.   *)
ActionState(me, who) ==
  LET r == rows[who]
      support == r.role = "tecnico" /\ rows[me].role # "tecnico"
      lastAdmin == r.role = "admin" /\ r.active /\ Cardinality(ActiveAdmins) <= 1
  IN [ locked |-> support,
       changeRole |-> ~ support /\ who # me /\ ~ lastAdmin,
       deactivate |-> ~ support /\ (r.active => who # me /\ ~ lastAdmin),
       resetPassword |-> ~ support /\ who # me ]

(* ManageUserModal: what its fields and buttons let one send.              *)
Offered(me, who, kind) ==
  LET r == rows[who]
      state == ActionState(me, who)
  IN /\ r.role # "none" /\ ~ state.locked
     /\ \/ kind \in { "promote", "demote" } /\ RoleAfter(kind, r) # r.role /\ state.changeRole
        \/ kind = "deactivate" /\ r.active /\ state.deactivate
        \/ kind = "reactivate" /\ ~ r.active
        \/ kind = "reset" /\ r.active /\ state.resetPassword

(* Fault: deactivating does not touch token_version.                       *)
PatchedUncut(r, kind, cuts) ==
  [ r EXCEPT !.role = RoleAfter(kind, r), !.active = ActiveAfter(kind, r),
             !.must = kind = "reset" \/ @,
             !.version = IF cuts /\ kind # "deactivate" THEN @ + 1 ELSE @ ]

(* The columns of the patch, on the row as it is by then.                  *)
Patched(r, kind, cuts) ==
  [ r EXCEPT !.role = RoleAfter(kind, r), !.active = ActiveAfter(kind, r),
             !.must = kind = "reset" \/ @,
             !.version = IF cuts THEN @ + 1 ELSE @ ]

Releases(c) == owner' = IF owner = c THEN None ELSE owner

PatchWrites(c) ==
  LET kind == call[c].kind
      who == call[c].target
      cuts == CutsSession(kind, call[c].seen)
  IN /\ call[c].stage = "read" /\ kind \in PatchKinds /\ Free(c)
     /\ Releases(c)
     /\ IF Refused(call[c].role, call[c].user, who, kind, call[c].seen, call[c].admins)
          THEN Refuses(c, "400") /\ UNCHANGED cut
          ELSE /\ rows' = [ rows EXCEPT ![who] = Patched(@, kind, cuts) ]
               /\ cut' = [ cut EXCEPT ![who] = IF cuts THEN rows[who].version ELSE @ ]
               /\ Answers(c, "200", None)
     /\ UNCHANGED << stored, changes >>

-----------------------------------------------------------------------------
(* createUser and changeOwnPassword: no transaction                        *)

CreateReads(c) ==
  /\ call[c].stage = "checked" /\ call[c].kind = "create" /\ Free(c)
  /\ IF rows[call[c].target].role # "none"
       THEN Refuses(c, "409")
       ELSE Goes(c, [ call[c] EXCEPT !.stage = "read" ]) /\ UNCHANGED rows
  /\ UNCHANGED << stored, owner, changes, cut >>

(* The UNIQUE of the email decides between two requests.                   *)
CreateWrites(c) ==
  /\ call[c].stage = "read" /\ call[c].kind = "create" /\ Free(c)
  /\ IF rows[call[c].target].role # "none"
       THEN Refuses(c, "409")
       ELSE /\ \E role \in { "admin", "operador" } :
                 rows' = [ rows EXCEPT ![call[c].target] = Row(role, TRUE) ]
            /\ Answers(c, "200", None)
  /\ UNCHANGED << stored, owner, changes, cut >>

PasswordReads(c) ==
  /\ call[c].stage = "checked" /\ call[c].kind = "password" /\ Free(c)
  /\ \/ Refuses(c, "400")
     \/ Goes(c, [ call[c] EXCEPT !.stage = "read", !.seen = rows[call[c].user] ]) /\ UNCHANGED rows
  /\ UNCHANGED << stored, owner, changes, cut >>

WithNewPassword(r) == [ r EXCEPT !.must = FALSE, !.version = @ + 1 ]

PasswordWrites(c) ==
  LET u == call[c].user
  IN /\ call[c].stage = "read" /\ call[c].kind = "password" /\ Free(c)
     /\ rows' = [ rows EXCEPT ![u] = WithNewPassword(@) ]
     /\ Answers(c, "200", rows[u].version + 1)
     /\ UNCHANGED << stored, owner, changes, cut >>

(* The technical account changes its password with ADMIN_PASSWORD, when    *)
(* the server starts.                                                      *)
SeedRotates(u) ==
  /\ \A c \in Calls : call[c].stage \in { "idle", "answered" }
  /\ rows[u].role = "tecnico" /\ changes < MaxChanges
  /\ changes' = changes + 1
  /\ rows' = [ rows EXCEPT ![u].version = @ + 1 ]
  /\ UNCHANGED << stored, call, owner, cut >>

-----------------------------------------------------------------------------
(* The browser                                                             *)

(* A 401: login's own, or one with the reason requireAdmin gives.          *)
Unauthorized(c) == call[c].result \in { "401", "inactive", "session_changed" }

(* Fault: whatever token the request carried.                              *)
TokenAfterAny(c) ==
  LET u == call[c].user
  IN IF call[c].fresh # None THEN call[c].fresh
     ELSE IF Unauthorized(c) /\ call[c].kind # "login" THEN None
     ELSE stored[u]

(* storeToken of AccountPage and AdminLogin, handleAuthFailure.            *)
TokenAfter(c) ==
  LET u == call[c].user
  IN IF call[c].fresh # None THEN call[c].fresh
     ELSE IF Unauthorized(c) /\ call[c].kind # "login" /\ stored[u] = call[c].token
       THEN None
     ELSE stored[u]

Arrives(c) ==
  /\ call[c].stage = "answered"
  /\ stored' = [ stored EXCEPT ![call[c].user] = TokenAfter(c) ]
  /\ Goes(c, Idle)
  /\ UNCHANGED << rows, owner, changes, cut >>

AnswerLost(c) ==
  /\ call[c].stage = "answered"
  /\ Goes(c, Idle)
  /\ UNCHANGED << rows, stored, owner, changes, cut >>

Logout(u) ==
  /\ stored[u] # None
  /\ stored' = [ stored EXCEPT ![u] = None ]
  /\ UNCHANGED << rows, call, owner, changes, cut >>

Next ==
  \/ \E c \in Calls :
       \/ \E u, target \in Users, kind \in Kinds : Sends(c, u, kind, target)
       \/ Checks(c) \/ LogsIn(c)
       \/ PatchReads(c) \/ PatchWrites(c)
       \/ CreateReads(c) \/ CreateWrites(c)
       \/ PasswordReads(c) \/ PasswordWrites(c)
       \/ Arrives(c) \/ AnswerLost(c)
  \/ \E u \in Users : SeedRotates(u) \/ Logout(u)

Spec == Init /\ [][Next]_vars

-----------------------------------------------------------------------------
(* Properties                                                              *)

AccountRows ==
  [ role : Roles \cup { "none" }, active : BOOLEAN, version : Nat, must : BOOLEAN ]

(* A request from its sending to the arrival of its answer.                *)
Requests ==
  [ stage : { "sent", "checked", "read", "answered" }, user : Users, kind : Kinds,
    target : Users \cup { None }, token : Nat \cup { None },
    role : Roles \cup { "none" }, admins : SUBSET Users,
    seen : AccountRows \cup { None },
    result : Results \cup { None },
    fresh : Nat \cup { None } ]

(* What a row, a token and a request may hold; a transaction of PGlite is  *)
(* one of a request between its reads and its update                       *)
(* (userService.ts:115-163).                                               *)
TypeOK ==
  /\ rows \in [ Users -> AccountRows ]
  /\ stored \in [ Users -> Nat \cup { None } ]
  /\ call \in [ Calls -> Requests \cup { Idle } ]
  /\ \A c \in Calls : call[c].stage \in { "sent", "checked", "read" } => call[c].target \in Users
  /\ owner = None \/ (/\ owner \in Calls /\ call[owner].stage = "read"
                      /\ call[owner].kind \in PatchKinds)
  /\ changes \in 0 .. MaxChanges
  /\ cut \in [ Users -> Int ]

(* No sequence of requests, at the same time or not, leaves the panel      *)
(* without an active administrator (userService.ts:113-138).               *)
AdminRemains == ActiveAdmins # {}

(* A token that deactivation, a change of role or a reset cut off is never *)
(* good again, whatever else happens to the account: reactivation, another *)
(* creation, a login that was under way (userService.ts:143-151).          *)
CutStaysCut == \A u \in Users : rows[u].version > cut[u]

Valid(u, token) == rows[u].active /\ rows[u].version = token

(* The answer to a request makes the panel drop its token only when that   *)
(* token is no longer good, whatever other tokens were given out since, or *)
(* when the account had been found inactive: a reactivation does not cut,  *)
(* and may come before that answer (client.ts:42-62).                      *)
OnlyDeadTokensDropped ==
  [][ \A u \in Users :
        stored[u] # None /\ stored'[u] = None /\ call' # call =>
          \/ ~ Valid(u, stored[u])
          \/ \E c \in Calls : call[c].user = u /\ call[c].result = "inactive" /\ call'[c] = Idle ]_vars

(* Without the exception for reactivated accounts: a change of password    *)
(* under way gives an account that was just deactivated a token of its new *)
(* version; refused as inactive and reactivated, it was good all along.    *)
OnlyInvalidTokensDropped ==
  [][ \A u \in Users :
        stored[u] # None /\ stored'[u] = None /\ call' # call => ~ Valid(u, stored[u]) ]_vars

-----------------------------------------------------------------------------
(* Why they hold: what the rows are to what requests and browsers remember *)
(* of them, in every reachable state.                                      *)

(* Tokens are given out for accounts there are, and never ahead of them;   *)
(* nobody but who logs in comes without one.                               *)
TokensAreDealt ==
  /\ \A u \in Users : stored[u] # None => rows[u].role # "none" /\ stored[u] <= rows[u].version
  /\ \A c \in Calls : call[c].stage # "idle" =>
       LET r == rows[call[c].user]
       IN \A token \in { call[c].token, call[c].fresh } :
            token # None => r.role # "none" /\ token <= r.version
  /\ \A c \in Calls :
       call[c].stage # "idle" /\ call[c].kind # "login" => call[c].token # None

(* A token that was refused as out of date stays out of date; without a    *)
(* reason only a login is refused.                                         *)
RefusedIsOld ==
  \A c \in Calls :
    /\ call[c].result = "session_changed" /\ call[c].token # None =>
         call[c].token < rows[call[c].user].version
    /\ call[c].result = "401" => call[c].kind = "login"

(* Nobody cut off an account that is not there; one that was read is.      *)
CutsAreOfAccounts ==
  /\ \A u \in Users : rows[u].role = "none" => cut[u] = -1
  /\ \A c \in Calls :
       call[c].stage = "read" /\ call[c].kind \in PatchKinds =>
         /\ call[c].seen \in AccountRows
         /\ call[c].seen.role # "none" => rows[call[c].target].role # "none"

(* With PGlite, what a patch has read is how things are.                   *)
ReadsAreCurrent ==
  Exclusive =>
    \A c \in Calls :
      call[c].stage = "read" /\ call[c].kind \in PatchKinds =>
        /\ owner = c
        /\ call[c].admins = ActiveAdmins
        /\ call[c].seen = rows[call[c].target]

Inv ==
  /\ TypeOK
  /\ TokensAreDealt /\ RefusedIsOld /\ CutsAreOfAccounts /\ ReadsAreCurrent
  /\ CutStaysCut
  /\ Exclusive => AdminRemains

(* userRules.ts:15: "the same rules the server applies".  Somebody with the*)
(* right to is offered exactly the changes that updateUser would make, on  *)
(* accounts as they are; only a password of an inactive account is not     *)
(* reset from the panel.                                                   *)
PanelAgrees ==
  \A me, who \in Users, kind \in PatchKinds :
    LET r == rows[who]
        matters == \/ kind = "reset" /\ r.active
                   \/ RoleAfter(kind, r) # r.role
                   \/ ActiveAfter(kind, r) # r.active
    IN rows[me].role \in { "tecnico", "admin" } /\ rows[me].active =>
         ( Offered(me, who, kind)
             <=> matters /\ ~ Refused(rows[me].role, me, who, kind, r, ActiveAdmins) )

(* Who changes the own password gets a token that is good only in exchange *)
(* for one that is: a session that was cut stays cut until the next login  *)
(* (userService.ts:197-223).                                               *)
CutEndsSession ==
  [][ \A c \in Calls :
        call[c].kind = "password" /\ call[c].stage = "read" /\ call'[c].stage = "answered" =>
          Valid(call[c].user, call[c].token) ]_vars

(* Who changed the own password is not thrown out of the panel while the   *)
(* new token is on its way (AccountPage.tsx:37-43).                        *)
ChangerStaysIn ==
  [][ \A c \in Calls :
        call[c].kind = "password" /\ call[c].stage = "answered" /\ call'[c] = call[c]
        /\ call[c].fresh = rows[call[c].user].version /\ rows[call[c].user].active
        /\ call' # call =>
          ~ (stored[call[c].user] # None /\ stored'[call[c].user] = None) ]_vars
=============================================================================
