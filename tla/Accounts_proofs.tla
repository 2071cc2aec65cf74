--------------------------- MODULE Accounts_proofs ---------------------------
(***************************************************************************)
(* Theorems about Accounts: an administrator remains, what was cut stays   *)
(* cut, and no good token is dropped.                                      *)
(***************************************************************************)
EXTENDS Accounts, FiniteSetTheorems, TLAPS

(* One request moves, the others stay.                                     *)
LEMMA Moves ==
  ASSUME TypeOK, NEW c \in Calls, NEW step, Goes(c, step)
  PROVE  /\ call'[c] = step
         /\ \A d \in Calls \ {c} : call'[d] = call[d]
         /\ step \in Requests \cup { Idle } => call' \in [ Calls -> Requests \cup { Idle } ]
BY DEF Goes, TypeOK

LEMMA Requested ==
  ASSUME TypeOK, NEW c \in Calls, call[c].stage # "idle"
  PROVE  call[c] \in Requests
BY DEF TypeOK, Idle

(* What the stage of a request tells about the request itself.             *)
LEMMA AnswerGiven ==
  ASSUME TypeOK, NEW c \in Calls, call[c].stage # "idle",
         NEW result \in Results,
         NEW fresh \in Nat \cup { None }, Answers(c, result, fresh)
  PROVE  /\ call'[c] \in Requests
         /\ call'[c].stage = "answered" /\ call'[c].user = call[c].user
         /\ call'[c].kind = call[c].kind /\ call'[c].token = call[c].token
         /\ call'[c].result = result /\ call'[c].fresh = fresh
         /\ \A d \in Calls \ {c} : call'[d] = call[d]
         /\ call' \in [ Calls -> Requests \cup { Idle } ]
<1> DEFINE step == [ stage |-> "answered", user |-> call[c].user, kind |-> call[c].kind,
                     target |-> None, token |-> call[c].token, role |-> "none",
                     admins |-> {}, seen |-> None, result |-> result, fresh |-> fresh ]
<1>1. step \in Requests
  BY Requested, AccountsAssumption DEF Requests
<1>2. Goes(c, step)
  BY DEF Answers
<1> QED
  BY <1>1, <1>2, Moves

(* Every change of the rows is one of these; the columns keep their types. *)
LEMMA RowsChange ==
  ASSUME TypeOK, NEW u \in Users, NEW row \in AccountRows,
         rows' = [ rows EXCEPT ![u] = row ]
  PROVE  /\ rows' \in [ Users -> AccountRows ]
         /\ rows'[u] = row
         /\ \A v \in Users \ {u} : rows'[v] = rows[v]
BY DEF TypeOK

LEMMA PatchedRow ==
  ASSUME NEW r \in AccountRows, NEW kind \in PatchKinds, NEW cuts \in BOOLEAN
  PROVE  /\ Patched(r, kind, cuts) \in AccountRows
         /\ Patched(r, kind, cuts).role = RoleAfter(kind, r)
         /\ Patched(r, kind, cuts).active = ActiveAfter(kind, r)
         /\ Patched(r, kind, cuts).version = IF cuts THEN r.version + 1 ELSE r.version
<1>1. RoleAfter(kind, r) \in Roles \cup { "none" }
  BY DEF RoleAfter, AccountRows, Roles, PatchKinds
<1>2. ActiveAfter(kind, r) \in BOOLEAN
  BY DEF ActiveAfter
<1>3. PICK must \in BOOLEAN : must <=> (kind = "reset" \/ r.must)
  OBVIOUS
<1>4. PICK version \in Nat : version = IF cuts THEN r.version + 1 ELSE r.version
  BY DEF AccountRows
<1>5. Patched(r, kind, cuts) =
        [ r EXCEPT !.role = RoleAfter(kind, r), !.active = ActiveAfter(kind, r),
                   !.must = must, !.version = version ]
  BY <1>3, <1>4 DEF Patched, AccountRows
<1> QED
  BY <1>1, <1>2, <1>4, <1>5 DEF AccountRows

LEMMA CutsIsBoolean ==
  ASSUME NEW r, NEW kind
  PROVE  CutsSession(kind, r) \in BOOLEAN
BY DEF CutsSession

(* A request that starts.                                                  *)
LEMMA Starts ==
  ASSUME TypeOK, NEW c \in Calls, NEW u \in Users, NEW target \in Users,
         NEW kind \in Kinds, Sends(c, u, kind, target)
  PROVE  /\ call'[c] \in Requests /\ call'[c].stage = "sent" /\ call'[c].user = u
         /\ call'[c].token = stored[u] /\ call'[c].fresh = None /\ call'[c].result = None
         /\ call'[c].target = target /\ call'[c].kind = kind
         /\ \A d \in Calls \ {c} : call'[d] = call[d]
         /\ call' \in [ Calls -> Requests \cup { Idle } ]
<1> DEFINE step == [ stage |-> "sent", user |-> u, kind |-> kind, target |-> target,
                     token |-> stored[u], role |-> "none", admins |-> {}, seen |-> None,
                     result |-> None, fresh |-> None ]
<1>1. step \in Requests
  BY DEF TypeOK, Requests
<1>2. Goes(c, step)
  BY DEF Sends
<1> QED
  BY <1>1, <1>2, Moves

(* A transaction that is open belongs to a request that reads.             *)
LEMMA OwnerKept ==
  ASSUME TypeOK, NEW c \in Calls, owner' = owner,
         \A d \in Calls \ {c} : call'[d] = call[d],
         call[c].stage # "read" \/ call[c].kind \notin PatchKinds
  PROVE  owner' = None \/ (/\ owner' \in Calls /\ call'[owner'].stage = "read"
                           /\ call'[owner'].kind \in PatchKinds)
BY DEF TypeOK

(* The steps of a request that only look: what it is afterwards, and what  *)
(* it knows.                                                               *)
Looks(c) == Checks(c) \/ LogsIn(c) \/ PatchReads(c) \/ CreateReads(c) \/ PasswordReads(c)

Looked(c) ==
  /\ UNCHANGED << rows, stored, changes, cut >> /\ Free(c)
  /\ call[c].stage \in { "sent", "checked" }
  /\ call' \in [ Calls -> Requests \cup { Idle } ]
  /\ \A d \in Calls \ {c} : call'[d] = call[d]
  /\ call'[c] \in Requests
  /\ call'[c].user = call[c].user /\ call'[c].token = call[c].token
  /\ call'[c].kind = call[c].kind
  /\ call'[c].stage = "answered" \/ call'[c].target = call[c].target
  /\ \/ call'[c].fresh \in { None, call[c].fresh }
     \/ /\ rows[call[c].user].role # "none"
        /\ call'[c].fresh = rows[call[c].user].version
  /\ call'[c].result = "session_changed" =>
       call[c].result = "session_changed" \/ rows[call[c].user].version # call[c].token
  /\ call'[c].result = "401" => call[c].result = "401" \/ call[c].kind = "login"
  /\ \/ owner' = owner /\ (call'[c].stage = "read" => call[c].kind \notin PatchKinds)
     \/ /\ owner' = c /\ call'[c].stage = "read" /\ call[c].kind \in PatchKinds
        /\ call'[c].admins = ActiveAdmins
        /\ call'[c].seen = rows[call[c].target] /\ call'[c].seen \in AccountRows

LEMMA LooksLooked == ASSUME TypeOK, NEW c \in Calls, Looks(c) PROVE Looked(c)
<1>1. /\ call[c].stage \in { "sent", "checked" } /\ call[c] \in Requests
      /\ UNCHANGED << rows, stored, changes, cut >> /\ Free(c)
  BY Requested DEF Looks, Checks, LogsIn, PatchReads, CreateReads, PasswordReads, Refuses
<1>2. /\ call[c].user \in Users /\ call[c].target \in Users
      /\ rows[call[c].user] \in AccountRows /\ rows[call[c].target] \in AccountRows
      /\ rows[call[c].user].version \in Nat
      /\ rows[call[c].user].role \in Roles \cup { "none" }
      /\ ActiveAdmins \in SUBSET Users
  BY <1>1 DEF TypeOK, Requests, AccountRows, ActiveAdmins
<1>3. ASSUME NEW result \in Results,
             Refuses(c, result), owner' = owner,
             result = "session_changed" => rows[call[c].user].version # call[c].token,
             result = "401" => call[c].kind = "login"
      PROVE  Looked(c)
  <2>1. Answers(c, result, None) /\ call[c].stage # "idle"
    BY <1>1, <1>3 DEF Refuses
  <2>2. /\ call'[c] \in Requests
        /\ call'[c].stage = "answered" /\ call'[c].user = call[c].user
        /\ call'[c].kind = call[c].kind /\ call'[c].token = call[c].token
        /\ call'[c].result = result /\ call'[c].fresh = None
        /\ \A d \in Calls \ {c} : call'[d] = call[d]
        /\ call' \in [ Calls -> Requests \cup { Idle } ]
    BY <2>1, AnswerGiven
  <2> QED
    BY <1>1, <1>3, <2>2 DEF Looked
<1>4. CASE Checks(c)
  <2>1. CASE Goes(c, [ call[c] EXCEPT !.stage = "checked", !.role = rows[call[c].user].role ])
    <3>1. PICK step : step = [ call[c] EXCEPT !.stage = "checked", !.role = rows[call[c].user].role ]
      OBVIOUS
    <3>2. /\ step \in Requests /\ step.stage = "checked" /\ step.user = call[c].user
          /\ step.token = call[c].token /\ step.kind = call[c].kind
          /\ step.target = call[c].target /\ step.fresh = call[c].fresh
          /\ step.result = call[c].result
      BY <1>1, <1>2, <3>1 DEF Requests
    <3> QED
      <4>1. Goes(c, step)
        BY <2>1, <3>1
      <4>2. /\ call'[c] = step
            /\ \A d \in Calls \ {c} : call'[d] = call[d]
            /\ call' \in [ Calls -> Requests \cup { Idle } ]
        BY <3>2, <4>1, Moves
      <4>3. owner' = owner
        BY <1>4 DEF Checks
      <4> QED
        BY <1>1, <3>2, <4>2, <4>3 DEF Looked
  <2> QED
    BY <1>3, <1>4, <2>1 DEF Checks, Results
<1>5. CASE LogsIn(c)
  BY <1>1, <1>2, <1>3, <1>5, AnswerGiven DEF LogsIn, Looked, Results
<1>6. CASE PatchReads(c)
  <2>1. PICK step : step = [ call[c] EXCEPT !.stage = "read", !.admins = ActiveAdmins,
                                            !.seen = rows[call[c].target] ]
    OBVIOUS
  <2>2. /\ step \in Requests /\ step.stage = "read" /\ step.user = call[c].user
        /\ step.token = call[c].token /\ step.kind = call[c].kind
        /\ step.target = call[c].target /\ step.fresh = call[c].fresh
        /\ step.result = call[c].result /\ step.admins = ActiveAdmins
        /\ step.seen = rows[call[c].target]
    BY <1>1, <1>2, <2>1 DEF Requests
  <2> QED
    <3>1. Goes(c, step) /\ owner' = c /\ call[c].kind \in PatchKinds
      BY <1>6, <2>1 DEF PatchReads
    <3>2. /\ call'[c] = step
          /\ \A d \in Calls \ {c} : call'[d] = call[d]
          /\ call' \in [ Calls -> Requests \cup { Idle } ]
      BY <2>2, <3>1, Moves
    <3> QED
      BY <1>1, <1>2, <2>2, <3>1, <3>2 DEF Looked
<1>7. CASE CreateReads(c)
  <2>1. CASE Goes(c, [ call[c] EXCEPT !.stage = "read" ])
    <3>1. PICK step : step = [ call[c] EXCEPT !.stage = "read" ]
      OBVIOUS
    <3>2. /\ step \in Requests /\ step.stage = "read" /\ step.user = call[c].user
          /\ step.token = call[c].token /\ step.kind = call[c].kind
          /\ step.target = call[c].target /\ step.fresh = call[c].fresh
          /\ step.result = call[c].result
      BY <1>1, <3>1 DEF Requests
    <3> QED
      BY <1>1, <1>7, <2>1, <3>1, <3>2, Moves DEF Looked, CreateReads, PatchKinds
  <2> QED
    BY <1>3, <1>7, <2>1 DEF CreateReads, Results
<1>8. CASE PasswordReads(c)
  <2>1. CASE Goes(c, [ call[c] EXCEPT !.stage = "read", !.seen = rows[call[c].user] ])
    <3>1. PICK step : step = [ call[c] EXCEPT !.stage = "read", !.seen = rows[call[c].user] ]
      OBVIOUS
    <3>2. /\ step \in Requests /\ step.stage = "read" /\ step.user = call[c].user
          /\ step.token = call[c].token /\ step.kind = call[c].kind
          /\ step.target = call[c].target /\ step.fresh = call[c].fresh
          /\ step.result = call[c].result
      BY <1>1, <1>2, <3>1 DEF Requests
    <3> QED
      BY <1>1, <1>8, <2>1, <3>1, <3>2, Moves DEF Looked, PasswordReads, PatchKinds
  <2> QED
    BY <1>3, <1>8, <2>1 DEF PasswordReads, Results
<1> QED
  BY <1>4, <1>5, <1>6, <1>7, <1>8 DEF Looks

(* The steps that write: the request is answered, and one row changes.     *)
Wrote(c, fresh) ==
  /\ call[c].stage = "read" /\ Free(c)
  /\ call' \in [ Calls -> Requests \cup { Idle } ]
  /\ \A d \in Calls \ {c} : call'[d] = call[d]
  /\ call'[c] \in Requests /\ call'[c].stage = "answered"
  /\ call'[c].user = call[c].user /\ call'[c].token = call[c].token
  /\ call'[c].kind = call[c].kind
  /\ call'[c].fresh = fresh /\ call'[c].result \notin { "401", "session_changed" }

LEMMA AnswersWrote ==
  ASSUME TypeOK, NEW c \in Calls, call[c].stage = "read", Free(c),
         NEW result \in { "200", "400", "409" }, NEW fresh \in Nat \cup { None },
         Answers(c, result, fresh)
  PROVE  Wrote(c, fresh)
<1>1. /\ call'[c] \in Requests
      /\ call'[c].stage = "answered" /\ call'[c].user = call[c].user
      /\ call'[c].token = call[c].token /\ call'[c].kind = call[c].kind
      /\ call'[c].result = result /\ call'[c].fresh = fresh
      /\ \A d \in Calls \ {c} : call'[d] = call[d]
      /\ call' \in [ Calls -> Requests \cup { Idle } ]
  BY AnswerGiven DEF Results
<1> QED
  BY <1>1 DEF Wrote

(* What a request that reads knows of itself.                              *)
LEMMA Reader ==
  ASSUME TypeOK, NEW c \in Calls, call[c].stage = "read"
  PROVE  /\ call[c] \in Requests /\ call[c].user \in Users /\ call[c].target \in Users
         /\ rows[call[c].user] \in AccountRows /\ rows[call[c].target] \in AccountRows
BY Requested DEF TypeOK, Requests

(* The patch: refused, or the row of the target as Patched makes it.       *)
LEMMA PatchWrote ==
  ASSUME TypeOK, NEW c \in Calls, PatchWrites(c)
  PROVE  /\ Wrote(c, None) /\ UNCHANGED << stored, changes >>
         /\ call[c].kind \in PatchKinds
         /\ owner' = IF owner = c THEN None ELSE owner
         /\ \/ UNCHANGED << rows, cut >>
            \/ LET who == call[c].target
                   kind == call[c].kind
                   cuts == CutsSession(kind, call[c].seen)
               IN /\ ~ Refused(call[c].role, call[c].user, who, kind, call[c].seen, call[c].admins)
                  /\ rows'[who] = Patched(rows[who], kind, cuts)
                  /\ rows' \in [ Users -> AccountRows ]
                  /\ \A v \in Users \ { who } : rows'[v] = rows[v]
                  /\ cut' = [ cut EXCEPT ![who] = IF cuts THEN rows[who].version ELSE @ ]
<1> DEFINE who == call[c].target
           kind == call[c].kind
           cuts == CutsSession(kind, call[c].seen)
<1>1. /\ call[c].stage = "read" /\ kind \in PatchKinds /\ Free(c)
      /\ UNCHANGED << stored, changes >>
      /\ owner' = IF owner = c THEN None ELSE owner
  BY DEF PatchWrites, Releases
<1>2. who \in Users /\ rows[who] \in AccountRows
  BY <1>1, Reader
<1>3. CASE Refused(call[c].role, call[c].user, who, kind, call[c].seen, call[c].admins)
  <2>1. Answers(c, "400", None) /\ UNCHANGED << rows, cut >>
    BY <1>3 DEF PatchWrites, Refuses
  <2>2. Wrote(c, None)
    BY <1>1, <2>1, AnswersWrote
  <2> QED
    BY <1>1, <2>1, <2>2
<1>4. CASE ~ Refused(call[c].role, call[c].user, who, kind, call[c].seen, call[c].admins)
  <2>1. /\ rows' = [ rows EXCEPT ![who] = Patched(rows[who], kind, cuts) ]
        /\ cut' = [ cut EXCEPT ![who] = IF cuts THEN rows[who].version ELSE @ ]
        /\ Answers(c, "200", None)
    BY <1>2, <1>4 DEF PatchWrites, TypeOK
  <2>2. Wrote(c, None)
    BY <1>1, <2>1, AnswersWrote
  <2>3. Patched(rows[who], kind, cuts) \in AccountRows
    BY <1>1, <1>2, PatchedRow, CutsIsBoolean
  <2>4. /\ rows' \in [ Users -> AccountRows ]
        /\ rows'[who] = Patched(rows[who], kind, cuts)
        /\ \A v \in Users \ { who } : rows'[v] = rows[v]
    BY <1>2, <2>1, <2>3, RowsChange
  <2> QED
    BY <1>1, <1>4, <2>1, <2>2, <2>4
<1> QED
  BY <1>3, <1>4

LEMMA CreateWrote ==
  ASSUME TypeOK, NEW c \in Calls, CreateWrites(c)
  PROVE  /\ Wrote(c, None) /\ UNCHANGED << stored, owner, changes, cut >>
         /\ call[c].kind \notin PatchKinds
         /\ \/ UNCHANGED rows
            \/ /\ rows[call[c].target].role = "none"
               /\ rows' \in [ Users -> AccountRows ]
               /\ rows'[call[c].target].role # "none"
               /\ rows'[call[c].target].version = 0
               /\ rows'[call[c].target].active
               /\ \A v \in Users \ { call[c].target } : rows'[v] = rows[v]
<1>1. /\ call[c].stage = "read" /\ call[c].kind \notin PatchKinds /\ Free(c)
      /\ UNCHANGED << stored, owner, changes, cut >> /\ call[c].target \in Users
  BY Reader DEF CreateWrites, PatchKinds
<1>2. CASE rows[call[c].target].role # "none"
  <2>1. Answers(c, "409", None) /\ UNCHANGED rows
    BY <1>2 DEF CreateWrites, Refuses
  <2> QED
    BY <1>1, <2>1, AnswersWrote
<1>3. CASE rows[call[c].target].role = "none"
  <2>1. PICK role \in { "admin", "operador" } :
          rows' = [ rows EXCEPT ![call[c].target] = Row(role, TRUE) ]
    BY <1>3 DEF CreateWrites
  <2>2. Answers(c, "200", None)
    BY <1>3 DEF CreateWrites
  <2>3. /\ Row(role, TRUE) \in AccountRows /\ Row(role, TRUE).role = role
        /\ Row(role, TRUE).version = 0 /\ Row(role, TRUE).active
    BY DEF Row, AccountRows, Roles
  <2>4. /\ rows' \in [ Users -> AccountRows ]
        /\ rows'[call[c].target] = Row(role, TRUE)
        /\ \A v \in Users \ { call[c].target } : rows'[v] = rows[v]
    BY <1>1, <2>1, <2>3, RowsChange
  <2>5. Wrote(c, None)
    BY <1>1, <2>2, AnswersWrote
  <2> QED
    BY <1>1, <1>3, <2>3, <2>4, <2>5
<1> QED
  BY <1>2, <1>3

(* A change of password, by its owner or by ADMIN_PASSWORD, only makes the *)
(* version one more.                                                       *)
Bumped(u) ==
  /\ rows' \in [ Users -> AccountRows ]
  /\ rows'[u].version = rows[u].version + 1
  /\ rows'[u].role = rows[u].role
  /\ rows'[u].active <=> rows[u].active
  /\ \A v \in Users \ {u} : rows'[v] = rows[v]

LEMMA PasswordWrote ==
  ASSUME TypeOK, NEW c \in Calls, PasswordWrites(c)
  PROVE  /\ Wrote(c, rows[call[c].user].version + 1) /\ Bumped(call[c].user)
         /\ UNCHANGED << stored, owner, changes, cut >>
         /\ call[c].kind \notin PatchKinds
<1> DEFINE u == call[c].user
<1>1. /\ call[c].stage = "read" /\ call[c].kind \notin PatchKinds /\ Free(c)
      /\ UNCHANGED << stored, owner, changes, cut >>
      /\ u \in Users /\ rows[u] \in AccountRows
  BY Reader DEF PasswordWrites, PatchKinds
<1>2. PICK r \in AccountRows : r = rows[u]
  BY <1>1
<1>3. PICK version \in Nat : version = r.version + 1
  BY DEF AccountRows
<1>4. PICK row : row = [ r EXCEPT !.must = FALSE, !.version = version ]
  OBVIOUS
<1>5. /\ row \in AccountRows /\ row.version = rows[u].version + 1
      /\ row.role = rows[u].role /\ (row.active <=> rows[u].active)
      /\ rows' = [ rows EXCEPT ![u] = row ]
  <2>1. row \in AccountRows /\ row.version = version /\ row.role = r.role
    BY <1>4 DEF AccountRows
  <2>2. row.active = r.active
    BY <1>4 DEF AccountRows
  <2>3. row = WithNewPassword(r)
    <3>1. [ r EXCEPT !.must = FALSE ].version = r.version
      BY DEF AccountRows
    <3> QED
      BY <1>3, <1>4, <3>1 DEF WithNewPassword
  <2>4. rows' = [ rows EXCEPT ![u] = WithNewPassword(rows[u]) ]
    BY DEF PasswordWrites
  <2> QED
    BY <1>2, <2>1, <1>3, <2>2, <2>3, <2>4
<1>6. Bumped(u)
  BY <1>1, <1>5, RowsChange DEF Bumped
<1>7. rows[u].version + 1 \in Nat /\ Answers(c, "200", rows[u].version + 1)
  BY <1>1 DEF PasswordWrites, AccountRows
<1> QED
  BY <1>1, <1>6, <1>7, AnswersWrote

LEMMA SeedBumped ==
  ASSUME TypeOK, NEW u \in Users, SeedRotates(u)
  PROVE  Bumped(u)
<1>1. rows[u] \in AccountRows
  BY DEF TypeOK
<1>2. PICK row : row = [ rows[u] EXCEPT !.version = rows[u].version + 1 ]
  OBVIOUS
<1>3. /\ row \in AccountRows /\ row.version = rows[u].version + 1
      /\ row.role = rows[u].role /\ (row.active <=> rows[u].active)
  BY <1>1, <1>2 DEF AccountRows
<1>4. rows' = [ rows EXCEPT ![u] = row ]
  BY <1>2 DEF SeedRotates, TypeOK
<1> QED
  BY <1>3, <1>4, RowsChange DEF Bumped

-----------------------------------------------------------------------------
(* The invariant.                                                          *)

Reads(c) == call[c].stage = "read" /\ call[c].kind \in PatchKinds

(* The conjuncts of Inv that speak of one request.                         *)
Fits(c) ==
  /\ call[c].stage # "idle" =>
       \A token \in { call[c].token, call[c].fresh } :
         token # None => /\ rows[call[c].user].role # "none"
                         /\ token <= rows[call[c].user].version
  /\ call[c].stage # "idle" /\ call[c].kind # "login" => call[c].token # None
  /\ call[c].result = "session_changed" /\ call[c].token # None =>
       call[c].token < rows[call[c].user].version
  /\ call[c].result = "401" => call[c].kind = "login"
  /\ Reads(c) =>
       /\ call[c].seen \in AccountRows
       /\ call[c].seen.role # "none" => rows[call[c].target].role # "none"
  /\ Exclusive /\ Reads(c) =>
       owner = c /\ call[c].admins = ActiveAdmins /\ call[c].seen = rows[call[c].target]

(* ... and those that speak of one account.                                *)
AccountFits(u) ==
  /\ stored[u] # None => rows[u].role # "none" /\ stored[u] <= rows[u].version
  /\ rows[u].role = "none" => cut[u] = -1
  /\ rows[u].version > cut[u]

LEMMA InvByPart ==
  Inv <=> /\ TypeOK
          /\ \A c \in Calls : Fits(c)
          /\ \A u \in Users : AccountFits(u)
          /\ Exclusive => AdminRemains
BY DEF Inv, TokensAreDealt, RefusedIsOld, CutsAreOfAccounts, ReadsAreCurrent, CutStaysCut,
   Fits, AccountFits, Reads

LEMMA InvByPartAfter ==
  ASSUME TypeOK', \A c \in Calls : Fits(c)', \A u \in Users : AccountFits(u)',
         Exclusive => AdminRemains'
  PROVE  Inv'
BY DEF Inv, TokensAreDealt, RefusedIsOld, CutsAreOfAccounts, ReadsAreCurrent, CutStaysCut,
   Fits, AccountFits, Reads

(* An account stays, and its version never goes back.                      *)
Grows ==
  \A u \in Users : rows[u].role # "none" =>
    rows'[u].role # "none" /\ rows'[u].version >= rows[u].version

(* What a request knows stays true while others move.                      *)
LEMMA OthersFit ==
  ASSUME TypeOK, TypeOK', Grows, NEW d \in Calls, Fits(d), call'[d] = call[d],
         Exclusive /\ Reads(d) => rows' = rows /\ owner' = owner
  PROVE  Fits(d)'
<1> USE AccountsAssumption
<1>1. CASE call[d].stage = "idle"
  BY <1>1 DEF Fits, Reads, TypeOK, Idle, Requests
<1>2. CASE call[d].stage # "idle"
  <2>1. /\ call[d].user \in Users /\ call[d].token \in Nat \cup { None }
        /\ call[d].fresh \in Nat \cup { None }
    BY <1>2, Requested DEF Requests
  <2>2. rows[call[d].user].version \in Nat /\ rows'[call[d].user].version \in Nat
    BY <2>1 DEF TypeOK, AccountRows
  <2>3. Reads(d)' <=> Reads(d)
    BY DEF Reads
  <2>4. \A token \in { call'[d].token, call'[d].fresh } :
          token # None => /\ rows'[call'[d].user].role # "none"
                          /\ token <= rows'[call'[d].user].version
    BY <1>2, <2>1, <2>2 DEF Fits, Grows
  <2>5. call'[d].result = "session_changed" /\ call'[d].token # None =>
          call'[d].token < rows'[call'[d].user].version
    BY <1>2, <2>1, <2>2 DEF Fits, Grows
  <2>6. Reads(d) =>
          /\ call'[d].seen \in AccountRows
          /\ call'[d].seen.role # "none" => rows'[call'[d].target].role # "none"
    BY DEF Fits, Reads, Grows, TypeOK
  <2>7. Exclusive /\ Reads(d) =>
          owner' = d /\ call'[d].admins = ActiveAdmins' /\ call'[d].seen = rows'[call'[d].target]
    BY DEF Fits, ActiveAdmins
  <2>8. /\ call'[d].stage # "idle" /\ call'[d].kind # "login" => call'[d].token # None
        /\ call'[d].result = "401" => call'[d].kind = "login"
    BY DEF Fits
  <2> QED
    BY <2>3, <2>4, <2>5, <2>6, <2>7, <2>8 DEF Fits
<1> QED
  BY <1>1, <1>2

(* A request that may go on is alone: nobody else is in a transaction.     *)
LEMMA Alone ==
  ASSUME Inv, NEW c \in Calls, Free(c), NEW d \in Calls \ {c}
  PROVE  ~ (Exclusive /\ Reads(d))
BY InvByPart, AccountsAssumption DEF Free, Fits

(* A request that is answered, or starts, does not read.                   *)
LEMMA IdleFits == ASSUME NEW c \in Calls, call'[c] = Idle PROVE Fits(c)'
<1>1. None \notin { "401", "session_changed" }
  BY AccountsAssumption DEF Results
<1> QED
  BY <1>1 DEF Fits, Idle, Reads

LEMMA InitInv == Init => Inv
<1> SUFFICES ASSUME Init PROVE Inv
  OBVIOUS
<1> USE AccountsAssumption
<1>1. \A u \in Users : rows[u] \in AccountRows /\ rows[u].version = 0
                       /\ rows[u].role = InitialRole[u] /\ rows[u].active
  BY DEF Init, Row, AccountRows
<1>2. TypeOK
  <2>1. rows \in [ Users -> AccountRows ]
    BY <1>1 DEF Init
  <2>2. \A c \in Calls : call[c] = Idle /\ Idle.stage = "idle"
    BY DEF Init, Idle
  <2>3. call \in [ Calls -> Requests \cup { Idle } ]
    BY DEF Init
  <2>4. /\ stored \in [ Users -> Nat \cup { None } ] /\ changes \in 0 .. MaxChanges
        /\ cut \in [ Users -> Int ] /\ owner = None
    BY DEF Init
  <2> QED
    BY <2>1, <2>2, <2>3, <2>4 DEF TypeOK
<1>3. \A c \in Calls : Fits(c)
  <2>1. None \notin { "401", "session_changed" }
    BY DEF Results
  <2>2. \A c \in Calls : call[c] = Idle
    BY DEF Init
  <2> QED
    BY <2>1, <2>2 DEF Fits, Idle, Reads
<1>4. \A u \in Users : AccountFits(u)
  <2>1. \A u \in Users : cut[u] = -1 /\ stored[u] = None
    BY DEF Init
  <2> QED
    BY <1>1, <2>1 DEF AccountFits
<1>5. AdminRemains
  BY <1>1 DEF AdminRemains, ActiveAdmins
<1> QED
  BY <1>2, <1>3, <1>4, <1>5, InvByPart

(* A step of the network and the browser: rows, and what is cut, stay.     *)
LEMMA RowsStay ==
  ASSUME Inv, TypeOK', UNCHANGED << rows, cut >>, NEW c \in Calls, Fits(c)',
         \A d \in Calls \ {c} :
           call'[d] = call[d] /\ (Exclusive /\ Reads(d) => owner' = owner),
         \A u \in Users : AccountFits(u)'
  PROVE  Inv'
<1>1. Grows
  BY DEF Grows, TypeOK, AccountRows, Inv
<1>2. \A d \in Calls \ {c} : Fits(d)'
  BY <1>1, OthersFit, InvByPart
<1>3. ActiveAdmins' = ActiveAdmins
  BY DEF ActiveAdmins
<1>4. Exclusive => AdminRemains'
  BY <1>3, InvByPart DEF AdminRemains
<1> QED
  BY <1>2, <1>4, InvByPartAfter

LEMMA AccountsStay ==
  ASSUME Inv, UNCHANGED << rows, stored, cut >>
  PROVE  \A u \in Users : AccountFits(u)'
BY InvByPart DEF AccountFits

LEMMA LookStep == ASSUME Inv, NEW c \in Calls, Looks(c) PROVE Inv'
<1> USE AccountsAssumption
<1>1. TypeOK /\ Fits(c)
  BY InvByPart
<1>2. Looked(c)
  BY <1>1, LooksLooked
<1>3. UNCHANGED cut
  BY <1>2 DEF Looked
<1>4. /\ call[c] \in Requests /\ call[c].user \in Users
      /\ rows[call[c].user].version \in Nat /\ call[c].stage # "read"
  BY <1>1, <1>2, Requested DEF Looked, Requests, TypeOK, AccountRows
<1>5. TypeOK'
  <2>1. \A d \in Calls : call'[d].stage \in { "sent", "checked", "read" } => call'[d].target \in Users
    BY <1>1, <1>2 DEF Looked, TypeOK
  <2>2. owner' = None \/ (/\ owner' \in Calls /\ call'[owner'].stage = "read"
                          /\ call'[owner'].kind \in PatchKinds)
    <3>1. CASE owner' = owner
      BY <1>1, <1>2, <1>4, <3>1, OwnerKept DEF Looked
    <3>2. CASE owner' # owner
      BY <1>2, <3>2 DEF Looked
    <3> QED
      BY <3>1, <3>2
  <2> QED
    BY <1>1, <1>2, <2>1, <2>2 DEF Looked, TypeOK
<1>6. Fits(c)'
  <2>1. \A token \in { call'[c].token, call'[c].fresh } :
          token # None => /\ rows'[call'[c].user].role # "none"
                          /\ token <= rows'[call'[c].user].version
    BY <1>1, <1>2, <1>4 DEF Looked, Fits, Requests
  <2>2. call'[c].result = "session_changed" /\ call'[c].token # None =>
          call'[c].token < rows'[call'[c].user].version
    <3>1. call[c].token \in Nat \cup { None }
      BY <1>4 DEF Requests
    <3>2. call[c].token # None => call[c].token <= rows[call[c].user].version
      BY <1>1, <1>2 DEF Fits, Looked
    <3> QED
      BY <1>1, <1>2, <1>4, <3>1, <3>2 DEF Looked, Fits
  <2>3. ASSUME Reads(c)'
        PROVE  /\ call'[c].seen \in AccountRows
               /\ call'[c].seen.role # "none" => rows'[call'[c].target].role # "none"
               /\ owner' = c /\ call'[c].admins = ActiveAdmins'
               /\ call'[c].seen = rows'[call'[c].target]
    <3>1. /\ owner' = c /\ call'[c].admins = ActiveAdmins
          /\ call'[c].seen = rows[call[c].target] /\ call'[c].seen \in AccountRows
          /\ call'[c].target = call[c].target
      BY <1>2, <2>3 DEF Looked, Reads
    <3>2. rows' = rows /\ ActiveAdmins' = ActiveAdmins
      BY <1>2 DEF Looked, ActiveAdmins
    <3> QED
      BY <3>1, <3>2
  <2>4. /\ call'[c].kind # "login" => call'[c].token # None
        /\ call'[c].result = "401" => call'[c].kind = "login"
    BY <1>1, <1>2 DEF Looked, Fits
  <2> QED
    BY <2>1, <2>2, <2>3, <2>4 DEF Fits
<1>7. \A d \in Calls \ {c} : call'[d] = call[d] /\ ~ (Exclusive /\ Reads(d))
  BY <1>2, Alone DEF Looked
<1> QED
  BY <1>2, <1>3, <1>5, <1>6, <1>7, RowsStay, AccountsStay DEF Looked

LEMMA SendStep ==
  ASSUME Inv, NEW c \in Calls, NEW u \in Users, NEW target \in Users, NEW kind \in Kinds,
         Sends(c, u, kind, target)
  PROVE  Inv'
<1> USE AccountsAssumption
<1>1. TypeOK /\ AccountFits(u)
  BY InvByPart
<1>2. /\ UNCHANGED << rows, stored, owner, cut >> /\ call[c].stage = "idle"
      /\ changes' \in 0 .. MaxChanges
  BY <1>1 DEF Sends, TypeOK
<1>3. /\ call'[c] \in Requests /\ call'[c].stage = "sent" /\ call'[c].user = u
      /\ call'[c].token = stored[u] /\ call'[c].fresh = None /\ call'[c].result = None
      /\ \A d \in Calls \ {c} : call'[d] = call[d]
      /\ call' \in [ Calls -> Requests \cup { Idle } ]
      /\ call'[c].target = target /\ call'[c].kind = kind
  BY <1>1, Starts
<1>4. TypeOK'
  <2>1. \A d \in Calls : call'[d].stage \in { "sent", "checked", "read" } => call'[d].target \in Users
    BY <1>1, <1>3 DEF TypeOK
  <2> QED
    BY <1>1, <1>2, <1>3, <2>1, OwnerKept DEF TypeOK
<1>5. Fits(c)'
  <2>1. ~ Reads(c)'
    BY <1>3 DEF Reads
  <2>2. stored[u] # None => rows[u].role # "none" /\ stored[u] <= rows[u].version
    BY <1>1 DEF AccountFits
  <2>3. call'[c].result \notin { "401", "session_changed" }
    BY <1>3 DEF Results
  <2>4. kind # "login" => stored[u] # None
    BY DEF Sends
  <2> QED
    BY <1>2, <1>3, <2>1, <2>2, <2>3, <2>4 DEF Fits
<1> QED
  BY <1>2, <1>3, <1>4, <1>5, RowsStay, AccountsStay

(* The answer arrives, or is lost.                                         *)
LEMMA AnswerStep ==
  ASSUME Inv, NEW c \in Calls, Arrives(c) \/ AnswerLost(c)
  PROVE  Inv'
<1> USE AccountsAssumption
<1>1. TypeOK /\ Fits(c)
  BY InvByPart
<1>2. /\ UNCHANGED << rows, owner, changes, cut >> /\ Goes(c, Idle)
      /\ call[c].stage = "answered" /\ call[c] \in Requests
  BY <1>1, Requested DEF Arrives, AnswerLost
<1>3. /\ call'[c] = Idle
      /\ \A d \in Calls \ {c} : call'[d] = call[d]
      /\ call' \in [ Calls -> Requests \cup { Idle } ]
  BY <1>1, <1>2, Moves
<1>4. /\ call[c].user \in Users /\ call[c].fresh \in Nat \cup { None }
      /\ call[c].token \in Nat \cup { None }
  BY <1>2 DEF Requests
<1>5. /\ stored' \in [ Users -> Nat \cup { None } ]
      /\ \A u \in Users : \/ stored'[u] = stored[u]
                          \/ stored'[u] = None
                          \/ u = call[c].user /\ stored'[u] = call[c].fresh
  <2>1. CASE AnswerLost(c)
    BY <1>1, <2>1 DEF AnswerLost, TypeOK
  <2>2. CASE Arrives(c)
    <3>1. stored' = [ stored EXCEPT ![call[c].user] = TokenAfter(c) ]
      BY <2>2 DEF Arrives
    <3>2. TokenAfter(c) \in { call[c].fresh, None, stored[call[c].user] }
      BY DEF TokenAfter
    <3> QED
      BY <1>1, <1>4, <3>1, <3>2 DEF TypeOK
  <2> QED
    BY <1>2, <2>1, <2>2
<1>6. TypeOK'
  <2>1. \A d \in Calls : call'[d].stage \in { "sent", "checked", "read" } => call'[d].target \in Users
    BY <1>1, <1>3 DEF TypeOK, Idle
  <2> QED
    BY <1>1, <1>2, <1>3, <1>5, <2>1, OwnerKept DEF TypeOK
<1>7. \A u \in Users : AccountFits(u)'
  <2> SUFFICES ASSUME NEW u \in Users PROVE AccountFits(u)'
    OBVIOUS
  <2>1. AccountFits(u)
    BY InvByPart
  <2>2. call[c].fresh # None =>
          rows[call[c].user].role # "none" /\ call[c].fresh <= rows[call[c].user].version
    BY <1>1, <1>2 DEF Fits
  <2> QED
    BY <1>2, <1>5, <2>1, <2>2 DEF AccountFits
<1>8. Fits(c)'
  BY <1>3, IdleFits
<1> QED
  BY <1>2, <1>3, <1>6, <1>7, <1>8, RowsStay

LEMMA LogoutStep == ASSUME Inv, NEW u \in Users, Logout(u) PROVE Inv'
<1> USE AccountsAssumption
<1>1. TypeOK /\ \A v \in Users : AccountFits(v)
  BY InvByPart
<1>2. /\ UNCHANGED << rows, call, owner, changes, cut >>
      /\ stored' = [ stored EXCEPT ![u] = None ]
  BY DEF Logout
<1>3. TypeOK'
  BY <1>1, <1>2 DEF TypeOK
<1>4. \A v \in Users : AccountFits(v)'
  BY <1>1, <1>2 DEF AccountFits, TypeOK
<1>5. Grows
  BY <1>1, <1>2 DEF Grows, TypeOK, AccountRows
<1>6. \A d \in Calls : Fits(d)'
  BY <1>1, <1>2, <1>3, <1>5, OthersFit, InvByPart
<1>7. Exclusive => AdminRemains'
  BY <1>2, InvByPart DEF AdminRemains, ActiveAdmins
<1> QED
  BY <1>3, <1>4, <1>6, <1>7, InvByPartAfter

(* What remains to show of a step that writes: that the rows only grow,    *)
(* what it does to the accounts, and that an administrator remains.        *)
LEMMA WriteStep ==
  ASSUME Inv, TypeOK', Grows, NEW c \in Calls, NEW fresh, Wrote(c, fresh),
         \A token \in { call[c].token, fresh } :
           token # None => /\ rows'[call[c].user].role # "none"
                           /\ token <= rows'[call[c].user].version,
         \A u \in Users : AccountFits(u)',
         Exclusive => AdminRemains'
  PROVE  Inv'
<1>1. Fits(c)'
  <2>1. Fits(c) /\ call[c].stage = "read"
    BY InvByPart DEF Wrote
  <2> QED
    BY <2>1 DEF Wrote, Fits, Reads
<1>2. \A d \in Calls \ {c} : Fits(d)'
  <2> SUFFICES ASSUME NEW d \in Calls \ {c} PROVE Fits(d)'
    OBVIOUS
  <2>1. Free(c) /\ call'[d] = call[d]
    BY DEF Wrote
  <2>2. ~ (Exclusive /\ Reads(d))
    BY <2>1, Alone
  <2> QED
    BY <2>1, <2>2, OthersFit, InvByPart
<1> QED
  BY <1>1, <1>2, InvByPartAfter

(* The types after a step that writes.                                     *)
LEMMA WroteTypes ==
  ASSUME TypeOK, NEW c \in Calls, NEW fresh, Wrote(c, fresh),
         UNCHANGED stored, rows' \in [ Users -> AccountRows ],
         changes' \in 0 .. MaxChanges, cut' \in [ Users -> Int ],
         \/ owner' = owner /\ call[c].kind \notin PatchKinds
         \/ owner' = IF owner = c THEN None ELSE owner
  PROVE  TypeOK'
<1>1. \A d \in Calls : call'[d].stage \in { "sent", "checked", "read" } => call'[d].target \in Users
  BY DEF Wrote, TypeOK
<1>2. owner' = None \/ (/\ owner' \in Calls /\ call'[owner'].stage = "read"
                        /\ call'[owner'].kind \in PatchKinds)
  BY DEF Wrote, TypeOK
<1> QED
  BY <1>1, <1>2 DEF TypeOK, Wrote

(* The active administrators a patch leaves: the target may be one no      *)
(* more, and then another one was read.                                    *)
LEMMA PatchLeavesAdmin ==
  ASSUME NEW who \in Users, NEW kind \in PatchKinds, NEW role, NEW me, NEW admins,
         rows[who] \in AccountRows, admins = ActiveAdmins, AdminRemains,
         ~ Refused(role, me, who, kind, rows[who], admins),
         rows'[who].role = RoleAfter(kind, rows[who]),
         rows'[who].active = ActiveAfter(kind, rows[who]),
         \A v \in Users \ { who } : rows'[v] = rows[v]
  PROVE  AdminRemains'
<1>1. CASE \E v \in ActiveAdmins : v # who
  BY <1>1 DEF ActiveAdmins, AdminRemains
<1>2. CASE ~ \E v \in ActiveAdmins : v # who
  <2>1. who \in ActiveAdmins /\ ActiveAdmins \subseteq { who }
    BY <1>2 DEF AdminRemains
  <2>2. rows[who].role = "admin" /\ rows[who].active
    BY <2>1 DEF ActiveAdmins
  <2>3. /\ RoleAfter(kind, rows[who]) = rows[who].role
        /\ ActiveAfter(kind, rows[who])
    BY <2>1, <2>2 DEF Refused
  <2>4. who \in ActiveAdmins'
    BY <2>2, <2>3 DEF ActiveAdmins
  <2> QED
    BY <2>4 DEF AdminRemains
<1> QED
  BY <1>1, <1>2

LEMMA RoleStaysRole ==
  ASSUME NEW r \in AccountRows, NEW kind \in PatchKinds, r.role # "none"
  PROVE  RoleAfter(kind, r) # "none"
BY DEF RoleAfter

LEMMA PatchStep == ASSUME Inv, NEW c \in Calls, PatchWrites(c) PROVE Inv'
<1> USE AccountsAssumption
<1> DEFINE who == call[c].target
           kind == call[c].kind
           cuts == CutsSession(kind, call[c].seen)
<1>1. TypeOK /\ Fits(c) /\ \A u \in Users : AccountFits(u)
  BY InvByPart
<1>2. /\ Wrote(c, None) /\ UNCHANGED << stored, changes >> /\ kind \in PatchKinds
      /\ owner' = IF owner = c THEN None ELSE owner
  BY <1>1, PatchWrote
<1>3. /\ call[c].stage = "read" /\ who \in Users /\ rows[who] \in AccountRows
      /\ call[c].user \in Users /\ rows[call[c].user] \in AccountRows
      /\ call[c].token \in Nat \cup { None }
  BY <1>1, <1>2, Reader DEF Wrote, Requests
<1>4. \A token \in { call[c].token, None } :
        token # None => /\ rows[call[c].user].role # "none"
                        /\ token <= rows[call[c].user].version
  BY <1>1, <1>3 DEF Fits
<1>5. CASE UNCHANGED << rows, cut >>
  <2>1. TypeOK'
    BY <1>1, <1>2, <1>5, WroteTypes DEF TypeOK
  <2>2. Grows
    BY <1>1, <1>5 DEF Grows, TypeOK, AccountRows
  <2>3. Exclusive => AdminRemains'
    BY <1>5, InvByPart DEF AdminRemains, ActiveAdmins
  <2>4. \A u \in Users : AccountFits(u)'
    BY <1>2, <1>5, AccountsStay
  <2> QED
    BY <1>2, <1>4, <1>5, <2>1, <2>2, <2>3, <2>4, WriteStep
<1>6. CASE ~ UNCHANGED << rows, cut >>
  <2>1. /\ ~ Refused(call[c].role, call[c].user, who, kind, call[c].seen, call[c].admins)
        /\ rows'[who] = Patched(rows[who], kind, cuts)
        /\ rows' \in [ Users -> AccountRows ]
        /\ \A v \in Users \ { who } : rows'[v] = rows[v]
        /\ cut' = [ cut EXCEPT ![who] = IF cuts THEN rows[who].version ELSE @ ]
    BY <1>1, <1>6, PatchWrote
  <2>2. /\ rows'[who].role = RoleAfter(kind, rows[who])
        /\ rows'[who].active = ActiveAfter(kind, rows[who])
        /\ rows'[who].version = IF cuts THEN rows[who].version + 1 ELSE rows[who].version
    BY <1>2, <1>3, <2>1, PatchedRow, CutsIsBoolean
  <2>3. rows[who].role # "none"
    BY <1>1, <1>2, <1>3, <2>1 DEF Fits, Reads, Refused
  <2>4. rows'[who].role # "none"
    BY <1>2, <1>3, <2>2, <2>3, RoleStaysRole
  <2>5. /\ \A u \in Users : rows[u].version \in Nat /\ rows'[u].version \in Nat
        /\ \A u \in Users : cut[u] \in Int /\ stored[u] \in Nat \cup { None }
        /\ cut' \in [ Users -> Int ] /\ changes' \in 0 .. MaxChanges
    BY <1>1, <1>2, <1>3, <2>1 DEF TypeOK, AccountRows
  <2>6. Grows
    BY <2>1, <2>2, <2>4, <2>5 DEF Grows
  <2>7. TypeOK'
    BY <1>1, <1>2, <2>1, <2>5, WroteTypes
  <2>8. \A u \in Users : AccountFits(u)'
    <3> SUFFICES ASSUME NEW u \in Users PROVE AccountFits(u)'
      OBVIOUS
    <3>1. AccountFits(u) /\ stored'[u] = stored[u]
      BY <1>1, <1>2
    <3>2. CASE u = who
      <4>1. cut'[u] = IF cuts THEN rows[u].version ELSE cut[u]
        BY <1>1, <2>1, <3>2 DEF TypeOK
      <4> QED
        BY <2>2, <2>3, <2>4, <2>5, <3>1, <3>2, <4>1 DEF AccountFits
    <3>3. CASE u # who
      <4>1. cut'[u] = cut[u] /\ rows'[u] = rows[u]
        BY <1>1, <2>1, <3>3 DEF TypeOK
      <4> QED
        BY <3>1, <4>1 DEF AccountFits
    <3> QED
      BY <3>2, <3>3
  <2>9. Exclusive => AdminRemains'
    <3> SUFFICES ASSUME Exclusive PROVE AdminRemains'
      OBVIOUS
    <3>1. call[c].admins = ActiveAdmins /\ call[c].seen = rows[who] /\ AdminRemains
      BY <1>1, <1>2, <1>3, InvByPart DEF Fits, Reads
    <3> QED
      BY <1>2, <1>3, <2>1, <2>2, <3>1, PatchLeavesAdmin
  <2>10. \A token \in { call[c].token, None } :
           token # None => /\ rows'[call[c].user].role # "none"
                           /\ token <= rows'[call[c].user].version
    BY <1>3, <1>4, <2>5, <2>6 DEF Grows
  <2> QED
    BY <1>2, <2>6, <2>7, <2>8, <2>9, <2>10, WriteStep
<1> QED
  BY <1>5, <1>6

LEMMA CreateStep == ASSUME Inv, NEW c \in Calls, CreateWrites(c) PROVE Inv'
<1> USE AccountsAssumption
<1> DEFINE who == call[c].target
<1>1. TypeOK /\ Fits(c) /\ \A u \in Users : AccountFits(u)
  BY InvByPart
<1>2. /\ Wrote(c, None) /\ UNCHANGED << stored, owner, changes, cut >>
      /\ call[c].kind \notin PatchKinds
      /\ \/ UNCHANGED rows
         \/ /\ rows[who].role = "none"
            /\ rows' \in [ Users -> AccountRows ]
            /\ rows'[who].role # "none" /\ rows'[who].version = 0 /\ rows'[who].active
            /\ \A v \in Users \ { who } : rows'[v] = rows[v]
  BY <1>1, CreateWrote
<1>3. /\ call[c].stage = "read" /\ who \in Users
      /\ call[c].user \in Users /\ call[c].token \in Nat \cup { None }
  BY <1>1, <1>2, Reader DEF Wrote, Requests
<1>4. rows' \in [ Users -> AccountRows ]
  BY <1>1, <1>2 DEF TypeOK
<1>5. \A u \in Users : rows[u].version \in Nat /\ rows'[u].version \in Nat
                       /\ cut[u] \in Int /\ stored[u] \in Nat \cup { None }
  BY <1>1, <1>4 DEF TypeOK, AccountRows
<1>6. Grows
  BY <1>2, <1>5 DEF Grows
<1>7. TypeOK'
  BY <1>1, <1>2, <1>4, WroteTypes DEF TypeOK
<1>8. \A u \in Users : AccountFits(u)'
  BY <1>1, <1>2, <1>5 DEF AccountFits
<1>9. AdminRemains => AdminRemains'
  BY <1>2, <1>3 DEF AdminRemains, ActiveAdmins
<1>10. \A token \in { call[c].token, None } :
         token # None => /\ rows'[call[c].user].role # "none"
                         /\ token <= rows'[call[c].user].version
  BY <1>1, <1>3, <1>5, <1>6 DEF Fits, Grows
<1> QED
  BY <1>2, <1>6, <1>7, <1>8, <1>9, <1>10, WriteStep, InvByPart

(* A version that is one more disturbs nobody.                             *)
LEMMA BumpKeeps ==
  ASSUME Inv, NEW u \in Users, Bumped(u), UNCHANGED << stored, cut >>
  PROVE  /\ Grows /\ \A v \in Users : AccountFits(v)'
         /\ Exclusive => AdminRemains'
<1> USE AccountsAssumption
<1>1. TypeOK /\ \A v \in Users : AccountFits(v)
  BY InvByPart
<1>2. \A v \in Users : rows[v].version \in Nat /\ rows'[v].version \in Nat
                       /\ cut[v] \in Int /\ stored[v] \in Nat \cup { None }
  BY <1>1 DEF Bumped, TypeOK, AccountRows
<1>3. Grows
  BY <1>2 DEF Grows, Bumped
<1>4. \A v \in Users : AccountFits(v)'
  BY <1>1, <1>2 DEF AccountFits, Bumped
<1>5. Exclusive => AdminRemains'
  BY InvByPart DEF AdminRemains, ActiveAdmins, Bumped
<1> QED
  BY <1>3, <1>4, <1>5

LEMMA PasswordStep == ASSUME Inv, NEW c \in Calls, PasswordWrites(c) PROVE Inv'
<1> USE AccountsAssumption
<1> DEFINE u == call[c].user
           fresh == rows[u].version + 1
<1>1. TypeOK /\ Fits(c)
  BY InvByPart
<1>2. /\ Wrote(c, fresh) /\ Bumped(u) /\ UNCHANGED << stored, owner, changes, cut >>
      /\ call[c].kind \notin PatchKinds
  BY <1>1, PasswordWrote
<1>3. /\ call[c].stage = "read" /\ u \in Users /\ call[c].token \in Nat \cup { None }
  BY <1>1, <1>2, Reader DEF Wrote, Requests
<1>4. /\ Grows /\ \A v \in Users : AccountFits(v)'
      /\ Exclusive => AdminRemains'
  BY <1>2, <1>3, BumpKeeps
<1>5. TypeOK'
  BY <1>1, <1>2, WroteTypes DEF TypeOK, Bumped
<1>6. \A token \in { call[c].token, fresh } :
        token # None => rows'[u].role # "none" /\ token <= rows'[u].version
  <2>1. rows[u].version \in Nat /\ rows'[u].version = fresh /\ rows'[u].role = rows[u].role
    BY <1>1, <1>2, <1>3 DEF Bumped, TypeOK, AccountRows
  <2>2. call[c].token # None => rows[u].role # "none" /\ call[c].token <= rows[u].version
    BY <1>1, <1>3 DEF Fits
  <2>3. rows[u].role # "none"
    BY <1>1, <1>3, <2>2 DEF PasswordWrites, Fits
  <2> QED
    BY <1>3, <2>1, <2>2, <2>3
<1> QED
  BY <1>2, <1>4, <1>5, <1>6, WriteStep

LEMMA SeedStep == ASSUME Inv, NEW u \in Users, SeedRotates(u) PROVE Inv'
<1> USE AccountsAssumption
<1>1. TypeOK
  BY InvByPart
<1>2. /\ Bumped(u) /\ UNCHANGED << stored, call, owner, cut >>
      /\ changes' \in 0 .. MaxChanges
      /\ \A d \in Calls : ~ Reads(d)
  <2>1. Bumped(u)
    BY <1>1, SeedBumped DEF TypeOK
  <2>2. changes \in 0 .. MaxChanges /\ changes < MaxChanges /\ changes' = changes + 1
    BY <1>1 DEF SeedRotates, TypeOK
  <2>3. changes' \in 0 .. MaxChanges
    BY <2>2
  <2>4. \A d \in Calls : call[d].stage # "read"
    BY DEF SeedRotates
  <2> QED
    BY <2>1, <2>3, <2>4 DEF SeedRotates, Reads
<1>3. /\ Grows /\ \A v \in Users : AccountFits(v)'
      /\ Exclusive => AdminRemains'
  BY <1>2, BumpKeeps
<1>4. TypeOK'
  BY <1>1, <1>2 DEF TypeOK, Bumped
<1>5. \A d \in Calls : Fits(d)'
  BY <1>1, <1>2, <1>3, <1>4, OthersFit, InvByPart
<1> QED
  BY <1>3, <1>4, <1>5, InvByPartAfter

LEMMA NextInv == Inv /\ [Next]_vars => Inv'
<1> SUFFICES ASSUME Inv, [Next]_vars PROVE Inv'
  OBVIOUS
<1>1. CASE UNCHANGED vars
  BY <1>1 DEF vars, Inv, TypeOK, TokensAreDealt, RefusedIsOld, CutsAreOfAccounts,
     ReadsAreCurrent, CutStaysCut, AdminRemains, ActiveAdmins
<1>2. ASSUME NEW c \in Calls, NEW u \in Users, NEW target \in Users, NEW kind \in Kinds,
             Sends(c, u, kind, target)
      PROVE  Inv'
  BY <1>2, SendStep
<1>3. ASSUME NEW c \in Calls, Looks(c) PROVE Inv'
  BY <1>3, LookStep
<1>4. ASSUME NEW c \in Calls, PatchWrites(c) \/ CreateWrites(c) \/ PasswordWrites(c)
      PROVE  Inv'
  BY <1>4, PatchStep, CreateStep, PasswordStep
<1>5. ASSUME NEW c \in Calls, Arrives(c) \/ AnswerLost(c) PROVE Inv'
  BY <1>5, AnswerStep
<1>6. ASSUME NEW u \in Users, SeedRotates(u) \/ Logout(u) PROVE Inv'
  BY <1>6, SeedStep, LogoutStep
<1> QED
  BY <1>1, <1>2, <1>3, <1>4, <1>5, <1>6 DEF Next, Looks

(* The invariant holds in every reachable state, on a connection of its    *)
(* own or a shared one.                                                    *)
THEOREM Invariance == Spec => []Inv
BY InitInv, NextInv, PTL DEF Spec

THEOREM TypeCorrect == Spec => []TypeOK
<1>1. Inv => TypeOK
  BY DEF Inv
<1> QED
  BY <1>1, Invariance, PTL

(* However many requests change accounts at the same time, an active       *)
(* administrator remains, as long as a transaction keeps others out.       *)
THEOREM AdminAlwaysRemains == ASSUME Exclusive PROVE Spec => []AdminRemains
<1>1. Inv => AdminRemains
  BY DEF Inv
<1> QED
  BY <1>1, Invariance, PTL

(* What was cut off stays cut off, on a shared connection too.             *)
THEOREM CutAlwaysStays == Spec => []CutStaysCut
<1>1. Inv => CutStaysCut
  BY DEF Inv
<1> QED
  BY <1>1, Invariance, PTL

(* An answer that comes late does not throw out somebody whose token is    *)
(* good, unless the account was found inactive.                            *)
THEOREM NoGoodTokenDropped == Spec => OnlyDeadTokensDropped
<1> USE AccountsAssumption
<1> DEFINE Dead(u) == \/ ~ Valid(u, stored[u])
                      \/ \E c \in Calls : call[c].user = u /\ call[c].result = "inactive"
                                          /\ call'[c] = Idle
           A == \A u \in Users :
                  stored[u] # None /\ stored'[u] = None /\ call' # call => Dead(u)
<1>1. Inv /\ [Next]_vars => [A]_vars
  <2> SUFFICES ASSUME Inv, Next, NEW u \in Users,
                      stored[u] # None, stored'[u] = None, call' # call
               PROVE  Dead(u)
    OBVIOUS
  <2>1. TypeOK /\ \A c \in Calls : Fits(c)
    BY InvByPart
  <2>2. PICK c \in Calls : Arrives(c)
    <3>1. ~ UNCHANGED stored
      OBVIOUS
    <3>2. \A c \in Calls : ~ Looks(c)
      BY <2>1, <3>1, LooksLooked DEF Looked
    <3> QED
      BY <3>1, <3>2 DEF Next, Looks, Sends, PatchWrites, CreateWrites, PasswordWrites, AnswerLost,
         SeedRotates, Logout
  <2>3. /\ call[c] \in Requests /\ call[c].stage = "answered"
        /\ stored' = [ stored EXCEPT ![call[c].user] = TokenAfter(c) ]
        /\ call'[c] = Idle
    BY <2>1, <2>2, Requested, Moves DEF Arrives
  <2>4. u = call[c].user /\ TokenAfter(c) = None
    BY <2>1, <2>3 DEF TypeOK, Requests
  <2>5. Unauthorized(c) /\ call[c].kind # "login" /\ stored[u] = call[c].token
    BY <2>4 DEF TokenAfter
  <2>6. CASE call[c].result = "inactive"
    BY <2>3, <2>4, <2>6
  <2>7. CASE call[c].result = "session_changed"
    <3>1. call[c].token < rows[u].version /\ call[c].token \in Nat /\ rows[u].version \in Nat
      BY <2>1, <2>3, <2>4, <2>5, <2>7 DEF Fits, Requests, TypeOK, AccountRows
    <3> QED
      BY <2>5, <3>1 DEF Valid
  <2>8. CASE call[c].result = "401"
    BY <2>1, <2>3, <2>5, <2>8 DEF Fits
  <2> QED
    BY <2>5, <2>6, <2>7, <2>8 DEF Unauthorized
<1> QED
  BY <1>1, Invariance, PTL DEF Spec, OnlyDeadTokensDropped

(* To count at most one active administrator is to find nobody else.       *)
LEMMA LastAdmin ==
  ASSUME NEW who \in Users, rows[who].role = "admin", rows[who].active
  PROVE  Cardinality(ActiveAdmins) <= 1 <=> ActiveAdmins \subseteq { who }
<1>1. who \in ActiveAdmins /\ IsFiniteSet(ActiveAdmins)
  BY AccountsAssumption, FS_Subset DEF AccountsAssumption, ActiveAdmins
<1>2. Cardinality(ActiveAdmins) \in Nat
      /\ (Cardinality(ActiveAdmins) = 0 <=> ActiveAdmins = {})
      /\ (Cardinality(ActiveAdmins) = 1 <=> \E x : ActiveAdmins = { x })
  BY <1>1, FS_CardinalityType, FS_EmptySet, FS_Singleton
<1>3. Cardinality(ActiveAdmins) <= 1 <=> \E x : ActiveAdmins = { x }
  BY <1>1, <1>2
<1> QED
  BY <1>1, <1>3

LEMMA SameRules == TypeOK => PanelAgrees
<1> SUFFICES ASSUME TypeOK, NEW me \in Users, NEW who \in Users, NEW kind \in PatchKinds,
                    rows[me].role \in { "tecnico", "admin" }, rows[me].active
             PROVE  Offered(me, who, kind)
                      <=> /\ \/ kind = "reset" /\ rows[who].active
                             \/ RoleAfter(kind, rows[who]) # rows[who].role
                             \/ ActiveAfter(kind, rows[who]) # rows[who].active
                          /\ ~ Refused(rows[me].role, me, who, kind, rows[who], ActiveAdmins)
  BY DEF PanelAgrees
<1>1. /\ rows[who].role \in Roles \cup { "none" } /\ rows[who].active \in BOOLEAN
      /\ who = me => rows[who].active /\ rows[who].role # "none"
  BY DEF TypeOK, AccountRows
<1>2. rows[who].role = "admin" /\ rows[who].active =>
        (Cardinality(ActiveAdmins) <= 1 <=> ActiveAdmins \subseteq { who })
  BY LastAdmin
<1>3. CASE kind = "promote"
  BY <1>1, <1>2, <1>3 DEF Offered, ActionState, Refused, RoleAfter, ActiveAfter, Roles
<1>4. CASE kind = "demote"
  BY <1>1, <1>2, <1>4 DEF Offered, ActionState, Refused, RoleAfter, ActiveAfter, Roles
<1>5. CASE kind = "deactivate"
  BY <1>1, <1>2, <1>5 DEF Offered, ActionState, Refused, RoleAfter, ActiveAfter, Roles
<1>6. CASE kind = "reactivate"
  BY <1>1, <1>2, <1>6 DEF Offered, ActionState, Refused, RoleAfter, ActiveAfter, Roles
<1>7. CASE kind = "reset"
  BY <1>1, <1>2, <1>7 DEF Offered, ActionState, Refused, RoleAfter, ActiveAfter, Roles
<1> QED
  BY <1>3, <1>4, <1>5, <1>6, <1>7 DEF PatchKinds

(* The panel offers what the server would do and nothing else, for any     *)
(* accounts the program can reach (userRules.ts:23-48, userService.ts:125-143). *)
THEOREM PanelAlwaysAgrees == Spec => []PanelAgrees
BY TypeCorrect, SameRules, PTL
=============================================================================
